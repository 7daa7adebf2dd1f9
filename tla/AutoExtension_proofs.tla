------------------------ MODULE AutoExtension_proofs ------------------------
(* Proofs about AutoExtension, for any contracts, entries, accounts, limits     *)
(* and number of faults: what the database says about extensions is true on    *)
(* the chain, tracked spending stays within its limit, and every account that  *)
(* the pool hands to an attempt comes back from it.                            *)
EXTENDS AutoExtension, FiniteSetTheorems, TLAPS

\* The pool of a run; the order of its hand-outs plays no part here.
PoolProofs == INSTANCE ChannelPool_proofs WITH Callers <- Contracts, since <- {}

USE DEF vars, onchain, db, run, pool

-----------------------------------------------------------------------------
(* Types of what the invariants below speak of. Those of the pool are left to  *)
(* ChannelPool_proofs.                                                        *)

DataTypes ==
  /\ now \in Nat
  /\ latest \in Nat
  /\ until \in [Entries -> Nat]
  /\ known \in [Entries -> Nat]
  /\ spent \in [Contracts -> Nat]
  /\ submissions \in Nat
  /\ att \in [Contracts -> Attempt]

LEMMA MaxOfTwo ==
  ASSUME NEW m \in Nat, NEW n \in Nat
  PROVE  /\ Max({m, n}) \in Nat
         /\ m <= Max({m, n})
         /\ n <= Max({m, n})
<1>1. \E x \in {m, n} : \A y \in {m, n} : x >= y
  OBVIOUS
<1>2. Max({m, n}) \in {m, n} /\ \A y \in {m, n} : Max({m, n}) >= y
  BY <1>1 DEF Max
<1> QED
  BY <1>2

LEMMA FreshIsAttempt ==
  ASSUME NEW s \in Stages
  PROVE  /\ Fresh(s) \in Attempt
         /\ Fresh(s).at = s
         /\ Fresh(s).hash = 0
         /\ \A ks \in SUBSET Entries :
               /\ [Fresh(s) EXCEPT !.keys = ks] \in Attempt
               /\ [Fresh(s) EXCEPT !.keys = ks].at = s
               /\ [Fresh(s) EXCEPT !.keys = ks].hash = 0
BY DEF Fresh, Attempt

\* What a step does to the locals of the attempt it belongs to.
LEMMA MovesOne ==
  ASSUME DataTypes, NEW c \in Contracts, NEW r \in Attempt, Moves(c, r)
  PROVE  /\ att' \in [Contracts -> Attempt]
         /\ att'[c] = r
         /\ \A d \in Contracts \ {c} : att'[d] = att[d]
BY DEF DataTypes, Moves

LEMMA FinishesOne ==
  ASSUME DataTypes, NEW c \in Contracts, Finishes(c)
  PROVE  /\ att' \in [Contracts -> Attempt]
         /\ att'[c] = Fresh("done")
         /\ \A d \in Contracts \ {c} : att'[d] = att[d]
BY FreshIsAttempt, MovesOne DEF Finishes, Stages

\* A step is one of the chain, the monitor or the loop, the end of a run, or a
\* step of one attempt.
Restart ==
  /\ att' = [c \in Contracts |-> Fresh("idle")]
  /\ UNCHANGED <<onchain, db, submissions>>

Outside == UNCHANGED <<att, spent, history, submissions>>

LEMMA NextCases ==
  ASSUME DataTypes, [Next]_vars
  PROVE  \/ Outside
         \/ Restart
         \/ \E c \in Contracts : Progress(c) \/ SimulationFails(c) \/ GivesUp(c)
<1>1. CASE LedgerCloses \/ StartCycle \/ StartRun \/ RunFails \/ UNCHANGED vars
  BY <1>1 DEF LedgerCloses, StartCycle, StartRun, RunFails, Outside
<1>2. ASSUME NEW t \in pending, Lands(t) \/ IsLost(t)
      PROVE  Outside
  BY <1>2 DEF Lands, IsLost, Outside
<1>3. ASSUME NEW c \in Contracts, Checks(c) \/ CheckFails(c)
      PROVE  Outside
  BY <1>3 DEF Checks, CheckFails, Outside
<1>4. CASE EndRun \/ Crash
  BY <1>4 DEF EndRun, Crash, Restart
<1> QED
  BY <1>1, <1>2, <1>3, <1>4 DEF Next

\* The steps of an attempt, with what each assigns to its locals.
LEMMA AttemptStepTypes ==
  ASSUME DataTypes, NEW c \in Contracts, Progress(c) \/ SimulationFails(c) \/ GivesUp(c)
  PROVE  /\ att' \in [Contracts -> Attempt]
         /\ submissions' \in Nat
         /\ \A d \in Contracts \ {c} : att'[d] = att[d]
<1>. USE FreshIsAttempt DEF Stages
<1>0. att[c] \in Attempt /\ submissions \in Nat
  BY DEF DataTypes
<1>1. CASE NothingToDo(c) \/ RateLimited(c) \/ PolicyUnresolved(c)
  BY <1>0, <1>1, MovesOne DEF NothingToDo, RateLimited, PolicyUnresolved
<1>2. CASE AsksForKey(c)
  <2>1. NeedsExtension(c) \in SUBSET Entries
    BY DEF NeedsExtension, EntriesOf
  <2> QED
    BY <1>0, <1>2, <2>1, MovesOne DEF AsksForKey
<1>3. CASE ChannelResolves(c)
  <2>1. [att[c] EXCEPT !.at = "budget", !.key = slot[c]] \in Attempt
    BY <1>0, <1>3 DEF ChannelResolves, Attempt
  <2> QED
    BY <1>0, <1>3, <2>1, MovesOne DEF ChannelResolves
<1>4. CASE ChannelUnresolved(c)
  <2>1. [att[c] EXCEPT !.at = "policy"] \in Attempt
    BY <1>0 DEF Attempt
  <2> QED
    BY <1>0, <1>4, <2>1, MovesOne DEF ChannelUnresolved
<1>5. CASE PolicyResolves(c)
  <2>1. [att[c] EXCEPT !.at = "budget", !.key = PolicyKey[c]] \in Attempt
    BY <1>0, <1>5 DEF PolicyResolves, Attempt
  <2> QED
    BY <1>0, <1>5, <2>1, MovesOne DEF PolicyResolves
<1>6. CASE ReadsBudget(c)
  <2>1. [att[c] EXCEPT !.at = "submit"] \in Attempt
    BY <1>0 DEF Attempt
  <2>2. [att[c] EXCEPT !.at = "simulate", !.seen = spent[c]] \in Attempt
    BY <1>0 DEF Attempt, DataTypes
  <2> QED
    BY <1>0, <1>6, <2>1, <2>2, MovesOne DEF ReadsBudget
<1>7. CASE Simulates(c) \/ SimulationFails(c)
  <2>1. \A est \in {0, Fee} : [att[c] EXCEPT !.at = "submit", !.est = est] \in Attempt
    BY <1>0 DEF Attempt
  <2> QED
    BY <1>0, <1>7, <2>1, MovesOne, FinishesOne DEF Simulates, SimulationFails, EstimateReplies
<1>8. CASE Submits(c)
  <2>1. submissions' \in Nat
    BY <1>0, <1>8 DEF Submits
  <2>2. [att[c] EXCEPT !.at = "poll", !.hash = submissions'] \in Attempt
    BY <1>0, <2>1 DEF Attempt
  <2> QED
    BY <1>8, <2>1, <2>2, MovesOne DEF Submits
<1>9. CASE SeesSuccess(c)
  <2>1. [att[c] EXCEPT !.at = "record"] \in Attempt
    BY <1>0 DEF Attempt
  <2> QED
    BY <1>0, <1>9, <2>1, MovesOne DEF SeesSuccess
<1>10. CASE SeesFailure(c) \/ Records(c) \/ GivesUp(c)
  BY <1>0, <1>10, FinishesOne DEF SeesFailure, Records, GivesUp
<1> QED
  BY <1>1, <1>2, <1>3, <1>4, <1>5, <1>6, <1>7, <1>8, <1>9, <1>10 DEF Progress

\* The chain and the rows that mirror it: their types, and that no TTL shrinks.
LEMMA ChainStep ==
  ASSUME DataTypes, [Next]_vars
  PROVE  /\ now' \in Nat /\ now <= now'
         /\ latest' \in Nat
         /\ until' \in [Entries -> Nat]
         /\ \A e \in Entries : until[e] <= until'[e]
         /\ known' \in [Entries -> Nat]
         /\ \A e \in Entries : known'[e] \in {known[e], until[e]}
         /\ spent' \in [Contracts -> Nat]
<1>. USE DEF DataTypes
<1>1. CASE LedgerCloses \/ StartCycle \/ StartRun \/ RunFails \/ UNCHANGED vars
  BY <1>1 DEF LedgerCloses, StartCycle, StartRun, RunFails
<1>2. ASSUME NEW t \in pending, IsLost(t)
      PROVE  UNCHANGED <<now, latest, until, known, spent>>
  BY <1>2 DEF IsLost
<1>3. ASSUME NEW t \in pending, Lands(t)
      PROVE  /\ UNCHANGED <<now, latest, known, spent>>
             /\ until' \in [Entries -> Nat]
             /\ \A e \in Entries : until[e] <= until'[e]
  <2>1. now + Target \in Nat
    BY ExtensionAssumption
  <2>2. \A e \in Entries : /\ Max({until[e], now + Target}) \in Nat
                           /\ until[e] <= Max({until[e], now + Target})
    BY <2>1, MaxOfTwo
  <2> QED
    BY <1>3, <2>2 DEF Lands
<1>4. ASSUME NEW c \in Contracts, Checks(c) \/ CheckFails(c)
      PROVE  /\ UNCHANGED <<now, latest, until, spent>>
             /\ known' \in [Entries -> Nat]
             /\ \A e \in Entries : known'[e] \in {known[e], until[e]}
  BY <1>4 DEF Checks, CheckFails
<1>5. CASE EndRun \/ Crash
  BY <1>5 DEF EndRun, Crash
<1>6. ASSUME NEW c \in Contracts, Records(c)
      PROVE  /\ UNCHANGED <<now, latest, until>>
             /\ known' \in [Entries -> Nat]
             /\ \A e \in Entries : known'[e] \in {known[e], until[e]}
             /\ spent' \in [Contracts -> Nat]
  <2>1. Charge(c) \in Nat
    BY ExtensionAssumption DEF Charge, Attempt
  <2> QED
    BY <1>6, <2>1 DEF Records, KnownAfter
<1>7. ASSUME NEW c \in Contracts, (Progress(c) /\ ~ Records(c)) \/ SimulationFails(c) \/ GivesUp(c)
      PROVE  UNCHANGED <<now, latest, until, known, spent>>
  BY <1>7 DEF Progress, NothingToDo, RateLimited, AsksForKey, ChannelResolves,
              ChannelUnresolved, PolicyResolves, PolicyUnresolved, ReadsBudget, Simulates,
              SimulationFails, EstimateReplies, Submits, SeesSuccess, SeesFailure, GivesUp
<1> QED
  BY <1>1, <1>2, <1>3, <1>4, <1>5, <1>6, <1>7 DEF Next

THEOREM TypesHold == Spec => []DataTypes
<1>1. Init => DataTypes
  BY FreshIsAttempt, ExtensionAssumption DEF Init, DataTypes, Stages
<1>2. DataTypes /\ [Next]_vars => DataTypes'
  <2> SUFFICES ASSUME DataTypes, [Next]_vars
               PROVE  att' \in [Contracts -> Attempt] /\ submissions' \in Nat
    BY ChainStep DEF DataTypes
  <2>1. CASE Outside
    BY <2>1 DEF Outside, DataTypes
  <2>2. CASE Restart
    BY <2>2, FreshIsAttempt DEF Restart, DataTypes, Stages
  <2> QED
    BY <2>1, <2>2, NextCases, AttemptStepTypes
<1> QED
  BY <1>1, <1>2, PTL DEF Spec

-----------------------------------------------------------------------------
(* What the database says of a TTL.                                           *)

\* contract_entries never promises more life than an entry has: rows are copied
\* from the chain, by the monitor and after an extension, and no step of the
\* chain shortens a life.
THEOREM RowsLagBehind == Spec => []NeverOverstated
<1>1. Init => NeverOverstated
  BY DEF Init, NeverOverstated
<1>2. DataTypes /\ NeverOverstated /\ [Next]_vars => NeverOverstated'
  <2> SUFFICES ASSUME DataTypes, NeverOverstated, [Next]_vars,
                      NEW e \in Entries
               PROVE  known'[e] <= until'[e]
    BY DEF NeverOverstated
  <2>1. known[e] \in Nat /\ until[e] \in Nat /\ until'[e] \in Nat
    BY ChainStep DEF DataTypes
  <2>2. known'[e] \in {known[e], until[e]} /\ until[e] <= until'[e]
    BY ChainStep
  <2> QED
    BY <2>1, <2>2 DEF NeverOverstated
<1> QED
  BY <1>1, <1>2, TypesHold, PTL DEF Spec

-----------------------------------------------------------------------------
(* Spending. Between the read of spent_xlm and its update nobody else charges  *)
(* the contract, because a run has one attempt per contract and the next run   *)
(* waits for it; so the value read is still the value charged to.             *)

BudgetInv ==
  \A c \in Contracts : TrackedLimit[c] # NoLimit =>
    /\ spent[c] <= TrackedLimit[c]
    /\ att[c].at \in {"simulate", "submit", "poll", "record"} => att[c].seen = spent[c]
    /\ att[c].at \in {"submit", "poll", "record"} => spent[c] + att[c].est <= TrackedLimit[c]

LEMMA BudgetAttempt ==
  ASSUME DataTypes, BudgetInv, NEW c \in Contracts, TrackedLimit[c] # NoLimit,
         Progress(c) \/ SimulationFails(c) \/ GivesUp(c)
  PROVE  /\ spent'[c] <= TrackedLimit[c]
         /\ att'[c].at \in {"simulate", "submit", "poll", "record"} => att'[c].seen = spent'[c]
         /\ att'[c].at \in {"submit", "poll", "record"} =>
               spent'[c] + att'[c].est <= TrackedLimit[c]
<1>. USE FreshIsAttempt DEF Stages
<1>0. /\ att[c] \in Attempt
      /\ spent[c] \in Nat
      /\ spent[c] <= TrackedLimit[c]
      /\ att[c].at \in {"simulate", "submit", "poll", "record"} => att[c].seen = spent[c]
      /\ att[c].at \in {"submit", "poll", "record"} => spent[c] + att[c].est <= TrackedLimit[c]
  BY DEF DataTypes, BudgetInv
<1>. DEFINE Same == spent'[c] = spent[c]
<1>1. CASE /\ Same
           /\ att'[c].at \notin {"simulate", "submit", "poll", "record"}
  BY <1>0, <1>1
<1>2. CASE NothingToDo(c) \/ RateLimited(c) \/ PolicyUnresolved(c)
  BY <1>1, <1>2, MovesOne DEF NothingToDo, RateLimited, PolicyUnresolved
<1>3. CASE AsksForKey(c)
  <2>1. NeedsExtension(c) \in SUBSET Entries
    BY DEF NeedsExtension, EntriesOf
  <2> QED
    BY <1>1, <1>3, <2>1, MovesOne DEF AsksForKey
<1>4. CASE ChannelResolves(c)
  <2>. DEFINE r == [att[c] EXCEPT !.at = "budget", !.key = slot[c]]
  <2>1. r \in Attempt /\ r.at = "budget"
    BY <1>0, <1>4 DEF Attempt, ChannelResolves
  <2>2. att'[c] = r
    BY <1>4, <2>1, MovesOne DEF ChannelResolves
  <2>. HIDE DEF r
  <2>3. att'[c].at = "budget"
    BY <2>1, <2>2
  <2> QED
    BY <1>1, <1>4, <2>3 DEF ChannelResolves
<1>5. CASE ChannelUnresolved(c)
  <2>. DEFINE r == [att[c] EXCEPT !.at = "policy"]
  <2>1. r \in Attempt /\ r.at = "policy"
    BY <1>0 DEF Attempt
  <2>2. att'[c] = r
    BY <1>5, <2>1, MovesOne DEF ChannelUnresolved
  <2>. HIDE DEF r
  <2>3. att'[c].at = "policy"
    BY <2>1, <2>2
  <2> QED
    BY <1>1, <1>5, <2>3 DEF ChannelUnresolved
<1>6. CASE PolicyResolves(c)
  <2>. DEFINE r == [att[c] EXCEPT !.at = "budget", !.key = PolicyKey[c]]
  <2>1. r \in Attempt /\ r.at = "budget"
    BY <1>0, <1>6 DEF Attempt, PolicyResolves
  <2>2. att'[c] = r
    BY <1>6, <2>1, MovesOne DEF PolicyResolves
  <2>. HIDE DEF r
  <2>3. att'[c].at = "budget"
    BY <2>1, <2>2
  <2> QED
    BY <1>1, <1>6, <2>3 DEF PolicyResolves
<1>7. CASE ReadsBudget(c)
  <2>. DEFINE r == [att[c] EXCEPT !.at = "simulate", !.seen = spent[c]]
  <2>1. r \in Attempt /\ r.at = "simulate" /\ r.seen = spent[c]
    BY <1>0 DEF Attempt
  <2>2. att'[c] = r
    BY <1>7, <2>1, MovesOne DEF ReadsBudget
  <2>. HIDE DEF r
  <2>3. att'[c].at = "simulate" /\ att'[c].seen = spent[c]
    BY <2>1, <2>2
  <2>4. spent'[c] = spent[c]
    BY <1>7 DEF ReadsBudget
  <2> QED
    BY <1>0, <2>3, <2>4
<1>8. CASE Simulates(c) \/ SimulationFails(c)
  <2>1. PICK est \in {0, Fee} : EstimateReplies(c, est)
    BY <1>8 DEF Simulates, SimulationFails
  <2>2. spent'[c] = spent[c]
    BY <2>1 DEF EstimateReplies
  <2>3. CASE Finishes(c)
    BY <1>1, <2>2, <2>3, FinishesOne
  <2>4. CASE WithinBudget(c, est) /\ Moves(c, [att[c] EXCEPT !.at = "submit", !.est = est])
    <3>. DEFINE r == [att[c] EXCEPT !.at = "submit", !.est = est]
    <3>1. r \in Attempt /\ r.seen = att[c].seen /\ r.est = est
      BY <1>0 DEF Attempt
    <3>2. att'[c] = r
      BY <2>4, <3>1, MovesOne
    <3>. HIDE DEF r
    <3>3. att[c].seen = spent[c]
      BY <1>0, <2>1 DEF EstimateReplies
    <3>4. spent[c] + est <= TrackedLimit[c]
      BY <2>4, <3>3 DEF WithinBudget
    <3> QED
      BY <1>0, <2>2, <3>1, <3>2, <3>3, <3>4
  <2> QED
    BY <2>1, <2>3, <2>4 DEF EstimateReplies
<1>9. CASE Submits(c)
  <2>1. submissions' \in Nat
    BY <1>9 DEF Submits, DataTypes
  <2>. DEFINE r == [att[c] EXCEPT !.at = "poll", !.hash = submissions']
  <2>2. r \in Attempt /\ r.seen = att[c].seen /\ r.est = att[c].est
    BY <1>0, <2>1 DEF Attempt
  <2>3. att'[c] = r
    BY <1>9, <2>2, MovesOne DEF Submits
  <2>. HIDE DEF r
  <2>4. spent'[c] = spent[c] /\ att[c].at = "submit"
    BY <1>9 DEF Submits
  <2> QED
    BY <1>0, <2>2, <2>3, <2>4
<1>10. CASE SeesSuccess(c)
  <2>. DEFINE r == [att[c] EXCEPT !.at = "record"]
  <2>1. r \in Attempt /\ r.seen = att[c].seen /\ r.est = att[c].est
    BY <1>0 DEF Attempt
  <2>2. att'[c] = r
    BY <1>10, <2>1, MovesOne DEF SeesSuccess
  <2>. HIDE DEF r
  <2>3. att'[c].seen = att[c].seen /\ att'[c].est = att[c].est
    BY <2>1, <2>2
  <2>4. spent'[c] = spent[c] /\ att[c].at = "poll"
    BY <1>10 DEF SeesSuccess
  <2> QED
    BY <1>0, <2>3, <2>4
<1>11. CASE SeesFailure(c) \/ GivesUp(c)
  BY <1>1, <1>11, FinishesOne DEF SeesFailure, GivesUp
<1>12. CASE Records(c)
  <2>1. spent'[c] = spent[c] + att[c].est /\ att[c].at = "record"
    BY <1>0, <1>12 DEF Records, Charge, DataTypes
  <2>2. att'[c].at = "done"
    BY <1>12, FinishesOne DEF Records
  <2> QED
    BY <1>0, <2>1, <2>2
<1> QED
  BY <1>2, <1>3, <1>4, <1>5, <1>6, <1>7, <1>8, <1>9, <1>10, <1>11, <1>12 DEF Progress

\* budget_tracking.spent_xlm never exceeds limit_xlm, however attempts of
\* different contracts interleave and whatever fails between the read and the
\* charge.
THEOREM BudgetKept == Spec => []SpentWithinLimit
<1>1. Init => BudgetInv
  BY FreshIsAttempt, ExtensionAssumption DEF Init, BudgetInv, Stages
<1>2. DataTypes /\ BudgetInv /\ [Next]_vars => BudgetInv'
  <2> SUFFICES ASSUME DataTypes, BudgetInv, [Next]_vars
               PROVE  BudgetInv'
    OBVIOUS
  <2>1. CASE Outside
    BY <2>1 DEF Outside, BudgetInv
  <2>2. CASE Restart
    BY <2>2, FreshIsAttempt DEF Restart, BudgetInv, Stages
  <2>3. ASSUME NEW c \in Contracts, Progress(c) \/ SimulationFails(c) \/ GivesUp(c)
        PROVE  BudgetInv'
    <3>1. \A d \in Contracts \ {c} : att'[d] = att[d] /\ spent'[d] = spent[d]
      <4>1. \A d \in Contracts \ {c} : att'[d] = att[d]
        BY <2>3, AttemptStepTypes
      <4>2. Records(c) => \A d \in Contracts \ {c} : spent'[d] = spent[d]
        BY DEF Records, DataTypes
      <4>3. ~ Records(c) => spent' = spent
        BY <2>3 DEF Progress, NothingToDo, RateLimited, AsksForKey, ChannelResolves,
                    ChannelUnresolved, PolicyResolves, PolicyUnresolved, ReadsBudget,
                    Simulates, SimulationFails, EstimateReplies, Submits, SeesSuccess,
                    SeesFailure, GivesUp
      <4> QED
        BY <4>1, <4>2, <4>3
    <3>2. SUFFICES ASSUME NEW d \in Contracts, TrackedLimit[d] # NoLimit
                   PROVE
                     /\ spent'[d] <= TrackedLimit[d]
                     /\ att'[d].at \in {"simulate", "submit", "poll", "record"} =>
                          att'[d].seen = spent'[d]
                     /\ att'[d].at \in {"submit", "poll", "record"} =>
                          spent'[d] + att'[d].est <= TrackedLimit[d]
      BY DEF BudgetInv
    <3>3. CASE d = c
      BY <2>3, <3>2, <3>3, BudgetAttempt
    <3>4. CASE d # c
      BY <3>1, <3>2, <3>4 DEF BudgetInv
    <3> QED
      BY <3>3, <3>4
  <2> QED
    BY <2>1, <2>2, <2>3, NextCases
<1>3. BudgetInv => SpentWithinLimit
  BY DEF BudgetInv, SpentWithinLimit
<1> QED
  BY <1>1, <1>2, <1>3, TypesHold, PTL DEF Spec

-----------------------------------------------------------------------------
(* History. A hash names one transaction: it is drawn when the transaction is  *)
(* submitted and is larger than every hash before it. So the transaction that *)
(* polling finds is the one the attempt built from its own keys, even when    *)
(* transactions of earlier runs are still on their way.                       *)

Numbered ==
  /\ \A t \in pending : t.id \in 0 .. submissions
  /\ \A t \in landed : t.id \in 0 .. submissions /\ t.ledger \in 0 .. now

FollowsOwn(c) ==
  /\ att[c].hash <= submissions
  /\ att[c].at \in {"poll", "record"} =>
       \A t \in pending \cup landed : t.id = att[c].hash => t.keys = att[c].keys
  /\ att[c].at = "record" => \E t \in landed : t.id = att[c].hash

HistoryInv ==
  /\ Numbered
  /\ \A c \in Contracts : FollowsOwn(c)
  /\ HistoryIsTrue

\* Steps of an attempt that neither submit nor follow a transaction.
LEMMA OtherSteps ==
  ASSUME DataTypes, NEW c \in Contracts,
         Progress(c) \/ SimulationFails(c) \/ GivesUp(c), ~ Submits(c), ~ SeesSuccess(c)
  PROVE  /\ att'[c].at \notin {"poll", "record"}
         /\ att'[c].hash \in {0, att[c].hash}
<1>. USE FreshIsAttempt DEF Stages
<1>0. att[c] \in Attempt
  BY DEF DataTypes
<1>1. CASE NothingToDo(c) \/ RateLimited(c) \/ PolicyUnresolved(c)
  BY <1>1, MovesOne DEF NothingToDo, RateLimited, PolicyUnresolved
<1>2. CASE AsksForKey(c)
  <2>. DEFINE r == [Fresh("acquire") EXCEPT !.keys = NeedsExtension(c)]
              q == [Fresh("policy") EXCEPT !.keys = NeedsExtension(c)]
  <2>1. NeedsExtension(c) \in SUBSET Entries
    BY DEF NeedsExtension, EntriesOf
  <2>2. /\ r \in Attempt /\ r.at = "acquire" /\ r.hash = 0
        /\ q \in Attempt /\ q.at = "policy" /\ q.hash = 0
    BY <2>1
  <2>3. att'[c] \in {r, q}
    BY <1>2, <2>2, MovesOne DEF AsksForKey
  <2>. HIDE DEF r, q
  <2> QED
    BY <2>2, <2>3
<1>3. CASE ChannelResolves(c)
  <2>. DEFINE r == [att[c] EXCEPT !.at = "budget", !.key = slot[c]]
  <2>1. r \in Attempt /\ r.at \notin {"poll", "record"} /\ r.hash = att[c].hash
    BY <1>0, <1>3 DEF Attempt, ChannelResolves
  <2>2. att'[c] = r
    BY <1>3, <2>1, MovesOne DEF ChannelResolves
  <2>. HIDE DEF r
  <2> QED
    BY <2>1, <2>2
<1>4. CASE ChannelUnresolved(c)
  <2>. DEFINE r == [att[c] EXCEPT !.at = "policy"]
  <2>1. r \in Attempt /\ r.at \notin {"poll", "record"} /\ r.hash = att[c].hash
    BY <1>0 DEF Attempt
  <2>2. att'[c] = r
    BY <1>4, <2>1, MovesOne DEF ChannelUnresolved
  <2>. HIDE DEF r
  <2> QED
    BY <2>1, <2>2
<1>5. CASE PolicyResolves(c)
  <2>. DEFINE r == [att[c] EXCEPT !.at = "budget", !.key = PolicyKey[c]]
  <2>1. r \in Attempt /\ r.at \notin {"poll", "record"} /\ r.hash = att[c].hash
    BY <1>0, <1>5 DEF Attempt, PolicyResolves
  <2>2. att'[c] = r
    BY <1>5, <2>1, MovesOne DEF PolicyResolves
  <2>. HIDE DEF r
  <2> QED
    BY <2>1, <2>2
<1>6. CASE ReadsBudget(c)
  <2>. DEFINE r == [att[c] EXCEPT !.at = "submit"]
              q == [att[c] EXCEPT !.at = "simulate", !.seen = spent[c]]
  <2>1. /\ r \in Attempt /\ r.at = "submit" /\ r.hash = att[c].hash
        /\ q \in Attempt /\ q.at = "simulate" /\ q.hash = att[c].hash
    BY <1>0 DEF Attempt, DataTypes
  <2>2. att'[c] \in {r, q}
    BY <1>6, <2>1, MovesOne DEF ReadsBudget
  <2>. HIDE DEF r, q
  <2> QED
    BY <2>1, <2>2
<1>7. CASE Simulates(c) \/ SimulationFails(c)
  <2>1. PICK est \in {0, Fee} : EstimateReplies(c, est)
    BY <1>7 DEF Simulates, SimulationFails
  <2>. DEFINE r == [att[c] EXCEPT !.at = "submit", !.est = est]
  <2>2. r \in Attempt /\ r.at = "submit" /\ r.hash = att[c].hash
    BY <1>0 DEF Attempt
  <2>3. att'[c] \in {r, Fresh("done")}
    BY <2>1, <2>2, MovesOne, FinishesOne DEF EstimateReplies
  <2>. HIDE DEF r
  <2> QED
    BY <2>2, <2>3
<1>8. CASE SeesFailure(c) \/ Records(c) \/ GivesUp(c)
  BY <1>8, FinishesOne DEF SeesFailure, Records, GivesUp
<1> QED
  BY <1>1, <1>2, <1>3, <1>4, <1>5, <1>6, <1>7, <1>8 DEF Progress

\* Only a submission and a landing put transactions anywhere.
LEMMA NothingMoves ==
  ASSUME [Next]_vars,
         ~ (\E c \in Contracts : Submits(c)), ~ (\E t \in pending : Lands(t))
  PROVE  submissions' = submissions /\ landed' = landed /\ pending' \subseteq pending
<1>1. CASE \/ LedgerCloses \/ StartCycle \/ StartRun \/ RunFails \/ EndRun \/ Crash
           \/ UNCHANGED vars
  BY <1>1 DEF LedgerCloses, StartCycle, StartRun, RunFails, EndRun, Crash
<1>2. ASSUME NEW t \in pending, IsLost(t)
      PROVE  submissions' = submissions /\ landed' = landed /\ pending' \subseteq pending
  BY <1>2 DEF IsLost
<1>3. ASSUME NEW c \in Contracts, Checks(c) \/ CheckFails(c)
      PROVE  submissions' = submissions /\ landed' = landed /\ pending' \subseteq pending
  BY <1>3 DEF Checks, CheckFails
<1>4. ASSUME NEW c \in Contracts, Progress(c) \/ SimulationFails(c) \/ GivesUp(c)
      PROVE  submissions' = submissions /\ landed' = landed /\ pending' \subseteq pending
  BY <1>4 DEF Progress, NothingToDo, RateLimited, AsksForKey, ChannelResolves,
          ChannelUnresolved, PolicyResolves, PolicyUnresolved, ReadsBudget, Simulates,
          SimulationFails, EstimateReplies, SeesSuccess, SeesFailure, Records, GivesUp
<1> QED
  BY <1>1, <1>2, <1>3, <1>4 DEF Next

\* The transactions of a step: they only move to the ledger, and a new one has a
\* new number.
LEMMA TransactionStep ==
  ASSUME DataTypes, Numbered, [Next]_vars
  PROVE  /\ submissions' \in Nat /\ submissions <= submissions'
         /\ landed \subseteq landed'
         /\ \A t \in pending' \cup landed' :
               \/ \E u \in pending \cup landed : u.id = t.id /\ u.keys = t.keys
               \/ t.id > submissions
         /\ Numbered'
<1>. USE DEF DataTypes
<1>0. now' \in Nat /\ now <= now'
  BY ChainStep
<1>1. ASSUME NEW t \in pending, Lands(t)
      PROVE  /\ submissions' = submissions /\ now' = now
             /\ landed \subseteq landed'
             /\ \A u \in pending' \cup landed' :
                  \E w \in pending \cup landed : w.id = u.id /\ w.keys = u.keys
             /\ Numbered'
  <2>. DEFINE n == [id |-> t.id, contract |-> t.contract, keys |-> t.keys, ledger |-> now]
  <2>1. pending' \subseteq pending /\ landed' = landed \cup {n}
    BY <1>1 DEF Lands
  <2>2. n.id = t.id /\ n.keys = t.keys /\ n.ledger = now
    OBVIOUS
  <2>. HIDE DEF n
  <2>3. submissions' = submissions /\ now' = now
    BY <1>1 DEF Lands
  <2> QED
    BY <2>1, <2>2, <2>3 DEF Numbered
<1>2. ASSUME NEW c \in Contracts, Submits(c)
      PROVE  /\ submissions' = submissions + 1 /\ now' = now
             /\ landed' = landed
             /\ \A u \in pending' : u \in pending \/ u.id = submissions + 1
  BY <1>2 DEF Submits
<1>3. CASE \E c \in Contracts : Submits(c)
  BY <1>2, <1>3 DEF Numbered
<1>4. CASE \E t \in pending : Lands(t)
  BY <1>1, <1>4
<1>5. ASSUME ~ (\E c \in Contracts : Submits(c)), ~ (\E t \in pending : Lands(t))
      PROVE  submissions' = submissions /\ landed' = landed /\ pending' \subseteq pending
  BY <1>5, NothingMoves
<1>6. CASE ~ (\E c \in Contracts : Submits(c)) /\ ~ (\E t \in pending : Lands(t))
  BY <1>0, <1>5, <1>6 DEF Numbered
<1> QED
  BY <1>3, <1>4, <1>6

\* An attempt goes on following its own transaction, whatever the others do.
LEMMA FollowsOwnKept ==
  ASSUME DataTypes, Numbered, [Next]_vars, NEW d \in Contracts, FollowsOwn(d),
         att'[d] = att[d]
  PROVE  FollowsOwn(d)'
<1>1. att[d].hash \in Nat /\ submissions \in Nat
  BY DEF DataTypes, Attempt
<1>2. ASSUME att[d].at \in {"poll", "record"},
             NEW t \in pending' \cup landed', t.id = att[d].hash
      PROVE  t.keys = att[d].keys
  <2>1. ~ (t.id > submissions)
    BY <1>1, <1>2 DEF FollowsOwn
  <2>2. PICK u \in pending \cup landed : u.id = t.id /\ u.keys = t.keys
    BY <2>1, TransactionStep
  <2> QED
    BY <1>2, <2>2 DEF FollowsOwn
<1>3. att[d].hash <= submissions'
  BY <1>1, TransactionStep DEF FollowsOwn
<1>4. att[d].at = "record" => \E t \in landed' : t.id = att[d].hash
  BY TransactionStep DEF FollowsOwn
<1> QED
  BY <1>2, <1>3, <1>4 DEF FollowsOwn

LEMMA FollowsOwnStep ==
  ASSUME DataTypes, HistoryInv, [Next]_vars, NEW c \in Contracts,
         Progress(c) \/ SimulationFails(c) \/ GivesUp(c)
  PROVE  FollowsOwn(c)'
<1>0. /\ att[c] \in Attempt /\ att[c].hash \in Nat
      /\ submissions \in Nat /\ submissions' \in Nat /\ submissions <= submissions'
      /\ FollowsOwn(c) /\ Numbered
  BY TransactionStep DEF DataTypes, Attempt, HistoryInv
<1>1. CASE Submits(c)
  <2>. DEFINE r == [att[c] EXCEPT !.at = "poll", !.hash = submissions']
  <2>1. r \in Attempt /\ r.at = "poll" /\ r.hash = submissions' /\ r.keys = att[c].keys
    BY <1>0 DEF Attempt, Stages
  <2>2. att'[c] = r
    BY <1>1, <2>1, MovesOne DEF Submits
  <2>. HIDE DEF r
  <2>3. submissions' = submissions + 1 /\ landed' = landed
    BY <1>1 DEF Submits
  <2>4. \A t \in pending' : t \in pending \/ (t.id = submissions' /\ t.keys = att[c].keys)
    BY <1>1 DEF Submits
  <2>5. \A t \in pending \cup landed : t.id # submissions'
    BY <1>0, <2>3 DEF Numbered
  <2> QED
    BY <1>0, <2>1, <2>2, <2>3, <2>4, <2>5 DEF FollowsOwn
<1>2. CASE SeesSuccess(c)
  <2>. DEFINE r == [att[c] EXCEPT !.at = "record"]
  <2>1. r \in Attempt /\ r.hash = att[c].hash /\ r.keys = att[c].keys
    BY <1>0 DEF Attempt, Stages
  <2>2. att'[c] = r
    BY <1>2, <2>1, MovesOne DEF SeesSuccess
  <2>. HIDE DEF r
  <2>3. /\ att[c].at = "poll"
        /\ \E t \in landed : t.id = att[c].hash
        /\ UNCHANGED <<pending, landed, submissions>>
    BY <1>2 DEF SeesSuccess
  <2> QED
    BY <1>0, <2>1, <2>2, <2>3 DEF FollowsOwn
<1>3. CASE ~ Submits(c) /\ ~ SeesSuccess(c)
  <2>1. att'[c].at \notin {"poll", "record"} /\ att'[c].hash \in {0, att[c].hash}
    BY <1>3, OtherSteps
  <2> QED
    BY <1>0, <2>1 DEF FollowsOwn
<1> QED
  BY <1>1, <1>2, <1>3

\* The rows that Records adds are true, and no step takes back a landing.
LEMMA HistoryStep ==
  ASSUME DataTypes, HistoryInv, [Next]_vars
  PROVE  HistoryIsTrue'
<1>1. landed \subseteq landed'
  BY TransactionStep DEF HistoryInv
<1>2. CASE history' = history
  BY <1>1, <1>2 DEF HistoryInv, HistoryIsTrue
<1>3. ASSUME NEW c \in Contracts, Records(c)
      PROVE  HistoryIsTrue'
  <2>1. /\ att[c].at = "record"
        /\ history' = history \cup Recorded(c)
    BY <1>3 DEF Records
  <2>2. PICK t \in landed : t.id = att[c].hash
    BY <2>1 DEF HistoryInv, FollowsOwn
  <2>3. t.keys = att[c].keys /\ t.ledger <= now
    BY <2>1, <2>2 DEF HistoryInv, FollowsOwn, Numbered, DataTypes
  <2>4. \A r \in Recorded(c) : /\ r.hash = att[c].hash
                               /\ r.entry \in att[c].keys
                               /\ r.ledger = now
    BY DEF Recorded, Returned
  <2> QED
    BY <1>1, <2>1, <2>2, <2>3, <2>4 DEF HistoryInv, HistoryIsTrue
<1>4. CASE \A c \in Contracts : ~ Records(c)
  <2>1. ASSUME NEW c \in Contracts, Progress(c) \/ SimulationFails(c) \/ GivesUp(c)
        PROVE  history' = history
    BY <1>4, <2>1 DEF Progress, NothingToDo, RateLimited, AsksForKey, ChannelResolves,
            ChannelUnresolved, PolicyResolves, PolicyUnresolved, ReadsBudget, Simulates,
            SimulationFails, EstimateReplies, Submits, SeesSuccess, SeesFailure, GivesUp
  <2> QED
    BY <1>2, <2>1, NextCases DEF Outside, Restart
<1> QED
  BY <1>3, <1>4

LEMMA HistoryInvHolds == Spec => []HistoryInv
<1>1. Init => HistoryInv
  BY FreshIsAttempt DEF Init, HistoryInv, Numbered, FollowsOwn, HistoryIsTrue, Stages
<1>2. DataTypes /\ HistoryInv /\ [Next]_vars => HistoryInv'
  <2> SUFFICES ASSUME DataTypes, HistoryInv, [Next]_vars
               PROVE  HistoryInv'
    OBVIOUS
  <2>1. Numbered' /\ HistoryIsTrue'
    BY TransactionStep, HistoryStep DEF HistoryInv
  <2>2. ASSUME NEW d \in Contracts
        PROVE  FollowsOwn(d)'
    <3>1. CASE att'[d] = att[d]
      BY <3>1, FollowsOwnKept DEF HistoryInv
    <3>2. CASE Restart
      <4>1. att'[d] = Fresh("idle") /\ submissions' = submissions
        BY <3>2 DEF Restart
      <4> QED
        BY <4>1, FreshIsAttempt DEF FollowsOwn, Stages, DataTypes
    <3>3. ASSUME NEW c \in Contracts, Progress(c) \/ SimulationFails(c) \/ GivesUp(c)
          PROVE  FollowsOwn(d)'
      <4>1. CASE d = c
        BY <3>3, <4>1, FollowsOwnStep
      <4>2. CASE d # c
        BY <3>1, <3>3, <4>2, AttemptStepTypes
      <4> QED
        BY <4>1, <4>2
    <3> QED
      BY <3>1, <3>2, <3>3, NextCases DEF Outside
  <2> QED
    BY <2>1, <2>2 DEF HistoryInv
<1> QED
  BY <1>1, <1>2, TypesHold, PTL DEF Spec

\* Every row of extension_history is an entry of a transaction that landed by
\* then, however late it landed and whatever failed or crashed around it.
THEOREM HistoryTrue == Spec => []HistoryIsTrue
<1>1. HistoryInv => HistoryIsTrue
  BY DEF HistoryInv
<1> QED
  BY <1>1, HistoryInvHolds, PTL

-----------------------------------------------------------------------------
(* The attempt of a contract, step by step: what becomes of its locals.       *)

LEMMA LocalsStep ==
  ASSUME DataTypes, NEW c \in Contracts, Progress(c) \/ SimulationFails(c) \/ GivesUp(c)
  PROVE  /\ att' \in [Contracts -> Attempt]
         /\ \A d \in Contracts \ {c} : att'[d] = att[d]
         /\ NothingToDo(c) \/ RateLimited(c) \/ PolicyUnresolved(c) \/ SeesFailure(c)
              \/ Records(c) \/ GivesUp(c) => att'[c].at = "done" /\ att'[c].hash = 0
         /\ AsksForKey(c) => /\ att'[c].at \in {"acquire", "policy"}
                             /\ att'[c].at = "acquire" <=> NumAccounts > 0
                             /\ att'[c].keys = NeedsExtension(c)
                             /\ att'[c].hash = 0
         /\ ChannelResolves(c) => /\ att'[c].at = "budget"
                                  /\ att'[c].keys = att[c].keys
                                  /\ att'[c].hash = att[c].hash
                                  /\ att'[c].key = slot[c]
         /\ ChannelUnresolved(c) => /\ att'[c].at = "policy"
                                    /\ att'[c].keys = att[c].keys
                                    /\ att'[c].hash = att[c].hash
         /\ PolicyResolves(c) => /\ att'[c].at = "budget"
                                 /\ att'[c].keys = att[c].keys
                                 /\ att'[c].hash = att[c].hash
                                 /\ att'[c].key = PolicyKey[c]
         /\ ReadsBudget(c) \/ Simulates(c) \/ SimulationFails(c) =>
              \/ /\ att'[c].at = "done"
                 /\ att'[c].hash = 0
              \/ /\ att'[c].at \in {"simulate", "submit"}
                 /\ att'[c].keys = att[c].keys
                 /\ att'[c].hash = att[c].hash
                 /\ att'[c].key = att[c].key
                 /\ UNCHANGED pool
         /\ Submits(c) => /\ att'[c].at = "poll"
                          /\ att'[c].keys = att[c].keys
                          /\ att'[c].hash = submissions'
                          /\ att'[c].key = att[c].key
         /\ SeesSuccess(c) => /\ att'[c].at = "record"
                              /\ att'[c].keys = att[c].keys
                              /\ att'[c].hash = att[c].hash
                              /\ att'[c].key = att[c].key
<1>. USE FreshIsAttempt DEF Stages
<1>0. att[c] \in Attempt
  BY DEF DataTypes
<1>1. NothingToDo(c) \/ RateLimited(c) \/ PolicyUnresolved(c) \/ SeesFailure(c)
        \/ Records(c) \/ GivesUp(c) => att'[c].at = "done" /\ att'[c].hash = 0
  BY MovesOne, FinishesOne
     DEF NothingToDo, RateLimited, PolicyUnresolved, SeesFailure, Records, GivesUp
<1>2. ASSUME AsksForKey(c)
      PROVE  /\ att'[c].at \in {"acquire", "policy"}
             /\ att'[c].at = "acquire" <=> NumAccounts > 0
             /\ att'[c].keys = NeedsExtension(c)
             /\ att'[c].hash = 0
  <2>. DEFINE r == [Fresh("acquire") EXCEPT !.keys = NeedsExtension(c)]
              q == [Fresh("policy") EXCEPT !.keys = NeedsExtension(c)]
  <2>1. NeedsExtension(c) \in SUBSET Entries
    BY DEF NeedsExtension, EntriesOf
  <2>2. /\ r \in Attempt /\ r.at = "acquire" /\ r.hash = 0
        /\ q \in Attempt /\ q.at = "policy" /\ q.hash = 0
    BY <2>1
  <2>3. r.keys = NeedsExtension(c) /\ q.keys = NeedsExtension(c)
    BY DEF Fresh
  <2>4. \/ NumAccounts > 0 /\ att'[c] = r
        \/ NumAccounts = 0 /\ att'[c] = q
    BY <1>2, <2>2, MovesOne DEF AsksForKey
  <2>. HIDE DEF r, q
  <2> QED
    BY <2>2, <2>3, <2>4, ExtensionAssumption
<1>3. ASSUME ChannelResolves(c)
      PROVE  /\ att'[c].at = "budget"
             /\ att'[c].keys = att[c].keys
             /\ att'[c].hash = att[c].hash
             /\ att'[c].key = slot[c]
  <2>. DEFINE r == [att[c] EXCEPT !.at = "budget", !.key = slot[c]]
  <2>1. /\ r \in Attempt /\ r.at = "budget" /\ r.hash = att[c].hash
        /\ r.keys = att[c].keys /\ r.key = slot[c]
    BY <1>0, <1>3 DEF Attempt, ChannelResolves
  <2>2. att'[c] = r
    BY <1>3, <2>1, MovesOne DEF ChannelResolves
  <2>. HIDE DEF r
  <2> QED
    BY <2>1, <2>2
<1>4. ASSUME ChannelUnresolved(c)
      PROVE  /\ att'[c].at = "policy"
             /\ att'[c].keys = att[c].keys
             /\ att'[c].hash = att[c].hash
  <2>. DEFINE r == [att[c] EXCEPT !.at = "policy"]
  <2>1. r \in Attempt /\ r.at = "policy" /\ r.hash = att[c].hash /\ r.keys = att[c].keys
    BY <1>0 DEF Attempt
  <2>2. att'[c] = r
    BY <1>4, <2>1, MovesOne DEF ChannelUnresolved
  <2>. HIDE DEF r
  <2> QED
    BY <2>1, <2>2
<1>5. ASSUME PolicyResolves(c)
      PROVE  /\ att'[c].at = "budget"
             /\ att'[c].keys = att[c].keys
             /\ att'[c].hash = att[c].hash
             /\ att'[c].key = PolicyKey[c]
  <2>. DEFINE r == [att[c] EXCEPT !.at = "budget", !.key = PolicyKey[c]]
  <2>1. /\ r \in Attempt /\ r.at = "budget" /\ r.hash = att[c].hash
        /\ r.keys = att[c].keys /\ r.key = PolicyKey[c]
    BY <1>0, <1>5 DEF Attempt, PolicyResolves
  <2>2. att'[c] = r
    BY <1>5, <2>1, MovesOne DEF PolicyResolves
  <2>. HIDE DEF r
  <2> QED
    BY <2>1, <2>2
<1>6. ASSUME ReadsBudget(c)
      PROVE  /\ att'[c].at \in {"simulate", "submit"}
             /\ att'[c].keys = att[c].keys
             /\ att'[c].hash = att[c].hash
             /\ att'[c].key = att[c].key
             /\ UNCHANGED pool
  <2>. DEFINE r == [att[c] EXCEPT !.at = "submit"]
              q == [att[c] EXCEPT !.at = "simulate", !.seen = spent[c]]
  <2>1. /\ r \in Attempt /\ r.at = "submit" /\ r.hash = att[c].hash
        /\ r.keys = att[c].keys /\ r.key = att[c].key
    BY <1>0 DEF Attempt
  <2>2. /\ q \in Attempt /\ q.at = "simulate" /\ q.hash = att[c].hash
        /\ q.keys = att[c].keys /\ q.key = att[c].key
    BY <1>0 DEF Attempt, DataTypes
  <2>3. att'[c] \in {r, q}
    BY <1>6, <2>1, <2>2, MovesOne DEF ReadsBudget
  <2>4. UNCHANGED pool
    BY <1>6 DEF ReadsBudget
  <2>. HIDE DEF r, q
  <2> QED
    BY <2>1, <2>2, <2>3, <2>4
<1>7. ASSUME Simulates(c) \/ SimulationFails(c)
      PROVE  \/ /\ att'[c].at = "done"
                /\ att'[c].hash = 0
             \/ /\ att'[c].at = "submit"
                /\ att'[c].keys = att[c].keys
                /\ att'[c].hash = att[c].hash
                /\ att'[c].key = att[c].key
                /\ UNCHANGED pool
  <2>0. PICK est \in {0, Fee} : EstimateReplies(c, est)
    BY <1>7 DEF Simulates, SimulationFails
  <2>. DEFINE r == [att[c] EXCEPT !.at = "submit", !.est = est]
  <2>1. /\ r \in Attempt /\ r.at = "submit" /\ r.hash = att[c].hash
        /\ r.keys = att[c].keys /\ r.key = att[c].key
    BY <1>0 DEF Attempt
  <2>2. att'[c] = Fresh("done") \/ (att'[c] = r /\ UNCHANGED pool)
    BY <2>0, <2>1, MovesOne, FinishesOne DEF EstimateReplies
  <2>. HIDE DEF r
  <2> QED
    BY <2>1, <2>2
<1>8. ASSUME Submits(c)
      PROVE  /\ att'[c].at = "poll"
             /\ att'[c].keys = att[c].keys
             /\ att'[c].hash = submissions'
             /\ att'[c].key = att[c].key
  <2>. DEFINE r == [att[c] EXCEPT !.at = "poll", !.hash = submissions']
  <2>0. submissions' \in Nat
    BY <1>8 DEF Submits, DataTypes
  <2>1. /\ r \in Attempt /\ r.at = "poll" /\ r.hash = submissions'
        /\ r.keys = att[c].keys /\ r.key = att[c].key
    BY <1>0, <2>0 DEF Attempt
  <2>2. att'[c] = r
    BY <1>8, <2>1, MovesOne DEF Submits
  <2>. HIDE DEF r
  <2> QED
    BY <2>1, <2>2
<1>9. ASSUME SeesSuccess(c)
      PROVE  /\ att'[c].at = "record"
             /\ att'[c].keys = att[c].keys
             /\ att'[c].hash = att[c].hash
             /\ att'[c].key = att[c].key
  <2>. DEFINE r == [att[c] EXCEPT !.at = "record"]
  <2>1. /\ r \in Attempt /\ r.at = "record" /\ r.hash = att[c].hash
        /\ r.keys = att[c].keys /\ r.key = att[c].key
    BY <1>0 DEF Attempt
  <2>2. att'[c] = r
    BY <1>9, <2>1, MovesOne DEF SeesSuccess
  <2>. HIDE DEF r
  <2> QED
    BY <2>1, <2>2
<1>10. att' \in [Contracts -> Attempt] /\ \A d \in Contracts \ {c} : att'[d] = att[d]
  BY AttemptStepTypes
<1> QED
  BY <1>1, <1>2, <1>3, <1>4, <1>5, <1>6, <1>7, <1>8, <1>9, <1>10

-----------------------------------------------------------------------------
(* Runs that nothing disturbs. What they promise is void once something fails, *)
(* so each invariant below speaks of states without a fault, and a step into    *)
(* such a state starts in one and is none of the failing ones.                 *)

Working == {"acquire", "policy", "budget", "simulate", "submit", "poll", "record"}

\* An attempt that works has low entries of its contract to extend, and a hash
\* from the submission on.
LocalsInv ==
  \A c \in Contracts :
    /\ att[c].at \in Working => att[c].keys # {} /\ att[c].keys \subseteq EntriesOf(c)
    /\ att[c].at \notin {"poll", "record"} => att[c].hash = 0

\* A transaction is named by its number, before and after it lands.
NumbersInv ==
  /\ faults \in Nat
  /\ IsFiniteSet(landed)
  /\ IsFiniteSet(history)
  /\ \A r \in history : r.ledger \in Nat
  /\ \A t \in pending \cup landed : t.id > 0
  /\ \A t, u \in landed : t.id = u.id => t = u
  /\ \A t, u \in pending : t.id = u.id => t = u
  /\ \A t \in pending, u \in landed : t.id # u.id

Sent(c) == [id |-> att[c].hash, contract |-> c, keys |-> att[c].keys, key |-> att[c].key]

ChannelsResolve == NumAccounts > 0 /\ Slots \subseteq Signers

\* An attempt signs with the channel account it holds or, if it had to, with the
\* key of its policy.
SignsWithOwn(c) ==
  /\ att[c].at = "acquire" => NumAccounts > 0
  /\ att[c].at = "policy" => ~ ChannelsResolve
  /\ att[c].at \in {"budget", "simulate", "submit", "poll", "record"} =>
        \/ att[c].key = slot[c] /\ slot[c] \in Slots
        \/ att[c].key = PolicyKey[c] /\ ~ ChannelsResolve

\* What is in flight belongs to an attempt that polls it.
SourcesInv ==
  /\ \A t \in pending : \E c \in Contracts : att[c].at = "poll" /\ t = Sent(c)
  /\ \A c \in Contracts : SignsWithOwn(c)

SlotsInv ==
  /\ NumAccounts > 0 => PoolProofs!PoolInv
  /\ NumAccounts = 0 => /\ slot = [c \in Contracts |-> NoSlot]
                        /\ inUse = {}
                        /\ waiters = << >>

NoneArchived == \A e \in Entries : until[e] >= now

HasRow(t) == \E r \in history : /\ r.hash = t.id
                                /\ OwnerOf[r.entry] = t.contract
                                /\ r.ledger >= t.ledger

Earlier(c) == {t \in LandedInLastHour(c) : t.id # att[c].hash}

\* What landed has a row to be counted by, or is still polled by its attempt.
Accounted(t) ==
  /\ t.contract \in Contracts
  /\ \/ HasRow(t)
     \/ att[t.contract].at \in {"poll", "record"} /\ att[t.contract].hash = t.id

\* An attempt was let in on fewer landings than the limit, its own not among them.
RateInv ==
  /\ \A t \in landed : Accounted(t)
  /\ \A c \in Contracts : att[c].at \in Working => Cardinality(Earlier(c)) < RateLimit
  /\ RateLimitHolds

-----------------------------------------------------------------------------
(* The steps that nothing disturbs.                                           *)

LEMMA HealthyStep ==
  ASSUME faults \in Nat, [Next]_vars
  PROVE  /\ faults' \in Nat
         /\ faults' = 0 =>
              /\ faults = 0
              /\ \/ LedgerCloses \/ StartCycle \/ StartRun \/ EndRun \/ UNCHANGED vars
                 \/ \E t \in pending : Lands(t)
                 \/ \E c \in Contracts : Checks(c) \/ Progress(c)
<1>1. CASE LedgerCloses \/ StartCycle \/ StartRun \/ EndRun \/ UNCHANGED vars
  BY <1>1 DEF LedgerCloses, StartCycle, StartRun, EndRun
<1>2. ASSUME NEW t \in pending, Lands(t)
      PROVE  faults' = faults
  BY <1>2 DEF Lands
<1>3. ASSUME NEW t \in pending, IsLost(t)
      PROVE  faults' = faults + 1
  BY <1>3 DEF IsLost, Fault
<1>4. CASE RunFails \/ Crash
  BY <1>4 DEF RunFails, Crash, Fault
<1>5. ASSUME NEW c \in Contracts, Checks(c)
      PROVE  faults' = faults
  BY <1>5 DEF Checks
<1>6. ASSUME NEW c \in Contracts, CheckFails(c) \/ SimulationFails(c) \/ GivesUp(c)
      PROVE  faults' = faults + 1
  BY <1>6 DEF CheckFails, SimulationFails, GivesUp, Fault
<1>7. ASSUME NEW c \in Contracts, Progress(c)
      PROVE  faults' \in {faults, faults + 1}
  BY <1>7 DEF Progress, NothingToDo, RateLimited, AsksForKey, ChannelResolves,
          ChannelUnresolved, PolicyResolves, PolicyUnresolved, Unresolved, ReadsBudget,
          Simulates, Submits, SeesSuccess, SeesFailure, Records, Fault
<1> QED
  BY <1>1, <1>2, <1>3, <1>4, <1>5, <1>6, <1>7 DEF Next

LEMMA LocalsKept ==
  ASSUME DataTypes, LocalsInv, [Next]_vars
  PROVE  LocalsInv'
<1> SUFFICES ASSUME NEW d \in Contracts
             PROVE  /\ att'[d].at \in Working =>
                         att'[d].keys # {} /\ att'[d].keys \subseteq EntriesOf(d)
                    /\ att'[d].at \notin {"poll", "record"} => att'[d].hash = 0
  BY DEF LocalsInv
<1>1. CASE att'[d] = att[d]
  BY <1>1 DEF LocalsInv
<1>2. CASE Restart
  <2>1. att'[d] = Fresh("idle")
    BY <1>2 DEF Restart
  <2> QED
    BY <2>1, FreshIsAttempt DEF Stages, Working
<1>3. ASSUME Progress(d) \/ SimulationFails(d) \/ GivesUp(d)
      PROVE  /\ att'[d].at \in Working =>
                  att'[d].keys # {} /\ att'[d].keys \subseteq EntriesOf(d)
             /\ att'[d].at \notin {"poll", "record"} => att'[d].hash = 0
  <2>0. /\ att[d].at \in Working =>
             att[d].keys # {} /\ att[d].keys \subseteq EntriesOf(d)
        /\ att[d].at \notin {"poll", "record"} => att[d].hash = 0
    BY DEF LocalsInv
  <2>1. CASE AsksForKey(d)
    <3>1. NeedsExtension(d) # {} /\ NeedsExtension(d) \subseteq EntriesOf(d)
      BY <2>1 DEF AsksForKey, NeedsExtension
    <3>2. /\ att'[d].at \in {"acquire", "policy"}
          /\ att'[d].keys = NeedsExtension(d)
          /\ att'[d].hash = 0
      BY <1>3, <2>1, LocalsStep
    <3> QED
      BY <3>1, <3>2
  <2>2. CASE \/ NothingToDo(d) \/ RateLimited(d) \/ PolicyUnresolved(d) \/ SeesFailure(d)
             \/ Records(d) \/ GivesUp(d)
    <3>1. att'[d].at = "done" /\ att'[d].hash = 0
      BY <1>3, <2>2, LocalsStep
    <3> QED
      BY <3>1 DEF Working
  <2>3. CASE \/ ChannelResolves(d) \/ ChannelUnresolved(d) \/ PolicyResolves(d)
             \/ ReadsBudget(d) \/ Simulates(d) \/ SimulationFails(d)
    <3>1. att[d].at \in Working /\ att[d].at \notin {"poll", "record"}
      BY <2>3 DEF ChannelResolves, ChannelUnresolved, PolicyResolves, ReadsBudget,
                  Simulates, SimulationFails, EstimateReplies, Working
    <3>2. \/ att'[d].at = "done" /\ att'[d].hash = 0
          \/ att'[d].keys = att[d].keys /\ att'[d].hash = att[d].hash
      BY <1>3, <2>3, LocalsStep
    <3> QED
      BY <2>0, <3>1, <3>2 DEF Working
  <2>4. CASE Submits(d) \/ SeesSuccess(d)
    <3>1. att[d].at \in Working
      BY <2>4 DEF Submits, SeesSuccess, Working
    <3>2. att'[d].at \in {"poll", "record"} /\ att'[d].keys = att[d].keys
      BY <1>3, <2>4, LocalsStep
    <3> QED
      BY <2>0, <3>1, <3>2
  <2> QED
    BY <1>3, <2>1, <2>2, <2>3, <2>4 DEF Progress
<1>4. ASSUME NEW c \in Contracts, Progress(c) \/ SimulationFails(c) \/ GivesUp(c), c # d
      PROVE  att'[d] = att[d]
  BY <1>4, AttemptStepTypes
<1> QED
  BY <1>1, <1>2, <1>3, <1>4, NextCases DEF Outside

LEMMA HistoryGrows ==
  ASSUME DataTypes, [Next]_vars,
         IsFiniteSet(history), \A r \in history : r.ledger \in Nat
  PROVE  IsFiniteSet(history') /\ \A r \in history' : r.ledger \in Nat
<1>1. ASSUME NEW c \in Contracts, Records(c)
      PROVE  IsFiniteSet(history') /\ \A r \in history' : r.ledger \in Nat
  <2>. DEFINE S == Returned(att[c].keys)
              f == [e \in S |-> [hash |-> att[c].hash, entry |-> e, ledger |-> now]]
  <2>1. att[c].keys \in SUBSET Entries
    BY DEF DataTypes, Attempt
  <2>2. S \in SUBSET Entries
    BY <2>1 DEF Returned
  <2>3. IsFiniteSet(S)
    BY <2>2, ExtensionAssumption, FS_Subset
  <2>4. f \in Surjection(S, Recorded(c))
    BY DEF Recorded, Surjection
  <2>5. IsFiniteSet(Recorded(c))
    BY <2>3, <2>4, FS_Surjection
  <2>6. \A r \in Recorded(c) : r.ledger \in Nat
    BY DEF Recorded, DataTypes
  <2>7. history' = history \cup Recorded(c)
    BY <1>1 DEF Records
  <2> QED
    BY <2>5, <2>6, <2>7, FS_Union
<1>2. ASSUME NEW c \in Contracts, (Progress(c) /\ ~ Records(c)) \/ SimulationFails(c) \/ GivesUp(c)
      PROVE  history' = history
  BY <1>2 DEF Progress, NothingToDo, RateLimited, AsksForKey, ChannelResolves,
          ChannelUnresolved, PolicyResolves, PolicyUnresolved, ReadsBudget, Simulates,
          SimulationFails, EstimateReplies, Submits, SeesSuccess, SeesFailure, GivesUp
<1> QED
  BY <1>1, <1>2, NextCases DEF Outside, Restart

LEMMA NumbersKept ==
  ASSUME DataTypes, Numbered, NumbersInv, [Next]_vars
  PROVE  NumbersInv'
<1>1. faults' \in Nat /\ IsFiniteSet(history') /\ \A r \in history' : r.ledger \in Nat
  BY HealthyStep, HistoryGrows DEF NumbersInv
<1>2. ASSUME NEW t \in pending, Lands(t)
      PROVE  NumbersInv'
  <2>. DEFINE n == [id |-> t.id, contract |-> t.contract, keys |-> t.keys, ledger |-> now]
  <2>1. pending' = pending \ {t} /\ landed' = landed \cup {n}
    BY <1>2 DEF Lands
  <2>2. n.id = t.id
    OBVIOUS
  <2>. HIDE DEF n
  <2>3. IsFiniteSet(landed')
    BY <2>1, FS_AddElement DEF NumbersInv
  <2> QED
    BY <1>1, <2>1, <2>2, <2>3 DEF NumbersInv
<1>3. ASSUME NEW c \in Contracts, Submits(c)
      PROVE  NumbersInv'
  <2>. DEFINE n == [id |-> submissions', contract |-> c, keys |-> att[c].keys, key |-> att[c].key]
  <2>1. /\ pending' = pending \cup {n} /\ landed' = landed
        /\ submissions' = submissions + 1 /\ submissions \in Nat
    BY <1>3 DEF Submits, DataTypes
  <2>2. n.id = submissions'
    OBVIOUS
  <2>. HIDE DEF n
  <2>3. \A t \in pending \cup landed : t.id # n.id
    BY <2>1, <2>2 DEF Numbered
  <2>4. n.id > 0
    BY <2>1, <2>2
  <2> QED
    BY <1>1, <2>1, <2>3, <2>4 DEF NumbersInv
<1>4. CASE landed' = landed /\ pending' \subseteq pending
  BY <1>1, <1>4 DEF NumbersInv
<1> QED
  BY <1>2, <1>3, <1>4, NothingMoves

-----------------------------------------------------------------------------
(* The channel accounts of a run. ChannelPool_proofs shows that the pool keeps *)
(* its invariant; a crash leaves an empty pool, and without accounts nobody    *)
(* asks.                                                                      *)

\* The two instances name the same steps.
LEMMA SameAcquire ==
  ASSUME NEW c \in Contracts, Pool!Acquire(c)
  PROVE  PoolProofs!Acquire(c)
BY DEF Pool!Acquire, Pool!AcquireFree, Pool!AcquireWaits, Pool!MoveCursor, Pool!Marked,
       Pool!NextFree, Pool!FreeOffsets, Pool!Scan, Pool!Slots, Pool!Min,
       PoolProofs!Acquire, PoolProofs!AcquireFree, PoolProofs!AcquireWaits,
       PoolProofs!MoveCursor, PoolProofs!Marked, PoolProofs!NextFree,
       PoolProofs!FreeOffsets, PoolProofs!Scan, PoolProofs!Slots, PoolProofs!Min

LEMMA SameRelease ==
  ASSUME NEW c \in Contracts, Pool!Release(c)
  PROVE  PoolProofs!Release(c)
BY DEF Pool!Release, Pool!ReleaseIdle, Pool!HandOver, Pool!NextWaiter, Pool!MoveCursor,
       Pool!Marked, Pool!NextFree, Pool!FreeOffsets, Pool!Scan, Pool!Slots, Pool!Min,
       PoolProofs!Release, PoolProofs!ReleaseIdle, PoolProofs!HandOver,
       PoolProofs!NextWaiter, PoolProofs!MoveCursor, PoolProofs!Marked,
       PoolProofs!NextFree, PoolProofs!FreeOffsets, PoolProofs!Scan, PoolProofs!Slots,
       PoolProofs!Min

LEMMA SamePool ==
  ASSUME Pool!Next
  PROVE  PoolProofs!Next
BY SameAcquire, SameRelease
   DEF Pool!Next, Pool!NewPool, PoolProofs!Next, PoolProofs!NewPool

LEMMA PoolHasAccounts ==
  ASSUME NumAccounts > 0
  PROVE  PoolProofs!PoolConstants
BY ExtensionAssumption
   DEF PoolProofs!PoolConstants, PoolProofs!Slots, PoolProofs!IsFiniteSet, Slots, IsFiniteSet

LEMMA PoolKept ==
  ASSUME NumAccounts > 0, PoolProofs!PoolInv,
         Pool!Next \/ PoolIsGone \/ UNCHANGED pool
  PROVE  PoolProofs!PoolInv'
<1>1. PoolProofs!PoolConstants
  BY PoolHasAccounts
<1>2. CASE Pool!Next \/ UNCHANGED pool
  <2>1. [PoolProofs!Next]_(PoolProofs!vars)
    BY <1>2, SamePool DEF PoolProofs!vars, PoolProofs!pool
  <2> QED
    BY <1>1, <2>1, PoolProofs!PoolStep
<1>3. CASE PoolIsGone
  <2>1. 0 \in PoolProofs!Slots
    BY <1>1 DEF PoolProofs!PoolConstants, PoolProofs!Slots
  <2> QED
    BY <1>3, <2>1
       DEF PoolIsGone, PoolProofs!PoolInv, PoolProofs!TypeOK, PoolProofs!OneHolder,
           PoolProofs!InUseIsHeld, PoolProofs!NobodyWaitsForFreeSlot,
           PoolProofs!WaitersAreWaiting, PoolProofs!HoldersAsked, PoolProofs!Holders
<1> QED
  BY <1>2, <1>3

\* A slot is a slot or none, and no two contracts have the same one.
LEMMA SlotFacts ==
  ASSUME SlotsInv
  PROVE  /\ \A c \in Contracts : slot[c] \in Slots \cup {NoSlot}
         /\ \A c, d \in Contracts : slot[c] \in Slots /\ slot[c] = slot[d] => c = d
<1>0. NoSlot \notin Slots
  BY ExtensionAssumption
<1>1. CASE NumAccounts > 0
  <2>1. \A c \in Contracts : slot[c] \in Slots \cup {NoSlot}
    BY <1>1 DEF SlotsInv, PoolProofs!PoolInv, PoolProofs!TypeOK, PoolProofs!Slots, Slots
  <2>2. \A c, d \in Contracts : slot[c] \in Slots /\ slot[c] = slot[d] => c = d
    BY <1>0, <1>1 DEF SlotsInv, PoolProofs!PoolInv, PoolProofs!OneHolder, PoolProofs!Holders
  <2> QED
    BY <2>1, <2>2
<1>2. CASE NumAccounts = 0
  BY <1>0, <1>2 DEF SlotsInv
<1> QED
  BY <1>1, <1>2, ExtensionAssumption

\* What the call of one contract leaves to the others: who holds an account
\* keeps it, since release hands the freed one to a caller that waits.
LEMMA HoldersKeep ==
  ASSUME SlotsInv, NEW c \in Contracts,
         \/ NumAccounts > 0 /\ Pool!Acquire(c)
         \/ Pool!Release(c)
         \/ UNCHANGED pool,
         NEW d \in Contracts, d # c, slot[d] \in Slots
  PROVE  slot'[d] = slot[d]
<1>1. CASE UNCHANGED pool
  BY <1>1
<1>2. CASE NumAccounts > 0 /\ Pool!Acquire(c)
  BY <1>2 DEF Pool!Acquire, Pool!AcquireFree, Pool!AcquireWaits, SlotsInv,
              PoolProofs!PoolInv, PoolProofs!TypeOK
<1>3. CASE NumAccounts > 0 /\ Pool!Release(c)
  <2>0. PoolProofs!PoolConstants /\ PoolProofs!PoolInv
    BY <1>3, PoolHasAccounts DEF SlotsInv
  <2>1. CASE PoolProofs!ReleaseIdle(c)
    BY <2>0, <2>1 DEF PoolProofs!ReleaseIdle, PoolProofs!PoolInv, PoolProofs!TypeOK
  <2>2. CASE PoolProofs!HandOver(c)
    <3>1. PICK w \in Contracts :
            /\ slot[w] = NoSlot
            /\ slot' = [x \in Contracts |-> IF x = c THEN NoSlot
                                            ELSE IF x = w THEN slot[c]
                                            ELSE slot[x]]
      BY <2>0, <2>2, PoolProofs!HandOverStep
    <3>2. d # w
      BY <3>1, ExtensionAssumption
    <3> QED
      BY <3>1, <3>2
  <2> QED
    BY <1>3, <2>1, <2>2, SameRelease DEF PoolProofs!Release
<1>4. CASE NumAccounts = 0
  BY <1>4, ExtensionAssumption DEF SlotsInv
<1> QED
  BY <1>1, <1>2, <1>3, <1>4, ExtensionAssumption

LEMMA AttemptUsesPool ==
  ASSUME NEW c \in Contracts, Progress(c) \/ SimulationFails(c) \/ GivesUp(c)
  PROVE  \/ NumAccounts > 0 /\ Pool!Acquire(c)
         \/ Pool!Release(c)
         \/ UNCHANGED pool
BY DEF Progress, NothingToDo, RateLimited, AsksForKey, ChannelResolves,
       ChannelUnresolved, PolicyResolves, PolicyUnresolved, ReadsBudget, Simulates,
       SimulationFails, EstimateReplies, Submits, SeesSuccess, SeesFailure, GivesUp,
       Records, Finishes, ReturnsSlot

LEMMA SlotsKept ==
  ASSUME SlotsInv, [Next]_vars
  PROVE  SlotsInv'
<1>1. ASSUME NEW c \in Contracts, Progress(c) \/ SimulationFails(c) \/ GivesUp(c)
      PROVE  SlotsInv'
  <2>1. CASE NumAccounts > 0
    <3>1. Pool!Next \/ UNCHANGED pool
      BY <1>1, AttemptUsesPool DEF Pool!Next
    <3> QED
      BY <2>1, <3>1, PoolKept DEF SlotsInv
  <2>2. CASE NumAccounts = 0
    <3>1. slot[c] = NoSlot
      BY <2>2 DEF SlotsInv
    <3>2. ~ Pool!Release(c)
      BY <3>1 DEF Pool!Release, Pool!ReleaseIdle, Pool!HandOver
    <3>3. UNCHANGED pool
      BY <1>1, <2>2, <3>2, AttemptUsesPool
    <3> QED
      BY <2>2, <3>3 DEF SlotsInv
  <2> QED
    BY <2>1, <2>2, ExtensionAssumption
<1>2. CASE EndRun \/ Crash
  <2>1. PoolIsGone
    BY <1>2 DEF EndRun, Crash
  <2>2. NumAccounts > 0 => PoolProofs!PoolInv'
    BY <2>1, PoolKept DEF SlotsInv
  <2> QED
    BY <2>1, <2>2 DEF SlotsInv, PoolIsGone
<1>4. ASSUME UNCHANGED pool
      PROVE  SlotsInv'
  <2>1. NumAccounts > 0 => PoolProofs!PoolInv'
    BY <1>4, PoolKept DEF SlotsInv
  <2> QED
    BY <1>4, <2>1 DEF SlotsInv
<1>5. CASE LedgerCloses \/ StartCycle \/ StartRun \/ RunFails \/ UNCHANGED vars
  BY <1>4, <1>5 DEF LedgerCloses, StartCycle, StartRun, RunFails
<1>6. ASSUME NEW t \in pending, Lands(t) \/ IsLost(t)
      PROVE  SlotsInv'
  BY <1>4, <1>6 DEF Lands, IsLost
<1>7. ASSUME NEW c \in Contracts, Checks(c) \/ CheckFails(c)
      PROVE  SlotsInv'
  BY <1>4, <1>7 DEF Checks, CheckFails
<1> QED
  BY <1>1, <1>2, <1>5, <1>6, <1>7 DEF Next

-----------------------------------------------------------------------------
(* Who signs what is in flight.                                               *)

LEMMA SentIsOne ==
  ASSUME NEW c \in Contracts, NEW d \in Contracts, att'[d] = att[d]
  PROVE  Sent(d)' = Sent(d)
BY DEF Sent

\* A step of c that nothing disturbs: it submits, or it looks for its transaction
\* and finds it where it is.
LEMMA PendingStep ==
  ASSUME DataTypes, NumbersInv, SourcesInv, NEW c \in Contracts, Progress(c)
  PROVE  \A t \in pending' :
            \/ t = Sent(c)' /\ att'[c].at = "poll"
            \/ \E d \in Contracts \ {c} : att[d].at = "poll" /\ t = Sent(d)
<1>1. CASE Submits(c)
  <2>1. /\ att'[c].at = "poll"
        /\ att'[c].keys = att[c].keys
        /\ att'[c].hash = submissions'
        /\ att'[c].key = att[c].key
    BY <1>1, LocalsStep
  <2>2. pending' = pending \cup {Sent(c)'}
    BY <1>1, <2>1 DEF Submits, Sent
  <2>3. att[c].at # "poll"
    BY <1>1 DEF Submits
  <2> QED
    BY <2>1, <2>2, <2>3 DEF SourcesInv
<1>2. CASE ~ Submits(c)
  <2>1. pending' = pending
    BY <1>2 DEF Progress, NothingToDo, RateLimited, AsksForKey, ChannelResolves,
            ChannelUnresolved, PolicyResolves, PolicyUnresolved, ReadsBudget, Simulates,
            EstimateReplies, SeesSuccess, SeesFailure, Records
  <2>2. ASSUME att[c].at = "poll", NEW t \in pending, t = Sent(c)
        PROVE  FALSE
    <3>1. t.id = att[c].hash
      BY <2>2 DEF Sent
    <3>2. SeesSuccess(c) \/ SeesFailure(c)
      BY <1>2, <2>2 DEF Progress, NothingToDo, RateLimited, AsksForKey, Begins,
            ChannelResolves, ChannelUnresolved, PolicyResolves, PolicyUnresolved,
            ReadsBudget, Simulates, EstimateReplies, Records
    <3> QED
      BY <2>2, <3>1, <3>2 DEF SeesSuccess, SeesFailure, InNoLedger, NumbersInv
  <2> QED
    BY <2>1, <2>2 DEF SourcesInv
<1> QED
  BY <1>1, <1>2

LEMMA SignerStep ==
  ASSUME DataTypes, SlotsInv, NEW c \in Contracts, SignsWithOwn(c),
         faults \in Nat, faults' = faults, Progress(c)
  PROVE  SignsWithOwn(c)'
<1>1. CASE att'[c].at = "done"
  BY <1>1 DEF SignsWithOwn
<1>2. CASE AsksForKey(c)
  <2>1. /\ att'[c].at \in {"acquire", "policy"}
        /\ att'[c].at = "acquire" <=> NumAccounts > 0
    BY <1>2, LocalsStep
  <2> QED
    BY <2>1 DEF SignsWithOwn, ChannelsResolve
<1>3. CASE ChannelResolves(c)
  <2>1. att'[c].at = "budget" /\ att'[c].key = slot[c]
    BY <1>3, LocalsStep
  <2>2. slot[c] \in Slots /\ slot' = slot
    BY <1>3, SlotFacts, ExtensionAssumption DEF ChannelResolves
  <2> QED
    BY <2>1, <2>2 DEF SignsWithOwn
<1>4. CASE ChannelUnresolved(c)
  <2>1. att'[c].at = "policy"
    BY <1>4, LocalsStep
  <2>2. slot[c] \in Slots /\ slot[c] \notin Signers
    BY <1>4, SlotFacts DEF ChannelUnresolved, Unresolved, Fault
  <2> QED
    BY <2>1, <2>2 DEF SignsWithOwn, ChannelsResolve
<1>5. CASE PolicyResolves(c)
  <2>1. att'[c].at = "budget" /\ att'[c].key = PolicyKey[c]
    BY <1>5, LocalsStep
  <2>2. ~ ChannelsResolve
    BY <1>5 DEF PolicyResolves, SignsWithOwn
  <2> QED
    BY <2>1, <2>2 DEF SignsWithOwn, ChannelsResolve
<1>6. CASE /\ att[c].at \in {"budget", "simulate", "submit", "poll", "record"}
           /\ att'[c].at \in {"budget", "simulate", "submit", "poll", "record"}
           /\ att'[c].key = att[c].key
           /\ slot' = slot
  BY <1>6 DEF SignsWithOwn, ChannelsResolve
<1>7. CASE NothingToDo(c) \/ RateLimited(c) \/ PolicyUnresolved(c) \/ SeesFailure(c) \/ Records(c)
  BY <1>1, <1>7, LocalsStep
<1>8. CASE ReadsBudget(c) \/ Simulates(c)
  <2>1. att[c].at \in {"budget", "simulate"}
    BY <1>8 DEF ReadsBudget, Simulates, EstimateReplies
  <2>2. \/ att'[c].at = "done"
        \/ /\ att'[c].at \in {"simulate", "submit"}
           /\ att'[c].key = att[c].key
           /\ UNCHANGED pool
    BY <1>8, LocalsStep
  <2> QED
    BY <1>1, <1>6, <2>1, <2>2
<1>9. CASE Submits(c) \/ SeesSuccess(c)
  <2>1. att[c].at \in {"submit", "poll"} /\ slot' = slot
    BY <1>9 DEF Submits, SeesSuccess
  <2>2. att'[c].at \in {"poll", "record"} /\ att'[c].key = att[c].key
    BY <1>9, LocalsStep
  <2> QED
    BY <1>6, <2>1, <2>2
<1> QED
  BY <1>2, <1>3, <1>4, <1>5, <1>7, <1>8, <1>9 DEF Progress

LEMMA SourcesKept ==
  ASSUME DataTypes, NumbersInv, SlotsInv, faults = 0, SourcesInv,
         [Next]_vars, faults' = 0
  PROVE  SourcesInv'
<1>1. CASE /\ pending' \subseteq pending
           /\ UNCHANGED <<att, slot>>
  <2>1. \A c \in Contracts : SignsWithOwn(c)'
    BY <1>1 DEF SourcesInv, SignsWithOwn, ChannelsResolve
  <2>2. \A t \in pending' : \E c \in Contracts : att'[c].at = "poll" /\ t = Sent(c)'
    BY <1>1, SentIsOne DEF SourcesInv
  <2> QED
    BY <2>1, <2>2 DEF SourcesInv
<1>2. CASE EndRun
  <2>1. pending' = {}
    BY <1>2 DEF EndRun, SourcesInv
  <2>2. \A c \in Contracts : att'[c].at = "idle"
    BY <1>2, FreshIsAttempt DEF EndRun, Stages
  <2> QED
    BY <2>1, <2>2 DEF SourcesInv, SignsWithOwn
<1>3. ASSUME NEW c \in Contracts, Progress(c)
      PROVE  SourcesInv'
  <2>1. \A d \in Contracts \ {c} : att'[d] = att[d]
    BY <1>3, LocalsStep
  <2>2. \A t \in pending' : \E d \in Contracts : att'[d].at = "poll" /\ t = Sent(d)'
    BY <1>3, <2>1, PendingStep, SentIsOne
  <2>3. SignsWithOwn(c)'
    BY <1>3, SignerStep DEF SourcesInv
  <2>4. ASSUME NEW d \in Contracts \ {c}
        PROVE  SignsWithOwn(d)'
    <3>1. slot[d] \in Slots => slot'[d] = slot[d]
      BY <1>3, AttemptUsesPool, HoldersKeep
    <3>2. att'[d] = att[d] /\ SignsWithOwn(d)
      BY <2>1 DEF SourcesInv
    <3> QED
      BY <3>1, <3>2 DEF SignsWithOwn, ChannelsResolve
  <2> QED
    BY <2>2, <2>3, <2>4 DEF SourcesInv
<1>4. CASE LedgerCloses \/ StartCycle \/ StartRun \/ UNCHANGED vars
  BY <1>1, <1>4 DEF LedgerCloses, StartCycle, StartRun
<1>5. ASSUME NEW t \in pending, Lands(t)
      PROVE  SourcesInv'
  BY <1>1, <1>5 DEF Lands
<1>6. ASSUME NEW c \in Contracts, Checks(c)
      PROVE  SourcesInv'
  BY <1>1, <1>6 DEF Checks
<1> QED
  BY <1>2, <1>3, <1>4, <1>5, <1>6, HealthyStep

LEMMA SourcesDiffer ==
  ASSUME SlotsInv, SourcesInv, KeysApart
  PROVE  DistinctSources
<1> SUFFICES ASSUME NEW t \in pending, NEW u \in pending, t.key = u.key
             PROVE  t = u
  BY DEF DistinctSources
<1>1. PICK c \in Contracts : att[c].at = "poll" /\ t = Sent(c)
  BY DEF SourcesInv
<1>2. PICK d \in Contracts : att[d].at = "poll" /\ u = Sent(d)
  BY DEF SourcesInv
<1>3. att[c].key = att[d].key
  BY <1>1, <1>2 DEF Sent
<1>4. /\ \/ att[c].key = slot[c] /\ slot[c] \in Slots
         \/ att[c].key = PolicyKey[c] /\ ~ ChannelsResolve
      /\ \/ att[d].key = slot[d] /\ slot[d] \in Slots
         \/ att[d].key = PolicyKey[d] /\ ~ ChannelsResolve
  BY <1>1, <1>2 DEF SourcesInv, SignsWithOwn
<1>5. c = d
  BY <1>3, <1>4, SlotFacts DEF KeysApart, ChannelsResolve
<1> QED
  BY <1>1, <1>2, <1>5

LEMMA UndisturbedInit ==
  ASSUME Init
  PROVE  LocalsInv /\ NumbersInv /\ SlotsInv /\ SourcesInv
<1>1. \A c \in Contracts : att[c].at = "idle" /\ att[c].hash = 0
  BY FreshIsAttempt DEF Init, Stages
<1>2. LocalsInv
  BY <1>1 DEF LocalsInv, Working
<1>3. NumbersInv
  BY FS_EmptySet DEF Init, NumbersInv
<1>4. SlotsInv
  <2>1. NumAccounts > 0 => PoolProofs!PoolInv
    <3>1. SUFFICES ASSUME NumAccounts > 0
                   PROVE  PoolProofs!PoolInv
      OBVIOUS
    <3>2. PoolProofs!Init
      BY DEF Init, Pool!Init, PoolProofs!Init
    <3> QED
      BY <3>1, <3>2, PoolHasAccounts, PoolProofs!PoolInit
  <2> QED
    BY <2>1 DEF SlotsInv, Init, Pool!Init
<1>5. SourcesInv
  BY <1>1 DEF SourcesInv, SignsWithOwn, Init
<1> QED
  BY <1>2, <1>3, <1>4, <1>5

NumberedInv == LocalsInv /\ NumbersInv /\ SlotsInv

LEMMA NumberedInvHolds == Spec => []NumberedInv
<1>1. Init => NumberedInv
  BY UndisturbedInit DEF NumberedInv
<1>2. DataTypes /\ HistoryInv /\ NumberedInv /\ [Next]_vars => NumberedInv'
  BY LocalsKept, NumbersKept, SlotsKept DEF NumberedInv, HistoryInv
<1> QED
  BY <1>1, <1>2, TypesHold, HistoryInvHolds, PTL DEF Spec

LEMMA SourcesInvHolds == Spec => [](faults = 0 => SourcesInv)
<1>1. Init => (faults = 0 => SourcesInv)
  BY UndisturbedInit
<1>2. DataTypes /\ NumberedInv /\ (faults = 0 => SourcesInv) /\ [Next]_vars
        => (faults = 0 => SourcesInv)'
  BY HealthyStep, SourcesKept DEF NumberedInv, NumbersInv
<1> QED
  BY <1>1, <1>2, TypesHold, NumberedInvHolds, PTL DEF Spec

\* While nothing fails, two transactions in flight never share a source account,
\* whatever the order in which attempts ask, wait and are handed a freed slot.
THEOREM UndisturbedSourcesHolds == Spec => []UndisturbedSources
<1>1. NumberedInv /\ (faults = 0 => SourcesInv) => UndisturbedSources
  BY SourcesDiffer DEF NumberedInv, UndisturbedSources
<1> QED
  BY <1>1, NumberedInvHolds, SourcesInvHolds, PTL

-----------------------------------------------------------------------------
(* Every account comes back. A step of an attempt asks the pool, returns what  *)
(* the attempt has, or leaves the pool alone; what it does to the attempt's    *)
(* stage must fit.                                                            *)

Borrowing == {"acquire", "budget", "simulate", "submit", "poll", "record"}

\* What the attempt of c has of the pool fits how far it is.
Settled(c) ==
  /\ slot[c] # NoSlot => att[c].at \in Borrowing
  /\ c \in Queued <=> att[c].at = "acquire" /\ slot[c] = NoSlot

StageFitsCall(c) ==
  \/ NumAccounts > 0 /\ Pool!Acquire(c) /\ att[c].at = "idle" /\ att'[c].at = "acquire"
  \/ Pool!Release(c) /\ att'[c].at \in {"policy", "done"}
  \/ /\ UNCHANGED pool
     /\ \/ att[c].at \in {"idle", "policy"} /\ att'[c].at \in {"policy", "done"}
        \/ att[c].at \in Borrowing \ {"acquire"} /\ slot[c] = NoSlot /\ att'[c].at = "done"
        \/ att[c].at = "policy" /\ att'[c].at = "budget"
        \/ att[c].at = "acquire" /\ slot[c] # NoSlot /\ att'[c].at = "budget"
        \/ /\ att[c].at \in Borrowing \ {"acquire"}
           /\ att'[c].at \in Borrowing \ {"acquire"}

LEMMA StageStep ==
  ASSUME DataTypes, NEW c \in Contracts, Progress(c) \/ SimulationFails(c) \/ GivesUp(c)
  PROVE  StageFitsCall(c)
<1>. USE DEF StageFitsCall, Borrowing
<1>1. CASE NothingToDo(c) \/ RateLimited(c) \/ PolicyUnresolved(c)
  <2>1. att'[c].at = "done"
    BY <1>1, LocalsStep
  <2> QED
    BY <1>1, <2>1 DEF NothingToDo, RateLimited, PolicyUnresolved, Begins
<1>2. CASE AsksForKey(c)
  <2>1. /\ att'[c].at \in {"acquire", "policy"}
        /\ att'[c].at = "acquire" <=> NumAccounts > 0
    BY <1>2, LocalsStep
  <2> QED
    BY <1>2, <2>1 DEF AsksForKey, Begins
<1>3. CASE ChannelResolves(c)
  <2>1. att'[c].at = "budget"
    BY <1>3, LocalsStep
  <2>2. slot[c] # NoSlot
    BY <1>3, ExtensionAssumption DEF ChannelResolves
  <2> QED
    BY <1>3, <2>1, <2>2 DEF ChannelResolves
<1>4. CASE ChannelUnresolved(c)
  <2>1. att'[c].at = "policy"
    BY <1>4, LocalsStep
  <2> QED
    BY <1>4, <2>1 DEF ChannelUnresolved
<1>5. CASE PolicyResolves(c)
  <2>1. att'[c].at = "budget"
    BY <1>5, LocalsStep
  <2> QED
    BY <1>5, <2>1 DEF PolicyResolves
<1>6. CASE Submits(c) \/ SeesSuccess(c)
  <2>1. att'[c].at \in {"poll", "record"}
    BY <1>6, LocalsStep
  <2> QED
    BY <1>6, <2>1 DEF Submits, SeesSuccess
<1>7. ASSUME Finishes(c), att[c].at \in Borrowing \ {"acquire"}
      PROVE  StageFitsCall(c)
  <2>1. att'[c].at = "done"
    BY <1>7, FinishesOne, FreshIsAttempt DEF Stages
  <2> QED
    BY <1>7, <2>1 DEF Finishes, ReturnsSlot
<1>8. CASE SeesFailure(c) \/ Records(c) \/ GivesUp(c)
  BY <1>7, <1>8 DEF SeesFailure, Records, GivesUp
<1>9. CASE ReadsBudget(c)
  <2>1. att'[c].at \in {"simulate", "submit"} \/ att'[c].at = "done"
    BY <1>9, LocalsStep
  <2>2. att[c].at = "budget" /\ UNCHANGED pool
    BY <1>9 DEF ReadsBudget
  <2>3. att'[c].at # "done"
    <3>1. att[c] \in Attempt /\ spent[c] \in Nat
      BY DEF DataTypes
    <3>2. [att[c] EXCEPT !.at = "submit"] \in Attempt
      BY <3>1 DEF Attempt, Stages
    <3>3. [att[c] EXCEPT !.at = "simulate", !.seen = spent[c]] \in Attempt
      BY <3>1 DEF Attempt, Stages
    <3>4. CASE Moves(c, [att[c] EXCEPT !.at = "submit"])
      <4>1. att'[c] = [att[c] EXCEPT !.at = "submit"]
        BY <3>2, <3>4, MovesOne
      <4> QED
        BY <3>1, <4>1 DEF Attempt
    <3>5. CASE Moves(c, [att[c] EXCEPT !.at = "simulate", !.seen = spent[c]])
      <4>1. att'[c] = [att[c] EXCEPT !.at = "simulate", !.seen = spent[c]]
        BY <3>3, <3>5, MovesOne
      <4> QED
        BY <3>1, <4>1 DEF Attempt
    <3> QED
      BY <1>9, <3>4, <3>5 DEF ReadsBudget
  <2> QED
    BY <2>1, <2>2, <2>3
<1>10. CASE Simulates(c) \/ SimulationFails(c)
  <2>1. att[c].at = "simulate"
    BY <1>10 DEF Simulates, SimulationFails, EstimateReplies
  <2>2. CASE Finishes(c)
    BY <1>7, <2>1, <2>2
  <2>3. CASE ~ Finishes(c)
    <3>1. UNCHANGED pool /\ \E est \in {0, Fee} : Moves(c, [att[c] EXCEPT !.at = "submit", !.est = est])
      BY <1>10, <2>3 DEF Simulates, SimulationFails, EstimateReplies
    <3>2. att[c] \in Attempt
      BY DEF DataTypes
    <3>3. PICK est \in {0, Fee} : Moves(c, [att[c] EXCEPT !.at = "submit", !.est = est])
      BY <3>1
    <3>4. [att[c] EXCEPT !.at = "submit", !.est = est] \in Attempt
      BY <3>2 DEF Attempt, Stages
    <3>5. att'[c].at = "submit"
      BY <3>2, <3>3, <3>4, MovesOne DEF Attempt
    <3> QED
      BY <2>1, <3>1, <3>5
  <2> QED
    BY <2>2, <2>3
<1> QED
  BY <1>1, <1>2, <1>3, <1>4, <1>5, <1>6, <1>8, <1>9, <1>10 DEF Progress

\* The queue grows at its end and shrinks at its head.
LEMMA QueueGrows ==
  ASSUME waiters \in Seq(Contracts), NEW c \in Contracts, waiters' = Append(waiters, c)
  PROVE  \A d : d \in Queued' <=> d \in Queued \/ d = c
<1>1. DOMAIN waiters' = 1 .. Len(waiters) + 1 /\ DOMAIN waiters = 1 .. Len(waiters)
  OBVIOUS
<1>2. \A j \in 1 .. Len(waiters) : waiters'[j] = waiters[j]
  OBVIOUS
<1>3. waiters'[Len(waiters) + 1] = c /\ Len(waiters) \in Nat
  OBVIOUS
<1> QED
  BY <1>1, <1>2, <1>3 DEF Queued

LEMMA QueueShrinks ==
  ASSUME waiters \in Seq(Contracts), waiters # << >>, waiters' = Tail(waiters),
         \A j, k \in DOMAIN waiters : waiters[j] = waiters[k] => j = k
  PROVE  \A d : d \in Queued' <=> d \in Queued /\ d # Head(waiters)
<1>1. /\ DOMAIN waiters = 1 .. Len(waiters) /\ Len(waiters) \in Nat \ {0}
      /\ DOMAIN waiters' = 1 .. Len(waiters) - 1
      /\ Head(waiters) = waiters[1]
  OBVIOUS
<1>2. \A j \in 1 .. Len(waiters) - 1 : waiters'[j] = waiters[j + 1]
  OBVIOUS
<1>3. ASSUME NEW d, d \in Queued'
      PROVE  d \in Queued /\ d # Head(waiters)
  <2>1. PICK j \in 1 .. Len(waiters) - 1 : d = waiters[j + 1]
    BY <1>1, <1>2, <1>3 DEF Queued
  <2>2. j + 1 \in DOMAIN waiters /\ 1 \in DOMAIN waiters /\ j + 1 # 1
    BY <1>1
  <2> QED
    BY <1>1, <2>1, <2>2 DEF Queued
<1>4. ASSUME NEW d, d \in Queued, d # Head(waiters)
      PROVE  d \in Queued'
  <2>1. PICK j \in DOMAIN waiters : d = waiters[j]
    BY <1>4 DEF Queued
  <2>2. j # 1
    BY <1>1, <1>4, <2>1
  <2>3. j - 1 \in 1 .. Len(waiters) - 1 /\ j - 1 + 1 = j
    BY <1>1, <2>1, <2>2
  <2> QED
    BY <1>1, <1>2, <2>1, <2>3 DEF Queued
<1> QED
  BY <1>3, <1>4

LEMMA NobodyElseMoves ==
  ASSUME NEW c \in Contracts, Settled(c), att'[c] = att[c], slot'[c] = slot[c],
         c \in Queued' <=> c \in Queued
  PROVE  Settled(c)'
BY DEF Settled

\* The three calls: what they change for the caller and for one that waits.
LEMMA SettledStep ==
  ASSUME DataTypes, SlotsInv, \A x \in Contracts : Settled(x),
         NEW c \in Contracts, StageFitsCall(c),
         \A x \in Contracts \ {c} : att'[x] = att[x]
  PROVE  \A x \in Contracts : Settled(x)'
<1>. USE ExtensionAssumption DEF Borrowing
<1>0. ASSUME NumAccounts > 0
      PROVE  /\ PoolProofs!PoolConstants /\ PoolProofs!PoolInv
             /\ slot \in [Contracts -> Slots \cup {NoSlot}]
             /\ waiters \in Seq(Contracts)
             /\ \A j, k \in DOMAIN waiters : waiters[j] = waiters[k] => j = k
  BY <1>0, PoolHasAccounts DEF SlotsInv, PoolProofs!PoolInv, PoolProofs!TypeOK,
       PoolProofs!WaitersAreWaiting, PoolProofs!Slots, Slots
<1>1. ASSUME /\ UNCHANGED pool
             /\ \/ att[c].at \in {"idle", "policy"} /\ att'[c].at \in {"policy", "done"}
                \/ att[c].at \in Borrowing \ {"acquire"} /\ slot[c] = NoSlot /\ att'[c].at = "done"
                \/ att[c].at = "policy" /\ att'[c].at = "budget"
                \/ att[c].at = "acquire" /\ slot[c] # NoSlot /\ att'[c].at = "budget"
                \/ /\ att[c].at \in Borrowing \ {"acquire"}
                   /\ att'[c].at \in Borrowing \ {"acquire"}
      PROVE  \A x \in Contracts : Settled(x)'
  <2>1. Queued' = Queued /\ slot' = slot
    BY <1>1 DEF Queued
  <2>2. \A x \in Contracts \ {c} : Settled(x)'
    BY <2>1, NobodyElseMoves
  <2>3. /\ slot[c] # NoSlot => att[c].at \in Borrowing
        /\ c \in Queued <=> att[c].at = "acquire" /\ slot[c] = NoSlot
    BY DEF Settled
  <2>4. /\ slot[c] # NoSlot => att'[c].at \in Borrowing
        /\ c \in Queued <=> att'[c].at = "acquire" /\ slot[c] = NoSlot
    BY <1>1, <2>3
  <2>5. Settled(c)'
    BY <2>1, <2>4 DEF Settled
  <2> QED
    BY <2>2, <2>5
<1>2. ASSUME NumAccounts > 0, Pool!Acquire(c), att[c].at = "idle", att'[c].at = "acquire"
      PROVE  \A x \in Contracts : Settled(x)'
  <2>0. slot[c] = NoSlot /\ c \notin Queued
    BY <1>2 DEF Settled
  <2>1. CASE Pool!AcquireFree(c)
    <3>1. PICK s \in Slots :
            /\ slot' = [slot EXCEPT ![c] = s]
            /\ waiters' = waiters
      <4>1. PoolProofs!AcquireFree(c)
        BY <2>1 DEF Pool!AcquireFree, Pool!MoveCursor, Pool!Marked, Pool!NextFree,
             Pool!FreeOffsets, Pool!Scan, Pool!Slots, Pool!Min, PoolProofs!AcquireFree,
             PoolProofs!MoveCursor, PoolProofs!Marked, PoolProofs!NextFree,
             PoolProofs!FreeOffsets, PoolProofs!Scan, PoolProofs!Slots, PoolProofs!Min
      <4> QED
        BY <1>0, <1>2, <4>1, PoolProofs!AcquireFreeStep DEF PoolProofs!Slots, Slots
    <3>2. Queued' = Queued
      BY <3>1 DEF Queued
    <3>3. slot'[c] = s /\ \A x \in Contracts \ {c} : slot'[x] = slot[x]
      BY <1>0, <1>2, <3>1
    <3>4. \A x \in Contracts \ {c} : Settled(x)'
      BY <3>2, <3>3, NobodyElseMoves
    <3>5. Settled(c)'
      BY <1>2, <2>0, <3>2, <3>3 DEF Settled
    <3> QED
      BY <3>4, <3>5
  <2>2. CASE Pool!AcquireWaits(c)
    <3>1. waiters' = Append(waiters, c) /\ slot' = slot
      BY <2>2 DEF Pool!AcquireWaits
    <3>2. \A d : d \in Queued' <=> d \in Queued \/ d = c
      BY <1>0, <1>2, <3>1, QueueGrows
    <3>3. \A x \in Contracts \ {c} : Settled(x)'
      BY <3>1, <3>2, NobodyElseMoves
    <3>4. Settled(c)'
      BY <1>2, <2>0, <3>1, <3>2 DEF Settled
    <3> QED
      BY <3>3, <3>4
  <2> QED
    BY <1>2, <2>1, <2>2 DEF Pool!Acquire
<1>3. ASSUME Pool!Release(c), att'[c].at \in {"policy", "done"}
      PROVE  \A x \in Contracts : Settled(x)'
  <2>0. slot[c] # NoSlot /\ NumAccounts > 0
    BY <1>3 DEF Pool!Release, Pool!ReleaseIdle, Pool!HandOver, SlotsInv
  <2>1. c \notin Queued
    BY <2>0 DEF Settled
  <2>2. CASE PoolProofs!ReleaseIdle(c)
    <3>1. Queued' = Queued
      BY <2>2 DEF PoolProofs!ReleaseIdle, Queued
    <3>2. slot'[c] = NoSlot /\ \A x \in Contracts \ {c} : slot'[x] = slot[x]
      BY <1>0, <2>0, <2>2 DEF PoolProofs!ReleaseIdle
    <3>3. \A x \in Contracts \ {c} : Settled(x)'
      BY <3>1, <3>2, NobodyElseMoves
    <3>4. Settled(c)'
      BY <1>3, <2>1, <3>1, <3>2 DEF Settled
    <3> QED
      BY <3>3, <3>4
  <2>3. CASE PoolProofs!HandOver(c)
    <3>1. PICK w \in Contracts :
            /\ waiters # << >> /\ w = Head(waiters) /\ w # c
            /\ slot[c] \in Slots /\ slot[w] = NoSlot
            /\ slot' = [x \in Contracts |-> IF x = c THEN NoSlot
                                            ELSE IF x = w THEN slot[c]
                                            ELSE slot[x]]
            /\ waiters' = Tail(waiters)
      BY <1>0, <2>0, <2>3, PoolProofs!HandOverStep DEF PoolProofs!Slots, Slots
    <3>2. \A d : d \in Queued' <=> d \in Queued /\ d # w
      BY <1>0, <2>0, <3>1, QueueShrinks
    <3>3. \A x \in Contracts \ {c, w} : slot'[x] = slot[x] /\ (x \in Queued' <=> x \in Queued)
      BY <3>1, <3>2
    <3>4. \A x \in Contracts \ {c, w} : Settled(x)'
      BY <3>3, NobodyElseMoves
    <3>5. Settled(c)'
      <4>1. slot'[c] = NoSlot /\ c \notin Queued'
        BY <2>1, <3>1, <3>2
      <4> QED
        BY <1>3, <4>1 DEF Settled
    <3>6. Settled(w)'
      <4>1. slot'[w] = slot[c] /\ slot[c] # NoSlot /\ w \notin Queued'
        BY <2>0, <3>1, <3>2
      <4>2. w \in Queued
        <5>1. 1 \in DOMAIN waiters /\ Head(waiters) = waiters[1]
          BY <1>0, <2>0, <3>1
        <5> QED
          BY <3>1, <5>1 DEF Queued
      <4>3. att'[w].at = "acquire"
        BY <3>1, <4>2 DEF Settled
      <4> QED
        BY <4>1, <4>3 DEF Settled
    <3> QED
      BY <3>4, <3>5, <3>6
  <2> QED
    BY <1>3, <2>2, <2>3, SameRelease DEF PoolProofs!Release
<1> QED
  BY <1>1, <1>2, <1>3 DEF StageFitsCall

LEMMA SettledKept ==
  ASSUME DataTypes, SlotsInv, \A x \in Contracts : Settled(x), [Next]_vars
  PROVE  \A x \in Contracts : Settled(x)'
<1>1. CASE att' = att /\ UNCHANGED pool
  BY <1>1 DEF Settled, Queued
<1>2. ASSUME NEW c \in Contracts, Progress(c) \/ SimulationFails(c) \/ GivesUp(c)
      PROVE  \A x \in Contracts : Settled(x)'
  BY <1>2, StageStep, AttemptStepTypes, SettledStep
<1>3. CASE EndRun \/ Crash
  <2>1. att' = [c \in Contracts |-> Fresh("idle")] /\ PoolIsGone
    BY <1>3 DEF EndRun, Crash
  <2>2. \A x \in Contracts : att'[x].at = "idle"
    BY <2>1, FreshIsAttempt DEF Stages
  <2>3. Queued' = {} /\ \A x \in Contracts : slot'[x] = NoSlot
    BY <2>1 DEF PoolIsGone, Queued
  <2> QED
    BY <2>2, <2>3 DEF Settled
<1>4. CASE LedgerCloses \/ StartCycle \/ StartRun \/ RunFails \/ UNCHANGED vars
  BY <1>1, <1>4 DEF LedgerCloses, StartCycle, StartRun, RunFails
<1>5. ASSUME NEW t \in pending, Lands(t) \/ IsLost(t)
      PROVE  att' = att /\ UNCHANGED pool
  BY <1>5 DEF Lands, IsLost
<1>6. ASSUME NEW c \in Contracts, Checks(c) \/ CheckFails(c)
      PROVE  att' = att /\ UNCHANGED pool
  BY <1>6 DEF Checks, CheckFails
<1> QED
  BY <1>1, <1>2, <1>3, <1>4, <1>5, <1>6 DEF Next

LEMMA SettledInit ==
  ASSUME Init
  PROVE  \A x \in Contracts : Settled(x)
<1>1. \A x \in Contracts : att[x].at = "idle"
  BY FreshIsAttempt DEF Init, Stages
<1>2. Queued = {} /\ \A x \in Contracts : slot[x] = NoSlot
  BY DEF Init, Pool!Init, Queued
<1> QED
  BY <1>1, <1>2 DEF Settled

\* Without an account the pool of a run is never asked, with one it is sound.
LEMMA PoolIsSound ==
  ASSUME SlotsInv
  PROVE  Pool!SlotsAreSound
<1>1. CASE NumAccounts > 0
  BY <1>1 DEF SlotsInv, PoolProofs!PoolInv, PoolProofs!OneHolder, PoolProofs!InUseIsHeld,
       PoolProofs!NobodyWaitsForFreeSlot, PoolProofs!Holders, PoolProofs!Slots,
       Pool!SlotsAreSound, Pool!OneHolder, Pool!InUseIsHeld, Pool!NobodyWaitsForFreeSlot,
       Pool!Holders, Pool!Slots
<1>2. CASE NumAccounts = 0
  BY <1>2 DEF SlotsInv, Pool!SlotsAreSound, Pool!OneHolder, Pool!InUseIsHeld,
       Pool!NobodyWaitsForFreeSlot, Pool!Holders
<1> QED
  BY <1>1, <1>2, ExtensionAssumption

\* On every path through an attempt, with or without failures and crashes, the
\* account that the pool handed to it comes back exactly once: no attempt that is
\* over, or that uses its policy's key, has one, and none waits that could be served.
THEOREM SlotsComeBack == Spec => []SlotsAreReturned
<1>1. Init => \A x \in Contracts : Settled(x)
  BY SettledInit
<1>2. DataTypes /\ NumberedInv /\ (\A x \in Contracts : Settled(x)) /\ [Next]_vars
        => (\A x \in Contracts : Settled(x))'
  BY SettledKept DEF NumberedInv
<1>3. NumberedInv /\ (\A x \in Contracts : Settled(x)) => SlotsAreReturned
  BY PoolIsSound DEF NumberedInv, SlotsAreReturned, Settled, Borrowing
<1> QED
  BY <1>1, <1>2, <1>3, TypesHold, NumberedInvHolds, PTL DEF Spec

-----------------------------------------------------------------------------
(* The hourly limit. Rows are counted before an attempt starts, and landings   *)
(* are what is limited; no landing of the contract can come in between but the *)
(* attempt's own, and every earlier one has its row by then.                  *)

LEMMA UntilStep ==
  ASSUME [Next]_vars, ~ (\E t \in pending : Lands(t))
  PROVE  until' = until
BY DEF Next, LedgerCloses, StartCycle, StartRun, RunFails, EndRun, Crash, IsLost, Checks,
       CheckFails, Progress, NothingToDo, RateLimited, AsksForKey, ChannelResolves,
       ChannelUnresolved, PolicyResolves, PolicyUnresolved, ReadsBudget, Simulates,
       SimulationFails, EstimateReplies, Submits, SeesSuccess, SeesFailure, GivesUp, Records

\* An archived entry stays archived.
LEMMA ArchivedStays ==
  ASSUME DataTypes, [Next]_vars, NoneArchived'
  PROVE  NoneArchived
<1> SUFFICES ASSUME NEW e \in Entries
             PROVE  until[e] >= now
  BY DEF NoneArchived
<1>1. /\ now \in Nat /\ now' \in Nat /\ now <= now'
      /\ until[e] \in Nat
      /\ until'[e] >= now'
  BY ChainStep DEF DataTypes, NoneArchived
<1>2. ASSUME NEW t \in pending, Lands(t), until[e] < now
      PROVE  FALSE
  <2>1. until'[e] = until[e] /\ now' = now
    BY <1>1, <1>2 DEF Lands
  <2> QED
    BY <1>1, <1>2, <2>1
<1>3. CASE until' = until
  BY <1>1, <1>3
<1> QED
  BY <1>1, <1>2, <1>3, UntilStep

LEMMA LandingsAreFinite ==
  ASSUME NumbersInv, NEW c \in Contracts
  PROVE  /\ IsFiniteSet(LandedInLastHour(c))
         /\ Cardinality(LandedInLastHour(c)) \in Nat
         /\ IsFiniteSet(Earlier(c))
         /\ Cardinality(Earlier(c)) \in Nat
<1>1. LandedInLastHour(c) \in SUBSET landed /\ Earlier(c) \in SUBSET landed
  BY DEF LandedInLastHour, Earlier
<1> QED
  BY <1>1, FS_Subset, FS_CardinalityType DEF NumbersInv

\* Between attempts every landing of the last hour is counted by a row of its own.
LEMMA RowsCountLandings ==
  ASSUME DataTypes, NumbersInv, \A t \in landed : Accounted(t),
         \A t \in landed : t.ledger \in Nat,
         NEW c \in Contracts, att[c].at \notin {"poll", "record"}
  PROVE  Cardinality(LandedInLastHour(c)) <= CountExtensionsInLastHour(c)
<1>. DEFINE S == LandedInLastHour(c)
            T == {r \in history : OwnerOf[r.entry] = c /\ r.ledger >= now - Hour}
            f == [t \in S |-> CHOOSE r \in T : r.hash = t.id]
<1>1. T \in SUBSET history
  OBVIOUS
<1>2. IsFiniteSet(T) /\ Cardinality(T) \in Nat
  BY <1>1, FS_Subset, FS_CardinalityType DEF NumbersInv
<1>3. \A t \in S : \E r \in T : r.hash = t.id
  <2> SUFFICES ASSUME NEW t \in S
               PROVE  \E r \in T : r.hash = t.id
    OBVIOUS
  <2>1. t \in landed /\ t.contract = c /\ t.ledger >= now - Hour
    BY DEF LandedInLastHour
  <2>2. PICK r \in history : /\ r.hash = t.id
                             /\ OwnerOf[r.entry] = t.contract
                             /\ r.ledger >= t.ledger
    BY <2>1 DEF Accounted, HasRow
  <2>3. r.ledger >= now - Hour
    BY <2>1, <2>2, ExtensionAssumption DEF DataTypes, NumbersInv
  <2> QED
    BY <2>1, <2>2, <2>3
<1>4. f \in [S -> T] /\ \A t \in S : f[t].hash = t.id
  BY <1>3
<1>5. \A t, u \in S : t.id = u.id => t = u
  BY DEF LandedInLastHour, NumbersInv
<1>6. IsFiniteSet(S) /\ Cardinality(S) \in Nat
  BY LandingsAreFinite
<1>7. ASSUME Cardinality(T) < Cardinality(S)
      PROVE  FALSE
  <2>. HIDE DEF S, T, f
  <2>1. \E x, y \in S : x # y /\ f[x] = f[y]
    BY <1>2, <1>4, <1>6, <1>7, FS_PigeonHole
  <2> QED
    BY <1>4, <1>5, <2>1
<1>8. Cardinality(S) <= Cardinality(T)
  <2>. HIDE DEF S, T
  <2> QED
    BY <1>2, <1>6, <1>7
<1> QED
  BY <1>8 DEF CountExtensionsInLastHour

\* Time takes landings out of the last hour.
LEMMA HourPasses ==
  ASSUME DataTypes, Numbered, NumbersInv, RateInv, now' \in Nat, now <= now',
         UNCHANGED <<landed, history, att>>
  PROVE  RateInv'
<1>1. \A t \in landed : t.ledger \in Nat
  BY DEF Numbered, DataTypes
<1>2. ASSUME NEW c \in Contracts
      PROVE  /\ LandedInLastHour(c)' \in SUBSET LandedInLastHour(c)
             /\ Earlier(c)' \in SUBSET Earlier(c)
  BY <1>1, ExtensionAssumption DEF LandedInLastHour, Earlier, DataTypes
<1>3. ASSUME NEW c \in Contracts
      PROVE  /\ Cardinality(LandedInLastHour(c)') \in Nat
             /\ Cardinality(LandedInLastHour(c)') <= Cardinality(LandedInLastHour(c))
             /\ Cardinality(Earlier(c)') \in Nat
             /\ Cardinality(Earlier(c)') <= Cardinality(Earlier(c))
  BY <1>2, LandingsAreFinite, FS_Subset, FS_CardinalityType
<1>4. RateLimitHolds'
  <2> SUFFICES ASSUME NEW c \in Contracts
               PROVE  Cardinality(LandedInLastHour(c)') <= RateLimit
    BY DEF RateLimitHolds
  <2>1. Cardinality(LandedInLastHour(c)) <= RateLimit
    BY DEF RateInv, RateLimitHolds
  <2> QED
    BY <1>3, <2>1, LandingsAreFinite, ExtensionAssumption
<1>5. ASSUME NEW c \in Contracts, att[c].at \in Working
      PROVE  Cardinality(Earlier(c)') < RateLimit
  <2>1. Cardinality(Earlier(c)) < RateLimit
    BY <1>5 DEF RateInv
  <2> QED
    BY <1>3, <2>1, LandingsAreFinite, ExtensionAssumption
<1>6. \A t \in landed' : Accounted(t)'
  BY DEF RateInv, Accounted, HasRow
<1> QED
  BY <1>4, <1>5, <1>6 DEF RateInv

\* A landing is the one that the attempt in progress was let in for.
LEMMA LandingKeepsRate ==
  ASSUME DataTypes, NumbersInv, NumbersInv', SourcesInv, RateInv,
         NEW t \in pending, Lands(t)
  PROVE  RateInv'
<1>. DEFINE n == [id |-> t.id, contract |-> t.contract, keys |-> t.keys, ledger |-> now]
<1>0. /\ landed' = landed \cup {n}
      /\ UNCHANGED <<now, history, att>>
  BY DEF Lands
<1>1. n.id = t.id /\ n.contract = t.contract
  OBVIOUS
<1>. HIDE DEF n
<1>2. PICK c \in Contracts : att[c].at = "poll" /\ t = Sent(c)
  BY DEF SourcesInv
<1>3. t.id = att[c].hash /\ t.contract = c
  BY <1>2 DEF Sent
<1>4. \A u \in landed : u.id # att[c].hash
  BY <1>3 DEF NumbersInv
<1>5. ASSUME NEW u \in landed'
      PROVE  Accounted(u)'
  <2>1. CASE u = n
    BY <1>0, <1>1, <1>2, <1>3, <2>1 DEF Accounted
  <2>2. CASE u \in landed
    BY <1>0, <2>2 DEF RateInv, Accounted, HasRow
  <2> QED
    BY <1>0, <2>1, <2>2
<1>6. ASSUME NEW d \in Contracts
      PROVE  Earlier(d)' = Earlier(d)
  <2>1. ASSUME NEW u
        PROVE  u \in Earlier(d)' <=> u \in Earlier(d)
    <3>1. ~ (n.contract = d /\ n.id # att[d].hash)
      BY <1>1, <1>3
    <3>2. u \in Earlier(d)' <=> /\ u \in landed \cup {n}
                                /\ u.contract = d
                                /\ u.ledger >= now - Hour
                                /\ u.id # att[d].hash
      BY <1>0 DEF Earlier, LandedInLastHour
    <3>3. u \in Earlier(d) <=> /\ u \in landed
                               /\ u.contract = d
                               /\ u.ledger >= now - Hour
                               /\ u.id # att[d].hash
      BY DEF Earlier, LandedInLastHour
    <3> QED
      BY <3>1, <3>2, <3>3
  <2> QED
    BY <2>1 DEF Earlier
<1>7. \A d \in Contracts \ {c} : LandedInLastHour(d)' = LandedInLastHour(d)
  BY <1>0, <1>1, <1>3 DEF LandedInLastHour
<1>8. LandedInLastHour(c)' \in SUBSET (Earlier(c) \cup {n})
  BY <1>0, <1>4 DEF LandedInLastHour, Earlier
<1>9. Cardinality(LandedInLastHour(c)') <= RateLimit
  <2>1. /\ IsFiniteSet(Earlier(c)) /\ Cardinality(Earlier(c)) \in Nat
        /\ Cardinality(Earlier(c)) < RateLimit
    BY <1>2, LandingsAreFinite DEF RateInv, Working
  <2>2. /\ IsFiniteSet(Earlier(c) \cup {n})
        /\ \/ Cardinality(Earlier(c) \cup {n}) = Cardinality(Earlier(c))
           \/ Cardinality(Earlier(c) \cup {n}) = Cardinality(Earlier(c)) + 1
    BY <2>1, FS_AddElement
  <2>3. /\ Cardinality(LandedInLastHour(c)') <= Cardinality(Earlier(c) \cup {n})
        /\ IsFiniteSet(LandedInLastHour(c)')
    BY <1>8, <2>2, FS_Subset
  <2>4. Cardinality(LandedInLastHour(c)') \in Nat
    BY <2>3, FS_CardinalityType
  <2> QED
    BY <2>1, <2>2, <2>3, <2>4, ExtensionAssumption
<1>10. RateLimitHolds'
  <2>1. ASSUME NEW d \in Contracts
        PROVE  Cardinality(LandedInLastHour(d)') <= RateLimit
    BY <1>7, <1>9 DEF RateInv, RateLimitHolds
  <2> QED
    BY <2>1 DEF RateLimitHolds
<1>11. \A d \in Contracts : att'[d].at \in Working => Cardinality(Earlier(d)') < RateLimit
  BY <1>0, <1>6 DEF RateInv
<1> QED
  BY <1>5, <1>10, <1>11 DEF RateInv

\* A step of c that nothing disturbs.
LEMMA AttemptKeepsRate ==
  ASSUME DataTypes, HistoryInv, LocalsInv, LocalsInv', NumbersInv, NoneArchived, RateInv,
         NEW c \in Contracts, Progress(c)
  PROVE  RateInv'
<1>0. UNCHANGED <<now, landed>> /\ history \subseteq history'
  BY DEF Progress, NothingToDo, RateLimited, AsksForKey, ChannelResolves,
         ChannelUnresolved, PolicyResolves, PolicyUnresolved, ReadsBudget, Simulates,
         EstimateReplies, Submits, SeesSuccess, SeesFailure, Records
<1>1. \A d \in Contracts \ {c} : att'[d] = att[d]
  BY LocalsStep
<1>2. RateLimitHolds'
  BY <1>0 DEF RateInv, RateLimitHolds, LandedInLastHour
<1>3. ASSUME NEW t \in landed
      PROVE  Accounted(t)'
  <2>0. Accounted(t)
    BY DEF RateInv
  <2>1. CASE HasRow(t) \/ t.contract # c
    BY <1>0, <1>1, <2>0, <2>1 DEF Accounted, HasRow
  <2>2. CASE ~ HasRow(t) /\ t.contract = c
    <3>1. att[c].at \in {"poll", "record"} /\ att[c].hash = t.id
      BY <2>0, <2>2 DEF Accounted
    <3>2. SeesSuccess(c) \/ SeesFailure(c) \/ Records(c)
      BY <3>1 DEF Progress, NothingToDo, RateLimited, AsksForKey, Begins,
            ChannelResolves, ChannelUnresolved, PolicyResolves, PolicyUnresolved,
            ReadsBudget, Simulates, EstimateReplies, Submits
    <3>3. CASE SeesSuccess(c)
      <4>1. att'[c].at = "record" /\ att'[c].hash = att[c].hash
        BY <3>3, LocalsStep
      <4> QED
        BY <2>2, <3>1, <4>1 DEF Accounted
    <3>4. CASE SeesFailure(c)
      BY <3>1, <3>4 DEF SeesFailure, InNoLedger
    <3>5. CASE Records(c)
      <4>1. PICK e \in Entries : e \in att[c].keys /\ OwnerOf[e] = c
        BY <3>5 DEF Records, LocalsInv, Working, EntriesOf
      <4>. DEFINE r == [hash |-> att[c].hash, entry |-> e, ledger |-> now]
      <4>2. r \in Recorded(c)
        BY <4>1 DEF Recorded, Returned, NoneArchived
      <4>3. r.hash = att[c].hash /\ r.entry = e /\ r.ledger = now
        OBVIOUS
      <4>4. r \in history'
        BY <3>5, <4>2 DEF Records
      <4>5. t.ledger \in Nat /\ t.ledger <= now
        BY DEF HistoryInv, Numbered, DataTypes
      <4>. HIDE DEF r
      <4>6. r.ledger >= t.ledger
        BY <4>3, <4>5 DEF DataTypes
      <4>7. HasRow(t)'
        BY <2>2, <3>1, <4>1, <4>3, <4>4, <4>6 DEF HasRow
      <4> QED
        BY <2>2, <4>7 DEF Accounted
    <3> QED
      BY <3>2, <3>3, <3>4, <3>5
  <2> QED
    BY <2>1, <2>2
<1>4. ASSUME NEW d \in Contracts \ {c}, att'[d].at \in Working
      PROVE  Cardinality(Earlier(d)') < RateLimit
  <2>1. Earlier(d)' = Earlier(d)
    BY <1>0, <1>1 DEF Earlier, LandedInLastHour
  <2> QED
    BY <1>1, <1>4, <2>1 DEF RateInv
<1>5. ASSUME att'[c].at \in Working
      PROVE  Cardinality(Earlier(c)') < RateLimit
  <2>0. /\ Cardinality(Earlier(c)) \in Nat
        /\ Cardinality(LandedInLastHour(c)) \in Nat
        /\ IsFiniteSet(Earlier(c)) /\ IsFiniteSet(LandedInLastHour(c))
    BY LandingsAreFinite
  <2>1. Earlier(c)' \in SUBSET LandedInLastHour(c)
    BY <1>0 DEF Earlier, LandedInLastHour
  <2>2. CASE AsksForKey(c)
    <3>1. att[c].at = "idle" /\ ~ IsRateLimited(c)
      BY <2>2 DEF AsksForKey, Begins
    <3>2. \A t \in landed : t.ledger \in Nat
      BY DEF HistoryInv, Numbered, DataTypes
    <3>3. Cardinality(LandedInLastHour(c)) <= CountExtensionsInLastHour(c)
      BY <3>1, <3>2, RowsCountLandings DEF RateInv
    <3>4. CountExtensionsInLastHour(c) \in Nat
      <4>1. {r \in history : OwnerOf[r.entry] = c /\ r.ledger >= now - Hour} \in SUBSET history
        OBVIOUS
      <4> QED
        BY <4>1, FS_Subset, FS_CardinalityType DEF CountExtensionsInLastHour, NumbersInv
    <3>5. Cardinality(LandedInLastHour(c)) < RateLimit
      BY <2>0, <3>1, <3>3, <3>4, ExtensionAssumption DEF IsRateLimited
    <3>6. /\ Cardinality(Earlier(c)') <= Cardinality(LandedInLastHour(c))
          /\ Cardinality(Earlier(c)') \in Nat
      BY <2>0, <2>1, FS_Subset, FS_CardinalityType
    <3> QED
      BY <2>0, <3>5, <3>6, ExtensionAssumption
  <2>3. CASE ~ AsksForKey(c)
    <3>1. ~ (\/ NothingToDo(c) \/ RateLimited(c) \/ PolicyUnresolved(c) \/ SeesFailure(c)
             \/ Records(c))
      BY <1>5, LocalsStep DEF Working
    <3>2. att[c].at \in Working
      BY <2>3, <3>1 DEF Progress, ChannelResolves, ChannelUnresolved, PolicyResolves,
         ReadsBudget, Simulates, EstimateReplies, Submits, SeesSuccess, Working
    <3>3. Cardinality(Earlier(c)) < RateLimit
      BY <3>2 DEF RateInv
    <3>4. Earlier(c)' \in SUBSET Earlier(c)
      <4>1. CASE att'[c].hash = att[c].hash
        BY <1>0, <4>1 DEF Earlier, LandedInLastHour
      <4>2. CASE Submits(c)
        <5>1. att[c].hash = 0
          BY <4>2 DEF Submits, LocalsInv
        <5>2. \A t \in landed : t.id # 0
          BY DEF NumbersInv, HistoryInv, Numbered, DataTypes
        <5> QED
          BY <2>1, <5>1, <5>2 DEF Earlier, LandedInLastHour
      <4>3. CASE ReadsBudget(c) \/ Simulates(c)
        <5>1. att'[c].hash = att[c].hash
          BY <1>5, <4>3, LocalsStep DEF Working
        <5> QED
          BY <4>1, <5>1
      <4>4. CASE ChannelResolves(c) \/ ChannelUnresolved(c) \/ PolicyResolves(c) \/ SeesSuccess(c)
        <5>1. att'[c].hash = att[c].hash
          BY <4>4, LocalsStep
        <5> QED
          BY <4>1, <5>1
      <4> QED
        BY <2>3, <3>1, <4>2, <4>3, <4>4 DEF Progress
    <3>5. /\ Cardinality(Earlier(c)') <= Cardinality(Earlier(c))
          /\ Cardinality(Earlier(c)') \in Nat
      BY <2>0, <3>4, FS_Subset, FS_CardinalityType
    <3> QED
      BY <2>0, <3>3, <3>5, ExtensionAssumption
  <2> QED
    BY <2>2, <2>3
<1> QED
  BY <1>0, <1>2, <1>3, <1>4, <1>5 DEF RateInv

LEMMA RateKept ==
  ASSUME DataTypes, HistoryInv, LocalsInv, LocalsInv', NumbersInv, NumbersInv',
         faults = 0, SourcesInv, NoneArchived, RateInv, [Next]_vars, faults' = 0
  PROVE  RateInv'
<1>0. now' \in Nat /\ now <= now'
  BY ChainStep
<1>1. CASE UNCHANGED <<landed, history, att>>
  BY <1>0, <1>1, HourPasses DEF HistoryInv
<1>2. CASE EndRun
  <2>1. \A c \in Contracts : att'[c].at = "idle"
    BY <1>2, FreshIsAttempt DEF EndRun, Stages
  <2>2. \A t \in landed : t.contract \in Contracts /\ HasRow(t)
    BY <1>2 DEF EndRun, RateInv, Accounted
  <2>3. UNCHANGED <<now, landed, history>>
    BY <1>2 DEF EndRun
  <2>4. \A t \in landed' : Accounted(t)'
    BY <2>2, <2>3 DEF Accounted, HasRow
  <2>5. RateLimitHolds'
    BY <2>3 DEF RateInv, RateLimitHolds, LandedInLastHour
  <2>6. \A c \in Contracts : att'[c].at \notin Working
    BY <2>1 DEF Working
  <2> QED
    BY <2>4, <2>5, <2>6 DEF RateInv
<1>3. CASE LedgerCloses \/ StartCycle \/ StartRun \/ UNCHANGED vars
  BY <1>1, <1>3 DEF LedgerCloses, StartCycle, StartRun
<1>4. ASSUME NEW c \in Contracts, Checks(c)
      PROVE  RateInv'
  BY <1>1, <1>4 DEF Checks
<1> QED
  BY <1>2, <1>3, <1>4, AttemptKeepsRate, LandingKeepsRate, HealthyStep

LEMMA RateInvHolds == Spec => [](faults = 0 /\ NoneArchived => RateInv)
<1>1. Init => (faults = 0 /\ NoneArchived => RateInv)
  <2> SUFFICES ASSUME Init
               PROVE  RateInv
    OBVIOUS
  <2>1. landed = {} /\ \A c \in Contracts : att[c].at = "idle"
    BY FreshIsAttempt DEF Init, Stages
  <2>2. \A c \in Contracts : LandedInLastHour(c) = {}
    BY <2>1 DEF LandedInLastHour
  <2>3. RateLimitHolds
    BY <2>2, FS_EmptySet, ExtensionAssumption DEF RateLimitHolds
  <2> QED
    BY <2>1, <2>3 DEF RateInv, Working
<1>2. /\ DataTypes /\ HistoryInv /\ NumberedInv /\ NumberedInv'
      /\ faults = 0 => SourcesInv
      /\ faults = 0 /\ NoneArchived => RateInv
      /\ [Next]_vars
      => (faults = 0 /\ NoneArchived => RateInv)'
  BY HealthyStep, ArchivedStays, RateKept DEF NumberedInv, NumbersInv
<1> QED
  BY <1>1, <1>2, TypesHold, HistoryInvHolds, NumberedInvHolds, SourcesInvHolds, PTL DEF Spec

\* While nothing fails and nothing is archived, the limit that is checked against
\* rows, several awaits before the row is written, holds for what lands.
THEOREM UndisturbedRateLimitHolds == Spec => []UndisturbedRateLimit
<1>1. (faults = 0 /\ NoneArchived => RateInv) => UndisturbedRateLimit
  BY DEF NoneArchived, RateInv, UndisturbedRateLimit
<1> QED
  BY <1>1, RateInvHolds, PTL

=============================================================================
