--------------------------- MODULE Operator_proofs ---------------------------
(* What holds of the operators' commands for any number of terminals,         *)
(* accounts, entries and faults.                                              *)
EXTENDS Operator, FiniteSetTheorems, TLAPS

-----------------------------------------------------------------------------
(* Guards that are disabled.                                                  *)

\* A policy that is disabled has no source.
Keyless(p) == p.enabled \/ p.source = Null

\* What the daemon is about to read, has read, and has found a key for.
GuardInv ==
    /\ {"at", "policy"} \subseteq DOMAIN run
    /\ run.at = "ledger" => Keyless(policy)
    /\ run.at = "resolve" => Keyless(run.policy)
    /\ run.at \in {"submit", "poll", "refresh"} => run.policy.enabled

LEMMA NoSourceNoKey == ResolveSecretKey(Null) \notin Secrets
BY OperatorAssumption DEF ResolveSecretKey

\* The commands of the operators leave the daemon's cycle alone and store only
\* policies with a source or disabled ones.
LEMMA CommandKeepsGuards ==
  ASSUME GuardInv, NEW t \in Terminals, Command(t) \/ Continues(t) \/ GivesUp(t)
  PROVE  GuardInv'
<1>1. run' = run
  BY DEF Command, Continues, GivesUp, GuardDisables, GuardStarts, RestoreStarts, ChannelsAdd,
         FundStarts, Runs, GuardResolves, GuardUnresolved, GuardEnables, GuardSimulates,
         Submits, SeesSuccess, SeesFailure, TimesOut, Refreshes, FundReadsMaster, FundSends,
         FundRefused, FundMarks, FundReports
<1>2. policy' = policy \/ Keyless(policy')
  <2>1. CASE \E l \in Limits : GuardDisables(t, l)
    BY <2>1 DEF GuardDisables, Upserted, Keyless
  <2>2. CASE GuardEnables(t)
    BY <2>2 DEF GuardEnables, Upserted, Keyless
  <2>3. CASE Command(t) /\ ~ \E l \in Limits : GuardDisables(t, l)
    BY <2>3 DEF Command, GuardStarts, RestoreStarts, ChannelsAdd, FundStarts, rows
  <2>4. CASE (Continues(t) /\ ~ GuardEnables(t)) \/ GivesUp(t)
    BY <2>4 DEF Continues, GivesUp, GuardResolves, GuardUnresolved, GuardSimulates,
                Submits, SeesSuccess, SeesFailure, TimesOut, Refreshes, FundReadsMaster,
                FundSends, FundRefused, FundMarks, FundReports, rows
  <2> QED
    BY <2>1, <2>2, <2>3, <2>4
<1> QED
  BY <1>1, <1>2 DEF GuardInv, Keyless

\* A cycle reads a policy only while it is enabled or without a source, and goes
\* on to a transaction only with a key.
LEMMA CycleKeepsGuards ==
  ASSUME GuardInv, DaemonStep \/ RunFails
  PROVE  GuardInv'
<1>0. policy' = policy
  BY DEF DaemonStep, RunFails, Checks, RunReads, RunResolves, RunSkips, RunSubmits, RunPolls,
         RunTimesOut, RunRecords, Cycle
<1>1. CASE Checks
  BY <1>0, <1>1 DEF Checks, Cycle, NoRun, GuardInv, Keyless
<1>2. CASE RunReads
  BY <1>0, <1>2 DEF RunReads, Cycle, NoRun, GuardInv, Keyless
<1>3. CASE RunResolves
  <2>1. run.at = "resolve" /\ Keyless(run.policy)
    BY <1>3 DEF RunResolves, GuardInv
  <2>2. run.policy.source # Null
    BY <1>3, NoSourceNoKey DEF RunResolves
  <2>3. run' = [run EXCEPT !.at = "submit", !.key = ResolveSecretKey(run.policy.source)]
    BY <1>3 DEF RunResolves, Cycle
  <2> QED
    BY <2>1, <2>2, <2>3 DEF GuardInv, Keyless
<1>4. CASE RunSubmits \/ RunPolls
  BY <1>4 DEF RunSubmits, RunPolls, Cycle, NoRun, GuardInv
<1>5. CASE RunSkips \/ RunRecords \/ RunTimesOut \/ RunFails
  BY <1>5 DEF RunSkips, RunRecords, RunTimesOut, RunFails, Cycle, NoRun, GuardInv
<1> QED
  BY <1>1, <1>2, <1>3, <1>4, <1>5 DEF DaemonStep

\* The daemon signs nothing under a policy it read as disabled, for any sources,
\* limits and interleavings of guard commands: the second look at the policy may
\* find it disabled, but then without a key.
THEOREM SignsOnlyEnabledHolds == Spec => []SignsOnlyEnabled
<1>1. Init => GuardInv
  BY DEF Init, NoRun, GuardInv
<1>2. GuardInv /\ [Next]_vars => GuardInv'
  <2> SUFFICES ASSUME GuardInv, [Next]_vars PROVE GuardInv'
    OBVIOUS
  <2>1. CASE LedgerCloses \/ \E x \in pending : Lands(x) \/ FailsOnChain(x) \/ Expires(x)
    BY <2>1 DEF LedgerCloses, Lands, FailsOnChain, Expires, rows, GuardInv
  <2>2. CASE \E t \in Terminals : Command(t) \/ Continues(t) \/ GivesUp(t)
    BY <2>2, CommandKeepsGuards
  <2>3. CASE DaemonStep \/ RunFails
    BY <2>3, CycleKeepsGuards
  <2>4. CASE UNCHANGED vars
    BY <2>4 DEF vars, rows, GuardInv
  <2> QED
    BY <2>1, <2>2, <2>3, <2>4 DEF Next
<1>3. GuardInv => SignsOnlyEnabled
  BY DEF GuardInv, SignsOnlyEnabled
<1> QED
  BY <1>1, <1>2, <1>3, PTL DEF Spec

-----------------------------------------------------------------------------
(* Accounts that are funded.                                                  *)

Goals == {"enable", "dry-run", "extend", "restore", "fund"}

LocalsType == [at : Stages, goal : Goals \cup {Null}, source : Sources \cup {Null},
           limit : Limits \cup {Null}, what : SUBSET (Entries \cup Accounts), seq : Nat]

IsTransaction(x) ==
    x = [who |-> x.who, goal |-> x.goal, what |-> x.what, seq |-> x.seq, target |-> x.target]

FundTypes ==
    /\ command \in [Terminals -> LocalsType]
    /\ fate \in [Actors -> {"none", "pending", "landed", "failed"}]
    /\ paid \in [Accounts -> Nat]
    /\ masterSeq \in Nat
    /\ registered \subseteq Accounts
    /\ \A x \in pending : IsTransaction(x)
    /\ \A t \in Terminals :
        /\ command[t].goal = "fund" => command[t].what \subseteq Accounts
        /\ command[t].at = "resolve" => command[t].goal \in {"enable", "dry-run", "extend"}

\* All of a set of accounts were paid.
Paid(S) == \A a \in S : a \in Accounts /\ paid[a] > 0

\* A command that was answered, or is about to be, speaks of accounts that were paid;
\* nothing is remembered of an earlier transaction.
Answered(t) ==
    /\ command[t].at = "mark" => Paid(command[t].what)
    /\ command[t].at = "poll" /\ fate[t] = "landed" /\ command[t].goal = "fund"
           => Paid(command[t].what)
    /\ command[t].at # "poll" => fate[t] # "landed"

\* A transaction somebody waits for is the one of the command under way, and the
\* only one.
Awaited ==
    /\ \A x \in pending : x.who \in Terminals =>
           /\ command[x.who].at = "poll"
           /\ fate[x.who] = "pending"
           /\ command[x.who].goal = x.goal
           /\ command[x.who].what = x.what
    /\ \A x, y \in pending : x.who \in Terminals /\ x.who = y.who => x = y

FundInv ==
    /\ FundTypes
    /\ \A t \in Terminals : Answered(t)
    /\ Awaited
    /\ Paid(funded)

\* Steps of a command that waits for nothing before and after.
LEMMA QuietStep ==
  ASSUME FundInv, NEW t \in Terminals, NEW d \in LocalsType,
         command[t].at # "poll", d.at \notin {"poll", "mark"},
         command' = [command EXCEPT ![t] = d],
         d.goal = "fund" => d.what \subseteq Accounts,
         d.at = "resolve" => d.goal \in {"enable", "dry-run", "extend"},
         UNCHANGED <<masterSeq, paid, pending, fate, funded>>,
         registered' \subseteq Accounts
  PROVE  FundInv'
<1>1. FundTypes'
  BY DEF FundInv, FundTypes
<1>2. \A u \in Terminals : Answered(u)'
  BY DEF FundInv, FundTypes, Answered, Paid
<1>3. Awaited'
  BY DEF FundInv, FundTypes, Awaited
<1>4. Paid(funded)'
  BY DEF FundInv, Paid
<1> QED
  BY <1>1, <1>2, <1>3, <1>4 DEF FundInv

LEMMA IdleLocals ==
  /\ NoCommand \in LocalsType
  /\ NoCommand.at = "idle" /\ NoCommand.what = {}
BY DEF NoCommand, Locals, LocalsType, Stages

\* A command starts, or ends without an answer.
LEMMA StartKeepsFunds ==
  ASSUME FundInv, NEW t \in Terminals, Command(t)
  PROVE  FundInv'
<1> USE OperatorAssumption DEF FundInv, FundTypes
<1>1. ASSUME NEW l \in Limits, GuardDisables(t, l) PROVE FundInv'
  BY <1>1, IdleLocals, QuietStep DEF GuardDisables, Runs, chain
<1>2. ASSUME NEW goal \in {"enable", "dry-run", "extend"}, NEW l \in Limits, NEW s \in Sources,
             GuardStarts(t, goal, l, s)
      PROVE  FundInv'
  <2> DEFINE d == [at |-> "resolve", goal |-> goal, source |-> s, limit |-> l,
                   what |-> {}, seq |-> 0]
  <2>1. d \in LocalsType /\ d.at = "resolve" /\ d.goal = goal /\ d.goal # "fund"
    BY DEF LocalsType, Stages, Goals
  <2>2. command' = [command EXCEPT ![t] = d]
    BY <1>2 DEF GuardStarts, Runs, Locals
  <2>3. command[t].at = "idle" /\ UNCHANGED <<masterSeq, paid, pending, fate, funded, registered>>
    BY <1>2 DEF GuardStarts, Runs, chain, rows
  <2> HIDE DEF d
  <2> QED
    BY <2>1, <2>2, <2>3, QuietStep
<1>3. ASSUME NEW keys \in SUBSET Entries, RestoreStarts(t, keys) PROVE FundInv'
  <2> DEFINE d == [at |-> "submit", goal |-> "restore", source |-> Null, limit |-> Null,
                   what |-> keys, seq |-> 0]
  <2>1. d \in LocalsType /\ d.at = "submit" /\ d.goal # "fund"
    BY DEF LocalsType, Stages, Goals
  <2>2. command' = [command EXCEPT ![t] = d]
    BY <1>3 DEF RestoreStarts, Runs, Locals
  <2>3. command[t].at = "idle" /\ UNCHANGED <<masterSeq, paid, pending, fate, funded, registered>>
    BY <1>3 DEF RestoreStarts, Runs, chain, rows
  <2> HIDE DEF d
  <2> QED
    BY <2>1, <2>2, <2>3, QuietStep
<1>4. ASSUME NEW a \in Accounts, ChannelsAdd(t, a) PROVE FundInv'
  BY <1>4, IdleLocals, QuietStep DEF ChannelsAdd, Runs, chain
<1>5. CASE FundStarts(t)
  <2> DEFINE d == [at |-> "account", goal |-> "fund", source |-> Null, limit |-> Null,
                   what |-> registered, seq |-> 0]
  <2>1. d \in LocalsType /\ d.at = "account" /\ d.what \subseteq Accounts
    BY DEF LocalsType, Stages, Goals
  <2>2. command' = [command EXCEPT ![t] = d]
    BY <1>5 DEF FundStarts, Runs, Locals
  <2>3. command[t].at = "idle" /\ UNCHANGED <<masterSeq, paid, pending, fate, funded, registered>>
    BY <1>5 DEF FundStarts, Runs, chain, rows
  <2> HIDE DEF d
  <2> QED
    BY <2>1, <2>2, <2>3, QuietStep
<1> QED
  BY <1>1, <1>2, <1>3, <1>4, <1>5 DEF Command

\* A command goes on without a transaction under way.
LEMMA GuardKeepsFunds ==
  ASSUME FundInv, NEW t \in Terminals,
         \/ GuardResolves(t) \/ GuardUnresolved(t) \/ GuardEnables(t) \/ GuardSimulates(t)
         \/ Refreshes(t) \/ FundReadsMaster(t) \/ FundRefused(t) \/ FundReports(t)
  PROVE  FundInv'
<1>0. command[t] \in LocalsType /\ registered \subseteq Accounts /\ masterSeq \in Nat
  BY DEF FundInv, FundTypes
<1>1. CASE GuardUnresolved(t) \/ GuardEnables(t) \/ GuardSimulates(t) \/ Refreshes(t)
           \/ FundRefused(t) \/ FundReports(t)
  <2>1. command' = [command EXCEPT ![t] = NoCommand] /\ command[t].at # "poll"
    BY <1>1 DEF GuardUnresolved, GuardEnables, GuardSimulates, Refreshes, FundRefused,
                FundReports, Ends, Goes
  <2>2. UNCHANGED <<masterSeq, paid, pending, fate, funded, registered>>
    BY <1>1 DEF GuardUnresolved, GuardEnables, GuardSimulates, Refreshes, FundRefused,
                FundReports, chain, rows
  <2> QED
    BY <1>0, <2>1, <2>2, IdleLocals, QuietStep
<1>2. CASE FundReadsMaster(t)
  <2> DEFINE d == [command[t] EXCEPT !.at = "send", !.seq = masterSeq + 1]
  <2>0. masterSeq + 1 \in Nat
    BY <1>0
  <2>1. d \in LocalsType /\ d.at = "send" /\ d.goal = command[t].goal /\ d.what = command[t].what
    <3>1. ASSUME NEW n \in Nat, NEW c \in LocalsType
          PROVE  LET e == [c EXCEPT !.at = "send", !.seq = n] IN
                 e \in LocalsType /\ e.at = "send" /\ e.goal = c.goal /\ e.what = c.what
      BY DEF LocalsType, Stages
    <3> QED
      BY <1>0, <2>0, <3>1
  <2>2. command' = [command EXCEPT ![t] = d] /\ command[t].at # "poll"
    BY <1>2 DEF FundReadsMaster
  <2>3. UNCHANGED <<masterSeq, paid, pending, fate, funded, registered>>
    BY <1>2 DEF FundReadsMaster, chain, rows
  <2>4. d.goal = "fund" => d.what \subseteq Accounts
    BY <2>1 DEF FundInv, FundTypes
  <2> HIDE DEF d
  <2> QED
    BY <1>0, <2>1, <2>2, <2>3, <2>4, QuietStep
<1>3. CASE GuardResolves(t)
  <2>1. /\ command[t].at = "resolve"
        /\ command[t].goal \in {"enable", "dry-run", "extend"}
        /\ UNCHANGED <<masterSeq, paid, pending, fate, funded, registered>>
    BY <1>3 DEF GuardResolves, FundInv, FundTypes, chain, rows
  <2>2. CASE command[t].goal = "extend"
    <3> DEFINE d == [command[t] EXCEPT !.at = "submit", !.what = Entries]
    <3>1. d \in LocalsType /\ d.at = "submit" /\ d.goal = "extend"
      BY <1>0, <2>2 DEF LocalsType, Stages
    <3>2. command' = [command EXCEPT ![t] = d]
      BY <1>3, <2>2 DEF GuardResolves
    <3> HIDE DEF d
    <3> QED
      BY <1>0, <2>1, <3>1, <3>2, QuietStep
  <2>3. ASSUME NEW stage \in {"save", "simulate"}, Goes(t, "resolve", stage) PROVE FundInv'
    <3> DEFINE d == [command[t] EXCEPT !.at = stage]
    <3>1. d \in LocalsType /\ d.at = stage /\ d.goal = command[t].goal /\ d.goal # "fund"
      BY <1>0, <2>1 DEF LocalsType, Stages
    <3>2. command' = [command EXCEPT ![t] = d]
      BY <2>3 DEF Goes
    <3> HIDE DEF d
    <3> QED
      BY <1>0, <2>1, <3>1, <3>2, QuietStep
  <2>4. CASE Goes(t, "resolve", "idle")
    <3>1. command' = [command EXCEPT ![t] = NoCommand]
      BY <2>4 DEF Goes
    <3> QED
      BY <1>0, <2>1, <3>1, IdleLocals, QuietStep
  <2> QED
    BY <1>3, <2>1, <2>2, <2>3, <2>4 DEF GuardResolves
<1> QED
  BY <1>1, <1>2, <1>3

\* What stays true of a transaction that nobody waits for any more.
LEMMA AbandonKeepsFunds ==
  ASSUME FundInv, NEW t \in Terminals, Abandons(t),
         command' = [command EXCEPT ![t] = NoCommand],
         UNCHANGED <<masterSeq, paid, funded, registered>>
  PROVE  FundInv'
<1>1. fate' = [fate EXCEPT ![t] = "none"] /\ t \in Actors
  BY DEF Abandons, Actors
<1>2. \A y \in pending' :
          /\ IsTransaction(y)
          /\ y.who # t
          /\ y.who \in Terminals => y \in pending
  <2>1. SUFFICES ASSUME NEW x \in pending,
                        NEW y, y = [x EXCEPT !.who = IF x.who = t THEN Nobody ELSE x.who]
                 PROVE  /\ IsTransaction(y)
                        /\ y.who # t
                        /\ y.who \in Terminals => y \in pending
    BY DEF Abandons
  <2>2. IsTransaction(x) /\ Null # t /\ Null \notin Terminals
    BY OperatorAssumption DEF FundInv, FundTypes
  <2>3. CASE x.who = t
    BY <2>1, <2>2, <2>3 DEF IsTransaction, Nobody
  <2>4. CASE x.who # t
    <3>1. y = x
      BY <2>1, <2>2, <2>4 DEF IsTransaction
    <3> QED
      BY <2>2, <2>4, <3>1
  <2> QED
    BY <2>3, <2>4
<1>3. FundTypes'
  BY <1>1, <1>2, IdleLocals DEF FundInv, FundTypes, NoCommand, Locals
<1>4. \A u \in Terminals : Answered(u)'
  BY <1>1, IdleLocals DEF FundInv, FundTypes, Answered, Paid
<1>5. Awaited'
  BY <1>1, <1>2 DEF FundInv, FundTypes, Awaited, Actors
<1>6. Paid(funded)'
  BY DEF FundInv, Paid
<1> QED
  BY <1>3, <1>4, <1>5, <1>6 DEF FundInv

\* A command that waits for nothing hands its transaction to the node, or is told
\* to try again later, and polls.
LEMMA SendKeepsFunds ==
  ASSUME FundInv, NEW t \in Terminals, Submits(t) \/ FundSends(t)
  PROVE  FundInv'
<1> DEFINE d == [command[t] EXCEPT !.at = "poll"]
<1>0. /\ command[t] \in LocalsType /\ command[t].at # "poll" /\ t \in Actors /\ t # Null
      /\ fate[t] # "landed"
  BY OperatorAssumption DEF FundInv, FundTypes, Answered, Submits, FundSends, Goes, Actors
<1>1. d \in LocalsType /\ d.at = "poll" /\ d.goal = command[t].goal /\ d.what = command[t].what
  BY <1>0 DEF LocalsType, Stages
<1>2. command' = [command EXCEPT ![t] = d]
  BY DEF Submits, FundSends, Goes
<1>3. UNCHANGED <<masterSeq, paid, funded, registered>>
  BY DEF Submits, FundSends, rows
<1>4. \A x \in pending : x.who # t
  BY <1>0 DEF FundInv, Awaited
<1> HIDE DEF d
<1>5. CASE UNCHANGED <<pending, fate>>
  <2>1. FundTypes'
    BY <1>1, <1>2, <1>3, <1>5 DEF FundInv, FundTypes
  <2>2. \A u \in Terminals : Answered(u)'
    BY <1>0, <1>1, <1>2, <1>3, <1>5 DEF FundInv, FundTypes, Answered, Paid
  <2>3. Awaited'
    BY <1>1, <1>2, <1>4, <1>5 DEF FundInv, FundTypes, Awaited
  <2> QED
    BY <2>1, <2>2, <2>3, <1>3 DEF FundInv, Paid
<1>6. CASE Sends(t, Transaction(t))
  <2> DEFINE x == [Transaction(t) EXCEPT !.who = t]
  <2>1. IsTransaction(x) /\ x.who = t /\ x.goal = d.goal /\ x.what = d.what
    <3> DEFINE u == Transaction(t)
    <3>1. u = [who |-> t, goal |-> command[t].goal, what |-> command[t].what,
               seq |-> u.seq, target |-> u.target]
      BY DEF Transaction
    <3>2. u.goal = d.goal /\ u.what = d.what
      BY <1>1 DEF Transaction
    <3>3. x = [u EXCEPT !.who = t]
      OBVIOUS
    <3> HIDE DEF u, x
    <3> QED
      BY <3>1, <3>2, <3>3 DEF IsTransaction
  <2>2. pending' = pending \cup {x} /\ fate' = [fate EXCEPT ![t] = "pending"]
    BY <1>0, <1>6 DEF Sends, Nobody
  <2> HIDE DEF x
  <2>3. FundTypes'
    BY <1>1, <1>2, <1>3, <2>1, <2>2 DEF FundInv, FundTypes
  <2>4. \A u \in Terminals : Answered(u)'
    BY <1>0, <1>1, <1>2, <1>3, <2>2 DEF FundInv, FundTypes, Answered, Paid
  <2>5. Awaited'
    BY <1>0, <1>1, <1>2, <1>4, <2>1, <2>2 DEF FundInv, FundTypes, Awaited
  <2> QED
    BY <2>3, <2>4, <2>5, <1>3 DEF FundInv, Paid
<1> QED
  BY <1>5, <1>6 DEF Submits, FundSends

\* Polls that see the transaction in a ledger.
LEMMA PollKeepsFunds ==
  ASSUME FundInv, NEW t \in Terminals, SeesSuccess(t) \/ SeesFailure(t)
  PROVE  FundInv'
<1>0. /\ command[t] \in LocalsType /\ command[t].at = "poll" /\ t \in Actors
      /\ fate[t] \in {"landed", "failed"}
      /\ fate' = [fate EXCEPT ![t] = "none"]
      /\ UNCHANGED <<masterSeq, paid, pending, funded, registered>>
  BY DEF FundInv, FundTypes, SeesSuccess, SeesFailure, Ends, Goes, Actors, rows
<1>1. \A x \in pending : x.who # t
  BY <1>0 DEF FundInv, Awaited
<1>2. PICK d \in LocalsType :
          /\ command' = [command EXCEPT ![t] = d]
          /\ d.at \notin {"poll", "resolve"}
          /\ d.goal = "fund" => d.what \subseteq Accounts
          /\ d.at = "mark" => Paid(d.what)
  <2>1. CASE SeesSuccess(t) /\ command[t].goal = "fund"
    <3> DEFINE d == [command[t] EXCEPT !.at = "mark"]
    <3>1. d \in LocalsType /\ d.at = "mark" /\ d.goal = "fund" /\ d.what = command[t].what
      BY <1>0, <2>1 DEF LocalsType, Stages
    <3>2. command' = [command EXCEPT ![t] = d]
      BY <2>1 DEF SeesSuccess, Goes
    <3>3. Paid(d.what) /\ d.what \subseteq Accounts
      BY <1>0, <2>1, <3>1 DEF FundInv, FundTypes, Answered, SeesSuccess
    <3> HIDE DEF d
    <3> QED
      BY <3>1, <3>2, <3>3
  <2>2. CASE SeesSuccess(t) /\ command[t].goal # "fund"
    <3> DEFINE d == [command[t] EXCEPT !.at = "refresh"]
    <3>1. d \in LocalsType /\ d.at = "refresh" /\ d.goal # "fund"
      BY <1>0, <2>2 DEF LocalsType, Stages
    <3>2. command' = [command EXCEPT ![t] = d]
      BY <2>2 DEF SeesSuccess, Goes
    <3> HIDE DEF d
    <3> QED
      BY <3>1, <3>2
  <2>3. CASE SeesFailure(t)
    BY <2>3, IdleLocals DEF SeesFailure, Ends, Goes
  <2> QED
    BY <2>1, <2>2, <2>3
<1>3. FundTypes'
  BY <1>0, <1>2 DEF FundInv, FundTypes
<1>4. \A u \in Terminals : Answered(u)'
  BY <1>0, <1>2 DEF FundInv, FundTypes, Answered, Paid
<1>5. Awaited'
  BY <1>0, <1>1, <1>2 DEF FundInv, FundTypes, Awaited
<1> QED
  BY <1>0, <1>3, <1>4, <1>5 DEF FundInv, Paid

\* A command that ends without an answer; its send may have reached the node.
LEMMA StopKeepsFunds ==
  ASSUME FundInv, NEW t \in Terminals, TimesOut(t) \/ GivesUp(t)
  PROVE  FundInv'
<1>1. /\ command' = [command EXCEPT ![t] = NoCommand]
      /\ UNCHANGED <<masterSeq, paid, funded, registered>>
  BY DEF TimesOut, GivesUp, Ends, Goes, rows
<1>2. CASE Abandons(t)
  BY <1>1, <1>2, AbandonKeepsFunds
<1>3. CASE command[t].at \in {"submit", "send"} /\ Sends(Nobody, Transaction(t))
  <2> DEFINE x == [Transaction(t) EXCEPT !.who = Nobody]
  <2>1. IsTransaction(x) /\ x.who = Null
    <3> DEFINE u == Transaction(t)
    <3>1. u = [who |-> t, goal |-> u.goal, what |-> u.what, seq |-> u.seq, target |-> u.target]
      BY DEF Transaction
    <3>2. x = [u EXCEPT !.who = Null]
      BY DEF Nobody
    <3> HIDE DEF u, x
    <3> QED
      BY <3>1, <3>2 DEF IsTransaction
  <2>2. pending' = pending \cup {x} /\ fate' = fate
    BY <1>3 DEF Sends
  <2> HIDE DEF x
  <2>3. Null \notin Terminals
    BY OperatorAssumption
  <2>4. FundTypes'
    BY <1>1, <2>1, <2>2, IdleLocals DEF FundInv, FundTypes, NoCommand, Locals
  <2>5. \A u \in Terminals : Answered(u)'
    BY <1>1, <1>3, <2>2, IdleLocals DEF FundInv, FundTypes, Answered, Paid
  <2>6. Awaited'
    BY <1>1, <1>3, <2>1, <2>2, <2>3 DEF FundInv, FundTypes, Awaited
  <2> QED
    BY <1>1, <2>4, <2>5, <2>6 DEF FundInv, Paid
<1> QED
  BY <1>2, <1>3 DEF TimesOut, GivesUp

\* Accounts are marked by a command whose payment was answered.
LEMMA MarkKeepsFunds ==
  ASSUME FundInv, NEW t \in Terminals, NEW a \in Accounts, FundMarks(t, a)
  PROVE  FundInv'
<1>1. /\ UNCHANGED <<command, masterSeq, paid, pending, fate, registered>>
      /\ funded' = funded \cup {a}
  BY DEF FundMarks, chain
<1>2. a \in command[t].what /\ Paid(command[t].what)
  BY DEF FundMarks, ToMark, FundInv, Answered
<1> QED
  BY <1>1, <1>2 DEF FundInv, FundTypes, Answered, Awaited, Paid

\* The chain: who waits for a transaction that lands learns that its accounts were
\* paid.
LEMMA ChainKeepsFunds ==
  ASSUME FundInv, NEW x \in pending, Lands(x) \/ FailsOnChain(x) \/ Expires(x)
  PROVE  FundInv'
<1>0. /\ UNCHANGED <<command, funded, registered>>
      /\ pending' = pending \ {x}
      /\ IsTransaction(x)
  BY DEF Lands, FailsOnChain, Expires, Settles, rows, FundInv, FundTypes
<1>1. masterSeq' \in Nat
  BY DEF Lands, FailsOnChain, Expires, Settles, FundInv, FundTypes
<1>2. /\ paid' \in [Accounts -> Nat]
      /\ \A a \in Accounts : paid[a] > 0 => paid'[a] > 0
      /\ Lands(x) /\ x.goal = "fund" => \A a \in x.what : a \in Accounts => paid'[a] > 0
  <2>1. CASE Lands(x) /\ x.goal = "fund"
    BY <2>1 DEF Lands, Increased, FundInv, FundTypes
  <2>2. CASE ~ (Lands(x) /\ x.goal = "fund")
    <3>1. UNCHANGED paid
      BY <2>2 DEF Lands, FailsOnChain, Expires
    <3> QED
      BY <2>2, <3>1 DEF FundInv, FundTypes
  <2> QED
    BY <2>1, <2>2
<1>3. PICK outcome \in {"pending", "landed", "failed"} :
          /\ fate' = IF x.who = Nobody \/ outcome = "pending" THEN fate
                     ELSE [fate EXCEPT ![x.who] = outcome]
          /\ outcome = "landed" => Lands(x)
  BY DEF Lands, FailsOnChain, Expires, Settles
<1>4. FundTypes'
  BY <1>0, <1>1, <1>2, <1>3 DEF FundInv, FundTypes
<1>5. \A t \in Terminals : Answered(t)'
  <2> SUFFICES ASSUME NEW t \in Terminals PROVE Answered(t)'
    OBVIOUS
  <2>1. Answered(t) /\ t \in Actors /\ DOMAIN fate = Actors /\ (Nobody = Null)
    BY DEF FundInv, FundTypes, Actors, Nobody
  <2>2. command[t].at = "mark" => Paid(command[t].what)'
    BY <1>0, <1>2, <2>1 DEF Answered, Paid
  <2>3. CASE fate'[t] = fate[t]
    BY <1>0, <1>2, <2>1, <2>2, <2>3 DEF Answered, Paid
  <2>4. CASE fate'[t] # fate[t]
    <3>1. x.who = t /\ fate'[t] = outcome
      BY <1>3, <2>1, <2>4
    <3>2. command[t].at = "poll" /\ command[t].goal = x.goal /\ command[t].what = x.what
      BY <3>1 DEF FundInv, Awaited
    <3>3. command[t].goal = "fund" => command[t].what \subseteq Accounts
      BY DEF FundInv, FundTypes
    <3> QED
      BY <1>0, <1>2, <1>3, <3>1, <3>2, <3>3 DEF Answered, Paid
  <2> QED
    BY <2>3, <2>4
<1>6. Awaited'
  <2>1. \A y \in pending' : y.who \in Terminals => y.who # x.who
    BY <1>0 DEF FundInv, Awaited
  <2> QED
    BY <1>0, <1>3, <2>1 DEF FundInv, FundTypes, Awaited, Actors
<1>7. Paid(funded)'
  BY <1>0, <1>2 DEF FundInv, Paid
<1> QED
  BY <1>4, <1>5, <1>6, <1>7 DEF FundInv

\* The daemon sends transactions of its own, waits for them and lets go of them.
LEMMA CycleKeepsFunds ==
  ASSUME FundInv, DaemonStep \/ RunFails
  PROVE  FundInv'
<1>0. UNCHANGED <<command, funded, registered, masterSeq, paid>>
  BY DEF DaemonStep, RunFails, Checks, RunReads, RunResolves, RunSkips, RunSubmits, RunPolls,
         RunTimesOut, RunRecords, Cycle, chain
<1>1. Daemon \notin Terminals /\ Null \notin Terminals /\ Daemon \in Actors
  BY OperatorAssumption DEF Actors
<1>2. PICK f \in {"none", "pending", "landed", "failed"} : fate' = [fate EXCEPT ![Daemon] = f]
  <2>1. CASE UNCHANGED fate
    <3>1. fate = [fate EXCEPT ![Daemon] = fate[Daemon]]
          /\ fate[Daemon] \in {"none", "pending", "landed", "failed"}
      BY <1>1 DEF FundInv, FundTypes
    <3> QED
      BY <2>1, <3>1
  <2>2. CASE RunSubmits /\ Daemon # Null
    BY <2>2 DEF RunSubmits, Sends, Nobody
  <2>3. CASE RunSubmits /\ Daemon = Null
    BY <2>1, <2>3 DEF RunSubmits, Sends, Nobody
  <2>4. CASE RunPolls \/ RunTimesOut \/ RunFails
    BY <2>4 DEF RunPolls, RunTimesOut, RunFails, Abandons
  <2>5. CASE Checks \/ RunReads \/ RunResolves \/ RunSkips \/ RunRecords
    BY <2>1, <2>5 DEF Checks, RunReads, RunResolves, RunSkips, RunRecords, chain
  <2> QED
    BY <2>2, <2>3, <2>4, <2>5 DEF DaemonStep
<1>3. \A y \in pending' : IsTransaction(y) /\ (y.who \in Terminals => y \in pending)
  <2>1. CASE UNCHANGED pending
    BY <2>1 DEF FundInv, FundTypes
  <2>2. CASE RunSubmits
    <3> DEFINE x == [[who |-> Daemon, goal |-> "extend", what |-> run.what, seq |-> 0,
                      target |-> run.policy.target] EXCEPT !.who = Daemon]
    <3>1. IsTransaction(x) /\ x.who = Daemon
      <4> DEFINE u == [who |-> Daemon, goal |-> "extend", what |-> run.what, seq |-> 0,
                       target |-> run.policy.target]
      <4>1. u = [who |-> u.who, goal |-> u.goal, what |-> u.what, seq |-> u.seq,
                 target |-> u.target]
        OBVIOUS
      <4>2. x = [u EXCEPT !.who = Daemon]
        OBVIOUS
      <4> HIDE DEF u, x
      <4> QED
        BY <4>1, <4>2 DEF IsTransaction
    <3>2. pending' = pending \cup {x}
      BY <2>2 DEF RunSubmits, Sends
    <3> HIDE DEF x
    <3> QED
      BY <1>1, <3>1, <3>2 DEF FundInv, FundTypes
  <2>3. CASE Abandons(Daemon)
    <3>1. SUFFICES ASSUME NEW x \in pending,
                          NEW y, y = [x EXCEPT !.who = IF x.who = Daemon THEN Nobody ELSE x.who]
                   PROVE  IsTransaction(y) /\ (y.who \in Terminals => y \in pending)
      BY <2>3 DEF Abandons
    <3>2. IsTransaction(x)
      BY DEF FundInv, FundTypes
    <3>3. CASE x.who = Daemon
      BY <1>1, <3>1, <3>2, <3>3 DEF IsTransaction, Nobody
    <3>4. CASE x.who # Daemon
      <4>1. y = x
        BY <3>1, <3>2, <3>4 DEF IsTransaction
      <4> QED
        BY <3>2, <4>1
    <3> QED
      BY <3>3, <3>4
  <2> QED
    BY <2>1, <2>2, <2>3 DEF DaemonStep, RunFails, Checks, RunReads, RunResolves, RunSkips,
                            RunPolls, RunTimesOut, RunRecords, chain
<1>4. \A t \in Terminals : fate'[t] = fate[t]
  BY <1>1, <1>2 DEF FundInv, FundTypes, Actors
<1>5. FundTypes'
  BY <1>0, <1>1, <1>2, <1>3 DEF FundInv, FundTypes
<1>6. \A t \in Terminals : Answered(t)'
  BY <1>0, <1>4 DEF FundInv, Answered, Paid
<1>7. Awaited'
  BY <1>0, <1>3, <1>4 DEF FundInv, Awaited
<1> QED
  BY <1>0, <1>5, <1>6, <1>7 DEF FundInv, Paid

\* No step of anybody breaks it.
LEMMA FundInvHolds == Spec => []FundInv
<1>1. Init => FundInv
  <2> SUFFICES ASSUME Init PROVE FundInv
    OBVIOUS
  <2>1. FundTypes
    BY OperatorAssumption, IdleLocals DEF Init, FundTypes, NoCommand, Locals
  <2>2. (\A t \in Terminals : Answered(t)) /\ Awaited /\ Paid(funded)
    BY IdleLocals DEF Init, Answered, Awaited, Paid, Actors
  <2> QED
    BY <2>1, <2>2 DEF FundInv
<1>2. FundInv /\ [Next]_vars => FundInv'
  <2> SUFFICES ASSUME FundInv, [Next]_vars PROVE FundInv'
    OBVIOUS
  <2>1. CASE \E t \in Terminals : Command(t)
    BY <2>1, StartKeepsFunds
  <2>2. ASSUME NEW t \in Terminals, Continues(t) \/ GivesUp(t) PROVE FundInv'
    BY <2>2, GuardKeepsFunds, SendKeepsFunds, PollKeepsFunds, StopKeepsFunds, MarkKeepsFunds
       DEF Continues
  <2>3. CASE \E x \in pending : Lands(x) \/ FailsOnChain(x) \/ Expires(x)
    BY <2>3, ChainKeepsFunds
  <2>4. CASE DaemonStep \/ RunFails
    BY <2>4, CycleKeepsFunds
  <2>5. CASE LedgerCloses \/ UNCHANGED vars
    <3>1. UNCHANGED <<command, fate, paid, masterSeq, registered, pending, funded>>
      BY <2>5 DEF LedgerCloses, vars, chain, rows
    <3> QED
      BY <3>1 DEF FundInv, FundTypes, Answered, Awaited, Paid
  <2> QED
    BY <2>1, <2>2, <2>3, <2>4, <2>5 DEF Next
<1> QED
  BY <1>1, <1>2, PTL DEF Spec

\* An account is marked as funded only after it was paid, for any number of
\* terminals, accounts and faults: what a command marks is what it paid, and the
\* answer it acts on is that of its own transaction.
THEOREM FundedIsPaidHolds == Spec => []FundedIsPaid
<1>1. FundInv => FundedIsPaid
  BY DEF FundInv, Paid, FundedIsPaid
<1> QED
  BY <1>1, FundInvHolds, PTL

-----------------------------------------------------------------------------
(* Payments and reports.                                                      *)

\* A run that paid an account, and is to report it.
Owes(t, a) ==
    /\ command[t].goal = "fund"
    /\ a \in command[t].what
    /\ command[t].at = "mark" \/ (command[t].at = "poll" /\ fate[t] = "landed")
Owed(a) == {t \in Terminals : Owes(t, a)}

\* A payment to an account that may land although nobody waits for it.
Orphans(a) == {x \in pending : x.who \notin Terminals /\ x.goal = "fund" /\ a \in x.what}

\* The books of an account: what was reported, or is to be, was paid, and what was
\* paid, or may yet be, was reported or is to be, or was given up unsure.
Balanced(a) ==
    /\ told[a] + Cardinality(Owed(a)) <= paid[a]
    /\ paid[a] + Cardinality(Orphans(a)) <= told[a] + unsure[a] + Cardinality(Owed(a))

PayInv ==
    /\ {told, unsure} \subseteq [Accounts -> Nat]
    /\ IsFiniteSet(pending)
    /\ \A t \in Terminals : command[t].at = "mark" => command[t].goal = "fund"
    /\ \A a \in Accounts : Balanced(a)

LEMMA CountTypes ==
  ASSUME FundInv, PayInv, NEW a \in Accounts
  PROVE  /\ IsFiniteSet(Owed(a)) /\ Cardinality(Owed(a)) \in Nat
         /\ IsFiniteSet(Orphans(a)) /\ Cardinality(Orphans(a)) \in Nat
         /\ told[a] \in Nat /\ unsure[a] \in Nat /\ paid[a] \in Nat
<1>1. IsFiniteSet(Owed(a))
  <2>1. Owed(a) \subseteq Terminals /\ IsFiniteSet(Terminals)
    BY OperatorAssumption DEF Owed
  <2> QED
    BY <2>1, FS_Subset
<1>2. IsFiniteSet(Orphans(a))
  <2>1. Orphans(a) \subseteq pending /\ IsFiniteSet(pending)
    BY DEF Orphans, PayInv
  <2> QED
    BY <2>1, FS_Subset
<1>3. told[a] \in Nat /\ unsure[a] \in Nat /\ paid[a] \in Nat
  BY DEF PayInv, FundInv, FundTypes
<1> QED
  BY <1>1, <1>2, <1>3, FS_CardinalityType

\* Steps that pay and report nothing, and lose at most payments under way.
LEMMA IdleKeepsBalance ==
  ASSUME FundInv, PayInv, NEW a \in Accounts,
         told'[a] = told[a], unsure'[a] = unsure[a], paid'[a] = paid[a],
         Owed(a)' = Owed(a), Orphans(a)' \subseteq Orphans(a)
  PROVE  Balanced(a)'
<1>1. /\ Cardinality(Orphans(a)') <= Cardinality(Orphans(a))
      /\ Cardinality(Orphans(a)') \in Nat
  BY CountTypes, FS_Subset, FS_CardinalityType
<1>2. Cardinality(Owed(a)') = Cardinality(Owed(a)) /\ Balanced(a)
  BY DEF PayInv
<1> QED
  BY <1>1, <1>2, CountTypes DEF Balanced

\* What one terminal does concerns its own debt only.
LEMMA OthersOwe ==
  ASSUME NEW t \in Terminals, NEW a \in Accounts,
         \A u \in Terminals \ {t} : command'[u] = command[u] /\ fate'[u] = fate[u]
  PROVE  /\ Owes(t, a)' <=> Owes(t, a) => Owed(a)' = Owed(a)
         /\ Owes(t, a)' /\ ~ Owes(t, a) => Owed(a)' = Owed(a) \cup {t} /\ t \notin Owed(a)
         /\ ~ Owes(t, a)' /\ Owes(t, a) => Owed(a)' = Owed(a) \ {t} /\ t \in Owed(a)
<1>1. \A u \in Terminals \ {t} : Owes(u, a)' <=> Owes(u, a)
  BY DEF Owes
<1> QED
  BY <1>1 DEF Owed

\* A run that reports, or ends without an answer, owes nothing any more.
LEMMA DebtEnds ==
  ASSUME FundInv, PayInv, NEW t \in Terminals, NEW a \in Accounts, t \in Owed(a),
         Owed(a)' = Owed(a) \ {t}
  PROVE  Cardinality(Owed(a)') = Cardinality(Owed(a)) - 1
BY CountTypes, FS_RemoveElement

\* A run that learns that its payment landed.
LEMMA DebtBegins ==
  ASSUME FundInv, PayInv, NEW t \in Terminals, NEW a \in Accounts, t \notin Owed(a),
         Owed(a)' = Owed(a) \cup {t}
  PROVE  Cardinality(Owed(a)') = Cardinality(Owed(a)) + 1
BY CountTypes, FS_AddElement

\* Letting go of a transaction loses none.
LEMMA AbandonedFinite ==
  ASSUME PayInv, NEW w, Abandons(w)
  PROVE  IsFiniteSet(pending')
<1> DEFINE h == [x \in pending |-> [x EXCEPT !.who = IF x.who = w THEN Nobody ELSE x.who]]
<1>1. pending' = {h[x] : x \in pending}
  BY DEF Abandons
<1>2. h \in [pending -> pending']
  BY <1>1
<1> HIDE DEF h
<1>3. h \in Surjection(pending, pending')
  BY <1>1, <1>2 DEF Surjection
<1> QED
  BY <1>3, FS_Surjection DEF PayInv

\* Letting go of a transaction makes at most one orphan of it, for the accounts
\* the run was to pay.
LEMMA AbandonedOrphans ==
  ASSUME FundInv, PayInv, NEW w, Abandons(w), NEW a \in Accounts
  PROVE  /\ IsFiniteSet(pending')
         /\ Cardinality(Orphans(a)') \in Nat
         /\ Cardinality(Orphans(a)') <= Cardinality(Orphans(a)) + 1
         /\ (w \in Terminals => ~ \E x \in pending : x.who = w /\ x.goal = "fund" /\ a \in x.what)
                => Cardinality(Orphans(a)') <= Cardinality(Orphans(a))
<1> DEFINE f == [x \in pending |-> [x EXCEPT !.who = IF x.who = w THEN Nobody ELSE x.who]]
           Own == {x \in pending : w \in Terminals /\ x.who = w /\ x.goal = "fund" /\ a \in x.what}
           S == Orphans(a) \cup Own
           g == [x \in S |-> f[x]]
<1>0. /\ IsFiniteSet(pending) /\ IsFiniteSet(Orphans(a)) /\ Cardinality(Orphans(a)) \in Nat
      /\ Nobody \notin Terminals
  BY CountTypes, OperatorAssumption DEF PayInv, Nobody
<1>1. pending' = {f[x] : x \in pending}
  BY DEF Abandons
<1>2. \A x \in pending : /\ f[x].goal = x.goal /\ f[x].what = x.what
                         /\ f[x].who = (IF x.who = w THEN Nobody ELSE x.who)
  <2> SUFFICES ASSUME NEW x \in pending
               PROVE  /\ f[x].goal = x.goal /\ f[x].what = x.what
                      /\ f[x].who = (IF x.who = w THEN Nobody ELSE x.who)
    OBVIOUS
  <2>1. IsTransaction(x)
    BY DEF FundInv, FundTypes
  <2> QED
    BY <2>1 DEF IsTransaction
<1> HIDE DEF f
<1>3. IsFiniteSet(pending')
  BY AbandonedFinite
<1>4. Orphans(a)' \subseteq {g[x] : x \in S}
  <2> SUFFICES ASSUME NEW y \in Orphans(a)' PROVE y \in {g[x] : x \in S}
    OBVIOUS
  <2>1. y \in pending' /\ y.who \notin Terminals /\ y.goal = "fund" /\ a \in y.what
    BY DEF Orphans
  <2>2. PICK x \in pending : y = f[x]
    BY <1>1, <2>1
  <2>3. x \in S
    BY <1>2, <2>1, <2>2 DEF Orphans
  <2> QED
    BY <2>2, <2>3
<1>5. IsFiniteSet(Own) /\ Cardinality(Own) <= 1 /\ Cardinality(Own) \in Nat
  <2>1. \A x, y \in Own : x = y
    BY DEF FundInv, Awaited
  <2>2. Own = {} \/ \E x : Own = {x}
    BY <2>1
  <2> HIDE DEF Own
  <2>3. CASE Own = {}
    <3>1. IsFiniteSet(Own) /\ Cardinality(Own) = 0
      BY <2>3, FS_EmptySet
    <3> QED
      BY <3>1
  <2>4. ASSUME NEW x, Own = {x} PROVE IsFiniteSet(Own) /\ Cardinality(Own) = 1
    BY <2>4, FS_Singleton
  <2> QED
    BY <2>2, <2>3, <2>4
<1>6. IsFiniteSet(S) /\ Cardinality(S) <= Cardinality(Orphans(a)) + Cardinality(Own)
      /\ Cardinality(S) \in Nat
  <2>1. /\ IsFiniteSet(S)
        /\ Cardinality(S) = Cardinality(Orphans(a)) + Cardinality(Own)
                                - Cardinality(Orphans(a) \cap Own)
    BY <1>0, <1>5, FS_Union
  <2>2. Cardinality(Orphans(a) \cap Own) \in Nat
    BY <1>0, FS_Intersection, FS_CardinalityType
  <2> QED
    BY <1>0, <1>5, <2>1, <2>2, FS_CardinalityType
<1>7. /\ IsFiniteSet({g[x] : x \in S})
      /\ Cardinality({g[x] : x \in S}) <= Cardinality(S)
  <2>1. g \in Surjection(S, {g[x] : x \in S})
    BY DEF Surjection
  <2> QED
    BY <1>6, <2>1, FS_Surjection
<1>8. /\ Cardinality(Orphans(a)') <= Cardinality(S)
      /\ Cardinality(Orphans(a)') \in Nat
  <2>1. /\ Cardinality(Orphans(a)') <= Cardinality({g[x] : x \in S})
        /\ IsFiniteSet(Orphans(a)')
    BY <1>4, <1>7, FS_Subset
  <2>2. Cardinality({g[x] : x \in S}) \in Nat /\ Cardinality(Orphans(a)') \in Nat
    BY <1>7, <2>1, FS_CardinalityType
  <2> QED
    BY <1>6, <1>7, <2>1, <2>2
<1>9. (w \in Terminals => ~ \E x \in pending : x.who = w /\ x.goal = "fund" /\ a \in x.what)
          => Cardinality(Own) = 0
  <2>1. (w \in Terminals => ~ \E x \in pending : x.who = w /\ x.goal = "fund" /\ a \in x.what)
            => Own = {}
    OBVIOUS
  <2> QED
    BY <2>1, FS_EmptySet
<1> QED
  BY <1>0, <1>3, <1>5, <1>6, <1>8, <1>9


\* Steps of a command that neither pay, report nor give up.
GoesOn(t) ==
    \/ Command(t) \/ GuardResolves(t) \/ GuardUnresolved(t) \/ GuardEnables(t)
    \/ GuardSimulates(t) \/ Refreshes(t) \/ FundReadsMaster(t) \/ FundRefused(t)
    \/ SeesFailure(t) \/ SeesSuccess(t) \/ Submits(t) \/ FundSends(t)
    \/ \E a \in Accounts : FundMarks(t, a)

\* Those that have no payment to wait for or to report.
LEMMA BetweenAnswers ==
  ASSUME FundInv, NEW t \in Terminals,
         \/ Command(t) \/ GuardResolves(t) \/ GuardUnresolved(t) \/ GuardEnables(t)
         \/ GuardSimulates(t) \/ Refreshes(t) \/ FundReadsMaster(t) \/ FundRefused(t)
  PROVE  /\ command[t].at \notin {"poll", "mark"} /\ command'[t].at \notin {"poll", "mark"}
         /\ \A u \in Terminals \ {t} : command'[u] = command[u]
<1>0. command \in [Terminals -> LocalsType] /\ command[t] \in LocalsType
  BY DEF FundInv, FundTypes
<1>1. CASE Command(t)
  <2>1. PICK d : command' = [command EXCEPT ![t] = d] /\ command[t].at = "idle"
                 /\ d.at \in {"idle", "resolve", "submit", "account"}
    BY <1>1, IdleLocals DEF Command, GuardDisables, GuardStarts, RestoreStarts, ChannelsAdd,
           FundStarts, Runs, Locals
  <2> QED
    BY <1>0, <2>1
<1>2. CASE GuardUnresolved(t) \/ GuardEnables(t) \/ GuardSimulates(t) \/ Refreshes(t)
           \/ FundRefused(t)
  <2>1. command' = [command EXCEPT ![t] = NoCommand] /\ command[t].at \notin {"poll", "mark"}
    BY <1>2 DEF GuardUnresolved, GuardEnables, GuardSimulates, Refreshes, FundRefused, Ends, Goes
  <2> QED
    BY <1>0, <2>1, IdleLocals
<1>3. CASE FundReadsMaster(t)
  <2> DEFINE d == [command[t] EXCEPT !.at = "send", !.seq = masterSeq + 1]
  <2>1. command' = [command EXCEPT ![t] = d] /\ command[t].at = "account"
    BY <1>3 DEF FundReadsMaster
  <2>2. d.at = "send"
    <3>1. ASSUME NEW n, NEW c \in LocalsType PROVE [c EXCEPT !.at = "send", !.seq = n].at = "send"
      BY DEF LocalsType
    <3> QED
      BY <1>0, <3>1
  <2> HIDE DEF d
  <2> QED
    BY <1>0, <2>1, <2>2
<1>4. CASE GuardResolves(t)
  <2>1. PICK d : command' = [command EXCEPT ![t] = d] /\ command[t].at = "resolve"
                 /\ d.at \in {"idle", "save", "simulate", "submit"}
    <3>1. command[t].goal \in {"enable", "dry-run", "extend"} /\ command[t].at = "resolve"
      BY <1>4 DEF GuardResolves, FundInv, FundTypes
    <3>2. ASSUME NEW stage \in {"idle", "save", "simulate"}, Goes(t, "resolve", stage)
          PROVE  \E d : command' = [command EXCEPT ![t] = d] /\ d.at = stage
      <4> DEFINE e == [command[t] EXCEPT !.at = stage]
      <4>1. e.at = stage
        BY <1>0 DEF LocalsType
      <4>2. command' = [command EXCEPT ![t] = IF stage = "idle" THEN NoCommand ELSE e]
        BY <3>2 DEF Goes
      <4> HIDE DEF e
      <4> QED
        BY <4>1, <4>2, IdleLocals
    <3>3. CASE command[t].goal = "extend"
      <4> DEFINE e == [command[t] EXCEPT !.at = "submit", !.what = Entries]
      <4>1. e.at = "submit"
        BY <1>0 DEF LocalsType
      <4>2. command' = [command EXCEPT ![t] = e]
        BY <1>4, <3>3 DEF GuardResolves
      <4> HIDE DEF e
      <4> QED
        BY <3>1, <4>1, <4>2
    <3>4. CASE \E stage \in {"idle", "save", "simulate"} : Goes(t, "resolve", stage)
      BY <3>1, <3>2, <3>4
    <3> QED
      BY <1>4, <3>1, <3>3, <3>4 DEF GuardResolves
  <2> QED
    BY <1>0, <2>1
<1> QED
  BY <1>1, <1>2, <1>3, <1>4

\* They leave the command before and after any answer, or keep what it is to report.
LEMMA GoingOn ==
  ASSUME FundInv, PayInv, NEW t \in Terminals, GoesOn(t)
  PROVE  /\ UNCHANGED <<told, unsure, paid>>
         /\ \A u \in Terminals \ {t} : command'[u] = command[u] /\ fate'[u] = fate[u]
         /\ command'[t].at = "mark" => command'[t].goal = "fund"
         /\ \A a \in Accounts : Owes(t, a)' <=> Owes(t, a)
<1>0. /\ command \in [Terminals -> LocalsType] /\ command[t] \in LocalsType
      /\ fate \in [Actors -> {"none", "pending", "landed", "failed"}] /\ t \in Actors
      /\ t # Nobody
      /\ command[t].at # "poll" => fate[t] # "landed"
      /\ command[t].at = "mark" => command[t].goal = "fund"
  BY OperatorAssumption DEF FundInv, FundTypes, Answered, PayInv, Actors, Nobody
<1>1. CASE Command(t) \/ GuardResolves(t) \/ GuardUnresolved(t) \/ GuardEnables(t)
           \/ GuardSimulates(t) \/ Refreshes(t) \/ FundReadsMaster(t) \/ FundRefused(t)
  <2>1. UNCHANGED <<told, unsure, paid, fate>>
    BY <1>1 DEF Command, GuardDisables, GuardStarts, RestoreStarts, ChannelsAdd, FundStarts,
           Runs, GuardResolves, GuardUnresolved, GuardEnables, GuardSimulates, Refreshes,
           FundReadsMaster, FundRefused, chain, answers
  <2>2. /\ command[t].at \notin {"poll", "mark"} /\ command'[t].at \notin {"poll", "mark"}
        /\ \A u \in Terminals \ {t} : command'[u] = command[u]
    BY <1>1, BetweenAnswers
  <2> QED
    BY <1>0, <2>1, <2>2 DEF Owes
<1>2. CASE SeesFailure(t)
  <2>1. /\ command' = [command EXCEPT ![t] = NoCommand] /\ command[t].at = "poll"
        /\ fate[t] = "failed" /\ fate' = [fate EXCEPT ![t] = "none"]
        /\ UNCHANGED <<told, unsure, paid>>
    BY <1>2 DEF SeesFailure, Ends, Goes, answers
  <2> QED
    BY <1>0, <2>1, IdleLocals DEF Owes
<1>3. CASE SeesSuccess(t)
  <2> DEFINE d == [command[t] EXCEPT !.at = IF command[t].goal = "fund" THEN "mark" ELSE "refresh"]
  <2>1. /\ command' = [command EXCEPT ![t] = d] /\ command[t].at = "poll"
        /\ fate[t] = "landed" /\ fate' = [fate EXCEPT ![t] = "none"]
        /\ UNCHANGED <<told, unsure, paid>>
    BY <1>3 DEF SeesSuccess, Goes, answers
  <2>2. /\ d.goal = command[t].goal /\ d.what = command[t].what
        /\ d.at = IF command[t].goal = "fund" THEN "mark" ELSE "refresh"
    BY <1>0 DEF LocalsType
  <2> HIDE DEF d
  <2> QED
    BY <1>0, <2>1, <2>2 DEF Owes
<1>4. CASE Submits(t) \/ FundSends(t)
  <2> DEFINE d == [command[t] EXCEPT !.at = "poll"]
  <2>1. /\ command' = [command EXCEPT ![t] = d] /\ command[t].at \in {"submit", "send"}
        /\ UNCHANGED <<told, unsure, paid>>
    BY <1>4 DEF Submits, FundSends, Goes, answers
  <2>2. fate' = [fate EXCEPT ![t] = "pending"] \/ fate' = fate
    BY <1>0, <1>4 DEF Submits, FundSends, Sends
  <2>3. d.at = "poll"
    BY <1>0 DEF LocalsType
  <2> HIDE DEF d
  <2>4. fate[t] # "landed" /\ command[t].at \notin {"poll", "mark"}
    BY <1>0, <2>1
  <2>5. fate'[t] # "landed" /\ \A u \in Terminals \ {t} : fate'[u] = fate[u]
    BY <1>0, <2>2, <2>4 DEF Actors
  <2>6. command'[t].at = "poll" /\ \A u \in Terminals \ {t} : command'[u] = command[u]
    BY <1>0, <2>1, <2>3
  <2> QED
    BY <2>1, <2>4, <2>5, <2>6 DEF Owes
<1>5. CASE \E a \in Accounts : FundMarks(t, a)
  <2>1. UNCHANGED <<told, unsure, paid, fate, command>>
    BY <1>5 DEF FundMarks, chain, answers
  <2> QED
    BY <1>0, <2>1 DEF Owes
<1> QED
  BY <1>1, <1>2, <1>3, <1>4, <1>5 DEF GoesOn

\* What they send is waited for.
LEMMA GoingOnOrphansNone ==
  ASSUME FundInv, PayInv, NEW t \in Terminals, GoesOn(t)
  PROVE  IsFiniteSet(pending') /\ \A a \in Accounts : Orphans(a)' = Orphans(a)
<1>1. CASE UNCHANGED pending
  BY <1>1 DEF Orphans, PayInv
<1>2. ASSUME NEW x, pending' = pending \cup {x}, x.who \in Terminals
      PROVE  IsFiniteSet(pending') /\ \A a \in Accounts : Orphans(a)' = Orphans(a)
  BY <1>2, FS_AddElement DEF Orphans, PayInv
<1>3. CASE Submits(t) \/ FundSends(t)
  <2> DEFINE x == [Transaction(t) EXCEPT !.who = t]
  <2>1. pending' = pending \cup {x} \/ UNCHANGED pending
    BY <1>3 DEF Submits, FundSends, Sends
  <2>2. x.who = t
    BY DEF Transaction
  <2> HIDE DEF x
  <2> QED
    BY <1>1, <1>2, <2>1, <2>2
<1>4. CASE GoesOn(t) /\ ~ (Submits(t) \/ FundSends(t))
  <2>1. UNCHANGED pending
    BY <1>4 DEF GoesOn, Command, GuardDisables, GuardStarts, RestoreStarts, ChannelsAdd,
           FundStarts, Runs, GuardResolves, GuardUnresolved, GuardEnables, GuardSimulates,
           Refreshes, FundReadsMaster, FundRefused, SeesFailure, SeesSuccess, FundMarks, chain
  <2> QED
    BY <1>1, <2>1
<1> QED
  BY <1>3, <1>4

LEMMA GoingOnKeepsBalance ==
  ASSUME FundInv, PayInv, NEW t \in Terminals, GoesOn(t)
  PROVE  PayInv'
<1>1. \A a \in Accounts : Balanced(a)'
  <2> SUFFICES ASSUME NEW a \in Accounts PROVE Balanced(a)'
    OBVIOUS
  <2>1. Owed(a)' = Owed(a)
    BY GoingOn, OthersOwe
  <2> QED
    BY <2>1, GoingOn, GoingOnOrphansNone, IdleKeepsBalance
<1>2. {told, unsure}' \subseteq [Accounts -> Nat]
  BY GoingOn DEF PayInv
<1>3. \A u \in Terminals : command'[u].at = "mark" => command'[u].goal = "fund"
  BY GoingOn DEF PayInv
<1> QED
  BY <1>1, <1>2, <1>3, GoingOnOrphansNone DEF PayInv

\* A run that ends without an answer counts as unsure whatever it owed, and the payment
\* it may leave on its way.
LEMMA StopKeepsBalance ==
  ASSUME FundInv, PayInv, NEW t \in Terminals, TimesOut(t) \/ GivesUp(t)
  PROVE  PayInv'
<1> DEFINE Pays(a) == command[t].goal = "fund" /\ command[t].at # "account" /\ a \in command[t].what
<1>0. /\ command \in [Terminals -> LocalsType] /\ command[t] \in LocalsType
      /\ fate \in [Actors -> {"none", "pending", "landed", "failed"}] /\ t \in Actors
      /\ t # Nobody /\ unsure \in [Accounts -> Nat]
      /\ Terminals \subseteq Actors
  BY OperatorAssumption DEF FundInv, FundTypes, PayInv, Actors, Nobody
<1>1. /\ command' = [command EXCEPT ![t] = NoCommand]
      /\ UNCHANGED <<told, paid>>
      /\ Unsure(t)
  BY DEF TimesOut, GivesUp, Ends, Goes
<1>2. /\ unsure' \in [Accounts -> Nat]
      /\ \A a \in Accounts : unsure'[a] = unsure[a] + (IF Pays(a) THEN 1 ELSE 0)
  <2>1. CASE command[t].goal = "fund" /\ command[t].at # "account"
    <3>1. unsure' = [a \in Accounts |-> unsure[a] + (IF a \in command[t].what THEN 1 ELSE 0)]
      BY <1>0, <1>1, <2>1 DEF Unsure, Increased
    <3> QED
      BY <1>0, <2>1, <3>1
  <2>2. CASE ~ (command[t].goal = "fund" /\ command[t].at # "account")
    <3>1. unsure' = unsure
      BY <1>1, <2>2 DEF Unsure
    <3> QED
      BY <1>0, <2>2, <3>1
  <2> QED
    BY <2>1, <2>2
<1>3. \A u \in Terminals \ {t} : command'[u] = command[u] /\ fate'[u] = fate[u]
  BY <1>0, <1>1 DEF TimesOut, GivesUp, Abandons, Sends
<1>4. \A a \in Accounts : ~ Owes(t, a)' /\ (Owes(t, a) => Pays(a))
  BY <1>0, <1>1, IdleLocals DEF Owes
<1>5. /\ IsFiniteSet(pending')
      /\ \A a \in Accounts :
             /\ IsFiniteSet(Orphans(a)') /\ Cardinality(Orphans(a)') \in Nat
             /\ Cardinality(Orphans(a)') <= Cardinality(Orphans(a))
                    + (IF Pays(a) /\ ~ Owes(t, a) THEN 1 ELSE 0)
  <2>1. CASE Abandons(t)
    <3>1. IsFiniteSet(pending')
      BY <2>1, AbandonedFinite
    <3>2. ASSUME NEW a \in Accounts
          PROVE  /\ IsFiniteSet(Orphans(a)') /\ Cardinality(Orphans(a)') \in Nat
                 /\ Cardinality(Orphans(a)') <= Cardinality(Orphans(a))
                        + (IF Pays(a) /\ ~ Owes(t, a) THEN 1 ELSE 0)
      <4>1. (~ Pays(a) \/ Owes(t, a)) =>
                ~ \E x \in pending : x.who = t /\ x.goal = "fund" /\ a \in x.what
        BY DEF FundInv, Awaited, Owes
      <4>2. Orphans(a)' \subseteq pending'
        BY DEF Orphans
      <4>3. IsFiniteSet(Orphans(a)')
        BY <3>1, <4>2, FS_Subset
      <4> HIDE DEF Pays
      <4>4. /\ Cardinality(Orphans(a)') \in Nat
            /\ Cardinality(Orphans(a)') <= Cardinality(Orphans(a)) + 1
            /\ (~ Pays(a) \/ Owes(t, a)) =>
                   Cardinality(Orphans(a)') <= Cardinality(Orphans(a))
        BY <2>1, <4>1, AbandonedOrphans
      <4> QED
        BY <4>3, <4>4, CountTypes
    <3> QED
      BY <3>1, <3>2
  <2>2. CASE GivesUp(t) /\ command[t].at \in {"submit", "send"} /\ Sends(Nobody, Transaction(t))
    <3> DEFINE x == [Transaction(t) EXCEPT !.who = Nobody]
    <3>1. pending' = pending \cup {x}
      BY <2>2 DEF Sends
    <3>2. x.goal = command[t].goal /\ x.what = command[t].what
      BY DEF Transaction
    <3>3. IsFiniteSet(pending')
      BY <3>1, FS_AddElement DEF PayInv
    <3> HIDE DEF x
    <3>4. ASSUME NEW a \in Accounts
          PROVE  /\ IsFiniteSet(Orphans(a)') /\ Cardinality(Orphans(a)') \in Nat
                 /\ Cardinality(Orphans(a)') <= Cardinality(Orphans(a))
                        + (IF Pays(a) /\ ~ Owes(t, a) THEN 1 ELSE 0)
      <4>0. ~ Owes(t, a)
        BY <2>2 DEF Owes
      <4>1. CASE Pays(a)
        <5>1. Orphans(a)' \subseteq Orphans(a) \cup {x}
          BY <3>1 DEF Orphans
        <5>2. /\ IsFiniteSet(Orphans(a) \cup {x})
              /\ Cardinality(Orphans(a) \cup {x}) \in {Cardinality(Orphans(a)), Cardinality(Orphans(a)) + 1}
          BY CountTypes, FS_AddElement
        <5>3. /\ IsFiniteSet(Orphans(a)')
              /\ Cardinality(Orphans(a)') <= Cardinality(Orphans(a) \cup {x})
          BY <5>1, <5>2, FS_Subset
        <5>4. Cardinality(Orphans(a)') \in Nat
          BY <5>3, FS_CardinalityType
        <5> HIDE DEF Pays
        <5> QED
          BY <4>0, <4>1, <5>2, <5>3, <5>4, CountTypes
      <4>2. CASE ~ Pays(a)
        <5>1. Orphans(a)' = Orphans(a)
          BY <2>2, <3>1, <3>2, <4>2 DEF Orphans
        <5> HIDE DEF Pays
        <5> QED
          BY <4>2, <5>1, CountTypes
      <4> QED
        BY <4>1, <4>2
    <3> QED
      BY <3>3, <3>4
  <2> QED
    BY <2>1, <2>2 DEF TimesOut, GivesUp
<1>6. \A a \in Accounts : Balanced(a)'
  <2> SUFFICES ASSUME NEW a \in Accounts PROVE Balanced(a)'
    OBVIOUS
  <2>0. /\ told'[a] = told[a] /\ paid'[a] = paid[a]
        /\ unsure'[a] = unsure[a] + (IF Pays(a) THEN 1 ELSE 0)
        /\ Cardinality(Orphans(a)') \in Nat
        /\ Cardinality(Orphans(a)') <= Cardinality(Orphans(a))
               + (IF Pays(a) /\ ~ Owes(t, a) THEN 1 ELSE 0)
        /\ Owes(t, a) => Pays(a)
    BY <1>1, <1>2, <1>4, <1>5
  <2>1. Cardinality(Owed(a)') = Cardinality(Owed(a)) - (IF Owes(t, a) THEN 1 ELSE 0)
    <3>1. CASE Owes(t, a)
      BY <1>3, <1>4, <3>1, OthersOwe, DebtEnds
    <3>2. CASE ~ Owes(t, a)
      <4>1. Owed(a)' = Owed(a)
        BY <1>3, <1>4, <3>2, OthersOwe
      <4> QED
        BY <3>2, <4>1, CountTypes
    <3> QED
      BY <3>1, <3>2
  <2>2. Balanced(a)
    BY DEF PayInv
  <2> HIDE DEF Pays
  <2> QED
    BY <2>0, <2>1, <2>2, CountTypes DEF Balanced
<1>7. \A u \in Terminals : command'[u].at = "mark" => command'[u].goal = "fund"
  BY <1>0, <1>1, IdleLocals DEF PayInv
<1>8. {told, unsure}' \subseteq [Accounts -> Nat]
  BY <1>1, <1>2 DEF PayInv
<1> QED
  BY <1>5, <1>6, <1>7, <1>8 DEF PayInv

\* The report pays off what the run owed.
LEMMA ReportKeepsBalance ==
  ASSUME FundInv, PayInv, NEW t \in Terminals, FundReports(t)
  PROVE  PayInv'
<1>0. /\ command \in [Terminals -> LocalsType] /\ command[t].at = "mark"
      /\ command[t].goal = "fund"
      /\ told \in [Accounts -> Nat]
  BY DEF FundInv, FundTypes, PayInv, FundReports, Ends, Goes
<1>1. /\ command' = [command EXCEPT ![t] = NoCommand]
      /\ UNCHANGED <<paid, unsure, pending, fate>>
      /\ told' = Increased(told, command[t].what)
  BY DEF FundReports, Ends, Goes, ToMark, chain
<1>2. told' = [a \in Accounts |-> told[a] + (IF a \in command[t].what THEN 1 ELSE 0)]
  BY <1>0, <1>1 DEF Increased
<1>3. \A a \in Accounts : ~ Owes(t, a)' /\ (Owes(t, a) <=> a \in command[t].what)
  BY <1>0, <1>1, IdleLocals DEF Owes
<1>4. \A a \in Accounts : Balanced(a)'
  <2> SUFFICES ASSUME NEW a \in Accounts PROVE Balanced(a)'
    OBVIOUS
  <2>1. Orphans(a)' = Orphans(a)
    BY <1>1 DEF Orphans
  <2>2. Cardinality(Owed(a)') = Cardinality(Owed(a)) - (IF Owes(t, a) THEN 1 ELSE 0)
    <3>1. CASE Owes(t, a)
      BY <1>0, <1>1, <1>3, <3>1, OthersOwe, DebtEnds
    <3>2. CASE ~ Owes(t, a)
      <4>1. Owed(a)' = Owed(a)
        BY <1>0, <1>1, <1>3, <3>2, OthersOwe
      <4> QED
        BY <3>2, <4>1, CountTypes
    <3> QED
      BY <3>1, <3>2
  <2>3. told'[a] = told[a] + (IF Owes(t, a) THEN 1 ELSE 0)
    BY <1>2, <1>3
  <2>4. Balanced(a)
    BY DEF PayInv
  <2> QED
    BY <1>1, <2>1, <2>2, <2>3, <2>4, CountTypes DEF Balanced
<1>5. \A u \in Terminals : command'[u].at = "mark" => command'[u].goal = "fund"
  BY <1>0, <1>1, IdleLocals DEF PayInv
<1> QED
  BY <1>0, <1>1, <1>2, <1>4, <1>5 DEF PayInv

\* A payment lands: its run owes the report of it, or one orphan less may land.
LEMMA PaymentKeepsBalance ==
  ASSUME FundInv, PayInv, NEW x \in pending, Lands(x), x.goal = "fund"
  PROVE  \A a \in Accounts : Balanced(a)'
<1>0. /\ paid \in [Accounts -> Nat] /\ fate \in [Actors -> {"none", "pending", "landed", "failed"}]
      /\ Terminals \subseteq Actors /\ Nobody \notin Terminals
  BY OperatorAssumption DEF FundInv, FundTypes, Actors, Nobody
<1>1. /\ UNCHANGED <<told, unsure, command>>
      /\ pending' = pending \ {x}
      /\ fate' = IF x.who = Nobody THEN fate ELSE [fate EXCEPT ![x.who] = "landed"]
      /\ paid' = Increased(paid, x.what)
  BY DEF Lands, Settles, answers
<1>2. paid' = [a \in Accounts |-> paid[a] + (IF a \in x.what THEN 1 ELSE 0)]
  BY <1>0, <1>1 DEF Increased
<1> SUFFICES ASSUME NEW a \in Accounts PROVE Balanced(a)'
  OBVIOUS
<1>3. paid'[a] = paid[a] + (IF a \in x.what THEN 1 ELSE 0)
  BY <1>2
<1>4. Balanced(a)
  BY DEF PayInv
<1>5. CASE x.who \in Terminals
  <2> DEFINE t == x.who
  <2>1. /\ command[t].at = "poll" /\ fate[t] = "pending" /\ command[t].goal = "fund"
        /\ command[t].what = x.what
    BY <1>5 DEF FundInv, Awaited
  <2>2. Orphans(a)' = Orphans(a)
    BY <1>1, <1>5 DEF Orphans
  <2>3. fate' = [fate EXCEPT ![t] = "landed"]
    BY <1>0, <1>1, <1>5
  <2>4. \A u \in Terminals \ {t} : command'[u] = command[u] /\ fate'[u] = fate[u]
    BY <1>0, <1>1, <2>3
  <2>5. ~ Owes(t, a) /\ (Owes(t, a)' <=> a \in x.what)
    BY <1>0, <1>1, <1>5, <2>1, <2>3 DEF Owes
  <2>6. Cardinality(Owed(a)') = Cardinality(Owed(a)) + (IF a \in x.what THEN 1 ELSE 0)
    <3> HIDE DEF t
    <3>0. t \in Terminals
      BY <1>5 DEF t
    <3>1. CASE a \in x.what
      <4>1. Owed(a)' = Owed(a) \cup {t} /\ t \notin Owed(a)
        BY <2>4, <2>5, <3>0, <3>1, OthersOwe
      <4> QED
        BY <3>0, <3>1, <4>1, DebtBegins
    <3>2. CASE a \notin x.what
      <4>1. Owed(a)' = Owed(a)
        BY <2>4, <2>5, <3>0, <3>2, OthersOwe
      <4> QED
        BY <3>2, <4>1, CountTypes
    <3> QED
      BY <3>1, <3>2
  <2> QED
    BY <1>1, <1>3, <1>4, <2>2, <2>6, CountTypes DEF Balanced
<1>6. CASE x.who \notin Terminals
  <2>1. \A t \in Terminals : command'[t] = command[t] /\ fate'[t] = fate[t]
    BY <1>0, <1>1, <1>6
  <2>2. Owed(a)' = Owed(a)
    BY <2>1 DEF Owed, Owes
  <2>3. Cardinality(Orphans(a)') = Cardinality(Orphans(a)) - (IF a \in x.what THEN 1 ELSE 0)
    <3>1. CASE a \in x.what
      <4>1. Orphans(a)' = Orphans(a) \ {x} /\ x \in Orphans(a)
        BY <1>1, <1>6, <3>1 DEF Orphans
      <4> QED
        BY <3>1, <4>1, CountTypes, FS_RemoveElement
    <3>2. CASE a \notin x.what
      <4>1. Orphans(a)' = Orphans(a)
        BY <1>1, <3>2 DEF Orphans
      <4> QED
        BY <3>2, <4>1, CountTypes
    <3> QED
      BY <3>1, <3>2
  <2> QED
    BY <1>1, <1>3, <1>4, <2>2, <2>3, CountTypes DEF Balanced
<1> QED
  BY <1>5, <1>6

\* What else may become of a transaction pays nobody.
LEMMA ChainKeepsBalance ==
  ASSUME FundInv, PayInv, NEW x \in pending, Lands(x) \/ FailsOnChain(x) \/ Expires(x)
  PROVE  PayInv'
<1>0. /\ fate \in [Actors -> {"none", "pending", "landed", "failed"}]
      /\ Terminals \subseteq Actors /\ Nobody \notin Terminals
  BY OperatorAssumption DEF FundInv, FundTypes, Actors, Nobody
<1>1. /\ UNCHANGED <<told, unsure, command>>
      /\ pending' = pending \ {x}
  BY DEF Lands, FailsOnChain, Expires, Settles, answers
<1>2. IsFiniteSet(pending')
  BY <1>1, FS_RemoveElement DEF PayInv
<1>3. \A a \in Accounts : Balanced(a)'
  <2>1. CASE Lands(x) /\ x.goal = "fund"
    BY <2>1, PaymentKeepsBalance
  <2>2. CASE ~ (Lands(x) /\ x.goal = "fund")
    <3> SUFFICES ASSUME NEW a \in Accounts PROVE Balanced(a)'
      OBVIOUS
    <3>1. UNCHANGED paid
      BY <2>2 DEF Lands, FailsOnChain, Expires
    <3>2. Orphans(a)' \subseteq Orphans(a)
      BY <1>1 DEF Orphans
    <3>3. \A t \in Terminals : Owes(t, a)' <=> Owes(t, a)
      <4> SUFFICES ASSUME NEW t \in Terminals PROVE Owes(t, a)' <=> Owes(t, a)
        OBVIOUS
      <4>1. CASE fate'[t] = fate[t]
        BY <1>1, <4>1 DEF Owes
      <4>2. CASE fate'[t] # fate[t]
        <5>1. x.who = t
          BY <1>0, <4>2 DEF Lands, FailsOnChain, Expires, Settles
        <5>2. fate[t] = "pending" /\ command[t].goal = x.goal
          BY <5>1 DEF FundInv, Awaited
        <5>3. fate'[t] = "landed" => x.goal # "fund"
          BY <1>0, <2>2, <5>1, <5>2 DEF Lands, FailsOnChain, Expires, Settles
        <5>4. command[t].at = "poll"
          BY <5>1 DEF FundInv, Awaited
        <5> QED
          BY <1>1, <5>2, <5>3, <5>4 DEF Owes
      <4> QED
        BY <4>1, <4>2
    <3>4. Owed(a)' = Owed(a)
      BY <3>3 DEF Owed
    <3> QED
      BY <1>1, <3>1, <3>2, <3>4, IdleKeepsBalance
  <2> QED
    BY <2>1, <2>2
<1> QED
  BY <1>1, <1>2, <1>3 DEF PayInv

\* The daemon pays nobody.
LEMMA CycleKeepsBalance ==
  ASSUME FundInv, PayInv, DaemonStep \/ RunFails
  PROVE  PayInv'
<1>0. /\ UNCHANGED <<command, paid, told, unsure>>
      /\ Daemon \notin Terminals /\ Nobody \notin Terminals
      /\ fate \in [Actors -> {"none", "pending", "landed", "failed"}]
      /\ Terminals \subseteq Actors
  BY OperatorAssumption DEF DaemonStep, RunFails, Checks, RunReads, RunResolves, RunSkips,
         RunSubmits, RunPolls, RunTimesOut, RunRecords, Cycle, chain, answers, Nobody,
         FundInv, FundTypes, Actors
<1>1. \A t \in Terminals : fate'[t] = fate[t]
  <2>1. CASE Checks \/ RunReads \/ RunResolves \/ RunSkips \/ RunRecords
    BY <2>1 DEF Checks, RunReads, RunResolves, RunSkips, RunRecords, chain
  <2>2. CASE RunSubmits \/ RunPolls \/ RunTimesOut \/ RunFails
    BY <1>0, <2>2 DEF RunSubmits, RunPolls, RunTimesOut, RunFails, Sends, Abandons
  <2> QED
    BY <2>1, <2>2 DEF DaemonStep
<1>2. /\ IsFiniteSet(pending')
      /\ \A a \in Accounts : /\ Cardinality(Orphans(a)') \in Nat
                             /\ Cardinality(Orphans(a)') <= Cardinality(Orphans(a))
  <2>1. CASE UNCHANGED pending
    <3>1. \A a \in Accounts : Orphans(a)' = Orphans(a)
      BY <2>1 DEF Orphans
    <3> QED
      BY <2>1, <3>1, CountTypes DEF PayInv
  <2>2. CASE RunSubmits
    <3> DEFINE x == [[who |-> Daemon, goal |-> "extend", what |-> run.what, seq |-> 0,
                      target |-> run.policy.target] EXCEPT !.who = Daemon]
    <3>1. pending' = pending \cup {x}
      BY <2>2 DEF RunSubmits, Sends
    <3>2. x.goal = "extend"
      OBVIOUS
    <3> HIDE DEF x
    <3>3. \A a \in Accounts : Orphans(a)' = Orphans(a)
      BY <3>1, <3>2 DEF Orphans
    <3> QED
      BY <3>1, <3>3, CountTypes, FS_AddElement DEF PayInv
  <2>3. CASE Abandons(Daemon)
    <3>1. \A a \in Accounts : /\ Cardinality(Orphans(a)') \in Nat
                              /\ Cardinality(Orphans(a)') <= Cardinality(Orphans(a))
      BY <1>0, <2>3, AbandonedOrphans
    <3> QED
      BY <2>3, <3>1, AbandonedFinite
  <2> QED
    BY <2>1, <2>2, <2>3 DEF DaemonStep, RunFails, Checks, RunReads, RunResolves, RunSkips,
                            RunPolls, RunTimesOut, RunRecords, chain
<1>3. \A a \in Accounts : Balanced(a)'
  <2> SUFFICES ASSUME NEW a \in Accounts PROVE Balanced(a)'
    OBVIOUS
  <2>1. Owed(a)' = Owed(a)
    BY <1>0, <1>1 DEF Owed, Owes
  <2>2. Balanced(a)
    BY DEF PayInv
  <2> QED
    BY <1>0, <1>2, <2>1, <2>2, CountTypes DEF Balanced
<1> QED
  BY <1>0, <1>2, <1>3 DEF PayInv

\* What operators are told can be reckoned with, for any number of terminals, accounts,
\* commands and faults: an account was paid at least as often as it was reported funded,
\* and at most as often as that, the runs without an answer and those still open add up
\* to, whatever lands after its run gave up.
THEOREM PaidAsReportedHolds == Spec => []PaidAsReported
<1>1. Init => PayInv
  <2> SUFFICES ASSUME Init PROVE PayInv
    OBVIOUS
  <2>1. ASSUME NEW a \in Accounts PROVE Balanced(a)
    <3>1. Owed(a) = {} /\ Orphans(a) = {}
      BY IdleLocals DEF Init, Owed, Owes, Orphans
    <3>2. Cardinality(Owed(a)) = 0 /\ Cardinality(Orphans(a)) = 0
      BY <3>1, FS_EmptySet
    <3> QED
      BY <3>2 DEF Init, Balanced
  <2>2. IsFiniteSet(pending)
    BY FS_EmptySet DEF Init
  <2> QED
    BY <2>1, <2>2, IdleLocals DEF Init, PayInv
<1>2. FundInv /\ PayInv /\ [Next]_vars => PayInv'
  <2> SUFFICES ASSUME FundInv, PayInv, [Next]_vars PROVE PayInv'
    OBVIOUS
  <2>1. ASSUME NEW t \in Terminals, Command(t) \/ Continues(t) \/ GivesUp(t) PROVE PayInv'
    BY <2>1, GoingOnKeepsBalance, ReportKeepsBalance, StopKeepsBalance DEF Continues, GoesOn
  <2>2. CASE \E x \in pending : Lands(x) \/ FailsOnChain(x) \/ Expires(x)
    BY <2>2, ChainKeepsBalance
  <2>3. CASE DaemonStep \/ RunFails
    BY <2>3, CycleKeepsBalance
  <2>4. CASE LedgerCloses \/ UNCHANGED vars
    <3>1. UNCHANGED <<command, fate, paid, pending, told, unsure>>
      BY <2>4 DEF LedgerCloses, vars, chain, answers
    <3> QED
      BY <3>1 DEF PayInv, Balanced, Owed, Owes, Orphans
  <2> QED
    BY <2>1, <2>2, <2>3, <2>4 DEF Next
<1>3. FundInv /\ PayInv => PaidAsReported
  <2> SUFFICES ASSUME FundInv, PayInv PROVE PaidAsReported
    OBVIOUS
  <2> SUFFICES ASSUME NEW a \in Accounts
               PROVE  LET open == {t \in Terminals : command[t].goal = "fund" /\ a \in command[t].what}
                      IN  told[a] <= paid[a] /\ paid[a] <= told[a] + unsure[a] + Cardinality(open)
    BY DEF PaidAsReported
  <2> DEFINE open == {t \in Terminals : command[t].goal = "fund" /\ a \in command[t].what}
  <2>1. Owed(a) \subseteq open /\ open \subseteq Terminals
    BY DEF Owed, Owes
  <2>2. IsFiniteSet(open)
    BY <2>1, OperatorAssumption, FS_Subset
  <2>3. Cardinality(Owed(a)) <= Cardinality(open) /\ Cardinality(open) \in Nat
    BY <2>1, <2>2, FS_Subset, FS_CardinalityType
  <2> HIDE DEF open
  <2>4. told[a] <= paid[a] /\ paid[a] <= told[a] + unsure[a] + Cardinality(open)
    BY <2>3, CountTypes DEF PayInv, Balanced
  <2> QED
    BY <2>4 DEF open
<1> QED
  BY <1>1, <1>2, <1>3, FundInvHolds, PTL DEF Spec

=============================================================================
