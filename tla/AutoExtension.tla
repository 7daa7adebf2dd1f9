--------------------------- MODULE AutoExtension ---------------------------
(***************************************************************************)
(* The auto-extension phase of a monitoring cycle, runAutoExtensions, on a  *)
(* moving chain. The cycle refreshes the entry rows contract by contract    *)
(* (processContract, sequential), then extends all guarded contracts at     *)
(* once (Promise.all): each attempt reads its rows, checks the hourly rate  *)
(* limit, takes a channel account from the ChannelPool or falls back to the *)
(* key of its policy, checks the budget, submits, polls and records.        *)
(*                                                                         *)
(* A step of an attempt is the code between two awaits. The code before the *)
(* first await of every attempt runs in one go, in table order; here the    *)
(* attempts begin in any order, which only adds interleavings. One run is   *)
(* in flight at a time, as the re-entrance guard of the loop intends.       *)
(***************************************************************************)
EXTENDS Integers, Sequences, FiniteSets, FiniteSetsExt

CONSTANTS
    Contracts,      \* contracts of the network with an enabled policy
    Entries,        \* their rows of contract_entries
    OwnerOf,        \* the contract of an entry
    PolicyKey,      \* the account behind the keypair_source of a policy
    Signers,        \* channel accounts and contracts whose secret resolves
    NumAccounts,    \* registered channel accounts, possibly none
    NoSlot,
    Below,          \* extend_when_below_ledgers
    Target,         \* target_ttl_ledgers
    RateLimit,      \* HOURLY_RATE_LIMIT
    Hour,           \* ledgers that close in an hour
    Fee,            \* fee of an extension, as simulation estimates it
    TrackedLimit,   \* limit_xlm in budget_tracking, NoLimit without a row
    MonthlyLimit,   \* monthly_limit_xlm in contract_budgets, as the CLI set it
    NoLimit,
    MaxLedger,      \* bound: the last ledger that closes
    MaxFaults       \* bound: RPC and database errors, lost transactions, crashes

Slots == 0 .. NumAccounts - 1

ASSUME ExtensionAssumption ==
    /\ IsFiniteSet(Contracts)
    /\ IsFiniteSet(Entries)
    /\ OwnerOf \in [Entries -> Contracts]
    /\ NumAccounts \in Nat
    /\ NoSlot \notin Slots \cup Signers
    /\ Below \in Nat \ {0}
    /\ Target \in Nat
    /\ Below < Target       \* commands/guard.ts refuses anything else
    /\ RateLimit \in Nat \ {0}
    /\ Hour \in Nat
    /\ Fee \in Nat \ {0}
    /\ TrackedLimit \in [Contracts -> Nat \cup {NoLimit}]
    /\ MonthlyLimit \in [Contracts -> Nat \cup {NoLimit}]
    /\ NoLimit \notin Nat
    /\ MaxLedger \in Nat
    /\ MaxFaults \in Nat

VARIABLES
    now,            \* the chain: latest closed ledger
    until,          \* the chain: live_until_ledger of each entry
    pending,        \* the chain: transactions submitted and not yet in a ledger
    landed,         \* the chain: transactions that succeeded, with their ledger
    known,          \* contract_entries.live_until_ledger
    history,        \* rows of extension_history
    spent,          \* budget_tracking.spent_xlm
    phase,          \* idle, monitor (processContract) or extend
    unchecked,      \* contracts the monitor phase has not come to yet
    latest,         \* latestLedger of the run
    att,            \* the attempt of each contract
    submissions,    \* numbers the transactions
    faults,
    inUse, waiters, cursor, slot, asked     \* the pool of the run

Pool == INSTANCE ChannelPool WITH Callers <- Contracts

onchain == <<now, until, pending, landed>>
db == <<known, history, spent>>
run == <<phase, unchecked, latest>>
pool == <<inUse, waiters, cursor, slot, asked>>
vars == <<onchain, db, run, att, submissions, faults, pool>>

Stages == {"idle", "acquire", "policy", "budget", "simulate", "submit",
           "poll", "record", "done"}

EntriesOf(c) == {e \in Entries : OwnerOf[e] = c}

\* The locals of one attempt: how far it is, entryKeys, the account that signs,
\* the spent_xlm it read, its fee estimate and the hash it polls.
Attempt == [at : Stages, keys : SUBSET Entries, key : Signers \cup {NoSlot},
            seen : Nat, est : {0, Fee}, hash : Nat]
Fresh(stage) == [at |-> stage, keys |-> {}, key |-> NoSlot,
                 seen |-> 0, est |-> 0, hash |-> 0]

Transaction == [id : Nat \ {0}, contract : Contracts, keys : SUBSET Entries, key : Signers]
Landing == [id : Nat \ {0}, contract : Contracts, keys : SUBSET Entries, ledger : Nat]
Row == [hash : Nat \ {0}, entry : Entries, ledger : Nat]

TypeOK ==
    /\ now \in 0 .. MaxLedger
    /\ until \in [Entries -> Nat]
    /\ pending \subseteq Transaction
    /\ landed \subseteq Landing
    /\ known \in [Entries -> Nat]
    /\ history \subseteq Row
    /\ spent \in [Contracts -> Nat]
    /\ phase \in {"idle", "monitor", "extend"}
    /\ unchecked \subseteq Contracts
    /\ latest \in Nat
    /\ att \in [Contracts -> Attempt]
    /\ submissions \in Nat
    /\ faults \in 0 .. MaxFaults
    /\ NumAccounts > 0 => Pool!TypeOK

Init ==
    /\ now = 0
    /\ until \in [Entries -> 1 .. Below]
    /\ pending = {}
    /\ landed = {}
    /\ known = until
    /\ history = {}
    /\ spent = [c \in Contracts |-> 0]
    /\ phase = "idle"
    /\ unchecked = {}
    /\ latest = 0
    /\ att = [c \in Contracts |-> Fresh("idle")]
    /\ submissions = 0
    /\ faults = 0
    /\ Pool!Init

Fault == faults < MaxFaults /\ faults' = faults + 1

-----------------------------------------------------------------------------
(* The chain.                                                               *)

LedgerCloses ==
    /\ now < MaxLedger
    /\ now' = now + 1
    /\ UNCHANGED <<until, pending, landed, db, run, att, submissions, faults, pool>>

\* ExtendFootprintTTL never shortens a life and skips archived entries.
Lands(t) ==
    /\ pending' = pending \ {t}
    /\ landed' = landed \cup
           {[id |-> t.id, contract |-> t.contract, keys |-> t.keys, ledger |-> now]}
    /\ until' = [e \in Entries |->
                    IF e \in t.keys /\ until[e] >= now
                    THEN Max({until[e], now + Target}) ELSE until[e]]
    /\ UNCHANGED <<now, db, run, att, submissions, faults, pool>>

\* It fails in a ledger, or its 30 s time bound passes before one takes it.
IsLost(t) ==
    /\ Fault
    /\ pending' = pending \ {t}
    /\ UNCHANGED <<now, until, landed, db, run, att, submissions, pool>>

-----------------------------------------------------------------------------
(* The cycle around the attempts.                                           *)

StartCycle ==
    /\ phase = "idle"
    /\ phase' = "monitor"
    /\ unchecked' = Contracts
    /\ UNCHANGED <<onchain, db, latest, att, submissions, faults, pool>>

\* processContract: archived entries are not in the RPC's answer and keep their
\* row.
Checks(c) ==
    /\ phase = "monitor"
    /\ c \in unchecked
    /\ unchecked' = unchecked \ {c}
    /\ known' = [e \in Entries |->
                    IF e \in EntriesOf(c) /\ until[e] >= now THEN until[e] ELSE known[e]]
    /\ UNCHANGED <<onchain, history, spent, phase, latest, att, submissions, faults, pool>>

CheckFails(c) ==
    /\ phase = "monitor"
    /\ c \in unchecked
    /\ Fault
    /\ unchecked' = unchecked \ {c}
    /\ UNCHANGED <<onchain, db, phase, latest, att, submissions, pool>>

StartRun ==
    /\ phase = "monitor"
    /\ unchecked = {}
    /\ phase' = "extend"
    /\ latest' = now
    /\ UNCHANGED <<onchain, db, unchecked, att, submissions, faults, pool>>

\* getCurrentLedger rejects: no contract is looked at in this cycle.
RunFails ==
    /\ phase = "monitor"
    /\ unchecked = {}
    /\ Fault
    /\ phase' = "idle"
    /\ UNCHANGED <<onchain, db, unchecked, latest, att, submissions, pool>>

\* The pool is a local of the run: it ends with it, whatever state it is in.
PoolIsGone ==
    /\ inUse' = {}
    /\ waiters' = << >>
    /\ cursor' = 0
    /\ slot' = [c \in Contracts |-> NoSlot]
    /\ asked' = {}

\* Promise.all resolves, the run's locals and its pool go out of scope, and the
\* rest of the cycle does not touch this state.
EndRun ==
    /\ phase = "extend"
    /\ \A c \in Contracts : att[c].at = "done"
    /\ phase' = "idle"
    /\ latest' = 0
    /\ att' = [c \in Contracts |-> Fresh("idle")]
    /\ PoolIsGone
    /\ UNCHANGED <<onchain, db, unchecked, submissions, faults>>

\* The process dies and is started again: what is not in the database or on
\* the chain is gone.
Crash ==
    /\ phase # "idle"
    /\ Fault
    /\ phase' = "idle"
    /\ unchecked' = {}
    /\ att' = [c \in Contracts |-> Fresh("idle")]
    /\ latest' = 0
    /\ PoolIsGone
    /\ UNCHANGED <<onchain, db, submissions>>

-----------------------------------------------------------------------------
(* One attempt.                                                             *)

\* Mutant of NeedsExtension: remaining > 0.
NeedsExtensionLate(c) ==
    {e \in EntriesOf(c) : known[e] - latest > 0 /\ known[e] - latest < Below}

\* needsExtension: below the threshold and not archived, by the row and the
\* ledger the run started with.
NeedsExtension(c) ==
    {e \in EntriesOf(c) : known[e] - latest >= 0 /\ known[e] - latest < Below}

CountExtensionsInLastHour(c) ==
    Cardinality({r \in history : OwnerOf[r.entry] = c /\ r.ledger >= now - Hour})

\* Mutant of IsRateLimited: count > limit.
IsRateLimitedLate(c) == CountExtensionsInLastHour(c) > RateLimit

IsRateLimited(c) == CountExtensionsInLastHour(c) >= RateLimit

Moves(c, locals) == att' = [att EXCEPT ![c] = locals]

\* Mutant of ReturnsSlot: there is no finally, the slot goes out of scope.
ForgetsSlot(c) ==
    /\ slot' = [slot EXCEPT ![c] = NoSlot]
    /\ UNCHANGED <<inUse, waiters, cursor, asked>>

\* The finally block.
ReturnsSlot(c) == \/ Pool!Release(c)
                  \/ slot[c] = NoSlot /\ UNCHANGED pool

Finishes(c) ==
    /\ Moves(c, Fresh("done"))
    /\ ReturnsSlot(c)

Begins(c) == phase = "extend" /\ att[c].at = "idle"

NothingToDo(c) ==
    /\ Begins(c)
    /\ NeedsExtension(c) = {}
    /\ Moves(c, Fresh("done"))
    /\ UNCHANGED <<onchain, db, run, submissions, faults, pool>>

RateLimited(c) ==
    /\ Begins(c)
    /\ NeedsExtension(c) # {}
    /\ IsRateLimited(c)
    /\ Moves(c, Fresh("done"))
    /\ UNCHANGED <<onchain, db, run, submissions, faults, pool>>

AsksForKey(c) ==
    /\ Begins(c)
    /\ NeedsExtension(c) # {}
    /\ ~ IsRateLimited(c)
    /\ \/ /\ NumAccounts > 0
          /\ Pool!Acquire(c)
          /\ Moves(c, [Fresh("acquire") EXCEPT !.keys = NeedsExtension(c)])
       \/ /\ NumAccounts = 0
          /\ UNCHANGED pool
          /\ Moves(c, [Fresh("policy") EXCEPT !.keys = NeedsExtension(c)])
    /\ UNCHANGED <<onchain, db, run, submissions, faults>>

ChannelResolves(c) ==
    /\ att[c].at = "acquire"
    /\ slot[c] \in Signers
    /\ Moves(c, [att[c] EXCEPT !.at = "budget", !.key = slot[c]])
    /\ UNCHANGED <<onchain, db, run, submissions, faults, pool>>

\* resolveSecretKey returns null for a source without a secret, and for any
\* source whose Vault does not answer.
Unresolved(key) == \/ key \notin Signers /\ UNCHANGED faults
                   \/ Fault

\* The slot goes back at once and the policy's key is tried.
ChannelUnresolved(c) ==
    /\ att[c].at = "acquire"
    /\ slot[c] # NoSlot
    /\ Unresolved(slot[c])
    /\ Pool!Release(c)
    /\ Moves(c, [att[c] EXCEPT !.at = "policy"])
    /\ UNCHANGED <<onchain, db, run, submissions>>

PolicyResolves(c) ==
    /\ att[c].at = "policy"
    /\ PolicyKey[c] \in Signers
    /\ Moves(c, [att[c] EXCEPT !.at = "budget", !.key = PolicyKey[c]])
    /\ UNCHANGED <<onchain, db, run, submissions, faults, pool>>

PolicyUnresolved(c) ==
    /\ att[c].at = "policy"
    /\ Unresolved(PolicyKey[c])
    /\ Moves(c, Fresh("done"))
    /\ UNCHANGED <<onchain, db, run, submissions, pool>>

\* getBudget, before the simulation is awaited.
ReadsBudget(c) ==
    /\ att[c].at = "budget"
    /\ Moves(c, IF TrackedLimit[c] = NoLimit
                THEN [att[c] EXCEPT !.at = "submit"]
                ELSE [att[c] EXCEPT !.at = "simulate", !.seen = spent[c]])
    /\ UNCHANGED <<onchain, db, run, submissions, faults, pool>>

WithinBudget(c, est) == att[c].seen + est <= TrackedLimit[c]

EstimateReplies(c, est) ==
    /\ att[c].at = "simulate"
    /\ \/ /\ WithinBudget(c, est)
          /\ Moves(c, [att[c] EXCEPT !.at = "submit", !.est = est])
          /\ UNCHANGED pool
       \/ /\ ~ WithinBudget(c, est)
          /\ Finishes(c)
    /\ UNCHANGED <<onchain, db, run, submissions>>

Simulates(c) == EstimateReplies(c, Fee) /\ UNCHANGED faults

\* client.simulateExtension reports an error in its result, which
\* simulateExtension does not look at: the estimate is 0.
SimulationFails(c) == EstimateReplies(c, 0) /\ Fault

Submits(c) ==
    /\ att[c].at = "submit"
    /\ submissions' = submissions + 1
    /\ pending' = pending \cup
           {[id |-> submissions', contract |-> c, keys |-> att[c].keys, key |-> att[c].key]}
    /\ Moves(c, [att[c] EXCEPT !.at = "poll", !.hash = submissions'])
    /\ UNCHANGED <<now, until, landed, db, run, faults, pool>>

\* Mutant of SeesSuccess: a transaction without an error counts as successful.
TrustsSend(c) ==
    /\ att[c].at = "poll"
    /\ Moves(c, [att[c] EXCEPT !.at = "record"])
    /\ UNCHANGED <<onchain, db, run, submissions, faults, pool>>

\* pollTransaction sees SUCCESS.
SeesSuccess(c) ==
    /\ att[c].at = "poll"
    /\ \E t \in landed : t.id = att[c].hash
    /\ Moves(c, [att[c] EXCEPT !.at = "record"])
    /\ UNCHANGED <<onchain, db, run, submissions, faults, pool>>

InNoLedger(c) == \A t \in pending \cup landed : t.id # att[c].hash

\* pollTransaction sees FAILED, or polls a lost transaction to the end.
SeesFailure(c) ==
    /\ att[c].at = "poll"
    /\ InNoLedger(c)
    /\ Finishes(c)
    /\ UNCHANGED <<onchain, db, run, submissions, faults>>

\* An await of the attempt rejects: simulation, submission or polling, the 30
\* polls of a transaction that is still pending run out, or getEntryTTLs or the
\* database fails after it landed. Nothing is written.
GivesUp(c) ==
    /\ att[c].at \in {"simulate", "submit", "poll", "record"}
    /\ Fault
    /\ Finishes(c)
    /\ UNCHANGED <<onchain, db, run, submissions>>

Returned(keys) == {e \in keys : until[e] >= now}

Recorded(c) ==
    {[hash |-> att[c].hash, entry |-> e, ledger |-> now] : e \in Returned(att[c].keys)}

KnownAfter(c) ==
    [e \in Entries |-> IF e \in Returned(att[c].keys) THEN until[e] ELSE known[e]]

Charge(c) == IF TrackedLimit[c] # NoLimit THEN att[c].est ELSE 0

\* getEntryTTLs answers: one transaction writes history and entries, then the
\* estimate is charged and the slot returned.
Records(c) ==
    /\ att[c].at = "record"
    /\ history' = history \cup Recorded(c)
    /\ known' = KnownAfter(c)
    /\ spent' = [spent EXCEPT ![c] = @ + Charge(c)]
    /\ Finishes(c)
    /\ UNCHANGED <<onchain, run, submissions, faults>>

-----------------------------------------------------------------------------
Progress(c) ==
    \/ NothingToDo(c) \/ RateLimited(c) \/ AsksForKey(c)
    \/ ChannelResolves(c) \/ ChannelUnresolved(c)
    \/ PolicyResolves(c) \/ PolicyUnresolved(c)
    \/ ReadsBudget(c) \/ Simulates(c) \/ Submits(c)
    \/ SeesSuccess(c) \/ SeesFailure(c) \/ Records(c)

Next ==
    \/ LedgerCloses
    \/ \E t \in pending : Lands(t) \/ IsLost(t)
    \/ StartCycle \/ StartRun \/ RunFails \/ EndRun \/ Crash
    \/ \E c \in Contracts : \/ Checks(c) \/ CheckFails(c)
                            \/ Progress(c) \/ SimulationFails(c) \/ GivesUp(c)

Spec == Init /\ [][Next]_vars

\* setInterval keeps starting cycles, awaited calls settle, and the network
\* takes submitted transactions into ledgers.
FairSpec ==
    /\ Spec
    /\ WF_vars(StartCycle) /\ WF_vars(StartRun) /\ WF_vars(EndRun)
    /\ \A c \in Contracts : WF_vars(Checks(c)) /\ WF_vars(Progress(c))
    /\ WF_vars(\E t \in pending : Lands(t))

-----------------------------------------------------------------------------
(* Properties.                                                              *)

\* extension_history never claims what did not happen: a row is an entry of a
\* transaction that landed for that contract, at or before the recorded ledger,
\* whatever timed out, was lost or crashed.
HistoryIsTrue ==
    \A r \in history : \E t \in landed :
        /\ t.id = r.hash
        /\ r.entry \in t.keys
        /\ t.ledger <= r.ledger

\* The database never overstates a TTL, so no entry that needs an extension
\* looks healthy: rows lag behind the chain, and the chain only extends.
NeverOverstated == \A e \in Entries : known[e] <= until[e]

\* budget_tracking.spent_xlm stays within limit_xlm, although it is read before
\* two awaits and charged after them.
SpentWithinLimit ==
    \A c \in Contracts : TrackedLimit[c] # NoLimit => spent[c] <= TrackedLimit[c]

LandedInLastHour(c) ==
    {t \in landed : t.contract = c /\ t.ledger >= now - Hour}

\* HOURLY_RATE_LIMIT: "Maximum number of auto-extension transactions allowed
\* per contract per hour" (core/extension.ts).
RateLimitHolds ==
    \A c \in Contracts : Cardinality(LandedInLastHour(c)) <= RateLimit

\* The hourly limit holds for transactions, although it is checked several awaits
\* before a row is written, as long as nothing fails and no entry is archived: an
\* extension of archived entries succeeds and leaves no row to count.
UndisturbedRateLimit ==
    faults = 0 /\ (\A e \in Entries : until[e] >= now) => RateLimitHolds

\* Transactions in flight at the same time are signed by different accounts, so
\* they do not collide on a sequence number (core/channels.ts, README).
DistinctSources == \A t, u \in pending : t.key = u.key => t = u

\* The secrets of the channel accounts resolve, or else the policies that are
\* fallen back to name accounts of their own.
KeysApart ==
    \/ NumAccounts > 0 /\ Slots \subseteq Signers
    \/ \A c, d \in Contracts : c # d => PolicyKey[c] \notin Slots \cup {PolicyKey[d]}

\* The pool keeps the accounts apart as long as nothing fails, if the accounts
\* themselves can be told apart.
UndisturbedSources == faults = 0 /\ KeysApart => DistinctSources

\* The monthly limit set with the budget command bounds what extensions of the
\* contract cost (README: "enforce configurable monthly budgets").
BudgetEnforced ==
    \A c \in Contracts : MonthlyLimit[c] # NoLimit =>
        Fee * Cardinality({t \in landed : t.contract = c}) <= MonthlyLimit[c]

Queued == {waiters[j] : j \in DOMAIN waiters}

\* Every way out of an attempt gives its account back exactly once: an attempt
\* that is over, or is left to the key of its policy, holds no account and has
\* no acquire pending; no two hold the same one, and an account is in use only if
\* some attempt still works with it. So whoever waits, waits for an attempt that
\* goes on, and Promise.all of the run resolves (core/extension.ts, finally).
SlotsAreReturned ==
    /\ Pool!SlotsAreSound
    /\ \A c \in Contracts :
           /\ slot[c] # NoSlot =>
                 att[c].at \in {"acquire", "budget", "simulate", "submit", "poll", "record"}
           /\ c \in Queued <=> att[c].at = "acquire" /\ slot[c] = NoSlot

IsLow(e) == until[e] >= now /\ until[e] - now < Below

OutOfBudget(c) == TrackedLimit[c] # NoLimit /\ spent[c] + Fee > TrackedLimit[c]

\* A live entry below the threshold is extended, whatever fails a bounded number
\* of times, unless it is archived first or its contract is at one of its limits.
LowIsExtended ==
    \A e \in Entries :
        IsLow(e) ~> \/ ~ IsLow(e)
                    \/ IsRateLimited(OwnerOf[e])
                    \/ OutOfBudget(OwnerOf[e])

=============================================================================
