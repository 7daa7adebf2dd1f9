--------------------------- MODULE AlertLifecycle ---------------------------
(***************************************************************************)
(* The TTL alert pipeline of the daemon: runMonitorCycle detects threshold  *)
(* crossings and writes them to the alerts_fired table, deliverPendingAlerts *)
(* reads that table back and sends each row to its channel, and recoveries  *)
(* resolve rows and send a best-effort alert_resolved notification.         *)
(*                                                                         *)
(* The code runs on one JavaScript thread, so a step here is the code       *)
(* between two awaits: the RPC call of processContract and the channel.send *)
(* of the dispatcher are the only places where other code interleaves.      *)
(* Cycles is the set of cycle executions that may be in flight at once: one  *)
(* when the re-entrance guard of the daemon loop works, more when stop and   *)
(* start of the loop overlap an unfinished cycle.                           *)
(***************************************************************************)
EXTENDS Integers, Sequences, FiniteSets

CONSTANTS
    Contracts,      \* rows of contracts on the daemon's network
    TableOrder,     \* the order in which getAllContracts returns them
    Entries,        \* rows of contract_entries
    Configs,        \* alert_configs ids (AUTOINCREMENT: never used twice)
    OwnerOf,        \* the contract an entry or a config belongs to
    Threshold,      \* threshold_ledgers of each config
    Cycles,         \* cycle executions that can be in flight together
    MaxTTL,         \* the TTL an extension restores, in ledgers
    MaxRetry,       \* MAX_RETRY_COUNT
    MaxExtends,     \* bound: how often the environment extends an entry
    MaxFaults,      \* bound: how often the process dies or a database write fails
    Moments,        \* the numbers of insertions the abstract queue looks at
    None            \* no send in progress

ASSUME ConstantsAssumption ==
    /\ TableOrder \in Seq(Contracts)
    /\ \A n \in Contracts : \E j \in DOMAIN TableOrder : TableOrder[j] = n
    /\ OwnerOf \in [Entries \cup Configs -> Contracts]
    /\ IsFiniteSet(Cycles)
    /\ MaxTTL \in Nat \ {0}
    /\ Threshold \in [Configs -> 0 .. MaxTTL]
    /\ MaxRetry \in Nat \ {0}
    /\ MaxExtends \in Nat
    /\ MaxFaults \in Nat
    /\ Moments \subseteq Nat

\* A row of alerts_fired is identified by when it was inserted (fired_at, here
\* the number of the handler execution that inserted it), its config and entry.
AlertId == [at : Nat, cfg : Configs, entry : Entries]
AlertRow == [resolved : BOOLEAN, delivered : BOOLEAN, retry : Nat]

ASSUME NoneAssumption == None \notin AlertId

\* remainingTTL of an entry the RPC response does not contain.
Missing == -1

VARIABLES
    ttl,            \* the chain: remaining ledgers of each entry, 0 = archived
    extends,        \* how often some entry was extended
    faults,         \* how often the process died or a database write failed
    configState,    \* alert_configs: which rows exist
    alerts,         \* alerts_fired: AlertId -> AlertRow
    clock,          \* number of handler executions that inserted alerts
    pc,             \* phase of each cycle execution
    work,           \* contracts the cycle still has to check, in order
    resp,           \* the RPC response the cycle is about to process
    todo,           \* rest of the dispatcher's snapshot of pending alerts
    sending,        \* the alert whose channel.send is awaited
    reached,        \* whether that request got to the channel
    received,       \* channel side: threshold_crossed events that arrived
    resolving,      \* alert_resolved notifications in flight
    announced       \* channel side: alert_resolved events that arrived

tables  == <<configState, alerts, clock>>
chain   == <<ttl, extends>>
cycle   == <<pc, work, resp, todo, sending, reached>>
channel == <<received, resolving, announced>>
vars    == <<chain, faults, tables, cycle, channel>>

NoReply == [e \in Entries |-> Missing]

TypeOK ==
    /\ ttl \in [Entries -> 0 .. MaxTTL]
    /\ extends \in Nat
    /\ faults \in Nat
    /\ configState \in [Configs -> {"unused", "live", "removed"}]
    /\ DOMAIN alerts \subseteq AlertId
    /\ alerts \in [DOMAIN alerts -> AlertRow]
    /\ clock \in Nat
    /\ pc \in [Cycles -> {"idle", "monitor", "apply", "deliver"}]
    /\ work \in [Cycles -> Seq(Contracts)]
    /\ resp \in [Cycles -> [Entries -> -1 .. MaxTTL]]
    /\ todo \in [Cycles -> SUBSET AlertId]
    /\ sending \in [Cycles -> AlertId \cup {None}]
    /\ reached \in [Cycles -> BOOLEAN]
    /\ received \subseteq AlertId
    /\ resolving \subseteq AlertId
    /\ announced \subseteq AlertId

Init ==
    /\ ttl \in [Entries -> 1 .. MaxTTL]
    /\ extends = 0
    /\ faults = 0
    /\ configState = [k \in Configs |-> "unused"]
    /\ alerts = [i \in {} |-> FALSE]
    /\ clock = 0
    /\ pc = [c \in Cycles |-> "idle"]
    /\ work = [c \in Cycles |-> << >>]
    /\ resp = [c \in Cycles |-> NoReply]
    /\ todo = [c \in Cycles |-> {}]
    /\ sending = [c \in Cycles |-> None]
    /\ reached = [c \in Cycles |-> FALSE]
    /\ received = {}
    /\ resolving = {}
    /\ announced = {}

-----------------------------------------------------------------------------
(* The chain and the operator.                                              *)

LedgerCloses ==
    /\ \E e \in Entries : ttl[e] > 0
    /\ ttl' = [e \in Entries |-> IF ttl[e] > 0 THEN ttl[e] - 1 ELSE 0]
    /\ UNCHANGED <<extends, faults, tables, cycle, channel>>

EntryExtended(e) ==
    /\ extends < MaxExtends
    /\ ttl[e] < MaxTTL
    /\ ttl' = [ttl EXCEPT ![e] = MaxTTL]
    /\ extends' = extends + 1
    /\ UNCHANGED <<faults, tables, cycle, channel>>

InsertAlertConfig(k) == configState' = [configState EXCEPT ![k] = "live"]

\* The foreign key of alerts_fired cascades.
DeleteAlertConfig(k) ==
    /\ configState' = [configState EXCEPT ![k] = "removed"]
    /\ alerts' = [i \in {j \in DOMAIN alerts : j.cfg # k} |-> alerts[i]]

\* `sorokeep alerts add`: a threshold that is not positive is refused, as is a contract
\* that is not registered.
AddConfig(k) ==
    /\ configState[k] = "unused"
    /\ Threshold[k] > 0
    /\ InsertAlertConfig(k)
    /\ UNCHANGED <<chain, faults, alerts, clock, cycle, channel>>

\* `sorokeep alerts remove`
RemoveConfig(k) ==
    /\ configState[k] = "live"
    /\ DeleteAlertConfig(k)
    /\ UNCHANGED <<chain, faults, clock, cycle, channel>>

-----------------------------------------------------------------------------
(* Detection: runMonitorCycle and processContract.                          *)

StartCycle(c) ==
    /\ pc[c] = "idle"
    /\ pc' = [pc EXCEPT ![c] = "monitor"]
    /\ work' = [work EXCEPT ![c] = TableOrder]
    /\ UNCHANGED <<chain, faults, tables, resp, todo, sending, reached, channel>>

\* What the node may answer for the entries of contract n: it returns every
\* live entry, and may or may not return an archived one.
Replies(n) ==
    {r \in [Entries -> -1 .. MaxTTL] :
        \A e \in Entries :
            IF OwnerOf[e] # n THEN r[e] = Missing
            ELSE r[e] = ttl[e] \/ (ttl[e] = 0 /\ r[e] = Missing)}

\* The node computes its answer; processing it happens later.
RpcReplies(c) ==
    /\ pc[c] = "monitor"
    /\ work[c] # << >>
    /\ \E r \in Replies(Head(work[c])) : resp' = [resp EXCEPT ![c] = r]
    /\ work' = [work EXCEPT ![c] = Tail(@)]
    /\ pc' = [pc EXCEPT ![c] = "apply"]
    /\ UNCHANGED <<chain, faults, tables, todo, sending, reached, channel>>

\* Mutant: the exception of one contract ends the loop over the contracts.
RpcFailureEndsLoop(c) ==
    /\ pc[c] = "monitor"
    /\ work[c] # << >>
    /\ work' = [work EXCEPT ![c] = << >>]
    /\ UNCHANGED <<chain, faults, tables, pc, resp, todo, sending, reached, channel>>

\* getEntryTTLs throws: the contract is skipped, the next one is still checked.
RpcFails(c) ==
    /\ pc[c] = "monitor"
    /\ work[c] # << >>
    /\ work' = [work EXCEPT ![c] = Tail(@)]
    /\ UNCHANGED <<chain, faults, tables, pc, resp, todo, sending, reached, channel>>

\* hasUnresolvedAlert
HasUnresolvedAlert(k, e) ==
    \E i \in DOMAIN alerts : i.cfg = k /\ i.entry = e /\ ~alerts[i].resolved

\* The entries of the response, paired with the live configs of their contract.
Observed(c) ==
    {p \in Configs \X Entries :
        /\ configState[p[1]] = "live"
        /\ OwnerOf[p[1]] = OwnerOf[p[2]]
        /\ resp[c][p[2]] # Missing}

\* Mutant: the comparison includes the threshold itself.
AtOrBelowThreshold(c, k, e) == resp[c][e] <= Threshold[k]

IsBelowThreshold(c, k, e) == resp[c][e] < Threshold[k]

\* Mutant: recordAlertFired without asking hasUnresolvedAlert.
NewAlertsUnchecked(c) ==
    {i \in [at : {clock}, cfg : Configs, entry : Entries] :
        /\ <<i.cfg, i.entry>> \in Observed(c)
        /\ IsBelowThreshold(c, i.cfg, i.entry)}

\* Mutant: the deduplication query forgets "resolved = 0".
NewAlertsOncePerPair(c) ==
    {i \in [at : {clock}, cfg : Configs, entry : Entries] :
        /\ <<i.cfg, i.entry>> \in Observed(c)
        /\ IsBelowThreshold(c, i.cfg, i.entry)
        /\ \A j \in DOMAIN alerts : j.cfg # i.cfg \/ j.entry # i.entry}

\* Rows that recordAlertFired inserts while this response is processed.
NewAlerts(c) ==
    {i \in [at : {clock}, cfg : Configs, entry : Entries] :
        /\ <<i.cfg, i.entry>> \in Observed(c)
        /\ IsBelowThreshold(c, i.cfg, i.entry)
        /\ ~HasUnresolvedAlert(i.cfg, i.entry)}

\* Mutant: resolveAlerts forgets "resolved = 0" and returns old rows again.
RecoveredAlertsAll(c) ==
    {i \in DOMAIN alerts :
        /\ <<i.cfg, i.entry>> \in Observed(c)
        /\ ~IsBelowThreshold(c, i.cfg, i.entry)}

\* Rows that resolveAlerts sets to resolved while it is processed.
RecoveredAlerts(c) ==
    {i \in DOMAIN alerts :
        /\ <<i.cfg, i.entry>> \in Observed(c)
        /\ ~IsBelowThreshold(c, i.cfg, i.entry)
        /\ ~alerts[i].resolved}

\* Mutant: the retry_count column without its DEFAULT 0.
FreshRowNullRetry == [resolved |-> FALSE, delivered |-> FALSE, retry |-> None]

FreshRow == [resolved |-> FALSE, delivered |-> FALSE, retry |-> 0]

\* The loop over entries and configs, as far as it wrote the changes in done.
WriteAlerts(c, done) ==
    LET fired    == NewAlerts(c) \cap done
        resolved == RecoveredAlerts(c) \cap done
    IN  /\ alerts' = [i \in DOMAIN alerts \cup fired |->
                        IF i \in fired THEN FreshRow
                        ELSE IF i \in resolved
                             THEN [alerts[i] EXCEPT !.resolved = TRUE]
                             ELSE alerts[i]]
        /\ clock' = IF fired = {} THEN clock ELSE clock + 1
        /\ resolving' = resolving \cup resolved

EndOfContract(c) ==
    /\ resp' = [resp EXCEPT ![c] = NoReply]
    /\ pc' = [pc EXCEPT ![c] = "monitor"]

\* The part of processContract after its await, for all entries and configs.
ProcessResponse(c) ==
    /\ pc[c] = "apply"
    /\ WriteAlerts(c, NewAlerts(c) \cup RecoveredAlerts(c))
    /\ EndOfContract(c)
    /\ UNCHANGED <<chain, faults, configState, work, todo, sending, reached,
                   received, announced>>

\* A write throws (database locked by a CLI process, foreign key of a config
\* removed by one): what was written stays, the rest of the contract is skipped.
ProcessAborts(c) ==
    /\ pc[c] = "apply"
    /\ faults < MaxFaults
    /\ faults' = faults + 1
    /\ \E done \in SUBSET (NewAlerts(c) \cup RecoveredAlerts(c)) : WriteAlerts(c, done)
    /\ EndOfContract(c)
    /\ UNCHANGED <<chain, configState, work, todo, sending, reached,
                   received, announced>>

-----------------------------------------------------------------------------
(* Delivery: deliverPendingAlerts, deliverSingleAlert and the channels.      *)

\* Mutant: the retry limit is off by one.
UndeliveredAlertsOneMore ==
    {i \in DOMAIN alerts : ~alerts[i].delivered /\ alerts[i].retry <= MaxRetry}

\* Mutant: the query forgets "delivered = 0".
UndeliveredAlertsAny == {i \in DOMAIN alerts : alerts[i].retry < MaxRetry}

\* getUndeliveredAlerts; it does not look at the resolved column.
UndeliveredAlerts ==
    {i \in DOMAIN alerts : ~alerts[i].delivered /\ alerts[i].retry < MaxRetry}

StartDelivery(c) ==
    /\ pc[c] = "monitor"
    /\ work[c] = << >>
    /\ pc' = [pc EXCEPT ![c] = "deliver"]
    /\ todo' = [todo EXCEPT ![c] = UndeliveredAlerts]
    /\ UNCHANGED <<chain, faults, tables, work, resp, sending, reached, channel>>

\* The loop takes the oldest alert of its snapshot (ORDER BY fired_at).
BeginSend(c) ==
    /\ pc[c] = "deliver"
    /\ sending[c] = None
    /\ \E i \in todo[c] :
        /\ \A j \in todo[c] : i.at <= j.at
        /\ todo' = [todo EXCEPT ![c] = @ \ {i}]
        /\ sending' = [sending EXCEPT ![c] = i]
    /\ UNCHANGED <<chain, faults, tables, pc, work, resp, reached, channel>>

\* The channel processes the request; its answer is still on the way.
SendReaches(c) ==
    /\ sending[c] # None
    /\ ~reached[c]
    /\ reached' = [reached EXCEPT ![c] = TRUE]
    /\ received' = received \cup {sending[c]}
    /\ UNCHANGED <<chain, faults, tables, pc, work, resp, todo, sending,
                   resolving, announced>>

MarkDelivered(i) ==
    alerts' = [j \in DOMAIN alerts |->
                 IF j = i THEN [alerts[j] EXCEPT !.delivered = TRUE] ELSE alerts[j]]

IncrementRetry(i) ==
    alerts' = [j \in DOMAIN alerts |->
                 IF j = i THEN [alerts[j] EXCEPT !.retry = @ + 1] ELSE alerts[j]]

SendDone(c) ==
    /\ sending' = [sending EXCEPT ![c] = None]
    /\ reached' = [reached EXCEPT ![c] = FALSE]

\* Mutant: the send is not awaited before markAlertDelivered.
SendNotAwaited(c) ==
    /\ sending[c] # None
    /\ MarkDelivered(sending[c])
    /\ SendDone(c)
    /\ UNCHANGED <<chain, faults, configState, clock, pc, work, resp, todo, channel>>

\* The send resolves: markAlertDelivered.
SendSucceeds(c) ==
    /\ sending[c] # None
    /\ reached[c]
    /\ MarkDelivered(sending[c])
    /\ SendDone(c)
    /\ UNCHANGED <<chain, faults, configState, clock, pc, work, resp, todo, channel>>

\* Mutant: a failed attempt is not counted.
SendFailsUncounted(c) ==
    /\ sending[c] # None
    /\ SendDone(c)
    /\ UNCHANGED <<chain, faults, tables, pc, work, resp, todo, channel>>

\* The send rejects (HTTP error, timeout, lost answer): incrementRetryCount.
SendFails(c) ==
    /\ sending[c] # None
    /\ IncrementRetry(sending[c])
    /\ SendDone(c)
    /\ UNCHANGED <<chain, faults, configState, clock, pc, work, resp, todo, channel>>

\* markAlertDelivered throws: it is inside the try, so it counts as a failure.
MarkFails(c) ==
    /\ sending[c] # None
    /\ reached[c]
    /\ faults < MaxFaults
    /\ faults' = faults + 1
    /\ IncrementRetry(sending[c])
    /\ SendDone(c)
    /\ UNCHANGED <<chain, configState, clock, pc, work, resp, todo, channel>>

\* incrementRetryCount throws: it is inside the catch, so it ends the loop and
\* the delivery phase; executeCycle catches it.
DeliveryThrows(c) ==
    /\ sending[c] # None
    /\ faults < MaxFaults
    /\ faults' = faults + 1
    /\ todo' = [todo EXCEPT ![c] = {}]
    /\ SendDone(c)
    /\ UNCHANGED <<chain, tables, pc, work, resp, channel>>

EndCycle(c) ==
    /\ pc[c] = "deliver"
    /\ todo[c] = {}
    /\ sending[c] = None
    /\ pc' = [pc EXCEPT ![c] = "idle"]
    /\ UNCHANGED <<chain, faults, tables, work, resp, todo, sending, reached, channel>>

\* deliverSingleAlert, fire and forget: one attempt, its failure only logged.
ResolutionArrives(i) ==
    /\ i \in resolving
    /\ resolving' = resolving \ {i}
    /\ announced' = announced \cup {i}
    /\ UNCHANGED <<chain, faults, tables, cycle, received>>

ResolutionLost(i) ==
    /\ i \in resolving
    /\ resolving' = resolving \ {i}
    /\ UNCHANGED <<chain, faults, tables, cycle, received, announced>>

-----------------------------------------------------------------------------
\* SIGINT, SIGTERM or a crash: only the database survives.
Crash ==
    /\ faults < MaxFaults
    /\ \E c \in Cycles : pc[c] # "idle"
    /\ faults' = faults + 1
    /\ pc' = [c \in Cycles |-> "idle"]
    /\ work' = [c \in Cycles |-> << >>]
    /\ resp' = [c \in Cycles |-> NoReply]
    /\ todo' = [c \in Cycles |-> {}]
    /\ sending' = [c \in Cycles |-> None]
    /\ reached' = [c \in Cycles |-> FALSE]
    /\ resolving' = {}
    /\ UNCHANGED <<chain, tables, received, announced>>

Environment ==
    \/ LedgerCloses
    \/ \E e \in Entries : EntryExtended(e)
    \/ \E k \in Configs : AddConfig(k) \/ RemoveConfig(k)
    \/ \E i \in resolving : ResolutionArrives(i) \/ ResolutionLost(i)
    \/ Crash

CycleStep(c) ==
    \/ StartCycle(c)
    \/ RpcReplies(c)
    \/ RpcFails(c)
    \/ ProcessResponse(c)
    \/ ProcessAborts(c)
    \/ StartDelivery(c)
    \/ BeginSend(c)
    \/ SendReaches(c)
    \/ SendSucceeds(c)
    \/ SendFails(c)
    \/ MarkFails(c)
    \/ DeliveryThrows(c)
    \/ EndCycle(c)

Next == Environment \/ \E c \in Cycles : CycleStep(c)

Spec == Init /\ [][Next]_vars

\* The scheduling the code provides: setInterval starts cycles again, every
\* await settles (the HTTP clients time out), and a node that is asked over and
\* over about a contract of S answers some of the requests. Nothing obliges the
\* environment.
FairnessFor(S) ==
    /\ \A c \in Cycles :
        /\ WF_vars(StartCycle(c))
        /\ WF_vars(RpcReplies(c) \/ RpcFails(c))
        /\ WF_vars(ProcessResponse(c))
        /\ WF_vars(StartDelivery(c))
        /\ WF_vars(BeginSend(c))
        /\ WF_vars(SendSucceeds(c) \/ SendFails(c))
        /\ WF_vars(EndCycle(c))
        /\ \A n \in S : SF_vars(work[c] # << >> /\ Head(work[c]) = n /\ RpcReplies(c))

Fairness == FairnessFor(Contracts)

FairSpec == Spec /\ Fairness

-----------------------------------------------------------------------------
(* Properties that hold however many cycles overlap.                        *)

\* Deduplication (ADR-004): an entry/config pair never has two unresolved
\* alerts, although hasUnresolvedAlert and recordAlertFired are two statements
\* and cycles may apply responses out of order.
OneOpenAlert ==
    \A i, j \in DOMAIN alerts :
        (/\ i.cfg = j.cfg
         /\ i.entry = j.entry
         /\ ~alerts[i].resolved
         /\ ~alerts[j].resolved) => i = j

\* A row is marked delivered only if its event got to the channel: a crash
\* between the send and markAlertDelivered duplicates an alert, never loses it.
DeliveredWasReceived ==
    \A i \in DOMAIN alerts : alerts[i].delivered => i \in received

\* Every cycle that took an alert into its snapshot can use at most one attempt
\* on it, so overlapping cycles exceed MAX_RETRY_COUNT by less than their number.
RetryBounded ==
    \A i \in DOMAIN alerts : alerts[i].retry <= MaxRetry + Cardinality(Cycles) - 1

\* An alert_resolved notification exists only for an alert that is resolved, and
\* no alert is announced twice, although nothing in the table records the send.
NoFalseRecovery ==
    /\ resolving \cap announced = {}
    /\ \A i \in DOMAIN alerts : i \in resolving \cup announced => alerts[i].resolved

-----------------------------------------------------------------------------
(* The abstract queue, implemented when cycles do not overlap.               *)

PossibleIds == [at : Moments, cfg : Configs, entry : Entries]

StatusOf(i) ==
    IF i \notin DOMAIN alerts
    THEN IF configState[i.cfg] = "removed" THEN "deleted" ELSE "absent"
    ELSE IF alerts[i].delivered THEN "delivered"
    ELSE IF alerts[i].retry >= MaxRetry THEN "abandoned"
    ELSE "pending"

AttemptsOf(i) == IF i \in DOMAIN alerts THEN alerts[i].retry ELSE 0

QueueStatus == [i \in PossibleIds |-> StatusOf(i)]
QueueAttempts == [i \in PossibleIds |-> AttemptsOf(i)]

Queue == INSTANCE AlertQueue WITH
            Alerts <- PossibleIds,
            status <- QueueStatus,
            attempts <- QueueAttempts,
            arrived <- received

\* The cycle and the dispatcher together implement the abstract queue: what is
\* sent is pending, what is settled stays settled, in particular no alert is
\* both delivered and abandoned, and an abandoned one is not sent again (README,
\* "Alert Lifecycle" and "Retry Policy").
ImplementsQueue == Queue!Spec

-----------------------------------------------------------------------------
(* Liveness.                                                                *)

Open(k, e) == HasUnresolvedAlert(k, e)

\* An entry that stays below the threshold of a live config gets an alert, even
\* if the node is unreachable for a while or the daemon restarts.
BelowIsDetected ==
    \A k \in Configs, e \in Entries :
        OwnerOf[k] = OwnerOf[e] =>
            (configState[k] = "live" /\ ttl[e] \in 1 .. Threshold[k] - 1)
                ~> (Open(k, e) \/ configState[k] = "removed"
                    \/ ttl[e] \notin 1 .. Threshold[k] - 1)

\* An entry that stays above the threshold has its alert resolved.
RecoveryResolves ==
    \A k \in Configs, e \in Entries :
        (Open(k, e) /\ ttl[e] >= Threshold[k])
            ~> (~Open(k, e) \/ ttl[e] < Threshold[k])

\* Every alert in the table is eventually delivered, abandoned or deleted.
FiredSettles ==
    \A i \in PossibleIds :
        (i \in DOMAIN alerts)
            ~> (i \in DOMAIN alerts
                    => alerts[i].delivered \/ alerts[i].retry >= MaxRetry)
=============================================================================
