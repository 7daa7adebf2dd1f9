------------------------ MODULE AlertLifecycle_proofs ------------------------
(* Proofs about AlertLifecycle, for any contracts, configs, thresholds and     *)
(* bounds, and any number of overlapping cycles.                              *)
EXTENDS AlertLifecycle, FiniteSetTheorems, TLAPS

USE DEF vars, chain, tables, cycle, channel

\* The three updates of a row keep it a row.
LEMMA RowUpdates ==
  /\ FreshRow \in AlertRow
  /\ \A r \in AlertRow :
        /\ [r EXCEPT !.resolved = TRUE] \in AlertRow
        /\ [r EXCEPT !.delivered = TRUE] \in AlertRow
        /\ [r EXCEPT !.retry = @ + 1] \in AlertRow
<1>1. FreshRow \in AlertRow
  BY DEF FreshRow, AlertRow
<1>2. ASSUME NEW r \in AlertRow
      PROVE  /\ [r EXCEPT !.resolved = TRUE] \in AlertRow
             /\ [r EXCEPT !.delivered = TRUE] \in AlertRow
  BY DEF AlertRow
<1>3. ASSUME NEW r \in AlertRow
      PROVE  [r EXCEPT !.retry = @ + 1] \in AlertRow
  <2>1. r.retry + 1 \in Nat
    BY DEF AlertRow
  <2> QED
    BY <2>1 DEF AlertRow
<1> QED
  BY <1>1, <1>2, <1>3

\* What a processed response writes: new rows carry the current clock, and the
\* rows it resolves existed.
LEMMA WritesAreIds ==
  ASSUME TypeOK, NEW c \in Cycles
  PROVE  /\ NewAlerts(c) \subseteq AlertId
         /\ RecoveredAlerts(c) \subseteq AlertId
         /\ \A i \in NewAlerts(c) : i.at = clock
BY DEF TypeOK, NewAlerts, RecoveredAlerts, AlertId

\* Every row, response and snapshot keeps its type under every step.
THEOREM TypeCorrect == Spec => []TypeOK
<1> USE ConstantsAssumption
<1>1. Init => TypeOK
  BY DEF Init, TypeOK, NoReply, Missing
<1>2. ASSUME TypeOK, [Next]_vars
      PROVE  TypeOK'
  <2> USE TypeOK DEF TypeOK
  <2>1. CASE LedgerCloses
    BY <2>1 DEF LedgerCloses
  <2>2. ASSUME NEW e \in Entries, EntryExtended(e)
        PROVE  TypeOK'
    BY <2>2 DEF EntryExtended
  <2>3. ASSUME NEW k \in Configs, AddConfig(k)
        PROVE  TypeOK'
    BY <2>3 DEF AddConfig, InsertAlertConfig
  <2>4. ASSUME NEW k \in Configs, RemoveConfig(k)
        PROVE  TypeOK'
    BY <2>4 DEF RemoveConfig, DeleteAlertConfig
  <2>5. ASSUME NEW i \in resolving, ResolutionArrives(i)
        PROVE  TypeOK'
    BY <2>5 DEF ResolutionArrives
  <2>6. ASSUME NEW i \in resolving, ResolutionLost(i)
        PROVE  TypeOK'
    BY <2>6 DEF ResolutionLost
  <2>7. CASE Crash
    BY <2>7 DEF Crash, NoReply, Missing
  <2>8. ASSUME NEW c \in Cycles, CycleStep(c)
        PROVE  TypeOK'
    <3>1. CASE StartCycle(c)
      BY <3>1 DEF StartCycle
    <3>2. CASE RpcReplies(c)
      BY <3>2 DEF RpcReplies, Replies
    <3>3. CASE RpcFails(c)
      BY <3>3 DEF RpcFails
    <3>4. ASSUME NEW done, WriteAlerts(c, done), EndOfContract(c)
          PROVE  /\ DOMAIN alerts' \subseteq AlertId
                 /\ alerts' \in [DOMAIN alerts' -> AlertRow]
                 /\ clock' \in Nat
                 /\ resolving' \subseteq AlertId
                 /\ resp' \in [Cycles -> [Entries -> -1 .. MaxTTL]]
                 /\ pc' \in [Cycles -> {"idle", "monitor", "apply", "deliver"}]
      <4>1. /\ DOMAIN alerts' \subseteq AlertId
            /\ clock' \in Nat
            /\ resolving' \subseteq AlertId
        BY <3>4, WritesAreIds DEF WriteAlerts
      <4>2. alerts' \in [DOMAIN alerts' -> AlertRow]
        BY <3>4, RowUpdates DEF WriteAlerts
      <4>3. NoReply \in [Entries -> -1 .. MaxTTL]
        BY DEF NoReply, Missing
      <4> QED
        BY <3>4, <4>1, <4>2, <4>3 DEF EndOfContract
    <3>5. CASE ProcessResponse(c)
      BY <3>4, <3>5 DEF ProcessResponse
    <3>6. CASE ProcessAborts(c)
      BY <3>4, <3>6 DEF ProcessAborts
    <3>7. CASE StartDelivery(c)
      BY <3>7 DEF StartDelivery, UndeliveredAlerts
    <3>8. CASE BeginSend(c)
      BY <3>8 DEF BeginSend
    <3>9. CASE SendReaches(c)
      BY <3>9 DEF SendReaches
    <3>10. CASE SendSucceeds(c)
      BY <3>10, RowUpdates DEF SendSucceeds, MarkDelivered, SendDone
    <3>11. CASE SendFails(c)
      BY <3>11, RowUpdates DEF SendFails, IncrementRetry, SendDone
    <3>12. CASE MarkFails(c)
      <4>1. /\ DOMAIN alerts' \subseteq AlertId
            /\ alerts' \in [DOMAIN alerts' -> AlertRow]
        BY <3>12, RowUpdates DEF MarkFails, IncrementRetry
      <4> QED
        BY <3>12, <4>1 DEF MarkFails, SendDone
    <3>13. CASE DeliveryThrows(c)
      BY <3>13 DEF DeliveryThrows, SendDone
    <3>14. CASE EndCycle(c)
      BY <3>14 DEF EndCycle
    <3> QED
      BY <2>8, <3>1, <3>2, <3>3, <3>5, <3>6, <3>7, <3>8, <3>9, <3>10, <3>11, <3>12,
         <3>13, <3>14 DEF CycleStep
  <2>9. CASE UNCHANGED vars
    BY <2>9
  <2> QED
    BY <1>2, <2>1, <2>2, <2>3, <2>4, <2>5, <2>6, <2>7, <2>8, <2>9 DEF Next, Environment
<1> QED
  BY <1>1, <1>2, PTL DEF Spec

-----------------------------------------------------------------------------
\* What a step can do to the alerts_fired table.
LEMMA AlertsStep ==
  ASSUME TypeOK, [Next]_vars
  PROVE  \/ UNCHANGED <<alerts, clock>>
         \/ \E k \in Configs : RemoveConfig(k)
         \/ \E c \in Cycles : \E done : WriteAlerts(c, done)
         \/ \E i : (MarkDelivered(i) \/ IncrementRetry(i)) /\ UNCHANGED clock
<1>1. CASE Environment
  BY <1>1 DEF Environment, LedgerCloses, EntryExtended, AddConfig, InsertAlertConfig, ResolutionArrives,
              ResolutionLost, Crash
<1>2. ASSUME NEW c \in Cycles, CycleStep(c)
      PROVE  \/ UNCHANGED <<alerts, clock>>
             \/ \E done : WriteAlerts(c, done)
             \/ \E i : (MarkDelivered(i) \/ IncrementRetry(i)) /\ UNCHANGED clock
  <2>1. CASE ProcessResponse(c) \/ ProcessAborts(c)
    BY <2>1 DEF ProcessResponse, ProcessAborts
  <2>2. CASE SendSucceeds(c) \/ SendFails(c) \/ MarkFails(c)
    BY <2>2 DEF SendSucceeds, SendFails, MarkFails
  <2>3. CASE \/ StartCycle(c) \/ RpcReplies(c) \/ RpcFails(c) \/ StartDelivery(c)
             \/ BeginSend(c) \/ SendReaches(c) \/ DeliveryThrows(c) \/ EndCycle(c)
    BY <2>3 DEF StartCycle, RpcReplies, RpcFails, StartDelivery, BeginSend, SendReaches,
                DeliveryThrows, EndCycle
  <2> QED
    BY <1>2, <2>1, <2>2, <2>3 DEF CycleStep
<1>3. CASE UNCHANGED vars
  BY <1>3
<1> QED
  BY <1>1, <1>2, <1>3 DEF Next

\* Rows are numbered by the handler execution that inserted them, so a row that
\* is about to be inserted differs from every row of the table.
IdsPast == \A i \in DOMAIN alerts : i.at < clock

DedupInv == IdsPast /\ OneOpenAlert

\* The invariant behind Deduplication, used again for the queue.
LEMMA DedupInvHolds == Spec => []DedupInv
<1>1. Init => DedupInv
  BY DEF Init, DedupInv, IdsPast, OneOpenAlert
<1>2. ASSUME TypeOK, DedupInv, [Next]_vars
      PROVE  DedupInv'
  <2> USE TypeOK, DedupInv DEF DedupInv
  <2>1. CASE UNCHANGED <<alerts, clock>>
    BY <2>1 DEF IdsPast, OneOpenAlert
  <2>2. ASSUME NEW k \in Configs, RemoveConfig(k)
        PROVE  DedupInv'
    BY <2>2 DEF RemoveConfig, DeleteAlertConfig, IdsPast, OneOpenAlert
  <2>3. ASSUME NEW c \in Cycles, NEW done, WriteAlerts(c, done)
        PROVE  DedupInv'
    <3> DEFINE fired == NewAlerts(c) \cap done
    <3>1. \A i \in fired : i.at = clock /\ ~HasUnresolvedAlert(i.cfg, i.entry)
      BY WritesAreIds DEF NewAlerts
    <3>2. /\ DOMAIN alerts' = DOMAIN alerts \cup fired
          /\ fired \cap DOMAIN alerts = {}
          /\ fired = {} => clock' = clock
          /\ fired # {} => clock' = clock + 1
      <4>1. ASSUME NEW i \in fired, i \in DOMAIN alerts
            PROVE  FALSE
        <5>1. i.at = clock /\ i.at < clock /\ clock \in Nat
          BY <3>1, <4>1 DEF IdsPast, TypeOK
        <5> QED
          BY <5>1
      <4> QED
        BY <2>3, <4>1 DEF WriteAlerts
    <3>3. IdsPast'
      BY <3>1, <3>2, WritesAreIds DEF IdsPast, TypeOK, AlertId
    <3>4. \A i \in DOMAIN alerts : ~alerts'[i].resolved => ~alerts[i].resolved
      <4> SUFFICES ASSUME NEW i \in DOMAIN alerts, alerts[i].resolved
                   PROVE  alerts'[i].resolved
        OBVIOUS
      <4>1. i \notin fired /\ i \notin RecoveredAlerts(c)
        BY <3>2 DEF RecoveredAlerts
      <4> QED
        BY <2>3, <4>1 DEF WriteAlerts
    <3>5. OneOpenAlert'
      <4> SUFFICES ASSUME NEW i \in DOMAIN alerts', NEW j \in DOMAIN alerts',
                          i.cfg = j.cfg, i.entry = j.entry,
                          ~alerts'[i].resolved, ~alerts'[j].resolved
                   PROVE  i = j
        BY DEF OneOpenAlert
      <4>1. CASE i \in DOMAIN alerts /\ j \in DOMAIN alerts
        BY <4>1, <3>4 DEF OneOpenAlert
      <4>2. CASE i \in fired /\ j \in fired
        BY <4>2 DEF NewAlerts
      <4>3. CASE i \in fired /\ j \in DOMAIN alerts
        BY <4>3, <3>1, <3>4 DEF HasUnresolvedAlert
      <4>4. CASE i \in DOMAIN alerts /\ j \in fired
        BY <4>4, <3>1, <3>4 DEF HasUnresolvedAlert
      <4> QED
        BY <3>2, <4>1, <4>2, <4>3, <4>4
    <3> QED
      BY <3>3, <3>5
  <2>4. ASSUME NEW i, MarkDelivered(i) \/ IncrementRetry(i), UNCHANGED clock
        PROVE  DedupInv'
    <3>1. /\ DOMAIN alerts' = DOMAIN alerts
          /\ \A j \in DOMAIN alerts : alerts'[j].resolved = alerts[j].resolved
      BY <2>4 DEF MarkDelivered, IncrementRetry, TypeOK, AlertRow
    <3> QED
      BY <2>4, <3>1 DEF IdsPast, OneOpenAlert
  <2> QED
    BY <1>2, <2>1, <2>2, <2>3, <2>4, AlertsStep
<1> QED
  BY <1>1, <1>2, TypeCorrect, PTL DEF Spec

\* Deduplication (ADR-004) for any number of overlapping cycles.
THEOREM Deduplication == Spec => []OneOpenAlert
<1>1. DedupInv => OneOpenAlert
  BY DEF DedupInv
<1> QED
  BY <1>1, DedupInvHolds, PTL

-----------------------------------------------------------------------------
\* reached[c] speaks of the request that is in flight, and of nothing else.
InFlight ==
  \A c \in Cycles : reached[c] => sending[c] # None /\ sending[c] \in received

DeliveryInv == InFlight /\ DeliveredWasReceived

\* The invariant behind AtLeastOnce, used again for the queue.
LEMMA DeliveryInvHolds == Spec => []DeliveryInv
<1>1. Init => DeliveryInv
  BY DEF Init, DeliveryInv, InFlight, DeliveredWasReceived
<1>2. ASSUME TypeOK, DeliveryInv, [Next]_vars
      PROVE  DeliveryInv'
  <2> USE TypeOK, DeliveryInv DEF DeliveryInv
  <2>1. ASSUME NEW k \in Configs, RemoveConfig(k)
        PROVE  DeliveryInv'
    BY <2>1 DEF RemoveConfig, DeleteAlertConfig, InFlight, DeliveredWasReceived
  <2>2. CASE Crash
    BY <2>2 DEF Crash, InFlight, DeliveredWasReceived
  <2>3. CASE \/ LedgerCloses
             \/ \E e \in Entries : EntryExtended(e)
             \/ \E k \in Configs : AddConfig(k)
             \/ \E i \in resolving : ResolutionArrives(i) \/ ResolutionLost(i)
             \/ UNCHANGED vars
    BY <2>3 DEF LedgerCloses, EntryExtended, AddConfig, InsertAlertConfig, ResolutionArrives,
                ResolutionLost, InFlight, DeliveredWasReceived
  <2>4. ASSUME NEW c \in Cycles, CycleStep(c)
        PROVE  DeliveryInv'
    <3>1. CASE ProcessResponse(c) \/ ProcessAborts(c)
      <4>1. PICK done : WriteAlerts(c, done)
        BY <3>1 DEF ProcessResponse, ProcessAborts
      <4>2. UNCHANGED <<sending, reached, received>>
        BY <3>1 DEF ProcessResponse, ProcessAborts
      <4>3. ASSUME NEW i \in DOMAIN alerts', alerts'[i].delivered
            PROVE  i \in DOMAIN alerts /\ alerts[i].delivered
        <5>1. i \notin NewAlerts(c) \cap done
          BY <4>1, <4>3 DEF WriteAlerts, FreshRow
        <5> QED
          BY <4>1, <4>3, <5>1 DEF WriteAlerts, TypeOK, AlertRow
      <4> QED
        BY <4>2, <4>3 DEF InFlight, DeliveredWasReceived
    <3>2. CASE SendReaches(c)
      BY <3>2 DEF SendReaches, InFlight, DeliveredWasReceived, TypeOK
    <3>3. CASE SendSucceeds(c)
      <4>1. InFlight'
        BY <3>3 DEF SendSucceeds, SendDone, InFlight, TypeOK
      <4>2. ASSUME NEW i \in DOMAIN alerts', alerts'[i].delivered
            PROVE  i \in received'
        BY <3>3, <4>2 DEF SendSucceeds, MarkDelivered, InFlight, DeliveredWasReceived
      <4> QED
        BY <4>1, <4>2 DEF DeliveredWasReceived
    <3>4. CASE SendFails(c) \/ MarkFails(c)
      <4>1. InFlight'
        BY <3>4 DEF SendFails, MarkFails, SendDone, InFlight, TypeOK
      <4>2. IncrementRetry(sending[c]) /\ received' = received
        BY <3>4 DEF SendFails, MarkFails
      <4>3. ASSUME NEW i \in DOMAIN alerts', alerts'[i].delivered
            PROVE  i \in DOMAIN alerts /\ alerts[i].delivered
        BY <4>2, <4>3 DEF IncrementRetry, TypeOK, AlertRow
      <4> QED
        BY <4>1, <4>2, <4>3 DEF DeliveredWasReceived
    <3>5. CASE DeliveryThrows(c)
      BY <3>5 DEF DeliveryThrows, SendDone, InFlight, DeliveredWasReceived, TypeOK
    <3>6. CASE BeginSend(c)
      BY <3>6 DEF BeginSend, InFlight, DeliveredWasReceived, TypeOK
    <3>7. CASE StartCycle(c) \/ RpcReplies(c) \/ RpcFails(c) \/ StartDelivery(c) \/ EndCycle(c)
      BY <3>7 DEF StartCycle, RpcReplies, RpcFails, StartDelivery, EndCycle, InFlight,
                  DeliveredWasReceived
    <3> QED
      BY <2>4, <3>1, <3>2, <3>3, <3>4, <3>5, <3>6, <3>7 DEF CycleStep
  <2> QED
    BY <1>2, <2>1, <2>2, <2>3, <2>4 DEF Next, Environment
<1> QED
  BY <1>1, <1>2, TypeCorrect, PTL DEF Spec

\* No row is marked delivered whose event never reached the channel.
THEOREM AtLeastOnce == Spec => []DeliveredWasReceived
<1>1. DeliveryInv => DeliveredWasReceived
  BY DEF DeliveryInv
<1> QED
  BY <1>1, DeliveryInvHolds, PTL

-----------------------------------------------------------------------------
\* Announced alerts are old: no later insertion can reuse their identity.
AnnouncedPast == \A i \in resolving \cup announced : i.at < clock

RecoveryInv == IdsPast /\ AnnouncedPast /\ NoFalseRecovery

\* A channel is told of a recovery at most once and only for a resolved alert.
THEOREM RecoverySound == Spec => []NoFalseRecovery
<1>1. Init => RecoveryInv
  BY DEF Init, RecoveryInv, IdsPast, AnnouncedPast, NoFalseRecovery
<1>2. ASSUME TypeOK, RecoveryInv, [Next]_vars
      PROVE  RecoveryInv'
  <2> USE TypeOK, RecoveryInv DEF RecoveryInv
  <2>1. ASSUME NEW c \in Cycles, NEW done, WriteAlerts(c, done), announced' = announced
        PROVE  RecoveryInv'
    <3> DEFINE fired == NewAlerts(c) \cap done
               resolved == RecoveredAlerts(c) \cap done
    <3>1. \A i \in fired : i \in AlertId /\ i.at = clock
      BY WritesAreIds
    <3>2. \A i \in resolved : i \in DOMAIN alerts /\ ~alerts[i].resolved
      BY DEF RecoveredAlerts
    <3>3. /\ DOMAIN alerts' = DOMAIN alerts \cup fired
          /\ resolving' = resolving \cup resolved
          /\ clock' \in {clock, clock + 1}
          /\ fired # {} => clock' = clock + 1
      BY <2>1 DEF WriteAlerts
    <3>4. IdsPast' /\ AnnouncedPast'
      BY <2>1, <3>1, <3>2, <3>3 DEF IdsPast, AnnouncedPast, TypeOK, AlertId
    <3>5. \A i \in fired : i \notin resolving \cup announced \cup DOMAIN alerts
      BY <3>1 DEF IdsPast, AnnouncedPast, TypeOK, AlertId
    <3>6. resolving' \cap announced' = {}
      BY <2>1, <3>2, <3>3 DEF NoFalseRecovery
    <3>7. ASSUME NEW i \in DOMAIN alerts', i \in resolving' \cup announced'
          PROVE  alerts'[i].resolved
      <4>1. i \in DOMAIN alerts /\ i \notin fired
        BY <2>1, <3>2, <3>3, <3>5, <3>7
      <4>2. CASE i \in resolved
        BY <2>1, <4>1, <4>2 DEF WriteAlerts, TypeOK, AlertRow
      <4>3. CASE i \notin resolved
        BY <2>1, <3>3, <3>7, <4>1, <4>3 DEF WriteAlerts, NoFalseRecovery
      <4> QED
        BY <4>2, <4>3
    <3> QED
      BY <3>4, <3>6, <3>7 DEF NoFalseRecovery
  <2>2. ASSUME NEW i, MarkDelivered(i) \/ IncrementRetry(i), UNCHANGED <<clock, channel>>
        PROVE  RecoveryInv'
    <3>1. /\ DOMAIN alerts' = DOMAIN alerts
          /\ \A j \in DOMAIN alerts : alerts'[j].resolved = alerts[j].resolved
      BY <2>2 DEF MarkDelivered, IncrementRetry, TypeOK, AlertRow
    <3> QED
      BY <2>2, <3>1 DEF IdsPast, AnnouncedPast, NoFalseRecovery
  <2>3. CASE UNCHANGED <<alerts, clock, resolving, announced>>
    BY <2>3 DEF IdsPast, AnnouncedPast, NoFalseRecovery
  <2>4. CASE Environment
    <3>1. ASSUME NEW k \in Configs, RemoveConfig(k)
          PROVE  RecoveryInv'
      BY <3>1 DEF RemoveConfig, DeleteAlertConfig, IdsPast, AnnouncedPast, NoFalseRecovery
    <3>2. ASSUME NEW i \in resolving, ResolutionArrives(i)
          PROVE  RecoveryInv'
      BY <3>2 DEF ResolutionArrives, IdsPast, AnnouncedPast, NoFalseRecovery
    <3>3. ASSUME NEW i \in resolving, ResolutionLost(i)
          PROVE  RecoveryInv'
      BY <3>3 DEF ResolutionLost, IdsPast, AnnouncedPast, NoFalseRecovery
    <3>4. CASE Crash
      BY <3>4 DEF Crash, IdsPast, AnnouncedPast, NoFalseRecovery
    <3> QED
      BY <2>3, <2>4, <3>1, <3>2, <3>3, <3>4
         DEF Environment, LedgerCloses, EntryExtended, AddConfig, InsertAlertConfig
  <2>5. ASSUME NEW c \in Cycles, CycleStep(c)
        PROVE  RecoveryInv'
    <3>1. CASE ProcessResponse(c) \/ ProcessAborts(c)
      BY <2>1, <3>1 DEF ProcessResponse, ProcessAborts
    <3>2. CASE SendSucceeds(c) \/ SendFails(c) \/ MarkFails(c)
      BY <2>2, <3>2 DEF SendSucceeds, SendFails, MarkFails
    <3>3. CASE \/ StartCycle(c) \/ RpcReplies(c) \/ RpcFails(c) \/ StartDelivery(c)
               \/ BeginSend(c) \/ SendReaches(c) \/ DeliveryThrows(c) \/ EndCycle(c)
      BY <2>3, <3>3 DEF StartCycle, RpcReplies, RpcFails, StartDelivery, BeginSend,
                        SendReaches, DeliveryThrows, EndCycle
    <3> QED
      BY <2>5, <3>1, <3>2, <3>3 DEF CycleStep
  <2>6. CASE UNCHANGED vars
    BY <2>3, <2>6
  <2> QED
    BY <1>2, <2>4, <2>5, <2>6 DEF Next
<1>3. RecoveryInv => NoFalseRecovery
  BY DEF RecoveryInv
<1> QED
  BY <1>1, <1>2, <1>3, TypeCorrect, PTL DEF Spec

-----------------------------------------------------------------------------
\* The cycles that may still spend an attempt on alert i.
Holders(i) == {c \in Cycles : i \in todo[c] \/ sending[c] = i}

\* An alert leaves the snapshot when its send begins, and sends happen in the
\* delivery phase only.
SnapshotOnce ==
  \A c \in Cycles :
     /\ sending[c] \notin todo[c]
     /\ sending[c] # None => pc[c] = "deliver"

\* Attempts already spent on an alert, plus those that running cycles can spend.
AttemptBudget ==
  \A i \in DOMAIN alerts :
      alerts[i].retry + Cardinality(Holders(i)) <= MaxRetry - 1 + Cardinality(Cycles)

RetryInv == SnapshotOnce /\ AttemptBudget

\* The number of holders is a number, at most the number of cycles.
LEMMA HoldersBound ==
  /\ Cardinality(Cycles) \in Nat
  /\ \A i :
        /\ IsFiniteSet(Holders(i))
        /\ Cardinality(Holders(i)) \in Nat
        /\ Cardinality(Holders(i)) <= Cardinality(Cycles)
<1>1. IsFiniteSet(Cycles) /\ Cardinality(Cycles) \in Nat
  BY ConstantsAssumption, FS_CardinalityType
<1>2. ASSUME NEW i
      PROVE  /\ IsFiniteSet(Holders(i))
             /\ Cardinality(Holders(i)) \in Nat
             /\ Cardinality(Holders(i)) <= Cardinality(Cycles)
  <2>1. Holders(i) \subseteq Cycles
    BY DEF Holders
  <2> QED
    BY <1>1, <2>1, FS_Subset, FS_CardinalityType
<1> QED
  BY <1>1, <1>2

\* A step that gives no cycle a new hold on i, and spends nothing on it,
\* preserves the budget of i.
LEMMA FewerHolders ==
  ASSUME NEW i, Holders(i)' \subseteq Holders(i)
  PROVE  /\ Cardinality(Holders(i)') \in Nat
         /\ Cardinality(Holders(i)') <= Cardinality(Holders(i))
BY HoldersBound, FS_Subset, FS_CardinalityType

LEMMA NextHoldersBound ==
  ASSUME NEW i
  PROVE  /\ Cardinality(Holders(i)') \in Nat
         /\ Cardinality(Holders(i)') <= Cardinality(Cycles)
<1>1. Holders(i)' \subseteq Cycles
  BY DEF Holders
<1> QED
  BY <1>1, ConstantsAssumption, FS_Subset, FS_CardinalityType

\* The budget of one alert after a step.
WithinBudget(i) ==
  alerts[i].retry + Cardinality(Holders(i)) <= MaxRetry - 1 + Cardinality(Cycles)

LEMMA BudgetKept ==
  ASSUME TypeOK, AttemptBudget, NEW i \in DOMAIN alerts,
         alerts'[i].retry = alerts[i].retry, Holders(i)' \subseteq Holders(i)
  PROVE  WithinBudget(i)'
<1>1. alerts[i].retry \in Nat
  BY DEF TypeOK, AlertRow
<1>2. WithinBudget(i)
  BY DEF AttemptBudget, WithinBudget
<1>3. /\ Cardinality(Holders(i)') \in Nat
      /\ Cardinality(Holders(i)') <= Cardinality(Holders(i))
  BY FewerHolders
<1>4. Cardinality(Holders(i)) \in Nat /\ Cardinality(Cycles) \in Nat /\ MaxRetry \in Nat
  BY HoldersBound, ConstantsAssumption
<1>5. WithinBudget(i)' <=> alerts'[i].retry + Cardinality(Holders(i)')
                              <= MaxRetry - 1 + Cardinality(Cycles)
  BY DEF WithinBudget
<1> QED
  BY <1>1, <1>2, <1>3, <1>4, <1>5 DEF WithinBudget

\* The invariant behind RetryCap, used again for the queue.
LEMMA RetryInvHolds == Spec => []RetryInv
<1> USE ConstantsAssumption
<1>1. Init => RetryInv
  <2> SUFFICES ASSUME Init
               PROVE  SnapshotOnce /\ DOMAIN alerts = {}
    BY DEF RetryInv, AttemptBudget
  <2> QED
    BY DEF Init, SnapshotOnce
<1>2. ASSUME TypeOK, RetryInv, [Next]_vars
      PROVE  RetryInv'
  <2> USE TypeOK, RetryInv DEF RetryInv
  <2>1. SUFFICES /\ SnapshotOnce'
                 /\ \A i \in DOMAIN alerts' : WithinBudget(i)'
    BY DEF AttemptBudget, WithinBudget
  <2>2. CASE UNCHANGED <<alerts, pc, todo, sending>>
    BY <2>2, BudgetKept DEF SnapshotOnce, Holders
  <2>3. CASE Environment
    <3>1. ASSUME NEW k \in Configs, RemoveConfig(k)
          PROVE  /\ SnapshotOnce'
                 /\ \A i \in DOMAIN alerts' : WithinBudget(i)'
      BY <3>1, BudgetKept DEF RemoveConfig, DeleteAlertConfig, SnapshotOnce, Holders
    <3>2. CASE Crash
      <4>1. SnapshotOnce'
        BY <3>2 DEF Crash, SnapshotOnce
      <4>2. alerts' = alerts /\ \A i \in DOMAIN alerts : Holders(i)' = {}
        BY <3>2, NoneAssumption DEF Crash, Holders, TypeOK
      <4> QED
        BY <4>1, <4>2, BudgetKept
    <3> QED
      BY <2>2, <2>3, <3>1, <3>2 DEF Environment, LedgerCloses, EntryExtended, AddConfig, InsertAlertConfig,
         ResolutionArrives, ResolutionLost
  <2>4. ASSUME NEW c \in Cycles, CycleStep(c)
        PROVE  /\ SnapshotOnce'
               /\ \A i \in DOMAIN alerts' : WithinBudget(i)'
    <3>1. CASE ProcessResponse(c) \/ ProcessAborts(c)
      <4>1. UNCHANGED <<todo, sending>>
        BY <3>1 DEF ProcessResponse, ProcessAborts
      <4>2. PICK done : WriteAlerts(c, done)
        BY <3>1 DEF ProcessResponse, ProcessAborts
      <4>3. ASSUME NEW i \in DOMAIN alerts'
            PROVE  WithinBudget(i)'
        <5>1. CASE i \in NewAlerts(c) \cap done
          <6>1. alerts'[i].retry = 0
            BY <4>2, <4>3, <5>1 DEF WriteAlerts, FreshRow
          <6> QED
            BY <6>1, NextHoldersBound, HoldersBound DEF WithinBudget
        <5>2. CASE i \notin NewAlerts(c) \cap done
          <6>1. i \in DOMAIN alerts
            BY <4>2, <4>3, <5>2 DEF WriteAlerts
          <6>2. alerts'[i].retry = alerts[i].retry
            BY <4>2, <5>2, <6>1 DEF WriteAlerts, TypeOK, AlertRow
          <6> QED
            BY <4>1, <6>1, <6>2, BudgetKept DEF Holders
        <5> QED
          BY <5>1, <5>2
      <4>4. SnapshotOnce'
        BY <3>1, <4>1 DEF ProcessResponse, ProcessAborts, EndOfContract, SnapshotOnce, TypeOK
      <4> QED
        BY <4>3, <4>4
    <3>2. CASE SendSucceeds(c)
      <4>1. /\ UNCHANGED <<todo, pc>>
            /\ sending' = [sending EXCEPT ![c] = None]
            /\ DOMAIN alerts' = DOMAIN alerts
            /\ \A i \in DOMAIN alerts : alerts'[i].retry = alerts[i].retry
        BY <3>2 DEF SendSucceeds, SendDone, MarkDelivered, TypeOK, AlertRow
      <4>2. SnapshotOnce' /\ \A i \in DOMAIN alerts : Holders(i)' \subseteq Holders(i)
        BY <4>1, NoneAssumption DEF SnapshotOnce, Holders, TypeOK
      <4> QED
        BY <4>1, <4>2, BudgetKept
    <3>3. CASE SendFails(c) \/ MarkFails(c)
      <4>1. /\ UNCHANGED <<todo, pc>>
            /\ sending[c] # None
            /\ sending' = [sending EXCEPT ![c] = None]
            /\ IncrementRetry(sending[c])
        BY <3>3 DEF SendFails, MarkFails, SendDone
      <4>2. /\ DOMAIN alerts' = DOMAIN alerts
            /\ \A i \in DOMAIN alerts :
                 alerts'[i].retry = IF i = sending[c] THEN alerts[i].retry + 1
                                                      ELSE alerts[i].retry
        BY <4>1 DEF IncrementRetry, TypeOK, AlertRow
      <4>3. SnapshotOnce' /\ \A i \in DOMAIN alerts : Holders(i)' \subseteq Holders(i)
        BY <4>1, NoneAssumption DEF SnapshotOnce, Holders, TypeOK
      <4>4. ASSUME NEW i \in DOMAIN alerts, i = sending[c]
            PROVE  WithinBudget(i)'
        <5>1. c \in Holders(i) /\ Holders(i)' \subseteq Holders(i) \ {c}
          <6>1. i \notin todo[c] /\ i # None
            BY <4>1, <4>4 DEF SnapshotOnce
          <6>3. c \in Holders(i)
            BY <4>4 DEF Holders
          <6>2. c \notin Holders(i)'
            BY <4>1, <6>1 DEF Holders, TypeOK
          <6> QED
            BY <4>3, <6>2, <6>3
        <5>2. Cardinality(Holders(i) \ {c}) = Cardinality(Holders(i)) - 1
          BY <5>1, HoldersBound, FS_RemoveElement
        <5>3. Cardinality(Holders(i)') <= Cardinality(Holders(i)) - 1
          BY <5>1, <5>2, HoldersBound, FS_Subset, FS_RemoveElement
        <5>4. WithinBudget(i) /\ alerts[i].retry \in Nat
          BY DEF AttemptBudget, WithinBudget, TypeOK, AlertRow
        <5> QED
          BY <4>2, <4>4, <5>3, <5>4, HoldersBound, NextHoldersBound DEF WithinBudget
      <4> QED
        BY <4>2, <4>3, <4>4, BudgetKept
    <3>4. CASE StartDelivery(c)
      <4>1. /\ UNCHANGED <<alerts, sending>>
            /\ todo' = [todo EXCEPT ![c] = UndeliveredAlerts]
        BY <3>4 DEF StartDelivery
      <4>2. SnapshotOnce'
        BY <3>4, NoneAssumption DEF StartDelivery, SnapshotOnce, UndeliveredAlerts, TypeOK
      <4>3. ASSUME NEW i \in DOMAIN alerts
            PROVE  WithinBudget(i)'
        <5>1. CASE i \in UndeliveredAlerts
          <6>1. alerts'[i].retry <= MaxRetry - 1 /\ alerts'[i].retry \in Nat
            BY <4>1, <5>1 DEF UndeliveredAlerts, TypeOK, AlertRow
          <6> QED
            BY <6>1, NextHoldersBound, HoldersBound DEF WithinBudget
        <5>2. CASE i \notin UndeliveredAlerts
          <6>1. Holders(i)' \subseteq Holders(i)
            BY <4>1, <5>2 DEF Holders, TypeOK
          <6> QED
            BY <4>1, <6>1, BudgetKept
        <5> QED
          BY <5>1, <5>2
      <4> QED
        BY <4>1, <4>2, <4>3
    <3>5. CASE BeginSend(c)
      <4>1. PICK i \in todo[c] : /\ todo' = [todo EXCEPT ![c] = @ \ {i}]
                                 /\ sending' = [sending EXCEPT ![c] = i]
                                 /\ UNCHANGED <<alerts, pc>>
        BY <3>5 DEF BeginSend
      <4>2. SnapshotOnce' /\ \A j \in DOMAIN alerts : Holders(j)' \subseteq Holders(j)
        BY <3>5, <4>1 DEF BeginSend, SnapshotOnce, Holders, TypeOK
      <4> QED
        BY <4>1, <4>2, BudgetKept
    <3>6. CASE DeliveryThrows(c)
      <4>1. /\ todo' = [todo EXCEPT ![c] = {}]
            /\ sending' = [sending EXCEPT ![c] = None]
            /\ UNCHANGED <<alerts, pc>>
        BY <3>6 DEF DeliveryThrows, SendDone
      <4>2. SnapshotOnce' /\ \A j \in DOMAIN alerts : Holders(j)' \subseteq Holders(j)
        BY <4>1, NoneAssumption DEF SnapshotOnce, Holders, TypeOK
      <4> QED
        BY <4>1, <4>2, BudgetKept
    <3>7. CASE StartCycle(c) \/ RpcReplies(c) \/ RpcFails(c) \/ SendReaches(c) \/ EndCycle(c)
      <4>1. UNCHANGED <<alerts, todo, sending>>
        BY <3>7 DEF StartCycle, RpcReplies, RpcFails, SendReaches, EndCycle
      <4>2. SnapshotOnce'
        BY <3>7, <4>1 DEF StartCycle, RpcReplies, RpcFails, SendReaches, EndCycle,
                          SnapshotOnce, TypeOK
      <4> QED
        BY <4>1, <4>2, BudgetKept DEF Holders
    <3> QED
      BY <2>4, <3>1, <3>2, <3>3, <3>4, <3>5, <3>6, <3>7 DEF CycleStep
  <2> QED
    BY <1>2, <2>2, <2>3, <2>4 DEF Next
<1> QED
  BY <1>1, <1>2, TypeCorrect, PTL DEF Spec

\* Overlapping cycles spend fewer than Cardinality(Cycles) attempts too many.
THEOREM RetryCap == Spec => []RetryBounded
<1>1. TypeOK /\ RetryInv => RetryBounded
  <2> SUFFICES ASSUME TypeOK, RetryInv, NEW i \in DOMAIN alerts
               PROVE  alerts[i].retry <= MaxRetry + Cardinality(Cycles) - 1
    BY DEF RetryBounded
  <2>1. alerts[i].retry \in Nat /\ WithinBudget(i)
    BY DEF RetryInv, AttemptBudget, WithinBudget, TypeOK, AlertRow
  <2> QED
    BY <2>1, HoldersBound, ConstantsAssumption DEF WithinBudget
<1> QED
  BY <1>1, RetryInvHolds, TypeCorrect, PTL

-----------------------------------------------------------------------------
(* One cycle at a time implements the abstract queue. What the dispatcher took  *)
(* into its snapshot is still pending when its turn comes, unless its config    *)
(* was removed; with a second cycle it might have been settled meanwhile.       *)

Taken(c) == todo[c] \cup ({sending[c]} \ {None})

Sendable(i) ==
  IF i \in DOMAIN alerts THEN ~ alerts[i].delivered /\ alerts[i].retry < MaxRetry
  ELSE configState[i.cfg] = "removed"

RowsAreLive == \A i \in DOMAIN alerts : configState[i.cfg] = "live"

TakenIsSendable == \A c \in Cycles : \A i \in Taken(c) : Sendable(i)

QueueInv == RowsAreLive /\ TakenIsSendable

\* One cycle at a time.
Alone == \A c, d \in Cycles : c = d

\* What a row that exists is made of.
LEMMA RowTypes ==
  ASSUME TypeOK
  PROVE  \A i \in DOMAIN alerts : /\ i \in AlertId /\ alerts[i] \in AlertRow
                                  /\ alerts[i].retry \in Nat /\ alerts[i].delivered \in BOOLEAN
<1>1. \A i \in DOMAIN alerts : i \in AlertId /\ alerts[i] \in AlertRow
  BY DEF TypeOK
<1>2. \A r \in AlertRow : r.retry \in Nat /\ r.delivered \in BOOLEAN
  BY DEF AlertRow
<1> QED
  BY <1>1, <1>2

\* What a processed response does to the rows, as far as the queue sees it.
LEMMA WrittenRows ==
  ASSUME TypeOK, IdsPast, NEW c \in Cycles, NEW done, WriteAlerts(c, done)
  PROVE  LET fired == NewAlerts(c) \cap done IN
         /\ DOMAIN alerts' = DOMAIN alerts \cup fired
         /\ \A i \in fired : /\ i \notin DOMAIN alerts /\ i \in AlertId
                             /\ configState[i.cfg] = "live"
                             /\ ~ alerts'[i].delivered /\ alerts'[i].retry = 0
         /\ \A i \in DOMAIN alerts : /\ alerts'[i].delivered = alerts[i].delivered
                                     /\ alerts'[i].retry = alerts[i].retry
<1> DEFINE fired == NewAlerts(c) \cap done
           resolved == RecoveredAlerts(c) \cap done
<1>1. \A i \in fired : i \in AlertId /\ i.at = clock /\ configState[i.cfg] = "live"
  <2>1. \A i \in fired : configState[i.cfg] = "live"
    BY DEF NewAlerts, Observed
  <2> QED
    BY <2>1, WritesAreIds
<1>2. fired \cap DOMAIN alerts = {}
  <2>1. \A i \in DOMAIN alerts : i.at < clock /\ i.at # clock
    BY RowTypes DEF IdsPast, TypeOK, AlertId
  <2> QED
    BY <1>1, <2>1
<1>3. alerts' = [i \in DOMAIN alerts \cup fired |->
                   IF i \in fired THEN FreshRow
                   ELSE IF i \in resolved THEN [alerts[i] EXCEPT !.resolved = TRUE]
                   ELSE alerts[i]]
  BY DEF WriteAlerts
<1> HIDE DEF fired, resolved
<1>4. \A i \in fired : ~ alerts'[i].delivered /\ alerts'[i].retry = 0
  BY <1>3 DEF FreshRow
<1>5. \A r \in AlertRow : LET s == [r EXCEPT !.resolved = TRUE]
                          IN  s.delivered = r.delivered /\ s.retry = r.retry
  BY DEF AlertRow
<1>6. \A i \in DOMAIN alerts : /\ alerts'[i].delivered = alerts[i].delivered
                               /\ alerts'[i].retry = alerts[i].retry
  BY <1>2, <1>3, <1>5, RowTypes
<1>7. /\ DOMAIN alerts' = DOMAIN alerts \cup fired
      /\ \A i \in fired : /\ i \notin DOMAIN alerts /\ i \in AlertId
                          /\ configState[i.cfg] = "live"
                          /\ ~ alerts'[i].delivered /\ alerts'[i].retry = 0
  BY <1>1, <1>2, <1>3, <1>4
<1> QED
  BY <1>6, <1>7 DEF fired

\* What recording the outcome of a request does to the rows.
LEMMA SentRow ==
  ASSUME TypeOK, NEW i
  PROVE  /\ MarkDelivered(i) =>
                /\ DOMAIN alerts' = DOMAIN alerts
                /\ \A j \in DOMAIN alerts : j # i => alerts'[j] = alerts[j]
                /\ i \in DOMAIN alerts => alerts'[i].delivered /\ alerts'[i].retry = alerts[i].retry
         /\ IncrementRetry(i) =>
                /\ DOMAIN alerts' = DOMAIN alerts
                /\ \A j \in DOMAIN alerts : j # i => alerts'[j] = alerts[j]
                /\ i \in DOMAIN alerts => /\ alerts'[i].delivered = alerts[i].delivered
                                          /\ alerts'[i].retry = alerts[i].retry + 1
<1>1. \A r \in AlertRow : LET s == [r EXCEPT !.delivered = TRUE]
                          IN  s.delivered /\ s.retry = r.retry
  BY DEF AlertRow
<1>2. \A r \in AlertRow : LET s == [r EXCEPT !.retry = @ + 1]
                          IN  s.delivered = r.delivered /\ s.retry = r.retry + 1
  BY DEF AlertRow
<1> QED
  BY <1>1, <1>2, RowTypes DEF MarkDelivered, IncrementRetry

\* Nothing is stored and nothing is taken at the start.
LEMMA QueueInit == Init => QueueInv
<1> SUFFICES ASSUME Init PROVE RowsAreLive /\ TakenIsSendable
  BY DEF QueueInv
<1>1. DOMAIN alerts = {}
  BY DEF Init
<1>2. \A c \in Cycles : Taken(c) = {}
  BY DEF Init, Taken
<1> QED
  BY <1>1, <1>2 DEF RowsAreLive, TakenIsSendable

\* A step that leaves the tables alone.
LEMMA TablesAlone ==
  ASSUME UNCHANGED <<alerts, configState>>, QueueInv,
         \A c \in Cycles : \A i \in Taken(c)' : Sendable(i)
  PROVE  QueueInv'
<1>1. \A i : Sendable(i)' = Sendable(i)
  BY DEF Sendable
<1> QED
  BY <1>1 DEF QueueInv, RowsAreLive, TakenIsSendable

\* With one cycle, nobody settles an alert the dispatcher still holds; removing its
\* config deletes the row, and no new row can take its place.
LEMMA QueueInvStep ==
  ASSUME ConstantsAssumption, Alone, TypeOK, DedupInv, RetryInv, QueueInv, [Next]_vars
  PROVE  QueueInv'
<1> USE DEF QueueInv
<1>1. CASE UNCHANGED <<alerts, configState, todo, sending>>
  <2>1. \A c : Taken(c)' = Taken(c)
    BY <1>1 DEF Taken
  <2> QED
    BY <1>1, <2>1, TablesAlone DEF TakenIsSendable
<1>2. CASE Environment
  <2>1. ASSUME NEW k \in Configs, AddConfig(k)
        PROVE  QueueInv'
    <3>1. /\ UNCHANGED <<alerts, todo, sending>> /\ configState[k] = "unused"
          /\ configState' = [configState EXCEPT ![k] = "live"]
      BY <2>1 DEF AddConfig, InsertAlertConfig
    <3>2. \A i : Sendable(i) => Sendable(i)'
      BY <3>1 DEF Sendable, TypeOK
    <3>3. RowsAreLive'
      BY <3>1, RowTypes DEF RowsAreLive, TypeOK
    <3>4. \A c : Taken(c)' = Taken(c)
      BY <3>1 DEF Taken
    <3> QED
      BY <3>2, <3>3, <3>4 DEF TakenIsSendable
  <2>2. ASSUME NEW k \in Configs, RemoveConfig(k)
        PROVE  QueueInv'
    <3>1. /\ UNCHANGED <<todo, sending>>
          /\ configState' = [configState EXCEPT ![k] = "removed"]
          /\ alerts' = [i \in {j \in DOMAIN alerts : j.cfg # k} |-> alerts[i]]
      BY <2>2 DEF RemoveConfig, DeleteAlertConfig
    <3>2. RowsAreLive'
      BY <3>1 DEF RowsAreLive, TypeOK
    <3>3. \A i \in AlertId : Sendable(i) => Sendable(i)'
      <4> SUFFICES ASSUME NEW i \in AlertId, Sendable(i) PROVE Sendable(i)'
        OBVIOUS
      <4>1. CASE i \in DOMAIN alerts /\ i.cfg # k
        <5>1. i \in DOMAIN alerts' /\ alerts'[i] = alerts[i]
          BY <3>1, <4>1
        <5> QED
          BY <4>1, <5>1 DEF Sendable
      <4>2. CASE i.cfg = k
        <5>1. i \notin DOMAIN alerts' /\ configState'[i.cfg] = "removed"
          BY <3>1, <4>2 DEF TypeOK
        <5> QED
          BY <5>1 DEF Sendable
      <4>3. CASE i \notin DOMAIN alerts /\ i.cfg # k
        <5>1. i \notin DOMAIN alerts' /\ configState'[i.cfg] = configState[i.cfg]
          BY <3>1, <4>3 DEF TypeOK
        <5> QED
          BY <4>3, <5>1 DEF Sendable
      <4> QED
        BY <4>1, <4>2, <4>3
    <3>4. \A c \in Cycles : Taken(c)' = Taken(c) /\ Taken(c) \subseteq AlertId
      BY <3>1 DEF Taken, TypeOK
    <3> QED
      BY <3>2, <3>3, <3>4 DEF TakenIsSendable
  <2>3. CASE Crash
    <3>1. UNCHANGED <<alerts, configState>> /\ \A c \in Cycles : Taken(c)' = {}
      BY <2>3 DEF Crash, Taken
    <3> QED
      BY <3>1, TablesAlone
  <2> QED
    BY <1>1, <1>2, <2>1, <2>2, <2>3 DEF Environment, LedgerCloses, EntryExtended, ResolutionArrives,
       ResolutionLost
<1>3. ASSUME NEW c \in Cycles, CycleStep(c)
      PROVE  QueueInv'
  <2>0. \A d \in Cycles : d = c
    BY DEF Alone
  <2>1. CASE ProcessResponse(c) \/ ProcessAborts(c)
    <3>1. PICK done : WriteAlerts(c, done)
      BY <2>1 DEF ProcessResponse, ProcessAborts
    <3>2. UNCHANGED <<configState, todo, sending>>
      BY <2>1 DEF ProcessResponse, ProcessAborts
    <3>3. \A i : Sendable(i) => Sendable(i)'
      <4> SUFFICES ASSUME NEW i, Sendable(i) PROVE Sendable(i)'
        OBVIOUS
      <4>1. CASE i \in DOMAIN alerts
        <5>1. /\ i \in DOMAIN alerts' /\ alerts'[i].retry = alerts[i].retry
              /\ alerts'[i].delivered = alerts[i].delivered
          BY <3>1, <4>1, WrittenRows DEF DedupInv
        <5> QED
          BY <4>1, <5>1 DEF Sendable
      <4>2. CASE i \notin DOMAIN alerts
        <5>1. i \notin DOMAIN alerts'
          BY <3>1, <4>2, WrittenRows DEF Sendable, DedupInv
        <5> QED
          BY <3>2, <4>2, <5>1 DEF Sendable
      <4> QED
        BY <4>1, <4>2
    <3>4. RowsAreLive'
      BY <3>1, <3>2, WrittenRows DEF RowsAreLive, DedupInv
    <3>5. \A d : Taken(d)' = Taken(d)
      BY <3>2 DEF Taken
    <3> QED
      BY <3>3, <3>4, <3>5 DEF TakenIsSendable
  <2>2. CASE SendSucceeds(c) \/ SendFails(c) \/ MarkFails(c)
    <3>1. /\ MarkDelivered(sending[c]) \/ IncrementRetry(sending[c])
          /\ sending' = [sending EXCEPT ![c] = None] /\ UNCHANGED <<todo, configState>>
      BY <2>2 DEF SendSucceeds, SendFails, MarkFails, SendDone
    <3>2. DOMAIN alerts' = DOMAIN alerts /\ \A j \in DOMAIN alerts : j # sending[c] => alerts'[j] = alerts[j]
      BY <3>1, SentRow
    <3>3. RowsAreLive'
      BY <3>1, <3>2 DEF RowsAreLive
    <3>4. Taken(c)' \subseteq Taken(c) \ {sending[c]}
      BY <3>1 DEF Taken, TypeOK, RetryInv, SnapshotOnce
    <3>5. \A i : i # sending[c] /\ Sendable(i) => Sendable(i)'
      BY <3>1, <3>2 DEF Sendable
    <3>6. \A i \in Taken(c)' : Sendable(i)'
      BY <3>4, <3>5 DEF TakenIsSendable
    <3> QED
      BY <2>0, <3>3, <3>6 DEF TakenIsSendable
  <2>3. CASE StartDelivery(c)
    <3>1. /\ UNCHANGED <<alerts, configState, sending>> /\ pc[c] = "monitor"
          /\ todo' = [todo EXCEPT ![c] = UndeliveredAlerts]
      BY <2>3 DEF StartDelivery
    <3>2. sending[c] = None
      BY <3>1 DEF RetryInv, SnapshotOnce
    <3>3. Taken(c)' = UndeliveredAlerts
      BY <3>1, <3>2 DEF Taken, TypeOK
    <3>4. \A i \in Taken(c)' : Sendable(i)
      BY <3>3 DEF UndeliveredAlerts, Sendable
    <3> QED
      BY <2>0, <3>1, <3>4, TablesAlone
  <2>4. CASE BeginSend(c) \/ DeliveryThrows(c)
    <3>1. UNCHANGED <<alerts, configState>>
      BY <2>4 DEF BeginSend, DeliveryThrows
    <3>2. Taken(c)' \subseteq Taken(c)
      BY <2>4 DEF BeginSend, DeliveryThrows, SendDone, Taken, TypeOK
    <3> QED
      BY <2>0, <3>1, <3>2, TablesAlone DEF TakenIsSendable
  <2>5. CASE StartCycle(c) \/ RpcReplies(c) \/ RpcFails(c) \/ SendReaches(c) \/ EndCycle(c)
    BY <1>1, <2>5 DEF StartCycle, RpcReplies, RpcFails, SendReaches, EndCycle
  <2> QED
    BY <1>3, <2>1, <2>2, <2>3, <2>4, <2>5 DEF CycleStep
<1>4. CASE UNCHANGED vars
  BY <1>1, <1>4
<1> QED
  BY <1>2, <1>3, <1>4 DEF Next

\* A step after which every row looks to the queue as before.
LEMMA QueueSees ==
  ASSUME NEW S, NEW to,
         \A i \in PossibleIds : StatusOf(i)' = IF i \in S THEN to ELSE StatusOf(i)
  PROVE  Queue!Move(S, to)
<1>1. QueueStatus' = [i \in PossibleIds |-> IF i \in S THEN to ELSE StatusOf(i)]
  BY DEF QueueStatus, PossibleIds
<1>2. \A i \in PossibleIds : QueueStatus[i] = StatusOf(i)
  BY DEF QueueStatus
<1> QED
  BY <1>1, <1>2 DEF Queue!Move

\* The attempts of every alert unchanged, the queue's attempts are unchanged.
LEMMA SameAttempts ==
  ASSUME \A i \in PossibleIds : AttemptsOf(i)' = AttemptsOf(i)
  PROVE  QueueAttempts' = QueueAttempts
BY DEF QueueAttempts, PossibleIds

\* The status of every alert unchanged, the queue's status is unchanged.
LEMMA SameStatus ==
  ASSUME \A i \in PossibleIds : StatusOf(i)' = StatusOf(i)
  PROVE  QueueStatus' = QueueStatus
BY DEF QueueStatus, PossibleIds

\* The queue reads nothing but the rows and the configs.
LEMMA QueueUnmoved ==
  ASSUME UNCHANGED <<alerts, configState>>
  PROVE  QueueStatus' = QueueStatus /\ QueueAttempts' = QueueAttempts
<1>1. \A i \in PossibleIds : StatusOf(i)' = StatusOf(i) /\ AttemptsOf(i)' = AttemptsOf(i)
  BY DEF StatusOf, AttemptsOf
<1> QED
  BY <1>1, SameStatus, SameAttempts

\* Each step of the cycle, the operator and the chain is a step of the queue or none.
LEMMA StepIsQueueStep ==
  ASSUME ConstantsAssumption, NoneAssumption, Moments = Nat, Alone,
         TypeOK, DedupInv, DeliveryInv, RetryInv, QueueInv, [Next]_vars
  PROVE  [Queue!Next]_(Queue!queueVars)
<1> USE DEF Queue!queueVars, Queue!Next
<1>0. PossibleIds = AlertId /\ MaxRetry \in Nat \ {0}
  BY DEF PossibleIds, AlertId, ConstantsAssumption
<1>1. CASE UNCHANGED <<alerts, configState, received>>
  BY <1>1, QueueUnmoved
<1>2. ASSUME NEW k \in Configs, AddConfig(k)
      PROVE  UNCHANGED Queue!queueVars
  <2>1. /\ UNCHANGED <<alerts, received>> /\ configState[k] = "unused"
        /\ configState' = [configState EXCEPT ![k] = "live"]
    BY <1>2 DEF AddConfig, InsertAlertConfig
  <2>2. \A i \in PossibleIds : StatusOf(i)' = StatusOf(i) /\ AttemptsOf(i)' = AttemptsOf(i)
    BY <1>0, <2>1 DEF StatusOf, AttemptsOf, TypeOK, AlertId
  <2> QED
    BY <2>1, <2>2, SameStatus, SameAttempts
<1>3. ASSUME NEW k \in Configs, RemoveConfig(k)
      PROVE  \E S \in SUBSET PossibleIds : Queue!Delete(S)
  <2> DEFINE S == {i \in PossibleIds : i.cfg = k}
  <2>1. /\ UNCHANGED received
        /\ configState' = [configState EXCEPT ![k] = "removed"]
        /\ alerts' = [i \in {j \in DOMAIN alerts : j.cfg # k} |-> alerts[i]]
    BY <1>3 DEF RemoveConfig, DeleteAlertConfig
  <2>2. ASSUME NEW i \in PossibleIds
        PROVE  /\ StatusOf(i)' = IF i \in S THEN "deleted" ELSE StatusOf(i)
               /\ AttemptsOf(i)' = IF i \in S THEN 0 ELSE AttemptsOf(i)
    <3>0. i.cfg \in Configs
      BY <1>0 DEF AlertId
    <3>1. CASE i.cfg = k
      <4>1. i \notin DOMAIN alerts' /\ configState'[i.cfg] = "removed"
        BY <2>1, <3>1 DEF TypeOK
      <4> QED
        BY <3>1, <4>1 DEF StatusOf, AttemptsOf
    <3>2. CASE i.cfg # k
      <4>1. /\ i \in DOMAIN alerts' <=> i \in DOMAIN alerts
            /\ i \in DOMAIN alerts => alerts'[i] = alerts[i]
            /\ configState'[i.cfg] = configState[i.cfg]
        BY <2>1, <3>0, <3>2 DEF TypeOK
      <4> QED
        BY <3>2, <4>1 DEF StatusOf, AttemptsOf
    <3> QED
      BY <3>1, <3>2
  <2>3. S \in SUBSET PossibleIds
    OBVIOUS
  <2> HIDE DEF S
  <2>4. Queue!Move(S, "deleted")
    BY <2>2, QueueSees
  <2>5. QueueAttempts' = [i \in PossibleIds |-> IF i \in S THEN 0 ELSE QueueAttempts[i]]
    <3>1. QueueAttempts' = [i \in PossibleIds |-> IF i \in S THEN 0 ELSE AttemptsOf(i)]
      BY <2>2 DEF QueueAttempts, PossibleIds
    <3>2. \A i \in PossibleIds : QueueAttempts[i] = AttemptsOf(i)
      BY DEF QueueAttempts
    <3> QED
      BY <3>1, <3>2
  <2> QED
    BY <2>1, <2>3, <2>4, <2>5 DEF Queue!Delete
<1>4. ASSUME NEW c \in Cycles, NEW done, WriteAlerts(c, done), UNCHANGED <<configState, received>>
      PROVE  \E S \in SUBSET PossibleIds : Queue!Fire(S)
  <2> DEFINE S == NewAlerts(c) \cap done
  <2>1. /\ DOMAIN alerts' = DOMAIN alerts \cup S
        /\ \A i \in S : /\ i \notin DOMAIN alerts /\ i \in AlertId
                        /\ configState[i.cfg] = "live"
                        /\ ~ alerts'[i].delivered /\ alerts'[i].retry = 0
        /\ \A i \in DOMAIN alerts : /\ alerts'[i].delivered = alerts[i].delivered
                                    /\ alerts'[i].retry = alerts[i].retry
    BY <1>4, WrittenRows DEF DedupInv
  <2> HIDE DEF S
  <2>2. \A i \in PossibleIds : /\ StatusOf(i)' = IF i \in S THEN "pending" ELSE StatusOf(i)
                               /\ AttemptsOf(i)' = AttemptsOf(i)
    <3> SUFFICES ASSUME NEW i \in PossibleIds
                 PROVE  /\ StatusOf(i)' = IF i \in S THEN "pending" ELSE StatusOf(i)
                        /\ AttemptsOf(i)' = AttemptsOf(i)
      OBVIOUS
    <3>1. CASE i \in S
      <4>1. i \in DOMAIN alerts' /\ i \notin DOMAIN alerts /\ ~ alerts'[i].delivered /\ alerts'[i].retry = 0
        BY <2>1, <3>1
      <4> QED
        BY <1>0, <3>1, <4>1 DEF StatusOf, AttemptsOf
    <3>2. CASE i \notin S
      <4>1. /\ i \in DOMAIN alerts' <=> i \in DOMAIN alerts
            /\ i \in DOMAIN alerts => /\ alerts'[i].delivered = alerts[i].delivered
                                      /\ alerts'[i].retry = alerts[i].retry
        BY <2>1, <3>2
      <4> QED
        BY <1>4, <3>2, <4>1 DEF StatusOf, AttemptsOf
    <3> QED
      BY <3>1, <3>2
  <2>3. \A i \in S : QueueStatus[i] = "absent"
    BY <1>0, <2>1 DEF QueueStatus, StatusOf
  <2>4. S \in SUBSET PossibleIds
    BY <1>0, <2>1
  <2> QED
    BY <1>4, <2>2, <2>3, <2>4, QueueSees, SameAttempts DEF Queue!Fire
<1>5. ASSUME NEW c \in Cycles, SendReaches(c)
      PROVE  \E i \in PossibleIds : Queue!Arrive(i)
  <2> DEFINE i == sending[c]
  <2>1. /\ i # None /\ received' = received \cup {i} /\ UNCHANGED <<alerts, configState>>
    BY <1>5 DEF SendReaches
  <2>2. i \in PossibleIds /\ Sendable(i)
    BY <1>0, <2>1 DEF TypeOK, QueueInv, TakenIsSendable, Taken
  <2> HIDE DEF i
  <2>3. QueueStatus[i] = StatusOf(i) /\ StatusOf(i) \in {"pending", "deleted"}
    <3>1. QueueStatus[i] = StatusOf(i)
      BY <2>2 DEF QueueStatus
    <3>2. CASE i \in DOMAIN alerts
      <4>1. ~ alerts[i].delivered /\ alerts[i].retry < MaxRetry /\ alerts[i].retry \in Nat
        BY <2>2, <3>2, RowTypes DEF Sendable
      <4> QED
        BY <1>0, <3>1, <3>2, <4>1 DEF StatusOf
    <3>3. CASE i \notin DOMAIN alerts
      BY <2>2, <3>1, <3>3 DEF StatusOf, Sendable
    <3> QED
      BY <3>2, <3>3
  <2> QED
    BY <2>1, <2>2, <2>3, QueueUnmoved DEF Queue!Arrive
<1>6. ASSUME NEW c \in Cycles, sending[c] # None, UNCHANGED <<configState, received>>,
             \/ MarkDelivered(sending[c]) /\ reached[c]
             \/ IncrementRetry(sending[c])
      PROVE  \/ UNCHANGED Queue!queueVars
             \/ \E i \in PossibleIds : Queue!Succeed(i) \/ Queue!Fail(i)
  <2>0. PICK i : i = sending[c]
    OBVIOUS
  <2>1. i \in PossibleIds /\ Sendable(i)
    BY <1>0, <1>6, <2>0 DEF TypeOK, QueueInv, TakenIsSendable, Taken
  <2>2. reached[c] => i \in received
    BY <2>0 DEF DeliveryInv, InFlight
  <2>3. (MarkDelivered(i) /\ reached[c]) \/ IncrementRetry(i)
    BY <1>6, <2>0
  <2>4. DOMAIN alerts' = DOMAIN alerts /\ \A j \in DOMAIN alerts : j # i => alerts'[j] = alerts[j]
    BY <2>3, SentRow
  <2>5. \A j \in PossibleIds : j # i => StatusOf(j)' = StatusOf(j) /\ AttemptsOf(j)' = AttemptsOf(j)
    BY <1>6, <2>4 DEF StatusOf, AttemptsOf
  <2>6. CASE i \notin DOMAIN alerts
    <3>1. StatusOf(i)' = StatusOf(i) /\ AttemptsOf(i)' = AttemptsOf(i)
      BY <1>6, <2>4, <2>6 DEF StatusOf, AttemptsOf
    <3>2. \A j \in PossibleIds : StatusOf(j)' = StatusOf(j) /\ AttemptsOf(j)' = AttemptsOf(j)
      BY <2>5, <3>1
    <3> QED
      BY <1>6, <3>2, SameStatus, SameAttempts
  <2>7. CASE i \in DOMAIN alerts
    <3>1. ~ alerts[i].delivered /\ alerts[i].retry < MaxRetry /\ alerts[i].retry \in Nat
      BY <2>1, <2>7, RowTypes DEF Sendable
    <3>2. /\ QueueStatus[i] = "pending" /\ QueueAttempts[i] = alerts[i].retry
          /\ AttemptsOf(i) = alerts[i].retry
      BY <1>0, <2>1, <2>7, <3>1 DEF QueueStatus, StatusOf, QueueAttempts, AttemptsOf
    <3>3. CASE MarkDelivered(i) /\ reached[c]
      <4>1. alerts'[i].delivered /\ alerts'[i].retry = alerts[i].retry
        BY <2>7, <3>3, SentRow
      <4>2. StatusOf(i)' = "delivered" /\ AttemptsOf(i)' = AttemptsOf(i)
        BY <2>4, <2>7, <4>1 DEF StatusOf, AttemptsOf
      <4>3. Queue!Move({i}, "delivered")
        BY <2>5, <4>2, QueueSees
      <4>4. QueueAttempts' = QueueAttempts
        BY <2>5, <4>2, SameAttempts
      <4> QED
        BY <1>6, <2>1, <2>2, <3>2, <3>3, <4>3, <4>4 DEF Queue!Succeed
    <3>4. CASE IncrementRetry(i)
      <4>0. PICK to : to = IF QueueAttempts[i] + 1 = MaxRetry THEN "abandoned" ELSE "pending"
        OBVIOUS
      <4>1. ~ alerts'[i].delivered /\ alerts'[i].retry = alerts[i].retry + 1
        BY <2>7, <3>1, <3>4, SentRow
      <4>2. StatusOf(i)' = to /\ AttemptsOf(i)' = AttemptsOf(i) + 1
        BY <1>0, <2>4, <2>7, <3>1, <3>2, <4>0, <4>1 DEF StatusOf, AttemptsOf
      <4>3. Queue!Move({i}, to)
        BY <2>5, <4>2, QueueSees
      <4>4. QueueAttempts' = [QueueAttempts EXCEPT ![i] = @ + 1]
        <5>1. \A j \in PossibleIds : AttemptsOf(j)' = IF j = i THEN AttemptsOf(j) + 1 ELSE AttemptsOf(j)
          BY <2>5, <4>2
        <5>2. QueueAttempts' = [j \in PossibleIds |-> IF j = i THEN AttemptsOf(j) + 1 ELSE AttemptsOf(j)]
          BY <5>1 DEF QueueAttempts, PossibleIds
        <5> QED
          BY <5>2 DEF QueueAttempts
      <4> QED
        BY <1>6, <2>1, <3>2, <4>0, <4>3, <4>4 DEF Queue!Fail
    <3> QED
      BY <2>3, <3>3, <3>4
  <2> QED
    BY <2>6, <2>7
<1>7. CASE Environment
  <2>1. CASE \/ LedgerCloses \/ Crash
             \/ \E e \in Entries : EntryExtended(e)
             \/ \E i \in resolving : ResolutionArrives(i) \/ ResolutionLost(i)
    BY <1>1, <2>1 DEF LedgerCloses, EntryExtended, ResolutionArrives, ResolutionLost, Crash
  <2> QED
    BY <1>2, <1>3, <1>7, <2>1 DEF Environment
<1>8. ASSUME NEW c \in Cycles, CycleStep(c)
      PROVE  [Queue!Next]_(Queue!queueVars)
  <2>1. CASE ProcessResponse(c) \/ ProcessAborts(c)
    <3>1. UNCHANGED <<configState, received>> /\ \E done : WriteAlerts(c, done)
      BY <2>1 DEF ProcessResponse, ProcessAborts
    <3> QED
      BY <1>4, <3>1
  <2>2. CASE SendReaches(c)
    BY <1>5, <2>2
  <2>3. CASE SendSucceeds(c) \/ SendFails(c) \/ MarkFails(c)
    <3>1. /\ sending[c] # None /\ UNCHANGED <<configState, received>>
          /\ \/ MarkDelivered(sending[c]) /\ reached[c]
             \/ IncrementRetry(sending[c])
      BY <2>3 DEF SendSucceeds, SendFails, MarkFails
    <3> QED
      BY <1>6, <3>1
  <2>4. CASE \/ StartCycle(c) \/ RpcReplies(c) \/ RpcFails(c) \/ StartDelivery(c)
             \/ BeginSend(c) \/ DeliveryThrows(c) \/ EndCycle(c)
    BY <1>1, <2>4 DEF StartCycle, RpcReplies, RpcFails, StartDelivery, BeginSend,
                      DeliveryThrows, EndCycle
  <2> QED
    BY <1>8, <2>1, <2>2, <2>3, <2>4 DEF CycleStep
<1>9. CASE UNCHANGED vars
  BY <1>1, <1>9
<1> QED
  BY <1>7, <1>8, <1>9 DEF Next

\* One cycle at a time is an at-least-once queue with a bounded number of attempts,
\* for any contracts, configs, thresholds and retries, however often it dies: the alert
\* tables and deliverPendingAlerts.
THEOREM QueueImplemented ==
  ASSUME Alone, Moments = Nat
  PROVE  Spec => ImplementsQueue
<1>1. Init => Queue!Init
  <2> SUFFICES ASSUME Init PROVE Queue!Init
    OBVIOUS
  <2>1. \A i \in PossibleIds : StatusOf(i) = "absent" /\ AttemptsOf(i) = 0
    BY DEF Init, StatusOf, AttemptsOf, PossibleIds
  <2>2. received = {}
    BY DEF Init
  <2> QED
    BY <2>1, <2>2 DEF Queue!Init, QueueStatus, QueueAttempts
<1>2. TypeOK /\ DedupInv /\ RetryInv /\ QueueInv /\ [Next]_vars => QueueInv'
  BY QueueInvStep, ConstantsAssumption
<1>3. TypeOK /\ DedupInv /\ DeliveryInv /\ RetryInv /\ QueueInv /\ [Next]_vars
          => [Queue!Next]_(Queue!queueVars)
  BY StepIsQueueStep, ConstantsAssumption, NoneAssumption
<1> QED
  BY <1>1, <1>2, <1>3, QueueInit, TypeCorrect, DedupInvHolds, DeliveryInvHolds, RetryInvHolds, PTL
     DEF Spec, ImplementsQueue, Queue!Spec
=============================================================================
