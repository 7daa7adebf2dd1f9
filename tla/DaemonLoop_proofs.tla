-------------------------- MODULE DaemonLoop_proofs --------------------------
(* Proofs about DaemonLoop, for any number of startDaemon calls and any number *)
(* of overlapping cycles.                                                     *)
EXTENDS DaemonLoop, FiniteSetTheorems, TLAPS

USE DEF vars, calls

THEOREM LoopTypeCorrect == Spec => []TypeOK
<1>1. Init => TypeOK
  <2>1. Init => ticking \in 0 .. MaxInFlight
    BY LoopAssumption DEF Init
  <2>2. Init => alive \in BOOLEAN /\ wanted \in BOOLEAN
             /\ vacuumDue \in BOOLEAN /\ cycleInFlight \in BOOLEAN
             /\ settled \in BOOLEAN /\ idle \in BOOLEAN
    BY Zenon DEF Init
  <2> QED
    BY <2>1, <2>2 DEF Init, TypeOK
<1>2. TypeOK /\ [Next]_vars => TypeOK'
  <2> SUFFICES ASSUME TypeOK, [Next]_vars
               PROVE  TypeOK'
    OBVIOUS
  <2> USE LoopAssumption DEF TypeOK
  <2>1. ASSUME NEW s \in Starts, StartDaemon(s)
        PROVE  TypeOK'
    <3>1. settled' \in BOOLEAN /\ idle' \in BOOLEAN /\ wanted' \in BOOLEAN
      BY <2>1, Zenon DEF StartDaemon, Call
    <3> QED
      BY <2>1, <3>1 DEF StartDaemon, Call, ClearsTimer
  <2>2. ASSUME NEW s \in Starts, FirstCycleEnds(s)
        PROVE  TypeOK'
    BY <2>2 DEF FirstCycleEnds
  <2>3. ASSUME NEW s \in Starts, Tick(s) \/ TickWithVacuum(s)
        PROVE  TypeOK'
    <3>1. ticking' \in 0 .. MaxInFlight
      BY <2>3 DEF Tick, TickWithVacuum, BeginsCycle
    <3>2. cycleInFlight' \in BOOLEAN /\ vacuumDue' \in BOOLEAN
      BY <2>3, Zenon DEF Tick, TickWithVacuum, BeginsCycle
    <3>3. UNCHANGED <<intervalHandle, timers, calls, starting, alive>>
      BY <2>3 DEF Tick, TickWithVacuum
    <3> QED
      BY <3>1, <3>2, <3>3
  <2>4. ASSUME NEW s \in Starts, VacuumThrows(s)
        PROVE  TypeOK'
    BY <2>4 DEF VacuumThrows
  <2>5. CASE StopDaemon
    <3>1. settled' \in BOOLEAN /\ idle' \in BOOLEAN /\ wanted' \in BOOLEAN
      BY <2>5, Zenon DEF StopDaemon, Call
    <3> QED
      BY <2>5, <3>1 DEF StopDaemon, Call, ClearsTimer
  <2>6. CASE CycleEnds
    <3>1. ticking' \in 0 .. MaxInFlight
      BY <2>6 DEF CycleEnds
    <3>2. cycleInFlight' \in BOOLEAN
      BY <2>6, Zenon DEF CycleEnds
    <3> QED
      BY <2>6, <3>1, <3>2 DEF CycleEnds
  <2>7. CASE VacuumComesDue
    BY <2>7 DEF VacuumComesDue
  <2>8. CASE Shutdown
    BY <2>8 DEF Shutdown, ClearsTimer
  <2>9. CASE UNCHANGED vars
    BY <2>9
  <2> QED
    BY <2>1, <2>2, <2>3, <2>4, <2>5, <2>6, <2>7, <2>8, <2>9 DEF Next
<1> QED
  BY <1>1, <1>2, PTL DEF Spec

-----------------------------------------------------------------------------
(* The guard.                                                                 *)

GuardInv == cycleInFlight => ticking > 0 \/ starting # {}

LEMMA SomeInFlight ==
  ASSUME TypeOK
  PROVE  (ticking > 0 \/ starting # {}) => InFlight > 0
<1>1. IsFiniteSet(starting)
  BY LoopAssumption, FS_Subset DEF TypeOK
<1>2. Cardinality(starting) \in Nat
  BY <1>1, FS_CardinalityType
<1>3. starting # {} => Cardinality(starting) # 0
  BY <1>1, FS_EmptySet
<1> QED
  BY <1>2, <1>3, LoopAssumption DEF InFlight, TypeOK

\* Whatever the order of the calls, the guard is set only while a cycle runs: no
\* daemon skips all its ticks.
THEOREM GuardSound == Spec => []GuardMeansCycle
<1>1. Init => GuardInv
  BY DEF Init, GuardInv
<1>2. TypeOK /\ GuardInv /\ [Next]_vars => GuardInv'
  <2> SUFFICES ASSUME TypeOK, GuardInv, [Next]_vars
               PROVE  GuardInv'
    OBVIOUS
  <2> USE LoopAssumption DEF TypeOK, GuardInv
  <2>1. ASSUME NEW s \in Starts, StartDaemon(s)
        PROVE  GuardInv'
    BY <2>1 DEF StartDaemon
  <2>2. ASSUME NEW s \in Starts, FirstCycleEnds(s)
        PROVE  GuardInv'
    BY <2>2 DEF FirstCycleEnds
  <2>3. ASSUME NEW s \in Starts, Tick(s) \/ TickWithVacuum(s)
        PROVE  GuardInv'
    BY <2>3 DEF Tick, TickWithVacuum, BeginsCycle
  <2>4. ASSUME NEW s \in Starts, VacuumThrows(s)
        PROVE  GuardInv'
    BY <2>4 DEF VacuumThrows
  <2>5. CASE StopDaemon \/ CycleEnds \/ VacuumComesDue \/ Shutdown
    BY <2>5 DEF StopDaemon, CycleEnds, VacuumComesDue, Shutdown
  <2>6. CASE UNCHANGED vars
    BY <2>6
  <2> QED
    BY <2>1, <2>2, <2>3, <2>4, <2>5, <2>6 DEF Next
<1>3. TypeOK /\ GuardInv => GuardMeansCycle
  BY SomeInFlight DEF GuardInv, GuardMeansCycle
<1> QED
  BY <1>1, <1>2, <1>3, LoopTypeCorrect, PTL DEF Spec

-----------------------------------------------------------------------------
(* Callers that await startDaemon. The invariant adds to NoLeakedTimer that no *)
(* timer is set while a first cycle runs, so the interval that follows it is   *)
(* the only one, and that stopDaemon finds either that cycle over or no call.  *)

OneLoopInv ==
  /\ NoLeakedTimer
  /\ alive /\ starting # {} => timers = {} /\ wanted /\ \A s, t \in starting : s = t
  /\ ~ wanted => timers = {}

SettledInv == settled => OneLoopInv

LEMMA SettledInit == Init => SettledInv
BY DEF Init, SettledInv, OneLoopInv, NoLeakedTimer

LEMMA SettledStep ==
  TypeOK /\ SettledInv /\ [Next]_vars
     => SettledInv' /\ (settled /\ ~ wanted => ~ CycleBegins)
<1> SUFFICES ASSUME TypeOK, SettledInv, [Next]_vars
             PROVE  SettledInv' /\ (settled /\ ~ wanted => ~ CycleBegins)
  OBVIOUS
<1> USE LoopAssumption DEF TypeOK, SettledInv, OneLoopInv, NoLeakedTimer, CycleBegins
<1>1. ASSUME NEW s \in Starts, StartDaemon(s)
      PROVE  SettledInv' /\ ~ CycleBegins
  <2>1. ticking' = ticking
    BY <1>1 DEF StartDaemon
  <2>2. ASSUME settled'
        PROVE  OneLoopInv'
    <3>1. settled /\ starting = {} /\ starting' = {s} /\ wanted'
      BY <1>1, <2>2 DEF StartDaemon, Call
    <3>2. timers' = {}
      BY <1>1, <3>1 DEF StartDaemon, ClearsTimer
    <3> QED
      BY <3>1, <3>2
  <2> QED
    BY <2>1, <2>2
<1>2. ASSUME NEW s \in Starts, FirstCycleEnds(s)
      PROVE  SettledInv' /\ ~ CycleBegins
  BY <1>2 DEF FirstCycleEnds
<1>3. ASSUME NEW s \in Starts, Tick(s) \/ TickWithVacuum(s)
      PROVE  SettledInv' /\ (settled => wanted)
  BY <1>3 DEF Tick, TickWithVacuum, MayTick, BeginsCycle
<1>4. ASSUME NEW s \in Starts, VacuumThrows(s)
      PROVE  SettledInv' /\ ~ CycleBegins
  BY <1>4 DEF VacuumThrows
<1>5. CASE StopDaemon
  <2>1. ticking' = ticking
    BY <1>5 DEF StopDaemon
  <2>2. ASSUME settled'
        PROVE  OneLoopInv'
    <3>1. settled /\ starting = {} /\ starting' = {}
      BY <1>5, <2>2 DEF StopDaemon, Call
    <3>2. timers' = {}
      BY <1>5, <3>1 DEF StopDaemon, ClearsTimer
    <3> QED
      BY <3>1, <3>2
  <2> QED
    BY <2>1, <2>2
<1>6. CASE CycleEnds \/ VacuumComesDue
  BY <1>6 DEF CycleEnds, VacuumComesDue
<1>7. CASE Shutdown
  BY <1>7 DEF Shutdown, ClearsTimer
<1>8. CASE UNCHANGED vars
  BY <1>8
<1> QED
  BY <1>1, <1>2, <1>3, <1>4, <1>5, <1>6, <1>7, <1>8 DEF Next

\* Callers that await startDaemon never leak a timer.
THEOREM TimerUnique == Spec => []OneTimer
<1>1. TypeOK /\ SettledInv /\ [Next]_vars => SettledInv'
  BY SettledStep
<1>2. SettledInv => OneTimer
  BY DEF SettledInv, OneLoopInv, OneTimer
<1> QED
  BY <1>1, <1>2, SettledInit, LoopTypeCorrect, PTL DEF Spec

\* For callers that await startDaemon, stopDaemon is final.
THEOREM StopHolds == Spec => SettledStopIsFinal
<1>1. TypeOK /\ SettledInv /\ [Next]_vars => SettledInv'
  BY SettledStep
<1>2. TypeOK /\ SettledInv /\ [Next]_vars => [settled /\ ~ wanted => ~ CycleBegins]_vars
  BY SettledStep
<1> QED
  BY <1>1, <1>2, SettledInit, LoopTypeCorrect, PTL DEF Spec, SettledStopIsFinal

-----------------------------------------------------------------------------
(* Callers that also call between cycles only: the guard is then set whenever  *)
(* a cycle is in flight, so a tick begins one only when there is none.         *)

AtMostOne ==
  /\ ticking = 0 \/ starting = {}
  /\ ticking <= 1
  /\ \A s, t \in starting : s = t
  /\ alive /\ (ticking > 0 \/ starting # {}) => cycleInFlight

IdleInv == idle => AtMostOne

LEMMA AtMostOneInFlight ==
  ASSUME TypeOK, AtMostOne
  PROVE  InFlight <= 1
<1>1. Cardinality({}) = 0
  BY FS_EmptySet
<1>2. CASE starting = {}
  BY <1>1, <1>2, LoopAssumption DEF InFlight, AtMostOne, TypeOK
<1>3. CASE starting # {}
  <2>1. PICK s \in starting : starting = {s}
    BY <1>3 DEF AtMostOne
  <2>2. Cardinality(starting) = 1
    BY <2>1, FS_Singleton
  <2> QED
    BY <1>3, <2>2 DEF InFlight, AtMostOne
<1> QED
  BY <1>2, <1>3

\* Cycles never overlap when nobody calls while one is in flight.
THEOREM CyclesApart == Spec => []IdleNoOverlap
<1>1. Init => IdleInv
  BY DEF Init, IdleInv, AtMostOne
<1>2. TypeOK /\ IdleInv /\ [Next]_vars => IdleInv'
  <2> SUFFICES ASSUME TypeOK, IdleInv, [Next]_vars
               PROVE  IdleInv'
    OBVIOUS
  <2> USE LoopAssumption DEF TypeOK, IdleInv, AtMostOne
  <2>1. ASSUME NEW s \in Starts, StartDaemon(s)
        PROVE  IdleInv'
    BY <2>1 DEF StartDaemon, Call
  <2>2. ASSUME NEW s \in Starts, FirstCycleEnds(s)
        PROVE  IdleInv'
    BY <2>2 DEF FirstCycleEnds
  <2>3. ASSUME NEW s \in Starts, Tick(s) \/ TickWithVacuum(s)
        PROVE  IdleInv'
    <3>1. UNCHANGED <<starting, idle>> /\ ticking' = ticking + 1 /\ cycleInFlight' = TRUE
      BY <2>3 DEF Tick, TickWithVacuum, BeginsCycle
    <3>2. alive /\ ~ cycleInFlight
      BY <2>3 DEF Tick, TickWithVacuum, MayTick
    <3>3. ASSUME idle
          PROVE  AtMostOne'
      <4>1. ticking = 0 /\ starting = {}
        BY <3>2, <3>3
      <4> QED
        BY <4>1, <3>1
    <3> QED
      BY <3>1, <3>3
  <2>4. ASSUME NEW s \in Starts, VacuumThrows(s)
        PROVE  IdleInv'
    BY <2>4 DEF VacuumThrows
  <2>5. CASE StopDaemon
    <3>1. UNCHANGED <<starting, ticking>> /\ (idle' => starting = {} /\ ticking = 0)
      BY <2>5 DEF StopDaemon, Call
    <3> QED
      BY <3>1
  <2>6. CASE CycleEnds
    BY <2>6 DEF CycleEnds
  <2>7. CASE VacuumComesDue \/ Shutdown
    BY <2>7 DEF VacuumComesDue, Shutdown
  <2>8. CASE UNCHANGED vars
    BY <2>8
  <2> QED
    BY <2>1, <2>2, <2>3, <2>4, <2>5, <2>6, <2>7, <2>8 DEF Next
<1>3. TypeOK /\ IdleInv => IdleNoOverlap
  BY AtMostOneInFlight DEF IdleInv, IdleNoOverlap
<1> QED
  BY <1>1, <1>2, <1>3, LoopTypeCorrect, PTL DEF Spec
=============================================================================
