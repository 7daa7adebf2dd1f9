----------------------------- MODULE DaemonLoop -----------------------------
(***************************************************************************)
(* The scheduling of monitoring cycles: startDaemon, stopDaemon, the         *)
(* interval timer and the cycleInFlight guard, all module-level state of     *)
(* daemon/loop.ts. What a cycle does is in AlertLifecycle and AutoExtension; *)
(* here a cycle is something that is in flight for a while, since it awaits  *)
(* the network, and may fail without anybody noticing.                      *)
(*                                                                         *)
(* startDaemon awaits its first cycle before it sets the interval, so calls  *)
(* made in the meantime find no handle to clear.                            *)
(***************************************************************************)
EXTENDS Integers, FiniteSets

CONSTANTS
    Starts,         \* calls of startDaemon
    NoTimer,        \* intervalHandle = null
    MaxInFlight     \* bound: cycles of timers in flight together

ASSUME LoopAssumption ==
    /\ NoTimer \notin Starts
    /\ IsFiniteSet(Starts)
    /\ MaxInFlight \in Nat \ {0}

VARIABLES
    intervalHandle, \* the timer the module knows, named by the call that set it
    timers,         \* the timers that fire
    cycleInFlight,  \* the re-entrance guard
    called,         \* calls of startDaemon so far
    starting,       \* those whose first cycle is still in flight
    ticking,        \* number of cycles in flight that timers began
    vacuumDue,      \* Date.now() - lastVacuumAt >= vacuumIntervalMs
    alive,          \* the process
    wanted,         \* history: the last call was startDaemon, not stopDaemon
    settled,        \* history: callers awaited the promise of startDaemon
    idle            \* history: and they called while no cycle was in flight

calls == <<called, wanted, settled, idle>>
vars == <<intervalHandle, timers, cycleInFlight, calls, starting, ticking, vacuumDue, alive>>

TypeOK ==
    /\ intervalHandle \in Starts \cup {NoTimer}
    /\ timers \subseteq Starts
    /\ cycleInFlight \in BOOLEAN
    /\ called \subseteq Starts
    /\ starting \subseteq called
    /\ ticking \in 0 .. MaxInFlight
    /\ vacuumDue \in BOOLEAN
    /\ alive \in BOOLEAN
    /\ wanted \in BOOLEAN
    /\ settled \in BOOLEAN
    /\ idle \in BOOLEAN

Init ==
    /\ intervalHandle = NoTimer
    /\ timers = {}
    /\ cycleInFlight = FALSE
    /\ called = {}
    /\ starting = {}
    /\ ticking = 0
    /\ vacuumDue = FALSE
    /\ alive = TRUE
    /\ wanted = FALSE
    /\ settled = TRUE
    /\ idle = TRUE

Call(start) ==
    /\ alive
    /\ wanted' = start
    /\ settled' = (settled /\ starting = {})
    /\ idle' = (idle /\ starting = {} /\ ticking = 0)

\* Mutants of ClearsTimer: the handle is dropped and the timer left; the handle
\* becomes what clearInterval returns.
DropsHandle == intervalHandle' = NoTimer /\ UNCHANGED timers
UndefinesHandle ==
    /\ timers' = timers \ {intervalHandle}
    /\ intervalHandle' = "undefined"

\* The part of stopDaemon about the timer; startDaemon calls it as well.
ClearsTimer ==
    /\ timers' = timers \ {intervalHandle}
    /\ intervalHandle' = NoTimer

-----------------------------------------------------------------------------

\* Up to the first await of its first cycle, which sets the guard.
StartDaemon(s) ==
    /\ Call(TRUE)
    /\ s \notin called
    /\ called' = called \cup {s}
    /\ ClearsTimer
    /\ vacuumDue' = FALSE
    /\ cycleInFlight' = TRUE
    /\ starting' = starting \cup {s}
    /\ UNCHANGED <<ticking, alive>>

\* The first cycle ends, well or badly, and startDaemon sets its interval.
FirstCycleEnds(s) ==
    /\ alive
    /\ s \in starting
    /\ starting' = starting \ {s}
    /\ cycleInFlight' = FALSE
    /\ intervalHandle' = s
    /\ timers' = timers \cup {s}
    /\ UNCHANGED <<calls, ticking, vacuumDue, alive>>

StopDaemon ==
    /\ Call(FALSE)
    /\ ClearsTimer
    /\ cycleInFlight' = FALSE
    /\ UNCHANGED <<called, starting, ticking, vacuumDue, alive>>

BeginsCycle ==
    /\ ticking < MaxInFlight
    /\ ticking' = ticking + 1
    /\ cycleInFlight' = TRUE

MayTick(s) == alive /\ s \in timers /\ ~ cycleInFlight

\* scheduledTick. A tick that finds the guard set does nothing.
Tick(s) ==
    /\ MayTick(s)
    /\ ~ vacuumDue
    /\ BeginsCycle
    /\ UNCHANGED <<intervalHandle, timers, calls, starting, vacuumDue, alive>>

\* The daily vacuum comes first; a busy database postpones it to the next tick.
TickWithVacuum(s) ==
    /\ MayTick(s)
    /\ vacuumDue
    /\ vacuumDue' \in BOOLEAN
    /\ BeginsCycle
    /\ UNCHANGED <<intervalHandle, timers, calls, starting, alive>>

\* Any other error of the vacuum rejects scheduledTick, which nobody handles.
VacuumThrows(s) ==
    /\ MayTick(s)
    /\ vacuumDue
    /\ alive' = FALSE
    /\ UNCHANGED <<intervalHandle, timers, cycleInFlight, calls, starting, ticking, vacuumDue>>

VacuumComesDue ==
    /\ alive
    /\ ~ vacuumDue
    /\ vacuumDue' = TRUE
    /\ UNCHANGED <<intervalHandle, timers, cycleInFlight, calls, starting, ticking, alive>>

\* Mutant of CycleEnds: the guard is reset on success only, not in finally.
CycleEndsMaybeSet ==
    /\ alive
    /\ ticking > 0
    /\ ticking' = ticking - 1
    /\ cycleInFlight' \in {FALSE, cycleInFlight}
    /\ UNCHANGED <<intervalHandle, timers, calls, starting, vacuumDue, alive>>

CycleEnds ==
    /\ alive
    /\ ticking > 0
    /\ ticking' = ticking - 1
    /\ cycleInFlight' = FALSE
    /\ UNCHANGED <<intervalHandle, timers, calls, starting, vacuumDue, alive>>

\* The signal handler of the daemon command: stopDaemon, close the database,
\* exit, in one go.
Shutdown ==
    /\ alive
    /\ alive' = FALSE
    /\ wanted' = FALSE
    /\ ClearsTimer
    /\ cycleInFlight' = FALSE
    /\ UNCHANGED <<called, settled, idle, starting, ticking, vacuumDue>>

Next ==
    \/ \E s \in Starts : \/ StartDaemon(s) \/ FirstCycleEnds(s)
                         \/ Tick(s) \/ TickWithVacuum(s) \/ VacuumThrows(s)
    \/ StopDaemon
    \/ CycleEnds
    \/ VacuumComesDue
    \/ Shutdown

Spec == Init /\ [][Next]_vars

\* Timers fire and cycles end, since what they await settles.
FairSpec ==
    /\ Spec
    /\ WF_vars(CycleEnds)
    /\ \A s \in Starts : /\ WF_vars(FirstCycleEnds(s))
                         /\ WF_vars(Tick(s) \/ TickWithVacuum(s))

-----------------------------------------------------------------------------
(* Properties.                                                              *)

InFlight == ticking + Cardinality(starting)
CycleBegins == ticking' > ticking

\* Every timer that fires is the one stopDaemon can clear; a leaked timer would
\* run a second loop until the process ends. (loop.ts: startDaemon "will stop
\* the previous loop first (kills the old timer)".)
NoLeakedTimer == timers \subseteq {intervalHandle}

\* No timer leaks if callers await startDaemon, cycles in flight or not.
OneTimer == settled => NoLeakedTimer

\* After stopDaemon no cycle begins until startDaemon is called again, for callers
\* that await startDaemon. (loop.ts: the cycle in flight "will finish naturally,
\* but no new cycle will be scheduled after it"; stopDaemon during the very first
\* cycle does not achieve that.)
SettledStopIsFinal == [][settled /\ ~ wanted => ~ CycleBegins]_vars

\* Two cycles never overlap if callers await startDaemon and call between cycles
\* only, as the daemon command does, which calls startDaemon once. (loop.ts: "if a
\* cycle is still in-flight when the next interval fires, that tick is skipped".)
IdleNoOverlap == idle => InFlight <= 1

\* The guard is never set without a cycle in flight: that would skip every tick
\* from then on, silently.
GuardMeansCycle == alive /\ cycleInFlight => InFlight > 0

\* A daemon that was started and not stopped begins cycle after cycle, until its
\* process ends.
KeepsCycling == (wanted /\ InFlight = 0) ~> (InFlight > 0 \/ ~ wanted \/ ~ alive)

=============================================================================
