---------------------------- MODULE ChannelPool ----------------------------
(***************************************************************************)
(* ChannelAccountPool, as one runAutoExtensions uses it: every contract of  *)
(* the run that needs an extension calls acquire once, works with the slot  *)
(* it got, and releases it. acquire and release run without an await, so    *)
(* each is one step; a caller that found no free slot is a promise resolver *)
(* in waiters.                                                              *)
(***************************************************************************)
EXTENDS Integers, Sequences, FiniteSets, FiniteSetsExt

CONSTANTS
    NumAccounts,    \* channel accounts registered for the network
    Callers,        \* contracts that extend in the same run
    NoSlot          \* a caller without a channel account

Slots == 0 .. NumAccounts - 1

\* What a pool is built from. AutoExtension instantiates this module without an
\* account too, where no pool is built: so the theorems name it as a hypothesis.
PoolConstants ==
    /\ NumAccounts \in Nat \ {0}
    /\ IsFiniteSet(Callers)
    /\ NoSlot \notin Slots

VARIABLES
    inUse,      \* accounts handed out
    waiters,    \* callers whose acquire is pending, oldest first
    cursor,     \* where the next scan for a free account starts
    slot,       \* the slot each caller was handed and has not released
    asked       \* callers that have called acquire in this run

pool == <<inUse, waiters, cursor>>
vars == <<pool, slot, asked>>

TypeOK ==
    /\ inUse \subseteq Slots
    /\ waiters \in Seq(Callers)
    /\ cursor \in Slots
    /\ slot \in [Callers -> Slots \cup {NoSlot}]
    /\ asked \subseteq Callers

Init ==
    /\ inUse = {}
    /\ waiters = << >>
    /\ cursor = 0
    /\ slot = [c \in Callers |-> NoSlot]
    /\ asked = {}

Scan(i) == (cursor + i) % NumAccounts

\* nextFreeSlot with the accounts of used taken: the first free account from
\* the cursor on. It moves the cursor just past the account it returns.
FreeOffsets(used) == {i \in Slots : Scan(i) \notin used}
NextFree(used) == Scan(Min(FreeOffsets(used)))

\* Mutants of MoveCursor: the wrap is forgotten, the cursor is left on s.
CursorUnwrapped(s) == cursor' = s + 1
CursorStays(s) == cursor' = s

MoveCursor(s) == cursor' = (s + 1) % NumAccounts

\* Mutant of Marked: release hands a slot on without inUse.add.
Unmarked(used, s) == used

Marked(used, s) == used \cup {s}

\* Mutant of NextWaiter: pop instead of shift.
NewestWaiter == [caller |-> waiters[Len(waiters)],
                 rest   |-> SubSeq(waiters, 1, Len(waiters) - 1)]

NextWaiter == [caller |-> Head(waiters), rest |-> Tail(waiters)]

-----------------------------------------------------------------------------

AcquireFree(c) ==
    /\ c \in Callers \ asked
    /\ inUse # Slots
    /\ LET s == NextFree(inUse) IN
           /\ inUse' = Marked(inUse, s)
           /\ slot' = [slot EXCEPT ![c] = s]
           /\ MoveCursor(s)
    /\ asked' = asked \cup {c}
    /\ UNCHANGED waiters

AcquireWaits(c) ==
    /\ c \in Callers \ asked
    /\ inUse = Slots
    /\ waiters' = Append(waiters, c)
    /\ asked' = asked \cup {c}
    /\ UNCHANGED <<inUse, cursor, slot>>

\* Mutant of ReleaseIdle: release only frees the account, whoever waits.
ReleaseForgetsWaiters(c) ==
    /\ slot[c] # NoSlot
    /\ inUse' = inUse \ {slot[c]}
    /\ slot' = [slot EXCEPT ![c] = NoSlot]
    /\ UNCHANGED <<waiters, cursor, asked>>

ReleaseIdle(c) ==
    /\ slot[c] # NoSlot
    /\ waiters = << >>
    /\ inUse' = inUse \ {slot[c]}
    /\ slot' = [slot EXCEPT ![c] = NoSlot]
    /\ UNCHANGED <<waiters, cursor, asked>>

\* release while acquire calls are pending: the account goes to the oldest.
HandOver(c) ==
    /\ slot[c] # NoSlot
    /\ waiters # << >>
    /\ LET rest == inUse \ {slot[c]}
           s == NextFree(rest)
       IN  /\ inUse' = Marked(rest, s)
           /\ slot' = [slot EXCEPT ![c] = NoSlot, ![NextWaiter.caller] = s]
           /\ MoveCursor(s)
    /\ waiters' = NextWaiter.rest
    /\ UNCHANGED asked

Acquire(c) == AcquireFree(c) \/ AcquireWaits(c)
Release(c) == ReleaseIdle(c) \/ HandOver(c)

\* The next run builds a new pool, once Promise.all has seen every contract of
\* this one finish.
NewPool ==
    /\ asked # {}
    /\ waiters = << >>
    /\ slot = [c \in Callers |-> NoSlot]
    /\ inUse' = {}
    /\ cursor' = 0
    /\ asked' = {}
    /\ UNCHANGED <<waiters, slot>>

Next ==
    \/ \E c \in Callers : Acquire(c) \/ Release(c)
    \/ NewPool

Spec == Init /\ [][Next]_vars

\* Each attempt to extend ends (every RPC call of it settles and polling is
\* bounded), and its finally block releases the slot.
Fairness == \A c \in Callers : WF_vars(Release(c))

FairSpec == Spec /\ Fairness

-----------------------------------------------------------------------------
(* Properties.                                                              *)

Holders == {c \in Callers : slot[c] # NoSlot}

\* Two contracts never sign with the same channel account at the same time,
\* which is what keeps their sequence numbers apart: acquire and release hand
\* out an account only while nobody uses it.
OneHolder ==
    \A c, d \in Holders : slot[c] = slot[d] => c = d

\* No account leaks and none is lost: inUse is exactly what callers hold, on
\* every path through the queue of waiters.
InUseIsHeld ==
    inUse = {slot[c] : c \in Holders}

\* No lost wakeup: a contract waits only while every account is in use.
NobodyWaitsForFreeSlot ==
    waiters # << >> => inUse = Slots

\* Accounts go from one contract to another inside release, while others ask:
\* they stay exclusive, none leaks, and nobody waits for one that is free.
SlotsAreSound == OneHolder /\ InUseIsHeld /\ NobodyWaitsForFreeSlot

\* Every acquire that had to wait is served, if the attempts of the others end.
WaiterServed ==
    \A c \in Callers :
        (\E j \in DOMAIN waiters : waiters[j] = c) ~> (slot[c] # NoSlot)

\* The pool is a first-come, first-served allocator.
Allocator == INSTANCE SlotAllocator WITH queue <- waiters
ImplementsAllocator == Allocator!Spec
=============================================================================
