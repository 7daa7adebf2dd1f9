--------------------------- MODULE SlotAllocator ---------------------------
(***************************************************************************)
(* What ChannelAccountPool promises to the contracts that extend through    *)
(* it: a slot has one user at a time, whoever asks while a slot is free     *)
(* gets one at once, and the slots that come back go to the callers that    *)
(* found none, in the order in which they asked.                            *)
(***************************************************************************)
EXTENDS Sequences

CONSTANTS Slots, Callers, NoSlot

VARIABLES
    slot,       \* the slot each caller uses, or NoSlot
    queue,      \* callers waiting for a slot, oldest first
    asked       \* callers that called acquire since the pool was built

allocation == <<slot, queue, asked>>

Taken == {slot[c] : c \in Callers} \ {NoSlot}
Free == Slots \ Taken

Init ==
    /\ slot = [c \in Callers |-> NoSlot]
    /\ queue = << >>
    /\ asked = {}

Take(c) ==
    /\ c \in Callers \ asked
    /\ queue = << >>
    /\ \E s \in Free : slot' = [slot EXCEPT ![c] = s]
    /\ asked' = asked \cup {c}
    /\ UNCHANGED queue

Wait(c) ==
    /\ c \in Callers \ asked
    /\ Free = {}
    /\ queue' = Append(queue, c)
    /\ asked' = asked \cup {c}
    /\ UNCHANGED slot

GiveBack(c) ==
    /\ slot[c] # NoSlot
    /\ queue = << >>
    /\ slot' = [slot EXCEPT ![c] = NoSlot]
    /\ UNCHANGED <<queue, asked>>

PassOn(c) ==
    /\ slot[c] # NoSlot
    /\ queue # << >>
    /\ \E s \in Free \cup {slot[c]} :
           slot' = [slot EXCEPT ![c] = NoSlot, ![Head(queue)] = s]
    /\ queue' = Tail(queue)
    /\ UNCHANGED asked

Rebuild ==
    /\ slot = [c \in Callers |-> NoSlot]
    /\ queue = << >>
    /\ asked' = {}
    /\ UNCHANGED <<slot, queue>>

Next ==
    \/ \E c \in Callers : Take(c) \/ Wait(c) \/ GiveBack(c) \/ PassOn(c)
    \/ Rebuild

Spec == Init /\ [][Next]_allocation
=============================================================================
