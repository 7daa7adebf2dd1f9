------------------------- MODULE ChannelPool_proofs -------------------------
(* Proofs about ChannelPool, for any number of channel accounts and any set of *)
(* contracts extending in one run.                                            *)
EXTENDS PoolOrder, WellFoundedInduction, TLAPS

\* A nonempty set of numbers has a least element.
LEMMA LeastExists ==
  ASSUME NEW S \in SUBSET Nat, S # {}
  PROVE  Min(S) \in S /\ \A x \in S : Min(S) <= x
<1> DEFINE R == {p \in Nat \X Nat : p[1] < p[2]}
<1>1. IsWellFoundedOn(R, Nat)
  BY NatLessThanWellFounded DEF OpToRel
<1>2. \E x \in S : \A y \in S : ~ (<<y, x>> \in R)
  <2> HIDE DEF R
  <2> QED BY <1>1, WFMin
<1>3. \A x, y \in Nat : ~ (<<y, x>> \in R) => x =< y
  OBVIOUS
<1>4. \E x \in S : \A y \in S : x =< y
  BY <1>2, <1>3
<1> QED
  BY <1>4 DEF Min

\* The scan from the cursor wraps around and reaches every account.
LEMMA ScanReachesAll ==
  ASSUME PoolConstants, TypeOK, NEW s \in Slots
  PROVE  \E i \in Slots : Scan(i) = s
<1> USE DEF PoolConstants, Slots, Scan, TypeOK
<1>1. CASE s >= cursor
  <2>1. s - cursor \in Slots /\ cursor + (s - cursor) = s
    BY <1>1
  <2>2. s % NumAccounts = s
    OBVIOUS
  <2> QED
    BY <2>1, <2>2
<1>2. CASE s < cursor
  <2>1. (s - cursor) + NumAccounts \in Slots
    BY <1>2
  <2>2. cursor + ((s - cursor) + NumAccounts) = s + NumAccounts
    BY <1>2
  <2>3. (s + NumAccounts) % NumAccounts = s
    OBVIOUS
  <2> QED
    BY <2>1, <2>2, <2>3
<1> QED
  BY <1>1, <1>2

LEMMA ScanIsSlot ==
  ASSUME PoolConstants, TypeOK, NEW i \in Slots
  PROVE  Scan(i) \in Slots
BY DEF PoolConstants, Slots, Scan, TypeOK

LEMMA WrapIsSlot ==
  ASSUME PoolConstants, NEW s \in Slots
  PROVE  (s + 1) % NumAccounts \in Slots
BY DEF PoolConstants, Slots

\* nextFreeSlot returns a free account whenever there is one.
LEMMA NextFreeIsFree ==
  ASSUME PoolConstants, TypeOK, NEW used \in SUBSET Slots, used # Slots
  PROVE  NextFree(used) \in Slots \ used
<1>1. FreeOffsets(used) # {}
  <2>1. PICK s \in Slots : s \notin used
    OBVIOUS
  <2>2. PICK i \in Slots : Scan(i) = s
    BY ScanReachesAll
  <2> QED
    BY <2>1, <2>2 DEF FreeOffsets
<1>2. FreeOffsets(used) \in SUBSET Nat
  BY DEF PoolConstants, FreeOffsets, Slots
<1>3. Min(FreeOffsets(used)) \in FreeOffsets(used)
  BY <1>1, <1>2, LeastExists
<1> QED
  BY <1>3, ScanIsSlot DEF FreeOffsets, NextFree
-----------------------------------------------------------------------------
(* The inductive invariant. Beside the invariants that TLC checks it says that *)
(* only a caller that asked holds a slot: acquire overwrites slot[c], so a     *)
(* caller that held one before it asked would leak it; and that a pending      *)
(* acquire belongs to one caller, which holds nothing: no resolver is called   *)
(* twice and none is queued behind itself.                                    *)

HoldersAsked == Holders \subseteq asked

WaitersAreWaiting ==
  /\ \A j \in DOMAIN waiters : waiters[j] \in asked \ Holders
  /\ \A j, k \in DOMAIN waiters : waiters[j] = waiters[k] => j = k

PoolInv ==
  /\ TypeOK
  /\ OneHolder
  /\ InUseIsHeld
  /\ NobodyWaitsForFreeSlot
  /\ WaitersAreWaiting
  /\ HoldersAsked

USE DEF vars, pool

\* acquire with a free account: the caller alone gets an account nobody has.
LEMMA AcquireFreeStep ==
  ASSUME PoolConstants, PoolInv, NEW c \in Callers, AcquireFree(c)
  PROVE  \E s \in Slots \ inUse :
            /\ slot[c] = NoSlot
            /\ slot' = [slot EXCEPT ![c] = s]
            /\ inUse' = inUse \cup {s}
            /\ cursor' \in Slots
            /\ waiters = << >>
            /\ waiters' = << >>
            /\ asked' = asked \cup {c}
<1>1. NextFree(inUse) \in Slots \ inUse
  BY NextFreeIsFree DEF PoolInv, TypeOK, AcquireFree
<1>2. slot[c] = NoSlot
  BY DEF PoolInv, HoldersAsked, Holders, AcquireFree
<1>3. cursor' \in Slots
  BY <1>1, WrapIsSlot DEF AcquireFree, MoveCursor
<1>4. waiters = << >>
  BY DEF PoolInv, NobodyWaitsForFreeSlot, AcquireFree
<1> QED
  BY <1>1, <1>2, <1>3, <1>4 DEF AcquireFree, Marked

\* release with pending acquires: every account is in use, so the one handed
\* to the oldest waiter is the one given back.
LEMMA HandOverStep ==
  ASSUME PoolConstants, PoolInv, NEW c \in Callers, HandOver(c)
  PROVE  \E w \in Callers :
            /\ waiters # << >>
            /\ w = Head(waiters)
            /\ w # c
            /\ w \in asked
            /\ slot[c] \in Slots
            /\ slot[w] = NoSlot
            /\ slot' = [x \in Callers |-> IF x = c THEN NoSlot
                                          ELSE IF x = w THEN slot[c]
                                          ELSE slot[x]]
            /\ inUse = Slots
            /\ inUse' = Slots
            /\ cursor' \in Slots
            /\ waiters' = Tail(waiters)
            /\ asked' = asked
<1> DEFINE w == Head(waiters)
           rest == inUse \ {slot[c]}
<1>1. waiters # << >> /\ slot[c] # NoSlot
  BY DEF HandOver
<1>2. slot[c] \in Slots /\ slot \in [Callers -> Slots \cup {NoSlot}]
  BY <1>1 DEF PoolInv, TypeOK
<1>3. inUse = Slots
  BY <1>1 DEF PoolInv, NobodyWaitsForFreeSlot
<1>4. NextFree(rest) \in Slots \ rest
  BY <1>2, <1>3, NextFreeIsFree DEF PoolInv
<1>5. NextFree(rest) = slot[c]
  BY <1>3, <1>4
<1>6. w \in Callers /\ w = waiters[1] /\ 1 \in DOMAIN waiters
  BY <1>1 DEF PoolInv, TypeOK
<1>7. w \in asked /\ slot[w] = NoSlot
  BY <1>6 DEF PoolInv, WaitersAreWaiting, Holders
<1>8. w # c
  BY <1>1, <1>7
<1>9. inUse' = Slots
  BY <1>2, <1>3, <1>5 DEF HandOver, Marked
<1>10. slot' = [slot EXCEPT ![c] = NoSlot, ![w] = slot[c]]
  BY <1>5 DEF HandOver, NextWaiter
<1>11. cursor' \in Slots
  BY <1>2, <1>5, WrapIsSlot DEF HandOver, MoveCursor
<1>12. waiters' = Tail(waiters) /\ asked' = asked
  BY DEF HandOver, NextWaiter
<1>13. slot' = [x \in Callers |-> IF x = c THEN NoSlot
                                  ELSE IF x = w THEN slot[c]
                                  ELSE slot[x]]
  BY <1>2, <1>6, <1>8, <1>10
<1> QED
  BY <1>1, <1>2, <1>3, <1>6, <1>7, <1>8, <1>9, <1>11, <1>12, <1>13

LEMMA PoolInit ==
  ASSUME PoolConstants
  PROVE  Init => PoolInv
BY DEF PoolConstants, Init, PoolInv, TypeOK, OneHolder, InUseIsHeld, NobodyWaitsForFreeSlot,
       WaitersAreWaiting, HoldersAsked, Holders, Slots

LEMMA AcquireFreeKeeps ==
  ASSUME PoolConstants, PoolInv, NEW c \in Callers, AcquireFree(c)
  PROVE  PoolInv'
<1>1. PICK s \in Slots \ inUse :
            /\ slot[c] = NoSlot
            /\ slot' = [slot EXCEPT ![c] = s]
            /\ inUse' = inUse \cup {s}
            /\ cursor' \in Slots
            /\ waiters = << >>
            /\ waiters' = << >>
            /\ asked' = asked \cup {c}
  BY AcquireFreeStep
<1> USE DEF PoolInv
<1>2. s # NoSlot
  BY DEF PoolConstants
<1>3. slot \in [Callers -> Slots \cup {NoSlot}]
  BY DEF TypeOK
<1>4. Holders' = Holders \cup {c} /\ c \notin Holders
  BY <1>1, <1>2, <1>3 DEF Holders
<1>5. \A d \in Holders : slot'[d] = slot[d] /\ slot[d] # s
  BY <1>1, <1>3, <1>4 DEF Holders, InUseIsHeld
<1>6. slot'[c] = s
  BY <1>1, <1>3
<1>7. TypeOK'
  BY <1>1 DEF TypeOK
<1>8. OneHolder'
  BY <1>4, <1>5, <1>6 DEF OneHolder
<1>9. InUseIsHeld'
  <2>1. {slot'[d] : d \in Holders'} = {slot[d] : d \in Holders} \cup {s}
    BY <1>4, <1>5, <1>6
  <2> QED
    BY <1>1, <2>1 DEF InUseIsHeld
<1>10. NobodyWaitsForFreeSlot' /\ WaitersAreWaiting'
  BY <1>1 DEF NobodyWaitsForFreeSlot, WaitersAreWaiting
<1>11. HoldersAsked'
  BY <1>1, <1>4 DEF HoldersAsked
<1> QED
  BY <1>7, <1>8, <1>9, <1>10, <1>11

LEMMA AcquireWaitsKeeps ==
  ASSUME PoolInv, NEW c \in Callers, AcquireWaits(c)
  PROVE  PoolInv'
<1> USE DEF PoolInv, AcquireWaits
<1>1. c \notin Holders /\ Holders' = Holders
  BY DEF HoldersAsked, Holders
<1>2. TypeOK'
  BY DEF TypeOK
<1>3. OneHolder'
  BY <1>1 DEF OneHolder
<1>4. InUseIsHeld'
  BY <1>1 DEF InUseIsHeld
<1>5. NobodyWaitsForFreeSlot'
  BY DEF NobodyWaitsForFreeSlot
<1>6. WaitersAreWaiting'
  <2>1. waiters \in Seq(Callers) /\ waiters' = Append(waiters, c)
    BY DEF TypeOK
  <2>2. DOMAIN waiters' = 1 .. Len(waiters) + 1
    BY <2>1
  <2>3. \A j \in 1 .. Len(waiters) : waiters'[j] = waiters[j] /\ j \in DOMAIN waiters
    BY <2>1
  <2>4. waiters'[Len(waiters) + 1] = c
    BY <2>1
  <2>5. \A j \in 1 .. Len(waiters) : waiters[j] \in asked \ Holders
    BY <2>3 DEF WaitersAreWaiting
  <2>6. \A j, k \in 1 .. Len(waiters) : waiters[j] = waiters[k] => j = k
    BY <2>3 DEF WaitersAreWaiting
  <2>7. Len(waiters) \in Nat
    BY <2>1
  <2>8. \A j \in DOMAIN waiters' : waiters'[j] \in asked' \ Holders'
    BY <1>1, <2>2, <2>3, <2>4, <2>5, <2>7
  <2>9. \A j, k \in DOMAIN waiters' : waiters'[j] = waiters'[k] => j = k
    BY <2>2, <2>3, <2>4, <2>5, <2>6, <2>7
  <2> QED
    BY <2>8, <2>9 DEF WaitersAreWaiting
<1>7. HoldersAsked'
  BY <1>1 DEF HoldersAsked
<1> QED
  BY <1>2, <1>3, <1>4, <1>5, <1>6, <1>7

LEMMA ReleaseIdleKeeps ==
  ASSUME PoolInv, NEW c \in Callers, ReleaseIdle(c)
  PROVE  PoolInv'
<1> USE DEF PoolInv, ReleaseIdle
<1>1. slot \in [Callers -> Slots \cup {NoSlot}]
  BY DEF TypeOK
<1>2. c \in Holders /\ Holders' = Holders \ {c}
  BY <1>1 DEF Holders
<1>3. \A d \in Holders' : slot'[d] = slot[d] /\ slot[d] # slot[c]
  BY <1>1, <1>2 DEF OneHolder
<1>4. TypeOK'
  BY DEF TypeOK
<1>5. OneHolder'
  BY <1>2, <1>3 DEF OneHolder
<1>6. InUseIsHeld'
  <2>1. {slot'[d] : d \in Holders'} = {slot[d] : d \in Holders} \ {slot[c]}
    BY <1>2, <1>3
  <2> QED
    BY <2>1 DEF InUseIsHeld
<1>7. NobodyWaitsForFreeSlot' /\ WaitersAreWaiting'
  BY DEF NobodyWaitsForFreeSlot, WaitersAreWaiting
<1>8. HoldersAsked'
  BY <1>2 DEF HoldersAsked
<1> QED
  BY <1>4, <1>5, <1>6, <1>7, <1>8

LEMMA HandOverKeeps ==
  ASSUME PoolConstants, PoolInv, NEW c \in Callers, HandOver(c)
  PROVE  PoolInv'
<1>1. PICK w \in Callers :
            /\ waiters # << >>
            /\ w = Head(waiters)
            /\ w # c
            /\ w \in asked
            /\ slot[c] \in Slots
            /\ slot[w] = NoSlot
            /\ slot' = [x \in Callers |-> IF x = c THEN NoSlot
                                          ELSE IF x = w THEN slot[c]
                                          ELSE slot[x]]
            /\ inUse = Slots
            /\ inUse' = Slots
            /\ cursor' \in Slots
            /\ waiters' = Tail(waiters)
            /\ asked' = asked
  BY HandOverStep
<1> USE DEF PoolInv
<1>2. slot \in [Callers -> Slots \cup {NoSlot}] /\ waiters \in Seq(Callers)
  BY DEF TypeOK
<1>3. c \in Holders /\ w \notin Holders /\ slot[c] # NoSlot
  BY <1>1 DEF PoolConstants, Holders
<1>4. Holders' = (Holders \ {c}) \cup {w}
  BY <1>1, <1>2, <1>3 DEF Holders
<1>5. \A d \in Holders \ {c} : slot'[d] = slot[d] /\ slot[d] # slot[c]
  BY <1>1, <1>3 DEF Holders, OneHolder
<1>6. slot'[w] = slot[c]
  BY <1>1
<1>7. TypeOK'
  <2>1. waiters' \in Seq(Callers)
    BY <1>1, <1>2
  <2>2. slot' \in [Callers -> Slots \cup {NoSlot}]
    BY <1>1, <1>2
  <2> QED
    BY <1>1, <2>1, <2>2 DEF TypeOK
<1>8. OneHolder'
  BY <1>4, <1>5, <1>6 DEF OneHolder
<1>9. InUseIsHeld'
  <2>1. {slot'[d] : d \in Holders'} = {slot[d] : d \in Holders}
    BY <1>3, <1>4, <1>5, <1>6
  <2> QED
    BY <1>1, <2>1 DEF InUseIsHeld
<1>10. NobodyWaitsForFreeSlot'
  BY <1>1 DEF NobodyWaitsForFreeSlot
<1>11. WaitersAreWaiting'
  <2>1. \A j \in DOMAIN waiters' : /\ j + 1 \in DOMAIN waiters
                                   /\ waiters'[j] = waiters[j + 1]
                                   /\ j \in Nat
                                   /\ j + 1 # 1
    BY <1>1, <1>2
  <2>2. 1 \in DOMAIN waiters /\ w = waiters[1]
    BY <1>1, <1>2
  <2>3. \A j \in DOMAIN waiters' : waiters'[j] # w
    BY <2>1, <2>2 DEF WaitersAreWaiting
  <2>4. \A j \in DOMAIN waiters' : waiters'[j] \in asked \ Holders
    BY <2>1 DEF WaitersAreWaiting
  <2>5. \A j \in DOMAIN waiters' : waiters'[j] \in asked' \ Holders'
    BY <1>1, <1>4, <2>3, <2>4
  <2>6. \A j, k \in DOMAIN waiters' : waiters'[j] = waiters'[k] => j + 1 = k + 1
    BY <2>1 DEF WaitersAreWaiting
  <2>7. \A j, k \in DOMAIN waiters' : waiters'[j] = waiters'[k] => j = k
    BY <2>1, <2>6
  <2> QED
    BY <2>5, <2>7 DEF WaitersAreWaiting
<1>12. HoldersAsked'
  BY <1>1, <1>4 DEF HoldersAsked
<1> QED
  BY <1>7, <1>8, <1>9, <1>10, <1>11, <1>12

LEMMA NewPoolKeeps ==
  ASSUME PoolConstants, PoolInv, NewPool
  PROVE  PoolInv'
<1> USE DEF PoolInv, NewPool
<1>1. Holders' = {}
  BY DEF Holders
<1>2. TypeOK'
  BY DEF PoolConstants, TypeOK, Slots
<1> QED
  BY <1>1, <1>2 DEF OneHolder, InUseIsHeld, NobodyWaitsForFreeSlot,
                    WaitersAreWaiting, HoldersAsked

LEMMA PoolStep ==
  ASSUME PoolConstants
  PROVE  PoolInv /\ [Next]_vars => PoolInv'
<1> SUFFICES ASSUME PoolInv, [Next]_vars
             PROVE  PoolInv'
  OBVIOUS
<1>1. ASSUME NEW c \in Callers, Acquire(c)
      PROVE  PoolInv'
  BY <1>1, AcquireFreeKeeps, AcquireWaitsKeeps DEF Acquire
<1>2. ASSUME NEW c \in Callers, Release(c)
      PROVE  PoolInv'
  BY <1>2, ReleaseIdleKeeps, HandOverKeeps DEF Release
<1>3. CASE NewPool
  BY <1>3, NewPoolKeeps
<1>4. CASE UNCHANGED vars
  BY <1>4 DEF PoolInv, TypeOK, OneHolder, InUseIsHeld, NobodyWaitsForFreeSlot,
              WaitersAreWaiting, HoldersAsked, Holders
<1> QED
  BY <1>1, <1>2, <1>3, <1>4 DEF Next

THEOREM PoolCorrect ==
  ASSUME PoolConstants
  PROVE  Spec => []PoolInv
<1> QED
  BY PoolInit, PoolStep, PTL DEF Spec

\* The pool's variables keep their types.
THEOREM PoolTypeCorrect ==
  ASSUME PoolConstants
  PROVE  Spec => []TypeOK
<1>1. PoolInv => TypeOK
  BY DEF PoolInv
<1> QED
  BY <1>1, PoolCorrect, PTL

\* Two contracts never extend through one channel account at the same time.
THEOREM MutualExclusion ==
  ASSUME PoolConstants
  PROVE  Spec => []OneHolder
<1>1. PoolInv => OneHolder
  BY DEF PoolInv
<1> QED
  BY <1>1, PoolCorrect, PTL

\* The accounts marked in use are the ones contracts hold: none leaks.
THEOREM NoLeak ==
  ASSUME PoolConstants
  PROVE  Spec => []InUseIsHeld
<1>1. PoolInv => InUseIsHeld
  BY DEF PoolInv
<1> QED
  BY <1>1, PoolCorrect, PTL

\* A contract waits only while every account is in use.
THEOREM NoLostWakeup ==
  ASSUME PoolConstants
  PROVE  Spec => []NobodyWaitsForFreeSlot
<1>1. PoolInv => NobodyWaitsForFreeSlot
  BY DEF PoolInv
<1> QED
  BY <1>1, PoolCorrect, PTL

\* The hand-over of accounts is sound in all three respects.
THEOREM SlotsSound ==
  ASSUME PoolConstants
  PROVE  Spec => []SlotsAreSound
<1>1. PoolInv => SlotsAreSound
  BY DEF PoolInv, SlotsAreSound
<1> QED
  BY <1>1, PoolCorrect, PTL

-----------------------------------------------------------------------------
(* The pool implements the first-come, first-served allocator.                *)

LEMMA TakenIsInUse ==
  ASSUME PoolConstants, PoolInv
  PROVE  Allocator!Taken = inUse
<1>1. slot \in [Callers -> Slots \cup {NoSlot}] /\ NoSlot \notin Slots
  BY DEF PoolConstants, PoolInv, TypeOK
<1>2. inUse = {slot[c] : c \in Holders}
  BY DEF PoolInv, InUseIsHeld
<1> QED
  BY <1>1, <1>2 DEF Allocator!Taken, Holders

LEMMA StepIsAllocation ==
  ASSUME PoolConstants, PoolInv, [Next]_vars
  PROVE  [Allocator!Next]_(Allocator!allocation)
<1> USE DEF Allocator!allocation, Allocator!Next
<1>1. ASSUME NEW c \in Callers, AcquireFree(c)
      PROVE  Allocator!Take(c)
  BY <1>1, AcquireFreeStep, TakenIsInUse DEF AcquireFree, Allocator!Take, Allocator!Free
<1>2. ASSUME NEW c \in Callers, AcquireWaits(c)
      PROVE  Allocator!Wait(c)
  BY <1>2, TakenIsInUse DEF AcquireWaits, Allocator!Wait, Allocator!Free
<1>3. ASSUME NEW c \in Callers, ReleaseIdle(c)
      PROVE  Allocator!GiveBack(c)
  BY <1>3 DEF ReleaseIdle, Allocator!GiveBack
<1>4. ASSUME NEW c \in Callers, HandOver(c)
      PROVE  Allocator!PassOn(c)
  <2>1. PICK w \in Callers :
            /\ waiters # << >>
            /\ w = Head(waiters)
            /\ w # c
            /\ slot[c] \in Slots
            /\ slot' = [x \in Callers |-> IF x = c THEN NoSlot
                                          ELSE IF x = w THEN slot[c]
                                          ELSE slot[x]]
            /\ waiters' = Tail(waiters)
            /\ asked' = asked
    BY <1>4, HandOverStep
  <2>2. slot \in [Callers -> Slots \cup {NoSlot}]
    BY DEF PoolInv, TypeOK
  <2>3. slot' = [slot EXCEPT ![c] = NoSlot, ![Head(waiters)] = slot[c]]
    BY <2>1, <2>2
  <2>4. slot[c] # NoSlot
    BY <1>4 DEF HandOver
  <2> QED
    BY <2>1, <2>3, <2>4 DEF Allocator!PassOn
<1>5. NewPool => Allocator!Rebuild
  BY DEF NewPool, Allocator!Rebuild
<1>6. CASE UNCHANGED vars
  BY <1>6
<1> QED
  BY <1>1, <1>2, <1>3, <1>4, <1>5, <1>6 DEF Next, Acquire, Release

\* Whatever the cursor does, callers see slots given out one at a time, at once
\* while one is free, and in the order of asking when none is.
THEOREM PoolImplementsAllocator ==
  ASSUME PoolConstants
  PROVE  Spec => ImplementsAllocator
<1>1. Init => Allocator!Init
  BY DEF Init, Allocator!Init
<1>2. PoolInv /\ [Next]_vars => [Allocator!Next]_(Allocator!allocation)
  BY StepIsAllocation
<1> QED
  BY <1>1, <1>2, PoolCorrect, PTL DEF Spec, ImplementsAllocator, Allocator!Spec

-----------------------------------------------------------------------------
(* The order of the hand-outs. An account is the further ahead the later the   *)
(* scan reaches it from the cursor; what was handed out since an account is     *)
(* free is behind it.                                                          *)

Ahead(s) == IF s >= cursor THEN s - cursor ELSE s - cursor + NumAccounts

OrderInv ==
  /\ since \in [Slots -> SUBSET Slots]
  /\ \A s \in Slots \ inUse : \A t \in since[s] : Ahead(t) > Ahead(s)

\* The scan looks at the accounts in this order.
LEMMA ScanInOrder ==
  ASSUME PoolConstants, TypeOK
  PROVE  /\ \A s \in Slots : Ahead(s) \in Slots /\ Scan(Ahead(s)) = s
         /\ \A i \in Slots : Ahead(Scan(i)) = i
<1> USE DEF PoolConstants, Slots, Scan, TypeOK
<1>1. ASSUME NEW s \in Slots
      PROVE  Ahead(s) \in Slots /\ Scan(Ahead(s)) = s
  <2>1. CASE s >= cursor
    <3>1. Ahead(s) \in Slots /\ cursor + Ahead(s) = s
      BY <2>1 DEF Ahead
    <3>2. s % NumAccounts = s
      OBVIOUS
    <3> QED
      BY <3>1, <3>2
  <2>2. CASE s < cursor
    <3>1. Ahead(s) \in Slots /\ cursor + Ahead(s) = s + NumAccounts
      BY <2>2 DEF Ahead
    <3>2. (s + NumAccounts) % NumAccounts = s
      OBVIOUS
    <3> QED
      BY <3>1, <3>2
  <2> QED
    BY <2>1, <2>2
<1>2. ASSUME NEW i \in Slots
      PROVE  Ahead(Scan(i)) = i
  <2>1. CASE cursor + i < NumAccounts
    <3> DEFINE k == cursor + i
    <3>1. k \in Nat /\ k < NumAccounts /\ cursor <= k /\ k - cursor = i
      BY <2>1
    <3>2. k % NumAccounts = k
      BY <3>1
    <3> QED
      BY <3>1, <3>2 DEF Ahead
  <2>2. CASE cursor + i >= NumAccounts
    <3> DEFINE k == cursor + i - NumAccounts
    <3>1. k \in Slots /\ cursor + i = k + NumAccounts /\ k < cursor
      BY <2>2
    <3>2. (k + NumAccounts) % NumAccounts = k
      BY <3>1
    <3>3. Scan(i) = k
      BY <3>1, <3>2
    <3> QED
      BY <3>1, <3>3 DEF Ahead
  <2> QED
    BY <2>1, <2>2
<1> QED
  BY <1>1, <1>2

\* nextFreeSlot returns the free account that is least far ahead.
LEMMA NextFreeIsNearest ==
  ASSUME PoolConstants, TypeOK, inUse # Slots
  PROVE  LET s == NextFree(inUse) IN
         /\ s \in Slots \ inUse
         /\ \A t \in Slots \ inUse : t = s \/ Ahead(s) < Ahead(t)
<1> DEFINE F == FreeOffsets(inUse)
           m == Min(F)
           s == NextFree(inUse)
<1>1. s \in Slots \ inUse
  BY NextFreeIsFree DEF TypeOK
<1>2. F \in SUBSET Nat /\ F \subseteq Slots
  BY DEF PoolConstants, FreeOffsets, Slots
<1>3. \A t \in Slots \ inUse : Ahead(t) \in F
  BY ScanInOrder DEF FreeOffsets
<1>4. m \in F /\ \A i \in F : m <= i
  <2>1. F # {}
    BY <1>1, <1>3
  <2> QED
    BY <1>2, <2>1, LeastExists
<1>5. s = Scan(m) /\ m \in Slots
  BY <1>2, <1>4 DEF NextFree
<1>6. Ahead(s) = m
  BY <1>5, ScanInOrder
<1>7. ASSUME NEW t \in Slots \ inUse, t # s
      PROVE  m < Ahead(t)
  <2>1. Ahead(t) \in F /\ Scan(Ahead(t)) = t
    BY <1>3, ScanInOrder
  <2>2. Ahead(t) # m
    BY <1>5, <1>7, <2>1
  <2> HIDE DEF F, m
  <2>3. m \in Nat /\ Ahead(t) \in Nat
    BY <1>2, <1>4, <2>1
  <2> QED
    BY <1>4, <2>1, <2>2, <2>3
<1> HIDE DEF F, m, s
<1> QED
  BY <1>1, <1>6, <1>7 DEF s

\* A hand-out to a caller that asks: of the nearest account, which then is furthest.
LEMMA HandedOut ==
  ASSUME PoolConstants, PoolInv, NEW c \in Callers, AcquireFree(c)
  PROVE  \E s \in Slots \ inUse :
             /\ inUse' = inUse \cup {s}
             /\ \A t : Handed(t) => t = s
             /\ \A t \in Slots \ inUse : t = s \/ Ahead(s) < Ahead(t)
             /\ \A t \in Slots : Ahead(t)' = IF Ahead(t) > Ahead(s)
                                             THEN Ahead(t) - Ahead(s) - 1
                                             ELSE Ahead(t) - Ahead(s) - 1 + NumAccounts
<1> DEFINE s == NextFree(inUse)
<1>1. /\ s \in Slots \ inUse
      /\ \A t \in Slots \ inUse : t = s \/ Ahead(s) < Ahead(t)
  BY NextFreeIsNearest DEF AcquireFree, PoolInv
<1>2. /\ inUse' = inUse \cup {s} /\ cursor' = (s + 1) % NumAccounts
      /\ slot' = [slot EXCEPT ![c] = s]
  BY DEF AcquireFree, Marked, MoveCursor
<1> HIDE DEF s
<1>3. \A t : Handed(t) => t = s
  BY <1>2 DEF Handed, PoolInv, TypeOK
<1>4. NumAccounts \in Nat \ {0} /\ cursor \in 0 .. NumAccounts - 1 /\ s \in 0 .. NumAccounts - 1
  BY <1>1 DEF PoolConstants, PoolInv, TypeOK, Slots
<1>5. cursor' = IF s + 1 = NumAccounts THEN 0 ELSE s + 1
  <2>1. CASE s + 1 = NumAccounts
    <3>1. NumAccounts % NumAccounts = 0
      BY <1>4
    <3> QED
      BY <1>2, <2>1, <3>1
  <2>2. CASE s + 1 < NumAccounts
    BY <1>2, <1>4, <2>2
  <2> QED
    BY <1>4, <2>1, <2>2
<1>6. ASSUME NEW t \in Slots
      PROVE  Ahead(t)' = IF Ahead(t) > Ahead(s) THEN Ahead(t) - Ahead(s) - 1
                         ELSE Ahead(t) - Ahead(s) - 1 + NumAccounts
  <2>1. t \in 0 .. NumAccounts - 1
    BY DEF Slots
  <2> QED
    BY <1>4, <1>5, <2>1 DEF Ahead
<1> QED
  BY <1>1, <1>2, <1>3, <1>6

\* Handing out only takes from the front of the order.
LEMMA OrderStep ==
  ASSUME PoolConstants, PoolInv, OrderInv, OrderNext
  PROVE  /\ OrderInv'
         /\ \A s \in Slots \ (inUse \cup inUse') : \A t \in since[s] : ~ Handed(t)
<1>1. /\ since' \in [Slots -> SUBSET Slots]
      /\ \A s \in Slots : since'[s] = IF s \in inUse \cup inUse' \/ asked' = {} THEN {}
                                      ELSE since[s] \cup {t \in Slots : Handed(t)}
  BY DEF OrderNext, OrderInv
<1>2. ASSUME NEW c \in Callers, AcquireFree(c)
      PROVE  /\ OrderInv'
             /\ \A s \in Slots \ (inUse \cup inUse') : \A t \in since[s] : ~ Handed(t)
  <2>1. PICK h \in Slots \ inUse :
             /\ inUse' = inUse \cup {h}
             /\ \A t : Handed(t) => t = h
             /\ \A t \in Slots \ inUse : t = h \/ Ahead(h) < Ahead(t)
             /\ \A t \in Slots : Ahead(t)' = IF Ahead(t) > Ahead(h)
                                             THEN Ahead(t) - Ahead(h) - 1
                                             ELSE Ahead(t) - Ahead(h) - 1 + NumAccounts
    BY <1>2, HandedOut
  <2>2. /\ NumAccounts \in Nat \ {0}
        /\ \A t \in Slots : Ahead(t) \in 0 .. NumAccounts - 1
    BY ScanInOrder DEF PoolInv, PoolConstants, Slots
  <2>3. ASSUME NEW s \in Slots \ inUse', NEW t \in since[s]
        PROVE  t \in Slots /\ Ahead(h) < Ahead(s) /\ Ahead(s) < Ahead(t)
    BY <2>1, <2>3 DEF OrderInv
  <2>4. ASSUME NEW s \in Slots \ inUse', NEW t \in since'[s]
        PROVE  Ahead(t)' > Ahead(s)'
    <3>1. t \in since[s] \/ t = h
      BY <1>1, <2>1
    <3>2. Ahead(h) < Ahead(s) /\ s \in Slots
      BY <2>1
    <3>3. Ahead(s)' = Ahead(s) - Ahead(h) - 1
      BY <2>1, <3>2
    <3>4. CASE t \in since[s]
      <4>1. t \in Slots /\ Ahead(s) < Ahead(t)
        BY <2>3, <3>4
      <4>2. Ahead(t)' = Ahead(t) - Ahead(h) - 1
        BY <2>1, <2>2, <3>2, <4>1
      <4> QED
        BY <2>2, <3>2, <3>3, <4>1, <4>2
    <3>5. CASE t = h
      <4>1. Ahead(h)' = Ahead(h) - Ahead(h) - 1 + NumAccounts
        BY <2>1, <2>2
      <4> QED
        BY <2>2, <3>2, <3>3, <3>5, <4>1
    <3> QED
      BY <3>1, <3>4, <3>5
  <2>5. \A s \in Slots \ (inUse \cup inUse') : \A t \in since[s] : ~ Handed(t)
    <3> SUFFICES ASSUME NEW s \in Slots \ (inUse \cup inUse'), NEW t \in since[s]
                 PROVE  t # h
      BY <2>1
    <3>1. Ahead(h) < Ahead(s) /\ Ahead(s) < Ahead(t) /\ t \in Slots
      BY <2>3
    <3> QED
      BY <2>2, <3>1
  <2> QED
    BY <1>1, <2>4, <2>5 DEF OrderInv
<1>3. ASSUME NEW c \in Callers, AcquireWaits(c) \/ HandOver(c)
      PROVE  /\ OrderInv'
             /\ \A s \in Slots \ (inUse \cup inUse') : \A t \in since[s] : ~ Handed(t)
  <2>1. inUse = Slots
    BY <1>3 DEF AcquireWaits, HandOver, PoolInv, NobodyWaitsForFreeSlot
  <2>2. \A s \in Slots : since'[s] = {}
    BY <1>1, <2>1
  <2> QED
    BY <1>1, <2>1, <2>2 DEF OrderInv
<1>4. ASSUME NEW c \in Callers, ReleaseIdle(c)
      PROVE  /\ OrderInv'
             /\ \A s \in Slots \ (inUse \cup inUse') : \A t \in since[s] : ~ Handed(t)
  <2>1. \A t \in Slots : ~ Handed(t)
    BY <1>4 DEF ReleaseIdle, Handed, PoolInv, TypeOK, PoolConstants
  <2>2. cursor' = cursor /\ inUse' \subseteq inUse
    BY <1>4 DEF ReleaseIdle
  <2>3. \A s \in Slots \ inUse' : since'[s] \subseteq since[s] /\ (s \in inUse => since'[s] = {})
    BY <1>1, <2>1
  <2>4. \A s : Ahead(s)' = Ahead(s)
    BY <2>2 DEF Ahead
  <2>5. \A s \in Slots \ inUse' : \A t \in since'[s] : Ahead(t)' > Ahead(s)'
    BY <2>3, <2>4 DEF OrderInv
  <2> QED
    BY <1>1, <2>1, <2>5 DEF OrderInv
<1>5. ASSUME NewPool
      PROVE  /\ OrderInv'
             /\ \A s \in Slots \ (inUse \cup inUse') : \A t \in since[s] : ~ Handed(t)
  <2>1. asked' = {} /\ slot' = slot
    BY <1>5 DEF NewPool
  <2>2. \A t : ~ Handed(t)
    BY <2>1 DEF Handed
  <2>3. \A s \in Slots : since'[s] = {}
    BY <1>1, <2>1
  <2> QED
    BY <1>1, <2>2, <2>3 DEF OrderInv
<1> QED
  BY <1>2, <1>3, <1>4, <1>5 DEF OrderNext, Next, Acquire, Release

\* acquire() hands an account that stays free out before another one twice, for any
\* numbers of accounts and contracts.
THEOREM RoundRobinHolds ==
  ASSUME PoolConstants
  PROVE  OrderSpec => RoundRobin
<1>1. OrderInit => PoolInv /\ OrderInv
  BY PoolInit DEF OrderInit, OrderInv
<1>2. PoolInv /\ OrderInv /\ [OrderNext]_orderVars => PoolInv' /\ OrderInv'
  <2>1. CASE OrderNext
    BY <2>1, OrderStep, PoolStep DEF OrderNext
  <2>2. CASE UNCHANGED orderVars
    <3>1. UNCHANGED vars /\ UNCHANGED since
      BY <2>2 DEF orderVars
    <3>2. \A s : Ahead(s)' = Ahead(s)
      BY <3>1 DEF Ahead
    <3>3. OrderInv => OrderInv'
      BY <3>1, <3>2 DEF OrderInv
    <3> QED
      BY <3>1, <3>3, PoolStep
  <2> QED
    BY <2>1, <2>2
<1>3. PoolInv /\ OrderInv /\ [OrderNext]_orderVars =>
          [\A s \in Slots \ (inUse \cup inUse') : \A t \in since[s] : ~ Handed(t)]_orderVars
  BY OrderStep
<1> QED
  BY <1>1, <1>2, <1>3, PTL DEF OrderSpec, RoundRobin

=============================================================================
