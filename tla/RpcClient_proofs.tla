-------------------------- MODULE RpcClient_proofs --------------------------
(* The two halves of the RPC client. The limiter keeps its rate, for any      *)
(* limit, window, lateness and callers. For any calls and accounts, any       *)
(* number of polls, of transactions of other users and of rejected awaits, no *)
(* call lands twice, what a call reports is so, and a bad sequence number is  *)
(* reported only when the account was used twice by others.                   *)
EXTENDS RpcLimiter, TxSubmit, FiniteSetTheorems, TLAPS

-----------------------------------------------------------------------------
(* The limiter.                                                              *)

\* Reservations are made in the order of their times, ...
Sorted == \A i, j \in DOMAIN slots : i <= j => slots[i] <= slots[j]

\* ... Limit of them at most in a window, ...
Spaced == \A i, j \in DOMAIN slots : j >= i + Limit => slots[j] >= slots[i] + Window

\* ... and one in the future was pushed there by the one that blocked it.
Booked ==
    \A j \in DOMAIN slots :
        slots[j] > now => j > Limit /\ slots[j] = slots[j - Limit] + Window

\* The timers of sleeping requests are at most MaxLate behind.
Sleeping ==
    \A c \in Callers :
        stage[c] = "sleeps" => /\ req[c] \in DOMAIN slots
                               /\ now <= slots[req[c]] + MaxLate

\* What was sent was sent at its time, give or take the lateness of its timer.
SentOnTime ==
    \A i \in DOMAIN slots :
        started[i] # NotYet => /\ slots[i] <= started[i]
                               /\ started[i] <= slots[i] + MaxLate

IInv == LimiterTypeOK /\ Sorted /\ Spaced /\ Booked /\ Sleeping /\ SentOnTime

-----------------------------------------------------------------------------
(* The list of acquireSlot: Recent is an end piece of the reservations.       *)

LEMMA IntervalSize ==
  ASSUME NEW k \in Nat, NEW n \in Nat
  PROVE  /\ IsFiniteSet(k .. n)
         /\ Cardinality(k .. n) = IF k > n THEN 0 ELSE n - k + 1
BY FS_Interval

LEMMA FirstSize ==
  ASSUME NEW k \in Nat
  PROVE  IsFiniteSet(1 .. k) /\ Cardinality(1 .. k) = k
<1>1. /\ IsFiniteSet(1 .. k)
      /\ Cardinality(1 .. k) = IF 1 > k THEN 0 ELSE k - 1 + 1
  BY IntervalSize
<1> QED
  BY <1>1

\* The request Limit places from the end.
Back == Len(slots) + 1 - Limit

LEMMA SlotTypes ==
  ASSUME LimiterTypeOK
  PROVE  /\ now \in Nat /\ Window \in Nat /\ Limit \in Nat /\ Limit >= 1
         /\ MaxLate \in Nat /\ Interval \in Nat
         /\ Len(slots) \in Nat /\ DOMAIN slots = 1 .. Len(slots)
         /\ \A i \in DOMAIN slots : slots[i] \in Nat
         /\ Back \in Int
BY LimiterAssumption DEF LimiterTypeOK, Back

\* While fewer than Limit reservations are in the window, the one Limit places
\* from the end is not among them.
LEMMA BackIsOld ==
  ASSUME LimiterTypeOK, Sorted, Cardinality(Recent) < Limit, Back >= 1
  PROVE  Back \notin Recent
<1> SUFFICES ASSUME Back \in Recent PROVE FALSE
  OBVIOUS
<1> DEFINE n == Len(slots)
<1>1. n \in Nat /\ Back \in Nat /\ Limit \in Nat /\ DOMAIN slots = 1 .. n
  BY SlotTypes
<1>2. Back .. n \subseteq Recent
  <2>1. SUFFICES ASSUME NEW i \in Back .. n PROVE i \in Recent
    OBVIOUS
  <2>2. i \in DOMAIN slots /\ Back \in DOMAIN slots /\ Back <= i
    BY <1>1
  <2>3. slots[Back] <= slots[i]
    BY <2>2 DEF Sorted
  <2> QED
    BY <2>2, <2>3, SlotTypes DEF Recent
<1>3. IsFiniteSet(Recent)
  <2>1. Recent \subseteq 1 .. n
    BY <1>1 DEF Recent
  <2> QED
    BY <2>1, <1>1, IntervalSize, FS_Subset
<1>4. Cardinality(Back .. n) = Limit
  BY <1>1, IntervalSize, SlotTypes DEF Back
<1>5. Cardinality(Back .. n) <= Cardinality(Recent)
  BY <1>2, <1>3, FS_Subset
<1>6. Cardinality(Recent) \in Nat
  BY <1>3, FS_CardinalityType
<1> QED
  BY <1>1, <1>4, <1>5, <1>6

\* Otherwise it is, and it is the one the code calls blocking.
LEMMA BackBlocks ==
  ASSUME LimiterTypeOK, Sorted, ~ (Cardinality(Recent) < Limit)
  PROVE  /\ Back \in Recent
         /\ Blocking = Back
<1> DEFINE n == Len(slots)
<1>1. n \in Nat /\ Limit \in Nat /\ Limit >= 1 /\ DOMAIN slots = 1 .. n /\ Back \in Int
  BY SlotTypes
<1>2. Recent \subseteq 1 .. n
  BY <1>1 DEF Recent
<1>3. IsFiniteSet(Recent) /\ Cardinality(Recent) \in Nat /\ Cardinality(Recent) <= n
  <2>1. IsFiniteSet(1 .. n) /\ Cardinality(1 .. n) = n
    BY <1>1, FirstSize
  <2>2. IsFiniteSet(Recent) /\ Cardinality(Recent) <= Cardinality(1 .. n)
    BY <1>2, <2>1, FS_Subset
  <2>3. Cardinality(Recent) \in Nat
    BY <2>2, FS_CardinalityType
  <2> QED
    BY <2>1, <2>2, <2>3
<1>4. Back >= 1
  BY <1>1, <1>3 DEF Back
<1>5. \A i \in Recent : \A j \in i .. n : j \in Recent
  <2>1. SUFFICES ASSUME NEW i \in Recent, NEW j \in i .. n PROVE j \in Recent
    OBVIOUS
  <2>2. i \in DOMAIN slots /\ j \in DOMAIN slots /\ i <= j
    BY <1>1, <1>2
  <2>3. slots[i] <= slots[j]
    BY <2>2 DEF Sorted
  <2> QED
    BY <2>2, <2>3, SlotTypes DEF Recent
<1>6. Back \in Recent
  <2>1. SUFFICES ASSUME Back \notin Recent PROVE FALSE
    OBVIOUS
  <2>2. Recent \subseteq (Back + 1) .. n
    BY <1>1, <1>2, <1>4, <1>5, <2>1 DEF Back
  <2>3. Back + 1 \in Nat
    BY <1>1, <1>4
  <2>4. /\ IsFiniteSet((Back + 1) .. n)
        /\ Cardinality((Back + 1) .. n) = IF Back + 1 > n THEN 0 ELSE n - (Back + 1) + 1
    BY <1>1, <2>3, IntervalSize
  <2>5. Cardinality(Recent) <= Cardinality((Back + 1) .. n)
    BY <2>2, <2>4, FS_Subset
  <2> QED
    BY <1>1, <1>3, <2>4, <2>5 DEF Back
<1>7. \A i \in Recent : {j \in Recent : j >= i} = i .. n
  <2>1. SUFFICES ASSUME NEW i \in Recent PROVE {j \in Recent : j >= i} = i .. n
    OBVIOUS
  <2>2. i \in Nat
    BY <1>2
  <2>3. \A j \in Recent : j \in Nat /\ j <= n
    BY <1>1, <1>2
  <2>5. \A j \in Recent : j >= i => j \in i .. n
    BY <1>1, <2>2, <2>3
  <2>6. \A j \in i .. n : j \in Recent /\ j >= i
    BY <1>1, <1>5, <2>2
  <2> QED
    BY <2>5, <2>6, Zenon
<1>8. \A i \in Recent : Cardinality({j \in Recent : j >= i}) = n - i + 1
  <2>1. SUFFICES ASSUME NEW i \in Recent
                 PROVE  Cardinality({j \in Recent : j >= i}) = n - i + 1
    OBVIOUS
  <2>2. i \in Nat /\ i <= n /\ n \in Nat
    BY <1>1, <1>2
  <2>3. Cardinality(i .. n) = IF i > n THEN 0 ELSE n - i + 1
    BY <2>2, IntervalSize
  <2>4. {j \in Recent : j >= i} = i .. n
    BY <1>7
  <2>5. Cardinality(i .. n) = n - i + 1
    BY <2>2, <2>3
  <2> QED
    BY <2>4, <2>5
<1>9. \A i \in Recent : Cardinality({j \in Recent : j >= i}) = Limit <=> i = Back
  BY <1>1, <1>2, <1>8 DEF Back
<1> QED
  BY <1>6, <1>9 DEF Blocking

\* What acquireSlot promises of the time it reserves.
LEMMA NextSlotFits ==
  ASSUME IInv
  PROVE  /\ NextSlot \in Nat
         /\ NextSlot >= now
         /\ \A i \in DOMAIN slots : slots[i] <= NextSlot
         /\ \A i \in DOMAIN slots : i <= Back => slots[i] + Window <= NextSlot
         /\ NextSlot > now => Back \in DOMAIN slots /\ NextSlot = slots[Back] + Window
<1> USE DEF IInv
<1>1. CASE Cardinality(Recent) < Limit
  <2>1. NextSlot = now
    BY <1>1 DEF NextSlot
  <2>2. \A i \in DOMAIN slots : i <= Back => slots[i] + Window <= now
    <3>1. SUFFICES ASSUME NEW i \in DOMAIN slots, i <= Back
                   PROVE  slots[i] + Window <= now
      OBVIOUS
    <3>2. Back >= 1 /\ Back \in DOMAIN slots
      BY <3>1, SlotTypes DEF Back
    <3>3. slots[Back] <= now - Window
      BY <1>1, <3>2, BackIsOld, SlotTypes DEF Recent
    <3>4. slots[i] <= slots[Back]
      BY <3>1, <3>2 DEF Sorted
    <3> QED
      BY <3>2, <3>3, <3>4, SlotTypes
  <2>3. \A i \in DOMAIN slots : slots[i] <= now
    <3>1. SUFFICES ASSUME NEW i \in DOMAIN slots, slots[i] > now PROVE FALSE
      BY SlotTypes
    <3>2. i > Limit /\ slots[i] = slots[i - Limit] + Window
      BY <3>1 DEF Booked
    <3>3. i - Limit \in DOMAIN slots /\ i - Limit <= Back
      BY <3>2, SlotTypes DEF Back
    <3> QED
      BY <2>2, <3>1, <3>2, <3>3, SlotTypes
  <2> QED
    BY <2>1, <2>2, <2>3, SlotTypes
<1>2. CASE ~ (Cardinality(Recent) < Limit)
  <2>1. NextSlot = slots[Back] + Window /\ Back \in Recent
    BY <1>2, BackBlocks DEF NextSlot
  <2>2. Back \in DOMAIN slots /\ slots[Back] > now - Window
    BY <2>1 DEF Recent
  <2>3. \A i \in DOMAIN slots : i <= Back => slots[i] + Window <= NextSlot
    BY <2>1, <2>2, SlotTypes DEF Sorted
  <2>4. NextSlot > now /\ NextSlot \in Nat
    BY <2>1, <2>2, SlotTypes
  <2>5. \A i \in DOMAIN slots : slots[i] <= NextSlot
    <3>1. SUFFICES ASSUME NEW i \in DOMAIN slots, slots[i] > now PROVE slots[i] <= NextSlot
      BY <2>4, SlotTypes
    <3>2. i > Limit /\ slots[i] = slots[i - Limit] + Window
      BY <3>1 DEF Booked
    <3>3. i - Limit \in DOMAIN slots /\ i - Limit <= Back
      BY <3>2, SlotTypes DEF Back
    <3> QED
      BY <2>3, <3>2, <3>3
  <2> QED
    BY <2>1, <2>2, <2>3, <2>4, <2>5, SlotTypes
<1> QED
  BY <1>1, <1>2

-----------------------------------------------------------------------------

\* Every action that reserves keeps the invariant.
LEMMA ReserveKeepsInv ==
  ASSUME IInv, NEW c \in Callers, Reserve(c), now' = now,
         due' \in [Callers -> Nat], tries' \in [Callers -> Nat],
         cached' \in BOOLEAN, calls' \in 0 .. MaxCalls
  PROVE  IInv'
<1> DEFINE n == Len(slots)
           s == NextSlot
           t == IF s > now THEN NotYet ELSE now
<1>1. /\ s \in Nat
      /\ s >= now
      /\ \A i \in DOMAIN slots : slots[i] <= s
      /\ \A i \in DOMAIN slots : i <= Back => slots[i] + Window <= s
      /\ s > now => Back \in DOMAIN slots /\ s = slots[Back] + Window
  BY NextSlotFits
<1>2. /\ slots' = Append(slots, s)
      /\ started' = Append(started, t)
      /\ stage' = [stage EXCEPT ![c] = IF s > now THEN "sleeps" ELSE "calls"]
      /\ req' = [req EXCEPT ![c] = n + 1]
  BY DEF Reserve
<1> HIDE DEF s
<1>3. /\ n \in Nat /\ DOMAIN slots = 1 .. n /\ now \in Nat /\ Window \in Nat
      /\ Limit \in Nat /\ Limit >= 1 /\ MaxLate \in Nat
      /\ \A i \in DOMAIN slots : slots[i] \in Nat
  BY SlotTypes DEF IInv
<1>4. t \in Nat \cup {NotYet}
  BY <1>3
<1>5. LimiterTypeOK'
  <2>1. slots' \in Seq(Nat) /\ started' \in Seq(Nat \cup {NotYet}) /\ Len(started') = Len(slots')
    BY <1>1, <1>2, <1>4 DEF IInv, LimiterTypeOK
  <2>2. stage' \in [Callers -> LimiterStages] /\ req' \in [Callers -> Nat]
    BY <1>2, <1>3 DEF IInv, LimiterTypeOK, LimiterStages
  <2> QED
    BY <2>1, <2>2 DEF IInv, LimiterTypeOK
<1>6. /\ DOMAIN slots' = 1 .. n + 1 /\ slots'[n + 1] = s
      /\ \A i \in 1 .. n : slots'[i] = slots[i]
      /\ started'[n + 1] = t
      /\ \A i \in 1 .. n : started'[i] = started[i]
  BY <1>1, <1>2, <1>3, <1>4 DEF IInv, LimiterTypeOK
<1> HIDE DEF t
<1>7. Sorted'
  BY <1>1, <1>3, <1>6 DEF IInv, Sorted
<1>8. Spaced'
  <2>1. SUFFICES ASSUME NEW i \in DOMAIN slots', NEW j \in DOMAIN slots', j >= i + Limit
                 PROVE  slots'[j] >= slots'[i] + Window
    BY DEF Spaced
  <2>2. CASE j = n + 1
    <3>1. i \in DOMAIN slots /\ i <= Back
      BY <1>3, <1>6, <2>1, <2>2 DEF Back
    <3> QED
      BY <1>1, <1>3, <1>6, <2>2, <3>1
  <2>3. CASE j \in 1 .. n
    <3>1. i \in 1 .. n
      BY <1>3, <1>6, <2>1, <2>3
    <3> QED
      BY <1>3, <1>6, <2>1, <2>3, <3>1 DEF IInv, Spaced
  <2> QED
    BY <1>3, <1>6, <2>2, <2>3
<1>9. Booked'
  <2>1. SUFFICES ASSUME NEW j \in DOMAIN slots', slots'[j] > now
                 PROVE  j > Limit /\ slots'[j] = slots'[j - Limit] + Window
    BY DEF Booked
  <2>2. CASE j = n + 1
    <3>1. Back \in 1 .. n /\ s = slots[Back] + Window
      BY <1>1, <1>3, <1>6, <2>1, <2>2
    <3>2. j - Limit = Back
      BY <1>3, <2>2 DEF Back
    <3> QED
      BY <1>3, <1>6, <2>2, <3>1, <3>2
  <2>3. CASE j \in 1 .. n
    <3>1. j > Limit /\ slots[j] = slots[j - Limit] + Window
      BY <1>3, <1>6, <2>1, <2>3 DEF IInv, Booked
    <3>2. j - Limit \in 1 .. n
      BY <1>3, <2>3, <3>1
    <3> QED
      BY <1>6, <2>3, <3>1, <3>2
  <2> QED
    BY <1>3, <1>6, <2>2, <2>3
<1>10. Sleeping'
  <2>1. SUFFICES ASSUME NEW d \in Callers, stage'[d] = "sleeps"
                 PROVE  req'[d] \in DOMAIN slots' /\ now <= slots'[req'[d]] + MaxLate
    BY DEF Sleeping
  <2>2. CASE d = c
    <3>1. req'[d] = n + 1
      BY <1>2, <2>2 DEF IInv, LimiterTypeOK
    <3> QED
      BY <1>1, <1>3, <1>6, <3>1
  <2>3. CASE d # c
    <3>1. req'[d] = req[d] /\ stage[d] = "sleeps"
      BY <1>2, <2>1, <2>3 DEF IInv, LimiterTypeOK
    <3>2. req[d] \in 1 .. n /\ now <= slots[req[d]] + MaxLate
      BY <1>3, <3>1 DEF IInv, Sleeping
    <3> QED
      BY <1>3, <1>6, <3>1, <3>2
  <2> QED
    BY <2>2, <2>3
<1>11. SentOnTime'
  <2>1. SUFFICES ASSUME NEW i \in DOMAIN slots', started'[i] # NotYet
                 PROVE  slots'[i] <= started'[i] /\ started'[i] <= slots'[i] + MaxLate
    BY DEF SentOnTime
  <2>2. CASE i = n + 1
    <3>1. t = now /\ s = now
      BY <1>1, <1>3, <1>6, <2>1, <2>2 DEF t
    <3> QED
      BY <1>3, <1>6, <2>2, <3>1
  <2>3. CASE i \in 1 .. n
    BY <1>3, <1>6, <2>1, <2>3 DEF IInv, SentOnTime
  <2> QED
    BY <1>3, <1>6, <2>2, <2>3
<1> QED
  BY <1>5, <1>7, <1>8, <1>9, <1>10, <1>11 DEF IInv

\* So does one that only moves a caller out of "sleeps" or among the others.
LEMMA MoveKeepsInv ==
  ASSUME IInv, LimiterTypeOK', UNCHANGED <<now, slots, started>>,
         \A c \in Callers : stage'[c] = "sleeps" => stage[c] = "sleeps" /\ req'[c] = req[c]
  PROVE  IInv'
<1>1. Sorted' /\ Spaced' /\ Booked' /\ SentOnTime'
  BY DEF IInv, Sorted, Spaced, Booked, SentOnTime
<1>2. Sleeping'
  BY DEF IInv, Sleeping
<1> QED
  BY <1>1, <1>2 DEF IInv

\* The request is sent once its timer has fired.
LEMMA WakeKeepsInv ==
  ASSUME IInv, NEW c \in Callers, Wake(c)
  PROVE  IInv'
<1>1. /\ req[c] \in DOMAIN slots
      /\ now <= slots[req[c]] + MaxLate /\ slots[req[c]] <= now /\ now \in Nat
      /\ DOMAIN slots = 1 .. Len(slots)
      /\ \A i \in DOMAIN slots : slots[i] \in Nat
  BY SlotTypes DEF IInv, Sleeping, Wake, Fires
<1>2. /\ started' = [started EXCEPT ![req[c]] = now]
      /\ stage' = [stage EXCEPT ![c] = "calls"]
      /\ UNCHANGED <<now, slots, req, due, tries, cached, calls>>
  BY DEF Wake
<1>3. started \in Seq(Nat \cup {NotYet}) /\ DOMAIN started = 1 .. Len(slots)
  BY <1>1 DEF IInv, LimiterTypeOK
<1>4. /\ started' \in Seq(Nat \cup {NotYet}) /\ Len(started') = Len(started)
      /\ started'[req[c]] = now
      /\ \A i \in DOMAIN slots : i # req[c] => started'[i] = started[i]
  BY <1>1, <1>2, <1>3
<1>5. LimiterTypeOK'
  <2>1. stage' \in [Callers -> LimiterStages]
    BY <1>2 DEF IInv, LimiterTypeOK, LimiterStages
  <2> QED
    BY <1>2, <1>4, <2>1 DEF IInv, LimiterTypeOK
<1>6. Sorted' /\ Spaced' /\ Booked'
  BY <1>2 DEF IInv, Sorted, Spaced, Booked
<1>7. Sleeping'
  BY <1>2 DEF IInv, LimiterTypeOK, Sleeping
<1>8. SentOnTime'
  BY <1>1, <1>2, <1>4 DEF IInv, SentOnTime
<1> QED
  BY <1>5, <1>6, <1>7, <1>8 DEF IInv

\* The clock moves, but not past what a timer may be late.
LEMMA TickKeepsInv ==
  ASSUME IInv, Tick
  PROVE  IInv'
<1>1. now' = now + 1 /\ UNCHANGED <<slots, started, stage, req, due, tries, cached, calls>>
  BY DEF Tick
<1>2. now \in Nat /\ \A i \in DOMAIN slots : slots[i] \in Nat
  BY SlotTypes DEF IInv
<1>3. LimiterTypeOK'
  BY <1>1, <1>2 DEF IInv, LimiterTypeOK
<1>4. Sorted' /\ Spaced' /\ SentOnTime'
  BY <1>1 DEF IInv, Sorted, Spaced, SentOnTime
<1>5. Booked'
  BY <1>1, <1>2 DEF IInv, Booked
<1>6. Sleeping'
  <2>1. SUFFICES ASSUME NEW c \in Callers, stage[c] = "sleeps"
                 PROVE  req[c] \in DOMAIN slots /\ now + 1 <= slots[req[c]] + MaxLate
    BY <1>1 DEF Sleeping
  <2>2. req[c] \in DOMAIN slots
    BY <2>1 DEF IInv, Sleeping
  <2>3. slots[req[c]] \in Timers
    BY <2>1 DEF Timers
  <2>4. now < slots[req[c]] + MaxLate
    BY <2>3 DEF Tick
  <2> QED
    BY <1>2, <2>2, <2>4, SlotTypes DEF IInv
<1> QED
  BY <1>3, <1>4, <1>5, <1>6 DEF IInv

\* The variables of the limiter keep their types, reservations are sorted and
\* spaced, and requests are sent on time: the invariant of the client.
THEOREM InvHolds == LimiterSpec => []IInv
<1>1. LimiterInit => IInv
  <2> SUFFICES ASSUME LimiterInit PROVE IInv
    OBVIOUS
  <2>1. /\ slots \in Seq(Nat) /\ started \in Seq(Nat \cup {NotYet})
        /\ Len(slots) = 0 /\ Len(started) = 0 /\ DOMAIN slots = {}
    BY DEF LimiterInit
  <2>2. LimiterTypeOK
    <3>1. calls \in 0 .. MaxCalls /\ now \in Nat
      BY LimiterAssumption DEF LimiterInit
    <3>2. cached \in BOOLEAN
      BY Zenon DEF LimiterInit
    <3>3. /\ stage \in [Callers -> LimiterStages] /\ req \in [Callers -> Nat]
          /\ due \in [Callers -> Nat] /\ tries \in [Callers -> Nat]
      BY DEF LimiterInit, LimiterStages
    <3> QED
      BY <2>1, <3>1, <3>2, <3>3 DEF LimiterTypeOK
  <2>3. Sorted /\ Spaced /\ Booked /\ SentOnTime
    BY <2>1 DEF Sorted, Spaced, Booked, SentOnTime
  <2>4. Sleeping
    BY DEF LimiterInit, Sleeping
  <2> QED
    BY <2>2, <2>3, <2>4 DEF IInv
<1>2. IInv /\ [LimiterNext]_limiterVars => IInv'
  <2> SUFFICES ASSUME IInv, [LimiterNext]_limiterVars PROVE IInv'
    OBVIOUS
  <2>1. CASE Tick
    BY <2>1, TickKeepsInv
  <2>2. ASSUME NEW c \in Callers, Call(c) PROVE IInv'
    <3>1. calls' \in 0 .. MaxCalls
      BY <2>2, LimiterAssumption DEF Call, IInv, LimiterTypeOK
    <3>2. tries' \in [Callers -> Nat] /\ due' \in [Callers -> Nat] /\ cached' \in BOOLEAN
      BY <2>2 DEF Call, IInv, LimiterTypeOK
    <3> QED
      BY <2>2, <3>1, <3>2, ReserveKeepsInv DEF Call
  <2>3. ASSUME NEW c \in Callers, LedgerFallsBack(c) PROVE IInv'
    <3>1. /\ tries' \in [Callers -> Nat] /\ due' \in [Callers -> Nat]
          /\ cached' \in BOOLEAN /\ calls' \in 0 .. MaxCalls
      BY <2>3 DEF LedgerFallsBack, IInv, LimiterTypeOK
    <3> QED
      BY <2>3, <3>1, ReserveKeepsInv DEF LedgerFallsBack
  <2>4. ASSUME NEW c \in Callers, PollAgain(c) PROVE IInv'
    <3>1. /\ tries' \in [Callers -> Nat] /\ due' \in [Callers -> Nat]
          /\ cached' \in BOOLEAN /\ calls' \in 0 .. MaxCalls
      BY <2>4 DEF PollAgain, IInv, LimiterTypeOK
    <3> QED
      BY <2>4, <3>1, ReserveKeepsInv DEF PollAgain
  <2>5. ASSUME NEW c \in Callers, Wake(c) PROVE IInv'
    BY <2>5, WakeKeepsInv
  <2>6. ASSUME NEW c \in Callers,
               \/ SingleReplies(c) \/ LedgerReplies(c) \/ PassphraseReplies(c)
               \/ PollReturns(c) \/ PollTimesOut(c)
        PROVE  IInv'
    <3>1. Return(c) /\ UNCHANGED <<now, slots, started, calls>>
      BY <2>6 DEF SingleReplies, LedgerReplies, PassphraseReplies, PollReturns, PollTimesOut
    <3>2. cached' \in BOOLEAN
      <4>1. CASE PassphraseReplies(c)
        BY <4>1, LimiterAssumption, Zenon DEF PassphraseReplies, IInv, LimiterTypeOK
      <4>2. CASE cached' = cached
        BY <4>2 DEF IInv, LimiterTypeOK
      <4> QED
        BY <2>6, <4>1, <4>2 DEF SingleReplies, LedgerReplies, PollReturns, PollTimesOut
    <3>3. /\ stage' \in [Callers -> LimiterStages] /\ req' \in [Callers -> Nat]
          /\ due' \in [Callers -> Nat] /\ tries' \in [Callers -> Nat]
      BY <3>1 DEF Return, IInv, LimiterTypeOK, LimiterStages
    <3>4. LimiterTypeOK'
      BY <3>1, <3>2, <3>3 DEF IInv, LimiterTypeOK
    <3>5. \A d \in Callers : stage'[d] = "sleeps" => stage[d] = "sleeps" /\ req'[d] = req[d]
      BY <3>1 DEF Return, IInv, LimiterTypeOK
    <3> QED
      BY <3>1, <3>4, <3>5, MoveKeepsInv
  <2>7. ASSUME NEW c \in Callers, PollPauses(c) PROVE IInv'
    <3>1. LimiterTypeOK'
      <4>1. now + Interval \in Nat
        BY SlotTypes DEF IInv
      <4>2. due' \in [Callers -> Nat]
        BY <2>7, <4>1 DEF PollPauses, IInv, LimiterTypeOK
      <4>3. stage' \in [Callers -> LimiterStages]
        BY <2>7 DEF PollPauses, IInv, LimiterTypeOK, LimiterStages
      <4>4. UNCHANGED <<now, slots, started, req, tries, cached, calls>>
        BY <2>7 DEF PollPauses
      <4> QED
        BY <4>2, <4>3, <4>4 DEF IInv, LimiterTypeOK
    <3>2. \A d \in Callers : stage'[d] = "sleeps" => stage[d] = "sleeps" /\ req'[d] = req[d]
      BY <2>7 DEF PollPauses, IInv, LimiterTypeOK
    <3> QED
      BY <2>7, <3>1, <3>2, MoveKeepsInv DEF PollPauses
  <2>8. CASE UNCHANGED limiterVars
    BY <2>8 DEF limiterVars, IInv, LimiterTypeOK, Sorted, Spaced, Booked, Sleeping, SentOnTime
  <2> QED
    BY <2>1, <2>2, <2>3, <2>4, <2>5, <2>6, <2>7, <2>8 DEF LimiterNext, Replies, TimerFires
<1> QED
  BY <1>1, <1>2, PTL DEF LimiterSpec

\* The variables of the client keep their types.
THEOREM LimiterTypes == LimiterSpec => []LimiterTypeOK
BY InvHolds, PTL DEF IInv

\* The rate of RpcLimiter is kept: any request is sent a full window, less the
\* lateness of a timer, after the one Limit places before it.
THEOREM RateIsKeptHolds == LimiterSpec => []RateIsKept
<1>1. IInv => RateIsKept
  <2> SUFFICES ASSUME IInv, NEW i \in DOMAIN started, NEW j \in DOMAIN started,
                      j >= i + Limit, started[i] # NotYet, started[j] # NotYet
               PROVE  started[j] + MaxLate >= started[i] + Window
    BY DEF RateIsKept
  <2>1. DOMAIN started = DOMAIN slots /\ started[i] \in Nat /\ started[j] \in Nat
    BY DEF IInv, LimiterTypeOK
  <2>2. slots[j] >= slots[i] + Window
    BY <2>1 DEF IInv, Spaced
  <2>3. slots[j] <= started[j] /\ started[i] <= slots[i] + MaxLate
    BY <2>1 DEF IInv, SentOnTime
  <2>4. slots[i] \in Nat /\ slots[j] \in Nat /\ Window \in Nat /\ MaxLate \in Nat
    BY <2>1, SlotTypes DEF IInv
  <2> QED
    BY <2>1, <2>2, <2>3, <2>4
<1> QED
  BY <1>1, InvHolds, PTL

\* The slots in the future.
Future == {j \in DOMAIN slots : slots[j] > now}

\* The least element of a set of numbers.
LEMMA LeastNumber ==
  ASSUME NEW S \in SUBSET Nat, S # {}
  PROVE  \E x \in S : \A y \in S : x <= y
<1> DEFINE R == {p \in Nat \X Nat : p[1] < p[2]}
<1>1. IsWellFoundedOn(R, Nat)
  BY NatLessThanWellFounded DEF OpToRel
<1>2. \E x \in S : \A y \in S : ~ (<<y, x>> \in R)
  <2> HIDE DEF R
  <2> QED
    BY <1>1, WFMin
<1>3. \A x, y \in Nat : ~ (<<y, x>> \in R) => x <= y
  OBVIOUS
<1> QED
  BY <1>2, <1>3

\* They are an end piece, too.
LEMMA FutureIsLast ==
  ASSUME IInv
  PROVE  /\ Cardinality(Future) \in 0 .. Len(slots)
         /\ \A j \in DOMAIN slots : slots[j] > now <=> j > Len(slots) - Cardinality(Future)
<1> DEFINE n == Len(slots)
<1>1. n \in Nat /\ DOMAIN slots = 1 .. n /\ now \in Nat /\ \A j \in DOMAIN slots : slots[j] \in Nat
  BY SlotTypes DEF IInv
<1>2. CASE Future = {}
  <2>1. Cardinality(Future) = 0
    BY <1>2, FS_EmptySet
  <2>2. \A j \in DOMAIN slots : ~ (slots[j] > now)
    BY <1>2 DEF Future
  <2> QED
    BY <1>1, <2>1, <2>2
<1>3. CASE Future # {}
  <2>1. Future \in SUBSET Nat
    BY <1>1 DEF Future
  <2>2. PICK a \in Future : \A j \in Future : a <= j
    BY <1>3, <2>1, LeastNumber
  <2>3. a \in 1 .. n /\ slots[a] > now
    BY <1>1, <2>2 DEF Future
  <2>4. \A j \in 1 .. n : j \in Future <=> j >= a
    <3>1. SUFFICES ASSUME NEW j \in 1 .. n, j >= a PROVE j \in Future
      BY <2>2
    <3>2. slots[a] <= slots[j]
      BY <1>1, <2>3, <3>1 DEF IInv, Sorted
    <3> QED
      BY <1>1, <2>3, <3>2 DEF Future
  <2>5. Future = a .. n
    BY <1>1, <2>3, <2>4 DEF Future
  <2>6. Cardinality(a .. n) = n - a + 1
    <3>1. a \in Nat /\ a <= n
      BY <1>1, <2>3
    <3>2. Cardinality(a .. n) = IF a > n THEN 0 ELSE n - a + 1
      BY <1>1, <3>1, IntervalSize
    <3> QED
      BY <1>1, <3>1, <3>2
  <2>7. \A j \in DOMAIN slots : slots[j] > now <=> j \in Future
    BY DEF Future
  <2> HIDE DEF n
  <2> QED
    BY <1>1, <2>3, <2>4, <2>5, <2>6, <2>7 DEF n
<1> QED
  BY <1>2, <1>3

\* A slot is one window ahead for each Limit slots of the future before it.
LEMMA WindowsAhead ==
  ASSUME IInv, NEW q \in Nat, NEW j \in DOMAIN slots,
         j <= Len(slots) - Cardinality(Future) + q * Limit
  PROVE  slots[j] <= now + Window * q
<1> DEFINE m == Len(slots) - Cardinality(Future)
           Late(p, i) == i <= m + p * Limit /\ slots[i] > now + Window * p
           Bad == {p \in Nat : \E i \in DOMAIN slots : Late(p, i)}
<1>1. /\ now \in Nat /\ Window \in Nat /\ Limit \in Nat /\ m \in Int
      /\ DOMAIN slots = 1 .. Len(slots) /\ Len(slots) \in Nat
      /\ \A i \in DOMAIN slots : slots[i] \in Nat
  BY SlotTypes, FutureIsLast DEF IInv
<1>2. \A i \in DOMAIN slots : slots[i] > now <=> i > m
  BY FutureIsLast
<1> HIDE DEF m
<1>3. Bad = {}
  <2>1. SUFFICES ASSUME Bad # {} PROVE FALSE
    OBVIOUS
  <2>2. PICK p \in Bad : \A r \in Bad : p <= r
    BY <2>1, LeastNumber
  <2>3. PICK i \in DOMAIN slots : Late(p, i)
    BY <2>2
  <2>4. p # 0
    BY <1>1, <1>2, <2>3
  <2>5. p \in Nat /\ p - 1 \in Nat /\ p - 1 \notin Bad
    BY <2>2, <2>4
  <2>6. slots[i] > now
    <3>1. Window * p \in Nat
      BY <1>1, <2>5
    <3> QED
      BY <1>1, <2>3, <3>1
  <2>7. i > Limit /\ slots[i] = slots[i - Limit] + Window
    BY <2>6 DEF IInv, Booked
  <2>8. i - Limit \in DOMAIN slots
    BY <1>1, <2>7
  <2>9. p * Limit = (p - 1) * Limit + Limit /\ Window * p = Window * (p - 1) + Window
    BY <1>1, <2>5
  <2>10. i - Limit <= m + (p - 1) * Limit
    <3> DEFINE x == p * Limit
               y == (p - 1) * Limit
    <3>1. x \in Int /\ y \in Int /\ x = y + Limit
      BY <1>1, <2>5, <2>9
    <3>2. i <= m + x
      BY <2>3
    <3> HIDE DEF x, y
    <3>3. i - Limit <= m + y
      BY <1>1, <3>1, <3>2
    <3> QED
      BY <3>3 DEF y
  <2>11. slots[i - Limit] <= now + Window * (p - 1)
    BY <1>1, <2>5, <2>8, <2>10
  <2> DEFINE x == Window * p
             y == Window * (p - 1)
  <2>12. x \in Int /\ y \in Int /\ x = y + Window /\ slots[i - Limit] <= now + y /\ slots[i] > now + x
    BY <1>1, <2>3, <2>5, <2>9, <2>11
  <2> HIDE DEF x, y
  <2> QED
    BY <1>1, <2>7, <2>8, <2>12
<1>4. j <= m + q * Limit
  BY DEF m
<1>5. ~ Late(q, j)
  BY <1>3
<1>6. Window * q \in Nat
  BY <1>1
<1> QED
  BY <1>1, <1>4, <1>5, <1>6

\* What acquireSlot reserves is not further ahead than what is in the future
\* takes, by windows of Limit.
LEMMA NextSlotIsSoon ==
  ASSUME IInv
  PROVE  NextSlot <= now + Window * ((Cardinality(Future) \div Limit) + 1)
<1> DEFINE f == Cardinality(Future)
           q == f \div Limit
<1>1. /\ now \in Nat /\ Window \in Nat /\ Limit \in Nat /\ Limit >= 1
      /\ Len(slots) \in Nat /\ f \in Nat /\ f <= Len(slots)
      /\ \A i \in DOMAIN slots : slots[i] \in Nat
  BY SlotTypes, FutureIsLast DEF IInv
<1> HIDE DEF f
<1>2. q \in Nat /\ f <= q * Limit + Limit - 1
  BY <1>1
<1> HIDE DEF q
<1>3. Window * (q + 1) = Window * q + Window /\ Window * q \in Nat
  BY <1>1, <1>2
<1>4. CASE NextSlot <= now
  <2>1. Window * (q + 1) \in Nat
    BY <1>1, <1>2
  <2>2. NextSlot \in Nat
    BY NextSlotFits
  <2>3. NextSlot <= now + Window * (q + 1)
    BY <1>1, <1>4, <2>1, <2>2
  <2> QED
    BY <2>3 DEF q, f
<1>5. CASE ~ (NextSlot <= now)
  <2>1. NextSlot \in Nat /\ Back \in DOMAIN slots /\ NextSlot = slots[Back] + Window
    BY <1>1, <1>5, NextSlotFits
  <2>2. Back <= Len(slots) - f + q * Limit
    <3>1. q * Limit \in Int
      BY <1>1, <1>2
    <3> QED
      BY <1>1, <1>2, <3>1 DEF Back
  <2>3. slots[Back] <= now + Window * q
    BY <1>2, <2>1, <2>2, WindowsAhead DEF f
  <2> DEFINE x == Window * q
             y == Window * (q + 1)
  <2>4. x \in Nat /\ y = x + Window /\ slots[Back] <= now + x
    BY <1>3, <2>3
  <2> HIDE DEF x, y
  <2>5. NextSlot <= now + y
    BY <1>1, <2>1, <2>4
  <2> QED
    BY <2>5 DEF q, f, y
<1> QED
  BY <1>4, <1>5

\* No capacity of RpcLimiter is wasted: whatever reserves a slot, the call itself,
\* a fallback or a poll, gets one within the windows that are taken.
THEOREM SoonServedHolds == LimiterSpec => SoonServed
<1> DEFINE Soon ==
        \A i \in DOMAIN slots' \ DOMAIN slots :
            slots'[i] <= now + Window *
                ((Cardinality({j \in DOMAIN slots : slots[j] > now}) \div Limit) + 1)
<1>1. ASSUME IInv, slots' = Append(slots, NextSlot) PROVE Soon
  <2>1. /\ Len(slots) \in Nat /\ DOMAIN slots = 1 .. Len(slots) /\ slots \in Seq(Nat)
        /\ NextSlot \in Nat
    BY <1>1, SlotTypes, NextSlotFits DEF IInv, LimiterTypeOK
  <2>2. DOMAIN slots' \ DOMAIN slots = {Len(slots) + 1} /\ slots'[Len(slots) + 1] = NextSlot
    BY <1>1, <2>1
  <2>3. NextSlot <= now + Window *
            ((Cardinality({j \in DOMAIN slots : slots[j] > now}) \div Limit) + 1)
    BY <1>1, NextSlotIsSoon DEF Future
  <2> QED
    BY <2>2, <2>3
<1>2. ASSUME UNCHANGED slots PROVE Soon
  BY <1>2
<1>3. IInv /\ [LimiterNext]_limiterVars => Soon
  <2> SUFFICES ASSUME IInv, [LimiterNext]_limiterVars PROVE Soon
    OBVIOUS
  <2>1. slots' = Append(slots, NextSlot) \/ UNCHANGED slots
    BY DEF LimiterNext, limiterVars, Tick, Call, Replies, TimerFires, Reserve, Wake,
           SingleReplies, LedgerReplies, LedgerFallsBack, PassphraseReplies, PollReturns,
           PollPauses, PollAgain, PollTimesOut
  <2> QED
    BY <1>1, <1>2, <2>1
<1> QED
  BY <1>3, InvHolds, PTL DEF LimiterSpec, SoonServed

-----------------------------------------------------------------------------
(* Submissions.                                                              *)

USE DEF vars, ledger

CallType == call \in [Calls -> Locals]

LEMMA ContinuesOne ==
  ASSUME CallType, NEW c \in Calls, NEW r \in Locals, Continues(c, r)
  PROVE  /\ CallType'
         /\ call'[c] = r
         /\ \A d \in Calls \ {c} : call'[d] = call[d]
BY DEF CallType, Continues

LEMMA EndsOne ==
  ASSUME CallType, NEW c \in Calls, NEW res \in Results, Ends(c, res)
  PROVE  /\ CallType'
         /\ call'[c].at = "done"
         /\ call'[c].result = res
         /\ call'[c].try = call[c].try
         /\ call'[c].seq = call[c].seq
         /\ \A d \in Calls \ {c} : call'[d] = call[d]
<1>. DEFINE r == [call[c] EXCEPT !.at = "done", !.result = res]
<1>1. call[c] \in Locals
  BY DEF CallType
<1>2. /\ r \in Locals /\ r.at = "done" /\ r.result = res
      /\ r.try = call[c].try /\ r.seq = call[c].seq
  BY <1>1 DEF Locals, Stages
<1>3. Continues(c, r)
  BY DEF Ends
<1>. HIDE DEF r
<1> QED
  BY <1>2, <1>3, ContinuesOne

-----------------------------------------------------------------------------
(* What each step of a call does to its locals. A call goes forward only; a    *)
(* transaction is handed to the node at the stage "send" and nowhere else.    *)

Fetched(c) ==
  /\ call[c].at \in {"idle", "account"}
  /\ call'[c].at = "simulate"
  /\ call'[c].try = call[c].try
  /\ call'[c].seq = seq[Source(c)] + 1
  /\ call'[c].result = call[c].result

Proceeded(c) ==
  /\ call[c].at = "simulate"
  /\ call'[c].at = "send"
  /\ call'[c].try = call[c].try
  /\ call'[c].seq = call[c].seq
  /\ call'[c].result = call[c].result

Polling(c) ==
  /\ call[c].at \in {"send", "poll"}
  /\ call'[c].at = "poll"
  /\ call'[c].try = call[c].try
  /\ call'[c].seq = call[c].seq
  /\ call'[c].result = call[c].result

Recovered(c) ==
  /\ call[c].at = "send"
  /\ call[c].try = 1
  /\ call[c].seq # seq[Source(c)] + 1
  /\ call'[c].at = "account"
  /\ call'[c].try = 2
  /\ call'[c].result = call[c].result

Ended(c) ==
  /\ call[c].at # "done"
  /\ call'[c].at = "done"
  /\ call'[c].try = call[c].try
  /\ call'[c].seq = call[c].seq
  /\ \/ /\ call'[c].result \in {"sendError", "simError"}
        /\ call[c].at \in {"simulate", "send"}
     \/ /\ call'[c].result = "badSeq"
        /\ call[c].at = "send"
        /\ call[c].try = 2
        /\ call[c].seq # seq[Source(c)] + 1
     \/ call'[c].result = "success" /\ Built(c) \in landed
     \/ call'[c].result = "failed" /\ Built(c) \in failed
     \/ call'[c].result \in {"timeout", "threw"}

LEMMA CallStep ==
  ASSUME CallType, seq \in [Accounts -> Nat], NEW c \in Calls, Step(c) \/ Rejects(c)
  PROVE  /\ CallType'
         /\ \A d \in Calls \ {c} : call'[d] = call[d]
         /\ UNCHANGED <<landed, failed, seq, moved>>
         /\ \/ UNCHANGED queue
            \/ call[c].at = "send" /\ queue' = queue \cup {Built(c)} /\ call'[c].at \in {"poll", "done"}
               /\ call'[c].result \in {call[c].result, "threw"}
         /\ Fetched(c) \/ Proceeded(c) \/ Polling(c) \/ Recovered(c) \/ Ended(c)
<1>. USE DEF Results
<1>0. call[c] \in Locals
  BY DEF CallType
<1>1. CASE FetchesAccount(c)
  <2>. DEFINE r == [call[c] EXCEPT !.at = "simulate", !.seq = seq[Source(c)] + 1]
  <2>1. seq[Source(c)] + 1 \in Nat
    BY SubmitAssumption DEF Source
  <2>2. /\ r \in Locals /\ r.at = "simulate" /\ r.seq = seq[Source(c)] + 1
        /\ r.try = call[c].try /\ r.result = call[c].result
    BY <1>0, <2>1 DEF Locals, Stages
  <2>3. Continues(c, r)
    BY <1>1 DEF FetchesAccount
  <2>. HIDE DEF r
  <2>4. Fetched(c)
    BY <1>1, <2>2, <2>3, ContinuesOne DEF Fetched, FetchesAccount
  <2> QED
    BY <1>1, <2>2, <2>3, <2>4, ContinuesOne DEF FetchesAccount
<1>2. CASE SimulationPasses(c)
  <2>. DEFINE r == [call[c] EXCEPT !.at = "send"]
  <2>1. /\ r \in Locals /\ r.at = "send" /\ r.seq = call[c].seq
        /\ r.try = call[c].try /\ r.result = call[c].result
    BY <1>0 DEF Locals, Stages
  <2>2. Continues(c, r)
    BY <1>2 DEF SimulationPasses
  <2>. HIDE DEF r
  <2>3. Proceeded(c)
    BY <1>2, <2>1, <2>2, ContinuesOne DEF Proceeded, SimulationPasses
  <2> QED
    BY <1>2, <2>1, <2>2, <2>3, ContinuesOne DEF SimulationPasses
<1>3. CASE SendAccepted(c) \/ SendPostponed(c)
  <2>. DEFINE r == [call[c] EXCEPT !.at = "poll"]
  <2>1. /\ r \in Locals /\ r.at = "poll" /\ r.seq = call[c].seq
        /\ r.try = call[c].try /\ r.result = call[c].result
    BY <1>0 DEF Locals, Stages
  <2>2. Continues(c, r) /\ call[c].at = "send"
    BY <1>3 DEF SendAccepted, SendPostponed
  <2>. HIDE DEF r
  <2>3. Polling(c)
    BY <2>1, <2>2, ContinuesOne DEF Polling
  <2> QED
    BY <1>3, <2>1, <2>2, <2>3, ContinuesOne DEF SendAccepted, SendPostponed
<1>4. CASE SendRefusedForSeq(c)
  <2>. DEFINE r == [call[c] EXCEPT !.at = "account", !.try = 2]
  <2>1. /\ r \in Locals /\ r.at = "account" /\ r.try = 2 /\ r.result = call[c].result
    BY <1>0 DEF Locals, Stages
  <2>2. CASE Continues(c, r) /\ call[c].try = 1
    <3>. HIDE DEF r
    <3>1. Recovered(c)
      BY <1>4, <2>1, <2>2, ContinuesOne DEF Recovered, SendRefusedForSeq
    <3> QED
      BY <1>4, <2>1, <2>2, <3>1, ContinuesOne DEF SendRefusedForSeq
  <2>3. CASE Ends(c, "badSeq") /\ call[c].try = 2
    <3>1. Ended(c)
      BY <1>4, <2>3, EndsOne DEF Ended, SendRefusedForSeq
    <3> QED
      BY <1>4, <2>3, <3>1, EndsOne DEF SendRefusedForSeq
  <2>4. CASE Ends(c, "sendError")
    <3>1. Ended(c)
      BY <1>4, <2>4, EndsOne DEF Ended, SendRefusedForSeq
    <3> QED
      BY <1>4, <2>4, <3>1, EndsOne DEF SendRefusedForSeq
  <2> QED
    BY <1>4, <2>2, <2>3, <2>4 DEF SendRefusedForSeq, Refreshes
<1>5. CASE SimulationRefuses(c) \/ SendRefused(c)
  <2>1. PICK res \in {"simError", "sendError"} : Ends(c, res)
    BY <1>5 DEF SimulationRefuses, SendRefused
  <2>2. Ended(c)
    BY <1>5, <2>1, EndsOne DEF Ended, SimulationRefuses, SendRefused
  <2> QED
    BY <1>5, <2>1, <2>2, EndsOne DEF SimulationRefuses, SendRefused
<1>6. CASE Rejects(c)
  <2>1. Ended(c)
    BY <1>6, EndsOne DEF Ended, Rejects
  <2> QED
    BY <1>6, <2>1, EndsOne DEF Rejects
<1>7. CASE PollSeesSuccess(c) \/ PollSeesFailure(c)
  <2>1. Ended(c)
    BY <1>7, EndsOne DEF Ended, PollSeesSuccess, PollSeesFailure
  <2> QED
    BY <1>7, <2>1, EndsOne DEF PollSeesSuccess, PollSeesFailure
<1>8. CASE PollSeesNothing(c)
  <2>. DEFINE r == [call[c] EXCEPT !.polls = @ + 1]
  <2>1. CASE call[c].polls + 1 < MaxPolls /\ Continues(c, r)
    <3>1. call[c].polls + 1 \in 0 .. MaxPolls - 1
      BY <1>0, <2>1, SubmitAssumption DEF Locals
    <3>2. /\ r \in Locals /\ r.at = call[c].at /\ r.seq = call[c].seq
          /\ r.try = call[c].try /\ r.result = call[c].result
      BY <1>0, <3>1 DEF Locals, Stages
    <3>. HIDE DEF r
    <3>3. Polling(c)
      BY <1>8, <2>1, <3>2, ContinuesOne DEF Polling, PollSeesNothing
    <3> QED
      BY <1>8, <2>1, <3>2, <3>3, ContinuesOne DEF PollSeesNothing
  <2>2. CASE Ends(c, "timeout")
    <3>1. Ended(c)
      BY <1>8, <2>2, EndsOne DEF Ended, PollSeesNothing
    <3> QED
      BY <1>8, <2>2, <3>1, EndsOne DEF PollSeesNothing
  <2> QED
    BY <1>8, <2>1, <2>2 DEF PollSeesNothing, Unseen
<1> QED
  BY <1>1, <1>2, <1>3, <1>4, <1>5, <1>6, <1>7, <1>8 DEF Step

-----------------------------------------------------------------------------
(* Types.                                                                   *)

\* Every step keeps the types, the sequence numbers and counters in their ranges
\* and the bounds of the model.
THEOREM TypesHold == Spec => []TypeOK
<1>1. Init => TypeOK
  BY SubmitAssumption DEF Init, TypeOK, Locals, Stages, Results
<1>2. TypeOK /\ [Next]_vars => TypeOK'
  <2>. SUFFICES ASSUME TypeOK, Next
                PROVE  TypeOK'
    BY DEF TypeOK
  <2>1. ASSUME NEW c \in Calls, Step(c) \/ Rejects(c)
        PROVE  TypeOK'
    <3>1. /\ CallType'
          /\ UNCHANGED <<landed, failed, seq, moved>>
          /\ queue' = queue \/ queue' = queue \cup {Built(c)}
      BY <2>1, CallStep DEF TypeOK, CallType
    <3>2. Built(c) \in Transaction
      BY DEF TypeOK, Built, Locals, Transaction
    <3>3. moves' \in 0 .. MaxMoves /\ faults' \in 0 .. MaxFaults
      <4>1. CASE Step(c)
        BY <4>1 DEF TypeOK, Step, FetchesAccount, SimulationPasses, SimulationRefuses,
           SendAccepted, SendPostponed, SendRefusedForSeq, SendRefused,
           PollSeesSuccess, PollSeesFailure, PollSeesNothing
      <4>2. CASE Rejects(c)
        BY <4>2, SubmitAssumption DEF TypeOK, Rejects, Fault
      <4> QED
        BY <2>1, <4>1, <4>2
    <3> QED
      BY <3>1, <3>2, <3>3 DEF TypeOK, CallType
  <2>2. ASSUME NEW a \in Accounts, NEW by, NumberUsed(a, by)
        PROVE  seq' \in [Accounts -> Nat] /\ moved' \in [Calls -> Nat]
    BY <2>2 DEF NumberUsed, TypeOK
  <2>3. ASSUME NEW t \in queue, LedgerTakes(t)
        PROVE  TypeOK'
    <3>1. t \in Transaction /\ SourceOf[t.call] \in Accounts
      BY SubmitAssumption DEF TypeOK, Transaction
    <3>2. seq' \in [Accounts -> Nat] /\ moved' \in [Calls -> Nat]
      BY <2>2, <2>3, <3>1 DEF LedgerTakes
    <3> QED
      BY <2>3, <3>1, <3>2 DEF LedgerTakes, TypeOK
  <2>4. ASSUME NEW t \in queue, Expires(t)
        PROVE  TypeOK'
    BY <2>4 DEF Expires, TypeOK
  <2>5. ASSUME NEW a \in Accounts, OtherUses(a)
        PROVE  TypeOK'
    <3>1. seq' \in [Accounts -> Nat] /\ moved' \in [Calls -> Nat]
      BY <2>2, <2>5 DEF OtherUses
    <3>2. moves' \in 0 .. MaxMoves
      BY <2>5, SubmitAssumption DEF OtherUses, TypeOK
    <3> QED
      BY <2>5, <3>1, <3>2 DEF OtherUses, TypeOK
  <2> QED
    BY <2>1, <2>3, <2>4, <2>5 DEF Next
<1> QED
  BY <1>1, <1>2, PTL DEF Spec

-----------------------------------------------------------------------------
(* One transaction of a call at most. A call hands nothing to the node before  *)
(* its stage "send" is over, and after it the locals the transaction was built *)
(* from stay as they are.                                                     *)

NotSent(c) == \A t \in Sent : t.call # c

BeforeSend == {"idle", "account", "simulate", "send"}

SentAsBuilt == \A t \in Sent : t = Built(t.call)

NothingEarly == \A c \in Calls : call[c].at \in BeforeSend => NotSent(c)

OnlyDoneReports == \A c \in Calls : call[c].result # "none" => call[c].at = "done"

SendInv ==
    /\ SentAsBuilt
    /\ NothingEarly
    /\ OnlyDoneReports
    /\ ResultIsTrue

LEMMA SendInvOfCall ==
  ASSUME TypeOK, SendInv, NEW c \in Calls, Step(c) \/ Rejects(c)
  PROVE  SendInv'
<1>. USE DEF Sent
<1>1. /\ \A d \in Calls \ {c} : call'[d] = call[d]
      /\ UNCHANGED <<landed, failed, seq, moved>>
      /\ \/ UNCHANGED queue
         \/ /\ call[c].at = "send"
            /\ queue' = queue \cup {Built(c)}
            /\ call'[c].at \in {"poll", "done"}
            /\ call'[c].result \in {call[c].result, "threw"}
      /\ Fetched(c) \/ Proceeded(c) \/ Polling(c) \/ Recovered(c) \/ Ended(c)
  BY CallStep DEF TypeOK, CallType
<1>2. call[c].at # "done" /\ call[c].result = "none"
  BY <1>1 DEF Fetched, Proceeded, Polling, Recovered, Ended, SendInv, OnlyDoneReports
<1>3. \A t \in Sent : t.call \in Calls
  BY DEF TypeOK, Transaction
<1>4. Built(c).call = c
  BY DEF Built
<1>5. \A d \in Calls \ {c} : Built(d)' = Built(d) /\ (NotSent(d) => NotSent(d)')
  BY <1>1, <1>4 DEF Built, NotSent
<1>6. call'[c].at \notin BeforeSend => Built(c)' = Built(c)
  BY <1>1 DEF Fetched, Proceeded, Polling, Recovered, Ended, Built, BeforeSend
<1>7. call'[c].at \in BeforeSend => call[c].at \in BeforeSend /\ UNCHANGED queue
  BY <1>1 DEF Fetched, Proceeded, Polling, Recovered, Ended, BeforeSend
<1>8. call'[c].at \in BeforeSend => NotSent(c)'
  BY <1>1, <1>7 DEF SendInv, NothingEarly, NotSent
<1>9. SentAsBuilt'
  <2>. SUFFICES ASSUME NEW t \in Sent'
                PROVE  t = Built(t.call)'
    BY DEF SentAsBuilt
  <2>1. CASE t \in Sent /\ t.call # c
    BY <1>3, <1>5, <2>1 DEF SendInv, SentAsBuilt
  <2>2. CASE t.call = c
    <3>1. call'[c].at \notin BeforeSend
      BY <1>8, <2>2 DEF NotSent
    <3>2. t = Built(c)
      BY <1>1, <2>2 DEF SendInv, SentAsBuilt
    <3> QED
      BY <1>6, <2>2, <3>1, <3>2
  <2>3. t \in Sent \/ t = Built(c)
    BY <1>1
  <2> QED
    BY <1>4, <2>1, <2>2, <2>3
<1>10. NothingEarly'
  BY <1>1, <1>5, <1>8 DEF SendInv, NothingEarly
<1>11. OnlyDoneReports'
  BY <1>1, <1>2 DEF SendInv, OnlyDoneReports, Fetched, Proceeded, Polling, Recovered, Ended
<1>12. ResultIsTrue'
  <2>1. ASSUME NEW d \in Calls \ {c}
        PROVE  /\ call'[d].result = "success" => Built(d)' \in landed'
               /\ call'[d].result = "failed" => Built(d)' \in failed'
               /\ call'[d].result \in {"badSeq", "sendError", "simError"} => NotSent(d)'
    BY <1>1, <1>5 DEF SendInv, ResultIsTrue, NotSent
  <2>2. /\ call'[c].result = "success" => Built(c)' \in landed'
        /\ call'[c].result = "failed" => Built(c)' \in failed'
    <3>1. CASE Ended(c)
      BY <1>1, <1>6, <3>1 DEF Ended, BeforeSend
    <3>2. CASE ~ Ended(c)
      BY <1>1, <1>2, <3>2 DEF Fetched, Proceeded, Polling, Recovered
    <3> QED
      BY <3>1, <3>2
  <2>3. call'[c].result \in {"badSeq", "sendError", "simError"} => NotSent(c)'
    <3>. SUFFICES ASSUME call'[c].result \in {"badSeq", "sendError", "simError"}
                  PROVE  NotSent(c)'
      OBVIOUS
    <3>1. call[c].at \in BeforeSend
      BY <1>1, <1>2 DEF Fetched, Proceeded, Polling, Recovered, Ended, BeforeSend
    <3>2. UNCHANGED queue
      BY <1>1, <1>2
    <3> QED
      BY <1>1, <3>1, <3>2 DEF SendInv, NothingEarly, NotSent
  <2> QED
    BY <2>1, <2>2, <2>3 DEF ResultIsTrue, NotSent
<1> QED
  BY <1>9, <1>10, <1>11, <1>12 DEF SendInv

\* What the network does takes transactions from the queue, for a ledger or for
\* nobody, and leaves the calls alone.
LEMMA SendInvOfNetwork ==
  ASSUME SendInv, UNCHANGED call, Sent' \subseteq Sent,
         landed \subseteq landed', failed \subseteq failed'
  PROVE  SendInv'
<1>1. \A c \in Calls : Built(c)' = Built(c)
  BY DEF Built
<1>2. SentAsBuilt'
  BY DEF SendInv, SentAsBuilt, Built
<1>3. NothingEarly'
  BY DEF SendInv, NothingEarly, NotSent
<1>4. OnlyDoneReports'
  BY DEF SendInv, OnlyDoneReports
<1>5. ResultIsTrue'
  BY <1>1 DEF SendInv, ResultIsTrue
<1> QED
  BY <1>2, <1>3, <1>4, <1>5 DEF SendInv

LEMMA SendInvHolds == Spec => []SendInv
<1>1. Init => SendInv
  BY DEF Init, SendInv, SentAsBuilt, NothingEarly, NotSent, OnlyDoneReports, ResultIsTrue, Sent
<1>2. TypeOK /\ SendInv /\ [Next]_vars => SendInv'
  <2>. SUFFICES ASSUME TypeOK, SendInv, [Next]_vars
                PROVE  SendInv'
    OBVIOUS
  <2>1. CASE UNCHANGED vars
    BY <2>1, SendInvOfNetwork DEF Sent
  <2>2. ASSUME NEW c \in Calls, Step(c) \/ Rejects(c)
        PROVE  SendInv'
    BY <2>2, SendInvOfCall
  <2>3. ASSUME NEW t \in queue, LedgerTakes(t) \/ Expires(t)
        PROVE  SendInv'
    BY <2>3, SendInvOfNetwork DEF LedgerTakes, Expires, Sent
  <2>4. ASSUME NEW a \in Accounts, OtherUses(a)
        PROVE  SendInv'
    BY <2>4, SendInvOfNetwork DEF OtherUses, Sent
  <2> QED
    BY <2>1, <2>2, <2>3, <2>4 DEF Next
<1> QED
  BY <1>1, <1>2, TypesHold, PTL DEF Spec

\* The recovery never lets both transactions of a call reach a ledger
\* (submitExtension and submitRestore build the second one only after the node
\* has refused the first).
THEOREM LandsOnce == Spec => []OneLanding
<1>1. SendInv => OneLanding
  BY DEF SendInv, SentAsBuilt, OneLanding, Built
<1> QED
  BY <1>1, SendInvHolds, PTL

\* What a call reports is what became of its own transaction (pollTransaction and
\* the error returns of the submit methods).
THEOREM ReportsTrue == Spec => []ResultIsTrue
<1>1. SendInv => ResultIsTrue
  BY DEF SendInv
<1> QED
  BY <1>1, SendInvHolds, PTL

-----------------------------------------------------------------------------
(* A bad sequence number is reported for two moves of others: each transaction *)
(* a call builds is behind the account only by numbers others have used since. *)

Behind(c) == seq[Source(c)] + 1 - call[c].seq

RecoverInv ==
    \A c \in Calls :
        /\ call[c].at \in {"idle", "account"} => moved[c] >= call[c].try - 1
        /\ call[c].at \in {"simulate", "send"} =>
               Behind(c) >= 0 /\ moved[c] >= Behind(c) + call[c].try - 1
        /\ call[c].result = "badSeq" => moved[c] >= 2

LEMMA RecoverInvOfCall ==
  ASSUME TypeOK, SendInv, RecoverInv, NEW c \in Calls, Step(c) \/ Rejects(c)
  PROVE  RecoverInv'
<1>1. /\ CallType'
      /\ \A d \in Calls \ {c} : call'[d] = call[d]
      /\ UNCHANGED <<landed, failed, seq, moved>>
      /\ Fetched(c) \/ Proceeded(c) \/ Polling(c) \/ Recovered(c) \/ Ended(c)
  BY CallStep DEF TypeOK, CallType
<1>2. /\ seq[Source(c)] \in Nat /\ moved[c] \in Nat
      /\ call[c].try \in {1, 2} /\ call[c].seq \in Nat
      /\ call'[c].try \in {1, 2} /\ call'[c].seq \in Nat
  BY <1>1, SubmitAssumption DEF TypeOK, CallType, Locals, Source
<1>3. call[c].result = "none"
  BY <1>1 DEF Fetched, Proceeded, Polling, Recovered, Ended, SendInv, OnlyDoneReports
<1>4. ASSUME NEW d \in Calls \ {c}
      PROVE  /\ call'[d].at \in {"idle", "account"} => moved'[d] >= call'[d].try - 1
             /\ call'[d].at \in {"simulate", "send"} =>
                    Behind(d)' >= 0 /\ moved'[d] >= Behind(d)' + call'[d].try - 1
             /\ call'[d].result = "badSeq" => moved'[d] >= 2
  BY <1>1 DEF RecoverInv, Behind, Source
<1>. DEFINE Goal ==
       /\ call'[c].at \in {"idle", "account"} => moved'[c] >= call'[c].try - 1
       /\ call'[c].at \in {"simulate", "send"} =>
              Behind(c)' >= 0 /\ moved'[c] >= Behind(c)' + call'[c].try - 1
       /\ call'[c].result = "badSeq" => moved'[c] >= 2
<1>5. Goal
  <2>1. CASE Fetched(c)
    BY <1>1, <1>2, <1>3, <2>1 DEF Fetched, RecoverInv, Behind, Source
  <2>2. CASE Proceeded(c)
    BY <1>1, <1>2, <1>3, <2>2 DEF Proceeded, RecoverInv, Behind, Source
  <2>3. CASE Polling(c)
    BY <1>3, <2>3 DEF Polling
  <2>4. CASE Recovered(c)
    BY <1>1, <1>2, <1>3, <2>4 DEF Recovered, RecoverInv, Behind, Source
  <2>5. CASE Ended(c)
    BY <1>1, <1>2, <1>3, <2>5 DEF Ended, RecoverInv, Behind, Source
  <2> QED
    BY <1>1, <2>1, <2>2, <2>3, <2>4, <2>5
<1> QED
  BY <1>4, <1>5 DEF RecoverInv

\* A number used by a call that has sent, or by somebody else, moves the account
\* and the history of every call that has not sent alike.
LEMMA RecoverInvOfNumber ==
  ASSUME TypeOK, OnlyDoneReports, RecoverInv, NEW a \in Accounts, NEW by,
         \A c \in Calls : c \in by => call[c].at \notin BeforeSend,
         NumberUsed(a, by), UNCHANGED call
  PROVE  RecoverInv'
<1>. SUFFICES ASSUME NEW c \in Calls
              PROVE  /\ call[c].at \in {"idle", "account"} => moved'[c] >= call[c].try - 1
                     /\ call[c].at \in {"simulate", "send"} =>
                            Behind(c)' >= 0 /\ moved'[c] >= Behind(c)' + call[c].try - 1
                     /\ call[c].result = "badSeq" => moved'[c] >= 2
  BY DEF RecoverInv
<1>1. /\ seq[Source(c)] \in Nat /\ moved[c] \in Nat /\ Source(c) \in Accounts
      /\ call[c].try \in {1, 2} /\ call[c].seq \in Nat
  BY SubmitAssumption DEF TypeOK, Locals, Source
<1>2. moved'[c] >= moved[c]
  BY <1>1 DEF NumberUsed
<1>3. CASE Source(c) # a
  <2>1. seq'[Source(c)] = seq[Source(c)]
    BY <1>1, <1>3 DEF NumberUsed, TypeOK
  <2>2. Behind(c)' = Behind(c)
    BY <2>1 DEF Behind, Source
  <2>3. Behind(c) \in Int
    BY <1>1 DEF Behind
  <2>4. moved'[c] = moved[c]
    BY <1>3 DEF NumberUsed, Source
  <2> QED
    BY <2>2, <2>4 DEF RecoverInv
<1>4. CASE Source(c) = a
  <2>1. seq'[Source(c)] = seq[Source(c)] + 1
    BY <1>1, <1>4 DEF NumberUsed, TypeOK
  <2>2. Behind(c)' = Behind(c) + 1
    BY <1>1, <2>1 DEF Behind, Source
  <2>3. call[c].at \in {"simulate", "send"} => moved'[c] = moved[c] + 1
    BY <1>4 DEF NumberUsed, Source, BeforeSend
  <2>4. Behind(c) \in Int
    BY <1>1 DEF Behind
  <2>5. moved'[c] \in Nat
    BY <1>1 DEF NumberUsed
  <2> QED
    BY <1>1, <1>2, <2>2, <2>3, <2>4, <2>5 DEF RecoverInv
<1> QED
  BY <1>3, <1>4

\* "Recovers once from txBadSeq errors by refreshing the account sequence": a call
\* that reports a bad sequence number saw others use the account twice.
THEOREM RecoversOnceHolds == Spec => []RecoversOnce
<1>1. Init => RecoverInv
  BY SubmitAssumption DEF Init, RecoverInv
<1>2. TypeOK /\ SendInv /\ RecoverInv /\ [Next]_vars => RecoverInv'
  <2>. SUFFICES ASSUME TypeOK, SendInv, RecoverInv, [Next]_vars
                PROVE  RecoverInv'
    OBVIOUS
  <2>1. CASE UNCHANGED vars
    BY <2>1 DEF RecoverInv, Behind, Source
  <2>2. ASSUME NEW c \in Calls, Step(c) \/ Rejects(c)
        PROVE  RecoverInv'
    BY <2>2, RecoverInvOfCall
  <2>3. ASSUME NEW t \in queue, LedgerTakes(t)
        PROVE  RecoverInv'
    <3>1. SourceOf[t.call] \in Accounts
      BY SubmitAssumption DEF TypeOK, Transaction
    <3>2. \A c \in Calls : c \in {t.call} => call[c].at \notin BeforeSend
      BY DEF SendInv, NothingEarly, NotSent, Sent
    <3> QED
      BY <2>3, <3>1, <3>2, RecoverInvOfNumber DEF LedgerTakes, SendInv
  <2>4. ASSUME NEW t \in queue, Expires(t)
        PROVE  RecoverInv'
    BY <2>4 DEF Expires, RecoverInv, Behind, Source
  <2>5. ASSUME NEW a \in Accounts, OtherUses(a)
        PROVE  RecoverInv'
    BY <2>5, RecoverInvOfNumber DEF OtherUses, SendInv
  <2> QED
    BY <2>1, <2>2, <2>3, <2>4, <2>5 DEF Next
<1>3. RecoverInv => RecoversOnce
  BY DEF RecoverInv, RecoversOnce
<1> QED
  BY <1>1, <1>2, <1>3, TypesHold, SendInvHolds, PTL DEF Spec
=============================================================================
