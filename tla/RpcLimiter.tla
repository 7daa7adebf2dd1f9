----------------------------- MODULE RpcLimiter -----------------------------
(***************************************************************************)
(* The request limiter of one StellarRpcClient and the calls that go        *)
(* through it. Every metered request first calls acquireSlot, which        *)
(* reserves a time for it (now, or a time in the future) and runs without   *)
(* an await; the request starts when a timer set for that time has fired.   *)
(* Calls of many contracts run at once, as Promise.all starts them.         *)
(*                                                                         *)
(* slots[i] is the time the i-th acquireSlot reserved. The code drops the   *)
(* times that left the window from its list and never sees them again;      *)
(* Date.now is assumed not to run backwards, so what was dropped stays out  *)
(* of the window and the list is Recent.                                   *)
(***************************************************************************)
EXTENDS Integers, Sequences, FiniteSets, FiniteSetsExt

CONSTANTS
    Limit,          \* maxRequestsPerSecond
    Window,         \* the second it is counted in
    Interval,       \* pause of pollTransaction between two polls
    MaxAttempts,    \* polls of pollTransaction
    MaxLate,        \* how late the event loop may fire a timer
    Callers,        \* asynchronous functions that use the client
    Kind,           \* Kind[c]: the method that c calls
    HasTable,       \* NETWORK_PASSPHRASES knows the network
    MaxCalls,       \* bound: calls of one behaviour
    MaxNow          \* bound: the clock passes it only while a timer is set

Kinds == {"single", "ledger", "poll", "passphrase"}

ASSUME LimiterAssumption ==
    /\ Limit \in Nat \ {0}
    /\ {Window, Interval, MaxAttempts, MaxLate, MaxCalls, MaxNow} \subseteq Nat
    /\ MaxAttempts > 0
    /\ Kind \in [Callers -> Kinds]
    /\ HasTable \in BOOLEAN

NotYet == -1

VARIABLES
    now,        \* Date.now()
    slots,      \* the times reserved, in the order of the calls of acquireSlot
    started,    \* when the request of each slot was sent, or NotYet
    stage,      \* where each caller is
    req,        \* the slot a caller holds
    due,        \* when the pause of a polling caller ends
    tries,      \* requests its present call has made
    cached,     \* _cachedPassphrase is set
    calls       \* calls made so far, for the bound

limiterVars == <<now, slots, started, stage, req, due, tries, cached, calls>>

LimiterStages == {"idle", "sleeps", "calls", "pauses"}

LimiterTypeOK ==
    /\ now \in Nat
    /\ slots \in Seq(Nat)
    /\ started \in Seq(Nat \cup {NotYet})
    /\ Len(started) = Len(slots)
    /\ stage \in [Callers -> LimiterStages]
    /\ req \in [Callers -> Nat]
    /\ due \in [Callers -> Nat]
    /\ tries \in [Callers -> Nat]
    /\ cached \in BOOLEAN
    /\ calls \in 0 .. MaxCalls

LimiterInit ==
    /\ now = 0
    /\ slots = << >>
    /\ started = << >>
    /\ stage = [c \in Callers |-> "idle"]
    /\ req = [c \in Callers |-> 0]
    /\ due = [c \in Callers |-> 0]
    /\ tries = [c \in Callers |-> 0]
    /\ cached = FALSE
    /\ calls = 0

-----------------------------------------------------------------------------
(* acquireSlot and withRateLimit.                                           *)

\* recentRequestTimes after the filter of acquireSlot.
Recent == {i \in DOMAIN slots : slots[i] > now - Window}

\* Mutants of Blocking: the oldest time of the window, as the deprecated
\* calculateWaitMs has it; the newest one.
BlockingOldest == Min(Recent)
BlockingNewest == Max(Recent)

\* The request that must leave the window first: the Limit-th from the end.
Blocking == CHOOSE i \in Recent : Cardinality({j \in Recent : j >= i}) = Limit

NextSlot == IF Cardinality(Recent) < Limit THEN now ELSE slots[Blocking] + Window

\* withRateLimit: a slot that is not in the future starts its request at once.
Reserve(c) ==
    /\ slots' = Append(slots, NextSlot)
    /\ started' = Append(started, IF NextSlot > now THEN NotYet ELSE now)
    /\ stage' = [stage EXCEPT ![c] = IF NextSlot > now THEN "sleeps" ELSE "calls"]
    /\ req' = [req EXCEPT ![c] = Len(slots) + 1]

\* Mutant of Fires: the timer is compared for equality.
FiresExactly(time) == now = time

\* setTimeout never fires early; Tick bounds how late it fires.
Fires(time) == now >= time

\* sleep resolves and the request is sent.
Wake(c) ==
    /\ stage[c] = "sleeps"
    /\ Fires(slots[req[c]])
    /\ stage' = [stage EXCEPT ![c] = "calls"]
    /\ started' = [started EXCEPT ![req[c]] = now]
    /\ UNCHANGED <<now, slots, req, due, tries, cached, calls>>

-----------------------------------------------------------------------------
(* The methods of the client.                                               *)

Return(c) ==
    /\ stage' = [stage EXCEPT ![c] = "idle"]
    /\ req' = [req EXCEPT ![c] = 0]
    /\ due' = [due EXCEPT ![c] = 0]
    /\ tries' = [tries EXCEPT ![c] = 0]

\* A call begins; getNetworkPassphrase returns its cached value unmetered.
Call(c) ==
    /\ stage[c] = "idle"
    /\ calls < MaxCalls
    /\ ~ (Kind[c] = "passphrase" /\ cached)
    /\ calls' = calls + 1
    /\ tries' = [tries EXCEPT ![c] = 1]
    /\ Reserve(c)
    /\ UNCHANGED <<now, due, cached>>

\* checkHealth and getFeeStats: one request, answered or not.
SingleReplies(c) ==
    /\ stage[c] = "calls"
    /\ Kind[c] = "single"
    /\ Return(c)
    /\ UNCHANGED <<now, slots, started, cached, calls>>

\* getCurrentLedger: getLatestLedger or, after it failed, getHealth is
\* answered, or getHealth fails as well and the call throws.
LedgerReplies(c) ==
    /\ stage[c] = "calls"
    /\ Kind[c] = "ledger"
    /\ Return(c)
    /\ UNCHANGED <<now, slots, started, cached, calls>>

\* getLatestLedger fails: getHealth takes a slot of its own.
LedgerFallsBack(c) ==
    /\ stage[c] = "calls"
    /\ Kind[c] = "ledger"
    /\ tries[c] = 1
    /\ tries' = [tries EXCEPT ![c] = 2]
    /\ Reserve(c)
    /\ UNCHANGED <<now, due, cached, calls>>

\* getNetworkPassphrase: the node's answer or, when it fails, the table's is
\* cached for the life of the client; without either the call throws.
PassphraseReplies(c) ==
    /\ stage[c] = "calls"
    /\ Kind[c] = "passphrase"
    /\ \E answered \in BOOLEAN : cached' = (cached \/ answered \/ HasTable)
    /\ Return(c)
    /\ UNCHANGED <<now, slots, started, calls>>

\* pollTransaction: the transaction is in a ledger, or the request failed.
PollReturns(c) ==
    /\ stage[c] = "calls"
    /\ Kind[c] = "poll"
    /\ Return(c)
    /\ UNCHANGED <<now, slots, started, cached, calls>>

\* It is not there yet; the loop pauses after the last poll, too.
PollPauses(c) ==
    /\ stage[c] = "calls"
    /\ Kind[c] = "poll"
    /\ stage' = [stage EXCEPT ![c] = "pauses"]
    /\ due' = [due EXCEPT ![c] = now + Interval]
    /\ UNCHANGED <<now, slots, started, req, tries, cached, calls>>

PollAgain(c) ==
    /\ stage[c] = "pauses"
    /\ Fires(due[c])
    /\ tries[c] < MaxAttempts
    /\ tries' = [tries EXCEPT ![c] = @ + 1]
    /\ Reserve(c)
    /\ UNCHANGED <<now, due, cached, calls>>

PollTimesOut(c) ==
    /\ stage[c] = "pauses"
    /\ Fires(due[c])
    /\ tries[c] >= MaxAttempts
    /\ Return(c)
    /\ UNCHANGED <<now, slots, started, cached, calls>>

-----------------------------------------------------------------------------

\* The times timers are set for.
Timers ==
    {slots[req[c]] : c \in {d \in Callers : stage[d] = "sleeps"}}
        \cup {due[c] : c \in {d \in Callers : stage[d] = "pauses"}}

\* Time passes, but no timer is more than MaxLate behind.
Tick ==
    /\ now < MaxNow \/ \E t \in Timers : t > now
    /\ \A t \in Timers : now < t + MaxLate
    /\ now' = now + 1
    /\ UNCHANGED <<slots, started, stage, req, due, tries, cached, calls>>

Replies(c) ==
    \/ SingleReplies(c)
    \/ LedgerReplies(c)
    \/ LedgerFallsBack(c)
    \/ PassphraseReplies(c)
    \/ PollReturns(c)
    \/ PollPauses(c)

TimerFires(c) == Wake(c) \/ PollAgain(c) \/ PollTimesOut(c)

LimiterNext == Tick \/ \E c \in Callers : Call(c) \/ Replies(c) \/ TimerFires(c)

LimiterSpec == LimiterInit /\ [][LimiterNext]_limiterVars

\* Time passes, timers fire, and the node answers a request or fails it.
LimiterFairness ==
    /\ WF_limiterVars(Tick)
    /\ \A c \in Callers : WF_limiterVars(Replies(c)) /\ WF_limiterVars(TimerFires(c))

LimiterFairSpec == LimiterSpec /\ LimiterFairness

-----------------------------------------------------------------------------

\* The limit of withRateLimit: of any Limit + 1 requests in the order of their
\* slots, the last one is sent a full window after the first, less only the
\* lateness of the first one's timer. It must hold although slots are reserved
\* by several calls ahead of time and by polls that wake up in any order.
RateIsKept ==
    \A i, j \in DOMAIN started :
        (j >= i + Limit /\ started[i] # NotYet /\ started[j] # NotYet)
            => started[j] + MaxLate >= started[i] + Window

\* The limiter wastes no capacity: a new request waits one window for each
\* Limit requests that hold a slot in the future, and one window at most for
\* those that were sent in the last one.
SoonServed ==
    [][\A i \in DOMAIN slots' \ DOMAIN slots :
           slots'[i] <= now + Window *
               ((Cardinality({j \in DOMAIN slots : slots[j] > now}) \div Limit) + 1)]_limiterVars

\* Every call of the client ends: no reservation is pushed ahead for ever by
\* other callers, the fallback and the polls are finitely many.
EveryCallEnds == \A c \in Callers : stage[c] # "idle" ~> stage[c] = "idle"

=============================================================================
