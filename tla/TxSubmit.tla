------------------------------ MODULE TxSubmit ------------------------------
(***************************************************************************)
(* submitExtension, submitExtensionWithFeeBump and submitRestore of the RPC *)
(* client: fetch the sequence number of the source account, build, simulate,*)
(* sign, send, and poll until a ledger has taken the transaction; a send    *)
(* that is refused for its sequence number is built once more from a fresh  *)
(* account. Calls run concurrently, on one account or several, and other    *)
(* users of the account may move its sequence number at any time.           *)
(*                                                                         *)
(* The three methods share their control; a step is the code between two    *)
(* awaits. The node and the ledger are external: a node queues at most one  *)
(* transaction of an account, asks others to try again later, and refuses   *)
(* one with a sequence number that is not the next.                         *)
(***************************************************************************)
EXTENDS Integers, FiniteSets

CONSTANTS
    Calls,          \* calls of the submit methods
    Accounts,
    SourceOf,       \* the source account of each call
    Sponsored,      \* calls of submitExtensionWithFeeBump
    MaxPolls,       \* maxAttempts of pollTransaction
    MaxMoves,       \* bound: transactions of other users
    MaxFaults       \* bound: awaits that reject

ASSUME SubmitAssumption ==
    /\ SourceOf \in [Calls -> Accounts]
    /\ Sponsored \subseteq Calls
    /\ MaxPolls \in Nat \ {0}
    /\ MaxMoves \in Nat
    /\ MaxFaults \in Nat

VARIABLES
    seq,        \* the ledger: sequence number of each account
    queue,      \* the node: accepted transactions that are in no ledger yet
    landed,     \* the ledger: transactions that succeeded
    failed,     \* the ledger: transactions that failed, which use their number too
    call,       \* the locals of each call and its result
    moved,      \* history: how often others moved the account of a call in flight
    moves,
    faults

vars == <<seq, queue, landed, failed, call, moved, moves, faults>>

Stages == {"idle", "account", "simulate", "send", "poll", "done"}
Results == {"none", "success", "failed", "timeout", "badSeq", "sendError", "simError", "threw"}

\* try is 2 from the recovery on, seq is the number the transaction is built with.
Locals == [at : Stages, try : {1, 2}, seq : Nat, polls : 0 .. MaxPolls - 1, result : Results]

Transaction == [call : Calls, try : {1, 2}, seq : Nat]

TypeOK ==
    /\ seq \in [Accounts -> Nat]
    /\ queue \subseteq Transaction
    /\ landed \subseteq Transaction
    /\ failed \subseteq Transaction
    /\ call \in [Calls -> Locals]
    /\ moved \in [Calls -> Nat]
    /\ moves \in 0 .. MaxMoves
    /\ faults \in 0 .. MaxFaults

Init ==
    /\ seq = [a \in Accounts |-> 0]
    /\ queue = {}
    /\ landed = {}
    /\ failed = {}
    /\ call = [c \in Calls |->
                  [at |-> "idle", try |-> 1, seq |-> 0, polls |-> 0, result |-> "none"]]
    /\ moved = [c \in Calls |-> 0]
    /\ moves = 0
    /\ faults = 0

Fault == faults < MaxFaults /\ faults' = faults + 1

ledger == <<seq, landed, failed>>

-----------------------------------------------------------------------------
(* The network (external).                                                  *)

Queued(a) == {t \in queue : SourceOf[t.call] = a}

\* A number of a is used by a call of "by", or by somebody else if it is empty;
\* the other calls in flight on a take note.
NumberUsed(a, by) ==
    /\ seq' = [seq EXCEPT ![a] = @ + 1]
    /\ moved' = [c \in Calls |->
                    IF /\ SourceOf[c] = a
                       /\ c \notin by
                       /\ call[c].at \notin {"idle", "done"}
                    THEN moved[c] + 1 ELSE moved[c]]

LedgerTakes(t) ==
    /\ queue' = queue \ {t}
    /\ NumberUsed(SourceOf[t.call], {t.call})
    /\ \/ landed' = landed \cup {t} /\ UNCHANGED failed
       \/ failed' = failed \cup {t} /\ UNCHANGED landed
    /\ UNCHANGED <<call, moves, faults>>

\* Its time bound passes.
Expires(t) ==
    /\ queue' = queue \ {t}
    /\ UNCHANGED <<ledger, call, moved, moves, faults>>

\* A transaction of another user; one of ours with the same number is dropped.
OtherUses(a) ==
    /\ moves < MaxMoves
    /\ moves' = moves + 1
    /\ NumberUsed(a, {})
    /\ queue' = queue \ Queued(a)
    /\ UNCHANGED <<landed, failed, call, faults>>

-----------------------------------------------------------------------------
(* A call.                                                                  *)

Source(c) == SourceOf[c]
Built(c) == [call |-> c, try |-> call[c].try, seq |-> call[c].seq]

Continues(c, locals) == call' = [call EXCEPT ![c] = locals]

Ends(c, result) == Continues(c, [call[c] EXCEPT !.at = "done", !.result = result])

\* buildTx: the account, as the ledger has it at this moment.
FetchesAccount(c) ==
    /\ call[c].at \in {"idle", "account"}
    /\ Continues(c, [call[c] EXCEPT !.at = "simulate", !.seq = seq[Source(c)] + 1])
    /\ UNCHANGED <<ledger, queue, moved, moves, faults>>

SimulationPasses(c) ==
    /\ call[c].at = "simulate"
    /\ Continues(c, [call[c] EXCEPT !.at = "send"])
    /\ UNCHANGED <<ledger, queue, moved, moves, faults>>

\* assertSimulationSuccess throws, or the method returns the error.
SimulationRefuses(c) ==
    /\ call[c].at = "simulate"
    /\ Ends(c, "simError")
    /\ UNCHANGED <<ledger, queue, moved, moves, faults>>

Acceptable(c) ==
    /\ Queued(Source(c)) = {}
    /\ call[c].seq = seq[Source(c)] + 1

\* Mutant of SendAccepted: an accepted transaction counts as successful.
SendTrusted(c) ==
    /\ call[c].at = "send"
    /\ Acceptable(c)
    /\ queue' = queue \cup {Built(c)}
    /\ Ends(c, "success")
    /\ UNCHANGED <<ledger, moved, moves, faults>>

SendAccepted(c) ==
    /\ call[c].at = "send"
    /\ Acceptable(c)
    /\ queue' = queue \cup {Built(c)}
    /\ Continues(c, [call[c] EXCEPT !.at = "poll"])
    /\ UNCHANGED <<ledger, moved, moves, faults>>

\* TRY_AGAIN_LATER is no ERROR: the hash is polled although nothing was queued.
SendPostponed(c) ==
    /\ call[c].at = "send"
    /\ Queued(Source(c)) # {}
    /\ Continues(c, [call[c] EXCEPT !.at = "poll"])
    /\ UNCHANGED <<ledger, queue, moved, moves, faults>>

\* isBadSeqError reads the outer result code, which for a fee bump names the
\* failure of the inner transaction and not its cause.
IsBadSeqError(c) == c \notin Sponsored

Refreshes(c) ==
    Continues(c, [call[c] EXCEPT !.at = "account", !.try = 2])

SendRefusedForSeq(c) ==
    /\ call[c].at = "send"
    /\ Queued(Source(c)) = {}
    /\ call[c].seq # seq[Source(c)] + 1
    /\ \/ IsBadSeqError(c) /\ call[c].try = 1 /\ Refreshes(c)
       \/ IsBadSeqError(c) /\ call[c].try = 2 /\ Ends(c, "badSeq")
       \/ ~ IsBadSeqError(c) /\ Ends(c, "sendError")
    /\ UNCHANGED <<ledger, queue, moved, moves, faults>>

\* ERROR for another reason: fee, balance, footprint.
SendRefused(c) ==
    /\ call[c].at = "send"
    /\ Ends(c, "sendError")
    /\ UNCHANGED <<ledger, queue, moved, moves, faults>>

\* Mutant of Rejects: a rejected send is recovered like a bad sequence number.
RejectsRecovered(c) ==
    /\ call[c].at = "send"
    /\ Fault
    /\ \/ call[c].try = 1 /\ Refreshes(c)
       \/ call[c].try = 2 /\ Ends(c, "threw")
    /\ \/ UNCHANGED queue
       \/ Acceptable(c) /\ queue' = queue \cup {Built(c)}
    /\ UNCHANGED <<ledger, moved, moves>>

\* An await rejects. A send that rejects may have reached the node.
Rejects(c) ==
    /\ call[c].at # "done"
    /\ Fault
    /\ Ends(c, "threw")
    /\ \/ UNCHANGED queue
       \/ /\ call[c].at = "send"
          /\ Acceptable(c)
          /\ queue' = queue \cup {Built(c)}
    /\ UNCHANGED <<ledger, moved, moves>>

PollSeesSuccess(c) ==
    /\ call[c].at = "poll"
    /\ Built(c) \in landed
    /\ Ends(c, "success")
    /\ UNCHANGED <<ledger, queue, moved, moves, faults>>

PollSeesFailure(c) ==
    /\ call[c].at = "poll"
    /\ Built(c) \in failed
    /\ Ends(c, "failed")
    /\ UNCHANGED <<ledger, queue, moved, moves, faults>>

\* Mutant of Unseen: the attempts are not counted.
UnseenUncounted(c) == UNCHANGED call

Unseen(c) ==
    \/ /\ call[c].polls + 1 < MaxPolls
       /\ Continues(c, [call[c] EXCEPT !.polls = @ + 1])
    \/ /\ call[c].polls + 1 = MaxPolls
       /\ Ends(c, "timeout")

\* NOT_FOUND: it is in no ledger, or the node that answers is behind.
PollSeesNothing(c) ==
    /\ call[c].at = "poll"
    /\ Unseen(c)
    /\ UNCHANGED <<ledger, queue, moved, moves, faults>>

-----------------------------------------------------------------------------
Step(c) ==
    \/ FetchesAccount(c)
    \/ SimulationPasses(c) \/ SimulationRefuses(c)
    \/ SendAccepted(c) \/ SendPostponed(c) \/ SendRefusedForSeq(c) \/ SendRefused(c)
    \/ PollSeesSuccess(c) \/ PollSeesFailure(c) \/ PollSeesNothing(c)

Next ==
    \/ \E c \in Calls : Step(c) \/ Rejects(c)
    \/ \E t \in queue : LedgerTakes(t) \/ Expires(t)
    \/ \E a \in Accounts : OtherUses(a)

Spec == Init /\ [][Next]_vars

\* Every await of a call settles.
FairSpec == Spec /\ \A c \in Calls : WF_vars(Step(c))

-----------------------------------------------------------------------------
(* Properties.                                                              *)

Sent == queue \cup landed \cup failed

\* The recovery never lets both transactions of a call reach a ledger, so no
\* call extends or pays twice.
OneLanding == \A t, u \in Sent : t.call = u.call => t = u

\* What a call reports is so: success and failure are those of its own
\* transaction, and an error of simulation or sending means that nothing of the
\* call is or ever will be in a ledger. Timeouts and exceptions promise nothing.
ResultIsTrue ==
    \A c \in Calls :
        /\ call[c].result = "success" => Built(c) \in landed
        /\ call[c].result = "failed" => Built(c) \in failed
        /\ call[c].result \in {"badSeq", "sendError", "simError"} =>
               \A t \in Sent : t.call # c

\* "Recovers once from txBadSeq errors by refreshing the account sequence"
\* (rpc/client.ts): a call reports a bad sequence number only when others moved
\* the account twice while it was under way.
RecoversOnce ==
    \A c \in Calls : call[c].result = "badSeq" => moved[c] >= 2

\* Every call ends, whatever the node answers.
Settles == \A c \in Calls : call[c].at # "idle" ~> call[c].at = "done"
=============================================================================
