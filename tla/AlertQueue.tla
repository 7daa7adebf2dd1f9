----------------------------- MODULE AlertQueue -----------------------------
(***************************************************************************)
(* What the alert tables promise, without cycles, snapshots or requests: an *)
(* at-least-once delivery queue with a bounded number of attempts per alert. *)
(* README, "Alert Lifecycle" and "Retry Policy".                            *)
(***************************************************************************)
EXTENDS Naturals

CONSTANTS
    Alerts,         \* every alert that may ever be fired
    MaxRetry        \* attempts before an alert is abandoned

VARIABLES
    status,         \* where each alert is in its life
    attempts,       \* failed attempts of a pending or abandoned alert
    arrived         \* alerts the channel has received at least once

queueVars == <<status, attempts, arrived>>

Init ==
    /\ status = [a \in Alerts |-> "absent"]
    /\ attempts = [a \in Alerts |-> 0]
    /\ arrived = {}

Move(S, to) == status' = [a \in Alerts |-> IF a \in S THEN to ELSE status[a]]

\* One evaluation of the thresholds may fire several alerts.
Fire(S) ==
    /\ \A a \in S : status[a] = "absent"
    /\ Move(S, "pending")
    /\ UNCHANGED <<attempts, arrived>>

\* Only a pending alert is sent, or one deleted while its request was on its way.
Arrive(a) ==
    /\ status[a] \in {"pending", "deleted"}
    /\ arrived' = arrived \cup {a}
    /\ UNCHANGED <<status, attempts>>

Succeed(a) ==
    /\ status[a] = "pending"
    /\ a \in arrived
    /\ Move({a}, "delivered")
    /\ UNCHANGED <<attempts, arrived>>

Fail(a) ==
    /\ status[a] = "pending"
    /\ attempts' = [attempts EXCEPT ![a] = @ + 1]
    /\ Move({a}, IF attempts[a] + 1 = MaxRetry THEN "abandoned" ELSE "pending")
    /\ UNCHANGED arrived

\* Removing a config deletes its alerts and makes further ones impossible.
Delete(S) ==
    /\ Move(S, "deleted")
    /\ attempts' = [a \in Alerts |-> IF a \in S THEN 0 ELSE attempts[a]]
    /\ UNCHANGED arrived

Next ==
    \/ \E S \in SUBSET Alerts : Fire(S) \/ Delete(S)
    \/ \E a \in Alerts : Arrive(a) \/ Succeed(a) \/ Fail(a)

Spec == Init /\ [][Next]_queueVars
=============================================================================
