----------------------------- MODULE MCTxSubmit -----------------------------
(* A small instance of TxSubmit for TLC.                                    *)
EXTENDS TxSubmit, TLC

CONSTANTS c1, c2, a1

OneAccount == [c \in Calls |-> a1]
=============================================================================
