---------------------------- MODULE MCRpcLimiter ----------------------------
(***************************************************************************)
(* RpcLimiter for TLC: two requests per window of two ticks, and callers    *)
(* of every kind.                                                          *)
(***************************************************************************)
EXTENDS RpcLimiter, TLC

CONSTANTS fee, lg, po, pp

MCKind == fee :> "single" @@ lg :> "ledger"
              @@ po :> "poll" @@ pp :> "passphrase"

=============================================================================
