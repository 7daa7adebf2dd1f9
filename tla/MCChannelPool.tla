--------------------------- MODULE MCChannelPool ---------------------------
(***************************************************************************)
(* ChannelPool for TLC, with the history of its hand-outs.                  *)
(***************************************************************************)
EXTENDS PoolOrder

ASSUME PoolAssumption == PoolConstants

=============================================================================
