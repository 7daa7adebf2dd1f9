---------------------------- MODULE MCCostLedger ----------------------------
(***************************************************************************)
(* CostLedger for TLC: a code entry without a label, a persistent and a     *)
(* temporary one that discovery found in a footprint, days of two moments,  *)
(* and rents small enough for TLC's integers.                              *)
(***************************************************************************)
EXTENDS CostLedger, TLC

CONSTANTS code, persistent, temporary

MCTypeOf == code :> "wasm" @@ persistent :> "persistent" @@ temporary :> "temporary"
MCLabelOf == [e \in Entries |-> IF e = code THEN "wasm" ELSE "Discovered (footprint)"]
MCEntryOrder == <<code, persistent, temporary>>

=============================================================================
