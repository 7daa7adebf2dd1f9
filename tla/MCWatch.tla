------------------------------ MODULE MCWatch -------------------------------
(* Small instances of Watch for TLC.                                        *)
EXTENDS Status, TLC

CONSTANTS n1, n2, w1, w2, w3, k1

\* w1 and w2 are for the same network, w3 is for the other one.
NetworksMixed == [w \in Watchers |-> IF w = w3 THEN n2 ELSE n1]
ManualFirst == [v \in Watchers |-> IF v = w1 THEN {k1} ELSE {}]
ScanFirst == [d \in Scans |-> n1]
KeyExtended == {<<n1, k1>>}
OneFootprint == {{k1}}
=============================================================================
