----------------------------- MODULE MCOperator -----------------------------
(* A small instance of Operator for TLC.                                    *)
EXTENDS Operator, TLC

CONSTANTS s1, s2, note, empty

EnvSource == [kind |-> "env", name |-> "KEY", field |-> Null]
VaultSource == [kind |-> "vault", name |-> "kv/ops", field |-> Null]

MCEnvironment == "KEY" :> s1

\* The only field with one of the usual names is empty, and there is more than one
\* string.
MCVault == "kv/ops" :> [comment |-> note, secret_key |-> empty, ops |-> s2]

MCSources == {EnvSource, VaultSource, [kind |-> "direct", name |-> s1, field |-> Null]}
MCLimits == {[below |-> 2, target |-> 3], [below |-> 3, target |-> 3]}
MCFirstPolicies ==
    {Null, [enabled |-> TRUE, below |-> 2, target |-> 3, source |-> EnvSource]}

=============================================================================
