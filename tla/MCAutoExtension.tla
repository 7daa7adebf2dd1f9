-------------------------- MODULE MCAutoExtension --------------------------
(* Small instances of AutoExtension for TLC.                                *)
EXTENDS AutoExtension, TLC

CONSTANTS c1, c2, e1, e2, e3, own1, own2

OneEach == (e1 :> c1) @@ (e2 :> c2)
TwoAndOne == OneEach @@ (e3 :> c1)
AllFirst == [e \in Entries |-> c1]

OwnKeys == [c \in Contracts |-> IF c = c1 THEN own1 ELSE own2]

\* Secrets that resolve: the channel accounts and one policy's; the policies only,
\* since channels add stores no keypair_source.
SecondKeyMissing == Slots \cup {own1}
PolicyKeysOnly == {own1, own2}

Unlimited == [c \in Contracts |-> NoLimit]
LimitFirst == [c \in Contracts |-> IF c = c1 THEN 1 ELSE NoLimit]
LimitOne == [c \in Contracts |-> 1]
=============================================================================
