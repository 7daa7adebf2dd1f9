------------------------------- MODULE Secrets ------------------------------
(***************************************************************************)
(* resolveSecretKey: what a keypair_source stands for. A source names an    *)
(* environment variable, a secret of HashiCorp Vault with or without one of *)
(* its fields, or is the secret itself. A string of a Vault document is a   *)
(* Stellar secret or some other text; the KV engine that nests the document *)
(* is left out.                                                            *)
(***************************************************************************)
EXTENDS Sequences, FiniteSets

CONSTANTS
    Environment,    \* the variables that are set, with their values
    Vault,          \* the documents of Vault, each a function of field names
    Secrets,        \* strings of 56 characters that start with S
    Texts,          \* other strings
    EmptyText,      \* one of them
    Null

Strings == Secrets \cup Texts

\* The names getSecret tries in turn.
Candidates == <<"secret_key", "private_key", "secret", "value", "stellar_secret", "key">>

\* The field getSecret picks, Null if there is none. The first candidate that is
\* a string ends the search; if it is empty, the document is searched as if it had
\* no candidate.
FieldValue(doc, field) ==
    LET named == SelectSeq(Candidates, LAMBDA n : n \in DOMAIN doc /\ doc[n] \in Strings)
        picked == IF named = << >> THEN EmptyText ELSE doc[Head(named)]
        strings == {n \in DOMAIN doc : doc[n] \in Strings}
        stellar == {n \in DOMAIN doc : doc[n] \in Secrets}
        Only(names) == IF names = {} THEN Null ELSE doc[CHOOSE n \in names : TRUE]
    IN  IF field # Null THEN Only({field} \cap DOMAIN doc)
        ELSE IF picked # EmptyText THEN picked
        ELSE IF Cardinality(strings) = 1 THEN Only(strings)
        ELSE Only(stellar)

\* Whatever was picked must look like a Stellar secret.
GetSecret(doc, field) ==
    LET value == FieldValue(doc, field) IN IF value \in Secrets THEN value ELSE Null

\* The secret of a source while Vault answers; without one, Null. Of what an
\* environment variable holds only emptiness is looked at.
ResolveSecretKey(source) ==
    CASE source = Null -> Null
      [] source # Null /\ source.kind = "env" ->
             IF source.name \in DOMAIN Environment /\ Environment[source.name] # EmptyText
             THEN Environment[source.name] ELSE Null
      [] source # Null /\ source.kind = "vault" ->
             IF source.name \in DOMAIN Vault
             THEN GetSecret(Vault[source.name], source.field) ELSE Null
      [] source # Null /\ source.kind = "direct" ->
             IF source.name \in Secrets THEN source.name ELSE Null

=============================================================================
