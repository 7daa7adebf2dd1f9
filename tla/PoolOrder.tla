----------------------------- MODULE PoolOrder -----------------------------
(***************************************************************************)
(* The order in which ChannelPool hands accounts out: the pool with a       *)
(* history variable, which it never reads.                                 *)
(***************************************************************************)
EXTENDS ChannelPool

VARIABLE since  \* the accounts handed out since each account became free

orderVars == <<vars, since>>

Handed(s) == \E c \in Callers : slot'[c] = s /\ slot[c] # s

OrderInit == Init /\ since = [s \in Slots |-> {}]

OrderNext ==
    /\ Next
    /\ since' = [s \in Slots |->
                    IF s \in inUse \cup inUse' \/ asked' = {}
                    THEN {}
                    ELSE since[s] \cup {t \in Slots : Handed(t)}]

OrderSpec == OrderInit /\ [][OrderNext]_orderVars
OrderFairSpec == OrderSpec /\ Fairness

\* acquire() hands out a slot in round-robin order: an account that stays free
\* is handed out before any other account is handed out twice.
RoundRobin ==
    [][\A s \in Slots \ (inUse \cup inUse') :
           \A t \in since[s] : ~ Handed(t)]_orderVars

=============================================================================
