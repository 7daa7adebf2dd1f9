------------------------------ MODULE MCStore -------------------------------
(***************************************************************************)
(* Store for TLC: one contract; an older file has it with an entry and a    *)
(* config whose alert has fired; the file of another database has the same  *)
(* contract with another entry under the same id.                          *)
(***************************************************************************)
EXTENDS Store

CONSTANTS c1, k1, k2, other

MCMaxId == [entries |-> 2, configs |-> 1]

MCOldRows ==
    [contracts |-> {[id |-> c1, parent |-> Null, val |-> 7]},
     entries |-> {[id |-> 1, parent |-> c1, val |-> k1]},
     configs |-> {[id |-> 1, parent |-> c1, val |-> Null]},
     history |-> {[id |-> 1, parent |-> 1, val |-> k1]},
     alerts |-> {[id |-> 1, parent |-> 1, val |-> Null]}]

MCOtherFiles ==
    {[tables |-> <<{[id |-> c1, parent |-> Null, val |-> 7]},
                   {[id |-> 1, parent |-> c1, val |-> k2]},
                   {}>>,
      torn |-> FALSE,
      of |-> other]}

=============================================================================
