\* Two calls on one account, one of them sponsored, two transactions of other
\* users and one rejected await.
CONSTANTS
    c1 = c1  c2 = c2  a1 = a1
    Calls = {c1, c2}
    Accounts = {a1}
    SourceOf <- OneAccount
    Sponsored = {c2}
    MaxPolls = 2
    MaxMoves = 2
    MaxFaults = 1
SPECIFICATION FairSpec
INVARIANTS OneLanding ResultIsTrue
PROPERTIES Settles
CHECK_DEADLOCK FALSE
