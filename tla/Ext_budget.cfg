\* A monthly limit of one extension, set with the budget command.
CONSTANTS
    c1 = c1  c2 = c2  e1 = e1  e2 = e2  e3 = e3
    own1 = own1  own2 = own2
    Contracts = {c1}
    Entries = {e1}
    OwnerOf <- AllFirst
    PolicyKey <- OwnKeys
    Signers <- PolicyKeysOnly
    NumAccounts = 0
    NoSlot = NoSlot
    Below = 2
    Target = 3
    RateLimit = 5
    Hour = 1
    Fee = 1
    TrackedLimit <- Unlimited
    MonthlyLimit <- LimitOne
    NoLimit = NoLimit
    MaxLedger = 6
    MaxFaults = 0
SPECIFICATION Spec
INVARIANTS BudgetEnforced
