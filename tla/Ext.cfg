\* Two contracts share one channel account and the key of the second policy is
\* missing; the first has two entries and a tracked budget of one extension; one
\* step fails.
CONSTANTS
    c1 = c1  c2 = c2  e1 = e1  e2 = e2  e3 = e3
    own1 = own1  own2 = own2
    Contracts = {c1, c2}
    Entries = {e1, e2, e3}
    OwnerOf <- TwoAndOne
    PolicyKey <- OwnKeys
    Signers <- SecondKeyMissing
    NumAccounts = 1
    NoSlot = NoSlot
    Below = 2
    Target = 3
    RateLimit = 1
    Hour = 2
    Fee = 1
    TrackedLimit <- LimitFirst
    MonthlyLimit <- Unlimited
    NoLimit = NoLimit
    MaxLedger = 4
    MaxFaults = 1
SPECIFICATION FairSpec
INVARIANTS UndisturbedSources HistoryIsTrue UndisturbedRateLimit SlotsAreReturned
PROPERTIES LowIsExtended
