\* One cycle after the other; the node never has to answer for the first contract.
CONSTANTS
    c1 = c1  c2 = c2  e1 = e1  e2 = e2  k1 = k1
    Contracts = {c1, c2}
    TableOrder <- BothContracts
    Entries = {e1, e2}
    OwnerOf <- TwoOwners
    Cycles = {y1}
    MaxExtends = 1
    Configs = {k1}
    Threshold <- ThresholdTwo
    MaxTTL = 2
    MaxRetry = 2
    MaxFaults = 1
    Moments = {0, 1, 2, 3, 4}
    None = None
SPECIFICATION PartlyFairSpec
INVARIANTS NoFalseRecovery
PROPERTIES ImplementsQueue BelowIsDetected RecoveryResolves FiredSettles
