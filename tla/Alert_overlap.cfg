\* Two cycles in flight, as a restart of the loop allows.
CONSTANTS
    c1 = c1  c2 = c2  e1 = e1  e2 = e2  k1 = k1
    Contracts = {c1}
    TableOrder <- OneContract
    Entries = {e1}
    OwnerOf <- OneOwner
    Cycles = {y1, y2}
    MaxExtends = 0
    Configs = {k1}
    Threshold <- ThresholdTwo
    MaxTTL = 2
    MaxRetry = 2
    MaxFaults = 1
    Moments = {0, 1}
    None = None
SPECIFICATION Spec
INVARIANTS RetryBounded OneOpenAlert
SYMMETRY CycleSymmetry
