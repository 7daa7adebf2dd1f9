\* Two watches on one network, the first with a manual key besides the instance, and a
\* forced one without introspection on another; a discovery; two ledgers.
CONSTANTS
    n1 = n1  n2 = n2  w1 = w1  w2 = w2  w3 = w3  k1 = k1
    Networks = {n1, n2}
    NoNetwork = NoNetwork
    Instance = instance
    Wasm = wasm
    Keys = {instance, k1}
    Watchers = {w1, w2, w3}
    NetworkOf <- NetworksMixed
    ManualKeys <- ManualFirst
    Forced = {w3}
    NoIntrospection = {w2, w3}
    Daemons = {n1}
    Scans = {d1}
    ScanNetwork <- ScanFirst
    Footprints <- OneFootprint
    CacheAge = 1
    FirstTTL = 1
    Extendable <- KeyExtended
    MaxNow = 1
    MaxInFlight = 2
    FailUnder = 1
    Critical = 1
    Warning = 2
SPECIFICATION FairStatusSpec
INVARIANTS CacheIsEarned NetworkIsolation
PROPERTIES ReportsConverge
CHECK_DEADLOCK FALSE
