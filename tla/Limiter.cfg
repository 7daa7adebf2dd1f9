\* Two requests per window of two ticks. Four calls make up to seven requests,
\* so that slots are reserved up to two windows ahead, while a timer may be one
\* tick late. A behaviour ends when its calls are made: it may stop.
CONSTANTS
    Limit = 2
    Window = 2
    Interval = 2
    MaxAttempts = 2
    MaxLate = 1
    fee = fee
    lg = lg
    po = po
    pp = pp
    Callers = {fee, lg, po, pp}
    Kind <- MCKind
    HasTable = TRUE
    MaxCalls = 4
    MaxNow = 0
SPECIFICATION LimiterFairSpec
INVARIANTS RateIsKept
PROPERTIES SoonServed EveryCallEnds
CHECK_DEADLOCK FALSE
