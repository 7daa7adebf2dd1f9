\* Three days of two moments, windows of one and two days, two extensions,
\* two daemons, one import and one fault. A behaviour may stop: nothing has
\* to be recorded.
CONSTANTS
    code = code
    persistent = persistent
    temporary = temporary
    Entries = {code, persistent, temporary}
    EntryOrder <- MCEntryOrder
    TypeOf <- MCTypeOf
    LabelOf <- MCLabelOf
    Sizes = {3}
    NoSize = NoSize
    DefaultSize = 2
    DayLength = 2
    Daemons = {d1, d2}
    LedgersNum = 7
    LedgersDen = 2
    Increment = 2
    FeePerIncrement = 5
    PersistentRate = 3
    TemporaryRate = 2
    CodeDiscount = 3
    Windows = {1, 2}
    MaxNow = 5
    MaxRows = 2
    MaxRestores = 1
    MaxFailures = 1
SPECIFICATION CostFairSpec
INVARIANTS NeverOverstates ReportsAgree 
PROPERTIES DaysAreClosed
CHECK_DEADLOCK FALSE
