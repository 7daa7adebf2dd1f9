\* One entry, archived or low, two accounts, one of them registered, two terminals
\* that run two commands between them, one fault.
CONSTANTS
    s1 = s1  s2 = s2  note = note  empty = empty
    Environment <- MCEnvironment
    Vault <- MCVault
    Secrets = {s1, s2}
    Texts = {note, empty}
    EmptyText = empty
    Null = Null
    Entries = {e1}
    Accounts = {a1, a2}
    Terminals = {t1, t2}
    Daemon = Daemon
    Sources <- MCSources
    Limits <- MCLimits
    FirstPolicies <- MCFirstPolicies
    FirstChannels = {a1}
    MinTTL = 2
    MaxLedger = 3
    MaxCommands = 2
    MaxFaults = 1
SPECIFICATION FairSpec
INVARIANTS SignsOnlyEnabled FundedIsPaid PaidAsReported
PROPERTIES RestoredIsSeen
