\* An old or a new file, two processes, two migrations, one contract, two
\* keys and up to two ids per table, the file of another database, one import, one
\* fault. A process may stop writing: the behaviour may stop.
CONSTANTS
    c1 = c1
    k1 = k1
    k2 = k2
    Contracts = {c1}
    Keys = {k1, k2}
    Polls = {7}
    Null = Null
    other = other
    OtherFiles <- MCOtherFiles
    MaxId <- MCMaxId
    MaxImports = 1
    Daemon = Daemon
    Cli = Cli
    Migrations = {1, 2}
    OldRows <- MCOldRows
    MaxFaults = 1
SPECIFICATION FairSpec
INVARIANTS IdsKeepTheirMeaning OpenIsCurrent
PROPERTIES CleanBackupRestores OpeningKeepsRows OpensInTheEnd
CHECK_DEADLOCK FALSE
