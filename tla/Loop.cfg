\* Three starts and any number of stops, at any time.
CONSTANTS
    Starts = {s1, s2, s3}
    NoTimer = NoTimer
    MaxInFlight = 2
SPECIFICATION FairSpec
PROPERTIES SettledStopIsFinal KeepsCycling
\* Shutdown ends the process.
CHECK_DEADLOCK FALSE
