SPECIFICATION FairSpec
CONSTANTS
    a = a  b = b  none = none
    Ext <- MCExt
    InProc <- MCInProcB
    Direct <- MCDirectA
    NoExt = none
    MaxCapacity = 1
    MaxRounds = 0
    MaxConsecutiveCrashes = 1
    WorkerMayPanic = FALSE
PROPERTIES
    RequestsSettle
    HiddenReleases
