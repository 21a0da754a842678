SPECIFICATION Spec
CONSTANTS
    a = a  b = b  none = none
    Ext <- MCExt
    InProc <- MCInProc
    Direct <- MCDirect
    NoExt = none
    MaxCapacity = 1
    MaxRounds = 1
    MaxConsecutiveCrashes = 2
    WorkerMayPanic = FALSE
INVARIANTS
    AtMostOneInFlight
