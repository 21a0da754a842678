SPECIFICATION Spec
CONSTANTS
    a = a  b = b  none = none
    Ext <- MCExtOne
    InProc <- MCInProc
    Direct <- MCDirectA
    NoExt = none
    MaxCapacity = 1
    MaxRounds = 2
    MaxConsecutiveCrashes = 2
    WorkerMayPanic = TRUE
INVARIANTS
    TrippedIsQuiet
PROPERTIES
    TripIsSticky
