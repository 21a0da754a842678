SPECIFICATION Spec
CONSTANTS
    a = a  b = b  none = none
    Ext <- MCExt
    InProc <- MCInProc
    Direct <- MCDirect
    NoExt = none
    MaxCapacity = 2
    MaxRounds = 1
    MaxConsecutiveCrashes = 1
    WorkerMayPanic = FALSE
INVARIANTS
    SerialPerExtension
    OneHolder
    LruCoversPool
SYMMETRY Swap
