SPECIFICATION Spec
CONSTANTS
    MaxSessions = 1
    MaxChanges = 3
PROPERTY
    NewerConfigIsKept
CHECK_DEADLOCK FALSE
