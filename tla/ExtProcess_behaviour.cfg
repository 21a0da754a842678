SPECIFICATION FairSpec
CONSTANTS
    Kinds = {"response", "declared", "undeclared", "invalid", "changed", "toolarge", "notutf8"}
    MaxCalls = 3
    MaxFrames = 3
    QueueCap = 1
    RequestCap = 1
    PipeCap = 2
INVARIANTS
    AnswerBeatsExit
PROPERTIES
    ImplementsGate
    AnswersOwnCall
    ImplementsRpc
    PollsReturn
CHECK_DEADLOCK FALSE
