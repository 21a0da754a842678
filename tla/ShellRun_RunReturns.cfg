SPECIFICATION FairSpec
CONSTANTS
    Deadline = 1
    PipeSize = 1
    MaxOutput = 1
PROPERTY
    RunReturns
