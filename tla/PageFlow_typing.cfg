CONSTANTS
    files = files
    other = other
    a = a
    b = b
    Page = {files, other}
    FilePage = files
    Query = {a, b}
    MaxDepth = 2
SPECIFICATION PageSpec
INVARIANTS
    TypeOK
    NothingForgotten
PROPERTIES
    LandsForTheBox
    QuietPageSettles
CHECK_DEADLOCK FALSE
