SPECIFICATION Spec
CONSTANTS
    Token = {"n", "^"}
    MaxDepth = 1
    Longest = 9
INVARIANT
    StackIsBounded
