CONSTANTS
    Chars <- KeyChars
    ToLowerChar <- KeyLower
    Keys <- LowerKeys
    Scalars = {"1000", "x"}
    IntScalars = {"1000"}
    Default = "5000"
    LookupCalls <- NineCalls
    MaxWidth = 2
    MaxDepth = 1
SPECIFICATION Spec
CHECK_DEADLOCK FALSE
INVARIANT DocumentedNamesAccepted
