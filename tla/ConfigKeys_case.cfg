CONSTANTS
    Chars <- KeyChars
    ToLowerChar <- KeyLower
    Keys <- MixedKeys
    Scalars = {"1000", "x"}
    IntScalars = {"1000"}
    Default = "5000"
    LookupCalls <- Calls
    MaxWidth = 2
    MaxDepth = 2
SPECIFICATION Spec
CHECK_DEADLOCK FALSE
INVARIANT KeysCaseInsensitive
