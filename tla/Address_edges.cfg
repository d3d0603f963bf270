CONSTANTS
    V4Addrs <- TwoV4
    V6Addrs <- TwoV6
    V4Prefixes <- V4All
    V6Prefixes <- V6All
    ShiftAtWidth <- EitherShift
    Null = Null
SPECIFICATION Spec
INVARIANT MasksMatchReference
