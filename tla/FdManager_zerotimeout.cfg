CONSTANTS
    Fds <- TwoFds
    Opts <- RcvOpt
    TimeVals <- SomeTimeVals
    NbArgs <- EitherNb
    IoctlArgs <- NoIoctl
    Hooked <- HookOn
    MaxGen = 2
SPECIFICATION Spec
INVARIANT ZeroMeansNoTimeout
