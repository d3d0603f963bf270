CONSTANTS
    Fds <- TwoFds
    Opts <- RcvOpt
    TimeVals <- NonZeroTimeVals
    NbArgs <- EitherNb
    IoctlArgs <- EitherNb
    Hooked <- HookOn
    MaxGen = 2
SPECIFICATION Spec
INVARIANT KernelNonblocking
