CONSTANTS
    Fds <- TwoFds
    Opts <- RcvOpt
    TimeVals <- NonZeroTimeVals
    NbArgs <- EitherNb
    IoctlArgs <- NoIoctl
    Hooked <- HookEither
    MaxGen = 2
SPECIFICATION Spec
INVARIANT KernelNonblocking
