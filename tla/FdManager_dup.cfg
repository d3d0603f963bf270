CONSTANTS
    Fds <- TwoFds
    Opts <- BothOpts
    TimeVals <- SomeTimeVals
    NbArgs <- EitherNb
    IoctlArgs <- NoIoctl
    Hooked <- HookOn
    MaxGen = 2
SPECIFICATION DupSpec
INVARIANT KernelNonblocking
