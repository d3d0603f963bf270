CONSTANTS
    Fds <- TwoFds
    Opts <- BothOpts
    TimeVals <- SomeTimeVals
    NbArgs <- EitherNb
    IoctlArgs <- EitherNb
    Hooked <- HookOn
    MaxGen = 2
SPECIFICATION Spec
INVARIANT TypeOK NoStaleCtx UserViewAgrees
