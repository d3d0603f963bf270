---------------------------- MODULE MC_FdManager ----------------------------
(* Instances of FdManager for TLC: two fd numbers, both timeouts, and the *)
(* timevals that matter to the conversion: zero, under a millisecond, and *)
(* one second.                                                             *)
EXTENDS FdManager

TwoFds == {3, 4}
BothOpts == {"RCV", "SND"}
RcvOpt == {"RCV"}
SomeTimeVals == {[sec |-> 0, usec |-> 0], [sec |-> 0, usec |-> 500],
                 [sec |-> 1, usec |-> 0]}
NonZeroTimeVals == {[sec |-> 0, usec |-> 500], [sec |-> 1, usec |-> 0]}
ZeroTimeVal == {[sec |-> 0, usec |-> 0]}
EitherNb == BOOLEAN
NoIoctl == {}
HookOn == {TRUE}
HookEither == BOOLEAN
=============================================================================
