--------------------------- MODULE MC_IOManager ---------------------------
(* Instances of IOManager for TLC.  Fibers and fds are model values; the  *)
(* hooked call of each fiber is fixed here.                                *)
EXTENDS IOManager

CONSTANTS w1, w2, rd, wr, cl, sl, fd1

\* one worker; a reader with SO_RCVTIMEO, a connect with its timeout, a
\* fiber closing their fd, and a sleeper
OneWorker  == {w1}
MixFibers  == {rd, wr, cl, sl}
MixProg    == [f \in MixFibers |->
                 CASE f = rd -> [op |-> "io", fd |-> fd1, ev |-> "READ", timeout |-> TRUE]
                   [] f = wr -> [op |-> "connect", fd |-> fd1, ev |-> "WRITE", timeout |-> TRUE]
                   [] f = cl -> [op |-> "close", fd |-> fd1]
                   [] f = sl -> [op |-> "sleep"]]

\* two workers and one reader without a timeout
TwoWorkers == {w1, w2}
ReadFibers == {rd}
ReadProg   == [f \in ReadFibers |->
                 [op |-> "io", fd |-> fd1, ev |-> "READ", timeout |-> FALSE]]

\* two workers and one reader with SO_RCVTIMEO
TimedProg  == [f \in ReadFibers |->
                 [op |-> "io", fd |-> fd1, ev |-> "READ", timeout |-> TRUE]]

\* two workers and one connect with its timeout
ConnectFibers == {wr}
ConnectProg   == [f \in ConnectFibers |->
                    [op |-> "connect", fd |-> fd1, ev |-> "WRITE", timeout |-> TRUE]]

\* one worker, a reader without a timeout and a fiber closing its fd
ReuseFibers == {rd, cl}
ReuseProg   == [f \in ReuseFibers |->
                  IF f = rd THEN [op |-> "io", fd |-> fd1, ev |-> "READ", timeout |-> FALSE]
                            ELSE [op |-> "close", fd |-> fd1]]

\* one worker and one sleeper
SleepFibers == {sl}
SleepProg   == [f \in SleepFibers |-> [op |-> "sleep"]]

BothEvents == {"READ", "WRITE"}
ReadEvent  == {"READ"}
WriteEvent == {"WRITE"}
OneFd      == {fd1}
=============================================================================
