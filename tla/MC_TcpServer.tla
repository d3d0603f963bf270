---------------------------- MODULE MC_TcpServer ----------------------------
(* Instances of TcpServer for TLC: listening addresses and accept-worker  *)
(* threads are model values; the main thread's calls are fixed here.     *)
EXTENDS TcpServer

CONSTANTS a1, a2, t1, t2

TwoAddrs   == {a1, a2}
OneThread  == {t1}
TwoThreads == {t1, t2}

\* start, a second start while running (a no-op), stop
StartTwiceStop == <<"start", "start", "stop">>
\* stop, then start again
StopRestart    == <<"start", "stop", "start">>
=============================================================================
