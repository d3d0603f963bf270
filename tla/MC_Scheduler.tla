--------------------------- MODULE MC_Scheduler ---------------------------
(* Instances of Scheduler for TLC: threads and tasks are model values and  *)
(* each task's program is fixed here.                                      *)
EXTENDS Scheduler

CONSTANTS main, w1, w2, t1, t2, t3, t4

OneWorker  == {w1}
TwoWorkers == {w1, w2}

Ready          == [op |-> "ready"]
SwitchTo_(thr) == [op |-> "switch", to |-> thr]
Spawn_(g, thr) == [op |-> "spawn", g |-> g, to |-> thr]
Wait_          == [op |-> "wait"]
TryWait_       == [op |-> "trywait"]
Notify_        == [op |-> "notify"]

\* use_caller with one worker thread and a semaphore with one permit:
\* t1 (any thread) yields twice and tries the semaphore in between; t2 is
\* pinned to w1, calls switchTo(w1) there (the early return for the current
\* thread), spawns t3 onto w1 and t4 onto its own thread, and waits;
\* t3 waits, then tries; t4 notifies three times.  Every call that can
\* block or wake is made on w1, so a waiter is off its stack before anyone
\* can wake it.
MixTasks == {t1, t2, t3, t4}
MixRoots == <<[t |-> t1, thr |-> AnyThread], [t |-> t2, thr |-> w1]>>
MixProg  == [t \in MixTasks |->
               CASE t = t1 -> <<Ready, TryWait_, Ready>>
                 [] t = t2 -> <<SwitchTo_(w1), Spawn_(t3, w1), Spawn_(t4, Self), Wait_>>
                 [] t = t3 -> <<Wait_, TryWait_>>
                 [] t = t4 -> <<Notify_, Notify_, Notify_>>]

\* use_caller with one worker thread: fibers moving between the threads
\* with switchTo, without yielding otherwise
SwitchTasks == {t1, t2}
SwitchRoots == <<[t |-> t1, thr |-> AnyThread], [t |-> t2, thr |-> w1]>>
SwitchProg  == [t \in SwitchTasks |->
                  CASE t = t1 -> <<SwitchTo_(w1), SwitchTo_(main)>>
                    [] t = t2 -> <<SwitchTo_(main), SwitchTo_(w1)>>]

\* two worker threads: a task pinned to w1 that yields
PinnedTasks == {t1}
PinnedRoots == <<[t |-> t1, thr |-> w1]>>
PinnedProg  == [t \in PinnedTasks |-> <<Ready>>]

\* two worker threads: a fiber switching to w2
RaceTasks == {t1}
RaceRoots == <<[t |-> t1, thr |-> AnyThread]>>
RaceProg  == [t \in RaceTasks |-> <<SwitchTo_(w2)>>]

\* use_caller with one worker thread: a fiber that yields and then hands a
\* callable to the main thread
WindowTasks == {t1, t2}
WindowRoots == <<[t |-> t1, thr |-> AnyThread]>>
WindowProg  == [t \in WindowTasks |->
                  CASE t = t1 -> <<Ready, Spawn_(t2, main)>>
                    [] t = t2 -> <<>>]

\* two worker threads: one fiber waits on the semaphore, another notifies
SemRaceTasks == {t1, t2}
SemRaceRoots == <<[t |-> t1, thr |-> AnyThread], [t |-> t2, thr |-> AnyThread]>>
SemRaceProg  == [t \in SemRaceTasks |->
                   CASE t = t1 -> <<Wait_>>
                     [] t = t2 -> <<Notify_>>]
=============================================================================
