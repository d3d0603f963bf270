----------------------------- MODULE Scheduler -----------------------------
(***************************************************************************)
(* The base coroutine scheduler of sylar on its own (src/sylar/scheduler.cc *)
(* and scheduler.h), with the fiber switches it drives (src/unnamed/       *)
(* part_004): the worker loop Scheduler::run with thread affinity, the    *)
(* base idle fiber that yields until stopping(), use_caller's root fiber  *)
(* run by the main thread inside stop(), start(), stop(), switchTo, and   *)
(* fibers that call YieldToReady or schedule further callables, and one   *)
(* FiberSemaphore (src/unnamed/part_006) the tasks wait on and notify.    *)
(*                                                                         *)
(* The main thread constructs the scheduler, calls start(), schedules the  *)
(* Roots in order and calls stop().  Each task is a callable whose body   *)
(* is the program Prog[t]; the run loop wraps it in a fiber, which is the *)
(* task's identity from then on.  The base tickle() only logs, so it has  *)
(* no state here.                                                          *)
(***************************************************************************)
EXTENDS Naturals, Sequences, FiniteSets, SequencesExt

CONSTANTS
    Workers,    \* the threads start() spawns (m_threadCount of them)
    Main,       \* the thread that constructs and stops the scheduler
    UseCaller,  \* the use_caller constructor argument
    Tasks,      \* callables, each scheduled once
    Roots,      \* the sequence of [t, thr] the main thread schedules
    Prog,       \* Prog[t]: the sequence of scheduler calls task t makes
    AnyThread,  \* thread -1: no affinity
    Self,       \* the thread id the task reads with GetThreadId()
    NoFiber,
    SemInit     \* the initial_concurrency of the tasks' FiberSemaphore

(* The threads that run Scheduler::run: with use_caller the main thread    *)
(* is one of them, running its root fiber inside stop().                   *)
Threads == IF UseCaller THEN Workers \cup {Main} ELSE Workers

Ops == [op : {"ready"}]
         \cup [op : {"switch"}, to : Threads \cup {AnyThread}]
         \cup [op : {"spawn"}, g : Tasks, to : Threads \cup {AnyThread, Self}]
         \cup [op : {"wait", "trywait", "notify"}]

ASSUME /\ Main \notin Workers
       /\ UseCaller \in BOOLEAN
       /\ SemInit \in Nat
       /\ Prog \in [Tasks -> Seq(Ops)]
       /\ \A i \in DOMAIN Roots : Roots[i].t \in Tasks /\ Roots[i].thr \in Threads \cup {AnyThread}

VARIABLES
    queue,     \* m_fibers: entries [kind, t, thr]
    active,    \* m_activeThreadCount
    stopFlag,  \* m_stopping
    autoStop,  \* m_autoStop
    wpc,       \* where each thread is in run()
    wtask,     \* ft: the entry the thread took
    running,   \* the task fiber whose stack the thread's CPU is on
    idleTerm,  \* the thread's idle fiber has returned (TERM)
    fstate,    \* Fiber::m_state of each task's fiber
    fpc,       \* the next call of each task's program
    onCpu,     \* the threads executing on each task's stack
    mpc,       \* the main thread: start, sched, stop, stop2, root, join, done
    unsched,   \* the Roots not scheduled yet
    home,      \* history: the affinity of the last pinned entry a task ran from
    sem,       \* FiberSemaphore::m_concurrency
    waiters    \* FiberSemaphore::m_waiters (the Scheduler* is always this one)

vars == <<queue, active, stopFlag, autoStop, wpc, wtask, running, idleTerm,
          fstate, fpc, onCpu, mpc, unsched, home, sem, waiters>>
semVars == <<sem, waiters>>

NoTask == [kind |-> "none"]
Entries == [kind : {"fn", "fiber"}, t : Tasks, thr : Threads \cup {AnyThread}]

-----------------------------------------------------------------------------
(* Scheduler::stopping.                                                    *)
stopping ==
    /\ autoStop /\ stopFlag
    /\ queue = <<>>
    /\ active = 0

(* Scheduler::schedule(fc, thread) / scheduleNoLock: append under the lock *)
(* (tickle, the log line, has no state).                                   *)
Schedule(kind, t, thr) == queue' = Append(queue, [kind |-> kind, t |-> t, thr |-> thr])

(* Mutant: the scan without its affinity check.                          *)
TakeableAnyThread(w, e) == ~(e.kind = "fiber" /\ fstate[e.t] = "EXEC")

(* The run loop takes an entry if its affinity is -1 or this thread, and  *)
(* it is not a fiber still in EXEC.                                        *)
Takeable(w, e) == /\ e.thr \in {AnyThread, w}
                  /\ ~(e.kind = "fiber" /\ fstate[e.t] = "EXEC")

(* The history variable: a pinned entry re-pins the task; an entry with    *)
(* affinity -1 keeps the pin it had.                                        *)
Rehome(e) == home' = [home EXCEPT ![e.t] = IF e.thr = AnyThread THEN @ ELSE e.thr]

(* Fiber::swapIn: EXEC, and the thread's CPU moves onto the fiber's stack. *)
SwapIn(w, t) ==
    /\ fstate' = [fstate EXCEPT ![t] = "EXEC"]
    /\ onCpu' = [onCpu EXCEPT ![t] = @ \cup {w}]
    /\ running' = [running EXCEPT ![w] = t]
    /\ wpc' = [wpc EXCEPT ![w] = "fiber"]

(* Scheduler::run, top of the loop: scan m_fibers under the lock for the   *)
(* first takeable entry, erase it and count the thread active.  A fiber   *)
(* entry or a callable is swapped in (a callable gets a cb_fiber in       *)
(* INIT); a fiber entry already TERM only drops the count again.          *)
TakeEntry(w) ==
    /\ wpc[w] = "take"
    /\ LET i == SelectInSeq(queue, LAMBDA e : Takeable(w, e))
           e == queue[i]
       IN  /\ i # 0
           /\ queue' = RemoveAt(queue, i)
           /\ IF e.kind = "fiber" /\ fstate[e.t] = "TERM"
              THEN UNCHANGED <<active, wtask, running, fstate, onCpu, wpc, home>>
              ELSE /\ active' = active + 1
                   /\ wtask' = [wtask EXCEPT ![w] = e]
                   /\ SwapIn(w, e.t)
                   /\ Rehome(e)
    /\ UNCHANGED <<stopFlag, autoStop, idleTerm, fpc, mpc, unsched, semVars>>

(* Scheduler::run with no takeable entry: leave the loop if the idle      *)
(* fiber is TERM, otherwise swap the idle fiber in.                       *)
TakeNone(w) ==
    /\ wpc[w] = "take"
    /\ SelectInSeq(queue, LAMBDA e : Takeable(w, e)) = 0
    /\ wpc' = [wpc EXCEPT ![w] = IF idleTerm[w] THEN "exit" ELSE "idle"]
    /\ UNCHANGED <<queue, active, stopFlag, autoStop, wtask, running, idleTerm,
                   fstate, fpc, onCpu, mpc, unsched, home, semVars>>

(* The base Scheduler::idle fiber, swapped in: return (TERM) when          *)
(* stopping(), else YieldToHold back to the run loop.                      *)
IdleRun(w) ==
    /\ wpc[w] = "idle"
    /\ idleTerm' = [idleTerm EXCEPT ![w] = stopping]
    /\ wpc' = [wpc EXCEPT ![w] = "take"]
    /\ UNCHANGED <<queue, active, stopFlag, autoStop, wtask, running, fstate,
                   fpc, onCpu, mpc, unsched, home, semVars>>

(* Mutant: the loop forgets --m_activeThreadCount after swapIn.          *)
PostResumeNoDec(w) ==
    /\ wpc[w] = "post"
    /\ wpc' = [wpc EXCEPT ![w] = "resched"]
    /\ UNCHANGED <<queue, active, stopFlag, autoStop, wtask, running, idleTerm,
                   fstate, fpc, onCpu, mpc, unsched, home, semVars>>

(* Scheduler::run after swapIn returns, first statement: the thread is no *)
(* longer active.                                                          *)
PostResume(w) ==
    /\ wpc[w] = "post"
    /\ active' = active - 1
    /\ wpc' = [wpc EXCEPT ![w] = "resched"]
    /\ UNCHANGED <<queue, stopFlag, autoStop, wtask, running, idleTerm, fstate,
                   fpc, onCpu, mpc, unsched, home, semVars>>

(* Mutant: the READY case is missing, so a yielded fiber is parked HOLD. *)
RescheduleNoReady(w) ==
    /\ wpc[w] = "resched"
    /\ LET t == wtask[w].t IN
       IF fstate[t] \notin {"TERM", "EXCEPT"}
       THEN fstate' = [fstate EXCEPT ![t] = "HOLD"]
       ELSE UNCHANGED fstate
    /\ wtask' = [wtask EXCEPT ![w] = NoTask]
    /\ wpc' = [wpc EXCEPT ![w] = "take"]
    /\ UNCHANGED <<queue, active, stopFlag, autoStop, running, idleTerm, fpc,
                   onCpu, mpc, unsched, home, semVars>>

(* ... then a READY fiber is scheduled again with affinity -1, and any    *)
(* other non-terminal one is set to HOLD.                                  *)
Reschedule(w) ==
    /\ wpc[w] = "resched"
    /\ LET t == wtask[w].t IN
       CASE fstate[t] = "READY" ->
              /\ Schedule("fiber", t, AnyThread)
              /\ UNCHANGED fstate
         [] fstate[t] \notin {"TERM", "EXCEPT"} ->
              /\ fstate' = [fstate EXCEPT ![t] = "HOLD"]
              /\ UNCHANGED queue
         [] OTHER -> UNCHANGED <<queue, fstate>>
    /\ wtask' = [wtask EXCEPT ![w] = NoTask]
    /\ wpc' = [wpc EXCEPT ![w] = "take"]
    /\ UNCHANGED <<active, stopFlag, autoStop, running, idleTerm, fpc, onCpu,
                   mpc, unsched, home, semVars>>

-----------------------------------------------------------------------------
(* The task fiber t whose stack thread w is executing, and its next call. *)
Exec(w, t) == wpc[w] = "fiber" /\ running[w] = t
Call(t) == Prog[t][fpc[t]]
Done(t) == fpc[t] > Len(Prog[t])

fiberUnchanged == UNCHANGED <<active, stopFlag, autoStop, wtask, idleTerm, mpc,
                              unsched, home, semVars>>

(* Leave the stack: Fiber::swapOut back to the thread's scheduling fiber. *)
LeaveCpu(w, t) ==
    /\ onCpu' = [onCpu EXCEPT ![t] = @ \ {w}]
    /\ running' = [running EXCEPT ![w] = NoFiber]
    /\ wpc' = [wpc EXCEPT ![w] = "post"]

(* Fiber::YieldToReady: set READY and swap out.                           *)
YieldToReady(w, t) ==
    /\ Exec(w, t) /\ ~Done(t) /\ Call(t).op = "ready"
    /\ fstate' = [fstate EXCEPT ![t] = "READY"]
    /\ fpc' = [fpc EXCEPT ![t] = @ + 1]
    /\ LeaveCpu(w, t)
    /\ UNCHANGED queue
    /\ fiberUnchanged

(* Scheduler::switchTo(thread): a no-op for -1 or the current thread;     *)
(* otherwise schedule(GetThis(), thread) and Fiber::YieldToHold, whose    *)
(* m_state = HOLD comes before swapOut saves the context.                 *)
SwitchTo(w, t) ==
    /\ Exec(w, t) /\ ~Done(t) /\ Call(t).op = "switch"
    /\ fpc' = [fpc EXCEPT ![t] = @ + 1]
    /\ IF Call(t).to \in {AnyThread, w}
       THEN UNCHANGED <<queue, fstate, wpc>>
       ELSE /\ Schedule("fiber", t, Call(t).to)
            /\ fstate' = [fstate EXCEPT ![t] = "HOLD"]
            /\ wpc' = [wpc EXCEPT ![w] = "yield"]
    /\ UNCHANGED <<running, onCpu>>
    /\ fiberUnchanged

(* Fiber::swapOut of YieldToHold: swapcontext saves the context and the   *)
(* CPU returns to Scheduler::run.                                          *)
SwapOut(w) ==
    /\ wpc[w] = "yield"
    /\ LeaveCpu(w, running[w])
    /\ UNCHANGED <<queue, fstate, fpc>>
    /\ fiberUnchanged

(* Scheduler::GetThis()->schedule(cb, thread): a further callable, with    *)
(* the affinity given, or the calling thread's own id.                     *)
Spawn(w, t) ==
    /\ Exec(w, t) /\ ~Done(t) /\ Call(t).op = "spawn"
    /\ Schedule("fn", Call(t).g, IF Call(t).to = Self THEN w ELSE Call(t).to)
    /\ fpc' = [fpc EXCEPT ![t] = @ + 1]
    /\ UNCHANGED <<fstate, wpc, running, onCpu>>
    /\ fiberUnchanged

(* Fiber::MainFunc after the callable returns: TERM and swap out.         *)
Finish(w, t) ==
    /\ Exec(w, t) /\ Done(t)
    /\ fstate' = [fstate EXCEPT ![t] = "TERM"]
    /\ LeaveCpu(w, t)
    /\ UNCHANGED <<queue, fpc>>
    /\ fiberUnchanged

(* FiberSemaphore::tryWait: under m_mutex, take a permit if there is one; *)
(* the task goes on either way (the bool it returns is not modelled).     *)
TryWait(w, t) ==
    /\ Exec(w, t) /\ ~Done(t) /\ Call(t).op = "trywait"
    /\ sem' = IF sem > 0 THEN sem - 1 ELSE sem
    /\ fpc' = [fpc EXCEPT ![t] = @ + 1]
    /\ UNCHANGED <<queue, fstate, wpc, running, onCpu, waiters>>
    /\ UNCHANGED <<active, stopFlag, autoStop, wtask, idleTerm, mpc, unsched,
                   home>>

(* FiberSemaphore::wait: under m_mutex, take a permit and return, or push *)
(* (this scheduler, this fiber) onto m_waiters; then, after the lock is    *)
(* released, Fiber::YieldToHold.                                           *)
SemWait(w, t) ==
    /\ Exec(w, t) /\ ~Done(t) /\ Call(t).op = "wait"
    /\ fpc' = [fpc EXCEPT ![t] = @ + 1]
    /\ IF sem > 0
       THEN /\ sem' = sem - 1
            /\ UNCHANGED <<waiters, wpc>>
       ELSE /\ waiters' = Append(waiters, t)
            /\ wpc' = [wpc EXCEPT ![w] = "hold"]
            /\ UNCHANGED sem
    /\ UNCHANGED <<queue, fstate, running, onCpu>>
    /\ UNCHANGED <<active, stopFlag, autoStop, wtask, idleTerm, mpc, unsched,
                   home>>

(* Fiber::YieldToHold, first statement: m_state = HOLD, before swapOut.    *)
YieldToHold(w) ==
    /\ wpc[w] = "hold"
    /\ fstate' = [fstate EXCEPT ![running[w]] = "HOLD"]
    /\ wpc' = [wpc EXCEPT ![w] = "yield"]
    /\ UNCHANGED <<queue, fpc, running, onCpu>>
    /\ fiberUnchanged

(* Mutant: notify adds a permit even when it wakes a waiter.              *)
NotifyAlwaysCounts(w, t) ==
    /\ Exec(w, t) /\ ~Done(t) /\ Call(t).op = "notify"
    /\ fpc' = [fpc EXCEPT ![t] = @ + 1]
    /\ sem' = sem + 1
    /\ IF waiters # <<>>
       THEN /\ Schedule("fiber", Head(waiters), AnyThread)
            /\ waiters' = Tail(waiters)
       ELSE UNCHANGED <<queue, waiters>>
    /\ UNCHANGED <<fstate, wpc, running, onCpu>>
    /\ UNCHANGED <<active, stopFlag, autoStop, wtask, idleTerm, mpc, unsched,
                   home>>

(* FiberSemaphore::notify, under m_mutex: pop the first waiter and        *)
(* schedule its fiber on its scheduler (affinity -1), or, with no waiter,  *)
(* add a permit.                                                           *)
SemNotify(w, t) ==
    /\ Exec(w, t) /\ ~Done(t) /\ Call(t).op = "notify"
    /\ fpc' = [fpc EXCEPT ![t] = @ + 1]
    /\ IF waiters # <<>>
       THEN /\ Schedule("fiber", Head(waiters), AnyThread)
            /\ waiters' = Tail(waiters)
            /\ UNCHANGED sem
       ELSE /\ sem' = sem + 1
            /\ UNCHANGED <<queue, waiters>>
    /\ UNCHANGED <<fstate, wpc, running, onCpu>>
    /\ UNCHANGED <<active, stopFlag, autoStop, wtask, idleTerm, mpc, unsched,
                   home>>

-----------------------------------------------------------------------------
mainUnchanged == UNCHANGED <<active, wtask, running, idleTerm, fstate, fpc,
                             onCpu, home, semVars>>

(* Scheduler::start: clear m_stopping and spawn the worker threads, each  *)
(* running run().                                                          *)
Start ==
    /\ mpc = "start"
    /\ stopFlag' = FALSE
    /\ wpc' = [w \in Threads |-> IF w \in Workers THEN "take" ELSE wpc[w]]
    /\ mpc' = IF unsched = <<>> THEN "stop" ELSE "sched"
    /\ UNCHANGED <<queue, autoStop, unsched>>
    /\ mainUnchanged

(* The main thread schedules its next root task.                           *)
ScheduleRoot ==
    /\ mpc = "sched"
    /\ Schedule("fn", Head(unsched).t, Head(unsched).thr)
    /\ unsched' = Tail(unsched)
    /\ mpc' = IF Len(unsched) = 1 THEN "stop" ELSE "sched"
    /\ UNCHANGED <<stopFlag, autoStop, wpc>>
    /\ mainUnchanged

(* Scheduler::stop, up to m_stopping = true: set m_autoStop; with a root  *)
(* fiber, no worker threads and the root fiber INIT or TERM, return at    *)
(* once if stopping().                                                     *)
Stop ==
    /\ mpc = "stop"
    /\ autoStop' = TRUE
    /\ stopFlag' = TRUE
    /\ mpc' = IF /\ UseCaller /\ Workers = {} /\ wpc[Main] = "off"
                 /\ queue = <<>> /\ active = 0
              THEN "done" ELSE "stop2"
    /\ UNCHANGED <<queue, wpc, unsched>>
    /\ mainUnchanged

(* Fiber::call on the root fiber: the main thread's CPU enters run().    *)
RootCall == wpc' = [wpc EXCEPT ![Main] = "take"]

(* Fiber::CallerMainFunc: the root fiber's run() has returned, the fiber  *)
(* is TERM and back() resumes the main fiber in stop().                    *)
RootReturned == wpc[Main] = "exit"

(* Scheduler::stop, after the tickles: with a root fiber and not yet       *)
(* stopping(), m_rootFiber->call() runs run() on the main thread until    *)
(* its idle fiber ends; then the worker threads are joined.               *)
StopCall ==
    /\ mpc = "stop2"
    /\ IF UseCaller /\ ~stopping
       THEN /\ RootCall
            /\ mpc' = "root"
       ELSE /\ mpc' = "join"
            /\ UNCHANGED wpc
    /\ UNCHANGED <<queue, stopFlag, autoStop, unsched>>
    /\ mainUnchanged

(* Scheduler::stop, the join: the root fiber's run() has returned         *)
(* (CallerMainFunc sets TERM and back() resumes stop) and every worker    *)
(* thread has left run().                                                  *)
Join ==
    /\ \/ mpc = "join"
       \/ mpc = "root" /\ RootReturned
    /\ \A w \in Workers : wpc[w] = "exit"
    /\ mpc' = "done"
    /\ UNCHANGED <<queue, stopFlag, autoStop, wpc, unsched>>
    /\ mainUnchanged

(* The program has ended: stop() returned.                                 *)
Terminated == mpc = "done" /\ UNCHANGED vars

-----------------------------------------------------------------------------
Init ==
    /\ queue = <<>>
    /\ active = 0
    /\ stopFlag = TRUE
    /\ autoStop = FALSE
    /\ wpc = [w \in Threads |-> "off"]
    /\ wtask = [w \in Threads |-> NoTask]
    /\ running = [w \in Threads |-> NoFiber]
    /\ idleTerm = [w \in Threads |-> FALSE]
    /\ fstate = [t \in Tasks |-> "INIT"]
    /\ fpc = [t \in Tasks |-> 1]
    /\ onCpu = [t \in Tasks |-> {}]
    /\ mpc = "start"
    /\ unsched = Roots
    /\ home = [t \in Tasks |-> AnyThread]
    /\ sem = SemInit
    /\ waiters = <<>>

(* One step of thread w: its run loop, or the task fiber it executes.     *)
ThreadStep(w) ==
    \/ TakeEntry(w) \/ TakeNone(w) \/ IdleRun(w) \/ PostResume(w) \/ Reschedule(w) \/ SwapOut(w)
    \/ YieldToHold(w)
    \/ \E t \in Tasks : YieldToReady(w, t) \/ SwitchTo(w, t) \/ Spawn(w, t)
                        \/ TryWait(w, t) \/ SemWait(w, t) \/ SemNotify(w, t)
                        \/ Finish(w, t)

MainStep == Start \/ ScheduleRoot \/ Stop \/ StopCall \/ Join

Next == MainStep \/ (\E w \in Threads : ThreadStep(w)) \/ Terminated

(* Every thread keeps running: a worker spins through its idle fiber, so  *)
(* its loop is always enabled until it leaves run().                       *)
Fairness == WF_vars(MainStep) /\ \A w \in Threads : WF_vars(ThreadStep(w))

Spec == Init /\ [][Next]_vars /\ Fairness
-----------------------------------------------------------------------------
TypeOK ==
    /\ queue \in Seq(Entries)
    /\ active \in 0..Cardinality(Threads)
    /\ wpc \in [Threads -> {"off", "take", "idle", "fiber", "hold", "yield",
                            "post", "resched", "exit"}]
    /\ wtask \in [Threads -> Entries \cup {NoTask}]
    /\ running \in [Threads -> Tasks \cup {NoFiber}]
    /\ fstate \in [Tasks -> {"INIT", "EXEC", "HOLD", "READY", "TERM"}]
    /\ onCpu \in [Tasks -> SUBSET Threads]
    /\ home \in [Tasks -> Threads \cup {AnyThread}]
    /\ sem \in Nat
    /\ waiters \in Seq(Tasks)

(* The task pool the scheduler implements.  A task is running while some  *)
(* CPU is on its stack, done once TERM, queued while an entry for it is   *)
(* in m_fibers or while it is READY and about to be scheduled again,       *)
(* parked while it sits in the semaphore's m_waiters off every CPU, and   *)
(* new before it is scheduled.  Its affinity is that of its entry.        *)
Queued(t) == \E i \in DOMAIN queue : queue[i].t = t
Waiting(t) == \E i \in DOMAIN waiters : waiters[i] = t
EntryOf(t) == queue[CHOOSE i \in DOMAIN queue : queue[i].t = t]
AbsSt(t) ==
    CASE onCpu[t] # {}                        -> "running"
      [] fstate[t] = "TERM"                   -> "done"
      [] Waiting(t)                           -> "parked"
      [] Queued(t) \/ fstate[t] = "READY"     -> "queued"
      [] OTHER                                -> "new"
AbsPin(t) == IF onCpu[t] = {} /\ Queued(t) THEN EntryOf(t).thr ELSE AnyThread

Pool == INSTANCE TaskPool WITH st  <- [t \in Tasks |-> AbsSt(t)],
                               pin <- [t \in Tasks |-> AbsPin(t)],
                               on  <- onCpu

(* Scheduler::run, schedule, switchTo and the fiber switches implement    *)
(* the task pool: a task starts only from the queue, on a thread its      *)
(* affinity allows and that runs nothing else, and it runs on one thread  *)
(* at a time until it yields or finishes.                                 *)
PoolRefined == Pool!PoolSpec

(* stop() returns only when every task scheduled has run to its end: the  *)
(* idle fibers, and with them the run loops, end only when nothing is     *)
(* left to run.                                                            *)
NoTaskLeftBehind == mpc = "done" => \A t \in Tasks : fstate[t] = "TERM"

(* stop() eventually returns: the workers drain the queue, their idle     *)
(* fibers see stopping() and every run loop, the root fiber's included,   *)
(* ends.                                                                   *)
ShutdownCompletes == <>(mpc = "done")

(* A task pinned to a thread, by the entry it was scheduled with or by    *)
(* switchTo, executes only on that thread (spec.md 3: only the worker     *)
(* with that thread id may execute it).                                    *)
PinnedStaysOnItsThread ==
    \A w \in Threads :
        (wpc[w] = "fiber" /\ home[running[w]] # AnyThread) => home[running[w]] = w

(* FiberSemaphore never strands a waiter beside a free permit: wait parks  *)
(* a fiber only when m_concurrency is 0, and notify hands its permit to    *)
(* the first waiter instead of adding it, so whenever a fiber sits in      *)
(* m_waiters no permit is left (whatever the order of the waits, tryWaits  *)
(* and notifies of the tasks on the threads).                              *)
NoWaiterWithPermit == waiters # <<>> => sem = 0
=============================================================================
