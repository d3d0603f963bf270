----------------------------- MODULE IOManager -----------------------------
(***************************************************************************)
(* The IO coroutine scheduler of sylar: the worker loop Scheduler::run     *)
(* (src/sylar/scheduler.cc), the epoll reactor IOManager (the second half  *)
(* of src/sylar/fd_manager.cc), the fiber switches of Fiber                *)
(* (src/unnamed/part_004), and the hooked calls that park fibers on it:    *)
(* do_io, sleep and close (src/sylar/hook.cc).  The one-shot timers those  *)
(* calls arm belong to TimerManager, whose source (timer.cc) is not part   *)
(* of the repository; they are modelled from the spec.                     *)
(*                                                                         *)
(* The scheduler is built with use_caller = false: Workers are the         *)
(* threads started by Scheduler::start, and a separate main thread         *)
(* schedules one callable per fiber of Fibers and then calls stop().       *)
(* Each fiber runs one hooked call, Prog[f], and returns.                  *)
(***************************************************************************)
EXTENDS Naturals, Sequences, FiniteSets, SequencesExt, FiniteSetsExt

CONSTANTS
    Workers,    \* threads running Scheduler::run
    Fibers,     \* the fibers the main thread schedules, one callable each
    Fds,        \* socket descriptors the fibers use
    Events,     \* subset of {"READ", "WRITE"}: IOManager::Event
    Prog,       \* Prog[f]: the hooked call fiber f makes
    NoFiber,    \* no fiber on this worker's CPU
    MaxSpurious \* bound on the spurious readiness edges

\* "io": do_io (read, write, accept...); "connect": connect_with_timeout,
\* which waits for WRITE
IoOps    == [op : {"io", "connect"}, fd : Fds, ev : Events, timeout : BOOLEAN]
OtherOps == [op : {"sleep"}] \cup [op : {"close"}, fd : Fds]

ASSUME /\ Events \subseteq {"READ", "WRITE"}
       /\ Prog \in [Fibers -> IoOps \cup OtherOps]
       /\ NoFiber \notin Fibers
       /\ MaxSpurious \in Nat
       /\ \A f \in Fibers : Prog[f].op = "connect" => Prog[f].ev = "WRITE"
       \* addEvent asserts that no (fd, event) is registered twice, so at
       \* most one fiber waits on each (fd, event)
       /\ \A f, g \in Fibers :
            (f # g /\ Prog[f].op \in {"io", "connect"}
                   /\ Prog[g].op \in {"io", "connect"})
               => <<Prog[f].fd, Prog[f].ev>> # <<Prog[g].fd, Prog[g].ev>>

VARIABLES
    queue,     \* Scheduler::m_fibers: tasks [kind, f]
    active,    \* m_activeThreadCount
    idleCnt,   \* m_idleThreadCount
    stopFlag,  \* m_stopping (start() has cleared it)
    autoStop,  \* m_autoStop
    wpc,       \* where each worker is in run() or in its idle fiber
    wtask,     \* ft: the task a worker took
    running,   \* the task fiber whose stack a worker's CPU is on
    idleTerm,  \* the worker's idle fiber has returned (state TERM)
    fstate,    \* Fiber::m_state of each fiber
    fpc,       \* where each fiber is in its hooked call
    onCpu,     \* the workers executing on each fiber's stack
    cancelled, \* timer_info::cancelled of the fiber's do_io call
    timer,     \* the fiber's timer in TimerManager: none, armed, due
    ret,       \* what the fiber's hooked call returned
    events,    \* FdContext::events of each fd (mirrored into epoll)
    slot,      \* EventContext::fiber of each (fd, event)
    pending,   \* m_pendingEventCount
    pipe,      \* a byte is in the tickle pipe m_tickleFds
    kready,    \* edge notifications epoll holds for each fd
    avail,     \* the socket is readable / writable
    fdOpen,    \* the fd is open and has an FdCtx
    fdGen,     \* how many sockets the kernel has given the fd number
    ioGen,     \* the socket behind the fd when the fiber's do_io began
    spurious,  \* readiness edges epoll has reported for a socket not ready
    mpc,       \* the main thread: scheduling, joining, done
    unsched    \* fibers the main thread has not scheduled yet

vars == <<queue, active, idleCnt, stopFlag, autoStop, wpc, wtask, running,
          idleTerm, fstate, fpc, onCpu, cancelled, timer, ret, events, slot,
          pending, pipe, kready, avail, fdOpen, fdGen, ioGen, spurious, mpc,
          unsched>>

schedVars == <<queue, active, idleCnt, stopFlag, autoStop, wpc, wtask,
               running, idleTerm>>
fiberVars == <<fstate, fpc, onCpu, cancelled, timer, ret, ioGen>>
ioVars    == <<events, slot, pending, pipe, kready, avail, fdOpen, fdGen,
               spurious>>
mainVars  == <<mpc, unsched>>

NoTask == [kind |-> "none"]
\* "fn": the callable a fiber starts from; "fiber": a suspended fiber to
\* resume; "tcb": the callback of the fiber's expired timer
Tasks == [kind : {"fn", "fiber", "tcb"}, f : Fibers]

States == {"INIT", "HOLD", "EXEC", "TERM", "READY", "EXCEPT"}

-----------------------------------------------------------------------------
(* Tickle: IOManager::tickle writes a byte to the pipe, but only when some *)
(* worker counts itself idle.                                              *)
tickle == IF idleCnt > 0 THEN pipe' = TRUE ELSE UNCHANGED pipe

(* Scheduler::schedule / scheduleNoLock for a batch of tasks: append them  *)
(* under the lock, and tickle when the queue was empty before.             *)
Schedule(ts) ==
    /\ queue' = queue \o ts
    /\ IF queue = <<>> /\ ts # <<>> THEN tickle ELSE UNCHANGED pipe

(* The run loop skips a fiber task whose fiber is still EXEC.             *)
Runnable(t) == ~(t.kind = "fiber" /\ fstate[t.f] = "EXEC")

(* Mutant: the base Scheduler::stopping alone, as if IOManager did not    *)
(* override it.                                                             *)
stoppingBase ==
    /\ autoStop /\ stopFlag
    /\ queue = <<>>
    /\ active = 0

(* IOManager::stopping: no timer, no registered event, and the base       *)
(* Scheduler::stopping.                                                    *)
stopping ==
    /\ \A f \in Fibers : timer[f] = "none"
    /\ pending = 0
    /\ autoStop /\ stopFlag
    /\ queue = <<>>
    /\ active = 0

-----------------------------------------------------------------------------
(* Scheduler::run, first half: take the first runnable task under the     *)
(* lock, tickle if tasks remain behind it, and dispatch it: a fiber not   *)
(* TERM/EXCEPT is swapped in (Fiber::swapIn sets EXEC), a callable or a   *)
(* timer callback runs in the worker's cb_fiber.  With no task the worker *)
(* goes towards its idle fiber.                                           *)
Take(w) ==
    /\ wpc[w] = "take"
    /\ LET i == SelectInSeq(queue, Runnable)
           t == queue[i]
       IN  IF i = 0
           THEN /\ wpc' = [wpc EXCEPT ![w] = "toIdle"]
                /\ UNCHANGED <<queue, active, pipe, wtask, running, fiberVars>>
           ELSE /\ queue' = RemoveAt(queue, i)
                /\ IF i < Len(queue) THEN tickle ELSE UNCHANGED pipe
                /\ wtask' = [wtask EXCEPT ![w] = t]
                /\ CASE t.kind = "fiber" /\ fstate[t.f] \in {"TERM", "EXCEPT"} ->
                          \* is_active: drop it and loop
                          /\ wpc' = [wpc EXCEPT ![w] = "take"]
                          /\ UNCHANGED <<active, running, fiberVars>>
                     [] t.kind \in {"fiber", "fn"} ->
                          /\ active' = active + 1
                          /\ fstate' = [fstate EXCEPT ![t.f] = "EXEC"]
                          /\ onCpu' = [onCpu EXCEPT ![t.f] = @ \cup {w}]
                          /\ running' = [running EXCEPT ![w] = t.f]
                          /\ wpc' = [wpc EXCEPT ![w] = "fiber"]
                          /\ UNCHANGED <<fpc, cancelled, ioGen, timer, ret>>
                     [] t.kind = "tcb" ->
                          /\ active' = active + 1
                          /\ wpc' = [wpc EXCEPT ![w] = "cb"]
                          /\ UNCHANGED <<running, fiberVars>>
    /\ UNCHANGED <<idleCnt, stopFlag, autoStop, idleTerm, events, slot,
                   pending, kready, avail, fdOpen, fdGen, spurious, mainVars>>

(* Scheduler::run, after swapIn returns: drop the active count; a READY   *)
(* fiber is scheduled again, any other non-terminal one is set to HOLD.   *)
PostResume(w) ==
    /\ wpc[w] = "post"
    /\ active' = active - 1
    /\ LET f == wtask[w].f IN
       CASE wtask[w].kind = "tcb" ->
              UNCHANGED <<queue, pipe, fstate>>
         [] fstate[f] = "READY" ->
              /\ Schedule(<<[kind |-> "fiber", f |-> f]>>)
              /\ UNCHANGED fstate
         [] fstate[f] \notin {"TERM", "EXCEPT"} ->
              /\ fstate' = [fstate EXCEPT ![f] = "HOLD"]
              /\ UNCHANGED <<queue, pipe>>
         [] OTHER ->
              UNCHANGED <<queue, pipe, fstate>>
    /\ wtask' = [wtask EXCEPT ![w] = NoTask]
    /\ wpc' = [wpc EXCEPT ![w] = "take"]
    /\ UNCHANGED <<idleCnt, stopFlag, autoStop, running, idleTerm, fpc, onCpu,
                   cancelled, ioGen, timer, ret, events, slot, pending, kready, avail,
                   fdOpen, fdGen, spurious, mainVars>>

(* Scheduler::run with no task: leave the loop if the idle fiber is TERM, *)
(* otherwise count this worker idle and swap the idle fiber in.           *)
EnterIdle(w) ==
    /\ wpc[w] = "toIdle"
    /\ IF idleTerm[w]
       THEN /\ wpc' = [wpc EXCEPT ![w] = "exit"]
            /\ UNCHANGED idleCnt
       ELSE /\ idleCnt' = idleCnt + 1
            /\ wpc' = [wpc EXCEPT ![w] = "idle"]
    /\ UNCHANGED <<queue, active, stopFlag, autoStop, wtask, running, idleTerm,
                   fiberVars, ioVars, mainVars>>

-----------------------------------------------------------------------------
(* IOManager::idle, top of its loop: leave when stopping(), otherwise      *)
(* block in epoll_wait.  When the idle fiber returns (TERM) the run loop  *)
(* drops the idle count and goes back to taking tasks.                    *)
IdleCheck(w) ==
    /\ wpc[w] = "idle"
    /\ IF stopping
       THEN /\ idleTerm' = [idleTerm EXCEPT ![w] = TRUE]
            /\ idleCnt' = idleCnt - 1
            /\ wpc' = [wpc EXCEPT ![w] = "take"]
       ELSE /\ wpc' = [wpc EXCEPT ![w] = "epoll"]
            /\ UNCHANGED <<idleTerm, idleCnt>>
    /\ UNCHANGED <<queue, active, stopFlag, autoStop, wtask, running,
                   fiberVars, ioVars, mainVars>>

(* The tasks that wake the fibers parked on (fd, each event of evs), READ *)
(* before WRITE as in IOManager::idle and cancelAll.                      *)
FireTasks(fd, evs) ==
    LET order == SelectSeq(<<"READ", "WRITE">>, LAMBDA e : e \in evs)
    IN  [i \in 1..Len(order) |-> [kind |-> "fiber", f |-> slot[fd][order[i]]]]

(* IOManager::idle, after epoll_wait returns (a tickle, a ready fd, or the *)
(* 3000 ms cap, so it may always return): schedule the callbacks of the   *)
(* expired timers (listExpiredCb), drain the pipe, and for every ready fd *)
(* clear the fired events from its mask, re-arm the rest with MOD or DEL, *)
(* and trigger each fired event (triggerEvent schedules the parked fiber  *)
(* and empties the slot); then swap back to the run loop.  Timer deadlines *)
(* are abstract, so the expired callbacks and the ready fds come in any   *)
(* order.                                                                  *)
EpollReturn(w) ==
    /\ wpc[w] = "epoll"
    /\ LET due   == {f \in Fibers : timer[f] = "due"}
           fired == [fd \in Fds |-> kready[fd] \cap events[fd]]
           left  == [fd \in Fds |-> events[fd] \ fired[fd]]
           ready == {fd \in Fds : fired[fd] # {}}
       IN  \E cbs \in SetToSeqs(due), fds \in SetToSeqs(ready) :
             LET cbTasks == [i \in 1..Len(cbs) |-> [kind |-> "tcb", f |-> cbs[i]]]
                 evTasks == FoldLeft(LAMBDA acc, fd : acc \o FireTasks(fd, fired[fd]),
                                     <<>>, fds)
                 new     == cbTasks \o evTasks
             IN  /\ queue' = queue \o new
                 \* the drained pipe holds a byte again only if a schedule
                 \* into the empty queue tickled while this worker is idle
                 /\ pipe' = (queue = <<>> /\ new # <<>> /\ idleCnt > 0)
                 /\ timer' = [f \in Fibers |-> IF f \in due THEN "none" ELSE timer[f]]
                 /\ events' = left
                 /\ slot' = [fd \in Fds |-> [e \in Events |->
                               IF e \in fired[fd] THEN NoFiber ELSE slot[fd][e]]]
                 /\ pending' = pending - MapThenSumSet(LAMBDA fd : Cardinality(fired[fd]), Fds)
                 /\ kready' = [fd \in Fds |->
                                 IF fd \in ready THEN {e \in left[fd] : avail[fd][e]} ELSE {}]
    /\ idleCnt' = idleCnt - 1
    /\ wpc' = [wpc EXCEPT ![w] = "take"]
    /\ UNCHANGED <<active, stopFlag, autoStop, wtask, running, idleTerm,
                   fstate, fpc, onCpu, cancelled, ioGen, ret, avail, fdOpen, fdGen, spurious,
                   mainVars>>

-----------------------------------------------------------------------------
(* The fiber f whose stack worker w is executing.                          *)
Exec(w, f) == wpc[w] = "fiber" /\ running[w] = f

(* TimerManager::addTimer / addConditionTimer: insert a one-shot timer;   *)
(* onTimerInsertedAtFront tickles when it is the new earliest one, which  *)
(* it is at least when no other timer exists.                              *)
ArmTimer(f) ==
    /\ timer' = [timer EXCEPT ![f] = "armed"]
    /\ \E front \in IF \E g \in Fibers : timer[g] # "none" THEN BOOLEAN ELSE {TRUE} :
         IF front THEN tickle ELSE UNCHANGED pipe

(* do_io, from its start or from "retry": the call on a closed fd         *)
(* fails with EBADF (from the FdCtx on entry, from the kernel on retry), *)
(* on a ready socket it completes; on EAGAIN a                            *)
(* condition timer is armed when the fd has a timeout.                    *)
IoCall(w, f) ==
    LET p == Prog[f] IN
    /\ Exec(w, f) /\ fpc[f] \in {"call", "retry"} /\ p.op = "io"
    \* do_io looks the FdCtx up once, on entry; "goto retry" reuses it
    /\ ioGen' = IF fpc[f] = "call" THEN [ioGen EXCEPT ![f] = fdGen[p.fd]]
                                   ELSE ioGen
    /\ CASE ~fdOpen[p.fd] ->
              /\ ret' = [ret EXCEPT ![f] = "ebadf"]
              /\ fpc' = [fpc EXCEPT ![f] = "exit"]
              /\ UNCHANGED <<avail, timer, pipe>>
         [] avail[p.fd][p.ev] ->
              /\ avail' = [avail EXCEPT ![p.fd][p.ev] = FALSE]
              /\ ret' = [ret EXCEPT ![f] = "ok"]
              /\ fpc' = [fpc EXCEPT ![f] = "exit"]
              /\ UNCHANGED <<timer, pipe>>
         [] OTHER ->
              /\ IF p.timeout THEN ArmTimer(f) ELSE UNCHANGED <<timer, pipe>>
              /\ fpc' = [fpc EXCEPT ![f] = "add"]
              /\ UNCHANGED <<avail, ret>>
    /\ UNCHANGED <<schedVars, fstate, onCpu, cancelled, events, slot, pending,
                   kready, fdOpen, fdGen, spurious, mainVars>>

(* connect_with_timeout: a closed FdCtx gives EBADF.  The raw             *)
(* non-blocking connect succeeds at once when the handshake is already    *)
(* done (the socket is writable), may fail at once (ECONNREFUSED), or     *)
(* returns EINPROGRESS: then a condition timer is armed when the connect  *)
(* timeout is not -1, and the WRITE event is added.                       *)
ConnectCall(w, f) ==
    LET p == Prog[f] IN
    /\ Exec(w, f) /\ fpc[f] = "call" /\ p.op = "connect"
    /\ CASE ~fdOpen[p.fd] ->
              /\ ret' = [ret EXCEPT ![f] = "ebadf"]
              /\ fpc' = [fpc EXCEPT ![f] = "exit"]
              /\ UNCHANGED <<timer, pipe>>
         [] avail[p.fd][p.ev] ->
              /\ ret' = [ret EXCEPT ![f] = "ok"]
              /\ fpc' = [fpc EXCEPT ![f] = "exit"]
              /\ UNCHANGED <<timer, pipe>>
         [] OTHER ->
              \/ /\ ret' = [ret EXCEPT ![f] = "fail"]
                 /\ fpc' = [fpc EXCEPT ![f] = "exit"]
                 /\ UNCHANGED <<timer, pipe>>
              \/ /\ IF p.timeout THEN ArmTimer(f) ELSE UNCHANGED <<timer, pipe>>
                 /\ fpc' = [fpc EXCEPT ![f] = "add"]
                 /\ UNCHANGED ret
    /\ UNCHANGED <<schedVars, fstate, onCpu, cancelled, ioGen, events, slot, pending,
                   kready, avail, fdOpen, fdGen, spurious, mainVars>>

(* do_io: IOManager::addEvent(fd, ev) under the fd lock.  epoll_ctl fails *)
(* on a closed fd and do_io cancels its timer and returns -1; otherwise   *)
(* the pending count grows, the event joins the mask (ADD or MOD reports  *)
(* a socket that is already ready) and the slot holds the current fiber.  *)
AddEvent(w, f) ==
    LET p == Prog[f] IN
    /\ Exec(w, f) /\ fpc[f] = "add"
    /\ IF ~fdOpen[p.fd]
       THEN /\ timer' = [timer EXCEPT ![f] = "none"]
            /\ ret' = [ret EXCEPT ![f] = "fail"]
            /\ fpc' = [fpc EXCEPT ![f] = "exit"]
            /\ UNCHANGED <<events, slot, pending, kready>>
       ELSE /\ pending' = pending + 1
            /\ events' = [events EXCEPT ![p.fd] = @ \cup {p.ev}]
            /\ slot' = [slot EXCEPT ![p.fd][p.ev] = f]
            /\ kready' = [kready EXCEPT ![p.fd] =
                            @ \cup {e \in events'[p.fd] : avail[p.fd][e]}]
            /\ fpc' = [fpc EXCEPT ![f] = "yield"]
            /\ UNCHANGED <<timer, ret>>
    /\ UNCHANGED <<schedVars, fstate, onCpu, cancelled, ioGen, pipe, avail, fdOpen, fdGen,
                   spurious, mainVars>>

(* sleep / usleep / nanosleep: addTimer(ms, schedule(fiber)), then yield. *)
SleepCall(w, f) ==
    /\ Exec(w, f) /\ fpc[f] = "call" /\ Prog[f].op = "sleep"
    /\ ArmTimer(f)
    /\ fpc' = [fpc EXCEPT ![f] = "yield"]
    /\ UNCHANGED <<schedVars, fstate, onCpu, cancelled, ioGen, ret, events, slot,
                   pending, kready, avail, fdOpen, fdGen, spurious, mainVars>>

(* Mutant: cancelAll triggers the events without dropping the pending    *)
(* count.                                                                   *)
cancelAllKeepCount(fd) ==
    /\ Schedule(FireTasks(fd, events[fd]))
    /\ events' = [events EXCEPT ![fd] = {}]
    /\ slot' = [slot EXCEPT ![fd] = [e \in Events |-> NoFiber]]
    /\ kready' = [kready EXCEPT ![fd] = {}]
    /\ UNCHANGED pending

(* IOManager::cancelAll(fd): under the fd lock, DEL the fd from epoll and  *)
(* trigger each registered event, READ then WRITE, dropping the pending   *)
(* count for each.  With no event registered it does nothing.            *)
cancelAll(fd) ==
    /\ Schedule(FireTasks(fd, events[fd]))
    /\ pending' = pending - Cardinality(events[fd])
    /\ events' = [events EXCEPT ![fd] = {}]
    /\ slot' = [slot EXCEPT ![fd] = [e \in Events |-> NoFiber]]
    /\ kready' = [kready EXCEPT ![fd] = {}]

(* close: with an FdCtx, cancelAll(fd), then FdManager::del drops the     *)
(* context and the raw close runs; without one the raw close fails.       *)
CloseCall(w, f) ==
    LET fd == Prog[f].fd IN
    /\ Exec(w, f) /\ fpc[f] = "call" /\ Prog[f].op = "close"
    /\ IF fdOpen[fd]
       THEN /\ cancelAll(fd)
            /\ fdOpen' = [fdOpen EXCEPT ![fd] = FALSE]
            /\ avail' = [avail EXCEPT ![fd] = [e \in Events |-> FALSE]]
            /\ ret' = [ret EXCEPT ![f] = "ok"]
            /\ UNCHANGED <<spurious, fdGen>>
       ELSE /\ ret' = [ret EXCEPT ![f] = "ebadf"]
            /\ UNCHANGED <<queue, pipe, ioVars>>
    /\ fpc' = [fpc EXCEPT ![f] = "exit"]
    /\ UNCHANGED <<active, idleCnt, stopFlag, autoStop, wpc, wtask, running,
                   idleTerm, fstate, onCpu, cancelled, ioGen, timer, mainVars>>

(* Fiber::YieldToHold, first half: the state becomes HOLD while the       *)
(* fiber still runs on this worker's stack.                               *)
YieldHold(w, f) ==
    /\ Exec(w, f) /\ fpc[f] = "yield"
    /\ fstate' = [fstate EXCEPT ![f] = "HOLD"]
    /\ fpc' = [fpc EXCEPT ![f] = "swap"]
    /\ UNCHANGED <<schedVars, onCpu, cancelled, ioGen, timer, ret, ioVars, mainVars>>

(* Fiber::swapOut: swapcontext saves the fiber's context and the worker   *)
(* returns to Scheduler::run.  The fiber continues at "resumed".          *)
SwapOut(w, f) ==
    /\ Exec(w, f) /\ fpc[f] = "swap"
    /\ onCpu' = [onCpu EXCEPT ![f] = @ \ {w}]
    /\ running' = [running EXCEPT ![w] = NoFiber]
    /\ wpc' = [wpc EXCEPT ![w] = "post"]
    /\ fpc' = [fpc EXCEPT ![f] = "resumed"]
    /\ UNCHANGED <<queue, active, idleCnt, stopFlag, autoStop, wtask, idleTerm,
                   fstate, cancelled, ioGen, timer, ret, ioVars, mainVars>>

(* Back from YieldToHold: sleep returns 0; do_io cancels its timer and    *)
(* returns -1/ETIMEDOUT if the timer callback marked it, else retries.    *)
Resumed(w, f) ==
    /\ Exec(w, f) /\ fpc[f] = "resumed" /\ Prog[f].op \in {"sleep", "io"}
    /\ IF Prog[f].op = "sleep"
       THEN /\ ret' = [ret EXCEPT ![f] = "ok"]
            /\ fpc' = [fpc EXCEPT ![f] = "exit"]
            /\ UNCHANGED timer
       ELSE /\ timer' = [timer EXCEPT ![f] = "none"]
            /\ IF cancelled[f]
               THEN /\ ret' = [ret EXCEPT ![f] = "timeout"]
                    /\ fpc' = [fpc EXCEPT ![f] = "exit"]
               ELSE /\ fpc' = [fpc EXCEPT ![f] = "retry"]
                    /\ UNCHANGED ret
    /\ UNCHANGED <<schedVars, fstate, onCpu, cancelled, ioGen, ioVars, mainVars>>

(* connect_with_timeout back from YieldToHold: it cancels its timer and   *)
(* returns ETIMEDOUT if the timer callback marked it; it does not retry:  *)
(* getsockopt's SO_ERROR is 0 once the socket is connected, and           *)
(* getsockopt itself fails on a socket closed meanwhile.                   *)
ConnectResumed(w, f) ==
    /\ Exec(w, f) /\ fpc[f] = "resumed" /\ Prog[f].op = "connect"
    /\ timer' = [timer EXCEPT ![f] = "none"]
    /\ ret' = [ret EXCEPT ![f] = CASE cancelled[f]       -> "timeout"
                                    [] fdOpen[Prog[f].fd] -> "ok"
                                    [] OTHER              -> "fail"]
    /\ fpc' = [fpc EXCEPT ![f] = "exit"]
    /\ UNCHANGED <<schedVars, fstate, onCpu, cancelled, ioGen, ioVars, mainVars>>

(* Fiber::MainFunc after the callable returns: state TERM, swapOut.       *)
Finish(w, f) ==
    /\ Exec(w, f) /\ fpc[f] = "exit"
    /\ fstate' = [fstate EXCEPT ![f] = "TERM"]
    /\ onCpu' = [onCpu EXCEPT ![f] = @ \ {w}]
    /\ running' = [running EXCEPT ![w] = NoFiber]
    /\ wpc' = [wpc EXCEPT ![w] = "post"]
    /\ fpc' = [fpc EXCEPT ![f] = "done"]
    /\ UNCHANGED <<queue, active, idleCnt, stopFlag, autoStop, wtask, idleTerm,
                   cancelled, ioGen, timer, ret, ioVars, mainVars>>

-----------------------------------------------------------------------------
(* The do_io call of f is still running, so its timer_info is alive.      *)
InDoIo(f) == fpc[f] \in {"call", "retry", "add", "yield", "swap", "resumed"}

(* A timer callback, run in the worker's cb_fiber.  sleep's callback      *)
(* schedules the fiber.  do_io's condition timer runs only while the      *)
(* weak timer_info locks and is not yet cancelled: it marks ETIMEDOUT and *)
(* goes on to cancelEvent.                                                 *)
TimerCb(w) ==
    LET f == wtask[w].f IN
    /\ wpc[w] = "cb"
    /\ IF Prog[f].op = "sleep"
       THEN /\ Schedule(<<[kind |-> "fiber", f |-> f]>>)
            /\ wpc' = [wpc EXCEPT ![w] = "post"]
            /\ UNCHANGED cancelled
       ELSE IF InDoIo(f) /\ ~cancelled[f]
       THEN /\ cancelled' = [cancelled EXCEPT ![f] = TRUE]
            /\ wpc' = [wpc EXCEPT ![w] = "cbCancel"]
            /\ UNCHANGED <<queue, pipe>>
       ELSE /\ wpc' = [wpc EXCEPT ![w] = "post"]
            /\ UNCHANGED <<queue, pipe, cancelled>>
    /\ UNCHANGED <<active, idleCnt, stopFlag, autoStop, wtask, running,
                   idleTerm, fstate, fpc, onCpu, timer, ret, ioGen, events, slot,
                   pending, kready, avail, fdOpen, fdGen, spurious, mainVars>>

(* Mutant: cancelEvent without its check that ev is registered.          *)
cancelEventUnchecked(fd, ev) ==
    /\ Schedule(FireTasks(fd, {ev}))
    /\ events' = [events EXCEPT ![fd] = @ \ {ev}]
    /\ slot' = [slot EXCEPT ![fd][ev] = NoFiber]
    /\ kready' = [kready EXCEPT ![fd] = @ \ {ev}]
    /\ pending' = pending - 1

(* Mutant: cancelEvent fires the slot but leaves the mask and the slot.  *)
cancelEventKeepMask(fd, ev) ==
    IF ev \in events[fd]
    THEN /\ Schedule(FireTasks(fd, {ev}))
         /\ pending' = pending - 1
         /\ UNCHANGED <<events, slot, kready>>
    ELSE UNCHANGED <<queue, pipe, events, slot, kready, pending>>

(* IOManager::cancelEvent(fd, ev) from the timeout callback: if the event *)
(* is still registered, clear it (MOD or DEL), trigger it, and drop the   *)
(* pending count; otherwise return false.                                  *)
cancelEvent(fd, ev) ==
    IF ev \in events[fd]
    THEN /\ Schedule(FireTasks(fd, {ev}))
         /\ events' = [events EXCEPT ![fd] = @ \ {ev}]
         /\ slot' = [slot EXCEPT ![fd][ev] = NoFiber]
         /\ kready' = [kready EXCEPT ![fd] = @ \ {ev}]
         /\ pending' = pending - 1
    ELSE UNCHANGED <<queue, pipe, events, slot, kready, pending>>

CbCancel(w) ==
    LET p == Prog[wtask[w].f] IN
    /\ wpc[w] = "cbCancel"
    /\ cancelEvent(p.fd, p.ev)
    /\ wpc' = [wpc EXCEPT ![w] = "post"]
    /\ UNCHANGED <<active, idleCnt, stopFlag, autoStop, wtask, running,
                   idleTerm, fiberVars, avail, fdOpen, fdGen, spurious, mainVars>>

-----------------------------------------------------------------------------
(* The environment: data or buffer space arrives on an open socket; epoll *)
(* queues an edge for it if the event is registered.  Time passes a       *)
(* timer's deadline.                                                       *)
Arrive(fd, e) ==
    /\ fdOpen[fd] /\ ~avail[fd][e]
    /\ avail' = [avail EXCEPT ![fd][e] = TRUE]
    /\ kready' = [kready EXCEPT ![fd] = @ \cup ({e} \cap events[fd])]
    /\ UNCHANGED <<schedVars, fiberVars, events, slot, pending, pipe, fdOpen, fdGen,
                   spurious, mainVars>>

(* epoll_wait may report a registered socket ready although the call that *)
(* follows finds EAGAIN (select(2), BUGS: a datagram dropped on a bad     *)
(* checksum, or data another reader took first).                           *)
Spurious(fd, e) ==
    /\ spurious < MaxSpurious
    /\ fdOpen[fd] /\ e \in events[fd] /\ ~avail[fd][e]
    /\ kready' = [kready EXCEPT ![fd] = @ \cup {e}]
    /\ spurious' = spurious + 1
    /\ UNCHANGED <<schedVars, fiberVars, events, slot, pending, pipe, avail,
                   fdOpen, fdGen, mainVars>>

Elapse(f) ==
    /\ timer[f] = "armed"
    /\ timer' = [timer EXCEPT ![f] = "due"]
    /\ UNCHANGED <<schedVars, fstate, fpc, onCpu, cancelled, ioGen, ret, ioVars,
                   mainVars>>

(* The main thread: iom.schedule(callable) for every fiber, then stop():   *)
(* set m_autoStop and m_stopping, tickle once per thread, join them.      *)
MainSchedule(f) ==
    /\ mpc = "sched" /\ f \in unsched
    /\ Schedule(<<[kind |-> "fn", f |-> f]>>)
    /\ unsched' = unsched \ {f}
    /\ UNCHANGED <<active, idleCnt, stopFlag, autoStop, wpc, wtask, running,
                   idleTerm, fiberVars, events, slot, pending, kready, avail,
                   fdOpen, fdGen, spurious, mpc>>

MainStop ==
    /\ mpc = "sched" /\ unsched = {}
    /\ autoStop' = TRUE
    /\ stopFlag' = TRUE
    /\ tickle
    /\ mpc' = "join"
    /\ UNCHANGED <<queue, active, idleCnt, wpc, wtask, running, idleTerm,
                   fiberVars, events, slot, pending, kready, avail, fdOpen, fdGen, spurious,
                   unsched>>

MainJoin ==
    /\ mpc = "join"
    /\ \A w \in Workers : wpc[w] = "exit"
    /\ mpc' = "done"
    /\ UNCHANGED <<schedVars, fiberVars, ioVars, unsched>>

-----------------------------------------------------------------------------
Init ==
    /\ queue = <<>>
    /\ active = 0
    /\ idleCnt = 0
    /\ stopFlag = FALSE
    /\ autoStop = FALSE
    /\ wpc = [w \in Workers |-> "take"]
    /\ wtask = [w \in Workers |-> NoTask]
    /\ running = [w \in Workers |-> NoFiber]
    /\ idleTerm = [w \in Workers |-> FALSE]
    /\ fstate = [f \in Fibers |-> "INIT"]
    /\ fpc = [f \in Fibers |-> "call"]
    /\ onCpu = [f \in Fibers |-> {}]
    /\ cancelled = [f \in Fibers |-> FALSE]
    /\ timer = [f \in Fibers |-> "none"]
    /\ ret = [f \in Fibers |-> "none"]
    /\ events = [fd \in Fds |-> {}]
    /\ slot = [fd \in Fds |-> [e \in Events |-> NoFiber]]
    /\ pending = 0
    /\ pipe = FALSE
    /\ kready = [fd \in Fds |-> {}]
    /\ avail = [fd \in Fds |-> [e \in Events |-> FALSE]]
    /\ fdOpen = [fd \in Fds |-> TRUE]
    /\ fdGen = [fd \in Fds |-> 1]
    /\ ioGen = [f \in Fibers |-> 0]
    /\ spurious = 0
    /\ mpc = "sched"
    /\ unsched = Fibers

FiberStep(w) ==
    \E f \in Fibers :
        \/ IoCall(w, f) \/ ConnectCall(w, f) \/ AddEvent(w, f) \/ SleepCall(w, f) \/ CloseCall(w, f)
        \/ YieldHold(w, f) \/ SwapOut(w, f) \/ Resumed(w, f) \/ ConnectResumed(w, f)
        \/ Finish(w, f)

WorkerStep(w) ==
    \/ Take(w) \/ PostResume(w) \/ EnterIdle(w) \/ IdleCheck(w)
    \/ EpollReturn(w) \/ TimerCb(w) \/ CbCancel(w) \/ FiberStep(w)

-----------------------------------------------------------------------------
(* stop() has returned: the program ends.                                  *)
Terminated == mpc = "done" /\ UNCHANGED vars

Next ==
    \/ \E w \in Workers : WorkerStep(w)
    \/ \E f \in Fibers : MainSchedule(f) \/ Elapse(f)
    \/ MainStop \/ MainJoin
    \/ \E fd \in Fds, e \in Events : Arrive(fd, e) \/ Spurious(fd, e)
    \/ Terminated

(* Every worker thread and the main thread keep running, and time passes; *)
(* the network owes nothing, so Arrive and Spurious are not fair.        *)
Fairness ==
    /\ \A w \in Workers : WF_vars(WorkerStep(w))
    /\ WF_vars(MainStop \/ MainJoin \/ \E f \in Fibers : MainSchedule(f))
    /\ \A f \in Fibers : WF_vars(Elapse(f))

Spec == Init /\ [][Next]_vars /\ Fairness

(* How many times a closed fd number is given to a new socket.            *)
MaxReuse == 1

(* Another fiber's socket() or accept() gets the number of a closed fd:   *)
(* the kernel hands out the lowest free number, and the hooked call makes *)
(* a new FdCtx for it.                                                     *)
Reopen(fd) ==
    /\ ~fdOpen[fd] /\ fdGen[fd] <= MaxReuse
    /\ fdOpen' = [fdOpen EXCEPT ![fd] = TRUE]
    /\ fdGen' = [fdGen EXCEPT ![fd] = @ + 1]
    /\ UNCHANGED <<schedVars, fiberVars, events, slot, pending, pipe, kready,
                   avail, spurious, mainVars>>

(* The same program while other code opens sockets.                       *)
ReuseSpec == Init /\ [][Next \/ \E fd \in Fds : Reopen(fd)]_vars /\ Fairness
-----------------------------------------------------------------------------
TypeOK ==
    /\ queue \in Seq(Tasks)
    /\ active \in Nat /\ idleCnt \in Nat /\ pending \in Nat
    /\ stopFlag \in BOOLEAN /\ autoStop \in BOOLEAN /\ pipe \in BOOLEAN
    /\ wpc \in [Workers -> {"take", "post", "toIdle", "idle", "epoll", "fiber",
                            "cb", "cbCancel", "exit"}]
    /\ wtask \in [Workers -> Tasks \cup {NoTask}]
    /\ running \in [Workers -> Fibers \cup {NoFiber}]
    /\ idleTerm \in [Workers -> BOOLEAN]
    /\ fstate \in [Fibers -> States]
    /\ fpc \in [Fibers -> {"call", "retry", "add", "yield", "swap", "resumed", "exit", "done"}]
    /\ onCpu \in [Fibers -> SUBSET Workers]
    /\ cancelled \in [Fibers -> BOOLEAN]
    /\ timer \in [Fibers -> {"none", "armed", "due"}]
    /\ ret \in [Fibers -> {"none", "ok", "timeout", "ebadf", "fail"}]
    /\ events \in [Fds -> SUBSET Events]
    /\ slot \in [Fds -> [Events -> Fibers \cup {NoFiber}]]
    /\ kready \in [Fds -> SUBSET Events]
    /\ avail \in [Fds -> [Events -> BOOLEAN]]
    /\ fdOpen \in [Fds -> BOOLEAN]
    /\ fdGen \in [Fds -> 1..MaxReuse + 1]
    /\ ioGen \in [Fibers -> 0..MaxReuse + 1]
    /\ spurious \in 0..MaxSpurious
    /\ mpc \in {"sched", "join", "done"}
    /\ unsched \in SUBSET Fibers

(* What will resume fiber f: a task in the queue that resumes it, sleep's *)
(* timer or its callback (queued or running), and the (fd, event) slots   *)
(* registered for it.                                                      *)
QueuedResumes(f) ==
    Quantify(DOMAIN queue, LAMBDA i : queue[i] = [kind |-> "fiber", f |-> f])
SleepTimer(f) ==
    IF Prog[f].op = "sleep" /\ timer[f] # "none" THEN 1 ELSE 0
SleepCallbacks(f) ==
    IF Prog[f].op # "sleep" THEN 0
    ELSE Quantify(DOMAIN queue, LAMBDA i : queue[i] = [kind |-> "tcb", f |-> f])
         + Quantify(Workers, LAMBDA w : wpc[w] = "cb" /\ wtask[w] = [kind |-> "tcb", f |-> f])
Registrations(f) ==
    Quantify(Fds \X Events, LAMBDA r : r[2] \in events[r[1]] /\ slot[r[1]][r[2]] = f)
Resumers(f) ==
    QueuedResumes(f) + SleepTimer(f) + SleepCallbacks(f) + Registrations(f)

(* f has swapped out of YieldToHold and is on no worker's stack.          *)
Parked(f) == fpc[f] = "resumed" /\ onCpu[f] = {}

(* No-orphan park, exactly once (spec 8.2): a parked fiber has exactly    *)
(* one thing that will resume it (event slot, cancelEvent from its        *)
(* timeout, sleep's timer, or a queued task), never two, and a fiber that *)
(* is on a CPU has no resume queued for it.  It is what addEvent,         *)
(* triggerEvent, cancelEvent, cancelAll and the timer callbacks must keep *)
(* between them.                                                           *)
OneResumer ==
    \A f \in Fibers :
        /\ Resumers(f) <= 1
        /\ Parked(f) => Resumers(f) = 1
        /\ onCpu[f] # {} => QueuedResumes(f) + SleepCallbacks(f) = 0

(* IOManager::stopping lets an idle fiber return (and its worker leave     *)
(* run()) only when every scheduled fiber has terminated: the pending     *)
(* event count, the timer heap, the queue and the active count together   *)
(* account for every fiber still alive.                                    *)
StopOnlyWhenQuiescent ==
    \A w \in Workers : idleTerm[w] => \A f \in Fibers : fstate[f] = "TERM"

(* stop() returns: every worker eventually leaves run() and the main      *)
(* thread's join completes, when every fiber either has a timeout or is   *)
(* woken by close.                                                         *)
ShutdownCompletes == <>(mpc = "done")

(* No fiber ever runs on two workers at once: a fiber is resumed only     *)
(* after the worker it last ran on has saved its context.                 *)
NoDoubleRun == \A f \in Fibers : Cardinality(onCpu[f]) <= 1

(* A worker never blocks in epoll_wait with work queued and no byte in    *)
(* the tickle pipe to wake it (spec 5: the self-pipe keeps the            *)
(* multiplexer from sleeping past newly-enqueued work).                   *)
NoSleepWithWork ==
    \A w \in Workers : (wpc[w] = "epoll" /\ queue # <<>>) => pipe

(* A hooked read returns data only from the socket its do_io began on.    *)
(* close wakes a reader parked on the fd (spec 8.6: it is fired with a    *)
(* cancellation), and the reader must not go on to read from a socket     *)
(* that has since been given the same number.                              *)
ReadsOwnSocket ==
    [][\A f \in Fibers :
         (Prog[f].op = "io" /\ ret[f] = "none" /\ ret'[f] = "ok")
            => ioGen'[f] = fdGen[Prog[f].fd]]_vars
=============================================================================
