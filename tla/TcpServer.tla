------------------------------ MODULE TcpServer ------------------------------
(***************************************************************************)
(* sylar's TcpServer (the TcpServer part of src/sylar/hook.cc): bind,      *)
(* start, the accept loop startAccept and stop, run on an accept-worker    *)
(* IOManager.  The main thread binds the addresses of Addrs and then makes *)
(* the calls of Calls, each "start" or "stop".  start() schedules one      *)
(* accept fiber per listening socket; stop() sets m_isStop and schedules a *)
(* callback that cancels and closes every socket.                          *)
(*                                                                         *)
(* The accept worker is abstracted to its task queue, its threads and its  *)
(* epoll: an accept fiber on a socket with no pending connection registers *)
(* READ (do_io's addEvent) and parks; the idle epoll loop wakes it when a  *)
(* connection is pending; cancelAll wakes it at once.  Socket::accept,     *)
(* Socket::close and Socket::cancelAll (socket.cc is not in the            *)
(* repository) are modelled from the spec: the hooked accept on the        *)
(* socket, close on it, and IOManager::cancelAll on its fd.               *)
(***************************************************************************)
EXTENDS Naturals, Sequences, FiniteSets, SequencesExt

CONSTANTS
    Addrs,     \* the addresses bind() is given, one listening socket each
    Threads,   \* the accept worker's threads
    Calls,     \* the main thread's calls after bind: "start" or "stop"
    MaxConns,  \* bound on the connections clients make
    NoFiber,   \* a thread running no accept fiber
    StopCbRun  \* a thread running stop()'s callback

ASSUME /\ Calls \in Seq({"start", "stop"})
       /\ MaxConns \in Nat
       /\ {NoFiber, StopCbRun} \cap ((1..Len(Calls)) \X Addrs) = {}
       /\ NoFiber # StopCbRun

(* The accept fiber that the i-th call (a start) schedules for socket s.   *)
Loops == (1..Len(Calls)) \X Addrs

VARIABLES
    isStop,    \* TcpServer::m_isStop
    socks,     \* m_socks: the addresses whose listening socket it holds
    open,      \* the listening socket of an address is open
    backlog,   \* connections pending in its listen queue
    conns,     \* connections clients have made
    served,    \* handleClient tasks scheduled on the io worker
    queue,     \* the accept worker's task queue
    running,   \* the accept fiber or callback each thread is executing
    fpc,       \* where each accept fiber is
    waiting,   \* waiting[s]: the fibers registered for READ on s
    mpc        \* the main thread: 0 binds, i makes Calls[i]

vars == <<isStop, socks, open, backlog, conns, served, queue, running, fpc,
          waiting, mpc>>
sockVars == <<open, backlog, conns, served, waiting>>

Tasks == [kind : {"loop"}, l : Loops] \cup [kind : {"stop"}]
FiberStates == {"new", "queued", "check", "accept", "add", "parked", "woken",
                "done"}

-----------------------------------------------------------------------------
(* The main thread.                                                        *)

(* TcpServer::bind: create, bind and listen a socket per address; the      *)
(* addresses in ok succeed.  If any fails, m_socks is cleared (the         *)
(* sockets' destructors close them) and bind returns false.               *)
Bind ==
    /\ mpc = 0
    /\ \E ok \in SUBSET Addrs :
         /\ socks' = IF ok = Addrs THEN Addrs ELSE {}
         /\ open' = [s \in Addrs |-> s \in socks']
    /\ mpc' = 1
    /\ UNCHANGED <<isStop, backlog, conns, served, queue, running, fpc, waiting>>

(* The task that starts the accept fiber of loop l.                        *)
LoopTask(l) == [kind |-> "loop", l |-> l]

(* TcpServer::start: return if running; otherwise clear m_isStop and      *)
(* schedule startAccept(sock) on the accept worker for every socket.      *)
Start(i) ==
    LET new == {<<i, s>> : s \in socks} IN
    IF ~isStop
    THEN UNCHANGED <<isStop, queue, fpc>>
    ELSE /\ isStop' = FALSE
         /\ queue' = queue \o SetToSeq({LoopTask(l) : l \in new})
         /\ fpc' = [l \in Loops |-> IF l \in new THEN "queued" ELSE fpc[l]]

(* TcpServer::stop: set m_isStop and schedule the closing callback.       *)
Stop ==
    /\ isStop' = TRUE
    /\ queue' = Append(queue, [kind |-> "stop"])
    /\ UNCHANGED fpc

MainCall ==
    /\ mpc \in 1..Len(Calls)
    /\ IF Calls[mpc] = "start" THEN Start(mpc) ELSE Stop
    /\ mpc' = mpc + 1
    /\ UNCHANGED <<socks, sockVars, running>>

-----------------------------------------------------------------------------
(* The accept worker.                                                      *)

(* IOManager::cancelAll(fd) on every socket of ss: DEL it from epoll and   *)
(* trigger the parked fiber, which is scheduled to retry.                  *)
Wake(ss) ==
    LET woken == UNION {waiting[s] : s \in ss} IN
    /\ queue' = queue \o SetToSeq({LoopTask(l) : l \in woken})
    /\ fpc' = [l \in Loops |-> IF l \in woken THEN "woken" ELSE fpc[l]]
    /\ waiting' = [s \in Addrs |-> IF s \in ss THEN {} ELSE waiting[s]]

(* Mutant: the callback cancels the sockets but does not close them.     *)
StopCbNoClose(t) ==
    /\ running[t] = StopCbRun
    /\ running' = [running EXCEPT ![t] = NoFiber]
    /\ Wake(socks)
    /\ socks' = {}
    /\ UNCHANGED <<open, backlog, isStop, conns, served, mpc>>

(* stop()'s callback, run by the thread that takes it: for every socket    *)
(* of m_socks, cancelAll and close (the pending connections are reset),   *)
(* then m_socks.clear().  Socket::close goes through the hooked close,    *)
(* whose own cancelAll finds nothing left to wake: both are one Wake.    *)
(* It never yields; the other threads' steps may come before or after    *)
(* it, but not between its sockets.                                        *)
StopCb(t) ==
    /\ running[t] = StopCbRun
    /\ running' = [running EXCEPT ![t] = NoFiber]
    /\ Wake(socks)
    /\ open' = [s \in Addrs |-> open[s] /\ s \notin socks]
    /\ backlog' = [s \in Addrs |-> IF s \in socks THEN 0 ELSE backlog[s]]
    /\ socks' = {}
    /\ UNCHANGED <<isStop, conns, served, mpc>>

(* Scheduler::run: an idle thread takes the head task under the lock and *)
(* runs it after releasing it.  An accept fiber starts at the loop's test, *)
(* or resumes in do_io after its yield and goes back to the retry label.  *)
Take(t) ==
    /\ running[t] = NoFiber /\ queue # <<>>
    /\ queue' = Tail(queue)
    /\ LET task == Head(queue) IN
       IF task.kind = "stop"
       THEN /\ running' = [running EXCEPT ![t] = StopCbRun]
            /\ UNCHANGED fpc
       ELSE /\ running' = [running EXCEPT ![t] = task.l]
            /\ fpc' = [fpc EXCEPT ![task.l] =
                         IF @ = "queued" THEN "check" ELSE "accept"]
    /\ UNCHANGED <<isStop, socks, sockVars, mpc>>

(* The fiber that thread t executes.                                       *)
Cur(t) == running[t]

(* Mutant: the loop does not test m_isStop (while(true)).                *)
CheckIgnoresStop(t) ==
    LET l == Cur(t) IN
    /\ l \in Loops /\ fpc[l] = "check"
    /\ fpc' = [fpc EXCEPT ![l] = "accept"]
    /\ UNCHANGED <<isStop, socks, sockVars, queue, running, mpc>>

(* startAccept: while(!m_isStop); the fiber returns when it is set.       *)
Check(t) ==
    LET l == Cur(t) IN
    /\ l \in Loops /\ fpc[l] = "check"
    /\ IF isStop
       THEN /\ fpc' = [fpc EXCEPT ![l] = "done"]
            /\ running' = [running EXCEPT ![t] = NoFiber]
       ELSE /\ fpc' = [fpc EXCEPT ![l] = "accept"]
            /\ UNCHANGED running
    /\ UNCHANGED <<isStop, socks, sockVars, queue, mpc>>

(* Mutant: accept hands out the client without taking it off the queue.   *)
AcceptNoDequeue(t) ==
    LET l == Cur(t)
        s == l[2]
    IN
    /\ l \in Loops /\ fpc[l] = "accept"
    /\ CASE ~open[s] ->
              /\ fpc' = [fpc EXCEPT ![l] = "check"]
              /\ UNCHANGED served
         [] backlog[s] > 0 ->
              /\ served' = served + 1
              /\ fpc' = [fpc EXCEPT ![l] = "check"]
         [] OTHER ->
              /\ fpc' = [fpc EXCEPT ![l] = "add"]
              /\ UNCHANGED served
    /\ UNCHANGED <<isStop, socks, open, backlog, conns, queue, running, waiting, mpc>>

(* sock->accept(), through the hooked accept and do_io: on a closed       *)
(* socket it fails with EBADF (accept returns nullptr, startAccept logs   *)
(* the error and loops); with a connection pending it returns the client, *)
(* which is scheduled on the io worker; otherwise EAGAIN.                 *)
Accept(t) ==
    LET l == Cur(t)
        s == l[2]
    IN
    /\ l \in Loops /\ fpc[l] = "accept"
    /\ CASE ~open[s] ->
              /\ fpc' = [fpc EXCEPT ![l] = "check"]
              /\ UNCHANGED <<backlog, served>>
         [] backlog[s] > 0 ->
              /\ backlog' = [backlog EXCEPT ![s] = @ - 1]
              /\ served' = served + 1
              /\ fpc' = [fpc EXCEPT ![l] = "check"]
         [] OTHER ->
              /\ fpc' = [fpc EXCEPT ![l] = "add"]
              /\ UNCHANGED <<backlog, served>>
    /\ UNCHANGED <<isStop, socks, open, conns, queue, running, waiting, mpc>>

(* do_io on EAGAIN: addEvent(fd, READ) fails on a closed fd (do_io and    *)
(* accept return -1); otherwise the fiber is registered and yields.       *)
AddEvent(t) ==
    LET l == Cur(t)
        s == l[2]
    IN
    /\ l \in Loops /\ fpc[l] = "add"
    /\ IF ~open[s]
       THEN /\ fpc' = [fpc EXCEPT ![l] = "check"]
            /\ UNCHANGED <<running, waiting>>
       ELSE /\ waiting' = [waiting EXCEPT ![s] = @ \cup {l}]
            /\ fpc' = [fpc EXCEPT ![l] = "parked"]
            /\ running' = [running EXCEPT ![t] = NoFiber]
    /\ UNCHANGED <<isStop, socks, open, backlog, conns, served, queue, mpc>>

(* IOManager::idle: a thread with no task returns from epoll_wait with   *)
(* the sockets that have a pending connection and a registered fiber, and *)
(* triggers their READ events.                                             *)
Epoll(t) ==
    LET ready == {s \in Addrs : backlog[s] > 0 /\ waiting[s] # {}}
        woken == UNION {waiting[s] : s \in ready}
    IN
    /\ running[t] = NoFiber /\ queue = <<>> /\ ready # {}
    /\ queue' = SetToSeq({LoopTask(l) : l \in woken})
    /\ fpc' = [l \in Loops |-> IF l \in woken THEN "woken" ELSE fpc[l]]
    /\ waiting' = [s \in Addrs |-> IF s \in ready THEN {} ELSE waiting[s]]
    /\ UNCHANGED <<isStop, socks, open, backlog, conns, served, running, mpc>>

-----------------------------------------------------------------------------
(* A client connects to a listening socket.                                *)
Connect(s) ==
    /\ open[s] /\ conns < MaxConns
    /\ backlog' = [backlog EXCEPT ![s] = @ + 1]
    /\ conns' = conns + 1
    /\ UNCHANGED <<isStop, socks, open, served, queue, running, fpc, waiting,
                   mpc>>

(* The main thread has made its calls and every thread is idle.           *)
Quiet ==
    /\ mpc = Len(Calls) + 1
    /\ queue = <<>>
    /\ \A t \in Threads : running[t] = NoFiber
    /\ UNCHANGED vars

(* The constructor: m_isStop is true.                                      *)
Init ==
    /\ isStop = TRUE
    /\ socks = {}
    /\ open = [s \in Addrs |-> FALSE]
    /\ backlog = [s \in Addrs |-> 0]
    /\ conns = 0
    /\ served = 0
    /\ queue = <<>>
    /\ running = [t \in Threads |-> NoFiber]
    /\ fpc = [l \in Loops |-> "new"]
    /\ waiting = [s \in Addrs |-> {}]
    /\ mpc = 0

ThreadStep(t) ==
    Take(t) \/ StopCb(t) \/ Check(t) \/ Accept(t) \/ AddEvent(t) \/ Epoll(t)

Next ==
    \/ Bind \/ MainCall
    \/ \E t \in Threads : ThreadStep(t)
    \/ \E s \in Addrs : Connect(s)
    \/ Quiet

(* The threads and the main thread keep running; clients owe nothing.     *)
Spec == Init /\ [][Next]_vars
             /\ WF_vars(Bind \/ MainCall)
             /\ \A t \in Threads : WF_vars(ThreadStep(t))

-----------------------------------------------------------------------------
TypeOK ==
    /\ isStop \in BOOLEAN
    /\ socks \subseteq Addrs
    /\ open \in [Addrs -> BOOLEAN]
    /\ backlog \in [Addrs -> 0..MaxConns]
    /\ conns \in 0..MaxConns /\ served \in 0..MaxConns
    /\ queue \in Seq(Tasks)
    /\ running \in [Threads -> Loops \cup {NoFiber, StopCbRun}]
    /\ fpc \in [Loops -> FiberStates]
    /\ waiting \in [Addrs -> SUBSET Loops]
    /\ mpc \in 0..Len(Calls) + 1

(* addEvent asserts that READ is not already registered on the fd: at     *)
(* most one accept fiber waits on a listening socket, whatever start() and *)
(* stop() calls have been made.                                            *)
NoDoubleRegistration == \A s \in Addrs : Cardinality(waiting[s]) <= 1

(* An accept loop never spins: every accept fiber is infinitely often     *)
(* parked, queued or finished, so it always gives its thread back.         *)
AcceptLoopYields ==
    \A l \in Loops : []<>(fpc[l] \notin {"check", "accept", "add"})

(* stop() ends the server: once the main thread's last call is stop(),     *)
(* every accept fiber eventually returns and no socket stays open.        *)
LastCallStops == Len(Calls) > 0 /\ Calls[Len(Calls)] = "stop"
StopEndsLoops ==
    LastCallStops =>
        <>[](/\ \A l \in Loops : fpc[l] \in {"new", "done"}
             /\ \A s \in Addrs : ~open[s])
=============================================================================
