# TLA+ models of sylar

This directory holds TLA+ models of the sylar coroutine server framework whose
source is under `src/`. TLC checks them. `PROJECT.json` lists the components,
the runs, the mutants, which source lines each definition models, the findings
and the hazards.

## The system

sylar runs many user-level fibers on a few threads.

| Part | Source | What it does |
|------|--------|--------------|
| Fiber | `src/unnamed/part_004`, `src/sylar/fiber.h` | A ucontext coroutine with the states INIT, HOLD, EXEC, TERM, READY and EXCEPT. `swapIn`/`swapOut` switch between the fiber and its thread's scheduling fiber. `YieldToHold`/`YieldToReady` set the state and then switch. `MainFunc` runs the callable, sets TERM and switches out. |
| Scheduler | `src/sylar/scheduler.cc`, `scheduler.h` | The task queue `m_fibers` holds fibers or callables, each optionally pinned to a thread. Every worker thread runs `run()`, which takes the first task that is not EXEC, swaps it in, and afterwards reschedules READY fibers and sets the others to HOLD. With no task, a worker runs its idle fiber. `m_activeThreadCount` and `m_idleThreadCount` count workers. `stop()` sets `m_autoStop` and `m_stopping`, tickles, and joins. |
| IOManager | `src/sylar/fd_manager.cc` (second half), `src/unnamed/part_005` | A Scheduler whose idle fiber blocks in edge-triggered `epoll_wait` for at most 3000 ms. `addEvent` registers (fd, event) and records the current fiber in the event's slot. `triggerEvent` schedules that fiber and empties the slot; `cancelEvent`/`cancelAll` trigger without readiness. `m_pendingEventCount` counts registrations. `tickle` writes a byte into a self-pipe, but only when some thread counts as idle. `stopping()` also requires no timer and no pending event. |
| TimerManager | (timer.cc is not in the repository) | Deadline-ordered timers. `listExpiredCb` hands the idle loop the callbacks that are due. Condition timers run only while a weak pointer still locks. |
| Hooks | `src/sylar/hook.cc` (first 640 lines) | These replace libc calls for threads with hooks enabled. `do_io` tries the call; on EAGAIN it arms a condition timer (if the socket has a timeout), calls `addEvent`, yields, and then either times out or retries. `sleep` arms a timer that reschedules the fiber. `close` cancels every event of the fd and drops its FdCtx. `fcntl`/`ioctl`/`setsockopt` keep the user's view of O_NONBLOCK and the timeouts in the FdCtx. |
| FdManager / FdCtx | `src/sylar/fd_manager.cc` (first half) | Per-fd context: is it a socket, the system and user nonblocking flags, and the receive and send timeouts. |
| TcpServer | `src/sylar/hook.cc` (from line 645) | `bind` opens a listening socket per address, all or nothing. `start` schedules one accept loop per socket on the accept worker, and `stop` schedules a callback there that cancels and closes every socket. |
| Address | `src/unnamed/part_003` | IPv4, IPv6 and Unix socket addresses: lookup through getaddrinfo, interface enumeration through getifaddrs, and the prefix arithmetic `broadcastAddress`, `networdAddress` and `subnetMask`. |
| Config | `src/sylar/config.cc`, `hook.cc` (ConfigVar, Config, from line 820) | A ConfigVar holds a value under an RWMutex and calls its listeners on change. `LoadFromConfDir` reloads every .yml file whose st_mtime differs from the one it recorded. `hook.cc`'s `_HookIniter` mirrors `tcp.connect.timeout` into `s_connect_timeout`, which the hooked `connect` uses. `Lookup` checks and registers names; `LoadFromYaml` flattens a document with `ListAllMember` and applies each key (`ConfigKeys.tla`). |
| Locks | `hook.cc` (the mutex.h part, from line 1403), `part_006` | Scoped lock guards over pthread mutexes, rwlocks and spinlocks; Semaphore; FiberSemaphore. |
| HTTP connection pool | `src/sylar/http/http_connection.cc` (from line 325), `http11_common.h` | `HttpConnectionPool::doRequest` takes an idle keep-alive connection from a `std::list` under `m_mutex` (`getConnection`), or connects a new one, sends the request and reads the response. The connection's shared_ptr deleter `ReleasePtr` counts the request and either deletes the connection or pushes it back. `m_total` is an atomic counter of the pool's connections. |
| Thread, Log, Socket, HTTP parser and server | `thread.cc`, `log.h`, `part_002`, `http/*` | Support code (see "Not modelled"). |

The parts interact as follows. A hooked call runs inside a fiber on a worker,
registers with IOManager and parks the fiber. Epoll readiness, a timer or
`close` schedules the fiber again, and some worker (possibly a different one)
resumes it. Scheduling work wakes an idle worker through the tickle pipe.

## Modules

### `IOManager.tla`: the scheduler, the reactor and the hooked calls

The constants are `Workers`, `Fibers`, `Fds`, `Events`, and `Prog`. `Prog`
gives the one hooked call each fiber makes: `io` on (fd, event) with or
without a timeout, `connect` (which waits for WRITE) with or without its
timeout, `sleep`, or `close` of an fd. The scheduler is built with
`use_caller = false`. A separate main thread schedules one callable per fiber
and then calls `stop()`, as `test_iomanager` in `src/unnamed/part_000` does.

State corresponds to the code as follows:

- `queue` is `m_fibers`. `active` is `m_activeThreadCount` and `idleCnt` is `m_idleThreadCount`.
- `wpc`/`wtask` are each worker's place in `run()` or in its idle fiber, and the task `ft` it took.
- `fstate` is `Fiber::m_state`. `onCpu` is the set of workers whose CPU is on a fiber's stack.
- `events` is `FdContext::events`, `slot` is `EventContext::fiber`, and `pending` is `m_pendingEventCount`.
- `pipe` means a byte is in the tickle pipe. `kready` is the edges epoll has queued.
- `avail` is socket readiness. `fdOpen` means the fd is open and has an FdCtx.
- `fdGen` counts the sockets the kernel has given each fd number. `ioGen` is the ghost record of which socket a fiber's `do_io` found on entry. These two let a check tell a reused number from the socket it replaced.
- `timer` is the fiber's TimerManager timer: none, armed or due.
- `cancelled` is `timer_info::cancelled`.

Actions correspond to the code as follows. Each worker action is one locked
section or one step between context switches:

- `Take` is the take loop of `run()` plus `swapIn`. `PostResume` is the code after `swapIn` returns.
- `EnterIdle` is `++m_idleThreadCount; idle_fiber->swapIn()`.
- `IdleCheck` is the `stopping()` test at the top of `IOManager::idle`.
- `EpollReturn` is `epoll_wait` returning, `listExpiredCb`, and the loop over ready fds with `triggerEvent`.
- The fiber steps are `IoCall` (do_io up to the timer), `AddEvent`, `SleepCall`, `CloseCall`, `YieldHold` (the first half of `YieldToHold`), `SwapOut`, `Resumed` (do_io after the yield) and `Finish` (`MainFunc`).
- `ConnectCall` is `connect_with_timeout` up to its timer: EBADF on a closed fd, an immediate success or failure of the raw connect, or EINPROGRESS and the condition timer. `AddEvent` is shared with do_io. `ConnectResumed` is the code after the yield: ETIMEDOUT if the timer marked it, otherwise `getsockopt(SO_ERROR)`, with no retry.
- `TimerCb` and `CbCancel` are the condition-timer callback and its `cancelEvent`.
- The environment actions are `Arrive` (data or buffer space arrives), `Spurious` and `Elapse` (a deadline passes).
- `Reopen` is another fiber's `socket()` or `accept()` taking the number of a closed fd. It is bounded by `MaxReuse` and is only in `ReuseSpec`, which `IOManager_fdreuse.cfg` uses.
- `Spurious` is epoll reporting a registered socket ready when the read that follows still finds EAGAIN. Linux documents this in select(2), BUGS. It is bounded by `MaxSpurious`. It is what sends `do_io` round `goto retry` to a second wait, with a fresh condition timer and the same `timer_info`.

`YieldToHold` is split in two: it sets HOLD and then saves the context. This
split is what the code does, and it exposes the first finding below.

### `FdManager.tla`: the fd context table and the flag hooks

This module models the kernel's fd table next to `FdManager::m_datas`.
The constants are the fd numbers (`Fds`), the timeout options (`Opts`), the
arguments callers pass (`TimeVals`, `NbArgs`, `IoctlArgs`), whether calling
threads have hooks (`Hooked`), and `MaxGen`, which bounds how often the kernel
hands out each number.

State:

- Kernel: `kopen`, `kind` (socket or file), `knb` (O_NONBLOCK) and `ktimeo` (the timevals), each per fd.
- `gen` counts how many times each fd number has been handed out. The ghost field `ctx[fd].gen` records which generation a context was made for.
- `ctx[fd]` is the FdCtx, or `NoCtx`.
- `userSet` is the O_NONBLOCK the user last asked for.
- `kfile` is the kernel's open file description behind each fd. O_NONBLOCK and the socket options belong to the description, so `SetFl`, `Ioctl` and `Setsockopt` change them on every fd that shares it (`Sharing`, `SetShared`).

Actions:

- `Socket` is `socket` followed by `FdManager::get(fd, true)`. That leads to `Materialize` and `InitCtx`, which is `FdCtx::init`.
- `Close` is the hooked `close`: `cancelAll` and `del`, then `close_f`.
- `SetFl` (fcntl F_SETFL), `Ioctl` (FIONBIO) and `Setsockopt` (SO_RCVTIMEO/SO_SNDTIMEO).
- `Open` is an unhooked `open` that takes a number and makes no context.
- `Accept` is the hooked `accept`: the new fd, blocking in the kernel, then `get(fd, true)` whatever the hook flag.
- `DupFd` is `fcntl(F_DUPFD)`, passed through: a new number on the same description, with no context. It is only in `DupSpec`, which `FdManager_dup.cfg` uses.

F_GETFL changes no state, so it is the operator `GetFlNonblock`. The kernel
hands out the lowest free number, as POSIX requires, so closing and reopening
reuses numbers.

### `Address.tla`: prefix arithmetic of IP addresses

This module models `CreateMask`, `CountBytes`, the three mask methods of
`IPv4Address` and of `IPv6Address`, and the IPv6 prefix length that
`GetInterfaceAddresses` sums from a netmask (`src/unnamed/part_003`).
TLC's integers are 32-bit signed, so an address is the sequence of its
bytes in memory:

- `sin_addr` is 4 bytes.
- A `sockaddr_in6` is the 16 bytes of `sin6_addr` followed by the 4 bytes of `sin6_scope_id`. An index past the address therefore lands in the scope id, as it does in memory.
- A `uint32_t` is its little-endian bytes, and `byteswapOnLittleEndian` reverses them. (`endian.h` is not in the repository; the host is taken to be little-endian.)

`CreateMask<uint32_t>(0)` shifts an `int` by 32, which is undefined. The
constant `ShiftAtWidth` gives the results a build produces: 1 on x86, where
the shift count is masked, or 0. Each action is one call, with its arguments
drawn from the constants. The state is the call and what it returned, and
`Return` goes back to no call. The reference computes every byte by
arithmetic (`b - b % 2^host`) instead of by shifts.

### `Scheduler.tla`: the base scheduler with use_caller, affinity, switchTo and FiberSemaphore

This module models `Scheduler` on its own, without the reactor. The main thread constructs it with `UseCaller`, calls
`start()`, schedules the `Roots` (a callable with an affinity), and calls
`stop()`. Each task is a callable whose body `Prog[t]` is a short sequence of
scheduler calls: `YieldToReady`, `switchTo(thread)`, or `schedule(g, thread)`
with a fixed thread, -1, or the task's own thread (`GetThreadId()`), and
`tryWait`, `wait` and `notify` on one `FiberSemaphore` with `SemInit` permits.

The state maps directly to the code:

- `queue` is `m_fibers`, whose entries are [kind, t, thr];
- `active` is `m_activeThreadCount`;
- `stopFlag` and `autoStop` are `m_stopping` and `m_autoStop`;
- per thread, `wpc` (where it is in `run()`), `wtask` (the `ft` it took), `running` (whose stack its CPU is on) and `idleTerm` (its idle fiber returned);
- per task, `fstate` (`Fiber::m_state`), `fpc` (its next call) and `onCpu` (the threads executing on its stack);
- `mpc` is the main thread's place in construct/start/stop;
- `sem` and `waiters` are the semaphore's `m_concurrency` and `m_waiters`.

Each step of `run()` is one action:

- `TakeEntry` is the locked scan, which skips entries pinned elsewhere and fibers in EXEC, then does `++active` and `swapIn`.
- `PostResume` is `--active`.
- `Reschedule` re-queues a READY fiber with affinity -1, or sets HOLD.
- `TakeNone` and `IdleRun` are the empty scan and the base idle fiber, which yields until `stopping()`.

The fiber's own steps are `YieldToReady`, `SwitchTo`, `Spawn`, `TryWait`,
`SemWait`, `SemNotify` and `Finish`. `SemWait` is `wait`'s locked block: it
takes a permit, or it appends the fiber to `m_waiters`. In the second case
the thread goes on, after the unlock, to `YieldToHold` (the HOLD store) and
`SwapOut`. `SemNotify` schedules the first waiter with affinity -1, or it
adds a permit. `SwitchTo` queues the running fiber and then yields HOLD in two steps,
`SwitchTo` and `SwapOut`, because `YieldToHold` publishes HOLD before
`swapOut` saves the context. `Stop`, `StopCall` and `Join` are the three parts of
`stop()`: the early return, `m_rootFiber->call()` when `!stopping()`, and
the join. Under `use_caller` the main thread is a worker that runs `run()`
only inside that call. `home` is a history variable. It holds the affinity of
the last pinned entry a task was taken from, so the affinity property can
talk about it.

### `TaskPool.tla`: what the scheduler promises

This is an abstract specification with no queue, no fiber and no lock. A task is submitted
once with an affinity. It starts only on a thread its affinity allows and
only while that thread executes nothing else. It runs on exactly one thread
until it suspends (and is submitted again), parks until it is woken
(submitted again with some affinity; several parked tasks may be woken in
one step), or finishes. `Scheduler.tla` maps
its state onto this:

- a task is running while some CPU is on its stack;
- it is queued while it has an entry in `m_fibers` or is READY;
- it is parked while it is in the semaphore's `m_waiters` and off every CPU;
- it is done once TERM.

`PoolRefined` checks the refinement with `INSTANCE TaskPool WITH`.
`IOManager.tla` does not check this refinement. Its passing run has one
worker, and with one worker a fiber can only start on a worker that runs
nothing else, so the refinement would hold by construction. With two workers
the double run (finding 1) breaks it.

### `Config.tla`: reloading the configuration

This models one reload path:

- `LoadFromConfDir` (one .yml file in the directory, `force` = false) → `LoadFromYaml` → `LookupBase` → `fromString` → `ConfigVar<int>::setValue`;
- the variable's RWMutex;
- the one listener the repository registers.

The state is the following:

- `file`, `mtime` and `now` are the file, its st_mtime in whole seconds, and the clock;
- `modtime` is `s_file2modifytime[file]`;
- `val` is `m_val` of `tcp.connect.timeout`;
- `mirror` is `s_connect_timeout`;
- `readers` are the threads holding the variable's lock for reading;
- per reloader, `pc`, `st` (what its `lstat` returned) and `v` (the value it sets).

The steps follow the code:

1. `Stat` is the `lstat` outside `s_mutex`.
2. `Check` is the locked compare-and-record.
3. `Load` is `YAML::LoadFile` and its catch.
4. `RdLock`, `Compare` and `Notify` are `setValue`'s read-locked block, with its early return on an equal value.
5. `Assign` is its write-locked assignment.

A write-locked section is one step, so `WriteLockFree` (no readers) is its only guard. The environment is `Tick`, and `Save(c)` for an editor's save, which may be a half-written file `Bad`. `SameSecond` says whether two saves may fall in one second. `Init` is the state after static initialisation: `Config::Lookup` has registered the default 5000, and `_HookIniter` has copied it and added its listener.

### `ConfigKeys.tla`: configuration names and YAML keys

This module models which variable each entry of a configuration document
reaches: `Config::Lookup` and `LookupBase` (the config.h part of `hook.cc`),
`ListAllMember` and `Config::LoadFromYaml` (`config.cc`), and
`ConfigVar::fromString`. A name or key is a sequence of one-character strings.
A YAML node is a scalar or a map whose items keep their document order.
`Trees` is every document up to `MaxDepth` levels with up to `MaxWidth`
items per map, built by the recursive `NodesOf`.

- `NameChars` is the character set both name checks pass to `find_first_not_of`. `ValidName`, `Lower` (`::tolower`) and `Join` (`prefix.empty() ? key : prefix + "." + key`) are the string operations.
- `ListAllMember` is the recursive walk. It drops a subtree at its first invalid prefix.
- `LookupCall` is one static-initialisation `Lookup`: an existing name with the same type, with another type (nullptr), an invalid name (throw, which ends the program), or a new variable holding the default.
- `LoadFromYaml` folds `LoadEntry` over the walk. `LoadEntry` skips the empty root key, lowercases the key, asks `LookupBase`, and calls `FromString`, whose failed conversions are caught.

The reference definitions are `NodesBelow` (every node with its keys) and
`DottedName` (the keys joined with dots). The module is a check of these pure
algorithms over every small document, so the run stops after the load, and
its cfg says `CHECK_DEADLOCK FALSE`.

### `HttpPool.tla`: the HTTP client connection pool

This models `HttpConnectionPool` with client fibers calling `doRequest` and a
server that may close any connection. A connection is an identity from
`Conns`. The state is the following:

- `conns` is `m_conns`, front first, and `total` is `m_total`;
- per connection, `status` (not yet created, live, deleted), `sock` (open, closed by the peer, closed locally, so `isConnected` is "not closed locally") and `request` (`m_request`);
- `born`, the time a connection was created, is a history variable: the code has no such field, because `m_createTime` is never set;
- per client, `pc`, `hold` (its `conn`), `invalid` (`invalid_conns`) and `calls`.

The steps follow the code:

1. `Scan` is `getConnection`'s loop under `m_mutex`. `FirstUsable` finds the first connection that is connected and passes the age test, and `PopFront` is what the `pop_front` calls leave.
2. `Discard` is the unlocked `delete` of the set-aside connections and `m_total -= invalid_conns.size()`.
3. `Connect` is the address lookup, socket creation and `connect`. Any of these may fail, and then `doRequest` returns `POOL_GET_CONNECTION`. Otherwise `new HttpConnection` and `++m_total`.
4. `Send` is `sendRequest`. It may fail only once the peer has closed, and the connection is released without being closed.
5. `Recv` is `recvResponse`. Every error path in it calls `close()`.
6. `Release` is `ReleasePtr`, with its test `Retire` and its `delete` and `--m_total` (`Destroy`).

`CreateTime(c)` is 0, as in the code. The clock starts at `Epoch`, which is
larger than any `max_alive_time`, because `GetCurrentMS` counts from 1970.

### `TcpServer.tla`: the accept loops and stop

The main thread runs `bind` over the addresses `Addrs` and then the calls
`Calls`, each `start` or `stop`. The accept worker is abstracted to its task
queue, its threads `Threads` and its epoll. An accept fiber is a pair (call,
address): the call that scheduled it and the socket it serves.

State corresponds to the code as follows:

- `isStop` is `m_isStop`, and `socks` is the set of addresses in `m_socks`.
- `open` means a listening socket is open, and `backlog` counts the connections in its listen queue.
- `queue` is the accept worker's `m_fibers`, and `running` is what each thread executes: an accept fiber, stop's callback, or nothing.
- `fpc` is where each accept fiber is, and `waiting[s]` is the fibers registered for READ on socket `s`.
- `served` counts the `handleClient` tasks handed to the io worker.

The steps:

1. `Bind` is `bind(addrs, fails)`. Each address may fail its bind or listen, and one failure clears `m_socks`.
2. `Start` and `Stop` are `start()` and `stop()`, made by `MainCall` in the order of `Calls`.
3. `Take` is the worker's `run()` taking a task.
4. `Check` is `startAccept`'s `while(!m_isStop)` test.
5. `Accept` is the hooked accept. It fails with EBADF on a closed socket, takes a pending connection, or finds none.
6. `AddEvent` is do_io's `addEvent(READ)`. It fails on a closed socket; otherwise the fiber parks.
7. `Epoll` is the idle loop waking the fibers of sockets with a pending connection.
8. `StopCb` is stop's callback: `cancelAll` and `close` on every socket of `m_socks`, then `clear()`. `Socket::close` goes through the hooked `close`, which calls `cancelAll` again. `Wake` stands for both calls: whichever runs first wakes the parked accept.
9. `Connect` is a client connecting.

`handleClient` only logs, so a served client is a count.

### `MC_IOManager.tla`, `MC_FdManager.tla`, `MC_Address.tla`, `MC_Scheduler.tla`, `MC_Config.tla`, `MC_HttpPool.tla`, `MC_TcpServer.tla`, `MC_ConfigKeys.tla`

These modules supply the model values and definitions the cfgs use:

- for IOManager: the workers, the fibers with their programs, and the fd;
- for FdManager: the fd numbers and the argument sets;
- for Scheduler: the threads, the tasks, the roots and the programs of each run;
- for Config: one or two reloaders and the timeouts 1000 and 3000 a file may set;
- for HttpPool: two client fibers and four connection identities;
- for TcpServer: two addresses, one or two threads, and the call sequences;
- for ConfigKeys: the characters a, b, 9, A, `.` and `-` with `::tolower` on them; the key sets of the passing run (lowercase, dotted, and `-`, which both the code and the comment reject), of finding 21 (with `9`) and of finding 22 (with `A`); and the Lookup calls;
- for Address: two addresses of each family, whose bytes mix ones and zeros at every bit position, and the prefix ranges.

## Runs

| Run | Configuration | Checks | Result |
|-----|---------------|--------|--------|
| `iom_mix` | 1 worker; fibers `rd` (READ with a timeout), `wr` (connect with its timeout), `cl` (close), `sl` (sleep) on one fd; at most one spurious readiness edge | `TypeOK`, `OneResumer`, `StopOnlyWhenQuiescent`, `ShutdownCompletes` | passes, 399,169 distinct states |
| `iom_doublerun` | 2 workers, one reader | `NoDoubleRun` | violated, 12 steps |
| `iom_losttickle` | 1 worker, one sleeper | `NoSleepWithWork` | violated |
| `fd_hooked` | hooked threads; fds {3, 4}, each handed out up to twice; every fcntl, ioctl and setsockopt argument | `TypeOK`, `NoStaleCtx`, `UserViewAgrees` | passes, 25,123 distinct states |
| `fd_ioctl` | as `fd_hooked`, receive timeout only, nonzero timevals | `KernelNonblocking` | violated: socket, then ioctl(FIONBIO, 0) |
| `addr_masks` | IPv4 prefixes 1..33, IPv6 prefixes 0..127, both shift results | `TypeOK`, `MasksMatchReference`, `PrefixLenInverts` | pass, 933 distinct states |
| `sched_mix` | use_caller, one worker `w1`, a semaphore with one permit; root `t1` (any thread: YieldToReady, tryWait, YieldToReady) and root `t2` pinned to `w1` (`switchTo(w1)` on `w1`, which returns at once; schedule `t3` on `w1` and `t4` on its own thread, then wait); `t3` waits and then tries; `t4` notifies three times | `TypeOK`, `NoTaskLeftBehind`, `PoolRefined`, `ShutdownCompletes`, `NoWaiterWithPermit` | passes, 1,831 distinct states |
| `sched_switch` | use_caller, one worker; `t1` switches to `w1` and back to main, `t2` (pinned to `w1`) to main and back to `w1` | `PoolRefined` | violated (finding 11): `main`, inside `stop()`, takes `t1` while `w1` is still on its stack |
| `config_reload` | one reloader, 3 calls; up to 2 saves (possibly half written) in distinct seconds, clock to 3 | `TypeOK`, `MirrorAgrees`, `LoadedMeansApplied` | passes, 896 distinct states |
| `pool_mix` | two fibers, two requests each; max_request 2, max_alive_time 2 ms, max_size 2; the server may close any connection; clock advances 2 ms | `TypeOK`, `ConnectionOwnedOnce`, `TotalCountsLive`, `RequestLimit` | passes, 72,318 distinct states |
| `tcp_mix` | two addresses, two accept threads; start, start, stop; up to 2 client connections | `TypeOK`, `AcceptLoopYields`, `StopEndsLoops` | passes, 2,136 distinct states |
| `config_keys` | every document of up to 2 levels and 2 items per map over keys `a`, `b`, `-` and `a.b`, with the scalars 1000 and `x`; Lookup of `a.b` (int), `a` (uint64) and `a.b` again (uint64, the wrong type) | `TypeOK`, `WalkMatchesReference`, `FileSetsRegistered` | passes, 210,055 distinct states |

Some cfgs are kept beside the runs as reproductions. The runs in `PROJECT.json`
are kept to the project's main questions, and these cfgs are not among them. Each reports its property violated with `tlc -config X.cfg MC_...`:

| cfg | Reproduces | Shows |
|-----|------------|-------|
| `FdManager_unhookedclose.cfg` | finding 4 | socket, close on the main thread, socket |
| `FdManager_zerotimeout.cfg` | finding 5 | setsockopt with {0, 0} |
| `Address_edges.cfg` | finding 7 | IPv4 `broadcastAddress(0)` |
| `Address_v6full.cfg` | finding 8 | IPv6 `broadcastAddress(128)` |
| `Scheduler_affinity.cfg` | finding 10 | `t1`, pinned to `w1`, resumes on `w2` after `YieldToReady` |
| `Scheduler_switchrace.cfg` | finding 11 | `w2` swaps `t1` in while `w1` is still on its stack |
| `Scheduler_semrace.cfg` | finding 16 | `t2` on `w2` notifies while `t1` is between `wait`'s unlock and `swapOut` on `w1`, and `w2` swaps `t1` in |
| `Config_reorder.cfg` | finding 13 | `r1` assigns the old 3000 after `r2` assigned the newer 1000 |
| `Address_network.cfg` | finding 6 | IPv4 `networdAddress(1)` |
| `IOManager_losttimeout.cfg` | finding 17 | two workers and one reader with a timeout, with no spurious wake-up. The timeout callback runs on `w1` between the reader's `addConditionTimer` and its `addEvent` on `w2`, and the reader stays parked for good |
| `IOManager_connectlost.cfg` | finding 17 | the same lost timeout for a `connect` with its timeout |
| `IOManager_fdreuse.cfg` | finding 20 | one worker: `rd` parks reading fd1, `cl` closes fd1 and wakes it, `Reopen` gives the number 1 to a new socket, data arrives, and `rd`'s retry returns ok from the new socket (`ReadsOwnSocket`) |
| `Config_samesecond.cfg` | finding 12 | as `config_reload`, with two saves in one second: a half-written save is read and recorded, and the good save in the same second is skipped |
| `TcpServer_restart.cfg` | finding 18 | one thread; start, stop, start: the woken accept loop spins on its closed socket |
| `TcpServer_restartrace.cfg` | finding 18 | two threads; start, stop, start with stop's callback still queued: two accept loops register READ on one socket |
| `FdManager_dup.cfg` | finding 19 | socket 3, `fcntl(3, F_DUPFD)` gives 4, `fcntl(4, F_SETFL, 0)` clears the kernel flag of socket 3 |
| `HttpPool_maxalive.cfg` | finding 14 | with max_alive_time 1 ms, a connection created at 10 is handed out again at 12 |
| `Scheduler_stopwindow.cfg` | finding 9 | use_caller, one worker; `t1` yields READY and then schedules `t2` on the main thread: a lasso with `w1` idle forever and `t2` queued for the main thread, which has left `run()` |
| `ConfigKeys_nine.cfg` | finding 21 | `Lookup("b9", ...)` throws |
| `ConfigKeys_case.cfg` | finding 22 | the document `{A: 1000}` leaves the registered `a` at its default |
| `HttpPool_maxsize.cfg` | finding 15 | with max_size 1, two fibers that both miss the list each connect, and `m_total` reaches 2 |

The properties:

- `NoStaleCtx`. A context exists only for an open fd, and it was made for the descriptor currently behind that number. This relates `close`/`del` to kernel reuse.
- `UserViewAgrees`. F_GETFL on an open socket reports the O_NONBLOCK the user last set with fcntl or ioctl. `do_io` makes the same decision from the same flag.
- `KernelNonblocking`. A socket whose context says sys-nonblock is nonblocking in the kernel, so `do_io`'s raw call cannot block the worker thread.
- `ZeroMeansNoTimeout`. The context's timeout is the -1 sentinel exactly when the kernel's timeval is zero.
- `OneResumer`. A parked fiber has exactly one thing that will resume it, and never two. That thing is an event slot, its timeout's `cancelEvent`, sleep's timer, or a queued task. This is the spec's "no orphan park, exactly once". Several components must preserve it together: `addEvent`, the epoll loop, `cancelEvent`, `cancelAll` in `close`, and the timer callbacks. All of them meet on one fd in `iom_mix`: the reader's timeout, data arrival, and close.
- `StopOnlyWhenQuiescent`. A worker's idle fiber returns only when every fiber has terminated. This checks that `IOManager::stopping` accounts for every fiber still alive.
- `ShutdownCompletes`. `stop()` returns. Both waiters have a timeout, but no data need ever arrive, so a timer that cannot cancel the wait, or a close that misses it, leaves a fiber parked.
- `MasksMatchReference`. For every address and prefix length, `broadcastAddress` and `subnetMask` match the reference, and an IPv6 result keeps its scope id. This covers the byte order of the IPv4 mask, the uint8 truncation of `~`, and the boundary byte at a prefix that is a multiple of 8.
- `PrefixLenInverts`. Summing `CountBytes` over a contiguous netmask gives back the prefix length of that mask.
- `NoTaskLeftBehind`. When `stop()` returns, every scheduled task has run to its end. This includes tasks scheduled by other tasks and pinned ones, which only their thread may run.
- `PoolRefined`. The scheduler implements `TaskPool`: every step either leaves the abstract state alone or is a submit, start, suspend or finish. This rules out, among other things, a task that starts on a thread its affinity excludes, a task on two CPUs, and a thread running two tasks.
- `ShutdownCompletes` of Scheduler. `stop()` returns. Under use_caller the main thread drains the queue only inside `stop()`, through the root fiber, and must leave `run()` only once nothing is left for it.
- `PinnedStaysOnItsThread`. A fiber that was last taken from an entry pinned to a thread executes only on that thread. With `switchTo`, this is the promise the `SchedulerSwitcher` helper relies on. No passing run checks it: a yield of a pinned fiber breaks it (finding 10, `Scheduler_affinity.cfg`), and without such a yield it restates the scan's affinity test.
- `NoWaiterWithPermit`. While a fiber sits in the semaphore's `m_waiters`, no permit is left. `wait` parks only when there is none, and `notify` hands its permit to the first waiter. A permit counted while a fiber waits would strand that fiber. `stopping()` does not look at `m_waiters`, so `stop()` would then return with the fiber parked. That is what `NoTaskLeftBehind` catches.
- `MirrorAgrees`. Whenever no `setValue` is between its listener call and its assignment, `s_connect_timeout` equals the variable. The check covers the early return on an equal value and saves of half-written files. With two reloaders it fails too (finding 13).
- `LoadedMeansApplied`. When no reload is running and the recorded time equals the file's st_mtime, the variable holds the file's value. That state is exactly when every later reload skips the file. This is the assumption behind `LoadFromConfDir`'s skip.
- `ConnectionOwnedOnce`. A live connection is in exactly one place: once in `m_conns`, held by one request, or in one fiber's `invalid_conns`. A deleted connection is in none. This rules out a connection used by two requests at once, one both idle and in use, and a double delete. It must survive every interleaving of the locked scans, the unlocked deletes, the connects and `ReleasePtr`'s pushes.
- `TotalCountsLive`. `m_total` equals the number of connections that exist. Three code paths adjust it outside the lock.
- `RequestLimit`. No live connection has served `max_request` requests. `ReleasePtr` counts the request before its test, so the boundary is `>=`.
- `NoDoubleRegistration`. At most one accept fiber is registered for READ on a listening socket, whatever the order of `start`, `stop`, stop's callback and the loops' tests. `addEvent` asserts this. No passing run checks it. In `tcp_mix` only the first `start()` schedules loops, so there it would restate `start()`'s guard. A `start()` after `stop()` breaks it (finding 18, `TcpServer_restartrace.cfg`).
- `AcceptLoopYields`. Every accept fiber is infinitely often parked, queued or finished. A loop that misses the stop flag on a closed socket would spin on EBADF and hold its thread.
- `StopEndsLoops`. When the last call is `stop()`, eventually every accept fiber has returned and every listening socket is closed. This needs stop's callback to cancel the parked accepts, and each woken loop to see `m_isStop`.
- `WalkMatchesReference`. `ListAllMember` lists exactly the nodes of the document whose dotted name uses only the characters Lookup's comment allows, `[0-9a-z_.]`. This holds even though the walk stops at the first invalid prefix, and `Join` builds each name with its `prefix.empty()` test. The key `-` is outside both the documented set and the code's set, so its subtree must be dropped. A key with a 9 would break the property (finding 21), so the run uses none.
- `FileSetsRegistered`. After `LoadFromYaml`, a variable that `Lookup` registered holds the document's integer scalar under its name, or keeps its default when there is none. This covers `LookupBase`, `fromString`'s caught conversions and the wrong-type `Lookup`. Every key in the run is lowercase, so `tolower` changes nothing here. An uppercase key is finding 22.
- `NetworkMatchesReference` is finding 6. `NoExpiredReuse` and `PoolBounded` are findings 14 and 15.
- `NoDoubleRun` and `NoSleepWithWork` are findings 1 and 2; `KernelNonblocking` and `ZeroMeansNoTimeout` are findings 3 to 5. The Scheduler violations are findings 9 to 11.

**Why one worker in the passing run.** With two workers, the double-run race
below occurs in every configuration where a fiber parks. Once a fiber runs on
two stacks, nothing about it is meaningful. The passing run therefore checks
the protocol on one worker, where fibers still interleave with each other and
with the environment, and the race is reported by its own run.

**Bounds.** One fd with both events and four fibers covers every path:

- a READ and a WRITE registration on one fd, so MOD/DEL re-arming and cancelAll's READ-then-WRITE order occur;
- a timeout racing readiness and close;
- a sleeper's timer interleaving with the others;
- close before, during and after the waits.
- one spurious edge (`MaxSpurious = 1`), so `do_io` retries into a second wait with a stale timer callback possibly queued. One edge is enough to reach the second wait; more edges only repeat it.

Adding more fibers only repeats these interleavings.

**Fairness.** Each worker thread and the main thread keep running, so their
actions have weak fairness. Time passes, so `Elapse` has weak fairness: every
armed timer eventually expires. `epoll_wait` always returns within 3000 ms, so
`EpollReturn` is always enabled from `epoll`. The network owes nothing, so
`Arrive` and `Spurious` have no fairness.

In `Scheduler.tla` every thread in `run()` either has a task or spins in
the base idle fiber (`while(!stopping()) YieldToHold()`), and the main thread
runs to `stop()`. So `ThreadStep(w)` and `MainStep` each have weak fairness,
and no other fairness is assumed.

In `TcpServer.tla` each accept thread and the main thread keep running, so
`ThreadStep(t)` and the main thread's calls have weak fairness. Clients owe
nothing, so `Connect` has none. `Quiet` lets a behaviour end once every thread
is idle.

`HttpPool.tla` checks safety properties only and assumes no fairness. Its `Finished` step lets a behaviour end once every client has made its calls.

`Config.tla` checks safety properties only, so it assumes no fairness. Its
`Finished` step lets a behaviour end once every reloader has made its calls.

**Config bounds.** Three calls, two saves and three seconds are enough for
three things. A save can fall before the `lstat`, between the `lstat` and
the load, and between the load and the assignment. A half-written save can be
followed by a good one. The recorded time can equal the current one. The pass
run allows one save per second. That is the environment in which the skip is
correct; `config_samesecond` drops it.

**HttpPool bounds.** Two fibers with two requests each, and max_request 2, are
enough for three things:

- one fiber misses the list while the other holds the only connection;
- a connection is reused and then retired at its second request;
- a connection the server closed is set aside by the scan, or put back after a failed send.

Four identities cover every connection the four requests can create. The
clock advances twice, which is enough for the age test to matter. In
`HttpPool_maxalive.cfg` a connection outlives max_alive_time 1.

**Scheduler bounds.** One worker plus the main thread is the smallest setup
where pinning, `use_caller`'s late drain and the stop window all occur. In
`sched_mix`, every call that can park or wake a fiber runs on `w1`. A woken
fiber may still finish on the main thread, and `t1`'s `tryWait` runs on either
thread. Two waiters can therefore queue in either order, a permit can be taken
by `tryWait`, and a notify can either wake a waiter or be counted. A waiter
and a notifier on different threads would reach finding 16, and
`Scheduler_semrace.cfg` is kept for that. Four
tasks give a yield, a pinned spawn, a spawn onto any thread, and a spawn onto
the spawning thread. `sched_mix` calls `switchTo` only for the thread it is already on, which
returns at once. A switch to another thread is left out, because every such
switch admits finding 11, even with only the main thread and `w1`, as
`sched_switch` shows. `Scheduler_switchrace.cfg` shows the same race between two workers.

**TcpServer bounds.** Two addresses give two accept loops per start, and
two threads let a loop run while stop's callback runs on the other. The calls
start, start, stop cover a redundant start and a stop with loops parked or
running. Two connections let a loop accept and then park again. Stop followed
by start is finding 18 and is kept to its reproduction cfgs.

### Mutants

Each property of a passing run is shown to catch a plausible bug:

| Mutant | Catches it | Plausible bug |
|--------|------------|---------------|
| `cancelEventUnchecked` | `TypeOK` | `cancelEvent` without its check that the event is still registered triggers an empty slot. |
| `cancelEventKeepMask` | `OneResumer` | `cancelEvent` forgets to clear the mask and the slot. |
| `stoppingBase` | `StopOnlyWhenQuiescent` | IOManager does not override `stopping`. |
| `cancelAllKeepCount` | `ShutdownCompletes` | `cancelAll` does not decrement `m_pendingEventCount`. |
| `CloseKeepCtx` | `NoStaleCtx` | `close` forgets `FdManager::del`. |
| `SetFlNoUser` | `UserViewAgrees` | F_SETFL forgets `setUserNonblock`. |
| `SetsockoptNoDiv` | `TypeOK` of FdManager | The timeval conversion forgets to divide the microseconds. |
| `Complement8NoTrunc` | `TypeOK` of Address | `~` is stored into an int rather than into the byte. |
| `CreateMask8Off` | `MasksMatchReference` | `CreateMask` shifts one bit short. |
| `PostResumeNoDec` | `TypeOK` and `ShutdownCompletes` of Scheduler | `run()` forgets `--m_activeThreadCount` after the swap. |
| `RescheduleNoReady` | `NoTaskLeftBehind` | `run()` sets a READY fiber to HOLD without re-queueing it. |
| `TakeableAnyThread` | `PoolRefined` of Scheduler | The scan drops its affinity check and takes entries pinned to other threads. |
| `NotifyAlwaysCounts` | `NoWaiterWithPermit` | `notify` increments `m_concurrency` even when it wakes a waiter. |
| `LoadUnchecked` | `TypeOK` of Config | A file that fails to parse is still handed to `setValue`. |
| `NotifySwapped` | `MirrorAgrees` | The listener loop passes `(v, m_val)` instead of `(m_val, v)`. |
| `StatUsesNow` | `LoadedMeansApplied` | The reload records the time of the call instead of the file's st_mtime. |
| `PeekFront` | `ConnectionOwnedOnce` | `getConnection` reads the front connection without `pop_front`. |
| `DestroyNoDec` | `TotalCountsLive` | `ReleasePtr` deletes a connection without `--m_total`. |
| `RetireOffByOne` | `TypeOK` and `RequestLimit` of HttpPool | `ReleasePtr` retires only when `m_request > m_maxRequest`. |
| `AcceptNoDequeue` | `TypeOK` of TcpServer | accept takes a connection without removing it from the listen queue. |
| `CheckIgnoresStop` | `AcceptLoopYields` | `startAccept` does not test `m_isStop`. |
| `StopCbNoClose` | `StopEndsLoops` | stop's callback cancels the sockets' events but does not close them, so a woken accept retries on an open socket and parks again. |
| `JoinAlwaysDot` | `WalkMatchesReference` | The join adds a dot after the empty root prefix as well, so every name starts with `.`. |
| `FromStringUnchecked` | `FileSetsRegistered` | `fromString` stores a scalar that `lexical_cast` rejects. |
| `FromStringDump` | `TypeOK` of ConfigKeys | `fromString` stores the YAML dump of a map node. |
| `CountBytesShift` | `PrefixLenInverts` | `CountBytes` shifts the value right instead of clearing its lowest set bit, which counts the bit length. |

## Findings

1. **A fiber can run on two threads at once (code bug).** `Fiber::YieldToHold` (`src/unnamed/part_004:195`) sets `m_state = HOLD` before `swapOut` saves the context. The sequence is:
   1. `addEvent` has already put the fiber in the event slot.
   2. The second worker's `epoll_wait` sees the socket ready and schedules the fiber.
   3. `run()` skips only EXEC fibers, so the second worker swaps in a context that the first worker has not yet saved.
   
   `run()`'s later `m_state = HOLD` (`scheduler.cc:205`) can then overwrite EXEC as well.
2. **A lost wake-up (divergence from the spec).** `IOManager::tickle` (`fd_manager.cc:468`) does nothing while no thread counts as idle. A task scheduled between a worker's empty scan of the queue and its `++m_idleThreadCount` is not signalled. The worker then blocks in `epoll_wait` for up to 3000 ms with work queued. The spec (§5) says the self-pipe prevents exactly this.

3. **ioctl clears the system's nonblocking flag (code bug).** `ioctl(fd, FIONBIO, &0)` (`hook.cc:614`) passes the 0 to the kernel. `fcntl` F_SETFL re-adds the system bit, but `ioctl` does not. A later hooked read on that socket blocks the worker thread.
4. **A close the hooks did not see leaves a stale context (spec gap).** A socket closed on a thread without hooks keeps its FdCtx. The next hooked `socket()` that gets the same number receives it from `get(fd, true)` without `init` (`fd_manager.cc:106`), so the new socket is blocking in the kernel.
5. **A zero socket timeout becomes an immediate timeout (spec gap).** `setsockopt` converts a zero timeval, which the kernel reads as no timeout, to 0 ms (`hook.cc:637`). `do_io` then arms a 0 ms timer and fails with ETIMEDOUT.

6. **networdAddress keeps the host bits (code bug).** `IPv4Address::networdAddress` (`part_003:435`) ANDs the address with `CreateMask(prefix_len)`, which is the host-bits mask, so the network prefix is cleared. `IPv6Address::networdAddress` (`part_003:563`) does the same to its boundary byte. The complement of that mask is needed.
7. **A prefix length of 0 shifts by the full width (code bug).** `CreateMask<uint32_t>(0)` computes `1 << 32` on an `int` (`part_003:20`). On x86 this gives mask 0. `broadcastAddress(0)` then returns the address unchanged, and `subnetMask(0)` returns 255.255.255.255.
8. **IPv6 broadcastAddress(128) writes past the address (code bug).** The index `prefix_len / 8` is 16 (`part_003:551`). That byte is the first byte of `sin6_scope_id`, and OR-ing 0xff into it changes the scope id of the result.

9. **A callable scheduled in the stop window is never run (code bug).** `run()` does `--m_activeThreadCount` (`scheduler.cc:197`) before it re-schedules a READY fiber. The sequence is:
   1. In between, the queue is empty and no thread is active, so `stopping()` holds.
   2. Under use_caller, the main thread's idle fiber returns and its `run()` ends.
   3. The fiber is resumed and schedules a callable for the main thread.
   4. No thread will ever take that callable, `w1` spins in idle, and `stop()` never returns.

   The spec requires that `stopping()` see no worker actively running a task.
10. **A pinned fiber loses its affinity when it yields (divergence from the spec).** After `YieldToReady`, `run()` calls `schedule(ft.fiber)` with the default thread -1 (`scheduler.cc:201`), so another worker can resume it. The spec says a task with an affinity is executed only by that thread and never migrated. `Scheduler_affinity.cfg` reproduces this.
11. **switchTo lets two threads run one fiber (code bug).** `switchTo(thread)` (`scheduler.cc:282`) schedules the current fiber and then calls `YieldToHold`. The target thread's scan takes any entry that is not EXEC. Once HOLD is published, before `swapOut` saves the context, the target swaps the fiber in while the calling thread is still on its stack. This is finding 1 reached through `switchTo` without any I/O. With `use_caller` and a single worker it happens too: `sched_switch` shows the main thread, inside `stop()`, taking the fiber that `w1` is switching away from.

12. **A reload can record a save it never applied (code bug).** `LoadFromConfDir` stores `s_file2modifytime[file] = st_mtime` (`config.cc:95`) before `YAML::LoadFile`, and it keeps the record when the load throws. st_mtime has whole seconds. The sequence is:
    1. A reload reads a half-written file, fails, and records second s.
    2. The editor finishes the save in the same second.
    3. Every later reload compares equal and skips the file.
    4. The variable keeps its old value for good.

    Two complete saves in one second lose the second in the same way.
13. **Two reloads apply their versions out of order (code bug).** `s_mutex` covers only the time check (`config.cc:98`). Two concurrent `LoadFromConfDir` calls load an old and a new version of the file. `setValue` releases its read lock before it takes the write lock, so the old version can be assigned last. The newer time is recorded, so the stale value is never reloaded. The listener calls and the assignments also happen in different orders, so `s_connect_timeout` differs from the variable as well. `Config_reorder.cfg` reproduces this.

14. **The pool never enforces max_alive_time (code bug).** `HttpConnection`'s constructor never sets `m_createTime`, so it keeps its initialiser 0 (`http11_common.h:220`). Both age tests are inverted:
    - `getConnection` discards when `m_createTime + m_maxAliveTime > now_ms` (`http_connection.cc:382`);
    - `ReleasePtr` deletes when the sum is `>=` the current time (line 432).

    With 0, neither test is ever true, and a connection is reused however old it is. If `m_createTime` were set, the inverted tests would discard every young connection instead. `HttpPool_maxalive.cfg` reproduces this.
15. **The pool never enforces max_size (code bug).** `getConnection` connects whenever the list has no usable connection and increments `m_total` without comparing it with `m_maxSize` (`http_connection.cc:419`). Nothing reads `m_maxSize`. `HttpPool_maxsize.cfg` reproduces this.
16. **FiberSemaphore lets two threads run one fiber (code bug).** `FiberSemaphore::wait` appends the fiber to `m_waiters`, releases `m_mutex` and only then calls `YieldToHold` (`part_006:65`). A `notify` on another thread in that window schedules the fiber. Once it is HOLD, that thread's `run()` swaps it in while the waiting thread is still on its stack. This is finding 1 reached through the semaphore, without any I/O. `Scheduler_semrace.cfg` reproduces this.
17. **A read timeout can be lost (code bug).** On EAGAIN, `do_io` adds its condition timer (`hook.cc:171`) before it calls `addEvent` (line 183). If the timeout expires in between, another worker can run the callback. The callback sets `cancelled` to ETIMEDOUT and calls `cancelEvent`, which finds nothing registered. `addEvent` then registers the event and the fiber parks with no timer left. Only data or a close can wake it, although the comment at line 193 says a timeout always wakes it. `ShutdownCompletes` fails because the workers never leave `run()`. `connect_with_timeout` has the same order (lines 356 to 368). `iom_mix` has one worker and cannot show this, because a fiber runs from the timer to `addEvent` with no other thread. `IOManager_losttimeout.cfg` reproduces it, and `IOManager_connectlost.cfg` reproduces it for a connect. There the kernel still ends the connect after its SYN retries, so the wait is bounded by the kernel rather than by `s_connect_timeout`.
18. **start() after stop() gives a spinning or orphaned accept loop (code bug).** `start()` tests only `m_isStop` (`hook.cc:747`). `stop()` sets it and defers the closing of the sockets and `m_socks.clear()` to a callback on the accept worker (line 767). Two things can then go wrong:
    - After the callback has run, `start()` returns true and schedules nothing, because `m_socks` is empty. The loop that `cancelAll` woke sees `m_isStop` false and loops forever on its closed socket, where accept fails at once with EBADF. `TcpServer_restart.cfg` shows `AcceptLoopYields` violated.
    - Before the callback runs, `start()` schedules a second loop on a socket whose first loop is still parked in accept. The second loop's `addEvent(READ)` hits `SYLAR_ASSERT(!(fd_ctx->events & event))` (`fd_manager.cc:304`). With `NDEBUG` it overwrites the first fiber's event context, so that fiber is never resumed. `TcpServer_restartrace.cfg` shows `NoDoubleRegistration` violated.

19. **A duplicated socket changes the kernel flag behind its context (spec gap).** `fcntl` passes `F_DUPFD` through (`hook.cc:538` to `552`), as the spec says for other commands, and `dup`/`dup2` are not hooked. The copy shares the socket's open file description, and with it O_NONBLOCK, but has no FdCtx. `fcntl(copy, F_SETFL, 0)` finds no context and clears the kernel flag. The original socket's FdCtx still says `sysNonblock`, so a hooked read on it blocks the worker thread. FdCtx keeps per fd number what the kernel keeps per open file description. `FdManager_dup.cfg` shows `KernelNonblocking` violated.

20. **A reader woken by close retries on whatever socket now has its number (divergence from the spec).** `close` wakes a fiber parked in `do_io` through `cancelAll` (`hook.cc:491`). `cancelAll` sets no cancellation in the fiber's `timer_info`, so `do_io` takes `goto retry` (line 208) and calls the raw read on the same fd number. The `close_f` that follows frees the number. A `socket()` or `accept()` in another fiber (lines 282 to 297) can take it before the woken fiber runs. The reader then reads from that socket, or parks on it, which is worse. The spec (section 8, property 6) says a coroutine parked on a closed fd is fired with a cancellation. `IOManager_fdreuse.cfg` shows `ReadsOwnSocket` violated.

21. **Lookup rejects names with the digit 9 (code bug).** Lookup's comment says a name outside `[0-9a-z_.]` throws. The set it passes to `find_first_not_of` is `"abcdefghikjlmnopqrstuvwxyz._012345678"`, which has no 9 (`hook.cc:1334`). `Lookup("b9", ...)` throws `std::invalid_argument`, and at static initialisation that ends the program. `ListAllMember` uses the same set (`config.cc:35`), so a file key with a 9 is dropped with its whole subtree. `ConfigKeys_nine.cfg` shows `DocumentedNamesAccepted` violated.

22. **Uppercase keys never reach their variable (code bug).** `LoadFromYaml` lowercases each key before `LookupBase` (`config.cc:59`). The comment above `ListAllMember` gives `A: B: 10` as the document form of `"A.B"`. `ListAllMember` tests the raw prefix first (line 35), and an uppercase letter fails the test. The key is logged as invalid and dropped with its subtree, so the `tolower` never sees an uppercase letter. `ConfigKeys_case.cfg` shows `KeysCaseInsensitive` violated.

## Plan

The project is built in this order:

1. **Done:** `IOManager` (above).
2. **Done:** `FdManager` (above). **Done:** fd number reuse in IOManager (`Reopen`, finding 20).
3. **Done:** `Address` (above).
4. **Done:** `Scheduler` and its abstract specification `TaskPool` (above). `IOManager.tla` models its run loop separately.
5. **Done:** `do_io` with repeated waits, through `Spurious`. This exposed finding 17. **Done:** `connect_with_timeout`.
6. **Done:** `Config` (above), covering the reload path and ConfigVar over the RWMutex.
7. **Done:** `TcpServer` (above), which exposed finding 18. **Done:** `HttpConnectionPool` and FiberSemaphore inside `Scheduler.tla` (above).

## Not modelled

- **TimerManager internals.** `timer.cc` is absent. Timers are modelled from the spec as armed, then due.
- **Thread, Semaphore, Mutex, Spinlock and CASLock.** Each section such a lock protects is one atomic action, which models the lock. Only the RWMutex's shared read side is modelled step by step, in `Config.tla`. `Thread`'s start-up handshake (`thread.cc`) is not modelled: its semaphore only makes `m_id` visible before the constructor returns, and the scheduler uses the ids it collects (`m_threadIds`) for `toString` only. `FiberSemaphore::reset` writes the count without the lock, and nothing calls it.
- **Config listeners and conversions.** `addListener`/`delListener` are called only during static initialisation. `toString`/`Visit` are read-only. The `LexicalCast` specialisations convert YAML text to containers through yaml-cpp's parser and emitter, which are not in the repository. The models abstract a conversion to "a value or unparseable". The YAML walk and the name checks are modelled in `ConfigKeys.tla`.
- **Log and the HTTP parser.** These are string processing or generated code. `log.h` holds only declarations and macros.
- **`fiber.h` and `servlet.h`.** These are declarations only. The fiber code they declare is in `part_004` and is modelled; the servlets only format responses.
- **`HttpServer::handleClient` and `HttpSession::recvRequest`.** The request parser they drive (`HttpRequestParser::execute`) is not in the repository, and HTTP lies outside the spec's scope. What is left is a fixed sequence of socket calls per connection.
- **HTTP sessions, servlets and `HttpConnection::DoRequest`.** Each does a fixed sequence of socket calls and shares no state with other fibers. The pool's `doGet`/`doPost` only build a request for `doRequest`.
- **Socket.** Only `socket.h` (`part_002`) is present, and `socket.cc` is not. `TcpServer.tla` models what the server relies on: accept returns a client or fails on a closed socket, and `close`/`cancelAll` wake a parked accept.
- **Address lookup and formatting.** `Lookup`, the getifaddrs walk, `Create` and `toString` are library I/O and formatting. Only the prefix arithmetic is modelled.
- **Memory management of fibers.** Fiber lifetime through shared_ptr is not modelled; `cb_fiber` reuse is treated as a new fiber per task.
