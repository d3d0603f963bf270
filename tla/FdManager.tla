----------------------------- MODULE FdManager -----------------------------
(***************************************************************************)
(* The per-fd context table of sylar, FdManager / FdCtx (first half of    *)
(* src/sylar/fd_manager.cc), and the hooked calls that create, change and *)
(* drop contexts: socket, close, fcntl, ioctl and setsockopt              *)
(* (src/sylar/hook.cc), against the kernel's fd table.                    *)
(*                                                                         *)
(* socket, close and setsockopt act through the context only on a thread  *)
(* with hooks enabled (a scheduler worker); fcntl and ioctl do not test   *)
(* the hook flag.  The kernel hands out the lowest free fd number.        *)
(***************************************************************************)
EXTENDS Naturals, Integers, FiniteSets, FiniteSetsExt

CONSTANTS
    Fds,       \* the fd numbers, a finite set of naturals
    Opts,      \* subset of {"RCV", "SND"}: SO_RCVTIMEO, SO_SNDTIMEO
    TimeVals,  \* timevals a caller passes to setsockopt
    NbArgs,    \* O_NONBLOCK values callers pass to fcntl F_SETFL
    IoctlArgs, \* values callers pass to ioctl FIONBIO
    Hooked,    \* t_hook_enable of the calling threads
    MaxGen     \* how many times the kernel may hand out each fd number

ASSUME /\ Fds \subseteq Nat /\ Fds # {}
       /\ Opts \subseteq {"RCV", "SND"}
       /\ TimeVals \subseteq [sec : Nat, usec : 0..999999]
       /\ NbArgs \subseteq BOOLEAN /\ IoctlArgs \subseteq BOOLEAN
       /\ Hooked \subseteq BOOLEAN /\ Hooked # {}
       /\ MaxGen \in Nat \ {0}

VARIABLES
    kopen,     \* the kernel fd is open
    kind,      \* what the kernel fd is: "sock" or "file"
    knb,       \* the kernel fd's O_NONBLOCK flag
    ktimeo,    \* the kernel socket's SO_RCVTIMEO / SO_SNDTIMEO timeval
    gen,       \* how many times the kernel has handed out the number
    ctx,       \* FdManager::m_datas[fd]: an FdCtx record or NoCtx
    userSet,   \* the O_NONBLOCK the user last asked for on the open fd
    kfile      \* the kernel open file description the fd refers to

vars == <<kopen, kind, knb, ktimeo, gen, ctx, userSet, kfile>>

\* The uint64_t -1 sentinel of FdCtx's timeouts: no timeout.
NoTimeout == -1
ZeroTv == [sec |-> 0, usec |-> 0]
NoCtx == [none |-> TRUE]

\* setsockopt's conversion: v->tv_sec * 1000 + v->tv_usec / 1000.
TvToMs(tv) == tv.sec * 1000 + tv.usec \div 1000

Ms == {NoTimeout} \cup {TvToMs(tv) : tv \in TimeVals}

Ctxs == [isInit : BOOLEAN, isSocket : BOOLEAN, sysNb : BOOLEAN,
         userNb : BOOLEAN, isClosed : BOOLEAN, to : [Opts -> Ms],
         gen : 0..MaxGen]

HasCtx(fd) == ctx[fd] # NoCtx

(* The fd number the kernel's next socket() or open() returns.            *)
LowestFree == Min({fd \in Fds : ~kopen[fd]})

CanAllocate ==
    /\ \E fd \in Fds : ~kopen[fd]
    /\ gen[LowestFree] < MaxGen

(* The kernel hands out fd as a fresh descriptor of kind k with no        *)
(* timeouts; nb is its O_NONBLOCK once the call returns.                  *)
Allocate(fd, k, nb) ==
    /\ kopen' = [kopen EXCEPT ![fd] = TRUE]
    /\ kind' = [kind EXCEPT ![fd] = k]
    /\ knb' = [knb EXCEPT ![fd] = nb]
    /\ ktimeo' = [ktimeo EXCEPT ![fd] = [o \in Opts |-> ZeroTv]]
    /\ gen' = [gen EXCEPT ![fd] = @ + 1]
    /\ userSet' = [userSet EXCEPT ![fd] = FALSE]
    /\ kfile' = [kfile EXCEPT ![fd] = <<fd, gen[fd] + 1>>]

(* FdCtx(fd) and FdCtx::init on an open fd of kind k: fstat succeeds, a  *)
(* socket is made nonblocking by the system, the user's flag is clear,    *)
(* and both timeouts are the -1 sentinel.                                  *)
InitCtx(fd, k) ==
    [isInit |-> TRUE, isSocket |-> k = "sock", sysNb |-> k = "sock",
     userNb |-> FALSE, isClosed |-> FALSE, to |-> [o \in Opts |-> NoTimeout],
     gen |-> gen'[fd]]

(* FdManager::get(fd, true): an existing context is returned as it is;    *)
(* otherwise a new FdCtx is stored.  Given the kernel's state after the   *)
(* allocation: open and of kind k.                                         *)
Materialize(fd, k) ==
    IF HasCtx(fd)
    THEN UNCHANGED ctx
    ELSE ctx' = [ctx EXCEPT ![fd] = InitCtx(fd, k)]

-----------------------------------------------------------------------------
(* socket(): socket_f, then, with hooks, FdManager::get(fd, true).        *)
Socket(hook) ==
    /\ CanAllocate
    /\ LET fd == LowestFree IN
       \* init() sets O_NONBLOCK only when get() makes a new FdCtx
       /\ Allocate(fd, "sock", hook /\ ~HasCtx(fd))
       /\ IF hook THEN Materialize(fd, "sock") ELSE UNCHANGED ctx

(* accept(s): do_io's accept on an open socket s (accept_f itself without *)
(* hooks), whose new fd is blocking in the kernel; then get(fd, true)      *)
(* whatever the hook flag.                                                 *)
Accept ==
    /\ \E s \in Fds : kopen[s] /\ kind[s] = "sock"
    /\ CanAllocate
    /\ LET fd == LowestFree IN
       /\ Allocate(fd, "sock", ~HasCtx(fd))
       /\ Materialize(fd, "sock")

(* open() of a regular file: not hooked, so no context is made.           *)
Open ==
    /\ CanAllocate
    /\ Allocate(LowestFree, "file", FALSE)
    /\ UNCHANGED ctx

(* Mutant: close without FdManager::del.                                  *)
CloseKeepCtx(fd, hook) ==
    /\ kopen' = [kopen EXCEPT ![fd] = FALSE]
    /\ UNCHANGED <<ctx, kind, knb, ktimeo, gen, userSet, kfile>>

(* close(): with hooks and a context, cancelAll (IOManager) and            *)
(* FdManager::del drop it; then close_f, which fails on a closed fd.      *)
Close(fd, hook) ==
    /\ kopen' = [kopen EXCEPT ![fd] = FALSE]
    /\ ctx' = IF hook THEN [ctx EXCEPT ![fd] = NoCtx] ELSE ctx
    /\ UNCHANGED <<kind, knb, ktimeo, gen, userSet, kfile>>

(* The open fds that share fd's open file description (fd itself, and the *)
(* copies dup made): O_NONBLOCK and the socket options belong to it.      *)
Sharing(fd) == {g \in Fds : kopen[g] /\ kfile[g] = kfile[fd]}

(* f with value v at every fd sharing fd's description.                   *)
SetShared(f, fd, v) == [g \in Fds |-> IF g \in Sharing(fd) THEN v ELSE f[g]]

(* The context fcntl and ioctl act through: present, not closed, a socket. *)
SockCtx(fd) == HasCtx(fd) /\ ~ctx[fd].isClosed /\ ctx[fd].isSocket

(* Mutant: F_SETFL without ctx->setUserNonblock.                         *)
SetFlNoUser(fd, nb) ==
    /\ IF kopen[fd]
       THEN /\ knb' = SetShared(knb, fd, IF SockCtx(fd) THEN ctx[fd].sysNb ELSE nb)
            /\ userSet' = SetShared(userSet, fd, nb)
       ELSE UNCHANGED <<knb, userSet>>
    /\ UNCHANGED <<ctx, kopen, kind, ktimeo, gen, kfile>>

(* fcntl(fd, F_SETFL, arg): through a socket context, record the user's   *)
(* O_NONBLOCK and pass the system's instead; then fcntl_f, which changes  *)
(* an open fd only.                                                        *)
SetFl(fd, nb) ==
    /\ IF SockCtx(fd)
       THEN ctx' = [ctx EXCEPT ![fd].userNb = nb]
       ELSE UNCHANGED ctx
    /\ IF kopen[fd]
       THEN /\ knb' = SetShared(knb, fd, IF SockCtx(fd) THEN ctx[fd].sysNb ELSE nb)
            /\ userSet' = SetShared(userSet, fd, nb)
       ELSE UNCHANGED <<knb, userSet>>
    /\ UNCHANGED <<kopen, kind, ktimeo, gen, kfile>>

(* fcntl(fd, F_GETFL): the O_NONBLOCK bit of what it returns; through a   *)
(* socket context it shows the user's flag, not the kernel's.              *)
GetFlNonblock(fd) == IF SockCtx(fd) THEN ctx[fd].userNb ELSE knb[fd]

(* ioctl(fd, FIONBIO, &v): through a socket context record v as the       *)
(* user's flag; then ioctl_f with v itself.                                *)
Ioctl(fd, nb) ==
    /\ IF SockCtx(fd)
       THEN ctx' = [ctx EXCEPT ![fd].userNb = nb]
       ELSE UNCHANGED ctx
    /\ IF kopen[fd]
       THEN /\ knb' = SetShared(knb, fd, nb)
            /\ userSet' = SetShared(userSet, fd, nb)
       ELSE UNCHANGED <<knb, userSet>>
    /\ UNCHANGED <<kopen, kind, ktimeo, gen, kfile>>

(* Mutant: the timeval converted without dividing the microseconds.      *)
SetsockoptNoDiv(fd, o, tv, hook) ==
    /\ IF hook /\ HasCtx(fd)
       THEN ctx' = [ctx EXCEPT ![fd].to[o] = tv.sec * 1000 + tv.usec]
       ELSE UNCHANGED ctx
    /\ IF kopen[fd] /\ kind[fd] = "sock"
       THEN ktimeo' = SetShared(ktimeo, fd, [ktimeo[fd] EXCEPT ![o] = tv])
       ELSE UNCHANGED ktimeo
    /\ UNCHANGED <<kopen, kind, knb, gen, userSet, kfile>>

(* setsockopt(fd, SOL_SOCKET, SO_RCVTIMEO / SO_SNDTIMEO, tv): with hooks  *)
(* and a context, FdCtx::setTimeout(ms of tv); then setsockopt_f, which   *)
(* sets an open socket's option.                                           *)
Setsockopt(fd, o, tv, hook) ==
    /\ IF hook /\ HasCtx(fd)
       THEN ctx' = [ctx EXCEPT ![fd].to[o] = TvToMs(tv)]
       ELSE UNCHANGED ctx
    /\ IF kopen[fd] /\ kind[fd] = "sock"
       THEN ktimeo' = SetShared(ktimeo, fd, [ktimeo[fd] EXCEPT ![o] = tv])
       ELSE UNCHANGED ktimeo
    /\ UNCHANGED <<kopen, kind, knb, gen, userSet, kfile>>

-----------------------------------------------------------------------------
(* FdManager(): an empty table; the kernel has no fd of ours open.        *)
Init ==
    /\ kopen = [fd \in Fds |-> FALSE]
    /\ kind = [fd \in Fds |-> "file"]
    /\ knb = [fd \in Fds |-> FALSE]
    /\ ktimeo = [fd \in Fds |-> [o \in Opts |-> ZeroTv]]
    /\ gen = [fd \in Fds |-> 0]
    /\ ctx = [fd \in Fds |-> NoCtx]
    /\ userSet = [fd \in Fds |-> FALSE]
    /\ kfile = [fd \in Fds |-> <<fd, 0>>]

Next ==
    \/ \E hook \in Hooked : Socket(hook)
    \/ Accept
    \/ Open
    \/ \E fd \in Fds, hook \in Hooked : Close(fd, hook)
    \/ \E fd \in Fds, nb \in NbArgs : SetFl(fd, nb)
    \/ \E fd \in Fds, nb \in IoctlArgs : Ioctl(fd, nb)
    \/ \E fd \in Fds, o \in Opts, tv \in TimeVals, hook \in Hooked :
          Setsockopt(fd, o, tv, hook)

Spec == Init /\ [][Next]_vars

(* fcntl(fd, F_DUPFD, 0) is passed through to fcntl_f: the kernel gives   *)
(* the lowest free number a new fd on the same open file description, and *)
(* no context is made for it.  dup and dup2 are not hooked and do the      *)
(* same.                                                                   *)
DupFd(fd) ==
    /\ kopen[fd] /\ CanAllocate
    /\ LET n == LowestFree IN
       /\ kopen' = [kopen EXCEPT ![n] = TRUE]
       /\ kind' = [kind EXCEPT ![n] = kind[fd]]
       /\ knb' = [knb EXCEPT ![n] = knb[fd]]
       /\ ktimeo' = [ktimeo EXCEPT ![n] = ktimeo[fd]]
       /\ gen' = [gen EXCEPT ![n] = @ + 1]
       /\ userSet' = [userSet EXCEPT ![n] = userSet[fd]]
       /\ kfile' = [kfile EXCEPT ![n] = kfile[fd]]
    /\ UNCHANGED ctx

(* The same calls with descriptors duplicated as well.                    *)
DupSpec == Init /\ [][Next \/ \E fd \in Fds : DupFd(fd)]_vars
-----------------------------------------------------------------------------
TypeOK ==
    /\ kopen \in [Fds -> BOOLEAN]
    /\ kind \in [Fds -> {"sock", "file"}]
    /\ knb \in [Fds -> BOOLEAN]
    /\ ktimeo \in [Fds -> [Opts -> TimeVals \cup {ZeroTv}]]
    /\ gen \in [Fds -> 0..MaxGen]
    /\ ctx \in [Fds -> Ctxs \cup {NoCtx}]
    /\ userSet \in [Fds -> BOOLEAN]
    /\ kfile \in [Fds -> Fds \X (0..MaxGen)]

(* The context table tracks the kernel: a context exists only for an open *)
(* fd and was made for the descriptor now behind that number, never for  *)
(* an earlier one that was closed and whose number was handed out again. *)
NoStaleCtx ==
    \A fd \in Fds : HasCtx(fd) => kopen[fd] /\ ctx[fd].gen = gen[fd]

(* fcntl(F_GETFL) on an open socket reports the O_NONBLOCK the user last  *)
(* set with fcntl or ioctl, or blocking if the user never set it (spec:   *)
(* hide the system-imposed bit).                                           *)
UserViewAgrees ==
    \A fd \in Fds : kopen[fd] /\ kind[fd] = "sock" => GetFlNonblock(fd) = userSet[fd]

(* A socket whose context says the system made it nonblocking is          *)
(* nonblocking in the kernel (spec 4.4: the hook layer treats it as       *)
(* blocking for the user while the kernel is nonblocking), so do_io's raw *)
(* call returns EAGAIN instead of blocking the worker thread.              *)
KernelNonblocking ==
    \A fd \in Fds : kopen[fd] /\ HasCtx(fd) /\ ctx[fd].sysNb => knb[fd]

(* A socket timeout the kernel would treat as none (a zero timeval) is    *)
(* no timeout to do_io either: the context holds the -1 sentinel exactly  *)
(* when the kernel's timeval is zero.                                      *)
ZeroMeansNoTimeout ==
    \A fd \in Fds, o \in Opts :
        (kopen[fd] /\ kind[fd] = "sock" /\ HasCtx(fd) /\ ctx[fd].gen = gen[fd])
            => (ctx[fd].to[o] = NoTimeout <=> ktimeo[fd][o] = ZeroTv)
=============================================================================
