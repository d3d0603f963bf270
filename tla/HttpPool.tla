------------------------------ MODULE HttpPool ------------------------------
(***************************************************************************)
(* sylar's HTTP client connection pool (HttpConnectionPool in              *)
(* src/sylar/http/http_connection.cc): client fibers call doRequest, which *)
(* takes an idle connection from the pool's std::list (or connects a new   *)
(* one), sends the request, reads the response, and hands the connection  *)
(* back through the shared_ptr deleter ReleasePtr.  The server may close   *)
(* any connection at any time; the clock is GetCurrentMS.                  *)
(*                                                                         *)
(* The list is guarded by m_mutex; m_total is an atomic adjusted outside  *)
(* it; a connection's m_request and socket are touched only by the fiber   *)
(* holding it.  A connection is an identity from Conns; the URI, headers,  *)
(* and bodies are left out.                                                *)
(***************************************************************************)
EXTENDS Naturals, Sequences, FiniteSets, SequencesExt

CONSTANTS
    Clients,     \* fibers calling doRequest
    Conns,       \* identities of the HttpConnection objects ever created
    None,        \* no connection
    MaxSize,     \* m_maxSize
    MaxAlive,    \* m_maxAliveTime (ms)
    MaxRequest,  \* m_maxRequest
    Epoch,       \* GetCurrentMS() when the run starts
    MaxTime,     \* bound on the clock's advance
    MaxCalls     \* bound on each client's doRequest calls

ASSUME /\ None \notin Conns
       /\ {MaxSize, MaxAlive, MaxRequest, Epoch, MaxTime, MaxCalls} \subseteq Nat
       /\ Cardinality(Conns) >= Cardinality(Clients) * MaxCalls
       \* GetCurrentMS counts from 1970: it exceeds any uint32_t max_alive_time
       /\ Epoch > MaxAlive

VARIABLES
    conns,     \* m_conns: the idle connections, front first
    total,     \* m_total
    status,    \* status[c]: "unborn", "live" or "deleted"
    sock,      \* sock[c]: "open", "peerclosed" (FIN received) or "closed"
    request,   \* request[c]: m_request
    born,      \* born[c]: the time c connected (history, not in the code)
    now,       \* GetCurrentMS()
    pc,        \* where each client is in doRequest
    hold,      \* the connection it holds (the HttpConnection::ptr conn)
    invalid,   \* getConnection's invalid_conns
    calls      \* its completed doRequest calls

vars == <<conns, total, status, sock, request, born, now, pc, hold, invalid,
          calls>>
connVars == <<status, sock, request, born>>

Live == {c \in Conns : status[c] = "live"}

-----------------------------------------------------------------------------
(* HttpConnection's constructor never sets m_createTime, which keeps its   *)
(* in-class initialiser 0 (http11_common.h).                               *)
CreateTime(c) == 0

(* Socket::isConnected: true until the local side closes the socket.      *)
IsConnected(c) == sock[c] # "closed"

(* getConnection's loop keeps a connection that is connected and whose    *)
(* m_createTime + m_maxAliveTime is not above now_ms.                      *)
Usable(c, t) == IsConnected(c) /\ ~(CreateTime(c) + MaxAlive > t)

(* The end of one doRequest: the HttpResult is returned.                   *)
Return(cl) == /\ pc' = [pc EXCEPT ![cl] = "idle"]
              /\ hold' = [hold EXCEPT ![cl] = None]
              /\ calls' = [calls EXCEPT ![cl] = @ + 1]

(* The index of the connection the loop takes: the first usable one, or 0 *)
(* when every connection in the list is unusable.                          *)
FirstUsable(t) == SelectInSeq(conns, LAMBDA c : Usable(c, t))

(* Mutant: the loop reads the front connection but leaves it in the list.  *)
PeekFront(k) == IF k = 0 THEN <<>> ELSE SubSeq(conns, k, Len(conns))

(* What the loop's pop_front calls leave: everything after index k, or an  *)
(* empty list when the loop ran to the end.                                *)
PopFront(k) == IF k = 0 THEN <<>> ELSE SubSeq(conns, k + 1, Len(conns))

(* getConnection, under m_mutex: pop connections off the front, setting     *)
(* aside the unusable ones, until a usable one is popped or the list is    *)
(* empty.  now_ms was read just before the lock.                           *)
Scan(cl) ==
    /\ pc[cl] = "idle" /\ calls[cl] < MaxCalls
    /\ LET k == FirstUsable(now)
       IN /\ hold' = [hold EXCEPT ![cl] = IF k = 0 THEN None ELSE conns[k]]
          /\ invalid' = [invalid EXCEPT ![cl] =
                           ToSet(IF k = 0 THEN conns ELSE SubSeq(conns, 1, k - 1))]
          /\ conns' = PopFront(k)
    /\ pc' = [pc EXCEPT ![cl] = "unlocked"]
    /\ UNCHANGED <<total, connVars, now, calls>>

(* After unlocking: delete the set-aside connections and subtract their    *)
(* number from m_total; go on with the popped one, or connect a new one.   *)
Discard(cl) ==
    /\ pc[cl] = "unlocked"
    /\ status' = [c \in Conns |-> IF c \in invalid[cl] THEN "deleted"
                                                       ELSE status[c]]
    /\ total' = total - Cardinality(invalid[cl])
    /\ invalid' = [invalid EXCEPT ![cl] = {}]
    /\ pc' = [pc EXCEPT ![cl] = IF hold[cl] = None THEN "connect" ELSE "send"]
    /\ UNCHANGED <<conns, sock, request, born, now, hold, calls>>

(* No connection popped: LookupAnyIPAddress, Socket::CreateTCP and         *)
(* connect may each fail, and getConnection returns nullptr, which         *)
(* doRequest returns as POOL_GET_CONNECTION.  Otherwise a new              *)
(* HttpConnection owns the socket and m_total is incremented; m_maxSize    *)
(* is not consulted.                                                       *)
Connect(cl) ==
    /\ pc[cl] = "connect"
    /\ \/ /\ Return(cl)
          /\ UNCHANGED <<total, connVars>>
       \/ LET c == CHOOSE d \in Conns : status[d] = "unborn" IN
            /\ status' = [status EXCEPT ![c] = "live"]
            /\ sock' = [sock EXCEPT ![c] = "open"]
            /\ request' = [request EXCEPT ![c] = 0]
            /\ born' = [born EXCEPT ![c] = now]
            /\ total' = total + 1
            /\ hold' = [hold EXCEPT ![cl] = c]
            /\ pc' = [pc EXCEPT ![cl] = "send"]
            /\ UNCHANGED calls
    /\ UNCHANGED <<conns, now, invalid>>
(* doRequest: sendRequest (writeFixSize) succeeds on an open socket and on  *)
(* one whose peer has closed, while the kernel still buffers; on the       *)
(* latter it may fail, and doRequest returns SEND_SOCKET_ERROR, releasing  *)
(* the connection without closing it.  doRequest's test of getSocket()     *)
(* is left out: a pooled connection is built on the socket it connected.   *)
Send(cl) ==
    /\ pc[cl] = "send"
    /\ \/ pc' = [pc EXCEPT ![cl] = "recv"]
       \/ /\ sock[hold[cl]] = "peerclosed"
          /\ pc' = [pc EXCEPT ![cl] = "release"]
    /\ UNCHANGED <<conns, total, connVars, now, hold, invalid, calls>>

(* recvResponse: a full response keeps the socket; a timeout or an error on *)
(* an open socket, and the EOF of a closed peer, make it call close() and   *)
(* return nullptr.  Either way doRequest returns and releases conn.        *)
Recv(cl) ==
    /\ pc[cl] = "recv"
    /\ \/ sock[hold[cl]] = "open" /\ UNCHANGED sock
       \/ sock' = [sock EXCEPT ![hold[cl]] = "closed"]
    /\ pc' = [pc EXCEPT ![cl] = "release"]
    /\ UNCHANGED <<conns, total, status, request, born, now, hold, invalid,
                   calls>>

(* Mutant: a connection is retired only after more than m_maxRequest.     *)
RetireOffByOne(c, r, t) ==
    ~IsConnected(c) \/ CreateTime(c) + MaxAlive >= t \/ r > MaxRequest

(* ReleasePtr's test on the connection after its r-th request at time t.   *)
Retire(c, r, t) ==
    ~IsConnected(c) \/ CreateTime(c) + MaxAlive >= t \/ r >= MaxRequest

(* Mutant: the connection is deleted but m_total is not decremented.      *)
DestroyNoDec(c) ==
    /\ status' = [status EXCEPT ![c] = "deleted"]
    /\ UNCHANGED total

(* ReleasePtr: delete ptr; --pool->m_total.                                *)
Destroy(c) ==
    /\ status' = [status EXCEPT ![c] = "deleted"]
    /\ total' = total - 1

(* ReleasePtr, run by the shared_ptr when doRequest returns: count the     *)
(* request; retire the connection, or push it to the back of the list     *)
(* under m_mutex.                                                          *)
Release(cl) ==
    /\ pc[cl] = "release"
    /\ LET c == hold[cl]
           r == request[c] + 1
       IN /\ request' = [request EXCEPT ![c] = r]
          /\ IF Retire(c, r, now)
             THEN Destroy(c) /\ UNCHANGED conns
             ELSE conns' = Append(conns, c) /\ UNCHANGED <<status, total>>
    /\ Return(cl)
    /\ UNCHANGED <<sock, born, now, invalid>>

-----------------------------------------------------------------------------
(* The server closes a connection, idle or in use.                         *)
PeerClose(c) ==
    /\ status[c] = "live" /\ sock[c] = "open"
    /\ sock' = [sock EXCEPT ![c] = "peerclosed"]
    /\ UNCHANGED <<conns, total, status, request, born, now, pc, hold,
                   invalid, calls>>

Tick ==
    /\ now < Epoch + MaxTime
    /\ now' = now + 1
    /\ UNCHANGED <<conns, total, connVars, pc, hold, invalid, calls>>

(* Every client has made its calls.                                        *)
Finished ==
    /\ \A cl \in Clients : pc[cl] = "idle" /\ calls[cl] = MaxCalls
    /\ UNCHANGED vars

(* HttpConnectionPool::Create has just built the pool: no connections.     *)
Init ==
    /\ conns = <<>> /\ total = 0
    /\ status = [c \in Conns |-> "unborn"]
    /\ sock = [c \in Conns |-> "closed"]
    /\ request = [c \in Conns |-> 0]
    /\ born = [c \in Conns |-> Epoch]
    /\ now = Epoch
    /\ pc = [cl \in Clients |-> "idle"]
    /\ hold = [cl \in Clients |-> None]
    /\ invalid = [cl \in Clients |-> {}]
    /\ calls = [cl \in Clients |-> 0]

ClientStep(cl) ==
    Scan(cl) \/ Discard(cl) \/ Connect(cl) \/ Send(cl) \/ Recv(cl) \/ Release(cl)

Next ==
    \/ \E cl \in Clients : ClientStep(cl)
    \/ \E c \in Conns : PeerClose(c)
    \/ Tick
    \/ Finished

Spec == Init /\ [][Next]_vars

-----------------------------------------------------------------------------
TypeOK ==
    /\ conns \in Seq(Conns) /\ total \in Int
    /\ status \in [Conns -> {"unborn", "live", "deleted"}]
    /\ sock \in [Conns -> {"open", "peerclosed", "closed"}]
    /\ request \in [Conns -> 0..MaxRequest]
    /\ born \in [Conns -> Epoch..Epoch + MaxTime]
    /\ now \in Epoch..Epoch + MaxTime
    /\ pc \in [Clients -> {"idle", "unlocked", "connect", "send", "recv",
                            "release"}]
    /\ hold \in [Clients -> Conns \cup {None}]
    /\ invalid \in [Clients -> SUBSET Conns]
    /\ calls \in [Clients -> 0..MaxCalls]

(* Where a connection is: its copies in m_conns, the fibers whose conn it  *)
(* is, and the fibers about to delete it from their invalid_conns.         *)
Places(c) ==
    Cardinality({i \in 1..Len(conns) : conns[i] = c})
    + Cardinality({cl \in Clients : hold[cl] = c})
    + Cardinality({cl \in Clients : c \in invalid[cl]})

(* getConnection and ReleasePtr hand each connection over whole: across   *)
(* every interleaving of the fibers' pops, pushes and unlocked deletes, a  *)
(* live connection is in exactly one place (never in use by two requests, *)
(* never both idle and in use), and a deleted one is in none.              *)
ConnectionOwnedOnce ==
    \A c \in Conns : Places(c) = IF status[c] = "live" THEN 1 ELSE 0

(* m_total, adjusted outside m_mutex by getConnection's new and its        *)
(* unlocked deletes and by ReleasePtr's delete, counts the connections    *)
(* that exist.                                                             *)
TotalCountsLive == total = Cardinality(Live)

(* ReleasePtr retires a connection at its m_maxRequest-th request: no live *)
(* connection has served m_maxRequest requests.                           *)
RequestLimit == \A c \in Live : request[c] < MaxRequest

(* The pool's max_alive_time: getConnection never hands out a connection   *)
(* that has lived longer than m_maxAliveTime ms.                          *)
NoExpiredReuse ==
    [][\A cl \in Clients :
         (pc[cl] = "idle" /\ pc'[cl] = "unlocked" /\ hold'[cl] # None)
            => now - born[hold'[cl]] <= MaxAlive]_vars

(* The pool's max_size: the pool never owns more than m_maxSize            *)
(* connections.                                                            *)
PoolBounded == total <= MaxSize
=============================================================================
