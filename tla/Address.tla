------------------------------ MODULE Address ------------------------------
(***************************************************************************)
(* The prefix arithmetic of sylar's IP addresses (src/unnamed/part_003):  *)
(* CreateMask, CountBytes, and broadcastAddress, networdAddress and       *)
(* subnetMask of IPv4Address and IPv6Address, with the prefix length      *)
(* Address::GetInterfaceAddresses computes from an IPv6 netmask.          *)
(*                                                                         *)
(* Addresses are the bytes of the sockaddr in memory, network order: a    *)
(* sin_addr is 4 bytes; a sockaddr_in6 is its 16 address bytes followed   *)
(* by the 4 bytes of sin6_scope_id.  A uint32_t is the 4 bytes it has in  *)
(* memory on a little-endian host.  Each action is one call; the state is *)
(* the last call and its result.                                           *)
(***************************************************************************)
EXTENDS Naturals, Integers, Sequences, SequencesExt, Bitwise

CONSTANTS
    V4Addrs,       \* sin_addr values, as 4 bytes
    V6Addrs,       \* sockaddr_in6 values: [addr |-> 16 bytes, scope |-> 4 bytes]
    V4Prefixes,    \* prefix lengths passed to the IPv4 methods
    V6Prefixes,    \* prefix lengths passed to the IPv6 methods
    ShiftAtWidth,  \* what 1 << 32 on an int yields in the build: UB
    Null           \* the nullptr an IPv4 method returns

Bytes == 0..255

ASSUME /\ V4Addrs \subseteq [1..4 -> Bytes]
       /\ V6Addrs \subseteq [addr : [1..16 -> Bytes], scope : [1..4 -> Bytes]]
       /\ V4Prefixes \subseteq 0..33
       /\ V6Prefixes \subseteq 0..128
       /\ ShiftAtWidth \subseteq {0, 1} /\ ShiftAtWidth # {}

VARIABLES
    call,   \* the last call: its method and arguments
    out     \* what it returned

vars == <<call, out>>

-----------------------------------------------------------------------------
(* 2^n - 1 for n <= 31, without leaving TLC's 32-bit integers.            *)
RECURSIVE Ones(_)
Ones(n) == IF n = 0 THEN 0 ELSE 2 * Ones(n - 1) + 1

(* The 4 bytes of a uint32_t value v < 2^31 in little-endian memory.      *)
LEBytes(v) == [k \in 1..4 |-> (v \div 256^(k - 1)) % 256]

(* byteswapOnLittleEndian on a little-endian host: bswap, which reverses  *)
(* the value's bytes in memory.                                            *)
ByteswapOnLittleEndian(b) == Reverse(b)

(* Mutant: ~b stored without the truncation to a byte.                    *)
Complement8NoTrunc(b) == -b - 1

(* ~ on an integer stored back into a byte.                               *)
Complement8(b) == 255 - b

(* Mutant: the shift one bit short.                                        *)
CreateMask8Off(bits) == Ones(7 - bits) % 256

(* CreateMask<uint8_t>(bits): (1 << (8 - bits)) - 1 on int, truncated to  *)
(* uint8_t: the low 8 - bits bits set.  bits is prefix_len % 8, so < 8.   *)
CreateMask8(bits) == Ones(8 - bits) % 256

(* CreateMask<uint32_t>(bits): (1 << (32 - bits)) - 1 on int, as memory    *)
(* bytes.  For bits = 1 the shift gives INT_MIN and the subtraction wraps  *)
(* to INT_MAX.  For bits = 0 the shift by the full width is undefined:    *)
(* the build yields 1 (x86 masks the count) or 0, given as w.             *)
CreateMask32(bits, w) ==
    IF bits = 0
    THEN IF w = 1 THEN LEBytes(0) ELSE [k \in 1..4 |-> 255]
    ELSE LEBytes(Ones(32 - bits))

(* Mutant: value >>= 1 in the loop, which counts the bit length.         *)
RECURSIVE CountBytesShift(_)
CountBytesShift(v) == IF v = 0 THEN 0 ELSE 1 + CountBytesShift(v \div 2)

(* CountBytes<uint8_t>: value &= value - 1 until zero, counting the turns. *)
RECURSIVE CountBytes(_)
CountBytes(v) == IF v = 0 THEN 0 ELSE 1 + CountBytes(v & (v - 1))

OrBytes(x, y)  == [k \in DOMAIN x |-> x[k] | y[k]]
AndBytes(x, y) == [k \in DOMAIN x |-> x[k] & y[k]]

(* A sockaddr_in6 as the 20 bytes from sin6_addr through sin6_scope_id,   *)
(* and back.                                                               *)
Sin6Mem(s) == s.addr \o s.scope
FromMem(m) == [addr |-> SubSeq(m, 1, 16), scope |-> SubSeq(m, 17, 20)]

-----------------------------------------------------------------------------
(* IPv4Address::broadcastAddress: null beyond 32, else s_addr |=          *)
(* byteswapOnLittleEndian(CreateMask<uint32_t>(prefix_len)).               *)
V4Broadcast(a, p, w) ==
    /\ call' = [op |-> "v4bcast", a |-> a, p |-> p]
    /\ out' = IF p > 32 THEN Null
              ELSE OrBytes(a, ByteswapOnLittleEndian(CreateMask32(p, w)))

(* IPv4Address::networdAddress: null beyond 32, else s_addr &= the same.  *)
V4Network(a, p, w) ==
    /\ call' = [op |-> "v4net", a |-> a, p |-> p]
    /\ out' = IF p > 32 THEN Null
              ELSE AndBytes(a, ByteswapOnLittleEndian(CreateMask32(p, w)))

(* IPv4Address::subnetMask: s_addr = ~byteswapOnLittleEndian(CreateMask). *)
(* It has no range check; a prefix beyond 32 shifts by a negative count,  *)
(* whose outcome is not modelled, so it is called with 0..32.             *)
V4Subnet(p, w) ==
    /\ call' = [op |-> "v4mask", p |-> p]
    /\ out' = [k \in 1..4 |-> Complement8(ByteswapOnLittleEndian(CreateMask32(p, w))[k])]

(* IPv6Address::broadcastAddress: byte prefix_len / 8 |= CreateMask of    *)
(* the rest, then the bytes after it up to the 16th are 0xff.  The index  *)
(* is not checked: for prefix_len = 128 it is the first byte past         *)
(* sin6_addr, in sin6_scope_id.                                            *)
V6Broadcast(s, p) ==
    LET m == Sin6Mem(s)
        i == p \div 8 + 1
        m1 == [m EXCEPT ![i] = m[i] | CreateMask8(p % 8)]
    IN  /\ call' = [op |-> "v6bcast", s |-> s, p |-> p]
        /\ out' = FromMem([k \in 1..20 |-> IF i < k /\ k <= 16 THEN 255 ELSE m1[k]])

(* IPv6Address::networdAddress: byte prefix_len / 8 &= CreateMask of the  *)
(* rest, then the bytes after it up to the 16th are 0.                    *)
V6Network(s, p) ==
    LET m == Sin6Mem(s)
        i == p \div 8 + 1
        m1 == [m EXCEPT ![i] = m[i] & CreateMask8(p % 8)]
    IN  /\ call' = [op |-> "v6net", s |-> s, p |-> p]
        /\ out' = FromMem([k \in 1..20 |-> IF i < k /\ k <= 16 THEN 0 ELSE m1[k]])

(* IPv6Address::subnetMask: a zeroed sockaddr_in6; byte prefix_len / 8 =  *)
(* ~CreateMask of the rest; the bytes before it are 0xff.                  *)
V6Subnet(p) ==
    LET m == [k \in 1..20 |-> 0]
        i == p \div 8 + 1
        m1 == [m EXCEPT ![i] = Complement8(CreateMask8(p % 8))]
    IN  /\ call' = [op |-> "v6mask", p |-> p]
        /\ out' = FromMem([k \in 1..20 |-> IF k < i THEN 255 ELSE m1[k]])

(* Address::GetInterfaceAddresses, AF_INET6: the prefix length is the sum *)
(* of CountBytes over the 16 bytes of the interface's netmask.            *)
V6PrefixLen(m) ==
    /\ call' = [op |-> "v6plen", m |-> m]
    /\ out' = FoldLeft(LAMBDA acc, b : acc + CountBytes(b), 0, m)

-----------------------------------------------------------------------------
(* The reference: the prefix bits of byte k (from 0) of an address, and   *)
(* that byte with its host bits cleared, set, or as a mask, by arithmetic *)
(* on the byte rather than by shifts.                                      *)
PrefixBits(k, p) == IF p <= 8 * k THEN 0 ELSE IF p >= 8 * k + 8 THEN 8 ELSE p - 8 * k
HostSpan(k, p) == 2^(8 - PrefixBits(k, p))
NetByte(b, k, p) == b - (b % HostSpan(k, p))
BcastByte(b, k, p) == NetByte(b, k, p) + HostSpan(k, p) - 1
MaskByte(k, p) == 256 - HostSpan(k, p)

RefBcast(a, p) == [k \in DOMAIN a |-> BcastByte(a[k], k - 1, p)]
RefNet(a, p) == [k \in DOMAIN a |-> NetByte(a[k], k - 1, p)]
RefMask(n, p) == [k \in 1..n |-> MaskByte(k - 1, p)]

(* The netmasks getifaddrs reports for an interface: contiguous.          *)
Netmasks == {RefMask(16, p) : p \in V6Prefixes}

Init ==
    /\ call = [op |-> "none"]
    /\ out = Null

(* One call at a time: a call starts from no call, and returns.          *)
Idle == call.op = "none"

Return ==
    /\ ~Idle
    /\ call' = [op |-> "none"]
    /\ out' = Null

Next ==
    \/ Return
    \/ Idle /\ \E a \in V4Addrs, p \in V4Prefixes, w \in ShiftAtWidth :
          V4Broadcast(a, p, w) \/ V4Network(a, p, w)
    \/ Idle /\ \E p \in V4Prefixes \cap 0..32, w \in ShiftAtWidth : V4Subnet(p, w)
    \/ Idle /\ \E s \in V6Addrs, p \in V6Prefixes : V6Broadcast(s, p) \/ V6Network(s, p)
    \/ Idle /\ \E p \in V6Prefixes : V6Subnet(p)
    \/ Idle /\ \E m \in Netmasks : V6PrefixLen(m)

Spec == Init /\ [][Next]_vars
-----------------------------------------------------------------------------
TypeOK ==
    /\ call.op \in {"none", "v4bcast", "v4net", "v4mask", "v6bcast", "v6net",
                    "v6mask", "v6plen"}
    /\ call.op = "none" => out = Null
    /\ call.op \in {"v4bcast", "v4net", "v4mask"} =>
          out = Null \/ out \in [1..4 -> Bytes]
    /\ call.op \in {"v6bcast", "v6net", "v6mask"} =>
          out \in [addr : [1..16 -> Bytes], scope : [1..4 -> Bytes]]
    /\ call.op = "v6plen" => out \in 0..128

(* broadcastAddress and subnetMask agree with the reference for every     *)
(* address and prefix length they are called with: the host bits set,     *)
(* the prefix bits as a mask, and the scope id of an IPv6 address kept.   *)
MasksMatchReference ==
    /\ call.op = "v4bcast" =>
          out = IF call.p > 32 THEN Null ELSE RefBcast(call.a, call.p)
    /\ call.op = "v4mask" => out = RefMask(4, call.p)
    /\ call.op = "v6bcast" =>
          out = [addr |-> RefBcast(call.s.addr, call.p), scope |-> call.s.scope]
    /\ call.op = "v6mask" =>
          out = [addr |-> RefMask(16, call.p), scope |-> <<0, 0, 0, 0>>]

(* networdAddress keeps the prefix bits of the address and clears the     *)
(* host bits.                                                              *)
NetworkMatchesReference ==
    /\ call.op = "v4net" =>
          out = IF call.p > 32 THEN Null ELSE RefNet(call.a, call.p)
    /\ call.op = "v6net" =>
          out = [addr |-> RefNet(call.s.addr, call.p), scope |-> call.s.scope]

(* The prefix length GetInterfaceAddresses reads from a netmask is the    *)
(* one whose mask it is.                                                   *)
PrefixLenInverts ==
    call.op = "v6plen" => RefMask(16, out) = call.m
=============================================================================
