----------------------------- MODULE MC_Address -----------------------------
(* Inputs for Address: two addresses whose bytes between them have every  *)
(* bit both clear and set, with a link-local scope id for IPv6, and the   *)
(* prefix lengths split into the interior and the boundary ones.          *)
EXTENDS Address

Pattern == <<165, 90, 60, 195>>
Inverse4 == [k \in 1..4 |-> 255 - Pattern[k]]
TwoV4 == {Pattern, Inverse4}
Scope1 == <<1, 0, 0, 0>>
TwoV6 == {[addr |-> Pattern \o Pattern \o Pattern \o Pattern, scope |-> Scope1],
          [addr |-> Inverse4 \o Inverse4 \o Inverse4 \o Inverse4, scope |-> Scope1]}
V4Interior == 1..33
V4All == 0..33
V6Interior == 0..127
V6All == 0..128
EitherShift == {0, 1}
=============================================================================
