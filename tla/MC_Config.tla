------------------------------ MODULE MC_Config ------------------------------
(* Instances of Config.tla for TLC: reloader threads, two timeouts a file *)
(* may set besides the default 5000 of hook.cc, and the bounds.           *)
EXTENDS Config

CONSTANTS r1, r2

OneReloader  == {r1}
TwoReloaders == {r1, r2}
FileVals     == {1000, 3000}
=============================================================================
