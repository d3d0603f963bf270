----------------------------- MODULE MC_HttpPool -----------------------------
(* Model values for the pool: two client fibers, each making two requests, *)
(* and as many connection identities as the requests could ever create.    *)
EXTENDS HttpPool

CONSTANTS c1, c2, k1, k2, k3, k4

TwoClients == {c1, c2}
FourConns == {k1, k2, k3, k4}
=============================================================================
