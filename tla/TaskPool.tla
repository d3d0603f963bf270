------------------------------ MODULE TaskPool ------------------------------
(***************************************************************************)
(* What sylar's Scheduler promises its users (spec.md, 4.2 and 5), with    *)
(* no queue, no fibers and no locks: a task is submitted once with an      *)
(* affinity, starts only on a thread its affinity allows and only while    *)
(* that thread runs nothing else, runs on one thread at a time until it    *)
(* suspends (and is submitted again with some affinity), parks until it  *)
(* is woken, or finishes.                                                  *)
(***************************************************************************)
CONSTANTS
    Tasks,     \* the tasks (callables or fibers) ever scheduled
    Threads,   \* the threads that run the worker loop
    AnyThread  \* affinity -1: any thread

VARIABLES
    st,        \* st[t]: "new", "queued", "running", "parked" or "done"
    pin,       \* pin[t]: the affinity of t while it is queued
    on         \* on[t]: the threads executing t

poolVars == <<st, pin, on>>

Affinities == Threads \cup {AnyThread}

(* The thread w executes no task.                                          *)
Free(w) == \A t \in Tasks : w \notin on[t]

Submit(t, a) ==
    /\ st[t] = "new"
    /\ st' = [st EXCEPT ![t] = "queued"]
    /\ pin' = [pin EXCEPT ![t] = a]
    /\ UNCHANGED on

Start(t, w) ==
    /\ st[t] = "queued"
    /\ pin[t] \in {AnyThread, w}
    /\ Free(w)
    /\ st' = [st EXCEPT ![t] = "running"]
    /\ pin' = [pin EXCEPT ![t] = AnyThread]
    /\ on' = [on EXCEPT ![t] = {w}]

Suspend(t, a) ==
    /\ st[t] = "running"
    /\ st' = [st EXCEPT ![t] = "queued"]
    /\ pin' = [pin EXCEPT ![t] = a]
    /\ on' = [on EXCEPT ![t] = {}]

(* A running task leaves its thread to wait for a wake-up.                *)
Park(t) ==
    /\ st[t] = "running"
    /\ st' = [st EXCEPT ![t] = "parked"]
    /\ on' = [on EXCEPT ![t] = {}]
    /\ UNCHANGED pin

(* Parked tasks are submitted again, with some affinity: one, or several *)
(* at once when one readiness report or one close wakes every waiter.     *)
Wake(S, a) ==
    /\ S # {} /\ \A t \in S : st[t] = "parked"
    /\ st' = [t \in Tasks |-> IF t \in S THEN "queued" ELSE st[t]]
    /\ pin' = [t \in Tasks |-> IF t \in S THEN a ELSE pin[t]]
    /\ UNCHANGED on

Finish(t) ==
    /\ st[t] = "running"
    /\ st' = [st EXCEPT ![t] = "done"]
    /\ on' = [on EXCEPT ![t] = {}]
    /\ UNCHANGED pin

PoolInit ==
    /\ st = [t \in Tasks |-> "new"]
    /\ pin = [t \in Tasks |-> AnyThread]
    /\ on = [t \in Tasks |-> {}]

PoolNext ==
    \/ \E t \in Tasks, a \in Affinities : Submit(t, a) \/ Suspend(t, a)
    \/ \E S \in SUBSET Tasks, a \in Affinities : Wake(S, a)
    \/ \E t \in Tasks : Park(t)
    \/ \E t \in Tasks, w \in Threads : Start(t, w)
    \/ \E t \in Tasks : Finish(t)

PoolSpec == PoolInit /\ [][PoolNext]_poolVars
=============================================================================
