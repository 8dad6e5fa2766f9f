------------------------------- MODULE TaskPool -------------------------------
(***************************************************************************)
(* What a fixed pool of workers promises to the one thread that fills it:  *)
(* tasks start in the order they were given, at most one per worker at a   *)
(* time, each runs once, and closing the pool waits for all of them.       *)
(* No queue, no mutex, no notification.  ThreadPool implements it.         *)
(***************************************************************************)
EXTENDS Integers, FiniteSets

CONSTANTS Workers, NTasks

VARIABLES stage,   \* of each task: "new", "queued", "running" or "done"
          closed   \* the pool is gone

vars == <<stage, closed>>

Tasks == 1..NTasks

Init == /\ stage = [t \in Tasks |-> "new"]
        /\ closed = FALSE

Running == {t \in Tasks : stage[t] = "running"}

(* t is the first task in stage s. *)
FirstIn(t, s) == stage[t] = s /\ \A u \in Tasks : u < t => stage[u] # s

Submit(t) == /\ FirstIn(t, "new")
             /\ stage' = [stage EXCEPT ![t] = "queued"]
             /\ UNCHANGED closed

Start(t) == /\ FirstIn(t, "queued")
            /\ stage' = [stage EXCEPT ![t] = "running"]
            /\ Cardinality(Running') <= Cardinality(Workers)
            /\ UNCHANGED closed

Finish(t) == /\ stage[t] = "running"
             /\ stage' = [stage EXCEPT ![t] = "done"]
             /\ UNCHANGED closed

Close == /\ \A t \in Tasks : stage[t] = "done"
         /\ ~closed /\ closed' = TRUE
         /\ UNCHANGED stage

Work == (\E t \in Tasks : Submit(t) \/ Start(t) \/ Finish(t)) \/ Close

Safety == Init /\ [][Work]_vars

Spec == Safety /\ WF_vars(Work)
=============================================================================
