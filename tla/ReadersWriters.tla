--------------------------- MODULE ReadersWriters ---------------------------
(***************************************************************************)
(* What a writer-preferring readers-writers lock promises the threads that *)
(* use it, and nothing of how it does so: no mutex, no counter, no         *)
(* condition variable.  ReadWriteLock is shown to implement it.            *)
(*                                                                         *)
(* A thread is "out" of its section, "want"s to enter, or is "in".         *)
(***************************************************************************)
CONSTANTS Readers, Writers

VARIABLES phase, data

vars == <<phase, data>>

Threads == Readers \cup Writers

Phases == {"out", "want", "in"}

TypeOK == /\ phase \in [Threads -> Phases]
          /\ data \in Writers \cup {0}

Init == /\ phase = [t \in Threads |-> "out"]
        /\ data = 0

(* A thread asks for the lock and is kept waiting. *)
Request(t) == /\ phase[t] = "out"
              /\ phase' = [phase EXCEPT ![t] = "want"]
              /\ UNCHANGED data

(* A reader enters only when no writer is inside or has asked to be.       *)
MayRead == \A w \in Writers : phase[w] = "out"

(* A writer enters only an empty section.                                  *)
MayWrite == \A t \in Threads : phase[t] # "in"

Enter(t) == /\ phase[t] \in {"out", "want"}
            /\ t \in Readers => MayRead
            /\ t \in Writers => MayWrite
            /\ phase' = [phase EXCEPT ![t] = "in"]
            /\ UNCHANGED data

(* Only a writer that is inside changes the data.                          *)
Assign(w) == /\ phase[w] = "in"
             /\ data' = w
             /\ UNCHANGED phase

Leave(t) == /\ phase[t] = "in"
            /\ phase' = [phase EXCEPT ![t] = "out"]
            /\ UNCHANGED data

Next == \/ \E t \in Threads : Request(t) \/ Enter(t) \/ Leave(t)
        \/ \E w \in Writers : Assign(w)

Safety == Init /\ [][Next]_vars

Grant(t) == phase[t] = "want" /\ Enter(t)

(* Whoever asked is let in if it can be again and again, and leaves.       *)
Spec == /\ Safety
        /\ \A t \in Threads : SF_vars(Grant(t)) /\ WF_vars(Leave(t))
=============================================================================
