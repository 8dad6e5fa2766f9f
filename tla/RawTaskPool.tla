------------------------------ MODULE RawTaskPool ------------------------------
(***************************************************************************)
(* Thread/thread_pool_demo3_.cpp: template threadPool<T>, and its client   *)
(* Thread/thread_pool_demo3_test.cpp, which appends tasks it then deletes. *)
(*                                                                         *)
(* run() holds queue_mutex from the moment it has it until process() has   *)
(* returned, except inside wait(); the destructor holds it to its end.     *)
(* `owner' is who has it.  The client's loop is endless; here it stops     *)
(* after NTasks tasks, and may then destroy the pool.                      *)
(***************************************************************************)
EXTENDS Integers, Sequences, FiniteSets

CONSTANTS Workers, NTasks   \* the threads; bound: how many tasks are appended

ASSUME WorkersAssumption == IsFiniteSet(Workers) /\ Workers # {}
(* A worker is neither the client nor nobody: `owner' tells them apart.      *)
ASSUME OwnerAssumption == "main" \notin Workers /\ "nobody" \notin Workers
ASSUME NTasksAssumption == NTasks \in Nat

VARIABLES tasks_queue, stop,
          owner,        \* of queue_mutex: a worker, "main" or "nobody"
          pc, request,  \* of each worker
          main,         \* where the client is
          appended,     \* tasks appended so far
          deleted,      \* tasks the client has deleted
          processed     \* how often process() returned for each task

vars == <<tasks_queue, stop, owner, pc, request, main, appended, deleted, processed>>

Tasks == 1..NTasks
Labels == {"check", "lock", "waiting", "processing", "returned"}

Init == /\ tasks_queue = <<>> /\ stop = FALSE /\ owner = "nobody"
        /\ pc = [w \in Workers |-> "check"]
        /\ request = [w \in Workers |-> 0]
        /\ main = "append" /\ appended = 0 /\ deleted = {}
        /\ processed = [t \in Tasks |-> 0]

-----------------------------------------------------------------------------
(* run(): while (!stop), read without the mutex.                            *)
CheckStop(w) ==
  /\ pc[w] = "check"
  /\ pc' = [pc EXCEPT ![w] = IF stop THEN "returned" ELSE "lock"]
  /\ UNCHANGED <<tasks_queue, stop, owner, request, main, appended, deleted, processed>>

(* With the mutex: the predicate of wait() does not look at stop.           *)
Wait(w) ==
  /\ pc[w] = "lock" /\ owner = "nobody" /\ tasks_queue = <<>>
  /\ pc' = [pc EXCEPT ![w] = "waiting"]
  /\ UNCHANGED <<tasks_queue, stop, owner, request, main, appended, deleted, processed>>

MutexKept_Released(w) == owner' = "nobody"
MutexKept(w) == owner' = w

Pop_Nothing == UNCHANGED tasks_queue
Pop == tasks_queue' = Tail(tasks_queue)

Take(w) ==
  /\ pc[w] = "lock" /\ owner = "nobody" /\ tasks_queue # <<>>
  /\ request' = [request EXCEPT ![w] = Head(tasks_queue)]
  /\ Pop
  /\ MutexKept(w)
  /\ pc' = [pc EXCEPT ![w] = "processing"]
  /\ UNCHANGED <<stop, main, appended, deleted, processed>>

(* process() returns; lk goes out of scope.                                 *)
Process(w) ==
  /\ pc[w] = "processing"
  /\ processed' = [processed EXCEPT ![request[w]] = @ + 1]
  /\ request' = [request EXCEPT ![w] = 0]
  /\ owner' = "nobody"
  /\ pc' = [pc EXCEPT ![w] = "check"]
  /\ UNCHANGED <<tasks_queue, stop, main, appended, deleted>>

run(w) == CheckStop(w) \/ Wait(w) \/ Take(w) \/ Process(w)

SpuriousWakeup(w) ==
  /\ pc[w] = "waiting"
  /\ pc' = [pc EXCEPT ![w] = "lock"]
  /\ UNCHANGED <<tasks_queue, stop, owner, request, main, appended, deleted, processed>>

-----------------------------------------------------------------------------
(* The client: append(tt), then delete tt, again and again.                 *)

Waiting == {w \in Workers : pc[w] = "waiting"}
NotifyOne == IF Waiting = {} THEN {pc}
                             ELSE {[pc EXCEPT ![w] = "lock"] : w \in Waiting}

MoreTasks_OneMore == appended <= NTasks
MoreTasks == appended < NTasks

append == /\ main = "append" /\ MoreTasks
          /\ owner = "nobody"
          /\ tasks_queue' = Append(tasks_queue, appended + 1)
          /\ appended' = appended + 1
          /\ main' = "notify_one"
          /\ UNCHANGED <<stop, owner, pc, request, deleted, processed>>

Notified_None == {pc}
Notified == NotifyOne

append_notify ==
  /\ main = "notify_one"
  /\ pc' \in Notified
  /\ main' = "delete"
  /\ UNCHANGED <<tasks_queue, stop, owner, request, appended, deleted, processed>>

delete == /\ main = "delete"
          /\ deleted' = deleted \cup {appended}
          /\ main' = "append"
          /\ UNCHANGED <<tasks_queue, stop, owner, pc, request, appended, processed>>

(* ~threadPool: the mutex is taken, stop set and notify_all called under    *)
(* it; it is released only when every join() has returned.                  *)
destroy == /\ main = "append" /\ ~MoreTasks
           /\ owner = "nobody" /\ owner' = "main"
           /\ stop' = TRUE
           /\ pc' = [w \in Workers |-> IF pc[w] = "waiting" THEN "lock" ELSE pc[w]]
           /\ main' = "join"
           /\ UNCHANGED <<tasks_queue, request, appended, deleted, processed>>

join == /\ main = "join"
        /\ \A w \in Workers : pc[w] = "returned"
        /\ owner' = "nobody"
        /\ main' = "done"
        /\ UNCHANGED <<tasks_queue, stop, pc, request, appended, deleted, processed>>

client == append \/ append_notify \/ delete \/ destroy \/ join

Next == (\E w \in Workers : run(w) \/ SpuriousWakeup(w)) \/ client

Safety == Init /\ [][Next]_vars

(* Threads that can go on do, and a mutex that is free again and again is    *)
(* had in the end.  Nothing wakes a waiter for free, and nobody need destroy *)
(* the pool; but a destructor that was called goes on.                      *)
Spec == /\ Safety
        /\ \A w \in Workers : WF_vars(run(w)) /\ SF_vars(Take(w))
        /\ WF_vars(append_notify) /\ WF_vars(delete) /\ WF_vars(join)
        /\ SF_vars(append)
-----------------------------------------------------------------------------
TypeOK == /\ tasks_queue \in Seq(Tasks)
          /\ stop \in BOOLEAN
          /\ owner \in Workers \cup {"main", "nobody"}
          /\ pc \in [Workers -> Labels]
          /\ request \in [Workers -> Tasks \cup {0}]
          /\ main \in {"append", "notify_one", "delete", "join", "done"}
          /\ appended \in 0..NTasks
          /\ deleted \subseteq Tasks
          /\ processed \in [Tasks -> Nat]

Processing == {w \in Workers : pc[w] = "processing"}

(* process() runs under the mutex: however many threads the pool has, they   *)
(* process one task at a time, and none while the pool is being destroyed.  *)
OneAtATime == /\ Cardinality(Processing) <= 1
              /\ main = "join" => Processing = {}
              /\ \A w \in Processing : owner = w

(* A task appended is queued, in one worker's hands, or was processed once.  *)
ExactlyOnce ==
  \A t \in Tasks :
    Cardinality({i \in 1..Len(tasks_queue) : tasks_queue[i] = t})
    + Cardinality({w \in Processing : request[w] = t})
    + processed[t] = IF t <= appended THEN 1 ELSE 0

(* No lost wakeup before the pool is destroyed: while a thread sleeps, every *)
(* queued task has a thread that will come for it, or one about to be woken. *)
WorkConserving ==
  ~stop /\ Waiting # {} =>
    Len(tasks_queue) <= Cardinality({w \in Workers : pc[w] \in {"check", "lock", "processing"}})
                        + IF main = "notify_one" THEN 1 ELSE 0

(* Every task appended to a pool that lives on is processed.                *)
AllProcessed == [](~stop) => <>(\A t \in Tasks : processed[t] = 1)

(* "join is possible in the destructor" (line 52): the destructor returns.  *)
DestructorReturns == main = "join" ~> main = "done"

(* "uses a smart pointer" (test, line 26): a task lives while it is used.   *)
TaskAlive == \A w \in Processing : request[w] \notin deleted
=============================================================================
