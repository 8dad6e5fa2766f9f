------------------------------ MODULE ThreadPool ------------------------------
(***************************************************************************)
(* Thread/thread_pool_demo.cpp: class ThreadPool, the lambda its workers   *)
(* run, and main(), which enqueues NTasks tasks and lets the destructor    *)
(* close the pool.                                                         *)
(*                                                                         *)
(* The code between two releases of queue_mutex is one action.  A worker   *)
(* in condition.wait() is "waiting"; a notify or a spurious wakeup makes   *)
(* it "ready" again, as it is at the top of its loop: it is about to take  *)
(* the mutex and to test the predicate.  enqueue() and the destructor      *)
(* notify after they have released the mutex, in a step of its own.        *)
(***************************************************************************)
EXTENDS Integers, Sequences, FiniteSets

CONSTANTS Workers,   \* the threads of the vector workers
          NTasks     \* how many tasks main() enqueues

ASSUME WorkersAssumption == IsFiniteSet(Workers) /\ Workers # {}
ASSUME NTasksAssumption == NTasks \in Nat

VARIABLES tasks, stop,  \* fields of ThreadPool; tasks are numbered from 1
          pc, task,     \* of each worker: where it is, its local variable
          main,         \* where main() is
          submitted,    \* tasks enqueued so far, main()'s i
          ran           \* how often each task has been called

vars == <<tasks, stop, pc, task, main, submitted, ran>>

Tasks == 1..NTasks
Labels == {"ready", "waiting", "running", "exited"}
MainLabels == {"enqueue", "notify_one", "notify_all", "join", "done"}

Init == /\ tasks = <<>> /\ stop = FALSE
        /\ pc = [w \in Workers |-> "ready"]
        /\ task = [w \in Workers |-> 0]
        /\ main = "enqueue" /\ submitted = 0
        /\ ran = [t \in Tasks |-> 0]

Waiting == {w \in Workers : pc[w] = "waiting"}
Ready == {w \in Workers : pc[w] = "ready"}

-----------------------------------------------------------------------------
(* The worker's loop: what it does with the mutex, once it has it.          *)

Wait(w) == /\ pc[w] = "ready"
           /\ ~stop /\ tasks = <<>>
           /\ pc' = [pc EXCEPT ![w] = "waiting"]
           /\ UNCHANGED <<tasks, stop, task, main, submitted, ran>>

MayExit_Stop == stop
MayExit == stop /\ tasks = <<>>

Exit(w) == /\ pc[w] = "ready"
           /\ MayExit
           /\ pc' = [pc EXCEPT ![w] = "exited"]
           /\ UNCHANGED <<tasks, stop, task, main, submitted, ran>>

Pop_Nothing == tasks' = tasks
Pop == tasks' = Tail(tasks)

NextTask_Newest == tasks[Len(tasks)]
NextTask == Head(tasks)

Take(w) == /\ pc[w] = "ready"
           /\ tasks # <<>>
           /\ task' = [task EXCEPT ![w] = NextTask]
           /\ Pop
           /\ pc' = [pc EXCEPT ![w] = "running"]
           /\ UNCHANGED <<stop, main, submitted, ran>>

(* task(), outside the mutex; it prints one line under cout_mutex.          *)
Run(w) == /\ pc[w] = "running"
          /\ ran' = [ran EXCEPT ![task[w]] = @ + 1]
          /\ task' = [task EXCEPT ![w] = 0]
          /\ pc' = [pc EXCEPT ![w] = "ready"]
          /\ UNCHANGED <<tasks, stop, main, submitted>>

worker(w) == Wait(w) \/ Exit(w) \/ Take(w) \/ Run(w)

SpuriousWakeup(w) == /\ pc[w] = "waiting"
                     /\ pc' = [pc EXCEPT ![w] = "ready"]
                     /\ UNCHANGED <<tasks, stop, task, main, submitted, ran>>

-----------------------------------------------------------------------------
(* main(): enqueue() in a loop, then ~ThreadPool().                         *)

NotifyOne == IF Waiting = {} THEN {pc}
                             ELSE {[pc EXCEPT ![w] = "ready"] : w \in Waiting}
NotifyAll == [w \in Workers |-> IF pc[w] = "waiting" THEN "ready" ELSE pc[w]]

MoreTasks_OneMore == submitted <= NTasks
MoreTasks == submitted < NTasks

enqueue == /\ main = "enqueue" /\ MoreTasks
           /\ tasks' = Append(tasks, submitted + 1)
           /\ submitted' = submitted + 1
           /\ main' = "notify_one"
           /\ UNCHANGED <<stop, pc, task, ran>>

Notified_WasEmpty == IF Len(tasks) <= 1 THEN NotifyOne ELSE {pc}
Notified == NotifyOne

enqueue_notify == /\ main = "notify_one"
                  /\ pc' \in Notified
                  /\ main' = "enqueue"
                  /\ UNCHANGED <<tasks, stop, task, submitted, ran>>

set_stop == /\ main = "enqueue" /\ ~MoreTasks
            /\ stop' = TRUE
            /\ main' = "notify_all"
            /\ UNCHANGED <<tasks, pc, task, submitted, ran>>

StopNotified_One == NotifyOne
StopNotified == {NotifyAll}

stop_notify == /\ main = "notify_all"
               /\ pc' \in StopNotified
               /\ main' = "join"
               /\ UNCHANGED <<tasks, stop, task, submitted, ran>>

(* worker.join(), for every worker. *)
join == /\ main = "join"
        /\ \A w \in Workers : pc[w] = "exited"
        /\ main' = "done"
        /\ UNCHANGED <<tasks, stop, pc, task, submitted, ran>>

mainThread == enqueue \/ enqueue_notify \/ set_stop \/ stop_notify \/ join

Terminated == main = "done" /\ UNCHANGED vars

Next == \/ \E w \in Workers : worker(w) \/ SpuriousWakeup(w)
        \/ mainThread
        \/ Terminated

Safety == Init /\ [][Next]_vars

(* Threads that are not blocked are scheduled; tasks return.                *)
Fairness == /\ \A w \in Workers : WF_vars(worker(w))
            /\ WF_vars(mainThread)

Spec == Safety /\ Fairness
-----------------------------------------------------------------------------
(* The tasks taken from the queue so far are 1..Taken. *)
Taken == submitted - Len(tasks)

Held(t) == {w \in Workers : pc[w] = "running" /\ task[w] = t}

TypeOK == /\ tasks \in Seq(Tasks)
          /\ stop \in BOOLEAN
          /\ pc \in [Workers -> Labels]
          /\ task \in [Workers -> Tasks \cup {0}]
          /\ \A w \in Workers : pc[w] = "running" => task[w] # 0
          /\ main \in MainLabels
          /\ submitted \in 0..NTasks
          /\ ran \in [Tasks -> Nat]

(* No task is lost, run twice or held by two workers: the queue holds the   *)
(* last ones submitted, in order, and each task taken before them is in one *)
(* worker's hands or has run once.                                          *)
InOrder == Len(tasks) <= submitted /\ \A i \in 1..Len(tasks) : tasks[i] = Taken + i
ExactlyOnce ==
  /\ InOrder
  /\ \A t \in Tasks :
       \/ t > Taken /\ ran[t] = 0 /\ Held(t) = {}
       \/ t <= Taken /\ ran[t] = 1 /\ Held(t) = {}
       \/ t <= Taken /\ ran[t] = 0 /\ \E w \in Workers : Held(t) = {w}

(* No lost wakeup: while a worker sleeps, every queued task has a worker    *)
(* that is awake for it, or main() is about to notify one.                  *)
AboutToNotify == IF main = "notify_one" THEN 1 ELSE 0
WorkConserving ==
  Waiting # {} => Len(tasks) <= Cardinality(Ready) + AboutToNotify

(* Shutdown: a worker leaves only when nothing is or will be queued, none   *)
(* sleeps once the destructor has notified, and when the destructor returns *)
(* every task has run.                                                      *)
CleanShutdown ==
  /\ (\E w \in Workers : pc[w] = "exited") => stop /\ tasks = <<>> /\ submitted = NTasks
  /\ main \in {"join", "done"} => Waiting = {}
  /\ main = "done" => \A t \in Tasks : ran[t] = 1

(* The destructor returns: no join() blocks forever.                        *)
DestructorReturns == <>(main = "done")

(* The pool does what TaskPool promises.                                    *)
stageBar ==
  [t \in Tasks |-> CASE t > submitted -> "new"
                     [] t <= submitted /\ t > Taken -> "queued"
                     [] t <= Taken /\ ran[t] = 0 -> "running"
                     [] OTHER -> "done"]
TP == INSTANCE TaskPool WITH stage <- stageBar, closed <- (main = "done")
ImplementsTaskPool == TP!Spec
=============================================================================
