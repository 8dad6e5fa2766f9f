--------------------------- MODULE WorkStealingPool ---------------------------
(***************************************************************************)
(* Thread/thread_pool_demo2.cpp: class WorkStealingPriorityThreadPool and  *)
(* main(), which submits tasks and lets the destructor close the pool.     *)
(*                                                                         *)
(* Each worker has a queue, a mutex and a condition variable of its own.   *)
(* wait(lock, predicate) tests the predicate with the mutex held and then  *)
(* goes to sleep; between the two ("blocking") only code that takes no     *)
(* mutex can act, and the destructor takes none.                           *)
(***************************************************************************)
EXTENDS Integers, Sequences, FiniteSets

CONSTANTS Workers,      \* the worker threads, and their queues
          Priorities    \* priorities of the tasks main() submits, in order

ASSUME WorkersAssumption == IsFiniteSet(Workers) /\ Workers # {}
ASSUME PrioritiesAssumption == Priorities \in Seq(Int)

VARIABLES first,        \* of each queue: its priority queue
          stop,
          pc, task,       \* of each worker
          target,         \* the queue that main()'s thread id hashes to
          main, submitted,
          notified,       \* condition variables the destructor has notified
          ran             \* how often each task has been called

vars == <<first, stop, pc, task, target, main, submitted, notified, ran>>

Tasks == 1..Len(Priorities)
Labels == {"top", "blocking", "waiting", "woken", "running", "exited"}

Init == /\ first = [w \in Workers |-> {}]
        /\ stop = FALSE
        /\ pc = [w \in Workers |-> "top"]
        /\ task = [w \in Workers |-> 0]
        /\ target \in Workers
        /\ main = "enqueue" /\ submitted = 0 /\ notified = {}
        /\ ran = [t \in Tasks |-> 0]

-----------------------------------------------------------------------------
(* The only state between two steps in which a worker holds its own mutex.  *)
Locked(w) == pc[w] = "blocking"

(* The deque others steal from.  No code ever pushes to it, so the branches *)
(* of getTask that take from it have no action here: they always fail.      *)
second == [w \in Workers |-> <<>>]

OwnTasks(w) == first[w] # {} \/ second[w] # <<>>

(* getTaskFromOtherQueues: only second is looked at, and only if try_lock   *)
(* gets the mutex.                                                          *)
Stealable(w) == {v \in Workers \ {w} : ~Locked(v) /\ second[v] # <<>>}

(* Task::operator<: the lowest number comes first; ties are in heap order.  *)
TopTasks(w) ==
  {t \in first[w] : \A u \in first[w] : Priorities[t] <= Priorities[u]}

Pop_Keep(w, t) == UNCHANGED first
Pop(w, t) == first' = [first EXCEPT ![w] = @ \ {t}]

getTask(w) == /\ first[w] # {}
              /\ \E t \in TopTasks(w) :
                   Pop(w, t) /\ task' = [task EXCEPT ![w] = t]
              /\ pc' = [pc EXCEPT ![w] = "running"]
              /\ UNCHANGED <<stop, target, main, submitted, notified, ran>>

(* Under its mutex, a worker with nothing to take tests the predicate of    *)
(* wait() and the condition after it.                                       *)
MayExit_Stop(w) == stop
MayExit(w) == stop /\ ~OwnTasks(w)

Exit(w) == /\ MayExit(w)
           /\ pc' = [pc EXCEPT ![w] = "exited"]
           /\ UNCHANGED <<first, stop, task, target, main, submitted, notified, ran>>
Block(w) == /\ ~stop /\ ~OwnTasks(w)
            /\ pc' = [pc EXCEPT ![w] = "blocking"]
            /\ UNCHANGED <<first, stop, task, target, main, submitted, notified, ran>>

NothingToTake(w) == ~OwnTasks(w) /\ Stealable(w) = {}

(* The top of the loop takes or steals; a worker that wait() returned to    *)
(* takes only once its own queue has something.                             *)
Loop(w) == /\ pc[w] = "top"
           /\ getTask(w) \/ (NothingToTake(w) /\ (Exit(w) \/ Block(w)))
Woken(w) == /\ pc[w] = "woken"
            /\ Exit(w) \/ Block(w) \/ (~MayExit(w) /\ OwnTasks(w) /\ getTask(w))

Sleep(w) == /\ pc[w] = "blocking"
            /\ pc' = [pc EXCEPT ![w] = "waiting"]
            /\ UNCHANGED <<first, stop, task, target, main, submitted, notified, ran>>

Run(w) == /\ pc[w] = "running"
          /\ ran' = [ran EXCEPT ![task[w]] = @ + 1]
          /\ task' = [task EXCEPT ![w] = 0]
          /\ pc' = [pc EXCEPT ![w] = "top"]
          /\ UNCHANGED <<first, stop, target, main, submitted, notified>>

worker(w) == Loop(w) \/ Woken(w) \/ Sleep(w) \/ Run(w)

SpuriousWakeup(w) ==
  /\ pc[w] = "waiting"
  /\ pc' = [pc EXCEPT ![w] = "woken"]
  /\ UNCHANGED <<first, stop, task, target, main, submitted, notified, ran>>

-----------------------------------------------------------------------------
(* main(): enqueue() for each task, five seconds of sleep, the destructor.  *)

MoreTasks_OneMore == submitted <= Len(Priorities)
MoreTasks == submitted < Len(Priorities)

(* The target's mutex is taken for the push.                                *)
enqueue == /\ main = "enqueue" /\ MoreTasks
           /\ ~Locked(target)
           /\ first' = [first EXCEPT ![target] = @ \cup {submitted + 1}]
           /\ submitted' = submitted + 1
           /\ main' = "notify_one"
           /\ UNCHANGED <<stop, pc, task, target, notified, ran>>

Notify(w) == IF pc[w] = "waiting" THEN [pc EXCEPT ![w] = "woken"] ELSE pc

Notified_Other == Notify(CHOOSE w \in Workers : w # target)
Notified == Notify(target)

enqueue_notify == /\ main = "notify_one"
                  /\ pc' = Notified
                  /\ main' = "enqueue"
                  /\ UNCHANGED <<first, stop, task, target, submitted, notified, ran>>

(* No mutex here.                                                           *)
set_stop == /\ main = "enqueue" /\ ~MoreTasks
            /\ stop' = TRUE
            /\ main' = "notify_all"
            /\ UNCHANGED <<first, pc, task, target, submitted, notified, ran>>

(* notify_all() on each condition variable in turn, in any order: the       *)
(* workers have no order here.                                              *)
AllNotified_OneLess(cvs) == Cardinality(Workers \ cvs) <= 1
AllNotified(cvs) == cvs = Workers

stop_notify(w) == /\ main = "notify_all" /\ w \notin notified
                  /\ pc' = Notify(w)
                  /\ notified' = notified \cup {w}
                  /\ main' = IF AllNotified(notified') THEN "join" ELSE main
                  /\ UNCHANGED <<first, stop, task, target, submitted, ran>>

join == /\ main = "join"
        /\ \A w \in Workers : pc[w] = "exited"
        /\ main' = "done"
        /\ UNCHANGED <<first, stop, pc, task, target, submitted, notified, ran>>

mainThread == \/ enqueue \/ enqueue_notify \/ set_stop \/ join
              \/ \E w \in Workers : stop_notify(w)

Terminated == main = "done" /\ UNCHANGED vars

Next == \/ \E w \in Workers : worker(w) \/ SpuriousWakeup(w)
        \/ mainThread
        \/ Terminated

Safety == Init /\ [][Next]_vars

(* Threads that are not blocked are scheduled, and a mutex that is free      *)
(* again and again is had in the end.  Nothing wakes a waiter for free.      *)
Spec == /\ Safety
        /\ \A w \in Workers : WF_vars(worker(w))
        /\ WF_vars(mainThread) /\ SF_vars(enqueue)
-----------------------------------------------------------------------------
TypeOK == /\ first \in [Workers -> SUBSET Tasks]
          /\ stop \in BOOLEAN
          /\ pc \in [Workers -> Labels]
          /\ task \in [Workers -> Tasks \cup {0}]
          /\ target \in Workers
          /\ main \in {"enqueue", "notify_one", "notify_all", "join", "done"}
          /\ submitted \in 0..Len(Priorities)
          /\ notified \subseteq Workers
          /\ ran \in [Tasks -> Nat]

(* A submitted task is queued, in one worker's hands, or has run once.      *)
Places(t) == Cardinality({w \in Workers : t \in first[w]})
             + Cardinality({w \in Workers : pc[w] = "running" /\ task[w] = t})
             + ran[t]
ExactlyOnce == \A t \in Tasks : Places(t) = IF t <= submitted THEN 1 ELSE 0

(* enqueue()'s notification is never lost: the worker whose queue has a      *)
(* task is awake, or about to be notified.                                  *)
TargetAwake == \A w \in Workers :
  first[w] # {} /\ main # "notify_one" => pc[w] \notin {"blocking", "waiting", "exited"}

(* Every task submitted is called, whatever happens to the other workers:    *)
(* none is left in the queue of a worker that has gone.                     *)
AllTasksRun == <>(\A t \in Tasks : ran[t] = 1)

(* The one way the destructor can hang: a worker went to sleep after the      *)
(* notification it was to be woken by.  Neither a busy worker, nor a woken  *)
(* one, nor a task submitted last keeps it from returning.                  *)
MissedOrReturns ==
  main = "notify_all" ~>
    main = "done" \/ \E w \in notified : pc[w] = "waiting"

(* "The destructor makes sure that all threads exit safely" (line 59): it    *)
(* returns.                                                                 *)
DestructorReturns == <>(main = "done")
=============================================================================
