------------------------ MODULE WorkStealingPoolProofs ------------------------
(***************************************************************************)
(* Proofs about WorkStealingPool, for every finite set of workers and      *)
(* every sequence of priorities.                                           *)
(***************************************************************************)
EXTENDS WorkStealingPool, FiniteSetTheorems, SequenceTheorems, TLAPS

(* main() has one thread id, so all its tasks go to one queue: no other     *)
(* queue ever holds a task.                                                 *)
OnlyTarget == \A w \in Workers : first[w] # {} => w = target

(* stop is set once main() has submitted everything, and no thread leaves   *)
(* before it is.                                                            *)
StopFirst == /\ stop <=> main \in {"notify_all", "join", "done"}
             /\ \A w \in Workers : pc[w] = "exited" => stop

(* TargetAwake, with what holds while a notification is under way: a worker *)
(* between its predicate and its sleep, or gone, has left nothing behind.   *)
NothingLeft ==
  \A w \in Workers : first[w] # {} =>
    /\ pc[w] \notin {"blocking", "exited"}
    /\ main # "notify_one" => pc[w] # "waiting"

Holds(w, t) == pc[w] = "running" /\ task[w] = t

(* Where a task is: queued, in one worker's hands, called once.             *)
Placed ==
  /\ \A w \in Workers : pc[w] = "running" => task[w] \in Tasks
  /\ \A w \in Workers : \A t \in first[w] :
       t <= submitted /\ ran[t] = 0 /\ \A v \in Workers : ~Holds(v, t)
  /\ \A w, v \in Workers : \A t \in Tasks : Holds(w, t) =>
       t <= submitted /\ ran[t] = 0 /\ (Holds(v, t) => v = w)
  /\ \A t \in Tasks : ran[t] \in {0, 1} /\ (ran[t] = 1 => t <= submitted)
  /\ \A t \in Tasks : t <= submitted /\ ran[t] = 0 =>
       \E w \in Workers : t \in first[w] \/ Holds(w, t)

IInv == TypeOK /\ OnlyTarget /\ StopFirst /\ NothingLeft /\ Placed

(***************************************************************************)
(* The queues                                                              *)
(***************************************************************************)

(* The deque others steal from is empty, so a worker has tasks exactly when *)
(* its priority queue has.                                                  *)
LEMMA OwnTasksFact == \A w \in Workers : OwnTasks(w) <=> first[w] # {}
BY DEF OwnTasks, second

(* What a worker takes was in its queue, and is the only task taken.        *)
LEMMA TakeMoves ==
  ASSUME TypeOK, NEW w \in Workers, getTask(w)
  PROVE  \E t \in first[w] :
           /\ t \in Tasks
           /\ first' = [first EXCEPT ![w] = @ \ {t}]
           /\ task' = [task EXCEPT ![w] = t]
<1>1. PICK t \in TopTasks(w) : Pop(w, t) /\ task' = [task EXCEPT ![w] = t]
  BY DEF getTask
<1>2. t \in first[w]
  BY <1>1 DEF TopTasks
<1>3. t \in Tasks
  BY <1>2 DEF TypeOK
<1> QED
  BY <1>1, <1>2, <1>3 DEF Pop

(* Placed does not look at the labels other than "running".                 *)
LEMMA PlacedKept ==
  ASSUME Placed, UNCHANGED <<first, task, submitted, ran>>,
         \A w \in Workers : pc'[w] = "running" <=> pc[w] = "running"
  PROVE  Placed'
BY DEF Placed, Holds

(* The numbers of tasks.                                                    *)
LEMMA TaskFacts ==
  ASSUME TypeOK
  PROVE  /\ Len(Priorities) \in Nat /\ submitted \in Nat
         /\ Tasks \subseteq Nat /\ Tasks = 1..Len(Priorities)
<1>1. Len(Priorities) \in Nat
  BY PrioritiesAssumption, LenProperties
<1> QED
  BY <1>1 DEF TypeOK, Tasks

(***************************************************************************)
(* The invariant, action by action                                         *)
(***************************************************************************)
LEMMA InitIInv == Init => IInv
<1> SUFFICES ASSUME Init PROVE IInv
  OBVIOUS
<1>0. Len(Priorities) \in Nat
  BY PrioritiesAssumption, LenProperties
<1>1. TypeOK
  <2>1. /\ first \in [Workers -> SUBSET Tasks] /\ pc \in [Workers -> Labels]
        /\ task \in [Workers -> Tasks \cup {0}] /\ ran \in [Tasks -> Nat]
    BY DEF Init, Labels
  <2>2. submitted \in 0..Len(Priorities)
    BY <1>0 DEF Init
  <2> QED
    BY <2>1, <2>2 DEF Init, TypeOK
<1>2. OnlyTarget /\ StopFirst /\ NothingLeft
  BY DEF Init, OnlyTarget, StopFirst, NothingLeft
<1>3. Placed
  BY <1>0 DEF Init, Placed, Holds, Tasks
<1> QED
  BY <1>1, <1>2, <1>3 DEF IInv

LEMMA getTaskIInv ==
  ASSUME IInv, NEW w \in Workers, getTask(w), pc[w] \in {"top", "woken"}
  PROVE  IInv'
<1> USE DEF IInv
<1>1. /\ pc' = [pc EXCEPT ![w] = "running"]
      /\ UNCHANGED <<stop, target, main, submitted, notified, ran>>
  BY DEF getTask
<1>2. PICK t \in first[w] :
        /\ t \in Tasks
        /\ first' = [first EXCEPT ![w] = @ \ {t}]
        /\ task' = [task EXCEPT ![w] = t]
  BY TakeMoves
<1>3. TypeOK'
  <2>1. first' \in [Workers -> SUBSET Tasks]
    BY <1>2 DEF TypeOK
  <2>2. pc' \in [Workers -> Labels] /\ task' \in [Workers -> Tasks \cup {0}]
    BY <1>1, <1>2 DEF TypeOK, Labels
  <2> QED
    BY <1>1, <2>1, <2>2 DEF TypeOK
<1>4. first'[w] = first[w] \ {t} /\ \A v \in Workers : v # w => first'[v] = first[v]
  BY <1>2 DEF TypeOK
<1>5. OnlyTarget'
  BY <1>1, <1>4 DEF OnlyTarget
<1>6. StopFirst'
  BY <1>1 DEF StopFirst, TypeOK
<1>7. NothingLeft'
  BY <1>1, <1>4 DEF NothingLeft, TypeOK
<1>8. Placed'
  <2>1. \A v \in Workers : \A u :
          Holds(v, u)' <=> IF v = w THEN u = t ELSE Holds(v, u)
    BY <1>1, <1>2 DEF Holds, TypeOK
  <2>2. ~Holds(w, t) /\ t <= submitted /\ ran[t] = 0 /\ \A v \in Workers : ~Holds(v, t)
    BY <1>2 DEF Placed
  <2>3. \A v \in Workers : t \notin first'[v]
    <3>1. \A v \in Workers : first[v] # {} => v = w
      BY <1>2 DEF OnlyTarget
    <3> QED
      BY <1>4, <3>1
  <2>4. \A v \in Workers : pc'[v] = "running" => task'[v] \in Tasks
    BY <1>1, <1>2 DEF Placed, TypeOK
  <2>5. \A v \in Workers : \A u \in first'[v] :
          u <= submitted' /\ ran'[u] = 0 /\ \A x \in Workers : ~Holds(x, u)'
    BY <1>1, <1>4, <2>1, <2>3 DEF Placed
  <2>6. \A x, v \in Workers : \A u \in Tasks : Holds(x, u)' =>
          u <= submitted' /\ ran'[u] = 0 /\ (Holds(v, u)' => v = x)
    BY <1>1, <2>1, <2>2 DEF Placed
  <2>7. \A u \in Tasks : ran'[u] \in {0, 1} /\ (ran'[u] = 1 => u <= submitted')
    BY <1>1 DEF Placed
  <2>8. ASSUME NEW u \in Tasks, u <= submitted', ran'[u] = 0
        PROVE  \E v \in Workers : u \in first'[v] \/ Holds(v, u)'
    <3>1. CASE u = t
      BY <2>1, <3>1
    <3>2. CASE u # t
      <4>1. PICK v \in Workers : u \in first[v] \/ Holds(v, u)
        BY <1>1, <2>8 DEF Placed
      <4>2. u \in first'[v] \/ (Holds(v, u) /\ v # w)
        BY <1>1, <1>4, <3>2, <4>1 DEF Holds
      <4> QED
        BY <2>1, <4>2
    <3> QED
      BY <3>1, <3>2
  <2> QED
    BY <2>4, <2>5, <2>6, <2>7, <2>8 DEF Placed
<1> QED
  BY <1>3, <1>5, <1>6, <1>7, <1>8

LEMMA ExitIInv ==
  ASSUME IInv, NEW w \in Workers, Exit(w), pc[w] \in {"top", "woken"}
  PROVE  IInv'
<1> USE DEF IInv
<1>1. /\ stop /\ first[w] = {} /\ pc' = [pc EXCEPT ![w] = "exited"]
      /\ UNCHANGED <<first, stop, task, target, main, submitted, notified, ran>>
  BY OwnTasksFact DEF Exit, MayExit
<1>2. TypeOK'
  BY <1>1 DEF TypeOK, Labels
<1>3. OnlyTarget' /\ StopFirst' /\ NothingLeft'
  BY <1>1 DEF OnlyTarget, StopFirst, NothingLeft, TypeOK
<1>4. Placed'
  BY <1>1, PlacedKept DEF TypeOK
<1> QED
  BY <1>2, <1>3, <1>4

LEMMA BlockIInv ==
  ASSUME IInv, NEW w \in Workers, Block(w), pc[w] \in {"top", "woken"}
  PROVE  IInv'
<1> USE DEF IInv
<1>1. /\ first[w] = {} /\ pc' = [pc EXCEPT ![w] = "blocking"]
      /\ UNCHANGED <<first, stop, task, target, main, submitted, notified, ran>>
  BY OwnTasksFact DEF Block
<1>2. TypeOK'
  BY <1>1 DEF TypeOK, Labels
<1>3. OnlyTarget' /\ StopFirst' /\ NothingLeft'
  BY <1>1 DEF OnlyTarget, StopFirst, NothingLeft, TypeOK
<1>4. Placed'
  BY <1>1, PlacedKept DEF TypeOK
<1> QED
  BY <1>2, <1>3, <1>4

LEMMA SleepIInv ==
  ASSUME IInv, NEW w \in Workers, Sleep(w)
  PROVE  IInv'
<1> USE DEF IInv
<1>1. /\ pc[w] = "blocking" /\ pc' = [pc EXCEPT ![w] = "waiting"]
      /\ UNCHANGED <<first, stop, task, target, main, submitted, notified, ran>>
  BY DEF Sleep
<1>2. first[w] = {}
  BY <1>1 DEF NothingLeft
<1>3. TypeOK'
  BY <1>1 DEF TypeOK, Labels
<1>4. OnlyTarget' /\ StopFirst' /\ NothingLeft'
  BY <1>1, <1>2 DEF OnlyTarget, StopFirst, NothingLeft, TypeOK
<1>5. Placed'
  BY <1>1, PlacedKept DEF TypeOK
<1> QED
  BY <1>3, <1>4, <1>5

LEMMA RunIInv ==
  ASSUME IInv, NEW w \in Workers, Run(w)
  PROVE  IInv'
<1> USE DEF IInv
<1> DEFINE t == task[w]
<1>1. /\ pc[w] = "running" /\ pc' = [pc EXCEPT ![w] = "top"]
      /\ ran' = [ran EXCEPT ![t] = @ + 1] /\ task' = [task EXCEPT ![w] = 0]
      /\ UNCHANGED <<first, stop, target, main, submitted, notified>>
  BY DEF Run
<1>2. t \in Tasks /\ Holds(w, t)
  BY <1>1 DEF Placed, Holds
<1>3. t <= submitted /\ ran[t] = 0 /\ \A v \in Workers : Holds(v, t) => v = w
  BY <1>2 DEF Placed
<1> HIDE DEF t
<1>4. ran' = [ran EXCEPT ![t] = 1] /\ ran \in [Tasks -> Nat]
  BY <1>1, <1>2, <1>3 DEF TypeOK
<1>5. TypeOK'
  <2>1. ran' \in [Tasks -> Nat]
    BY <1>4
  <2>2. pc' \in [Workers -> Labels] /\ task' \in [Workers -> Tasks \cup {0}]
    BY <1>1 DEF TypeOK, Labels
  <2> QED
    BY <1>1, <2>1, <2>2 DEF TypeOK
<1>6. OnlyTarget' /\ StopFirst' /\ NothingLeft'
  BY <1>1 DEF OnlyTarget, StopFirst, NothingLeft, TypeOK
<1>7. Placed'
  <2>1. \A v \in Workers : \A u : Holds(v, u)' <=> v # w /\ Holds(v, u)
    BY <1>1 DEF Holds, TypeOK
  <2>2. \A u \in Tasks : ran'[u] = IF u = t THEN 1 ELSE ran[u]
    BY <1>4
  <2>3. \A v \in Workers : t \notin first[v]
    BY <1>2 DEF Placed
  <2>4. \A v \in Workers : pc'[v] = "running" => task'[v] \in Tasks
    BY <1>1 DEF Placed, TypeOK
  <2>5. \A v \in Workers : \A u \in first'[v] :
          u <= submitted' /\ ran'[u] = 0 /\ \A x \in Workers : ~Holds(x, u)'
    <3>1. \A v \in Workers : \A u \in first[v] : u \in Tasks /\ u # t
      BY <2>3 DEF TypeOK
    <3> QED
      BY <1>1, <2>1, <2>2, <3>1 DEF Placed
  <2>6. \A x, v \in Workers : \A u \in Tasks : Holds(x, u)' =>
          u <= submitted' /\ ran'[u] = 0 /\ (Holds(v, u)' => v = x)
    BY <1>1, <1>3, <2>1, <2>2 DEF Placed
  <2>7. \A u \in Tasks : ran'[u] \in {0, 1} /\ (ran'[u] = 1 => u <= submitted')
    BY <1>1, <1>3, <2>2 DEF Placed
  <2>8. ASSUME NEW u \in Tasks, u <= submitted', ran'[u] = 0
        PROVE  \E v \in Workers : u \in first'[v] \/ Holds(v, u)'
    <3>1. u # t /\ ran[u] = 0
      BY <2>2, <2>8
    <3>2. PICK v \in Workers : u \in first[v] \/ Holds(v, u)
      BY <1>1, <2>8, <3>1 DEF Placed
    <3>3. u \in first'[v] \/ (Holds(v, u) /\ v # w)
      BY <1>1, <1>2, <3>1, <3>2 DEF Holds
    <3> QED
      BY <2>1, <3>3
  <2> QED
    BY <2>4, <2>5, <2>6, <2>7, <2>8 DEF Placed
<1> QED
  BY <1>5, <1>6, <1>7

(* Whoever wakes a sleeping worker, the invariant does not mind.            *)
LEMMA WakeIInv ==
  ASSUME IInv, NEW w \in Workers, pc[w] = "waiting", pc' = [pc EXCEPT ![w] = "woken"],
         UNCHANGED <<first, stop, task, target, main, submitted, notified, ran>>
  PROVE  IInv'
<1> USE DEF IInv
<1>1. TypeOK'
  BY DEF TypeOK, Labels
<1>2. OnlyTarget' /\ StopFirst' /\ NothingLeft'
  BY DEF OnlyTarget, StopFirst, NothingLeft, TypeOK
<1>3. Placed'
  BY PlacedKept DEF TypeOK
<1> QED
  BY <1>1, <1>2, <1>3

LEMMA enqueueIInv ==
  ASSUME IInv, enqueue
  PROVE  IInv'
<1> USE DEF IInv
<1>0. PICK t \in Nat : t = submitted + 1
  BY TaskFacts
<1>1. /\ main = "enqueue" /\ main' = "notify_one" /\ pc[target] # "blocking"
      /\ first' = [first EXCEPT ![target] = @ \cup {t}] /\ submitted' = t
      /\ UNCHANGED <<stop, pc, task, target, notified, ran>>
  BY <1>0 DEF enqueue, Locked
<1>2. /\ t \in Tasks /\ t \in 0..Len(Priorities) /\ t \in Nat /\ submitted \in Nat
      /\ ~(t <= submitted) /\ \A u \in Tasks : u <= t <=> u <= submitted \/ u = t
  BY <1>0, TaskFacts DEF enqueue, MoreTasks, TypeOK
<1>3. TypeOK'
  <2>1. first' \in [Workers -> SUBSET Tasks]
    BY <1>1, <1>2 DEF TypeOK
  <2> QED
    BY <1>1, <1>2, <2>1 DEF TypeOK
<1>4. \A v \in Workers : first'[v] = IF v = target THEN first[v] \cup {t} ELSE first[v]
  BY <1>1 DEF TypeOK
<1>5. OnlyTarget'
  BY <1>1, <1>4 DEF OnlyTarget
<1>6. StopFirst'
  BY <1>1 DEF StopFirst
<1>7. NothingLeft'
  <2>1. pc[target] \notin {"blocking", "exited"}
    BY <1>1 DEF StopFirst, TypeOK
  <2> QED
    BY <1>1, <1>4, <2>1 DEF NothingLeft
<1>8. Placed'
  <2>1. \A v \in Workers : \A u : Holds(v, u)' <=> Holds(v, u)
    BY <1>1 DEF Holds
  <2>2. /\ ran[t] = 0
        /\ \A v \in Workers : ~Holds(v, t)
    BY <1>2 DEF Placed
  <2>3. \A v \in Workers : pc'[v] = "running" => task'[v] \in Tasks
    BY <1>1 DEF Placed
  <2>4. \A v \in Workers : \A u \in first'[v] :
          u <= submitted' /\ ran'[u] = 0 /\ \A x \in Workers : ~Holds(x, u)'
    <3>1. \A v \in Workers : \A u \in first'[v] : u \in first[v] \/ u = t
      BY <1>4
    <3>2. ASSUME NEW v \in Workers, NEW u \in first[v]
          PROVE  u <= submitted' /\ ran'[u] = 0 /\ \A x \in Workers : ~Holds(x, u)'
      <4>1. u \in Tasks /\ u <= submitted /\ ran[u] = 0 /\ \A x \in Workers : ~Holds(x, u)
        BY DEF Placed, TypeOK
      <4>2. ran' = ran /\ submitted' = t
        BY <1>1
      <4>3. u <= t
        BY <1>2, <4>1
      <4> QED
        BY <2>1, <4>1, <4>2, <4>3
    <3>3. t <= submitted' /\ ran'[t] = 0 /\ \A x \in Workers : ~Holds(x, t)'
      <4>1. t <= t
        BY <1>2
      <4>2. ran' = ran /\ submitted' = t
        BY <1>1
      <4> QED
        BY <2>1, <2>2, <4>1, <4>2
    <3> QED
      BY <3>1, <3>2, <3>3
  <2>5. \A x, v \in Workers : \A u \in Tasks : Holds(x, u)' =>
          u <= submitted' /\ ran'[u] = 0 /\ (Holds(v, u)' => v = x)
    BY <1>1, <1>2, <2>1 DEF Placed
  <2>6. \A u \in Tasks : ran'[u] \in {0, 1} /\ (ran'[u] = 1 => u <= submitted')
    BY <1>1, <1>2 DEF Placed
  <2>7. ASSUME NEW u \in Tasks, u <= submitted', ran'[u] = 0
        PROVE  \E v \in Workers : u \in first'[v] \/ Holds(v, u)'
    <3>1. CASE u = t
      <4>1. target \in Workers /\ u \in first'[target]
        BY <1>4, <3>1 DEF TypeOK
      <4> QED
        BY <4>1
    <3>2. CASE u # t
      <4>1. PICK v \in Workers : u \in first[v] \/ Holds(v, u)
        BY <1>1, <1>2, <2>7, <3>2 DEF Placed
      <4> QED
        BY <1>4, <2>1, <4>1
    <3> QED
      BY <3>1, <3>2
  <2> QED
    BY <2>3, <2>4, <2>5, <2>6, <2>7 DEF Placed
<1> QED
  BY <1>3, <1>5, <1>6, <1>7, <1>8

LEMMA enqueue_notifyIInv ==
  ASSUME IInv, enqueue_notify
  PROVE  IInv'
<1> USE DEF IInv
<1>1. /\ main = "notify_one" /\ main' = "enqueue" /\ target \in Workers
      /\ pc' = IF pc[target] = "waiting" THEN [pc EXCEPT ![target] = "woken"] ELSE pc
      /\ UNCHANGED <<first, stop, task, target, submitted, notified, ran>>
  BY DEF enqueue_notify, Notified, Notify, TypeOK
<1>2. TypeOK'
  BY <1>1 DEF TypeOK, Labels
<1>3. OnlyTarget' /\ StopFirst'
  BY <1>1 DEF OnlyTarget, StopFirst, TypeOK
<1>4. NothingLeft'
  <2>1. \A v \in Workers : first'[v] # {} => v = target
    BY <1>1 DEF OnlyTarget
  <2>2. /\ pc'[target] # "waiting"
        /\ pc'[target] \in {"blocking", "exited"} => pc[target] \in {"blocking", "exited"}
    BY <1>1 DEF TypeOK
  <2> QED
    BY <1>1, <2>1, <2>2 DEF NothingLeft
<1>5. Placed'
  BY <1>1, PlacedKept DEF TypeOK
<1> QED
  BY <1>2, <1>3, <1>4, <1>5

LEMMA set_stopIInv ==
  ASSUME IInv, set_stop
  PROVE  IInv'
<1> USE DEF IInv
<1>1. /\ main = "enqueue" /\ main' = "notify_all" /\ stop' = TRUE
      /\ UNCHANGED <<first, pc, task, target, submitted, notified, ran>>
  BY DEF set_stop
<1>2. TypeOK' /\ OnlyTarget' /\ StopFirst' /\ NothingLeft'
  BY <1>1 DEF TypeOK, OnlyTarget, StopFirst, NothingLeft
<1>3. Placed'
  BY <1>1, PlacedKept
<1> QED
  BY <1>2, <1>3

LEMMA stop_notifyIInv ==
  ASSUME IInv, NEW w \in Workers, stop_notify(w)
  PROVE  IInv'
<1> USE DEF IInv
<1>1. /\ main = "notify_all" /\ main' \in {"notify_all", "join"}
      /\ pc' = IF pc[w] = "waiting" THEN [pc EXCEPT ![w] = "woken"] ELSE pc
      /\ notified' = notified \cup {w}
      /\ UNCHANGED <<first, stop, task, target, submitted, ran>>
  BY DEF stop_notify, Notify
<1>2. TypeOK'
  BY <1>1 DEF TypeOK, Labels
<1>3. OnlyTarget' /\ StopFirst' /\ NothingLeft'
  BY <1>1 DEF OnlyTarget, StopFirst, NothingLeft, TypeOK
<1>4. Placed'
  BY <1>1, PlacedKept DEF TypeOK
<1> QED
  BY <1>2, <1>3, <1>4

LEMMA joinIInv ==
  ASSUME IInv, join
  PROVE  IInv'
<1> USE DEF IInv
<1>1. /\ main = "join" /\ main' = "done"
      /\ UNCHANGED <<first, stop, pc, task, target, submitted, notified, ran>>
  BY DEF join
<1>2. TypeOK' /\ OnlyTarget' /\ StopFirst' /\ NothingLeft'
  BY <1>1 DEF TypeOK, OnlyTarget, StopFirst, NothingLeft
<1>3. Placed'
  BY <1>1, PlacedKept
<1> QED
  BY <1>2, <1>3

LEMMA workerIInv ==
  ASSUME IInv, NEW w \in Workers, worker(w)
  PROVE  IInv'
<1>1. CASE Loop(w)
  BY <1>1, getTaskIInv, ExitIInv, BlockIInv DEF Loop
<1>2. CASE Woken(w)
  BY <1>2, getTaskIInv, ExitIInv, BlockIInv DEF Woken
<1> QED
  BY <1>1, <1>2, SleepIInv, RunIInv DEF worker

LEMMA StepIInv == IInv /\ [Next]_vars => IInv'
<1> SUFFICES ASSUME IInv, [Next]_vars PROVE IInv'
  OBVIOUS
<1>1. ASSUME NEW w \in Workers, worker(w) PROVE IInv'
  BY <1>1, workerIInv
<1>2. ASSUME NEW w \in Workers, SpuriousWakeup(w) PROVE IInv'
  BY <1>2, WakeIInv DEF SpuriousWakeup
<1>3. CASE mainThread
  BY <1>3, enqueueIInv, enqueue_notifyIInv, set_stopIInv, stop_notifyIInv, joinIInv
     DEF mainThread
<1>4. CASE UNCHANGED vars
  BY <1>4, PlacedKept DEF vars, IInv, TypeOK, OnlyTarget, StopFirst, NothingLeft
<1> QED
  BY <1>1, <1>2, <1>3, <1>4 DEF Next, Terminated

(* Every state of the pool and of main() satisfies the invariant.           *)
THEOREM Invariance == Safety => []IInv
BY InitIInv, StepIInv, PTL DEF Safety

(***************************************************************************)
(* What the invariant says                                                 *)
(***************************************************************************)

(* Every variable of the pool and of main() keeps its type.                 *)
THEOREM TypeCorrect == Safety => []TypeOK
<1>1. IInv => TypeOK
  BY DEF IInv
<1> QED
  BY <1>1, Invariance, PTL

(* No task is lost, taken by two workers or called twice, whatever the      *)
(* interleaving of main(), the workers and the destructor.                  *)
THEOREM EveryTaskOnce == Safety => []ExactlyOnce
<1>1. IInv => ExactlyOnce
  <2> SUFFICES ASSUME IInv, NEW t \in Tasks
               PROVE  Places(t) = IF t <= submitted THEN 1 ELSE 0
    BY DEF ExactlyOnce
  <2> DEFINE Queued == {w \in Workers : t \in first[w]}
             Held == {w \in Workers : pc[w] = "running" /\ task[w] = t}
  <2>1. /\ \A w \in Held : t <= submitted /\ ran[t] = 0
        /\ \A w, v \in Held : v = w
    BY DEF IInv, Placed, Holds
  <2>2. /\ \A w \in Queued : t <= submitted /\ ran[t] = 0 /\ Held = {}
        /\ \A w, v \in Queued : v = w
    BY DEF IInv, Placed, OnlyTarget, Holds
  <2>3. /\ ran[t] \in {0, 1} /\ (ran[t] = 1 => t <= submitted)
        /\ t <= submitted /\ ran[t] = 0 => Queued # {} \/ Held # {}
    BY DEF IInv, Placed, Holds
  <2>4. Queued = {} \/ \E w : Queued = {w}
    BY <2>2
  <2>5. Held = {} \/ \E w : Held = {w}
    BY <2>1
  <2> HIDE DEF Queued, Held
  <2>6. Cardinality(Queued) = IF Queued = {} THEN 0 ELSE 1
    <3>1. \A w : Cardinality({w}) = 1 /\ {w} # {}
      BY FS_Singleton
    <3> QED
      BY <2>4, <3>1, FS_EmptySet
  <2>7. Cardinality(Held) = IF Held = {} THEN 0 ELSE 1
    <3>1. \A w : Cardinality({w}) = 1 /\ {w} # {}
      BY FS_Singleton
    <3> QED
      BY <2>5, <3>1, FS_EmptySet
  <2>8. Cardinality(Queued) + Cardinality(Held) + ran[t] = IF t <= submitted THEN 1 ELSE 0
    <3>1. CASE ran[t] = 1
      <4>1. Queued = {} /\ Held = {} /\ t <= submitted
        BY <2>1, <2>2, <2>3, <3>1
      <4> QED
        BY <2>6, <2>7, <3>1, <4>1
    <3>2. CASE ran[t] = 0
      <4>1. Queued # {} => Held = {}
        BY <2>2
      <4>2. Queued # {} \/ Held # {} <=> t <= submitted
        BY <2>1, <2>2, <2>3, <3>2
      <4> QED
        BY <2>6, <2>7, <3>2, <4>1, <4>2
    <3> QED
      BY <2>3, <3>1, <3>2
  <2> QED
    BY <2>8 DEF Places, Queued, Held
<1> QED
  BY <1>1, Invariance, PTL

(* enqueue()'s notification is never lost: whoever has a task queued is     *)
(* awake, or about to be notified, and has not left.                        *)
THEOREM NoLostNotification == Safety => []TargetAwake
<1>1. IInv => TargetAwake
  BY DEF IInv, NothingLeft, TargetAwake
<1> QED
  BY <1>1, Invariance, PTL
=============================================================================
