--------------------------- MODULE ThreadPoolProofs ---------------------------
(***************************************************************************)
(* Proofs about ThreadPool, for every finite set of workers and every      *)
(* number of tasks.                                                        *)
(***************************************************************************)
EXTENDS ThreadPool, FiniteSetTheorems, SequenceTheorems, TLAPS

(* What main() has done so far fixes stop and, once it is set, submitted.   *)
MainAndStop == /\ stop <=> main \in {"notify_all", "join", "done"}
               /\ stop => submitted = NTasks

IInv == TypeOK /\ ExactlyOnce /\ WorkConserving /\ CleanShutdown /\ MainAndStop

(***************************************************************************)
(* The queue                                                               *)
(***************************************************************************)

(* Basic facts of a queue in order.                                        *)
LEMMA QueueFacts ==
  ASSUME TypeOK, InOrder
  PROVE  /\ Len(tasks) \in Nat /\ Taken \in Nat /\ Taken <= submitted
         /\ submitted \in Nat /\ submitted <= NTasks /\ NTasks \in Nat
         /\ tasks = <<>> <=> Len(tasks) = 0
BY NTasksAssumption, LenProperties, EmptySeq DEF TypeOK, InOrder, Taken

(* Take hands out the task after the ones already taken.                   *)
LEMMA TakeMoves ==
  ASSUME TypeOK, InOrder, NEW w \in Workers, Take(w)
  PROVE  /\ Taken + 1 \in Tasks
         /\ task' = [task EXCEPT ![w] = Taken + 1]
         /\ Len(tasks') = Len(tasks) - 1 /\ Taken' = Taken + 1
         /\ tasks' \in Seq(Tasks)
         /\ InOrder'
<1>1. /\ tasks # <<>> /\ tasks' = Tail(tasks) /\ submitted' = submitted
      /\ task' = [task EXCEPT ![w] = tasks[1]]
  BY DEF Take, Pop, NextTask
<1>2. /\ tasks' \in Seq(Tasks) /\ Len(tasks') = Len(tasks) - 1
      /\ \A i \in 1..Len(tasks') : tasks'[i] = tasks[i+1]
  BY <1>1, HeadTailProperties DEF TypeOK
<1>3. tasks[1] = Taken + 1
  BY <1>1, QueueFacts DEF InOrder
<1>4. Taken + 1 \in Tasks
  BY <1>1, QueueFacts DEF Tasks, Taken
<1>5. Taken' = Taken + 1
  BY <1>1, <1>2, QueueFacts DEF Taken
<1>6. InOrder'
  <2>1. Len(tasks') <= submitted'
    BY <1>1, <1>2, QueueFacts DEF InOrder
  <2>2. ASSUME NEW i \in 1..Len(tasks') PROVE tasks'[i] = Taken' + i
    <3>1. i + 1 \in 1..Len(tasks) /\ i \in Nat
      BY <1>2, QueueFacts
    <3>2. tasks[i + 1] = Taken + (i + 1)
      BY <3>1 DEF InOrder
    <3> QED
      BY <1>2, <1>5, <3>1, <3>2, QueueFacts
  <2> QED
    BY <2>1, <2>2 DEF InOrder
<1> QED
  BY <1>1, <1>2, <1>3, <1>4, <1>5, <1>6

(* enqueue puts the next task at the end.                                  *)
LEMMA EnqueueMoves ==
  ASSUME TypeOK, InOrder, enqueue
  PROVE  /\ Len(tasks') = Len(tasks) + 1 /\ Taken' = Taken
         /\ tasks' \in Seq(Tasks) /\ tasks' # <<>>
         /\ submitted' = submitted + 1 /\ submitted' \in 0..NTasks
         /\ InOrder'
<1>1. submitted + 1 \in Tasks /\ submitted' = submitted + 1
  BY NTasksAssumption DEF enqueue, MoreTasks, Tasks, TypeOK
<1>2. /\ tasks' \in Seq(Tasks) /\ tasks' # <<>> /\ Len(tasks') = Len(tasks) + 1
      /\ \A i \in 1..Len(tasks) : tasks'[i] = tasks[i]
      /\ tasks'[Len(tasks) + 1] = submitted + 1
  BY <1>1, AppendProperties DEF enqueue, TypeOK
<1>3. Taken' = Taken
  BY <1>1, <1>2, QueueFacts DEF Taken
<1>4. InOrder'
  <2>1. Len(tasks') <= submitted'
    BY <1>1, <1>2, QueueFacts DEF InOrder
  <2>2. ASSUME NEW i \in 1..Len(tasks') PROVE tasks'[i] = Taken' + i
    <3>1. i = Len(tasks) + 1 \/ i \in 1..Len(tasks)
      BY <1>2, QueueFacts
    <3>2. CASE i \in 1..Len(tasks)
      BY <1>2, <1>3, <3>2 DEF InOrder
    <3>3. CASE i = Len(tasks) + 1
      <4>1. submitted + 1 = Taken + (Len(tasks) + 1)
        BY QueueFacts DEF Taken
      <4> QED
        BY <1>2, <1>3, <3>3, <4>1
    <3> QED
      BY <3>1, <3>2, <3>3
  <2> QED
    BY <2>1, <2>2 DEF InOrder
<1> QED
  BY <1>1, <1>2, <1>3, <1>4 DEF Tasks

(***************************************************************************)
(* Who is awake                                                            *)
(***************************************************************************)

(* Ready workers are finitely many.                                        *)
LEMMA ReadyFinite == IsFiniteSet(Ready) /\ Cardinality(Ready) \in Nat
<1>1. Ready \in SUBSET Workers
  BY DEF Ready
<1> QED
  BY <1>1, FS_Subset, FS_CardinalityType, WorkersAssumption

(* A worker that stops being ready leaves one fewer; one that becomes       *)
(* ready adds one.                                                         *)
LEMMA ReadyMoves ==
  ASSUME TypeOK, NEW w \in Workers, NEW l \in Labels,
         pc' = [pc EXCEPT ![w] = l]
  PROVE  /\ pc[w] = "ready" /\ l # "ready" => Cardinality(Ready') = Cardinality(Ready) - 1
         /\ pc[w] # "ready" /\ l = "ready" => Cardinality(Ready') = Cardinality(Ready) + 1
         /\ Waiting' = IF l = "waiting" THEN Waiting \cup {w} ELSE Waiting \ {w}
         /\ pc' \in [Workers -> Labels] /\ pc'[w] = l
<1>1. pc \in [Workers -> Labels]
  BY DEF TypeOK
<1>2. ASSUME pc[w] = "ready", l # "ready"
      PROVE  Cardinality(Ready') = Cardinality(Ready) - 1
  <2>1. w \in Ready /\ Ready' = Ready \ {w}
    BY <1>1, <1>2 DEF Ready
  <2> QED
    BY <2>1, ReadyFinite, FS_RemoveElement
<1>3. ASSUME pc[w] # "ready", l = "ready"
      PROVE  Cardinality(Ready') = Cardinality(Ready) + 1
  <2>1. w \notin Ready /\ Ready' = Ready \cup {w}
    BY <1>1, <1>3 DEF Ready
  <2> QED
    BY <2>1, ReadyFinite, FS_AddElement
<1>4. Waiting' = IF l = "waiting" THEN Waiting \cup {w} ELSE Waiting \ {w}
  BY <1>1 DEF Waiting
<1> QED
  BY <1>1, <1>2, <1>3, <1>4

(* notify_one wakes one waiting worker, if there is one.                   *)
LEMMA NotifyOneMoves ==
  ASSUME TypeOK, pc' \in NotifyOne
  PROVE  \/ Waiting = {} /\ pc' = pc
         \/ \E w \in Workers : pc[w] = "waiting" /\ pc' = [pc EXCEPT ![w] = "ready"]
BY DEF NotifyOne, Waiting

(***************************************************************************)
(* What the workers hold                                                   *)
(***************************************************************************)

(* A worker that goes from one label other than "running" to another       *)
(* changes nothing any worker holds.                                       *)
LEMMA HeldUnchanged ==
  ASSUME TypeOK, UNCHANGED <<task, ran>>,
         \A w \in Workers : pc'[w] = "running" <=> pc[w] = "running"
  PROVE  \A t \in Tasks : Held(t)' = Held(t)
BY DEF Held

(* ExactlyOnce depends on the queue, the counts and what is held.          *)
LEMMA ExactlyOnceKept ==
  ASSUME ExactlyOnce, InOrder', Taken' = Taken, ran' = ran,
         \A t \in Tasks : Held(t)' = Held(t)
  PROVE  ExactlyOnce'
BY DEF ExactlyOnce

(***************************************************************************)
(* The invariant, action by action                                         *)
(***************************************************************************)
LEMMA InitIInv == Init => IInv
<1> SUFFICES ASSUME Init PROVE IInv
  OBVIOUS
<1>0. Len(<<>>) = 0 /\ <<>> \in Seq(Tasks)
  BY EmptySeq
<1>1. tasks \in Seq(Tasks) /\ Len(tasks) = 0 /\ Taken = 0
  <2>1. tasks = <<>> /\ submitted = 0
    BY DEF Init
  <2>2. tasks \in Seq(Tasks) /\ Len(tasks) = 0
    BY <1>0, <2>1
  <2>3. Len(tasks) = 0 /\ submitted = 0
    BY <2>1, <2>2
  <2>4. Taken = 0
    BY <2>3, SMT DEF Taken
  <2> QED
    BY <2>2, <2>4
<1>2. TypeOK
  <2>1. /\ pc \in [Workers -> Labels] /\ task \in [Workers -> Tasks \cup {0}]
        /\ \A w \in Workers : pc[w] # "running"
        /\ ran \in [Tasks -> Nat]
    BY DEF Init, Labels
  <2>2. main \in MainLabels /\ stop \in BOOLEAN
    BY DEF Init, MainLabels
  <2>3. submitted \in 0..NTasks
    BY NTasksAssumption DEF Init
  <2> QED
    BY <1>1, <2>1, <2>2, <2>3 DEF TypeOK
<1>3. ExactlyOnce
  BY <1>1 DEF Init, ExactlyOnce, InOrder, Held, Tasks
<1>4. Waiting = {}
  BY DEF Init, Waiting
<1>5. CleanShutdown
  BY <1>4 DEF Init, CleanShutdown
<1> QED
  BY <1>2, <1>3, <1>4, <1>5 DEF IInv, WorkConserving, MainAndStop, Init

LEMMA WaitIInv ==
  ASSUME IInv, NEW w \in Workers, Wait(w)
  PROVE  IInv'
<1> USE DEF IInv
<1>1. /\ pc' = [pc EXCEPT ![w] = "waiting"] /\ pc[w] = "ready" /\ tasks = <<>> /\ ~stop
      /\ UNCHANGED <<tasks, stop, task, main, submitted, ran>>
  BY DEF Wait
<1>2. pc' \in [Workers -> Labels] /\ "waiting" \in Labels
  BY <1>1 DEF TypeOK, Labels
<1>3. TypeOK'
  BY <1>1, <1>2 DEF TypeOK
<1>4. ExactlyOnce'
  <2>1. \A v \in Workers : pc'[v] = "running" <=> pc[v] = "running"
    BY <1>1 DEF TypeOK
  <2>2. InOrder' /\ Taken' = Taken
    BY <1>1 DEF InOrder, Taken, ExactlyOnce
  <2> QED
    BY <1>1, <2>1, <2>2, HeldUnchanged, ExactlyOnceKept
<1>5. WorkConserving'
  <2>1. Len(tasks') = 0
    BY <1>1, EmptySeq
  <2>2. Cardinality(Ready)' \in Nat
    <3>1. Ready' \in SUBSET Workers
      BY DEF Ready
    <3> QED
      BY <3>1, FS_Subset, FS_CardinalityType, WorkersAssumption
  <2> QED
    BY <2>1, <2>2 DEF WorkConserving, AboutToNotify
<1>6. main \notin {"join", "done"}
  BY <1>1 DEF MainAndStop
<1>7. CleanShutdown'
  BY <1>1, <1>6 DEF CleanShutdown, TypeOK
<1>8. MainAndStop'
  BY <1>1 DEF MainAndStop
<1> QED
  BY <1>3, <1>4, <1>5, <1>7, <1>8

LEMMA ExitIInv ==
  ASSUME IInv, NEW w \in Workers, Exit(w)
  PROVE  IInv'
<1> USE DEF IInv
<1>1. /\ pc' = [pc EXCEPT ![w] = "exited"] /\ pc[w] = "ready" /\ tasks = <<>> /\ stop
      /\ UNCHANGED <<tasks, stop, task, main, submitted, ran>>
  BY DEF Exit, MayExit
<1>2. pc' \in [Workers -> Labels] /\ "exited" \in Labels
  BY <1>1 DEF TypeOK, Labels
<1>3. TypeOK'
  BY <1>1, <1>2 DEF TypeOK
<1>4. ExactlyOnce'
  <2>1. \A v \in Workers : pc'[v] = "running" <=> pc[v] = "running"
    BY <1>1 DEF TypeOK
  <2>2. InOrder' /\ Taken' = Taken
    BY <1>1 DEF InOrder, Taken, ExactlyOnce
  <2> QED
    BY <1>1, <2>1, <2>2, HeldUnchanged, ExactlyOnceKept
<1>5. WorkConserving'
  <2>1. Len(tasks') = 0
    BY <1>1, EmptySeq
  <2>2. Cardinality(Ready)' \in Nat
    <3>1. Ready' \in SUBSET Workers
      BY DEF Ready
    <3> QED
      BY <3>1, FS_Subset, FS_CardinalityType, WorkersAssumption
  <2> QED
    BY <2>1, <2>2 DEF WorkConserving, AboutToNotify
<1>6. Waiting' = Waiting
  BY <1>1 DEF Waiting, TypeOK
<1>7. CleanShutdown'
  BY <1>1, <1>6 DEF CleanShutdown, MainAndStop
<1>8. MainAndStop'
  BY <1>1 DEF MainAndStop
<1> QED
  BY <1>3, <1>4, <1>5, <1>7, <1>8

LEMMA TakeIInv ==
  ASSUME IInv, NEW w \in Workers, Take(w)
  PROVE  IInv'
<1> USE DEF IInv
<1>1. /\ pc' = [pc EXCEPT ![w] = "running"] /\ pc[w] = "ready" /\ tasks # <<>>
      /\ UNCHANGED <<stop, main, submitted, ran>>
  BY DEF Take
<1>2. pc' \in [Workers -> Labels] /\ "running" \in Labels /\ pc'[w] = "running"
  BY <1>1 DEF TypeOK, Labels
<1>3. /\ Taken + 1 \in Tasks /\ Taken \in Nat
      /\ task' = [task EXCEPT ![w] = Taken + 1] /\ task'[w] = Taken + 1
      /\ Len(tasks') = Len(tasks) - 1 /\ Taken' = Taken + 1 /\ Len(tasks) \in Nat
      /\ tasks' \in Seq(Tasks) /\ InOrder'
  BY TakeMoves, QueueFacts DEF ExactlyOnce, TypeOK
<1>4. TypeOK'
  <2>1. \A v \in Workers : pc'[v] = "running" => task'[v] # 0
    BY <1>1, <1>3 DEF TypeOK
  <2> QED
    BY <1>1, <1>2, <1>3, <2>1 DEF TypeOK
<1>5. ExactlyOnce'
  <2>1. \A t \in Tasks : Held(t)' = IF t = Taken + 1 THEN Held(t) \cup {w} ELSE Held(t)
    BY <1>1, <1>2, <1>3 DEF Held, TypeOK
  <2>2. ASSUME NEW t \in Tasks
        PROVE  (\/ t > Taken /\ ran[t] = 0 /\ Held(t) = {}
                \/ t <= Taken /\ ran[t] = 1 /\ Held(t) = {}
                \/ t <= Taken /\ ran[t] = 0 /\ \E v \in Workers : Held(t) = {v})'
    <3>1. CASE t = Taken + 1
      <4>1. ran[t] = 0 /\ Held(t) = {}
        BY <1>3, <3>1 DEF ExactlyOnce
      <4> QED
        BY <1>1, <1>3, <2>1, <3>1, <4>1
    <3>2. CASE t # Taken + 1
      <4>1. Held(t)' = Held(t) /\ ran'[t] = ran[t]
        BY <1>1, <2>1, <3>2
      <4>2. (t > Taken)' <=> t > Taken
        BY <1>3, <3>2 DEF Tasks
      <4>3. (t <= Taken)' <=> t <= Taken
        BY <1>3, <3>2 DEF Tasks
      <4> QED
        BY <4>1, <4>2, <4>3 DEF ExactlyOnce
    <3> QED
      BY <3>1, <3>2
  <2> QED
    BY <1>3, <2>2 DEF ExactlyOnce
<1>6. Waiting' = Waiting /\ Cardinality(Ready)' = Cardinality(Ready) - 1
  BY <1>1, <1>2, ReadyMoves DEF Waiting, TypeOK
<1>7. WorkConserving'
  BY <1>1, <1>3, <1>6, ReadyFinite DEF WorkConserving, AboutToNotify
<1>8. CleanShutdown'
  BY <1>1, <1>6 DEF CleanShutdown, TypeOK
<1>9. MainAndStop'
  BY <1>1 DEF MainAndStop
<1> QED
  BY <1>4, <1>5, <1>7, <1>8, <1>9

LEMMA RunIInv ==
  ASSUME IInv, NEW w \in Workers, Run(w)
  PROVE  IInv'
<1> USE DEF IInv
<1>0. PICK t0 \in Tasks : t0 = task[w]
  BY DEF Run, TypeOK
<1>1. /\ pc' = [pc EXCEPT ![w] = "ready"] /\ pc[w] = "running"
      /\ task' = [task EXCEPT ![w] = 0]
      /\ ran' = [ran EXCEPT ![t0] = ran[t0] + 1]
      /\ UNCHANGED <<tasks, stop, main, submitted>>
  BY <1>0 DEF Run
<1>2. pc' \in [Workers -> Labels] /\ "ready" \in Labels /\ pc'[w] = "ready"
  BY <1>1 DEF TypeOK, Labels
<1>3. w \in Held(t0)
  BY <1>0, <1>1 DEF Held
<1>4. TypeOK'
  BY <1>1, <1>2, <1>3 DEF TypeOK
<1>5. InOrder' /\ Taken' = Taken /\ Taken \in Nat
  BY <1>1, QueueFacts DEF InOrder, Taken, ExactlyOnce
<1>6. t0 <= Taken /\ ran[t0] = 0 /\ Held(t0) = {w}
  BY <1>3 DEF ExactlyOnce
<1>7. ran'[t0] = 1 /\ \A t \in Tasks \ {t0} : ran'[t] = ran[t]
  BY <1>1, <1>3, <1>6 DEF TypeOK
<1>8. Held(t0)' = {} /\ \A t \in Tasks \ {t0} : Held(t)' = Held(t)
  BY <1>0, <1>1, <1>3, <1>6 DEF Held, TypeOK
<1>9. ExactlyOnce'
  <2> SUFFICES ASSUME NEW t \in Tasks
               PROVE  (\/ t > Taken /\ ran[t] = 0 /\ Held(t) = {}
                       \/ t <= Taken /\ ran[t] = 1 /\ Held(t) = {}
                       \/ t <= Taken /\ ran[t] = 0 /\ \E v \in Workers : Held(t) = {v})'
    BY <1>5 DEF ExactlyOnce
  <2>1. CASE t = t0
    BY <1>5, <1>6, <1>7, <1>8, <2>1
  <2>2. CASE t # t0
    BY <1>5, <1>7, <1>8, <2>2 DEF ExactlyOnce
  <2> QED
    BY <2>1, <2>2
<1>10. Waiting' = Waiting /\ Cardinality(Ready)' = Cardinality(Ready) + 1
  BY <1>1, <1>2, ReadyMoves DEF Waiting, TypeOK
<1>11. WorkConserving'
  <2>1. Len(tasks) \in Nat
    BY QueueFacts DEF ExactlyOnce
  <2> QED
    BY <1>1, <1>10, <2>1, ReadyFinite DEF WorkConserving, AboutToNotify
<1>12. main # "done"
  BY <1>1, <1>6 DEF CleanShutdown, TypeOK
<1>13. CleanShutdown'
  BY <1>1, <1>10, <1>12 DEF CleanShutdown, TypeOK
<1>14. MainAndStop'
  BY <1>1 DEF MainAndStop
<1> QED
  BY <1>4, <1>9, <1>11, <1>13, <1>14

(* A waiting worker is woken, by a notification or for no reason.           *)
LEMMA WakeOneIInv ==
  ASSUME IInv, NEW w \in Workers, pc[w] = "waiting", pc' = [pc EXCEPT ![w] = "ready"],
         UNCHANGED <<tasks, stop, task, submitted, ran>>,
         main' \in MainLabels, MainAndStop', AboutToNotify <= AboutToNotify' + 1,
         main' \in {"join", "done"} => main' = main
  PROVE  IInv'
<1> USE DEF IInv
<1>1. pc' \in [Workers -> Labels] /\ "ready" \in Labels /\ pc'[w] = "ready"
  BY DEF TypeOK, Labels
<1>2. TypeOK'
  BY <1>1 DEF TypeOK
<1>3. ExactlyOnce'
  <2>1. \A v \in Workers : pc'[v] = "running" <=> pc[v] = "running"
    BY DEF TypeOK
  <2>2. InOrder' /\ Taken' = Taken
    BY DEF InOrder, Taken, ExactlyOnce
  <2> QED
    BY <2>1, <2>2, HeldUnchanged, ExactlyOnceKept
<1>4. Waiting' = Waiting \ {w} /\ Cardinality(Ready)' = Cardinality(Ready) + 1
  BY <1>1, ReadyMoves
<1>5. WorkConserving'
  <2>1. Len(tasks) \in Nat /\ AboutToNotify \in Nat /\ AboutToNotify' \in Nat
    BY QueueFacts DEF ExactlyOnce, AboutToNotify
  <2>2. w \in Waiting
    BY DEF Waiting
  <2>3. Len(tasks) <= Cardinality(Ready) + AboutToNotify
    BY <2>2 DEF WorkConserving
  <2>4. Len(tasks') <= Cardinality(Ready)' + AboutToNotify'
    <3>1. /\ Len(tasks') = Len(tasks) /\ Cardinality(Ready) \in Nat
          /\ Cardinality(Ready)' = Cardinality(Ready) + 1
      BY <1>4, ReadyFinite
    <3>2. AboutToNotify \in Nat /\ AboutToNotify' \in Nat /\ Len(tasks) \in Nat
      BY <2>1
    <3>3. \A l, c, m, n \in Nat : l <= c + m /\ m <= n + 1 => l <= (c + 1) + n
      OBVIOUS
    <3>4. Len(tasks) <= (Cardinality(Ready) + 1) + AboutToNotify'
      BY <2>3, <3>1, <3>2, <3>3
    <3> QED
      BY <3>1, <3>4
  <2> QED
    BY <2>4 DEF WorkConserving
<1>6. CleanShutdown'
  BY <1>4 DEF CleanShutdown, TypeOK, Waiting
<1> QED
  BY <1>2, <1>3, <1>5, <1>6

LEMMA SpuriousWakeupIInv ==
  ASSUME IInv, NEW w \in Workers, SpuriousWakeup(w)
  PROVE  IInv'
<1> USE DEF IInv
<1>1. /\ pc' = [pc EXCEPT ![w] = "ready"] /\ pc[w] = "waiting"
      /\ UNCHANGED <<tasks, stop, task, main, submitted, ran>>
  BY DEF SpuriousWakeup
<1>2. MainAndStop' /\ AboutToNotify' = AboutToNotify /\ AboutToNotify \in Nat
  BY <1>1 DEF MainAndStop, AboutToNotify
<1>3. main' \in MainLabels
  BY <1>1 DEF TypeOK
<1>4. AboutToNotify <= AboutToNotify' + 1
  BY <1>2
<1>5. UNCHANGED <<tasks, stop, task, submitted, ran>> /\ main' = main
  BY <1>1
<1> HIDE DEF IInv
<1> QED
  BY <1>1, <1>2, <1>3, <1>4, <1>5, WakeOneIInv

LEMMA enqueueIInv ==
  ASSUME IInv, enqueue
  PROVE  IInv'
<1> USE DEF IInv
<1>1. /\ main = "enqueue" /\ main' = "notify_one"
      /\ UNCHANGED <<stop, pc, task, ran>>
  BY DEF enqueue
<1>2. /\ Len(tasks') = Len(tasks) + 1 /\ Taken' = Taken /\ Len(tasks) \in Nat
      /\ tasks' \in Seq(Tasks) /\ submitted' \in 0..NTasks
      /\ InOrder'
  BY EnqueueMoves, QueueFacts DEF ExactlyOnce
<1>3. TypeOK'
  BY <1>1, <1>2 DEF TypeOK, MainLabels
<1>4. ExactlyOnce'
  BY <1>1, <1>2, HeldUnchanged, ExactlyOnceKept
<1>5. Waiting' = Waiting /\ Ready' = Ready
  BY <1>1 DEF Waiting, Ready
<1>6. WorkConserving'
  BY <1>1, <1>2, <1>5, ReadyFinite DEF WorkConserving, AboutToNotify
<1>7. ~stop
  BY <1>1 DEF MainAndStop
<1>8. CleanShutdown'
  BY <1>1, <1>7 DEF CleanShutdown
<1>9. MainAndStop'
  BY <1>1, <1>7 DEF MainAndStop
<1> QED
  BY <1>3, <1>4, <1>6, <1>8, <1>9

LEMMA enqueue_notifyIInv ==
  ASSUME IInv, enqueue_notify
  PROVE  IInv'
<1> USE DEF IInv
<1>1. /\ main = "notify_one" /\ main' = "enqueue" /\ pc' \in NotifyOne
      /\ UNCHANGED <<tasks, stop, task, submitted, ran>>
  BY DEF enqueue_notify, Notified
<1>2. main' \in MainLabels /\ ~stop /\ ~stop'
  BY <1>1 DEF MainAndStop, MainLabels
<1>3. CASE Waiting = {} /\ pc' = pc
  <2>1. Waiting' = {}
    BY <1>3 DEF Waiting
  <2>2. TypeOK'
    BY <1>1, <1>2, <1>3 DEF TypeOK
  <2>3. ExactlyOnce'
    <3>1. InOrder' /\ Taken' = Taken
      BY <1>1 DEF InOrder, Taken, ExactlyOnce
    <3> QED
      BY <1>1, <1>3, <3>1, HeldUnchanged, ExactlyOnceKept
  <2>4. WorkConserving' /\ CleanShutdown' /\ MainAndStop'
    BY <1>1, <1>2, <1>3, <2>1 DEF WorkConserving, CleanShutdown, MainAndStop
  <2> QED
    BY <2>2, <2>3, <2>4
<1>4. ASSUME NEW w \in Workers, pc[w] = "waiting", pc' = [pc EXCEPT ![w] = "ready"]
      PROVE  IInv'
  <2>1. MainAndStop' /\ AboutToNotify = 1 /\ AboutToNotify' = 0
    BY <1>1, <1>2 DEF MainAndStop, AboutToNotify
  <2>2. main' \notin {"join", "done"} /\ AboutToNotify <= AboutToNotify' + 1
    BY <1>1, <2>1
  <2> HIDE DEF IInv
  <2> QED
    BY <1>1, <1>2, <1>4, <2>1, <2>2, WakeOneIInv
<1> QED
  BY <1>1, <1>3, <1>4, NotifyOneMoves

LEMMA set_stopIInv ==
  ASSUME IInv, set_stop
  PROVE  IInv'
<1> USE DEF IInv
<1>1. /\ main = "enqueue" /\ main' = "notify_all" /\ stop' = TRUE
      /\ UNCHANGED <<tasks, pc, task, submitted, ran>>
  BY DEF set_stop
<1>2. submitted = NTasks
  BY NTasksAssumption DEF set_stop, MoreTasks, TypeOK
<1>3. TypeOK'
  BY <1>1 DEF TypeOK, MainLabels
<1>4. ExactlyOnce'
  <2>1. InOrder' /\ Taken' = Taken
    BY <1>1 DEF InOrder, Taken, ExactlyOnce
  <2> QED
    BY <1>1, <2>1, HeldUnchanged, ExactlyOnceKept
<1>5. WorkConserving'
  BY <1>1 DEF WorkConserving, AboutToNotify, Waiting, Ready
<1>6. CleanShutdown'
  BY <1>1 DEF CleanShutdown
<1>7. MainAndStop'
  BY <1>1, <1>2 DEF MainAndStop
<1> QED
  BY <1>3, <1>4, <1>5, <1>6, <1>7

LEMMA stop_notifyIInv ==
  ASSUME IInv, stop_notify
  PROVE  IInv'
<1> USE DEF IInv
<1>1. /\ main = "notify_all" /\ main' = "join" /\ pc' = NotifyAll
      /\ UNCHANGED <<tasks, stop, task, submitted, ran>>
  BY DEF stop_notify, StopNotified
<1>2. /\ pc' \in [Workers -> Labels]
      /\ \A w \in Workers : pc'[w] = IF pc[w] = "waiting" THEN "ready" ELSE pc[w]
  BY <1>1 DEF NotifyAll, TypeOK, Labels
<1>3. Waiting' = {}
  BY <1>2 DEF Waiting
<1>4. TypeOK'
  BY <1>1, <1>2 DEF TypeOK, MainLabels
<1>5. ExactlyOnce'
  <2>1. \A w \in Workers : pc'[w] = "running" <=> pc[w] = "running"
    BY <1>2
  <2>2. InOrder' /\ Taken' = Taken
    BY <1>1 DEF InOrder, Taken, ExactlyOnce
  <2> QED
    BY <1>1, <2>1, <2>2, HeldUnchanged, ExactlyOnceKept
<1>6. WorkConserving'
  BY <1>3 DEF WorkConserving
<1>7. CleanShutdown'
  BY <1>1, <1>2, <1>3 DEF CleanShutdown
<1>8. MainAndStop'
  BY <1>1 DEF MainAndStop
<1> QED
  BY <1>4, <1>5, <1>6, <1>7, <1>8

LEMMA joinIInv ==
  ASSUME IInv, join
  PROVE  IInv'
<1> USE DEF IInv
<1>1. /\ main = "join" /\ main' = "done" /\ \A w \in Workers : pc[w] = "exited"
      /\ UNCHANGED <<tasks, stop, pc, task, submitted, ran>>
  BY DEF join
<1>2. TypeOK'
  BY <1>1 DEF TypeOK, MainLabels
<1>3. ExactlyOnce'
  <2>1. InOrder' /\ Taken' = Taken
    BY <1>1 DEF InOrder, Taken, ExactlyOnce
  <2> QED
    BY <1>1, <2>1, HeldUnchanged, ExactlyOnceKept
<1>4. Waiting' = {}
  BY <1>1 DEF Waiting
(* Some worker has exited, so the queue is empty and every task was taken;  *)
(* no worker holds one any more.                                           *)
<1>5. tasks = <<>> /\ submitted = NTasks
  BY <1>1, WorkersAssumption DEF CleanShutdown
<1>6. Taken = NTasks /\ NTasks \in Nat
  BY <1>5, QueueFacts DEF Taken, ExactlyOnce
<1>7. ASSUME NEW t \in Tasks PROVE ran[t] = 1
  <2>1. Held(t) = {}
    BY <1>1 DEF Held
  <2>2. ~(t > Taken)
    BY <1>6 DEF Tasks
  <2> QED
    BY <2>1, <2>2 DEF ExactlyOnce
<1>8. CleanShutdown'
  BY <1>1, <1>4, <1>7 DEF CleanShutdown
<1>9. WorkConserving' /\ MainAndStop'
  BY <1>1, <1>4 DEF WorkConserving, MainAndStop
<1> QED
  BY <1>2, <1>3, <1>8, <1>9

LEMMA NextIInv == IInv /\ [Next]_vars => IInv'
<1> SUFFICES ASSUME IInv, [Next]_vars PROVE IInv'
  OBVIOUS
<1>1. ASSUME NEW w \in Workers, worker(w) PROVE IInv'
  BY <1>1, WaitIInv, ExitIInv, TakeIInv, RunIInv DEF worker
<1>2. ASSUME NEW w \in Workers, SpuriousWakeup(w) PROVE IInv'
  BY <1>2, SpuriousWakeupIInv
<1>3. CASE mainThread
  BY <1>3, enqueueIInv, enqueue_notifyIInv, set_stopIInv, stop_notifyIInv, joinIInv
     DEF mainThread
<1>4. CASE UNCHANGED vars
  <2>1. UNCHANGED <<tasks, stop, pc, task, main, submitted, ran>>
    BY <1>4 DEF vars
  <2>2. TypeOK' /\ MainAndStop'
    BY <2>1 DEF IInv, TypeOK, MainAndStop
  <2>3. ExactlyOnce'
    BY <2>1 DEF IInv, ExactlyOnce, InOrder, Taken, Held
  <2>4. WorkConserving' /\ CleanShutdown'
    BY <2>1 DEF IInv, WorkConserving, AboutToNotify, CleanShutdown, Waiting, Ready
  <2> QED
    BY <2>2, <2>3, <2>4 DEF IInv
<1> QED
  BY <1>1, <1>2, <1>3, <1>4 DEF Next, Terminated

(***************************************************************************)
(* Theorems                                                                *)
(***************************************************************************)

(* The inductive invariant holds in every reachable state.                 *)
THEOREM Invariance == Safety => []IInv
BY InitIInv, NextIInv, PTL DEF Safety

(* The fields, labels and queue of ThreadPool keep their types.            *)
THEOREM TypeCorrect == Safety => []TypeOK
BY Invariance, PTL DEF IInv

(* A task taken from the queue was the next one, is held by one worker and  *)
(* is called once: none is lost or run twice, whatever the workers do.     *)
THEOREM EachTaskOnce == Safety => []ExactlyOnce
BY Invariance, PTL DEF IInv

(* enqueue's notify_one, though outside the mutex, is enough: no worker     *)
(* sleeps while more tasks are queued than workers are awake for them.      *)
THEOREM NoWakeupLost == Safety => []WorkConserving
BY Invariance, PTL DEF IInv

(* Workers leave only an empty queue, none sleeps through the destructor's  *)
(* notify_all, and the destructor returns only when every task has run.     *)
THEOREM DestructorDrains == Safety => []CleanShutdown
BY Invariance, PTL DEF IInv

(***************************************************************************)
(* Refinement                                                              *)
(***************************************************************************)

(* The abstract stage of a task, read off the queue and the counts.        *)
StageOf(t) == /\ stageBar[t] = "new" <=> t > submitted
              /\ stageBar[t] = "queued" <=> t <= submitted /\ t > Taken
              /\ stageBar[t] = "running" <=> t <= Taken /\ ran[t] = 0
              /\ stageBar[t] = "done" <=> t <= Taken /\ ran[t] = 1

LEMMA Stages == TypeOK /\ ExactlyOnce => \A t \in Tasks : StageOf(t)
<1> SUFFICES ASSUME TypeOK, ExactlyOnce, NEW t \in Tasks PROVE StageOf(t)
  OBVIOUS
<1> USE DEF StageOf
<1>1. t \in Int /\ submitted \in Int /\ Taken \in Int /\ Taken <= submitted
  BY QueueFacts DEF Tasks, ExactlyOnce
<1>2. ran[t] = 0 \/ ran[t] = 1
  BY DEF ExactlyOnce
<1>3. stageBar[t] = CASE t > submitted -> "new"
                      [] t <= submitted /\ t > Taken -> "queued"
                      [] t <= Taken /\ ran[t] = 0 -> "running"
                      [] OTHER -> "done"
  BY DEF stageBar
<1>4. CASE t > submitted
  <2>1. stageBar[t] = "new" /\ ~(t <= submitted) /\ ~(t <= Taken)
    BY <1>1, <1>3, <1>4
  <2> QED
    BY <1>4, <2>1
<1>5. CASE t <= submitted /\ t > Taken
  <2>1. stageBar[t] = "queued" /\ ~(t > submitted) /\ ~(t <= Taken)
    BY <1>1, <1>3, <1>5
  <2> QED
    BY <1>5, <2>1
<1>6. CASE t <= Taken
  <2>1. t <= submitted /\ ~(t > submitted) /\ ~(t > Taken)
    BY <1>1, <1>6
  <2>2. stageBar[t] = IF ran[t] = 0 THEN "running" ELSE "done"
    BY <1>3, <1>6, <2>1
  <2> QED
    BY <1>2, <1>6, <2>1, <2>2
<1> QED
  BY <1>1, <1>4, <1>5, <1>6

(* If only task t changes stage, the abstract state is that one update.    *)
LEMMA StageMoves ==
  ASSUME NEW t \in Tasks, NEW s, stageBar'[t] = s,
         \A u \in Tasks \ {t} : stageBar'[u] = stageBar[u]
  PROVE  stageBar' = [stageBar EXCEPT ![t] = s]
<1>1. /\ stageBar = [u \in Tasks |-> stageBar[u]]
      /\ stageBar' = [u \in Tasks |-> stageBar'[u]]
  BY DEF stageBar
<1> QED
  BY <1>1

(* At most one running task per worker.                                    *)
LEMMA RunningBounded ==
  TypeOK /\ ExactlyOnce => Cardinality(TP!Running) <= Cardinality(Workers)
<1> SUFFICES ASSUME TypeOK, ExactlyOnce
             PROVE  Cardinality(TP!Running) <= Cardinality(Workers)
  OBVIOUS
<1> DEFINE h == [t \in TP!Running |-> CHOOSE w \in Workers : Held(t) = {w}]
<1>1. ASSUME NEW t \in TP!Running
      PROVE  t \in Tasks /\ h[t] \in Workers /\ Held(t) = {h[t]}
  <2>1. t \in Tasks /\ t <= Taken /\ ran[t] = 0
    BY Stages DEF StageOf, TP!Running, TP!Tasks, Tasks
  <2>2. ~(t > Taken)
    BY <2>1, QueueFacts DEF ExactlyOnce, Tasks
  <2>3. \E w \in Workers : Held(t) = {w}
    BY <2>1, <2>2 DEF ExactlyOnce
  <2> QED
    BY <2>1, <2>3
<1>2. ASSUME NEW t \in TP!Running, NEW u \in TP!Running, h[t] = h[u]
      PROVE  t = u
  BY <1>1, <1>2 DEF Held
<1>3. h \in Injection(TP!Running, Workers)
  <2> HIDE DEF h
  <2>1. h \in [TP!Running -> Workers]
    BY <1>1 DEF h
  <2> QED
    BY <1>2, <2>1 DEF Injection, IsInjective
<1> QED
  BY <1>3, FS_Injection, WorkersAssumption

(* Every step of the pool is a step of the abstract pool or a stutter.     *)
LEMMA StepRefines == IInv /\ IInv' /\ [Next]_vars => [TP!Work]_TP!vars
<1>1. (TypeOK /\ ExactlyOnce => \A t \in Tasks : StageOf(t))'
  BY Stages, PTL
<1>2. (TypeOK /\ ExactlyOnce => Cardinality(TP!Running) <= Cardinality(Workers))'
  BY RunningBounded, PTL
<1> SUFFICES ASSUME IInv, IInv', [Next]_vars PROVE [TP!Work]_TP!vars
  OBVIOUS
<1>3. (\A t \in Tasks : StageOf(t)) /\ (\A t \in Tasks : StageOf(t)')
  BY <1>1, Stages DEF IInv
<1>4. /\ TypeOK /\ InOrder /\ TP!Tasks = Tasks
      /\ Taken \in Nat /\ submitted \in Nat /\ Taken <= submitted
  BY QueueFacts DEF IInv, ExactlyOnce, TP!Tasks, Tasks
(* Steps that leave the queue, the counts and main()'s being done alone.    *)
<1>5. ASSUME UNCHANGED <<tasks, submitted, ran>>, main' = "done" <=> main = "done"
      PROVE  [TP!Work]_TP!vars
  BY <1>5 DEF TP!vars, stageBar, Taken
<1>6. ASSUME NEW w \in Workers, Take(w) PROVE [TP!Work]_TP!vars
  <2> DEFINE t == Taken + 1
  <2>1. /\ t \in Tasks /\ Taken' = Taken + 1 /\ t <= submitted
        /\ UNCHANGED <<submitted, ran, main>>
    <3>1. Taken + 1 \in Tasks /\ Taken' = Taken + 1 /\ UNCHANGED <<submitted, ran, main>>
      BY <1>4, <1>6, TakeMoves DEF Take
    <3>2. Taken + 1 <= submitted
      BY <1>4, <1>6, QueueFacts DEF Take, Taken
    <3> QED
      BY <3>1, <3>2
  <2>2. stageBar[t] = "queued" /\ \A u \in Tasks : u < t => stageBar[u] # "queued"
    BY <1>3, <1>4, <2>1 DEF StageOf, Tasks
  <2>3. ASSUME NEW u \in Tasks, u # t PROVE stageBar'[u] = stageBar[u]
    <3>1. /\ u > Taken' <=> u > Taken
          /\ u <= Taken' <=> u <= Taken
      BY <1>4, <2>1, <2>3 DEF Tasks
    <3> QED
      BY <2>1, <3>1 DEF stageBar
  <2>4. PICK t0 \in Tasks : t0 = t
    BY <2>1
  <2>5. stageBar'[t0] = "running"
    <3>1. t0 <= Taken' /\ ran'[t0] = 0
      <4>1. t0 > Taken
        BY <1>4, <2>4
      <4>2. ran[t0] = 0
        BY <1>4, <4>1 DEF IInv, ExactlyOnce, Tasks
      <4> QED
        BY <1>4, <2>1, <2>4, <4>2
    <3> QED
      BY <1>3, <3>1 DEF StageOf
  <2> HIDE DEF t
  <2>6. stageBar' = [stageBar EXCEPT ![t0] = "running"]
    BY <2>3, <2>4, <2>5, StageMoves
  <2>7. TP!Cardinality(TP!Running') <= TP!Cardinality(Workers)
    BY <1>2 DEF IInv, Cardinality, TP!Cardinality
  <2>8. TP!Start(t0)
    BY <1>4, <2>1, <2>2, <2>4, <2>6, <2>7 DEF TP!Start, TP!FirstIn
  <2> QED
    BY <1>4, <2>8 DEF TP!Work
<1>7. ASSUME NEW w \in Workers, Run(w) PROVE [TP!Work]_TP!vars
  <2>1. PICK t \in Tasks : t = task[w]
    BY <1>4, <1>7 DEF Run, TypeOK
  <2>2. w \in Held(t)
    BY <1>7, <2>1 DEF Held, Run
  <2>3. t <= Taken /\ ran[t] = 0
    BY <2>2 DEF IInv, ExactlyOnce
  <2>4. /\ UNCHANGED <<tasks, submitted, main>> /\ Taken' = Taken
        /\ ran'[t] = 1 /\ \A u \in Tasks \ {t} : ran'[u] = ran[u]
    BY <1>4, <1>7, <2>1, <2>3 DEF Run, TypeOK, Taken
  <2>5. stageBar[t] = "running" /\ stageBar'[t] = "done"
    BY <1>3, <2>3, <2>4 DEF StageOf
  <2>6. \A u \in Tasks \ {t} : stageBar'[u] = stageBar[u]
    BY <2>4 DEF stageBar
  <2>7. stageBar' = [stageBar EXCEPT ![t] = "done"]
    BY <2>5, <2>6, StageMoves
  <2>8. TP!Finish(t)
    BY <2>4, <2>5, <2>7 DEF TP!Finish
  <2> QED
    BY <1>4, <2>8 DEF TP!Work
<1>8. CASE enqueue
  <2>1. /\ submitted' = submitted + 1 /\ Taken' = Taken
        /\ submitted' \in 0..NTasks
        /\ main = "enqueue" /\ main' = "notify_one" /\ ran' = ran
    BY <1>4, <1>8, EnqueueMoves DEF enqueue
  <2>2. PICK t \in Tasks : t = submitted + 1
    BY <1>4, <2>1 DEF Tasks
  <2>3. stageBar[t] = "new" /\ \A u \in Tasks : u < t => stageBar[u] # "new"
    BY <1>3, <1>4, <2>2 DEF StageOf, Tasks
  <2>4. stageBar'[t] = "queued"
    BY <1>3, <1>4, <2>1, <2>2 DEF StageOf, Tasks
  <2>5. ASSUME NEW u \in Tasks \ {t} PROVE stageBar'[u] = stageBar[u]
    <3>1. /\ u > submitted' <=> u > submitted
          /\ u <= submitted' <=> u <= submitted
      BY <1>4, <2>1, <2>2 DEF Tasks
    <3> QED
      BY <2>1, <3>1 DEF stageBar
  <2>6. stageBar' = [stageBar EXCEPT ![t] = "queued"]
    BY <2>4, <2>5, StageMoves
  <2>7. TP!Submit(t)
    BY <1>4, <2>1, <2>3, <2>6 DEF TP!Submit, TP!FirstIn
  <2> QED
    BY <1>4, <2>7 DEF TP!Work
<1>9. CASE join
  <2>1. /\ main = "join" /\ main' = "done"
        /\ UNCHANGED <<tasks, submitted, ran>> /\ Taken' = Taken
    BY <1>9 DEF join, Taken
  <2>2. ASSUME NEW t \in Tasks PROVE stageBar[t] = "done"
    <3>1. ran[t] = 1
      BY <2>1 DEF IInv, CleanShutdown
    <3>2. t <= Taken
      BY <1>4, <3>1 DEF IInv, ExactlyOnce, Tasks
    <3> QED
      BY <1>3, <3>1, <3>2 DEF StageOf
  <2>3. stageBar' = stageBar
    BY <2>1 DEF stageBar
  <2>4. TP!Close
    BY <1>4, <2>1, <2>2, <2>3 DEF TP!Close
  <2> QED
    BY <2>4 DEF TP!Work
<1> QED
  <2>1. ASSUME NEW w \in Workers, Wait(w) \/ Exit(w) \/ SpuriousWakeup(w)
        PROVE  [TP!Work]_TP!vars
    BY <1>5, <2>1 DEF Wait, Exit, SpuriousWakeup
  <2>2. CASE enqueue_notify \/ set_stop \/ stop_notify
    BY <1>5, <2>2 DEF enqueue_notify, set_stop, stop_notify
  <2>3. CASE UNCHANGED vars
    BY <1>5, <2>3 DEF vars
  <2> QED
    BY <1>6, <1>7, <1>8, <1>9, <2>1, <2>2, <2>3 DEF Next, worker, mainThread, Terminated

(* Every behaviour of the pool is a behaviour of TaskPool (its safety       *)
(* part): tasks start in the order enqueued, at most one per worker, each   *)
(* runs once, and the pool closes only when all have run.                   *)
THEOREM Refinement == Safety => TP!Safety
<1>1. Init => TP!Init
  <2> SUFFICES ASSUME Init PROVE TP!Init
    OBVIOUS
  <2>1. submitted = 0 /\ main # "done"
    BY DEF Init
  <2>2. \A t \in Tasks : t > submitted
    BY <2>1 DEF Tasks
  <2>3. stageBar = [t \in Tasks |-> "new"]
    <3>1. \A t \in Tasks : stageBar[t] = "new"
      BY <2>2, InitIInv, Stages DEF IInv, StageOf
    <3>2. stageBar = [t \in Tasks |-> stageBar[t]]
      BY DEF stageBar
    <3> QED
      BY <3>1, <3>2
  <2>4. (main = "done") = FALSE
    BY <2>1
  <2> QED
    BY <2>3, <2>4 DEF TP!Init, TP!Tasks, Tasks
<1> QED
  BY <1>1, StepRefines, Invariance, PTL DEF Safety, TP!Safety

=============================================================================
