--------------------------- MODULE RawTaskPoolProofs ---------------------------
(***************************************************************************)
(* Proofs about RawTaskPool, for every finite set of workers and every     *)
(* number of tasks.                                                        *)
(***************************************************************************)
EXTENDS RawTaskPool, FiniteSetTheorems, SequenceTheorems, TLAPS

(* Who has the mutex: the worker in process(), or the destructor.           *)
MutexHeld == /\ \A w \in Workers : pc[w] = "processing" <=> owner = w
             /\ owner = "main" <=> main = "join"

(* What the client has done so far.                                         *)
ClientProgress == /\ stop <=> main \in {"join", "done"}
                  /\ main \in {"notify_one", "delete"} => appended >= 1

(* The tasks no longer in the queue are the first `Taken' ones.             *)
Taken == appended - Len(tasks_queue)
InOrder == /\ Len(tasks_queue) <= appended
           /\ \A i \in 1..Len(tasks_queue) : tasks_queue[i] = Taken + i

(* All of them were processed once, but for the one in a worker's hands,    *)
(* which is the last.                                                       *)
Counted == /\ \A w \in Workers : owner = w => request[w] = Taken
           /\ \A t \in Tasks :
                processed[t] = IF t < Taken \/ (t = Taken /\ owner \notin Workers)
                               THEN 1 ELSE 0

IInv == TypeOK /\ MutexHeld /\ ClientProgress /\ InOrder /\ Counted /\ WorkConserving

(***************************************************************************)
(* The queue                                                               *)
(***************************************************************************)

(* The numbers the invariant is about.                                     *)
LEMMA QueueFacts ==
  ASSUME TypeOK, InOrder
  PROVE  /\ Len(tasks_queue) \in Nat /\ Taken \in Nat /\ Taken <= appended
         /\ appended \in Nat /\ appended <= NTasks /\ NTasks \in Nat
         /\ tasks_queue = <<>> <=> Len(tasks_queue) = 0
BY NTasksAssumption, LenProperties, EmptySeq DEF TypeOK, InOrder, Taken

(* Take hands out the task after the ones already taken.                   *)
LEMMA TakeMoves ==
  ASSUME TypeOK, InOrder, NEW w \in Workers, Take(w)
  PROVE  /\ Taken + 1 \in Tasks
         /\ request' = [request EXCEPT ![w] = Taken + 1]
         /\ Len(tasks_queue') = Len(tasks_queue) - 1 /\ Taken' = Taken + 1
         /\ tasks_queue' \in Seq(Tasks)
         /\ InOrder'
<1>1. /\ tasks_queue # <<>> /\ tasks_queue' = Tail(tasks_queue) /\ appended' = appended
      /\ request' = [request EXCEPT ![w] = tasks_queue[1]]
  BY DEF Take, Pop
<1>2. /\ tasks_queue' \in Seq(Tasks) /\ Len(tasks_queue') = Len(tasks_queue) - 1
      /\ \A i \in 1..Len(tasks_queue') : tasks_queue'[i] = tasks_queue[i+1]
  BY <1>1, HeadTailProperties DEF TypeOK
<1>3. tasks_queue[1] = Taken + 1
  BY <1>1, QueueFacts DEF InOrder
<1>4. Taken + 1 \in Tasks
  BY <1>1, QueueFacts DEF Tasks, Taken
<1>5. Taken' = Taken + 1
  BY <1>1, <1>2, QueueFacts DEF Taken
<1>6. InOrder'
  <2>1. Len(tasks_queue') <= appended'
    BY <1>1, <1>2, QueueFacts DEF InOrder
  <2>2. ASSUME NEW i \in 1..Len(tasks_queue') PROVE tasks_queue'[i] = Taken' + i
    <3>1. i + 1 \in 1..Len(tasks_queue) /\ i \in Nat
      BY <1>2, QueueFacts
    <3>2. tasks_queue[i + 1] = Taken + (i + 1)
      BY <3>1 DEF InOrder
    <3> QED
      BY <1>2, <1>5, <3>1, <3>2, QueueFacts
  <2> QED
    BY <2>1, <2>2 DEF InOrder
<1> QED
  BY <1>1, <1>2, <1>3, <1>4, <1>5, <1>6

(* append puts the next task at the end.                                   *)
LEMMA AppendMoves ==
  ASSUME TypeOK, InOrder, append
  PROVE  /\ Len(tasks_queue') = Len(tasks_queue) + 1 /\ Taken' = Taken
         /\ tasks_queue' \in Seq(Tasks)
         /\ appended' = appended + 1 /\ appended' \in 0..NTasks
         /\ InOrder'
<1>1. appended + 1 \in Tasks /\ appended' = appended + 1
  BY NTasksAssumption DEF append, MoreTasks, Tasks, TypeOK
<1>2. /\ tasks_queue' \in Seq(Tasks) /\ Len(tasks_queue') = Len(tasks_queue) + 1
      /\ \A i \in 1..Len(tasks_queue) : tasks_queue'[i] = tasks_queue[i]
      /\ tasks_queue'[Len(tasks_queue) + 1] = appended + 1
  BY <1>1, AppendProperties DEF append, TypeOK
<1>3. Taken' = Taken
  BY <1>1, <1>2, QueueFacts DEF Taken
<1>4. InOrder'
  <2>1. Len(tasks_queue') <= appended'
    BY <1>1, <1>2, QueueFacts DEF InOrder
  <2>2. ASSUME NEW i \in 1..Len(tasks_queue') PROVE tasks_queue'[i] = Taken' + i
    <3>1. i = Len(tasks_queue) + 1 \/ i \in 1..Len(tasks_queue)
      BY <1>2, QueueFacts
    <3>2. CASE i \in 1..Len(tasks_queue)
      BY <1>2, <1>3, <3>2 DEF InOrder
    <3>3. CASE i = Len(tasks_queue) + 1
      <4>1. appended + 1 = Taken + (Len(tasks_queue) + 1)
        BY QueueFacts DEF Taken
      <4> QED
        BY <1>2, <1>3, <3>3, <4>1
    <3> QED
      BY <3>1, <3>2, <3>3
  <2> QED
    BY <2>1, <2>2 DEF InOrder
<1> QED
  BY <1>1, <1>2, <1>3, <1>4, QueueFacts DEF Tasks

(***************************************************************************)
(* Who will come for the queued tasks                                      *)
(***************************************************************************)

(* The workers that look at the queue again before they sleep.              *)
Awake == {w \in Workers : pc[w] \in {"check", "lock", "processing"}}

LEMMA AwakeFinite == IsFiniteSet(Awake) /\ Cardinality(Awake) \in Nat
<1>1. Awake \in SUBSET Workers
  BY DEF Awake
<1> QED
  BY <1>1, FS_Subset, FS_CardinalityType, WorkersAssumption

(* A sleeper that is woken is one more of them; one that stays awake changes *)
(* neither them nor the sleepers.                                           *)
LEMMA AwakeMoves ==
  ASSUME TypeOK, NEW w \in Workers, NEW l \in {"check", "lock", "processing"},
         pc' = [pc EXCEPT ![w] = l]
  PROVE  /\ pc[w] = "waiting" => Cardinality(Awake') = Cardinality(Awake) + 1
         /\ pc[w] \in {"check", "lock", "processing"} =>
              Awake' = Awake /\ Waiting' = Waiting
         /\ Waiting' \subseteq Waiting
<1>1. pc \in [Workers -> Labels]
  BY DEF TypeOK
<1>2. ASSUME pc[w] = "waiting"
      PROVE  Cardinality(Awake') = Cardinality(Awake) + 1
  <2>1. w \notin Awake /\ Awake' = Awake \cup {w}
    BY <1>1, <1>2 DEF Awake
  <2> QED
    BY <2>1, AwakeFinite, FS_AddElement
<1>3. Waiting' \subseteq Waiting
  BY <1>1 DEF Waiting
<1>4. pc[w] \in {"check", "lock", "processing"} => Awake' = Awake /\ Waiting' = Waiting
  BY <1>1 DEF Awake, Waiting
<1> QED
  BY <1>2, <1>3, <1>4

(* notify_one wakes one sleeping worker, if there is one.                  *)
LEMMA NotifyOneMoves ==
  ASSUME TypeOK, pc' \in NotifyOne
  PROVE  \/ Waiting = {} /\ pc' = pc
         \/ \E w \in Workers : pc[w] = "waiting" /\ pc' = [pc EXCEPT ![w] = "lock"]
BY DEF NotifyOne, Waiting

(***************************************************************************)
(* The invariant, action by action                                         *)
(***************************************************************************)
LEMMA InitIInv == Init => IInv
<1> SUFFICES ASSUME Init PROVE IInv
  OBVIOUS
<1>1. tasks_queue \in Seq(Tasks) /\ Len(tasks_queue) = 0 /\ appended = 0
  BY EmptySeq DEF Init
<1>2. Taken = 0
  BY <1>1 DEF Taken
<1>3. TypeOK
  <2>1. appended \in 0..NTasks /\ tasks_queue \in Seq(Tasks)
    BY <1>1, NTasksAssumption
  <2>2. /\ pc \in [Workers -> Labels] /\ request \in [Workers -> Tasks \cup {0}]
        /\ processed \in [Tasks -> Nat]
    BY DEF Init, Labels
  <2> QED
    BY <2>1, <2>2 DEF Init, TypeOK
<1>4. MutexHeld /\ ClientProgress
  BY OwnerAssumption DEF Init, MutexHeld, ClientProgress
<1>5. InOrder
  BY <1>1 DEF InOrder
<1>6. Counted
  BY <1>2, OwnerAssumption DEF Init, Counted, Tasks
<1>7. Waiting = {}
  BY DEF Init, Waiting
<1> QED
  BY <1>3, <1>4, <1>5, <1>6, <1>7 DEF IInv, WorkConserving

LEMMA CheckStopIInv ==
  ASSUME IInv, NEW w \in Workers, CheckStop(w)
  PROVE  IInv'
<1> USE DEF IInv
<1>1. /\ pc[w] = "check" /\ pc' = [pc EXCEPT ![w] = IF stop THEN "returned" ELSE "lock"]
      /\ UNCHANGED <<tasks_queue, stop, owner, request, main, appended, deleted, processed>>
  BY DEF CheckStop
<1>2. TypeOK'
  BY <1>1 DEF TypeOK, Labels
<1>3. MutexHeld'
  BY <1>1 DEF MutexHeld, TypeOK
<1>4. ClientProgress' /\ InOrder' /\ Counted'
  BY <1>1 DEF ClientProgress, InOrder, Counted, Taken
<1>5. WorkConserving'
  <2>1. CASE stop
    BY <1>1, <2>1 DEF WorkConserving
  <2>2. CASE ~stop
    <3>1. Awake' = Awake /\ Waiting' = Waiting
      BY <1>1, <2>2, AwakeMoves
    <3> QED
      BY <1>1, <3>1 DEF WorkConserving, Awake
  <2> QED
    BY <2>1, <2>2
<1> QED
  BY <1>2, <1>3, <1>4, <1>5

LEMMA WaitIInv ==
  ASSUME IInv, NEW w \in Workers, Wait(w)
  PROVE  IInv'
<1> USE DEF IInv
<1>1. /\ pc[w] = "lock" /\ pc' = [pc EXCEPT ![w] = "waiting"] /\ tasks_queue = <<>>
      /\ UNCHANGED <<tasks_queue, stop, owner, request, main, appended, deleted, processed>>
  BY DEF Wait
<1>2. TypeOK'
  BY <1>1 DEF TypeOK, Labels
<1>3. MutexHeld'
  BY <1>1 DEF MutexHeld, TypeOK
<1>4. ClientProgress' /\ InOrder' /\ Counted'
  BY <1>1 DEF ClientProgress, InOrder, Counted, Taken
<1>5. WorkConserving'
  <2>1. Len(tasks_queue') = 0
    BY <1>1, EmptySeq
  <2>2. Cardinality(Awake)' \in Nat
    <3>1. Awake' \in SUBSET Workers
      BY DEF Awake
    <3> QED
      BY <3>1, FS_Subset, FS_CardinalityType, WorkersAssumption
  <2> QED
    BY <2>1, <2>2 DEF WorkConserving, Awake
<1> QED
  BY <1>2, <1>3, <1>4, <1>5

LEMMA TakeIInv ==
  ASSUME IInv, NEW w \in Workers, Take(w)
  PROVE  IInv'
<1> USE DEF IInv
<1>1. /\ pc[w] = "lock" /\ owner = "nobody" /\ owner' = w
      /\ pc' = [pc EXCEPT ![w] = "processing"]
      /\ UNCHANGED <<stop, main, appended, deleted, processed>>
  BY DEF Take, MutexKept
<1>2. /\ Taken + 1 \in Tasks
      /\ request' = [request EXCEPT ![w] = Taken + 1]
      /\ Len(tasks_queue') = Len(tasks_queue) - 1 /\ Taken' = Taken + 1
      /\ tasks_queue' \in Seq(Tasks)
      /\ InOrder'
  BY TakeMoves
<1>3. TypeOK'
  BY <1>1, <1>2 DEF TypeOK, Labels
<1>4. MutexHeld'
  BY <1>1, OwnerAssumption DEF MutexHeld, TypeOK
<1>5. ClientProgress'
  BY <1>1 DEF ClientProgress
<1>6. Counted'
  <2>1. \A v \in Workers : owner' = v => request'[v] = Taken'
    BY <1>1, <1>2 DEF TypeOK
  <2>2. ASSUME NEW t \in Tasks
        PROVE  processed'[t] = IF t < Taken' \/ (t = Taken' /\ owner' \notin Workers)
                               THEN 1 ELSE 0
    <3>1. t < Taken' <=> t < Taken \/ t = Taken
      BY <1>2, QueueFacts DEF Tasks
    <3> QED
      BY <1>1, <3>1, OwnerAssumption DEF Counted
  <2> QED
    BY <2>1, <2>2 DEF Counted
<1>7. WorkConserving'
  <2>1. Awake' = Awake /\ Waiting' = Waiting
    BY <1>1, AwakeMoves
  <2>2. ~stop /\ Waiting # {} =>
          Len(tasks_queue) <= Cardinality(Awake) + IF main = "notify_one" THEN 1 ELSE 0
    BY DEF WorkConserving, Awake
  <2>3. ~stop' /\ Waiting' # {} =>
          Len(tasks_queue') <= Cardinality(Awake') + IF main' = "notify_one" THEN 1 ELSE 0
    BY <1>1, <1>2, <2>1, <2>2, QueueFacts, AwakeFinite
  <2> QED
    BY <2>3 DEF WorkConserving, Awake
<1> QED
  BY <1>2, <1>3, <1>4, <1>5, <1>6, <1>7

LEMMA ProcessIInv ==
  ASSUME IInv, NEW w \in Workers, Process(w)
  PROVE  IInv'
<1> USE DEF IInv
<1>1. /\ pc[w] = "processing" /\ owner = w /\ owner' = "nobody"
      /\ pc' = [pc EXCEPT ![w] = "check"]
      /\ request' = [request EXCEPT ![w] = 0]
      /\ request[w] = Taken
      /\ processed' = [processed EXCEPT ![Taken] = @ + 1]
      /\ UNCHANGED <<tasks_queue, stop, main, appended, deleted>>
  BY DEF Process, MutexHeld, Counted
<1>2. TypeOK'
  <2>1. processed' \in [Tasks -> Nat]
    <3>1. \A t \in Tasks : processed[t] + 1 \in Nat
      BY DEF TypeOK
    <3> QED
      BY <1>1, <3>1 DEF TypeOK
  <2>2. pc' \in [Workers -> Labels] /\ request' \in [Workers -> Tasks \cup {0}]
    BY <1>1 DEF TypeOK, Labels
  <2> QED
    BY <1>1, <2>1, <2>2 DEF TypeOK
<1>3. MutexHeld'
  BY <1>1, OwnerAssumption DEF MutexHeld, TypeOK
<1>4. ClientProgress' /\ InOrder' /\ Taken' = Taken
  BY <1>1 DEF ClientProgress, InOrder, Taken
<1>5. Counted'
  BY <1>1, <1>4, QueueFacts, OwnerAssumption DEF Counted, TypeOK, Tasks
<1>6. WorkConserving'
  <2>1. Awake' = Awake /\ Waiting' = Waiting
    BY <1>1, AwakeMoves
  <2> QED
    BY <1>1, <2>1 DEF WorkConserving, Awake
<1> QED
  BY <1>2, <1>3, <1>4, <1>5, <1>6

LEMMA SpuriousWakeupIInv ==
  ASSUME IInv, NEW w \in Workers, SpuriousWakeup(w)
  PROVE  IInv'
<1> USE DEF IInv
<1>1. /\ pc[w] = "waiting" /\ pc' = [pc EXCEPT ![w] = "lock"]
      /\ UNCHANGED <<tasks_queue, stop, owner, request, main, appended, deleted, processed>>
  BY DEF SpuriousWakeup
<1>2. TypeOK'
  BY <1>1 DEF TypeOK, Labels
<1>3. MutexHeld'
  BY <1>1 DEF MutexHeld, TypeOK
<1>4. ClientProgress' /\ InOrder' /\ Counted'
  BY <1>1 DEF ClientProgress, InOrder, Counted, Taken
<1>5. WorkConserving'
  <2>1. Cardinality(Awake') = Cardinality(Awake) + 1 /\ Waiting' \subseteq Waiting
    BY <1>1, AwakeMoves
  <2> QED
    BY <1>1, <2>1, QueueFacts, AwakeFinite DEF WorkConserving, Awake
<1> QED
  BY <1>2, <1>3, <1>4, <1>5

LEMMA appendIInv ==
  ASSUME IInv, append
  PROVE  IInv'
<1> USE DEF IInv
<1>1. /\ main = "append" /\ main' = "notify_one" /\ appended' = appended + 1
      /\ UNCHANGED <<stop, owner, pc, request, deleted, processed>>
  BY DEF append
<1>2. /\ Len(tasks_queue') = Len(tasks_queue) + 1 /\ Taken' = Taken
      /\ tasks_queue' \in Seq(Tasks) /\ appended' \in 0..NTasks
      /\ InOrder'
  BY AppendMoves
<1>3. TypeOK'
  BY <1>1, <1>2 DEF TypeOK
<1>4. MutexHeld'
  BY <1>1 DEF MutexHeld
<1>5. ClientProgress'
  BY <1>1, QueueFacts DEF ClientProgress
<1>6. Counted'
  BY <1>1, <1>2 DEF Counted
<1>7. WorkConserving'
  <2>1. Awake' = Awake /\ Waiting' = Waiting
    BY <1>1 DEF Awake, Waiting
  <2> QED
    BY <1>1, <1>2, <2>1, QueueFacts, AwakeFinite DEF WorkConserving, Awake
<1> QED
  BY <1>2, <1>3, <1>4, <1>5, <1>6, <1>7

LEMMA append_notifyIInv ==
  ASSUME IInv, append_notify
  PROVE  IInv'
<1> USE DEF IInv
<1>1. /\ main = "notify_one" /\ main' = "delete"
      /\ UNCHANGED <<tasks_queue, stop, owner, request, appended, deleted, processed>>
  BY DEF append_notify
<1>2. \/ Waiting = {} /\ pc' = pc
      \/ \E w \in Workers : pc[w] = "waiting" /\ pc' = [pc EXCEPT ![w] = "lock"]
  BY NotifyOneMoves DEF append_notify, Notified
<1>3. TypeOK'
  BY <1>1, <1>2 DEF TypeOK, Labels
<1>4. MutexHeld'
  BY <1>1, <1>2 DEF MutexHeld, TypeOK
<1>5. ClientProgress' /\ InOrder' /\ Counted'
  BY <1>1 DEF ClientProgress, InOrder, Counted, Taken
<1>6. WorkConserving'
  <2>1. CASE Waiting = {} /\ pc' = pc
    BY <2>1 DEF WorkConserving, Waiting
  <2>2. ASSUME NEW w \in Workers, pc[w] = "waiting", pc' = [pc EXCEPT ![w] = "lock"]
        PROVE  WorkConserving'
    <3>1. Cardinality(Awake') = Cardinality(Awake) + 1 /\ Waiting' \subseteq Waiting
      BY <2>2, AwakeMoves
    <3> QED
      BY <1>1, <3>1, QueueFacts, AwakeFinite DEF WorkConserving, Awake
  <2> QED
    BY <1>2, <2>1, <2>2
<1> QED
  BY <1>3, <1>4, <1>5, <1>6

LEMMA deleteIInv ==
  ASSUME IInv, delete
  PROVE  IInv'
<1> USE DEF IInv
<1>1. /\ main = "delete" /\ main' = "append" /\ deleted' = deleted \cup {appended}
      /\ UNCHANGED <<tasks_queue, stop, owner, pc, request, appended, processed>>
  BY DEF delete
<1>2. appended \in Tasks
  BY <1>1, QueueFacts DEF ClientProgress, Tasks
<1>3. TypeOK'
  BY <1>1, <1>2 DEF TypeOK
<1>4. MutexHeld' /\ ClientProgress' /\ InOrder' /\ Counted'
  BY <1>1 DEF MutexHeld, ClientProgress, InOrder, Counted, Taken
<1>5. WorkConserving'
  BY <1>1 DEF WorkConserving, Waiting
<1> QED
  BY <1>3, <1>4, <1>5

LEMMA destroyIInv ==
  ASSUME IInv, destroy
  PROVE  IInv'
<1> USE DEF IInv
<1>1. /\ main = "append" /\ main' = "join" /\ stop' = TRUE
      /\ owner = "nobody" /\ owner' = "main"
      /\ pc' = [w \in Workers |-> IF pc[w] = "waiting" THEN "lock" ELSE pc[w]]
      /\ UNCHANGED <<tasks_queue, request, appended, deleted, processed>>
  BY DEF destroy
<1>2. TypeOK'
  BY <1>1 DEF TypeOK, Labels
<1>3. MutexHeld'
  BY <1>1, OwnerAssumption DEF MutexHeld, TypeOK
<1>4. ClientProgress' /\ InOrder'
  BY <1>1 DEF ClientProgress, InOrder, Taken
<1>5. Counted'
  BY <1>1, OwnerAssumption DEF Counted, Taken
<1>6. WorkConserving'
  BY <1>1 DEF WorkConserving
<1> QED
  BY <1>2, <1>3, <1>4, <1>5, <1>6

LEMMA joinIInv ==
  ASSUME IInv, join
  PROVE  IInv'
<1> USE DEF IInv
<1>1. /\ main = "join" /\ main' = "done" /\ owner = "main" /\ owner' = "nobody" /\ stop
      /\ UNCHANGED <<tasks_queue, stop, pc, request, appended, deleted, processed>>
  BY DEF join, MutexHeld, ClientProgress
<1>2. TypeOK'
  BY <1>1 DEF TypeOK
<1>3. MutexHeld'
  BY <1>1, OwnerAssumption DEF MutexHeld
<1>4. ClientProgress' /\ InOrder'
  BY <1>1 DEF ClientProgress, InOrder, Taken
<1>5. Counted'
  BY <1>1, OwnerAssumption DEF Counted, Taken
<1>6. WorkConserving'
  BY <1>1 DEF WorkConserving
<1> QED
  BY <1>2, <1>3, <1>4, <1>5, <1>6

LEMMA StepIInv == IInv /\ [Next]_vars => IInv'
<1> SUFFICES ASSUME IInv, [Next]_vars PROVE IInv'
  OBVIOUS
<1>1. ASSUME NEW w \in Workers, run(w) PROVE IInv'
  BY <1>1, CheckStopIInv, WaitIInv, TakeIInv, ProcessIInv DEF run
<1>2. ASSUME NEW w \in Workers, SpuriousWakeup(w) PROVE IInv'
  BY <1>2, SpuriousWakeupIInv
<1>3. CASE client
  BY <1>3, appendIInv, append_notifyIInv, deleteIInv, destroyIInv, joinIInv DEF client
<1>4. CASE UNCHANGED vars
  BY <1>4 DEF vars, IInv, TypeOK, MutexHeld, ClientProgress, InOrder, Counted, Taken,
              WorkConserving, Waiting
<1> QED
  BY <1>1, <1>2, <1>3, <1>4 DEF Next

(* Every state of the pool and its client satisfies the invariant.          *)
THEOREM Invariance == Safety => []IInv
BY InitIInv, StepIInv, PTL DEF Safety

(***************************************************************************)
(* What the invariant says                                                 *)
(***************************************************************************)

(* Every variable of threadPool<T> and of its client keeps its type.        *)
THEOREM TypeCorrect == Safety => []TypeOK
<1>1. IInv => TypeOK
  BY DEF IInv
<1> QED
  BY <1>1, Invariance, PTL

(* However many threads the pool has, at most one is inside process(), it    *)
(* holds queue_mutex, and none is while the destructor holds it.            *)
THEOREM OneTaskAtATime == Safety => []OneAtATime
<1>1. IInv => OneAtATime
  <2> SUFFICES ASSUME IInv PROVE OneAtATime
    OBVIOUS
  <2>1. \A w \in Processing : owner = w
    BY DEF IInv, MutexHeld, Processing
  <2>2. main = "join" => Processing = {}
    BY OwnerAssumption DEF IInv, MutexHeld, Processing
  <2>3. Processing = {} \/ Processing = {owner}
    BY <2>1
  <2>4. Cardinality({}) = 0 /\ Cardinality({owner}) = 1
    BY FS_EmptySet, FS_Singleton
  <2>5. Cardinality(Processing) <= 1
    BY <2>3, <2>4
  <2> QED
    BY <2>1, <2>2, <2>5 DEF OneAtATime
<1> QED
  BY <1>1, Invariance, PTL

(* No task appended is lost, taken twice or processed twice.                *)
THEOREM EveryTaskOnce == Safety => []ExactlyOnce
<1>1. IInv => ExactlyOnce
  <2> SUFFICES ASSUME IInv, NEW t \in Tasks
               PROVE  Cardinality({i \in 1..Len(tasks_queue) : tasks_queue[i] = t})
                      + Cardinality({w \in Processing : request[w] = t})
                      + processed[t] = IF t <= appended THEN 1 ELSE 0
    BY DEF ExactlyOnce
  <2> DEFINE Queued == {i \in 1..Len(tasks_queue) : tasks_queue[i] = t}
             Held == {w \in Processing : request[w] = t}
  <2>1. /\ Len(tasks_queue) \in Nat /\ Taken \in Nat /\ appended \in Nat /\ t \in Nat
        /\ Taken = appended - Len(tasks_queue) /\ t >= 1
    BY QueueFacts DEF IInv, Tasks, Taken
  <2>2. \A i \in 1..Len(tasks_queue) : tasks_queue[i] = Taken + i
    BY DEF IInv, InOrder
  <2>3. Cardinality(Queued) = IF t > Taken /\ t <= appended THEN 1 ELSE 0
    <3>1. CASE t > Taken /\ t <= appended
      <4>1. Queued = {t - Taken}
        BY <2>1, <2>2, <3>1
      <4> QED
        BY <3>1, <4>1, FS_Singleton
    <3>2. CASE ~(t > Taken /\ t <= appended)
      <4>1. Queued = {}
        BY <2>1, <2>2, <3>2
      <4> QED
        BY <3>2, <4>1, FS_EmptySet
    <3> QED
      BY <3>1, <3>2
  <2>4. Cardinality(Held) = IF t = Taken /\ owner \in Workers THEN 1 ELSE 0
    <3>1. Processing = IF owner \in Workers THEN {owner} ELSE {}
      BY DEF IInv, MutexHeld, Processing
    <3>2. Held = IF t = Taken /\ owner \in Workers THEN {owner} ELSE {}
      BY <3>1 DEF IInv, Counted
    <3> QED
      BY <3>2, FS_Singleton, FS_EmptySet
  <2>5. processed[t] = IF t < Taken \/ (t = Taken /\ owner \notin Workers) THEN 1 ELSE 0
    BY DEF IInv, Counted
  <2> HIDE DEF Queued, Held
  <2>6. Cardinality(Queued) + Cardinality(Held) + processed[t] = IF t <= appended THEN 1 ELSE 0
    BY <2>1, <2>3, <2>4, <2>5
  <2> QED
    BY <2>6 DEF Queued, Held
<1> QED
  BY <1>1, Invariance, PTL

(* Until the pool is destroyed no notification is lost: while a thread      *)
(* sleeps, the awake ones and the one about to be woken suffice.            *)
THEOREM NoLostWakeup == Safety => []WorkConserving
<1>1. IInv => WorkConserving
  BY DEF IInv
<1> QED
  BY <1>1, Invariance, PTL

(* Several threads or one, process() finishes the tasks in the order append *)
(* was given them.                                                          *)
THEOREM ProcessedInOrder ==
  Safety => [](\A t, u \in Tasks : t < u => processed[u] <= processed[t])
<1>1. IInv => \A t, u \in Tasks : t < u => processed[u] <= processed[t]
  BY QueueFacts DEF IInv, Counted, Tasks
<1> QED
  BY <1>1, Invariance, PTL
=============================================================================
