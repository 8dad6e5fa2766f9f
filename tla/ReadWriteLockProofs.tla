------------------------- MODULE ReadWriteLockProofs -------------------------
(***************************************************************************)
(* Proofs about ReadWriteLock, for every finite set of readers and writers *)
(* and every number of rounds.                                             *)
(***************************************************************************)
EXTENDS ReadWriteLock, FiniteSetTheorems, TLAPS

(* The inductive invariant.  Exclusion needs CountersExact, because the     *)
(* guards test counters and not threads; CountersExact needs Exclusion,     *)
(* because unlock_write clears active_writer_ for everyone.                 *)
IInv == TypeOK /\ Exclusion /\ CountersExact /\ NoLostWakeup

(***************************************************************************)
(* Counting                                                                *)
(***************************************************************************)

(* The sets the counters stand for are finite.                             *)
LEMMA FiniteSections ==
  /\ IsFiniteSet(ReadersIn)
  /\ IsFiniteSet(WritersPending)
<1>1. ReadersIn \in SUBSET Readers /\ WritersPending \in SUBSET Writers
  BY DEF ReadersIn, WritersPending
<1> QED
  BY <1>1, FS_Subset, ThreadsAssumption

(* A counter that counts a finite set is zero exactly when the set is empty. *)
LEMMA ZeroMeansEmpty ==
  ASSUME NEW S, IsFiniteSet(S), NEW n, n = Cardinality(S)
  PROVE  n \in Nat /\ (n > 0 <=> S # {})
BY FS_EmptySet, FS_CardinalityType

(* What the lock's tests mean, when the counters are exact.                *)
LEMMA TestsMean ==
  ASSUME TypeOK, CountersExact
  PROVE  /\ ReaderBlocked <=> WritersPending # {}
         /\ WriterBlocked <=> ReadersIn # {} \/ WritersIn # {}
<1>1. writers_ > 0 <=> WritersPending # {}
  BY FiniteSections, ZeroMeansEmpty DEF CountersExact
<1>2. readers_ > 0 <=> ReadersIn # {}
  BY FiniteSections, ZeroMeansEmpty DEF CountersExact
<1> QED
  BY <1>1, <1>2 DEF ReaderBlocked, WriterBlocked, CountersExact

(***************************************************************************)
(* Notification                                                            *)
(***************************************************************************)

(* notify_one moves at most one waiting thread of T to "woken", and moves   *)
(* one whenever there is one.                                              *)
LEMMA NotifyOneMoves ==
  ASSUME NEW p, NEW T \in SUBSET Threads, NEW q \in NotifyOne(p, T),
         p \in [Threads -> Labels]
  PROVE  /\ q \in [Threads -> Labels]
         /\ \A t \in Threads : \/ q[t] = p[t]
                               \/ t \in T /\ p[t] = "waiting" /\ q[t] = "woken"
         /\ (\E t \in T : p[t] = "waiting") => \E t \in T : q[t] = "woken"
BY DEF NotifyOne, Labels

(* notify_all moves every waiting thread of T.                             *)
LEMMA NotifyAllMoves ==
  ASSUME NEW p, NEW T \in SUBSET Threads,
         p \in [Threads -> Labels]
  PROVE  /\ NotifyAll(p, T) \in [Threads -> Labels]
         /\ \A t \in Threads :
              NotifyAll(p, T)[t] = IF t \in T /\ p[t] = "waiting" THEN "woken" ELSE p[t]
BY DEF NotifyAll, Labels

(***************************************************************************)
(* Sections                                                                *)
(***************************************************************************)

(* Every thread but u stays where it is or is woken.                       *)
OthersOnlyWake(u) ==
  \A t \in Threads \ {u} : \/ pc'[t] = pc[t]
                           \/ pc[t] = "waiting" /\ pc'[t] = "woken"

(* A step of reader r moves no writer between sections.                    *)
LEMMA ReaderStepSections ==
  ASSUME TypeOK, pc' \in [Threads -> Labels], NEW r \in Readers, OthersOnlyWake(r)
  PROVE  /\ WritersIn' = WritersIn
         /\ WritersPending' = WritersPending
         /\ \A t \in Readers \ {r} : t \in ReadersIn' <=> t \in ReadersIn
         /\ \A t \in Readers \ {r} : pc'[t] # "wrote"
         /\ \A w \in Writers : pc'[w] = "waiting" => pc[w] = "waiting"
         /\ \A w \in Writers : pc[w] = "woken" => pc'[w] = "woken"
BY ThreadsAssumption
   DEF TypeOK, OthersOnlyWake, ReadersIn, WritersIn, WritersPending, Threads, Labels

(* A step of writer w moves no reader and no other writer.                 *)
LEMMA WriterStepSections ==
  ASSUME TypeOK, pc' \in [Threads -> Labels], NEW w \in Writers, OthersOnlyWake(w)
  PROVE  /\ ReadersIn' = ReadersIn
         /\ \A v \in Writers \ {w} : v \in WritersIn' <=> v \in WritersIn
         /\ \A v \in Writers \ {w} : v \in WritersPending' <=> v \in WritersPending
         /\ \A t \in Readers : pc'[t] # "wrote"
         /\ \A t \in Readers : pc'[t] = "waiting" => pc[t] = "waiting"
BY ThreadsAssumption
   DEF TypeOK, OthersOnlyWake, ReadersIn, WritersIn, WritersPending, Threads, Labels

(***************************************************************************)
(* What the two unlocks do to the labels                                   *)
(***************************************************************************)

LEMMA unlock_readMoves ==
  ASSUME TypeOK, NEW r \in Readers, unlock_read(r)
  PROVE  /\ pc' \in [Threads -> Labels] /\ OthersOnlyWake(r) /\ pc'[r] = "idle"
         /\ readers_' = 0 =>
              ((\E w \in Writers : pc[w] = "waiting") => \E w \in Writers : pc'[w] = "woken")
<1> DEFINE p == [pc EXCEPT ![r] = "idle"]
<1>1. /\ r \in Threads /\ pc \in [Threads -> Labels] /\ pc[r] = "locked"
      /\ p \in [Threads -> Labels]
      /\ Writers \subseteq Threads /\ r \notin Writers
  BY ThreadsAssumption DEF unlock_read, Threads, TypeOK, Labels
<1>2. CASE LastReaderOut
  <2>1. pc' \in NotifyOne(p, Writers)
    BY <1>2 DEF unlock_read
  <2> HIDE DEF p
  <2>2. /\ pc' \in [Threads -> Labels]
        /\ \A t \in Threads : \/ pc'[t] = p[t]
                              \/ t \in Writers /\ p[t] = "waiting" /\ pc'[t] = "woken"
        /\ (\E t \in Writers : p[t] = "waiting") => \E t \in Writers : pc'[t] = "woken"
    BY <1>1, <2>1, NotifyOneMoves
  <2> QED
    BY <1>1, <2>2 DEF OthersOnlyWake, p
<1>3. CASE ~LastReaderOut
  BY <1>1, <1>3 DEF unlock_read, LastReaderOut, OthersOnlyWake
<1> QED
  BY <1>2, <1>3

(* A waiting writer is woken if one may still be pending, and otherwise no  *)
(* reader is left waiting.                                                 *)
LEMMA unlock_writeMoves ==
  ASSUME TypeOK, NEW w \in Writers, unlock_write(w)
  PROVE  /\ pc' \in [Threads -> Labels] /\ OthersOnlyWake(w) /\ pc'[w] = "idle"
         /\ writers_' > 0 =>
              ((\E v \in Writers \ {w} : pc[v] = "waiting")
                 => \E v \in Writers : pc'[v] = "woken")
         /\ ~(writers_' > 0) => \A t \in Readers : pc'[t] # "waiting"
<1> DEFINE p == [pc EXCEPT ![w] = "idle"]
<1>1. /\ w \in Threads /\ pc \in [Threads -> Labels] /\ pc[w] = "wrote"
      /\ p \in [Threads -> Labels]
      /\ Writers \subseteq Threads /\ Readers \subseteq Threads /\ w \notin Readers
  BY ThreadsAssumption DEF unlock_write, Threads, TypeOK, Labels
<1>2. CASE writers_' > 0
  <2>1. pc' \in NotifyOne(p, Writers)
    BY <1>2 DEF unlock_write, WakeAfterWrite
  <2> HIDE DEF p
  <2>2. /\ pc' \in [Threads -> Labels]
        /\ \A t \in Threads : \/ pc'[t] = p[t]
                              \/ t \in Writers /\ p[t] = "waiting" /\ pc'[t] = "woken"
        /\ (\E t \in Writers : p[t] = "waiting") => \E t \in Writers : pc'[t] = "woken"
    BY <1>1, <2>1, NotifyOneMoves
  <2> QED
    BY <1>1, <1>2, <2>2 DEF OthersOnlyWake, p
<1>3. CASE ~(writers_' > 0)
  <2>1. pc' = NotifyAll(p, Readers)
    BY <1>3 DEF unlock_write, WakeAfterWrite
  <2> HIDE DEF p
  <2>2. /\ pc' \in [Threads -> Labels]
        /\ \A t \in Threads :
             pc'[t] = IF t \in Readers /\ p[t] = "waiting" THEN "woken" ELSE p[t]
    BY <1>1, <2>1, NotifyAllMoves
  <2> QED
    BY <1>1, <1>3, <2>2 DEF OthersOnlyWake, p
<1> QED
  BY <1>2, <1>3

(***************************************************************************)
(* The invariant, action by action                                         *)
(***************************************************************************)
LEMMA InitIInv == Init => IInv
<1> SUFFICES ASSUME Init PROVE IInv
  OBVIOUS
<1>1. ReadersIn = {} /\ WritersIn = {} /\ WritersPending = {}
  BY DEF Init, ReadersIn, WritersIn, WritersPending, Threads
<1>2. TypeOK
  <2>1. /\ pc \in [Threads -> Labels] /\ \A r \in Readers : pc[r] # "wrote"
        /\ left \in [Threads -> 0..Rounds]
    BY RoundsAssumption DEF Init, Threads, Labels
  <2> QED
    BY <2>1 DEF Init, TypeOK
<1>3. CountersExact
  BY <1>1, FS_EmptySet DEF Init, CountersExact
<1>4. NoLostWakeup
  BY DEF Init, NoLostWakeup, WriterWillWake, ReadersWillWake, Threads
<1> QED
  BY <1>1, <1>2, <1>3, <1>4 DEF IInv, Exclusion

LEMMA lock_readIInv ==
  ASSUME IInv, NEW r \in Readers, lock_read(r)
  PROVE  IInv'
<1> USE DEF IInv
<1>1. r \in Threads /\ pc \in [Threads -> Labels] /\ pc[r] \in {"idle", "woken"}
  BY DEF lock_read, Begin, Resume, Threads, TypeOK
<1>2. left' \in [Threads -> 0..Rounds]
  BY <1>1, RoundsAssumption DEF lock_read, Begin, Resume, TypeOK
<1>3. CASE ReaderBlocked /\ pc' = [pc EXCEPT ![r] = "waiting"] /\ UNCHANGED readers_
  <2>1. pc' \in [Threads -> Labels] /\ OthersOnlyWake(r) /\ pc'[r] = "waiting"
    BY <1>1, <1>3 DEF OthersOnlyWake, Labels
  <2>2. ReadersIn' = ReadersIn /\ WritersIn' = WritersIn /\ WritersPending' = WritersPending
    BY <1>1, <2>1, ReaderStepSections DEF ReadersIn
  <2>3. WritersPending # {}
    BY <1>3, TestsMean
  <2>4. TypeOK'
    BY <1>2, <1>3, <2>1, ReaderStepSections DEF TypeOK, lock_read
  <2>5. CountersExact' /\ Exclusion'
    BY <1>3, <2>2 DEF CountersExact, Exclusion, lock_read
  <2>6. NoLostWakeup'
    <3>1. WriterWillWake'
      BY <1>1, <2>1, <2>2, ReaderStepSections DEF NoLostWakeup, WriterWillWake
    <3>2. ReadersWillWake'
      BY <2>2, <2>3 DEF ReadersWillWake
    <3> QED
      BY <3>1, <3>2 DEF NoLostWakeup
  <2> QED
    BY <2>4, <2>5, <2>6
<1>4. CASE ~ReaderBlocked /\ pc' = [pc EXCEPT ![r] = "locked"] /\ readers_' = readers_ + 1
  <2>1. pc' \in [Threads -> Labels] /\ OthersOnlyWake(r) /\ pc'[r] = "locked"
    BY <1>1, <1>4 DEF OthersOnlyWake, Labels
  <2>2. /\ ReadersIn' = ReadersIn \cup {r} /\ r \notin ReadersIn
        /\ WritersIn' = WritersIn /\ WritersPending' = WritersPending
    BY <1>1, <2>1, ReaderStepSections DEF ReadersIn
  <2>3. WritersPending = {} /\ WritersIn = {}
    BY <1>4, TestsMean DEF WritersIn, WritersPending
  <2>4. TypeOK'
    BY <1>2, <1>4, <2>1, ReaderStepSections DEF TypeOK, lock_read
  <2>5. CountersExact'
    BY <1>4, <2>2, FiniteSections, FS_AddElement DEF CountersExact, lock_read
  <2>6. Exclusion'
    BY <2>2, <2>3 DEF Exclusion
  <2>7. NoLostWakeup'
    <3>1. \A w \in Writers : pc[w] # "waiting"
      BY <2>3 DEF WritersPending
    <3>2. \A t \in Readers : pc[t] # "waiting"
      BY <2>3 DEF NoLostWakeup, ReadersWillWake
    <3>3. WriterWillWake'
      BY <2>1, <3>1, ReaderStepSections DEF WriterWillWake
    <3>4. ReadersWillWake'
      BY <2>1, <3>2 DEF ReadersWillWake, OthersOnlyWake, Threads
    <3> QED
      BY <3>3, <3>4 DEF NoLostWakeup
  <2> QED
    BY <2>4, <2>5, <2>6, <2>7
<1> QED
  BY <1>3, <1>4 DEF lock_read

LEMMA unlock_readIInv ==
  ASSUME IInv, NEW r \in Readers, unlock_read(r)
  PROVE  IInv'
<1> USE DEF IInv
<1>1. /\ r \in Threads /\ pc \in [Threads -> Labels] /\ pc[r] = "locked"
      /\ Writers \subseteq Threads /\ r \notin Writers
  BY ThreadsAssumption DEF unlock_read, Threads, TypeOK, Labels
<1>2. r \in ReadersIn
  BY <1>1 DEF ReadersIn
<1>3. /\ pc' \in [Threads -> Labels] /\ OthersOnlyWake(r) /\ pc'[r] = "idle"
      /\ readers_' = 0 =>
           ((\E w \in Writers : pc[w] = "waiting") => \E w \in Writers : pc'[w] = "woken")
  BY unlock_readMoves
<1>4. /\ ReadersIn' = ReadersIn \ {r}
      /\ WritersIn' = WritersIn /\ WritersPending' = WritersPending
  BY <1>1, <1>3, ReaderStepSections DEF ReadersIn
<1>5. WritersIn = {}
  BY <1>2 DEF Exclusion
<1>6. CountersExact'
  BY <1>2, <1>4, FiniteSections, FS_RemoveElement DEF CountersExact, unlock_read
<1>7. readers_ \in Nat /\ readers_ > 0
  BY <1>2, FiniteSections, ZeroMeansEmpty DEF CountersExact
<1>8. TypeOK'
  BY <1>3, <1>7, ReaderStepSections DEF TypeOK, unlock_read
<1>9. Exclusion'
  BY <1>4, <1>5 DEF Exclusion
<1>10. ReadersIn' = {} => readers_' = 0
  BY <1>6, FS_EmptySet DEF CountersExact
<1>11. NoLostWakeup'
  <2>1. WriterWillWake'
    BY <1>1, <1>3, <1>10, ReaderStepSections DEF WriterWillWake
  <2>2. ReadersWillWake'
    BY <1>3, <1>4 DEF ReadersWillWake, NoLostWakeup, OthersOnlyWake, Threads
  <2> QED
    BY <2>1, <2>2 DEF NoLostWakeup
<1> QED
  BY <1>6, <1>8, <1>9, <1>11

LEMMA lock_writeIInv ==
  ASSUME IInv, NEW w \in Writers, lock_write(w)
  PROVE  IInv'
<1> USE DEF IInv
<1>1. w \in Threads /\ pc \in [Threads -> Labels] /\ pc[w] \in {"idle", "woken"}
  BY DEF lock_write, Begin, Resume, Threads, TypeOK
<1>2. left' \in [Threads -> 0..Rounds]
  BY <1>1, RoundsAssumption DEF lock_write, Begin, Resume, TypeOK
<1>3. w \notin WritersIn
  BY <1>1 DEF WritersIn
(* Whichever branch is taken, the writer ends up pending, counted once.    *)
<1>4. ASSUME pc' \in [Threads -> Labels], OthersOnlyWake(w), pc'[w] # "idle"
      PROVE  /\ ReadersIn' = ReadersIn
             /\ WritersPending' = WritersPending \cup {w}
             /\ writers_' \in Nat /\ writers_' = Cardinality(WritersPending')
  <2>1. ReadersIn' = ReadersIn /\ WritersPending' = WritersPending \cup {w}
    BY <1>1, <1>4, WriterStepSections DEF WritersPending
  <2>2. w \in WritersPending <=> pc[w] # "idle"
    BY DEF WritersPending
  <2>3. writers_' = Cardinality(WritersPending \cup {w})
    BY <2>2, FiniteSections, FS_AddElement DEF lock_write, CountWriter, CountersExact
  <2>4. writers_' \in Nat
    BY DEF lock_write, CountWriter, TypeOK
  <2> QED
    BY <2>1, <2>3, <2>4
<1>5. CASE WriterBlocked /\ pc' = [pc EXCEPT ![w] = "waiting"] /\ UNCHANGED active_writer_
  <2>1. pc' \in [Threads -> Labels] /\ OthersOnlyWake(w) /\ pc'[w] = "waiting"
    BY <1>1, <1>5 DEF OthersOnlyWake, Labels
  <2>2. WritersIn' = WritersIn
    BY <1>3, <2>1, WriterStepSections DEF WritersIn
  <2>3. ReadersIn # {} \/ WritersIn # {}
    BY <1>5, TestsMean
  <2>4. ReadersIn' = ReadersIn /\ WritersPending' = WritersPending \cup {w}
    BY <1>4, <2>1
  <2>5. TypeOK'
    BY <1>2, <1>4, <1>5, <2>1, WriterStepSections DEF TypeOK, lock_write
  <2>6. CountersExact'
    BY <1>4, <1>5, <2>1, <2>2 DEF CountersExact, lock_write
  <2>7. Exclusion'
    BY <2>2, <2>4 DEF Exclusion
  <2>8. NoLostWakeup'
    BY <2>2, <2>3, <2>4 DEF NoLostWakeup, WriterWillWake, ReadersWillWake
  <2> QED
    BY <2>5, <2>6, <2>7, <2>8
<1>6. CASE ~WriterBlocked /\ pc' = [pc EXCEPT ![w] = "locked"] /\ active_writer_' = TRUE
  <2>1. pc' \in [Threads -> Labels] /\ OthersOnlyWake(w) /\ pc'[w] = "locked"
    BY <1>1, <1>6 DEF OthersOnlyWake, Labels
  <2>2. WritersIn' = WritersIn \cup {w}
    BY <2>1, WriterStepSections DEF WritersIn
  <2>3. ReadersIn = {} /\ WritersIn = {}
    BY <1>6, TestsMean
  <2>4. ReadersIn' = ReadersIn /\ WritersPending' = WritersPending \cup {w}
    BY <1>4, <2>1
  <2>5. TypeOK'
    BY <1>2, <1>4, <1>6, <2>1, WriterStepSections DEF TypeOK, lock_write
  <2>6. CountersExact'
    BY <1>4, <1>6, <2>1, <2>2, <2>4 DEF CountersExact, lock_write
  <2>7. Exclusion'
    BY <2>2, <2>3, <2>4 DEF Exclusion
  <2>8. NoLostWakeup'
    BY <2>2, <2>4 DEF NoLostWakeup, WriterWillWake, ReadersWillWake
  <2> QED
    BY <2>5, <2>6, <2>7, <2>8
<1> QED
  BY <1>5, <1>6 DEF lock_write

LEMMA writeIInv ==
  ASSUME IInv, NEW w \in Writers, write(w)
  PROVE  IInv'
<1> USE DEF IInv
<1>1. /\ w \in Threads /\ pc \in [Threads -> Labels] /\ pc[w] = "locked"
      /\ pc' \in [Threads -> Labels] /\ OthersOnlyWake(w) /\ pc'[w] = "wrote"
  BY DEF write, Threads, TypeOK, OthersOnlyWake, Labels
<1>2. ReadersIn' = ReadersIn /\ WritersIn' = WritersIn /\ WritersPending' = WritersPending
  BY <1>1, WriterStepSections DEF WritersIn, WritersPending
<1>3. TypeOK'
  BY <1>1, WriterStepSections DEF TypeOK, write
<1>4. CountersExact' /\ Exclusion'
  BY <1>2 DEF CountersExact, Exclusion, write
<1>5. WritersIn # {}
  BY <1>1 DEF WritersIn
<1>6. NoLostWakeup'
  BY <1>1, <1>2, <1>5, WriterStepSections DEF NoLostWakeup, WriterWillWake, ReadersWillWake
<1> QED
  BY <1>3, <1>4, <1>6

LEMMA unlock_writeIInv ==
  ASSUME IInv, NEW w \in Writers, unlock_write(w)
  PROVE  IInv'
<1> USE DEF IInv
<1>1. /\ w \in Threads /\ pc \in [Threads -> Labels] /\ pc[w] = "wrote"
      /\ Writers \subseteq Threads /\ Readers \subseteq Threads /\ w \notin Readers
  BY ThreadsAssumption DEF unlock_write, Threads, TypeOK, Labels
<1>2. w \in WritersIn /\ w \in WritersPending
  BY <1>1 DEF WritersIn, WritersPending
<1>3. ReadersIn = {} /\ WritersIn = {w}
  BY <1>2 DEF Exclusion
<1>4. /\ pc' \in [Threads -> Labels] /\ OthersOnlyWake(w) /\ pc'[w] = "idle"
      /\ writers_' > 0 =>
           ((\E v \in Writers \ {w} : pc[v] = "waiting") => \E v \in Writers : pc'[v] = "woken")
      /\ ~(writers_' > 0) => \A t \in Readers : pc'[t] # "waiting"
  BY unlock_writeMoves
<1>5. /\ ReadersIn' = ReadersIn
      /\ WritersIn' = {}
      /\ WritersPending' = WritersPending \ {w}
  BY <1>1, <1>3, <1>4, WriterStepSections DEF WritersIn, WritersPending
<1>6. CountersExact'
  BY <1>2, <1>5, FiniteSections, FS_RemoveElement DEF CountersExact, unlock_write
<1>7. writers_ \in Nat /\ writers_ > 0
  BY <1>2, FiniteSections, ZeroMeansEmpty DEF CountersExact
<1>8. TypeOK'
  <2>1. readers_' \in Nat /\ writers_' \in Nat
    BY <1>7 DEF TypeOK, unlock_write
  <2>2. active_writer_' \in BOOLEAN
    BY DEF unlock_write
  <2>3. shared_data' \in Writers \cup {0} /\ left' \in [Threads -> 0..Rounds]
    BY DEF TypeOK, unlock_write
  <2>4. \A r \in Readers : pc'[r] # "wrote"
    BY <1>4, WriterStepSections
  <2> QED
    BY <1>4, <2>1, <2>2, <2>3, <2>4 DEF TypeOK
<1>9. Exclusion'
  BY <1>5 DEF Exclusion
<1>10. writers_' > 0 <=> WritersPending' # {}
  <2>1. IsFiniteSet(WritersPending')
    BY <1>5, FiniteSections, FS_RemoveElement
  <2> QED
    BY <1>6, <2>1, ZeroMeansEmpty DEF CountersExact
<1>11. WriterWillWake'
  <2> SUFFICES ASSUME NEW v \in Writers, pc'[v] = "waiting"
               PROVE  \E u \in Writers : pc'[u] = "woken"
    BY DEF WriterWillWake
  <2>1. v # w /\ pc[v] = "waiting" /\ v \in WritersPending'
    BY <1>1, <1>4 DEF OthersOnlyWake, WritersPending
  <2> QED
    BY <1>4, <1>10, <2>1
<1>12. ReadersWillWake'
  BY <1>4, <1>10 DEF ReadersWillWake
<1> QED
  BY <1>6, <1>8, <1>9, <1>11, <1>12 DEF NoLostWakeup

LEMMA SpuriousWakeupIInv ==
  ASSUME IInv, NEW u \in Threads, SpuriousWakeup(u)
  PROVE  IInv'
<1> USE DEF IInv
<1>1. /\ pc \in [Threads -> Labels] /\ pc[u] = "waiting"
      /\ pc' \in [Threads -> Labels] /\ pc' = [pc EXCEPT ![u] = "woken"]
  BY DEF SpuriousWakeup, TypeOK, Labels
<1>2. ReadersIn' = ReadersIn /\ WritersIn' = WritersIn /\ WritersPending' = WritersPending
  BY <1>1 DEF ReadersIn, WritersIn, WritersPending, Threads
<1>3. TypeOK'
  BY <1>1 DEF TypeOK, SpuriousWakeup, Threads
<1>4. CountersExact' /\ Exclusion'
  BY <1>2 DEF CountersExact, Exclusion, SpuriousWakeup
<1>5. WriterWillWake' /\ ReadersWillWake'
  BY <1>1, <1>2 DEF NoLostWakeup, WriterWillWake, ReadersWillWake, Threads
<1> QED
  BY <1>3, <1>4, <1>5 DEF NoLostWakeup

LEMMA NextIInv == IInv /\ [Next]_vars => IInv'
<1> SUFFICES ASSUME IInv, [Next]_vars PROVE IInv'
  OBVIOUS
<1>1. ASSUME NEW r \in Readers, reader(r) PROVE IInv'
  BY <1>1, lock_readIInv, unlock_readIInv DEF reader
<1>2. ASSUME NEW w \in Writers, writer(w) PROVE IInv'
  BY <1>2, lock_writeIInv, writeIInv, unlock_writeIInv DEF writer
<1>3. ASSUME NEW t \in Threads, SpuriousWakeup(t) PROVE IInv'
  BY <1>3, SpuriousWakeupIInv
<1>4. CASE UNCHANGED vars
  BY <1>4 DEF vars, IInv, TypeOK, Exclusion, CountersExact, NoLostWakeup, WriterWillWake,
              ReadersWillWake, ReadersIn, WritersIn, WritersPending
<1> QED
  BY <1>1, <1>2, <1>3, <1>4 DEF Next, Terminated

(***************************************************************************)
(* Theorems                                                                *)
(***************************************************************************)

(* The inductive invariant holds in every reachable state.                 *)
THEOREM Invariance == Safety => []IInv
BY InitIInv, NextIInv, PTL DEF Safety

(* The fields and labels of ReadWriteLock keep their types; in particular   *)
(* readers_ and writers_ never go below zero.                              *)
THEOREM TypeCorrect == Safety => []TypeOK
BY Invariance, PTL DEF IInv

(* lock_write: a writer inside the section is the only thread inside.       *)
THEOREM MutualExclusion == Safety => []Exclusion
BY Invariance, PTL DEF IInv

(* readers_, writers_ and active_writer_ describe the threads exactly.     *)
THEOREM CountersCorrect == Safety => []CountersExact
BY Invariance, PTL DEF IInv

(* The notifications of unlock_read and unlock_write suffice: no waiting     *)
(* writer or reader is left without one that will let it go on.            *)
THEOREM NoWakeupLost == Safety => []NoLostWakeup
BY Invariance, PTL DEF IInv

(* Nothing assigns shared_data while a reader is inside, or while a writer  *)
(* is between its assignment and unlock_write.                             *)
THEOREM DataStable == Safety => StableUnderLock
<1> DEFINE Held == ReadersIn # {} \/ (\E w \in Writers : pc[w] = "wrote")
<1>1. IInv /\ [Next]_vars => [Held => shared_data' = shared_data]_vars
  <2> SUFFICES ASSUME IInv, Next, Held PROVE shared_data' = shared_data
    BY DEF vars
  <2>1. ASSUME NEW w \in Writers, write(w) PROVE FALSE
    <3>1. w \in WritersIn
      BY <2>1 DEF write, WritersIn
    <3>2. ReadersIn = {} /\ WritersIn = {w}
      BY <3>1 DEF IInv, Exclusion
    <3>3. PICK v \in Writers : pc[v] = "wrote"
      BY <3>2
    <3>4. v \in WritersIn
      BY <3>3 DEF WritersIn
    <3> QED
      BY <2>1, <3>2, <3>3, <3>4 DEF write
  <2> QED
    BY <2>1 DEF Next, Terminated, vars, reader, writer, lock_read, unlock_read,
                lock_write, unlock_write, SpuriousWakeup
<1> QED
  BY <1>1, Invariance, PTL DEF Safety, StableUnderLock

(***************************************************************************)
(* Refinement                                                              *)
(***************************************************************************)

(* The abstract phase of a thread, read off its label.                     *)
LEMMA PhaseOf ==
  ASSUME NEW t \in Threads, TypeOK
  PROVE  /\ phaseBar[t] = "out" <=> pc[t] = "idle"
         /\ phaseBar[t] = "want" <=> pc[t] \in {"waiting", "woken"}
         /\ phaseBar[t] = "in" <=> pc[t] \in {"locked", "wrote"}
BY DEF phaseBar, TypeOK, Labels

(* A step that only wakes threads, besides moving thread u to phase ph,    *)
(* is that one change of the abstract phase.                               *)
LEMMA PhaseMoves ==
  ASSUME NEW u \in Threads, TypeOK, OthersOnlyWake(u), NEW ph, phaseBar'[u] = ph
  PROVE  phaseBar' = [phaseBar EXCEPT ![u] = ph]
<1>1. \A t \in Threads \ {u} : phaseBar'[t] = phaseBar[t]
  BY DEF OthersOnlyWake, phaseBar
<1> QED
  BY <1>1 DEF phaseBar

(* Every step of the class is a step of the abstract lock or a stutter.    *)
LEMMA StepRefines == IInv /\ IInv' /\ [Next]_vars => [RW!Next]_RW!vars
<1> SUFFICES ASSUME IInv, IInv', [Next]_vars PROVE [RW!Next]_RW!vars
  OBVIOUS
<1> USE DEF IInv
<1>1. RW!Threads = Threads
  BY DEF RW!Threads, Threads
<1>2. ASSUME NEW r \in Readers, lock_read(r) PROVE [RW!Next]_RW!vars
  <2>1. /\ r \in Threads /\ r \notin Writers /\ pc \in [Threads -> Labels]
        /\ pc[r] \in {"idle", "woken"} /\ OthersOnlyWake(r)
        /\ UNCHANGED shared_data
    BY <1>2, ThreadsAssumption DEF lock_read, Begin, Resume, Threads, TypeOK, OthersOnlyWake
  <2>2. CASE pc'[r] = "waiting"
    <3>1. phaseBar' = [phaseBar EXCEPT ![r] = "want"]
      BY <2>1, <2>2, PhaseMoves DEF phaseBar
    <3>2. CASE pc[r] = "idle"
      BY <1>1, <2>1, <3>1, <3>2, PhaseOf DEF RW!Next, RW!Request
    <3>3. CASE pc[r] = "woken"
      BY <2>1, <3>1, <3>3, PhaseOf DEF RW!vars, phaseBar
    <3> QED
      BY <2>1, <3>2, <3>3
  <2>3. CASE ~ReaderBlocked /\ pc'[r] = "locked"
    <3>1. phaseBar' = [phaseBar EXCEPT ![r] = "in"]
      BY <2>1, <2>3, PhaseMoves DEF phaseBar
    <3>2. \A w \in Writers : pc[w] = "idle"
      BY <2>3, TestsMean DEF WritersPending
    <3>3. RW!MayRead
      BY <3>2, PhaseOf DEF RW!MayRead, Threads
    <3>4. phaseBar[r] \in {"out", "want"}
      BY <2>1, PhaseOf
    <3>5. RW!Enter(r)
      BY <2>1, <3>1, <3>3, <3>4 DEF RW!Enter
    <3> QED
      BY <1>1, <2>1, <3>5 DEF RW!Next
  <2> QED
    BY <1>2, <2>1, <2>2, <2>3 DEF lock_read
<1>3. ASSUME NEW w \in Writers, lock_write(w) PROVE [RW!Next]_RW!vars
  <2>1. /\ w \in Threads /\ w \notin Readers /\ pc \in [Threads -> Labels]
        /\ pc[w] \in {"idle", "woken"} /\ OthersOnlyWake(w)
        /\ UNCHANGED shared_data
    BY <1>3, ThreadsAssumption DEF lock_write, Begin, Resume, Threads, TypeOK, OthersOnlyWake
  <2>2. CASE pc'[w] = "waiting"
    <3>1. phaseBar' = [phaseBar EXCEPT ![w] = "want"]
      BY <2>1, <2>2, PhaseMoves DEF phaseBar
    <3>2. CASE pc[w] = "idle"
      BY <1>1, <2>1, <3>1, <3>2, PhaseOf DEF RW!Next, RW!Request
    <3>3. CASE pc[w] = "woken"
      BY <2>1, <3>1, <3>3, PhaseOf DEF RW!vars, phaseBar
    <3> QED
      BY <2>1, <3>2, <3>3
  <2>3. CASE ~WriterBlocked /\ pc'[w] = "locked"
    <3>1. phaseBar' = [phaseBar EXCEPT ![w] = "in"]
      BY <2>1, <2>3, PhaseMoves DEF phaseBar
    <3>2. ReadersIn = {} /\ WritersIn = {}
      BY <2>3, TestsMean
    <3>3. \A t \in Threads : pc[t] \notin {"locked", "wrote"}
      BY <3>2 DEF ReadersIn, WritersIn, Threads, TypeOK
    <3>4. RW!MayWrite
      BY <1>1, <3>3, PhaseOf DEF RW!MayWrite
    <3>5. phaseBar[w] \in {"out", "want"}
      BY <2>1, PhaseOf
    <3>6. RW!Enter(w)
      BY <2>1, <3>1, <3>4, <3>5 DEF RW!Enter
    <3> QED
      BY <1>1, <2>1, <3>6 DEF RW!Next
  <2> QED
    BY <1>3, <2>1, <2>2, <2>3 DEF lock_write
(* The three steps that end a section or write in it.                      *)
<1>4. ASSUME NEW u \in Threads, pc[u] \in {"locked", "wrote"}, pc'[u] = "idle",
             OthersOnlyWake(u), UNCHANGED shared_data
      PROVE  [RW!Next]_RW!vars
  <2>1. phaseBar' = [phaseBar EXCEPT ![u] = "out"]
    BY <1>4, PhaseMoves DEF phaseBar
  <2>2. RW!Leave(u)
    BY <1>4, <2>1, PhaseOf DEF RW!Leave
  <2> QED
    BY <1>1, <2>2 DEF RW!Next
<1>5. ASSUME NEW r \in Readers, unlock_read(r) PROVE [RW!Next]_RW!vars
  <2>1. pc[r] = "locked" /\ pc'[r] = "idle" /\ OthersOnlyWake(r) /\ UNCHANGED shared_data
    BY <1>5, unlock_readMoves DEF unlock_read
  <2> QED
    BY <1>4, <2>1 DEF Threads
<1>6. ASSUME NEW w \in Writers, unlock_write(w) PROVE [RW!Next]_RW!vars
  <2>1. pc[w] = "wrote" /\ pc'[w] = "idle" /\ OthersOnlyWake(w) /\ UNCHANGED shared_data
    BY <1>6, unlock_writeMoves DEF unlock_write
  <2> QED
    BY <1>4, <2>1 DEF Threads
<1>7. ASSUME NEW w \in Writers, write(w) PROVE [RW!Next]_RW!vars
  <2>1. phaseBar' = phaseBar /\ phaseBar[w] = "in" /\ shared_data' = w
    BY <1>7 DEF write, phaseBar, TypeOK, Threads
  <2> QED
    BY <2>1 DEF RW!Next, RW!Assign
<1>8. ASSUME NEW t \in Threads, SpuriousWakeup(t) PROVE [RW!Next]_RW!vars
  BY <1>8 DEF SpuriousWakeup, phaseBar, TypeOK, RW!vars
<1>9. CASE UNCHANGED vars
  BY <1>9 DEF vars, phaseBar, RW!vars
<1> QED
  BY <1>2, <1>3, <1>5, <1>6, <1>7, <1>8, <1>9 DEF Next, Terminated, reader, writer

(* Every behaviour of the class is a behaviour of the abstract             *)
(* writer-preferring lock (its safety part): a reader enters only when no  *)
(* writer is inside or has called lock_write, a writer only an empty       *)
(* section, and only a writer inside changes shared_data.                  *)
THEOREM Refinement == Safety => RW!Safety
<1>1. Init => RW!Init
  BY DEF Init, RW!Init, phaseBar, RW!Threads, Threads
<1> QED
  BY <1>1, StepRefines, Invariance, PTL DEF Safety, RW!Safety

=============================================================================
