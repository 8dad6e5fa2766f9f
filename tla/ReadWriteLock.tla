---------------------------- MODULE ReadWriteLock ----------------------------
(***************************************************************************)
(* Thread/read_wtire_lock.cpp: class ReadWriteLock, with the threads       *)
(* reader() and writer() that use it.                                      *)
(*                                                                         *)
(* Every method runs under mutex_, so one action stands for the code from  *)
(* the moment the mutex is taken to the moment it is given up, by          *)
(* returning or by wait().  A thread inside wait() is "waiting"; a notify, *)
(* or a spurious wakeup, makes it "woken", and it then tests its condition *)
(* again under the mutex, like any thread that barged in before it.        *)
(*                                                                         *)
(*   idle -> [waiting -> woken]* -> locked -> (writers: wrote) -> idle     *)
(*                                                                         *)
(* A thread runs its body Rounds times (once in main; the class does not   *)
(* limit it, and more rounds let a thread overtake the ones it woke).      *)
(***************************************************************************)
EXTENDS Integers, FiniteSets

CONSTANTS Readers, Writers,   \* the threads main() starts
          Rounds              \* how often each runs its body

ASSUME ThreadsAssumption == /\ IsFiniteSet(Readers)
                            /\ IsFiniteSet(Writers)
                            /\ Readers \cap Writers = {}
ASSUME RoundsAssumption == Rounds \in Nat \ {0}

VARIABLES readers_, writers_, active_writer_,  \* fields of ReadWriteLock
          shared_data,                         \* the last writer, 0 at first
          pc, left                             \* each thread, rounds it has left

lock == <<readers_, writers_, active_writer_>>
vars == <<readers_, writers_, active_writer_, shared_data, pc, left>>

Threads == Readers \cup Writers

Labels == {"idle", "waiting", "woken", "locked", "wrote"}

Init == /\ readers_ = 0 /\ writers_ = 0 /\ active_writer_ = FALSE
        /\ shared_data = 0
        /\ pc = [t \in Threads |-> "idle"]
        /\ left = [t \in Threads |-> Rounds]

-----------------------------------------------------------------------------
(* Condition variables.  `p' is pc before the notification, T the threads   *)
(* that wait on the condition variable concerned.                           *)

NotifyOne(p, T) ==
  IF \E t \in T : p[t] = "waiting"
    THEN {[p EXCEPT ![t] = "woken"] : t \in {u \in T : p[u] = "waiting"}}
    ELSE {p}

NotifyAll(p, T) ==
  [t \in Threads |-> IF t \in T /\ p[t] = "waiting" THEN "woken" ELSE p[t]]

-----------------------------------------------------------------------------
Begin(t) == /\ pc[t] = "idle" /\ left[t] > 0
            /\ left' = [left EXCEPT ![t] = @ - 1]

Resume(t) == pc[t] = "woken" /\ UNCHANGED left

ReaderBlocked_ActiveOnly == active_writer_
ReaderBlocked_Never == FALSE
ReaderBlocked == writers_ > 0

(* lock_read: the while loop waits or falls through to readers_++.          *)
lock_read(r) ==
  /\ Begin(r) \/ Resume(r)
  /\ \/ /\ ReaderBlocked
        /\ pc' = [pc EXCEPT ![r] = "waiting"]
        /\ UNCHANGED readers_
     \/ /\ ~ReaderBlocked
        /\ pc' = [pc EXCEPT ![r] = "locked"]
        /\ readers_' = readers_ + 1
  /\ UNCHANGED <<writers_, active_writer_, shared_data>>

LastReaderOut_Stale == readers_ = 0
LastReaderOut == readers_' = 0

(* unlock_read: the last reader out wakes one writer.                       *)
unlock_read(r) ==
  /\ pc[r] = "locked"
  /\ readers_' = readers_ - 1
  /\ LET p == [pc EXCEPT ![r] = "idle"]
     IN  pc' \in IF LastReaderOut THEN NotifyOne(p, Writers) ELSE {p}
  /\ UNCHANGED <<writers_, active_writer_, shared_data, left>>

(* lock_write: the writer counts itself once, before its first test.        *)
CountWriter_Again(w) == writers_' = writers_ + 1
CountWriter_Never(w) == UNCHANGED writers_
CountWriter(w) == writers_' = IF pc[w] = "idle" THEN writers_ + 1 ELSE writers_

WriterBlocked_NoActive == readers_ > 0
WriterBlocked == readers_ > 0 \/ active_writer_

lock_write(w) ==
  /\ Begin(w) \/ Resume(w)
  /\ CountWriter(w)
  /\ \/ /\ WriterBlocked
        /\ pc' = [pc EXCEPT ![w] = "waiting"]
        /\ UNCHANGED active_writer_
     \/ /\ ~WriterBlocked
        /\ pc' = [pc EXCEPT ![w] = "locked"]
        /\ active_writer_' = TRUE
  /\ UNCHANGED <<readers_, shared_data>>

(* writer(): shared_data = value, between lock_write and unlock_write.      *)
write(w) == /\ pc[w] = "locked"
            /\ shared_data' = w
            /\ pc' = [pc EXCEPT ![w] = "wrote"]
            /\ UNCHANGED <<readers_, writers_, active_writer_, left>>

WakeAfterWrite_OneReader(p) ==
  IF writers_' > 0 THEN NotifyOne(p, Writers) ELSE NotifyOne(p, Readers)
WakeAfterWrite_ReadersOnly(p) == {NotifyAll(p, Readers)}
WakeAfterWrite(p) ==
  IF writers_' > 0 THEN NotifyOne(p, Writers) ELSE {NotifyAll(p, Readers)}

(* unlock_write: one waiting writer is woken, else every waiting reader.    *)
unlock_write(w) ==
  /\ pc[w] = "wrote"
  /\ writers_' = writers_ - 1
  /\ active_writer_' = FALSE
  /\ pc' \in WakeAfterWrite([pc EXCEPT ![w] = "idle"])
  /\ UNCHANGED <<readers_, shared_data, left>>

(* std::condition_variable::wait may return without a notification.         *)
SpuriousWakeup(t) == /\ pc[t] = "waiting"
                     /\ pc' = [pc EXCEPT ![t] = "woken"]
                     /\ UNCHANGED <<readers_, writers_, active_writer_, shared_data, left>>

reader(r) == lock_read(r) \/ unlock_read(r)
writer(w) == lock_write(w) \/ write(w) \/ unlock_write(w)

AllDone == \A t \in Threads : pc[t] = "idle" /\ left[t] = 0

(* main() returns once it has joined every thread.                          *)
Terminated == AllDone /\ UNCHANGED vars

Next == \/ \E r \in Readers : reader(r)
        \/ \E w \in Writers : writer(w)
        \/ \E t \in Threads : SpuriousWakeup(t)
        \/ Terminated

Safety == Init /\ [][Next]_vars

(* The operating system runs every thread that is not in wait(), and the    *)
(* mutex is held for a bounded time only.  Nothing wakes a waiter for free. *)
Fairness == /\ \A r \in Readers : WF_vars(reader(r))
            /\ \A w \in Writers : WF_vars(writer(w))

Spec == Safety /\ Fairness
-----------------------------------------------------------------------------
ReadersIn == {r \in Readers : pc[r] = "locked"}
WritersIn == {w \in Writers : pc[w] \in {"locked", "wrote"}}
WritersPending == {w \in Writers : pc[w] # "idle"}

TypeOK == /\ readers_ \in Nat
          /\ writers_ \in Nat
          /\ active_writer_ \in BOOLEAN
          /\ shared_data \in Writers \cup {0}
          /\ pc \in [Threads -> Labels]
          /\ \A r \in Readers : pc[r] # "wrote"
          /\ left \in [Threads -> 0..Rounds]

(* A writer inside its section is alone there.                              *)
Exclusion == \A w \in WritersIn : ReadersIn = {} /\ WritersIn = {w}

(* The three fields the class decides on always describe the threads that   *)
(* really are inside or, for writers, on their way in.                      *)
CountersExact == /\ readers_ = Cardinality(ReadersIn)
                 /\ writers_ = Cardinality(WritersPending)
                 /\ active_writer_ <=> WritersIn # {}

(* No lost wakeup: a section nobody occupies is never left with sleeping    *)
(* writers only, and readers never sleep when no writer is pending.         *)
WriterWillWake ==
  (ReadersIn = {} /\ WritersIn = {} /\ \E w \in Writers : pc[w] = "waiting")
    => \E w \in Writers : pc[w] = "woken"
ReadersWillWake ==
  (\E r \in Readers : pc[r] = "waiting") => WritersPending # {}
NoLostWakeup == WriterWillWake /\ ReadersWillWake

(* shared_data never changes under a reader that is inside, nor between a   *)
(* writer's assignment and its unlock, so writer() prints what it wrote.    *)
StableUnderLock ==
  [][ReadersIn # {} \/ (\E w \in Writers : pc[w] = "wrote")
       => shared_data' = shared_data]_vars

(* Every reader and writer returns: main() gets past its join() calls.      *)
Termination == <>AllDone

(* The class implements the abstract writer-preferring lock.                *)
phaseBar ==
  [t \in Threads |-> CASE pc[t] = "idle" -> "out"
                       [] pc[t] \in {"waiting", "woken"} -> "want"
                       [] OTHER -> "in"]
RW == INSTANCE ReadersWriters WITH phase <- phaseBar, data <- shared_data
ImplementsReadersWriters == RW!Spec
=============================================================================
