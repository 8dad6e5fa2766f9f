# Formal models of PractiseLib

PractiseLib is a collection of small C++ programs. Most of its logic is
concurrent: a reader-writer lock, three thread pools, and several generations
of a TCP server with its client. This directory holds TLA+ models of those
programs, the TLC configurations that check them on small instances, and
machine-checked proofs about each of them. `PROJECT.json` lists the same things
for tools: components, runs, the lines each definition stands for, mutants,
hazards, findings and theorems.

    tlc -config RWLock.cfg MCReadWriteLock.tla     one run
    tlapm ReadWriteLockProofs.tla                  the proofs of a module

## 1. Inventory

| Component | Source | State it keeps | Operations | How it interacts |
|---|---|---|---|---|
| Reader-writer lock | `Thread/read_wtire_lock.cpp` | `readers_`, `writers_`, `active_writer_`, two condition variables | `lock_read`, `unlock_read`, `lock_write`, `unlock_write` | reader and writer threads share `shared_data` under it |
| Thread pool | `Thread/thread_pool_demo.cpp` | task queue, `stop`, one mutex, one condition variable | worker loop, `enqueue`, destructor | `main` submits 100 tasks, then destroys the pool |
| Work-stealing pool | `Thread/thread_pool_demo2.cpp` | per worker a priority queue, a deque, a mutex, a condition variable; `stop` | worker loop, `getTask`, stealing, `enqueue`, destructor | `main` submits, sleeps, destroys |
| Raw-pointer pool | `Thread/thread_pool_demo3_.cpp`, `thread_pool_demo3_test.cpp` | queue of pointers, `stop`, mutex, condition variable | `append`, `run`, destructor | the test appends a pointer and deletes it, for ever |
| Turn taking | `Thread/ThreadDemo1.cpp` | flag `ready`, mutex, condition variable | `printMessage` | two threads alternate |
| Two locks | `Thread/dead_lock_demo.cpp` | two mutexes | `thread1`, `thread2` | `std::lock` against opposite orders |
| Server (plain text) | `Network/MultiThreadServerDemo.cpp` | `is_running`, vector of threads, listening socket | accept loop, `handle_client`, signal handler | one thread per client; the handler joins them |
| Client (plain text) | `Network/ClientDemo.cpp` | socket | prompt, send, receive | request and response with the server |
| Single-client server | `Network/ServerDemo.cpp` | sockets | accept once, serve | as above, one client |
| Protocol v0.1 | `Network/MultiThreadWithProtocol/` | `is_running`, `is_connected`, sockets | `serialize`, `deserialize`, `handle_client`, client loop, heartbeat | framed messages, one `recv` per message; a heartbeat every 2 s against a 5 s timeout |
| Protocol v0.2.1 | `Network/MultiThreadWithProtocol v0.2.1-to_be_finnished/` | `ClientContext` (pending data, send queue, `sending`), context pool, `activeClients` | completion-port workers, `handle_client_io`, `post_send`, `post_recv`, timeouts, pool | workers share contexts through completions |
| Logger | `Logger.cpp` of both versions | file, level, mutex | `init`, `log`, `shutdown`, `rotateLogs` | called by every thread |
| Shape factory, signal demo, language demos | other directories | a map, or none | sequential | none |

What is hard in this code:

* **Waiting and waking.** The lock and the pools lean on condition variables
  notified after a release, or without the mutex at all; a wakeup lost or sent
  to the wrong thread leaves a thread asleep for ever.
* **Shutting down.** Every pool and server joins its threads; whether `join()`
  returns depends on where each thread was when the flag was set.
* **Byte streams.** Receives end anywhere; only v0.2.1 reassembles messages.
* **Completions and reuse** (v0.2.1). A completion is interpreted by a flag that
  another worker may have changed; contexts go back to a pool with old state.
* **The signal handler**, a thread of its own under Winsock, walks a vector that
  `main` grows.

What makes each component correct: the lock excludes, counts exactly and loses
no wakeup; a pool runs each task once, wakes somebody for it and can be
destroyed; the framing delivers what was sent, once and in order, as soon as it
has come; the server releases its clients and stops; a session lives as long as
its client and no longer; a connection of v0.2.1 has its messages answered once
and in order, and its context serves one connection at a time.

## 2. Modules

| Module | Models | Theorems |
|---|---|---|
| `ReadersWriters` | abstract writer-preferring lock: who is out, wanting, in | |
| `ReadWriteLock` | class `ReadWriteLock`, `reader`, `writer` | `ReadWriteLockProofs` |
| `TaskPool` | abstract pool: stages of a task, no queue, no threads | |
| `ThreadPool` | class `ThreadPool` and `main` | `ThreadPoolProofs` |
| `MessageChannel` | abstract channel: messages handled in order and answered | |
| `FrameStream` | framing of v0.2.1 for one connection | `FrameStreamProofs` |
| `WorkStealingPool` | `WorkStealingPriorityThreadPool` and `main` | `WorkStealingPoolProofs` |
| `RawTaskPool` | `threadPool<T>` and its test | `RawTaskPoolProofs` |
| `ServerShutdown` | plain-text server, its signal handler, its clients | `ServerShutdownProofs` |
| `IocpServer` | v0.2.1: completion port, workers, contexts and their pool, timeouts | `IocpServerProofs` |
| `ProtocolSession` | v0.1: one session, its client and heartbeat, in seconds | `ProtocolSessionProofs` |

Each `MC...` module gives the constants their small values. No run uses
symmetry: each checks safety and liveness together. Actions keep the names of
the functions they model where TLA+ allows. An operator whose name is another's
with a suffix (`WriterBlocked_NoActive`, `Pop_Nothing`) is a plausible wrong
version of it; no specification uses it, but substituting it must break the
property `PROJECT.json` pairs it with.

### Grain of the actions

*Locks and pools.* The code between taking and releasing a mutex (by returning
or by `wait`) is one action, since other threads cannot see inside it. A
thread's position is in `pc`. A thread in `wait` is "waiting"; a notification or
a spurious wakeup moves it to the label from which it contends for the mutex
again. A notification made after the release is an action of its own
(`enqueue_notify`, `append_notify`), so other threads act in between.
Two places need a finer grain:

* `WorkStealingPool`: the destructor sets `stop` and notifies without any mutex,
  so a worker between its test of the predicate and its sleep is in a label of
  its own, "blocking", in which it still holds its mutex.
* `RawTaskPool`: `queue_mutex` is held across `process()` and across the
  destructor's joins, so its owner is a variable. `while (!stop)` reads a plain
  `bool` without the mutex; the race can only yield the old or the new value,
  and both orders of read and write are explored.

*Work stealing.* No code pushes to `second`; it is a constant definition here
and the branches that take from it have no action. The queue that
`std::hash` picks for `main` is chosen once, arbitrarily, in `Init`.

*FrameStream.* A byte is `<<i, k>>`, the k-th byte of the i-th frame sent.
A receive takes any prefix of what is on the wire, up to the buffer size. The
header is read off the frame its first byte belongs to; `FrameBoundary`, checked
and not assumed, says that this is a header indeed. A frame may carry another
version or a damaged payload, which `deserialize` turns into `ERROR_MSG`.
`EXIT` is not answered and closes nothing in this version, as in
`process_message`. Sends, and what their completions do to the connection, are
`IocpServer`'s subject.

*IocpServer.* Here a message is one unit, and a receive brings whole messages.
A worker takes a completion (`take`); reads `sending` (`read_sending`), without
the lock as line 298 does; then runs the branch for a send in one step, or
appends what came, answers each message in a step of its own (`post_send`, one
turn of the loop) and posts the next receive. Other workers act between these
steps. The first `WSARecv` and the binding to the port are two steps
(`connected`, `bind`), and a receive that completes between them is reported to
nobody. Each connection has a socket number of its own, for ever. The source
calls the same `OVERLAPPED` and buffer fields by two sets of names; they are
taken for the same ones. A `WSASend` either fails when it is called or is done
at once with its completion queued: a completion that reports a failed send,
which would leave `sending` set, does not occur.

Four variables watch, and no action of the server reads them: `answers` (what
was sent to each client), `unheard` (a receive completed before the binding),
`tainted`, the contexts something has befallen that the code does not provide
for (a completion taken for one of the other kind, a `WSASend` started while one
was in flight, a context given back twice or with something left in it), and
`patient`. That one is about the clients, not about the code: it is true as long
as each of them was bound, answered in full and done with its last send
(`Ready`) whenever it spoke, closed, or was timed out (a client that has gone
may be timed out at any moment). The safety properties say what the server does
for patient clients, at any pace of its workers and with contexts that are used
again: nothing befalls any context, messages are answered once and in order,
contexts are pooled at rest. Clients that are not patient are in the model too,
with all that happens to them; the hazards list names the lines and what
happens.

*ProtocolSession.* What is on the wire is a sequence of messages, the first
perhaps cut; `recv` takes any number of bytes, up to the buffer, from the front,
and all messages but the one at the front of what it took are forgotten, as
`handle_client` forgets them. Bytes that are not a header are read as one, and
say anything (`Said`). Answers are counted in bytes: to the client it matters
whether there are any. Time passes in seconds by `Tick`, which does not pass a
deadline: a heartbeat that is due, a receive timeout, and `MaxDelay`, within
which the server catches up with what was sent. A client may close, or its host
may be lost without a word (`vanish`).

*ServerShutdown.* A message is the number of `recv()` calls it takes: none if
empty, two if longer than the buffer. The moment at which a silent client is
timed out is arbitrary: whenever nothing is to be read. `accept()` and
`emplace_back` are two steps: a connection accepted has no thread in between,
and the signal handler may run then. Where the handler iterates over a vector
that has grown, or two threads join one thread, C++ gives no meaning; the model
chooses among "as if nothing happened", "the element has been moved away" and
"the process is terminated". The end of the process, by `exit(0)` or `return`,
destroys the vector, which terminates the process if it holds a thread that
nobody has joined (`Ends`). `woken` watches: it is false while `main` has been
in `accept()` ever since the signal. One SIGINT is modelled; a second one is
fatal under Winsock. Start-up errors are not modelled.

## 3. Runs

Bounds are constants of the models; nothing else is cut off.

| Run | Instance | Shows |
|---|---|---|
| `RWLock` | 2 readers, 3 writers, 2 rounds | `Exclusion`, `CountersExact`, `NoLostWakeup`, `StableUnderLock`, `Termination`, refinement of `ReadersWriters` with its fairness |
| `Pool` | 3 workers, 5 tasks | `ExactlyOnce`, `WorkConserving`, `CleanShutdown`, `DestructorReturns`, refinement of `TaskPool` with its fairness |
| `Frame` | 3 frames of 6 kinds, header 2, buffer 4 | `FrameBoundary`, `InOrder`, refinement of `MessageChannel` with its fairness |
| `Stealing` | 3 workers, priorities 1 3 2 1 | `ExactlyOnce`, `TargetAwake`, `AllTasksRun`, `MissedOrReturns` |
| `StealingShutdown` | 2 workers, 2 tasks | *violated*: `DestructorReturns` |
| `RawPool` | 3 workers, 4 tasks, destroyed or not | `OneAtATime`, `ExactlyOnce`, `WorkConserving`, `AllProcessed` |
| `RawPoolShutdown` | 2 workers, 1 task | *violated*: `DestructorReturns` |
| `RawPoolDelete` | 2 workers, 2 tasks | *violated*: `TaskAlive` |
| `Shutdown` | 2 clients, backlog 1, messages of up to 2 parts, signal or not | `CleanStop`, `StopsInSilence`, `ClientReleased` |
| `Iocp` | 2 connections, 2 workers, 2 contexts, pool of 1, 2 messages, patient clients and others | `SoundWhilePatient`, `ServedOnce`, `PooledAtRest`, `Answered` |
| `IocpRace` | the same, clients that wait for each answer | *violated*: `SendBranchForSends` |
| `Session` | messages of 0, 1, 3 bytes, header 2, buffer 4, heartbeat 2 s, timeout 5 s, delay 1 s | `KeptAlive`, `Answered`, `SessionEnds` |

Why the bounds are enough. The lock needs two waiting writers besides an active
one to tell "one writer" from "all" and "any", and a second round so that a
thread that has left barges in before one that was woken. Pools need more tasks
than workers (queueing) and more workers than queued tasks (idling); both occur
as the run goes on. Frames are shorter and longer than the buffer, and three of
them let one chunk hold the end of one, a whole one and the start of the next.
Two clients let one be served while the other is in the backlog, finds it full,
or is accepted around the signal; a two-part message outlives its first answer.
In `Iocp` two messages are enough for a receive to complete while a send is in
flight, a pool of one for a context to be reused and for one to be deleted, two
workers for two completions of one context to be handled at once. In `Session`
a message is empty, fits one receive, or fits none; two of them let the rest of
one be taken for the start of the next; heartbeats come without bound. The
periods are the code's; any delay under three seconds would do.

Deadlock is checked in the lock, the pool and the framing, whose end is a
`Terminated` or `Idle` step; it is not checked where the program really stops
for good (a pool that cannot be destroyed, a client that has gone, a process
that has exited). In `Session` it is checked, and says that time never stops.

### The violated runs

They state what a comment of the repository says and what the code does not do.

* `StealingShutdown`: a worker tests the predicate (stop still false), the
  destructor sets `stop` and notifies, the worker goes to sleep. `join()` waits
  for ever, against "makes sure that all threads exit safely". It is the only
  way: `MissedOrReturns`, which run `Stealing` checks, says that a destructor
  that has begun to notify returns, or a worker it has notified is asleep.
* `RawPoolShutdown`: the destructor joins with the mutex held, against "join is
  possible in the destructor".
* `RawPoolDelete`: the test deletes a task that is queued, on a line whose
  comment says "uses a smart pointer".
* `IocpRace`: a client reads its answer and sends its next message before a
  worker has handled the completion of the send. The receive is handled with
  `sending` still set, against "the send is complete, try the next one": its
  bytes are dropped, and no receive is posted again.

Five things the models show without a run of their own.

* `StopsInSilence` needs its premise: in the plain-text server a client that
  keeps sending keeps its thread, hence the signal handler, hence the process
  (`handle_client` there does not look at `is_running`; that of v0.1 does, which
  `SessionEnds` relies on).
* `CleanStop` needs its premise too. A client accepted before the signal whose
  thread enters the vector after the handler took its end (lines 129, 137, 31)
  is joined by nobody, and the process ends under it. If `main` tests
  `is_running` after the signal it walks the vector as well, in a loop the
  comment of line 140 calls never reached; both loops may then join one thread,
  which terminates the process under the clients.
* `Answered` of `ProtocolSession` needs both of its exceptions: an empty message
  is answered by no bytes, and a message behind a heartbeat in one receive by
  nothing; either client waits until the server stops, kept alive by its own
  heartbeats.
* `SoundWhilePatient` needs its premise. `post_send` starts a send whether or
  not one is in flight, against the comment of line 64 ("start an asynchronous
  send if none is in progress"): of two messages that arrive with one receive
  the first is answered twice, and the completion of the third send, which finds
  the flag cleared, is taken for a receive of what is still in the buffer. A
  client that closes while its message is handled has its context released
  twice, by `post_send` and by `post_recv`. One that speaks before the worker
  has bound its socket is never heard.
* With such clients a worker may pop an empty queue (line 301), which C++ gives
  no meaning.

### Fairness

* A thread that is not blocked is scheduled (weak fairness of each thread's
  disjunction of actions): what an operating system gives.
* A mutex that is free again and again is obtained in the end (strong fairness
  of `enqueue` in `WorkStealingPool`; of `Take` and `append` in `RawTaskPool`,
  where the mutex is held across long steps). C++ does not promise it; operating
  systems do in practice, and without it no program with a contended mutex has a
  liveness property. The other modules do not need it: the mutex is never held
  between two actions.
* Nothing wakes a waiter for free: there is no fairness on `SpuriousWakeup`.
* A receive completes while bytes are on the wire, and `recv` times out. Users,
  peers and Ctrl-C owe nothing, and nobody need destroy a `RawTaskPool`.
* In `IocpServer` the workers and the network, taken together, go on while one
  of them can: enough for its one liveness property. Nothing is assumed of the
  clients or of the timeout thread.
* In `ProtocolSession` time passes, and the heartbeat, each `recv` and the
  signal handler do what they can; users, the signal and the loss of a host may
  not come. That deadlines are met is part of `Tick`: an assumption on the
  machines and the network (`Period + MaxDelay < Timeout`), not on the code.

Progress of each waiting thread of `ReadWriteLock` depends on the rounds being
finite: with writers that come for ever readers may starve, by design of the
class.

## 4. Proofs

Each proof module extends the module it is about and holds for every value of
the constants that satisfies the assumptions there: finite sets of threads and
clients, at least one worker in a pool, threads that are told apart (readers
from writers, a worker from the values `"main"` and `"nobody"` of `owner`); any
number of tasks, of messages, any priorities; any header and buffer that are not
empty, any frames; at least as many contexts as connections, as `new` makes
them when the pool is empty; a heartbeat with `Period + MaxDelay < Timeout`.
Where the theorems speak of `Safety` rather than of `Spec`, it is `Spec` without
its fairness.

All follow one line. `IInv` is the inductive invariant; `InitIInv` and
`StepIInv` (or a lemma per action) prove it of the initial states and preserved
by every action, `Invariance` puts the two together, and the theorems listed in
`PROJECT.json` follow from it. What follows says why `IInv` needs more than the
properties it yields. Every safety invariant that a passing run checks is among
them, and so is one action property, `StableUnderLock`.

**`ReadWriteLockProofs`.** The inductive invariant is typing, `CountersExact`,
`Exclusion` and `NoLostWakeup` with what they need of each other: that
the counters equal the cardinalities of the sets of threads at certain labels is
what lets a test of a counter (`readers_ = 0`) decide a fact about threads
(nobody is inside). Lemmas say how those cardinalities change when one thread
changes its label and that notifications change no set that is counted.
`TypeCorrect`, `MutualExclusion`, `CountersCorrect` and `NoWakeupLost` follow,
then the action property `StableUnderLock` and `Refinement`: initial states map
to initial states of `ReadersWriters`, and each step to one of its steps or a
stutter.

**`ThreadPoolProofs`.** The invariant joins typing with `ExactlyOnce`,
`WorkConserving` and `CleanShutdown`. The queue always holds the last tasks
submitted, in order, which makes "the head of the queue" and "the next task to
start" the same thing; `WorkConserving` counts the awake workers and is
preserved because a notification either adds one or finds no sleeper.
`EachTaskOnce`, `NoWakeupLost`, `DestructorDrains` and `Refinement` follow.

**`RawTaskPoolProofs`.** `MutexHeld` says who has the mutex across `process()`
and the joins; with it, `OneTaskAtATime` is immediate and the tasks taken are
one at most ahead of those processed. `Counted` turns that into an equation:
with `Taken` tasks gone from the queue, each of the first `Taken` was processed
once, the last of them only when nobody is inside. `EveryTaskOnce`,
`NoLostWakeup` and `ProcessedInOrder` follow. The last is stated only here: the
mutex that is held too long is also what keeps the tasks in order.

**`WorkStealingPoolProofs`.** All tasks go to the queue of `main`'s thread
(`OnlyTarget`). `NothingLeft` strengthens `TargetAwake` by the states between
the push and the notification, where the target may sleep on a queue that is
not empty but may not be about to; the worker can get there only if it tests
the predicate before the push, under the mutex the push needs. `Placed` says
where every task is. `EveryTaskOnce` and `NoLostNotification` follow.

**`ServerShutdownProofs`.** Two loops walk the vector of threads while it grows.
`ConnectsOnce` and `InHand` say which connections are in the vector: all that
have been accepted but the one `main` has in hand between `accept()` and
`emplace_back`. `Asleep` says that while `~woken` holds the vector has not grown
since the signal and `main` joins nothing before the listener is closed.
`MainLoop` and `HandlerLoop` say what is behind each loop: under `~woken`, joined
threads only. `CleanStop` is inductive with them; `StopsCleanly` is the theorem.

**`FrameStreamProofs`.** What is sent and not yet handled, received or not, is
one sequence, `Rest`. `FrameBoundary` describes it step by step (each byte is
followed by the next of its frame, or by the first of the next); `Whole`, the
same at every distance at once, is what the arithmetic of a message needs: that
the next `Size` bytes are one frame. It follows from the first only by an
induction over data, so both are in the invariant. Lemmas about any such stream
say that it stays one when a frame is put behind it, or taken off its front;
a receive moves bytes inside it and changes nothing. `NoByteLost`,
`MessagesInOrder` and `Refinement` of `MessageChannel` follow.

**`IocpServerProofs`.** Two layers. The first, `IInv`, is about sound contexts,
those not in `tainted`, whoever the clients are; it says why they stay right until
something taints them. `WorkerHolds`: the completion a worker holds fits the
step it is at. `Connecting`: a connection is announced once, and nothing is
received before it has a context. `Owned`: a context serves the connection it was
given to last, and one that was never given out is at rest. `SoundOrderly`: for a
sound context one receive and one send at most are pending, on the port or in a
worker's hands, and its buffer holds what the completion announces. This is what
makes the branch that a worker takes the right one, its bytes the next ones, and
the moment a context is given back one at which nobody names it. Most of an
action's proof is what it leaves alone: `ActsOn`, `Elsewhere` and `Conclude` say
once that a worker acting for one context changes nothing the invariant says of
another.

The second layer, `Calm`, says that with patient clients nothing taints a context
at all. `Peace`: no context is tainted and no receive unheard; a client does
nothing before its connection is bound (`Greeted`); a context that is not given
out is at rest, and of one that is, at most one message is unanswered, with no
send in flight then (`InTurn`), nothing is under way once its client has gone or
it has been timed out (`Spent`), and a completion tells of an end only when the
client has gone (all in `Tended`). One lemma per action keeps it. The second layer
needs the first, which says what a completion means and where the messages of a
sound context are; the first is also what holds of a sound context beside
tainted ones, whoever the clients are.
`NothingBefalls`, `ContextsPooledAtRest` and `EveryMessageOnce` follow from both.

**`ProtocolSessionProofs`.** `KeptAlive` for all periods. The invariant `Prompt`
relates three timers: while nothing is on the wire, the seconds the server has
waited and those until the next heartbeat make at most a period; once something
is (or the client has closed), the server has waited at most a period longer
than it has been behind. How the stream is cut does not matter to it, because
every `recv` restarts the wait; it matters to typing, which says that only the
first message is cut and a byte of it is left. `UpTo` counts a set of bytes, so
that its sums are cardinalities of disjoint unions and no induction is needed;
the messages a `recv` takes wholly are then the first `k` of the wire
(`TakenFirst`), and of the next it leaves more than nothing (`RestIsStream`).

Only model-checked: the liveness properties (`Termination`, `DestructorReturns`
of `ThreadPool`, `AllTasksRun`, `MissedOrReturns`, `AllProcessed`,
`StopsInSilence`, `ClientReleased`, `SessionEnds`, and `Answered` of both
servers) and the fairness halves of the three refinements. They rest on
`ENABLED`, which the provers do not handle. The violated runs are
counterexamples; there is nothing to prove about them.

## 5. Not modelled

* The single-client server: one thread whose loop is `handle_client` of the
  server `ServerShutdown` models.
* The Logger: `log` is one critical section around a write to a file. Two things
  are wrong with it that no state leads to: `shutdown` closes the file without
  the mutex, and `rotateLogs` expects names two characters longer than those
  `generateLogFileName` writes, so it deletes nothing.
* The two-lock demo: `std::lock` takes both mutexes or none, once.
* Turn taking: planned.
* The shape factory, the signal demo and the language demos: straight-line code,
  no interaction.
* Of v0.2.1: completions that report a failed send, the signal handler (the
  workers are detached, so nothing but the end of the process follows), the
  reuse of socket numbers by the system, the unlocked walk of the timeout thread
  over `activeClients`, and `reconnect` of the client, which its loop never
  calls: the socket is never `INVALID_SOCKET` when the loop looks at it.

`thread_pool_demo2.cpp` does not compile as it stands (it resizes a vector of
mutexes), nor does the v0.2.1 server (members it uses are not declared, and
three of its headers are unreadable in the repository); they are modelled as
written, for what the code would do. Console output is left out everywhere.

## 6. Plan

In order of importance:

1. A run for the comment at line 64 of the v0.2.1 server (one send in flight),
   which the model contradicts, and an abstract send queue that the contexts of
   patient clients implement.
2. Completions that report a failed send, and what a `sending` that stays set
   does to the next connection of the context.
3. Socket numbers that are reused, against the timeout thread of v0.2.1.
4. `TurnTaking`.
