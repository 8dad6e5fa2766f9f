------------------------------ MODULE IocpServer ------------------------------
(***************************************************************************)
(* Network/MultiThreadWithProtocol v0.2.1: overlapped I/O.  Worker threads *)
(* take completions from one port and act on the ClientContext the         *)
(* completion names; contexts come from a pool and go back to it; a thread *)
(* closes sockets that have been silent.  MultiThreadServerDemo.cpp, with  *)
(* the part of ClientDemo.cpp a server sees.                               *)
(*                                                                         *)
(* A message is one unit, and so is its answer: DATA messages as long as   *)
(* "Hello from server!" (or PINGs).  The k-th message of a client is the   *)
(* number k, and so is its answer.  How bytes become messages is           *)
(* FrameStream's subject: a receive brings whole messages here.            *)
(*                                                                         *)
(* Four variables only watch: answers, tainted, unheard and patient.       *)
(***************************************************************************)
EXTENDS Integers, Sequences, FiniteSets

CONSTANTS NClients,     \* connections, numbered in the order accepted
          Contexts,     \* ClientContext objects there can be
          Workers,      \* threads on the completion port
          MaxPool,      \* MAX_POOL_SIZE
          Window,       \* messages of a client not yet answered
          MaxMessages,  \* bound: messages of all clients together
          None          \* no client, no context

Clients == 1..NClients

ASSUME SetsAssumption == /\ NClients \in Nat /\ IsFiniteSet(Contexts)
                         /\ Cardinality(Contexts) >= NClients
                         /\ None \notin Clients \cup Contexts /\ Clients \cap Contexts = {}
ASSUME SizesAssumption == /\ MaxPool \in Nat /\ MaxMessages \in Nat
                          /\ Window \in Nat \ {0}

VARIABLES client, sent,           \* of each client: where it is, messages sent
          wire, end,              \* on its connection: messages under way, how it was ended
          handle,                 \* the server's socket handle
          context, bound, recvs,  \* its context, whether bound to the port, WSARecvs pending
          port,                   \* completions queued
          socket, sendQueue, sending, pendingData, buffer,  \* fields of each context
          pool, inUse,            \* contexts in the pool, contexts given out
          pc, packet,             \* of each worker
          activeClients,          \* clients heard of and not timed out
          process,                \* "running" or "crashed"
          answers, tainted, unheard, patient

watched == <<tainted, unheard, patient>>
peers == <<client, sent, wire, end>>
fields == <<socket, sendQueue, sending, pendingData, buffer>>
sockets == <<handle, context, bound, recvs>>
vars == <<peers, sockets, port, fields, pool, inUse, pc, packet, activeClients,
          process, answers, watched>>

Nothing == [op |-> "none", of |-> None, n |-> 0]

Init == /\ client = [c \in Clients |-> "out"]
        /\ sent = [c \in Clients |-> 0]
        /\ wire = [c \in Clients |-> <<>>] /\ end = [c \in Clients |-> "open"]
        /\ handle = [c \in Clients |-> "none"]
        /\ context = [c \in Clients |-> None]
        /\ bound = [c \in Clients |-> FALSE] /\ recvs = [c \in Clients |-> 0]
        /\ port = <<>>
        /\ socket = [x \in Contexts |-> None]
        /\ sendQueue = [x \in Contexts |-> <<>>]
        /\ sending = [x \in Contexts |-> FALSE]
        /\ pendingData = [x \in Contexts |-> <<>>]
        /\ buffer = [x \in Contexts |-> <<>>]
        /\ pool = <<>> /\ inUse = {}
        /\ pc = [w \in Workers |-> "wait"] /\ packet = [w \in Workers |-> Nothing]
        /\ activeClients = {}
        /\ process = "running"
        /\ answers = [c \in Clients |-> <<>>] 
        /\ tainted = {} /\ unheard = {} /\ patient = TRUE

Packet(op, of, n) == [op |-> op, of |-> of, n |-> n]

(* What WSASend and WSARecv need of a socket to start. *)
Usable(c) == handle[c] = "open" /\ end[c] # "reset"

-----------------------------------------------------------------------------
(* Clients and the network. *)

serverUnchanged == UNCHANGED <<sockets, port, fields, pool, inUse, pc, packet, activeClients,
                               process, answers, tainted, unheard>>

(* The server has nothing under way for a client: it is bound to the port,   *)
(* everything it sent is answered, and the last send has been seen to end.  *)
Ready(c) == bound[c] /\ sent[c] = Len(answers[c]) /\ ~sending[context[c]]

(* main(): accept() returns a connection and posts it to the workers.       *)
accept(c) ==
  /\ client[c] = "out" /\ \A d \in 1..(c - 1) : client[d] # "out"
  /\ client' = [client EXCEPT ![c] = "connected"]
  /\ handle' = [handle EXCEPT ![c] = "open"]
  /\ port' = Append(port, Packet("new", c, 0))
  /\ UNCHANGED <<sent, wire, end, context, bound, recvs, fields, pool, inUse,
                 pc, packet, activeClients, process, answers, watched>>

(* The messages sent so far, by all clients together.                       *)
Messages == {m \in Clients \X (1..MaxMessages) : m[2] <= sent[m[1]]}

(* main() or the heartbeat thread of a client sends one more message; what    *)
(* has been answered has been read.                                         *)
submit(c) ==
  /\ client[c] = "connected" /\ handle[c] = "open"
  /\ Cardinality(Messages) < MaxMessages /\ sent[c] - Len(answers[c]) < Window
  /\ sent' = [sent EXCEPT ![c] = @ + 1]
  /\ wire' = [wire EXCEPT ![c] = Append(@, sent[c] + 1)]
  /\ patient' = (patient /\ Ready(c))
  /\ UNCHANGED <<client, end>> /\ serverUnchanged

(* A client that closes its socket with answers unread resets it.           *)
disconnect(c) ==
  /\ client[c] = "connected"
  /\ client' = [client EXCEPT ![c] = "gone"]
  /\ \/ end' = [end EXCEPT ![c] = "fin"] /\ UNCHANGED wire
     \/ /\ answers[c] # <<>>
        /\ end' = [end EXCEPT ![c] = "reset"] /\ wire' = [wire EXCEPT ![c] = <<>>]
  /\ patient' = (patient /\ Ready(c))
  /\ UNCHANGED sent /\ serverUnchanged

(* A pending WSARecv completes: with what has come, with 0 bytes after the   *)
(* peer's end, or with an error.  No completion is queued for a socket that *)
(* is not bound to the port.                                                *)
recv_completes(c) ==
  /\ recvs[c] > 0
  /\ recvs' = [recvs EXCEPT ![c] = @ - 1]
  /\ LET x == context[c]
         Queue(op, n) == port' = IF bound[c] THEN Append(port, Packet(op, x, n)) ELSE port
     IN  \/ /\ Usable(c) /\ wire[c] # <<>>
            /\ buffer' = [buffer EXCEPT ![x] = wire[c]]
            /\ wire' = [wire EXCEPT ![c] = <<>>]
            /\ Queue("recv", Len(wire[c]))
         \/ /\ Usable(c) /\ wire[c] = <<>> /\ end[c] = "fin"
            /\ Queue("recv", 0)
            /\ UNCHANGED <<buffer, wire>>
         \/ /\ ~Usable(c)
            /\ Queue("failed", 0)
            /\ UNCHANGED <<buffer, wire>>
  /\ unheard' = IF bound[c] THEN unheard ELSE unheard \cup {c}
  /\ UNCHANGED <<client, sent, end, handle, context, bound, socket, sendQueue,
                 sending, pendingData, pool, inUse, pc, packet, activeClients, process,
                 answers, tainted, patient>>
-----------------------------------------------------------------------------
(* ClientContextPool and close_client. *)

(* get(): the context given back last, or a new one.                        *)
get == IF pool # <<>> THEN pool[Len(pool)]
       ELSE CHOOSE x \in Contexts : socket[x] = None

Taken_Kept == pool
Taken == IF pool # <<>> THEN SubSeq(pool, 1, Len(pool) - 1) ELSE pool

(* What is left in a context for the connection that gets it next.          *)
Dirty(x) == sendQueue[x] # <<>> \/ sending[x] \/ pendingData[x] # <<>>

(* release(): beyond MAX_POOL_SIZE the context is deleted.                  *)
HasRoom_OneMore == Len(pool) <= MaxPool
HasRoom == Len(pool) < MaxPool

release(x) ==
  /\ pool' = IF HasRoom THEN Append(pool, x) ELSE pool
  /\ inUse' = inUse \ {x}
  /\ tainted' = IF x \notin inUse \/ Dirty(x) THEN tainted \cup {x} ELSE tainted

close_client(x) == handle' = [handle EXCEPT ![socket[x]] = "closed"] /\ release(x)

-----------------------------------------------------------------------------
(* Worker threads. *)

Goto(w, label) == pc' = [pc EXCEPT ![w] = label] /\ UNCHANGED packet
Done(w) == pc' = [pc EXCEPT ![w] = "wait"] /\ packet' = [packet EXCEPT ![w] = Nothing]

workerUnchanged == UNCHANGED <<peers, context, unheard, patient>>

(* GetQueuedCompletionStatus; a failed operation is logged and forgotten.   *)
take(w) ==
  /\ pc[w] = "wait" /\ port # <<>>
  /\ port' = Tail(port)
  /\ IF Head(port).op = "failed"
       THEN UNCHANGED <<pc, packet>>
       ELSE /\ pc' = [pc EXCEPT ![w] = "taken"]
            /\ packet' = [packet EXCEPT ![w] = Head(port)]
  /\ UNCHANGED <<peers, sockets, fields, pool, inUse, activeClients, process, answers, watched>>

(* A new connection: it gets a context, the first WSARecv is posted.        *)
connected(w) ==
  /\ pc[w] = "taken" /\ packet[w].op = "new"
  /\ LET c == packet[w].of
     IN  /\ context' = [context EXCEPT ![c] = get]
         /\ socket' = [socket EXCEPT ![get] = c]
         /\ pool' = Taken /\ inUse' = inUse \cup {get}
         /\ recvs' = [recvs EXCEPT ![c] = IF Usable(c) THEN 1 ELSE 0]
  /\ Goto(w, "bind")
  /\ UNCHANGED <<peers, handle, bound, port, sendQueue, sending, pendingData, buffer,
                 activeClients, process, answers, watched>>

bind(w) ==
  /\ pc[w] = "bind"
  /\ bound' = [bound EXCEPT ![packet[w].of] = handle[packet[w].of] = "open"]
  /\ Done(w)
  /\ UNCHANGED <<handle, recvs, port, fields, pool, inUse, activeClients, process, answers, tainted>>
  /\ workerUnchanged

(* 0 bytes: the client has disconnected. *)
disconnected(w) ==
  /\ pc[w] = "taken" /\ packet[w].op = "recv" /\ packet[w].n = 0
  /\ release(packet[w].of)
  /\ Done(w)
  /\ UNCHANGED <<handle, bound, recvs, port, fields, activeClients, process, answers>>
  /\ workerUnchanged

(* The flag `sending' decides what the completion is taken for.             *)
TakenForSend(w) == sending[packet[w].of]

read_sending(w) ==
  /\ pc[w] = "taken" /\ packet[w].op # "new" /\ packet[w].n > 0
  /\ Goto(w, IF TakenForSend(w) THEN "sent" ELSE "received")
  /\ tainted' = IF (packet[w].op = "send") # TakenForSend(w)
                  THEN tainted \cup {packet[w].of} ELSE tainted
  /\ UNCHANGED <<handle, bound, recvs, port, fields, pool, inUse, activeClients, process, answers>>
  /\ workerUnchanged

(* WSASend of the first message in the queue q: the network has it at once,  *)
(* and its completion is queued.                                            *)
WSASend(x, q) ==
  /\ Usable(socket[x])
  /\ answers' = [answers EXCEPT ![socket[x]] = Append(@, Head(q))]
  /\ port' = Append(port, Packet("send", x, 1))
  /\ UNCHANGED <<handle, pool, inUse>>

WSASendFails(x) == /\ ~Usable(socket[x])
                   /\ close_client(x)
                   /\ UNCHANGED <<answers, port>>

(* The branch for a send that has completed, under the context's lock.      *)
send_done(w) ==
  /\ pc[w] = "sent"
  /\ LET x == packet[w].of
         q == Tail(sendQueue[x])
     IN  /\ sendQueue[x] # <<>>
         /\ sendQueue' = [sendQueue EXCEPT ![x] = q]
         /\ \/ /\ q # <<>>
               /\ WSASend(x, q)
               /\ UNCHANGED <<sending, tainted>>
            \/ /\ q # <<>>
               /\ WSASendFails(x)
               /\ sending' = [sending EXCEPT ![x] = FALSE]
            \/ /\ q = <<>>
               /\ sending' = [sending EXCEPT ![x] = FALSE]
               /\ UNCHANGED <<handle, pool, inUse, port, answers, tainted>>
  /\ Done(w)
  /\ UNCHANGED <<bound, recvs, socket, pendingData, buffer, activeClients, process>>
  /\ workerUnchanged

(* pop_front() of an empty deque: what is at its front then is no string;    *)
(* the process dies of it or finds it too large to send.                    *)
send_done_empty(w) ==
  /\ pc[w] = "sent" /\ sendQueue[packet[w].of] = <<>>
  /\ \/ /\ process' = "crashed"
        /\ UNCHANGED <<sending, handle, pool, inUse, tainted>>
     \/ /\ close_client(packet[w].of)
        /\ sending' = [sending EXCEPT ![packet[w].of] = FALSE]
        /\ UNCHANGED process
  /\ Done(w)
  /\ UNCHANGED <<bound, recvs, port, socket, sendQueue, pendingData, buffer, activeClients, answers>>
  /\ workerUnchanged

(* handle_client_io: the bytes the completion speaks of are appended.       *)
Arrived(x, n) == SubSeq(buffer[x], 1, IF n < Len(buffer[x]) THEN n ELSE Len(buffer[x]))

handle_client_io(w) ==
  /\ pc[w] = "received"
  /\ LET x == packet[w].of
     IN  /\ activeClients' = activeClients \cup {socket[x]}
         /\ pendingData' = [pendingData EXCEPT ![x] = @ \o Arrived(x, packet[w].n)]
  /\ Goto(w, "parse")
  /\ UNCHANGED <<handle, bound, recvs, port, socket, sendQueue, sending, buffer, pool, inUse,
                 process, answers, tainted>>
  /\ workerUnchanged

(* One message of the loop: process_message calls post_send with an answer,  *)
(* which starts a WSASend whether or not one is in flight.                  *)
Marked_Not(x) == sending
Marked(x) == [sending EXCEPT ![x] = TRUE]

Erased_Never(s) == s
Erased(s) == Tail(s)

post_send(w) ==
  /\ pc[w] = "parse"
  /\ LET x == packet[w].of
         q == Append(sendQueue[x], Head(pendingData[x]))
     IN  /\ pendingData[x] # <<>>
         /\ sendQueue' = [sendQueue EXCEPT ![x] = q]
         /\ pendingData' = [pendingData EXCEPT ![x] = Erased(@)]
         /\ \/ /\ WSASend(x, q)
               /\ sending' = Marked(x)
               /\ tainted' = IF sendQueue[x] # <<>> THEN tainted \cup {x} ELSE tainted
            \/ /\ WSASendFails(x)
               /\ sending' = [sending EXCEPT ![x] = FALSE]
  /\ UNCHANGED <<pc, packet, bound, recvs, socket, buffer, activeClients, process>>
  /\ workerUnchanged

(* No message left: the next receive is posted. *)
NextRecv_None(c) == recvs
NextRecv(c) == [recvs EXCEPT ![c] = @ + 1]

post_recv(w) ==
  /\ pc[w] = "parse" /\ pendingData[packet[w].of] = <<>>
  /\ LET c == socket[packet[w].of]
     IN  IF Usable(c)
           THEN /\ recvs' = NextRecv(c)
                /\ UNCHANGED <<pool, inUse, tainted>>
           ELSE release(packet[w].of) /\ UNCHANGED recvs
  /\ Done(w)
  /\ UNCHANGED <<handle, bound, port, fields, activeClients, process, answers>>
  /\ workerUnchanged

worker(w) == \/ take(w) \/ connected(w) \/ bind(w) \/ disconnected(w) \/ read_sending(w)
             \/ send_done(w) \/ send_done_empty(w)
             \/ handle_client_io(w) \/ post_send(w) \/ post_recv(w)

-----------------------------------------------------------------------------
(* check_client_timeouts closes a client heard of but silent for ten         *)
(* seconds.  Which moment that is, is left open: a client looked at too     *)
(* late, or speaking again while the loop runs, is closed at any moment.    *)
check_client_timeouts(c) ==
  /\ c \in activeClients
  /\ handle' = [handle EXCEPT ![c] = "closed"]
  /\ activeClients' = activeClients \ {c}
  /\ patient' = (patient /\ (client[c] = "gone" \/ Ready(c)))
  /\ UNCHANGED <<peers, context, bound, recvs, port, fields, pool, inUse, pc, packet,
                 process, answers, tainted, unheard>>

-----------------------------------------------------------------------------
Next == /\ process = "running"
        /\ \/ \E c \in Clients : \/ accept(c) \/ submit(c) \/ disconnect(c)
                                 \/ recv_completes(c) \/ check_client_timeouts(c)
           \/ \E w \in Workers : worker(w)

Safety == Init /\ [][Next]_vars

(* Workers and the network go on as long as one of them can; clients owe     *)
(* nothing, and ten seconds of silence need not pass.                       *)
Server == (\E w \in Workers : worker(w)) \/ (\E c \in Clients : recv_completes(c))
Spec == Safety /\ WF_vars(process = "running" /\ Server)
-----------------------------------------------------------------------------
Packets == [op : {"new"}, of : Clients, n : {0}]
             \cup [op : {"recv", "failed"}, of : Contexts, n : Nat]
             \cup [op : {"send"}, of : Contexts, n : {1}]

Stream == Seq(1..MaxMessages)

TypeOK ==
  /\ client \in [Clients -> {"out", "connected", "gone"}]
  /\ sent \in [Clients -> 0..MaxMessages]
  /\ wire \in [Clients -> Stream]
  /\ end \in [Clients -> {"open", "fin", "reset"}]
  /\ handle \in [Clients -> {"none", "open", "closed"}]
  /\ context \in [Clients -> Contexts \cup {None}]
  /\ bound \in [Clients -> BOOLEAN] /\ recvs \in [Clients -> Nat]
  /\ port \in Seq(Packets)
  /\ socket \in [Contexts -> Clients \cup {None}] /\ sending \in [Contexts -> BOOLEAN]
  /\ sendQueue \in [Contexts -> Stream] /\ pendingData \in [Contexts -> Stream]
  /\ buffer \in [Contexts -> Stream]
  /\ pool \in Seq(Contexts) /\ Len(pool) <= MaxPool /\ inUse \subseteq Contexts
  /\ pc \in [Workers -> {"wait", "taken", "bind", "sent", "received", "parse"}]
  /\ packet \in [Workers -> Packets \cup {Nothing}]
  /\ activeClients \subseteq Clients
  /\ process \in {"running", "crashed"}
  /\ answers \in [Clients -> Stream]
  /\ tainted \subseteq Contexts /\ unheard \subseteq Clients
  /\ patient \in BOOLEAN

(* As long as clients speak, close and are timed out only while the server   *)
(* has nothing under way for them, whatever the workers' pace and whichever *)
(* contexts are used again: no completion is taken for one of the other     *)
(* kind, no send starts while one is in flight, no context is given back    *)
(* twice or with something left in it, no receive ends before the binding.  *)
SoundWhilePatient == patient => tainted = {} /\ unheard = {}

(* The messages a completion that is queued, or held by a worker, announces. *)
Announces(x) ==
  \/ \E i \in 1..Len(port) : port[i].op = "recv" /\ port[i].of = x /\ port[i].n > 0
  \/ \E w \in Workers : /\ packet[w].op = "recv" /\ packet[w].of = x /\ packet[w].n > 0
                        /\ pc[w] \in {"taken", "received"}
Announced(x) == IF Announces(x) THEN buffer[x] ELSE <<>>

(* Then every connection has its messages answered once and in order, and    *)
(* none is lost between the wire and the answer, whichever connections its  *)
(* context has served before.                                               *)
ServedInOrder(x) ==
  \A c \in Clients :
    socket[x] = c =>
      answers[c] \o pendingData[x] \o Announced(x) \o wire[c] = [k \in 1..sent[c] |-> k]
ServedOnce == patient => \A x \in Contexts : ServedInOrder(x)

(* Nothing refers to a context and nothing is left in it: no receive is      *)
(* posted for it, no completion names it, no worker has it.                 *)
AtRest(x) ==
  /\ ~Dirty(x) /\ x \notin inUse
  /\ \A c \in Clients : context[c] = x => recvs[c] = 0
  /\ \A j \in 1..Len(port) : port[j].of # x
  /\ \A w \in Workers : packet[w].of # x

(* And a context in the pool is there once, and at rest.                    *)
PooledAtRest ==
  patient =>
    \A i \in 1..Len(pool) : /\ \A j \in 1..Len(pool) : pool[j] = pool[i] => j = i
                            /\ AtRest(pool[i])

(* A message is answered in the end, unless the connection ends first, its   *)
(* context is tainted, its first receive completed before it was bound, or  *)
(* the process has died.                                                    *)
Answered ==
  \A c \in Clients :
    sent[c] > Len(answers[c]) ~>
      \/ sent[c] <= Len(answers[c])
      \/ end[c] # "open" \/ handle[c] = "closed" \/ c \in unheard
      \/ context[c] \in tainted \/ process = "crashed"

(* "Send completed, try the next one" (line 299): the branch is entered for  *)
(* the completion of a send.                                                *)
SendBranchForSends ==
  \A w \in Workers : pc[w] = "sent" => packet[w].op = "send"
=============================================================================
