--------------------------- MODULE IocpServerProofs ---------------------------
(***************************************************************************)
(* Proofs about IocpServer, for every number of connections, contexts,     *)
(* workers and messages and every size of the pool.                        *)
(***************************************************************************)
EXTENDS IocpServer, FiniteSetTheorems, SequenceTheorems, TLAPS

(* A context nothing has befallen: its completions were taken for what they  *)
(* were, its sends started one at a time, and it was given back at rest and *)
(* once.                                                                    *)
Sound(x) == x \notin tainted

(* A sound context answers the messages of the connection it serves once     *)
(* and in order, and none is lost between the wire and the answer (unless   *)
(* the client resets the connection or sends before it is bound).           *)
SoundInOrder(x) ==
  \A c \in Clients :
    Sound(x) /\ socket[x] = c /\ end[c] # "reset" /\ c \notin unheard =>
      answers[c] \o pendingData[x] \o Announced(x) \o wire[c] = [k \in 1..sent[c] |-> k]
SoundServed == \A x \in Contexts : SoundInOrder(x)

(* A sound context in the pool is there once, and at rest.                  *)
SoundPooled ==
  \A i \in 1..Len(pool) : Sound(pool[i]) =>
    /\ \A j \in 1..Len(pool) : pool[j] = pool[i] => j = i
    /\ AtRest(pool[i])

(* The completion m is one of the kinds O, for the connection or context x. *)
At(m, x, O) == m.of = x /\ m.op \in O

(* Of the completions queued in p and those the workers hold, k, at most    *)
(* one is one of the kinds O for x; or none is.                             *)
Single(p, k, x, O) ==
  /\ \A i, j \in 1..Len(p) : At(p[i], x, O) /\ At(p[j], x, O) => i = j
  /\ \A i \in 1..Len(p), w \in Workers : ~(At(p[i], x, O) /\ At(k[w], x, O))
  /\ \A v, w \in Workers : At(k[v], x, O) /\ At(k[w], x, O) => v = w
Absent(p, k, x, O) ==
  /\ \A i \in 1..Len(p) : ~At(p[i], x, O)
  /\ \A w \in Workers : ~At(k[w], x, O)

News == {"new"}
Receives == {"recv", "failed"}
Sends == {"send"}

(* What a worker holds fits what it is doing; for a sound context, whether  *)
(* it takes the completion for a send or a receive does too.                *)
Fits(w) ==
  /\ pc[w] = "wait" => packet[w] = Nothing
  /\ pc[w] # "wait" => packet[w] # Nothing /\ packet[w].op # "failed"
  /\ pc[w] = "bind" => packet[w].op = "new"
  /\ pc[w] \in {"sent", "received", "parse"} => packet[w].op # "new" /\ packet[w].n > 0
  /\ packet[w].op \in {"recv", "send"} /\ Sound(packet[w].of) =>
       /\ pc[w] = "sent" => packet[w].op = "send"
       /\ pc[w] \in {"received", "parse"} => packet[w].op = "recv"
WorkerHolds == \A w \in Workers : Fits(w)

(* A connection is announced to the workers once; until one of them has     *)
(* given it a context nothing it sent has been received.                    *)
Connecting ==
  \A c \in Clients :
    /\ Single(port, packet, c, News)
    /\ client[c] = "out" => context[c] = None /\ Absent(port, packet, c, News)
    /\ client[c] # "gone" => end[c] = "open"
    /\ \A i \in 1..Len(port) : At(port[i], c, News) => context[c] = None
    /\ \A w \in Workers : At(packet[w], c, News) /\ pc[w] = "taken" => context[c] = None
    /\ context[c] = None =>
         /\ recvs[c] = 0 /\ answers[c] = <<>>
         /\ end[c] # "reset" => wire[c] = [k \in 1..sent[c] |-> k]

(* A context serves the connection it was given last; one never given out   *)
(* is at rest.                                                              *)
Owned ==
  /\ \A x \in Contexts :
       /\ socket[x] # None => context[socket[x]] = x
       /\ socket[x] = None => AtRest(x) /\ \A c \in Clients : context[c] # x
  /\ \A i \in 1..Len(pool) : socket[pool[i]] # None

(* A sound context has one receive at most: posted, completed, or in the    *)
(* hands of a worker.                                                       *)
OneReceive(x) ==
  /\ Single(port, packet, x, Receives)
  /\ \A c \in Clients : context[c] = x /\ recvs[c] > 0 =>
       recvs[c] = 1 /\ socket[x] = c /\ Absent(port, packet, x, Receives)

(* It has one send at most, that of the one answer it queues.               *)
OneSend(x) ==
  /\ Single(port, packet, x, Sends)
  /\ ~(sending[x] /\ sendQueue[x] # <<>>) => Absent(port, packet, x, Sends)
  /\ Len(sendQueue[x]) <= 1

(* Its receive announces what is in its buffer.                             *)
Buffered(x) ==
  /\ \A i \in 1..Len(port) :
       At(port[i], x, {"recv"}) /\ port[i].n > 0 => port[i].n = Len(buffer[x])
  /\ \A w \in Workers :
       At(packet[w], x, {"recv"}) /\ packet[w].n > 0 /\ pc[w] \in {"taken", "received"} =>
         packet[w].n = Len(buffer[x])

Orderly(x) == OneReceive(x) /\ OneSend(x) /\ Buffered(x)
SoundOrderly == \A x \in Contexts : Sound(x) => Orderly(x)

IInv == TypeOK /\ WorkerHolds /\ Connecting /\ Owned /\ SoundOrderly /\ SoundPooled /\ SoundServed

(***************************************************************************)
(* Facts about the constants and the completions                           *)
(***************************************************************************)

(* A completion names a connection if it is "new", a context otherwise.     *)
LEMMA PacketFacts ==
  ASSUME NEW m \in Packets
  PROVE  /\ m.op \in {"new", "recv", "failed", "send"} /\ m # Nothing /\ m.n \in Nat
         /\ m.op = "new" => m.of \in Clients
         /\ m.op # "new" => m.of \in Contexts
         /\ m.op = "send" => m.n = 1
<1>1. CASE m \in [op : {"new"}, of : Clients, n : {0}]
  BY <1>1 DEF Nothing
<1>2. CASE m \in [op : {"recv", "failed"}, of : Contexts, n : Nat]
  BY <1>2 DEF Nothing
<1>3. CASE m \in [op : {"send"}, of : Contexts, n : {1}]
  BY <1>3 DEF Nothing
<1> QED
  BY <1>1, <1>2, <1>3 DEF Packets

LEMMA NewPackets ==
  /\ \A c \in Clients : Packet("new", c, 0) \in Packets
  /\ \A x \in Contexts : Packet("send", x, 1) \in Packets
  /\ \A x \in Contexts, n \in Nat : Packet("recv", x, n) \in Packets
  /\ \A x \in Contexts, n \in Nat : Packet("failed", x, n) \in Packets
BY DEF Packet, Packets

(* Connections and contexts have different names, and None names neither.   *)
LEMMA NameFacts ==
  /\ Clients \cap Contexts = {} /\ None \notin Clients /\ None \notin Contexts
  /\ \A x : x # None => \A O : ~At(Nothing, x, O)
BY SetsAssumption DEF At, Nothing

(* One more message keeps to the bound.                                     *)
LEMMA MessagesLeft ==
  ASSUME TypeOK, NEW c \in Clients, Cardinality(Messages) < MaxMessages
  PROVE  sent[c] + 1 \in 1..MaxMessages
<1>1. sent[c] \in 0..MaxMessages
  BY DEF TypeOK
<1>2. MaxMessages \in Nat /\ NClients \in Nat
  BY SizesAssumption, SetsAssumption
<1>3. ASSUME sent[c] = MaxMessages PROVE FALSE
  <2> DEFINE f == [k \in 1..MaxMessages |-> <<c, k>>]
  <2>1. IsFiniteSet(1..NClients) /\ IsFiniteSet(1..MaxMessages)
        /\ Cardinality(1..MaxMessages) = MaxMessages
    BY <1>2, FS_Interval
  <2>2. IsFiniteSet(Clients \X (1..MaxMessages))
    BY <2>1, FS_Product DEF Clients
  <2>3. IsFiniteSet(Messages)
    BY <2>2, FS_Subset DEF Messages
  <2>4. \A k \in 1..MaxMessages : <<c, k>> \in Messages
    BY <1>2, <1>3 DEF Messages
  <2>5. f \in Injection(1..MaxMessages, Messages)
    BY <2>4 DEF Injection, IsInjective
  <2>6. Cardinality(1..MaxMessages) <= Cardinality(Messages)
    BY <2>3, <2>5, FS_Injection
  <2>7. Cardinality(Messages) \in Nat
    BY <2>3, FS_CardinalityType
  <2> QED
    BY <1>2, <2>1, <2>6, <2>7
<1> QED
  BY <1>1, <1>2, <1>3

(***************************************************************************)
(* Completions that are queued, taken and forgotten                        *)
(***************************************************************************)

(* A completion is queued.                                                  *)
LEMMA Queued ==
  ASSUME NEW p \in Seq(Packets), NEW k, NEW x, NEW O, NEW m \in Packets
  PROVE  /\ Single(p, k, x, O) /\ (At(m, x, O) => Absent(p, k, x, O)) => Single(Append(p, m), k, x, O)
         /\ Absent(p, k, x, O) /\ ~At(m, x, O) => Absent(Append(p, m), k, x, O)
<1>1. Len(p) \in Nat
  BY LenProperties
<1>2. Len(Append(p, m)) = Len(p) + 1
  BY AppendProperties
<1>3. \A i \in 1..Len(Append(p, m)) :
        \/ i \in 1..Len(p) /\ Append(p, m)[i] = p[i]
        \/ i = Len(p) + 1 /\ Append(p, m)[i] = m
  BY <1>1, <1>2
<1> HIDE DEF At
<1> QED
  BY <1>3 DEF Single, Absent

(* The first completion in the queue is forgotten, or taken by a worker     *)
(* that had none.                                                           *)
LEMMA Dequeued ==
  ASSUME NEW p \in Seq(Packets), p # <<>>, NEW k \in [Workers -> Packets \cup {Nothing}],
         NEW x, x # None, NEW O, NEW w \in Workers, k[w] = Nothing
  PROVE  /\ Single(p, k, x, O) => Single(Tail(p), k, x, O)
         /\ Single(p, k, x, O) => Single(Tail(p), [k EXCEPT ![w] = Head(p)], x, O)
         /\ Absent(p, k, x, O) => Absent(Tail(p), k, x, O)
         /\ Absent(p, k, x, O) => Absent(Tail(p), [k EXCEPT ![w] = Head(p)], x, O)
<1>1. Len(p) \in Nat /\ 1 \in 1..Len(p) /\ Head(p) = p[1]
  BY LenProperties, EmptySeq
<1>2. \A i \in 1..Len(Tail(p)) : i + 1 \in 1..Len(p) /\ i + 1 # 1 /\ Tail(p)[i] = p[i + 1]
  BY <1>1
<1>3. \A i, j \in 1..Len(Tail(p)) : i + 1 = j + 1 => i = j
  OBVIOUS
<1>4. \A v \in Workers : [k EXCEPT ![w] = Head(p)][v] = IF v = w THEN p[1] ELSE k[v]
  BY <1>1
<1>5. ~At(k[w], x, O)
  BY NameFacts
<1>6. ASSUME Absent(p, k, x, O)
      PROVE  Absent(Tail(p), k, x, O) /\ Absent(Tail(p), [k EXCEPT ![w] = Head(p)], x, O)
  BY <1>1, <1>2, <1>4, <1>6 DEF Absent
<1>7. ASSUME Single(p, k, x, O)
      PROVE  Single(Tail(p), k, x, O) /\ Single(Tail(p), [k EXCEPT ![w] = Head(p)], x, O)
  <2>1. Single(Tail(p), k, x, O)
    BY <1>2, <1>3, <1>7 DEF Single
  <2>2. \A i \in 1..Len(Tail(p)), v \in Workers :
          ~(At(Tail(p)[i], x, O) /\ At([k EXCEPT ![w] = Head(p)][v], x, O))
    BY <1>1, <1>2, <1>4, <1>7 DEF Single
  <2>3. \A u, v \in Workers :
          At([k EXCEPT ![w] = Head(p)][u], x, O) /\ At([k EXCEPT ![w] = Head(p)][v], x, O) => u = v
    BY <1>1, <1>4, <1>5, <1>7 DEF Single
  <2> QED
    BY <2>1, <2>2, <2>3 DEF Single
<1> QED
  BY <1>6, <1>7

(* A worker has finished with its completion.                               *)
LEMMA Finished ==
  ASSUME NEW p, NEW k \in [Workers -> Packets \cup {Nothing}],
         NEW x, x # None, NEW O, NEW w \in Workers
  PROVE  /\ Single(p, k, x, O) => Single(p, [k EXCEPT ![w] = Nothing], x, O)
         /\ Absent(p, k, x, O) => Absent(p, [k EXCEPT ![w] = Nothing], x, O)
         /\ Single(p, k, x, O) /\ At(k[w], x, O) => Absent(p, [k EXCEPT ![w] = Nothing], x, O)
<1>1. \A v \in Workers : [k EXCEPT ![w] = Nothing][v] = IF v = w THEN Nothing ELSE k[v]
  OBVIOUS
<1>2. ~At(Nothing, x, O)
  BY NameFacts
<1>3. \A v \in Workers : At([k EXCEPT ![w] = Nothing][v], x, O) => v # w /\ At(k[v], x, O)
  BY <1>1, <1>2
<1> QED
  BY <1>3 DEF Single, Absent

(* A context is at rest if it is in no use and none of its completions is   *)
(* queued or held.                                                          *)
LEMMA RestIsAbsent ==
  TypeOK =>
    \A x \in Contexts :
      AtRest(x) <=> /\ ~Dirty(x) /\ x \notin inUse
                    /\ \A c \in Clients : context[c] = x => recvs[c] = 0
                    /\ Absent(port, packet, x, Receives) /\ Absent(port, packet, x, Sends)
<1> SUFFICES ASSUME TypeOK, NEW x \in Contexts
             PROVE  /\ (\A j \in 1..Len(port) : port[j].of # x) /\ (\A w \in Workers : packet[w].of # x)
                    <=> Absent(port, packet, x, Receives) /\ Absent(port, packet, x, Sends)
  BY DEF AtRest
<1>1. \A j \in 1..Len(port) : port[j] \in Packets
  BY ElementOfSeq DEF TypeOK
<1>2. \A w \in Workers : packet[w] \in Packets \cup {Nothing}
  BY DEF TypeOK
<1>3. \A m \in Packets \cup {Nothing} :
        m.of = x <=> At(m, x, Receives) \/ At(m, x, Sends)
  BY PacketFacts, NameFacts DEF At, Receives, Sends, Nothing
<1> QED
  BY <1>1, <1>2, <1>3 DEF Absent

(* The same of the next state.                                              *)
LEMMA RestIsAbsentNext ==
  TypeOK' =>
    \A x \in Contexts :
      AtRest(x)' <=> /\ ~Dirty(x)' /\ x \notin inUse'
                     /\ \A c \in Clients : context'[c] = x => recvs'[c] = 0
                     /\ Absent(port', packet', x, Receives) /\ Absent(port', packet', x, Sends)
<1>1. (TypeOK =>
        \A x \in Contexts :
          AtRest(x) <=> /\ ~Dirty(x) /\ x \notin inUse
                        /\ \A c \in Clients : context[c] = x => recvs[c] = 0
                        /\ Absent(port, packet, x, Receives) /\ Absent(port, packet, x, Sends))'
  BY RestIsAbsent, PTL
<1> QED
  BY <1>1

(* There is a context left for every connection that has none.              *)
LEMMA ContextLeft ==
  ASSUME TypeOK, Owned, NEW c \in Clients, context[c] = None
  PROVE  \E x \in Contexts : socket[x] = None
<1> SUFFICES ASSUME \A x \in Contexts : socket[x] # None PROVE FALSE
  OBVIOUS
<1>1. socket \in [Contexts -> Clients \ {c}]
  BY NameFacts DEF TypeOK, Owned
<1>2. IsFiniteSet(Clients) /\ Cardinality(Clients) = NClients
  BY SetsAssumption, FS_Interval DEF Clients
<1>3. IsFiniteSet(Clients \ {c}) /\ Cardinality(Clients \ {c}) = NClients - 1
  BY <1>2, FS_RemoveElement
<1>4. IsFiniteSet(Contexts) /\ Cardinality(Contexts) \in Nat /\ Cardinality(Contexts) >= NClients
      /\ NClients \in Nat
  BY SetsAssumption, FS_CardinalityType
<1>5. Cardinality(Clients \ {c}) < Cardinality(Contexts)
  BY <1>3, <1>4
<1>6. PICK x, y \in Contexts : x # y /\ socket[x] = socket[y]
  BY <1>1, <1>3, <1>4, <1>5, FS_PigeonHole
<1> QED
  BY <1>6 DEF Owned

(* A sequence without its last element.                                     *)
LEMMA AllButLast ==
  ASSUME NEW S, NEW q \in Seq(S), q # <<>>
  PROVE  /\ SubSeq(q, 1, Len(q) - 1) \in Seq(S)
         /\ Len(SubSeq(q, 1, Len(q) - 1)) = Len(q) - 1
         /\ \A i \in 1..(Len(q) - 1) : SubSeq(q, 1, Len(q) - 1)[i] = q[i]
<1>1. PICK n \in Nat : n + 1 = Len(q)
  <2>1. Len(q) \in Nat \ {0}
    BY EmptySeq
  <2>2. Len(q) - 1 \in Nat /\ (Len(q) - 1) + 1 = Len(q)
    BY <2>1
  <2> QED
    BY <2>2
<1>2. Len(q) - 1 = n
  BY <1>1
<1>3. \A i \in 1..n : i \in 1..Len(q)
  BY <1>1
<1>4. \A i \in 1..n : q[i] \in S
  BY <1>3, ElementOfSeq
<1>5. 1 \in Int /\ n \in Int
  OBVIOUS
<1> DEFINE t == SubSeq(q, 1, n)
<1>6. /\ t \in Seq(S) /\ Len(t) = IF 1 <= n THEN n - 1 + 1 ELSE 0
      /\ \A i \in 1..(n - 1 + 1) : t[i] = q[1 + i - 1]
  BY <1>4, <1>5, SubSeqProperties
<1>7. n - 1 + 1 = n /\ (~(1 <= n) => n = 0) /\ \A i \in 1..n : 1 + i - 1 = i
  OBVIOUS
<1> HIDE DEF t
<1>8. t \in Seq(S) /\ Len(t) = n /\ \A i \in 1..n : t[i] = q[i]
  BY <1>6, <1>7
<1> QED
  BY <1>2, <1>8 DEF t

(* get() returns the last context of the pool or one never given out; if it *)
(* is sound it is at rest, and no longer pooled.                            *)
LEMMA GetFacts ==
  ASSUME TypeOK, Owned, SoundPooled, NEW c \in Clients, context[c] = None
  PROVE  /\ get \in Contexts
         /\ Sound(get) => AtRest(get)
         /\ Taken \in Seq(Contexts) /\ Len(Taken) <= Len(pool)
         /\ \A i \in 1..Len(Taken) : i \in 1..Len(pool) /\ Taken[i] = pool[i]
         /\ \A i \in 1..Len(Taken) : Sound(get) => Taken[i] # get
<1>1. Len(pool) \in Nat /\ \A i \in 1..Len(pool) : pool[i] \in Contexts
  BY ElementOfSeq, LenProperties DEF TypeOK
<1>2. CASE pool = <<>>
  <2>1. get \in Contexts /\ socket[get] = None
    BY <1>2, ContextLeft DEF get
  <2>2. Taken = pool
    BY <1>2 DEF Taken
  <2> QED
    BY <1>1, <1>2, <2>1, <2>2 DEF Owned, TypeOK
<1>3. CASE pool # <<>>
  <2>1. Len(pool) \in 1..Len(pool) /\ get = pool[Len(pool)]
    BY <1>1, <1>3, EmptySeq DEF get, TypeOK
  <2>2. Taken = SubSeq(pool, 1, Len(pool) - 1)
    BY <1>3 DEF Taken
  <2>4. /\ Taken \in Seq(Contexts) /\ Len(Taken) = Len(pool) - 1
        /\ \A i \in 1..(Len(pool) - 1) : Taken[i] = pool[i]
    BY <1>3, <2>2, AllButLast DEF TypeOK
  <2>5. get \in Contexts /\ (Sound(get) => AtRest(get))
    BY <1>1, <2>1 DEF SoundPooled
  <2>6. \A i \in 1..Len(Taken) : i \in 1..Len(pool) /\ i # Len(pool) /\ Taken[i] = pool[i]
    BY <1>1, <2>4
  <2>7. \A i \in 1..Len(Taken) : Sound(get) => Taken[i] # get
    BY <2>1, <2>6 DEF SoundPooled
  <2> QED
    BY <1>1, <2>4, <2>5, <2>6, <2>7
<1> QED
  BY <1>2, <1>3

(***************************************************************************)
(* A worker with a completion for a context                                *)
(***************************************************************************)

(* A worker that is not waiting, nor connecting anybody, holds a completion *)
(* of a context that serves a connection.                                   *)
LEMMA HeldFacts ==
  ASSUME TypeOK, WorkerHolds, Owned, NEW w \in Workers, pc[w] # "wait", packet[w].op # "new"
  PROVE  /\ packet[w] \in Packets /\ packet[w].op \in {"recv", "send"}
         /\ packet[w].of \in Contexts /\ socket[packet[w].of] \in Clients
         /\ context[socket[packet[w].of]] = packet[w].of
<1>1. packet[w] \in Packets /\ packet[w].op # "failed"
  BY DEF TypeOK, WorkerHolds, Fits
<1>2. packet[w].op \in {"recv", "send"} /\ packet[w].of \in Contexts
  BY <1>1, PacketFacts
<1>3. socket[packet[w].of] # None
  BY <1>2 DEF Owned, AtRest
<1> QED
  BY <1>1, <1>2, <1>3 DEF TypeOK, Owned

(* What a worker may change when it acts on the context x its completion    *)
(* names: x, the connection it serves, and itself.                          *)
ActsOn(w, x) ==
  /\ UNCHANGED <<peers, context, socket, buffer, unheard, patient>>
  /\ port' \in {port, Append(port, Packet("send", x, 1))}
  /\ packet' \in {packet, [packet EXCEPT ![w] = Nothing]}
  /\ \A v \in Workers \ {w} : pc'[v] = pc[v] /\ packet'[v] = packet[v]
  /\ pc'[w] # "taken"
  /\ \A y \in Contexts \ {x} : /\ sendQueue'[y] = sendQueue[y] /\ sending'[y] = sending[y]
                               /\ pendingData'[y] = pendingData[y]
  /\ \A c \in Clients : c # socket[x] => recvs'[c] = recvs[c] /\ answers'[c] = answers[c]
  /\ tainted \subseteq tainted' /\ tainted' \subseteq tainted \cup {x}
  /\ inUse' \subseteq inUse
  /\ pool' \in {pool, Append(pool, x)}

(* Completions of y are where they were: x sends, and only x's completion    *)
(* is forgotten.                                                            *)
LEMMA ElsewhereFacts ==
  ASSUME TypeOK, NEW w \in Workers, NEW x \in Contexts, ActsOn(w, x)
  PROVE  /\ \A y, O : y # None =>
              /\ Single(port, packet, y, O) /\ (y = x => "send" \notin O) => Single(port', packet', y, O)
              /\ Absent(port, packet, y, O) /\ (y = x => "send" \notin O) => Absent(port', packet', y, O)
         /\ \A i \in 1..Len(port') : \/ i \in 1..Len(port) /\ port'[i] = port[i]
                                     \/ port'[i].op = "send" /\ port'[i].of = x
         /\ \A i \in 1..Len(port) : i \in 1..Len(port') /\ port'[i] = port[i]
         /\ \A v \in Workers : \/ packet'[v] = packet[v] /\ v # w
                               \/ packet'[v] = packet[v] /\ v = w
                               \/ packet'[v] = Nothing /\ v = w
<1> DEFINE m == Packet("send", x, 1)
<1>1. m \in Packets /\ m.op = "send" /\ m.of = x
  BY NewPackets DEF Packet
<1>2. port \in Seq(Packets) /\ packet \in [Workers -> Packets \cup {Nothing}] /\ Len(port) \in Nat
  BY LenProperties DEF TypeOK
<1>3. port' \in {port, Append(port, m)} /\ packet' \in {packet, [packet EXCEPT ![w] = Nothing]}
  BY DEF ActsOn
<1> HIDE DEF m
<1>4. ASSUME NEW y, NEW O, y # None, Single(port, packet, y, O), y = x => "send" \notin O
      PROVE  Single(port', packet', y, O)
  <2>1. ~At(m, y, O)
    BY <1>1, <1>4 DEF At
  <2>2. Single(Append(port, m), packet, y, O)
    BY <1>1, <1>2, <1>4, <2>1, Queued
  <2>3. Single(port', packet, y, O)
    BY <1>3, <1>4, <2>2
  <2>4. Single(port', [packet EXCEPT ![w] = Nothing], y, O)
    BY <1>2, <1>4, <2>3, Finished
  <2> QED
    BY <1>3, <2>3, <2>4
<1>5. ASSUME NEW y, NEW O, y # None, Absent(port, packet, y, O), y = x => "send" \notin O
      PROVE  Absent(port', packet', y, O)
  <2>1. ~At(m, y, O)
    BY <1>1, <1>5 DEF At
  <2>2. Absent(Append(port, m), packet, y, O)
    BY <1>1, <1>2, <1>5, <2>1, Queued
  <2>3. Absent(port', packet, y, O)
    BY <1>3, <1>5, <2>2
  <2>4. Absent(port', [packet EXCEPT ![w] = Nothing], y, O)
    BY <1>2, <1>5, <2>3, Finished
  <2> QED
    BY <1>3, <2>3, <2>4
<1>6. /\ \A i \in 1..Len(port') : \/ i \in 1..Len(port) /\ port'[i] = port[i]
                                  \/ port'[i].op = "send" /\ port'[i].of = x
      /\ \A i \in 1..Len(port) : i \in 1..Len(port') /\ port'[i] = port[i]
  BY <1>1, <1>2, <1>3
<1>7. \A v \in Workers : \/ packet'[v] = packet[v] /\ v # w
                         \/ packet'[v] = packet[v] /\ v = w
                         \/ packet'[v] = Nothing /\ v = w
  BY <1>2, <1>3
<1> QED
  BY <1>4, <1>5, <1>6, <1>7

(* Elsewhere nothing is disturbed.                                          *)
LEMMA Elsewhere ==
  ASSUME IInv, NEW w \in Workers, pc[w] # "wait", packet[w].op # "new",
         NEW x, x = packet[w].of, ActsOn(w, x)
  PROVE  /\ \A v \in Workers \ {w} : Fits(v)'
         /\ Connecting' /\ Owned'
         /\ \A y \in Contexts \ {x} : Sound(y)' => Orderly(y)'
         /\ \A y \in Contexts \ {x} : AtRest(y) => AtRest(y)'
         /\ \A y \in Contexts \ {x} : SoundInOrder(y)'
<1>1. /\ x \in Contexts /\ x # None /\ socket[x] \in Clients /\ socket[x] # None
      /\ context[socket[x]] = x /\ x \notin Clients
  BY HeldFacts, NameFacts DEF IInv
<1>2. /\ \A y, O : y # None =>
           /\ Single(port, packet, y, O) /\ (y = x => "send" \notin O) => Single(port', packet', y, O)
           /\ Absent(port, packet, y, O) /\ (y = x => "send" \notin O) => Absent(port', packet', y, O)
      /\ \A i \in 1..Len(port') : \/ i \in 1..Len(port) /\ port'[i] = port[i]
                                  \/ port'[i].op = "send" /\ port'[i].of = x
      /\ \A i \in 1..Len(port) : i \in 1..Len(port') /\ port'[i] = port[i]
      /\ \A v \in Workers : \/ packet'[v] = packet[v] /\ v # w
                            \/ packet'[v] = packet[v] /\ v = w
                            \/ packet'[v] = Nothing /\ v = w
  BY <1>1, ElsewhereFacts DEF IInv
<1>3. /\ UNCHANGED <<client, sent, wire, end, context, socket, buffer, unheard, patient>>
      /\ \A v \in Workers \ {w} : pc'[v] = pc[v] /\ packet'[v] = packet[v]
      /\ pc'[w] # "taken"
      /\ \A y \in Contexts \ {x} : /\ sendQueue'[y] = sendQueue[y] /\ sending'[y] = sending[y]
                                   /\ pendingData'[y] = pendingData[y]
      /\ \A c \in Clients : c # socket[x] => recvs'[c] = recvs[c] /\ answers'[c] = answers[c]
      /\ tainted \subseteq tainted' /\ tainted' \subseteq tainted \cup {x}
      /\ inUse' \subseteq inUse
      /\ pool' \in {pool, Append(pool, x)}
  BY DEF ActsOn, peers
<1>4. \A v \in Workers \ {w} : Fits(v)'
  BY <1>3 DEF IInv, WorkerHolds, Fits, Sound
<1>5. Connecting'
  <2> SUFFICES ASSUME NEW c \in Clients
               PROVE  /\ Single(port', packet', c, News)
                      /\ client[c] = "out" => context[c] = None /\ Absent(port', packet', c, News)
                      /\ client[c] # "gone" => end[c] = "open"
                      /\ \A i \in 1..Len(port') : At(port'[i], c, News) => context[c] = None
                      /\ \A v \in Workers : At(packet'[v], c, News) /\ pc'[v] = "taken" => context[c] = None
                      /\ context[c] = None =>
                           /\ recvs'[c] = 0 /\ answers'[c] = <<>>
                           /\ end[c] # "reset" => wire[c] = [k \in 1..sent[c] |-> k]
    BY <1>3 DEF Connecting
  <2>1. Single(port', packet', c, News) /\ (client[c] = "out" => Absent(port', packet', c, News))
    BY <1>1, <1>2, NameFacts DEF IInv, Connecting
  <2>2. \A i \in 1..Len(port') : At(port'[i], c, News) => context[c] = None
    <3>1. \A i \in 1..Len(port) : At(port[i], c, News) => context[c] = None
      BY DEF IInv, Connecting
    <3> QED
      BY <1>2, <3>1 DEF At, News
  <2>3. \A v \in Workers : At(packet'[v], c, News) /\ pc'[v] = "taken" => context[c] = None
    <3>1. \A v \in Workers : At(packet[v], c, News) /\ pc[v] = "taken" => context[c] = None
      BY DEF IInv, Connecting
    <3> QED
      BY <1>3, <3>1
  <2>4. context[c] = None => c # socket[x]
    BY <1>1
  <2> QED
    BY <1>3, <2>1, <2>2, <2>3, <2>4 DEF IInv, Connecting
<1>6. \A y \in Contexts \ {x} : AtRest(y) => AtRest(y)'
  <2> SUFFICES ASSUME NEW y \in Contexts \ {x}, AtRest(y) PROVE AtRest(y)'
    OBVIOUS
  <2>1. ~Dirty(y)' /\ y \notin inUse'
    BY <1>3 DEF AtRest, Dirty
  <2>2. \A c \in Clients : context'[c] = y => recvs'[c] = 0
    BY <1>1, <1>3 DEF AtRest
  <2>3. \A i \in 1..Len(port') : port'[i].of # y
    BY <1>2 DEF AtRest
  <2>4. \A v \in Workers : packet'[v].of # y
    BY <1>2, NameFacts DEF AtRest, Nothing
  <2> QED
    BY <2>1, <2>2, <2>3, <2>4 DEF AtRest
<1>7. Owned'
  <2>1. \A y \in Contexts : socket[y] = None => y # x
    BY <1>1
  <2>2. \A i \in 1..Len(pool') : pool'[i] = x \/ (i \in 1..Len(pool) /\ pool'[i] = pool[i])
    <3>1. pool \in Seq(Contexts) /\ Len(pool) \in Nat
      BY LenProperties DEF IInv, TypeOK
    <3> QED
      BY <1>1, <1>3, <3>1
  <2> QED
    BY <1>1, <1>3, <1>6, <2>1, <2>2 DEF IInv, Owned
<1>8. ASSUME NEW y \in Contexts \ {x}, Sound(y)' PROVE Sound(y) /\ Orderly(y)'
  <2>1. Sound(y) /\ Orderly(y) /\ y # None
    BY <1>3, <1>8, NameFacts DEF IInv, SoundOrderly, Sound
  <2>2. OneReceive(y)'
    BY <1>1, <1>2, <1>3, <2>1 DEF Orderly, OneReceive
  <2>3. OneSend(y)'
    BY <1>2, <1>3, <2>1 DEF Orderly, OneSend
  <2>4. Buffered(y)'
    <3>1. /\ \A i \in 1..Len(port) :
               At(port[i], y, {"recv"}) /\ port[i].n > 0 => port[i].n = Len(buffer[y])
          /\ \A v \in Workers :
               At(packet[v], y, {"recv"}) /\ packet[v].n > 0 /\ pc[v] \in {"taken", "received"} =>
                 packet[v].n = Len(buffer[y])
      BY <2>1 DEF Orderly, Buffered
    <3>2. \A i \in 1..Len(port') :
            At(port'[i], y, {"recv"}) /\ port'[i].n > 0 => port'[i].n = Len(buffer[y])
      BY <1>2, <3>1 DEF At
    <3>3. \A v \in Workers : At(packet'[v], y, {"recv"}) => v # w
      BY <1>2, NameFacts DEF At, Nothing
    <3>4. \A v \in Workers :
            At(packet'[v], y, {"recv"}) /\ packet'[v].n > 0 /\ pc'[v] \in {"taken", "received"} =>
              packet'[v].n = Len(buffer[y])
      BY <1>3, <3>1, <3>3
    <3> QED
      BY <1>3, <3>2, <3>4 DEF Buffered
  <2> QED
    BY <2>1, <2>2, <2>3, <2>4 DEF Orderly
<1>9. ASSUME NEW z \in Contexts \ {x} PROVE SoundInOrder(z)'
  <2>1. Announces(z)' <=> Announces(z)
    <3>1. (\E i \in 1..Len(port') : port'[i].op = "recv" /\ port'[i].of = z /\ port'[i].n > 0)
          <=> (\E i \in 1..Len(port) : port[i].op = "recv" /\ port[i].of = z /\ port[i].n > 0)
      BY <1>2
    <3>2. \A v \in Workers : packet'[v].of = z => v # w
      BY <1>2, NameFacts DEF Nothing
    <3>3. \A v \in Workers : packet[v].of = z => v # w
      OBVIOUS
    <3>4. (\E v \in Workers : /\ packet'[v].op = "recv" /\ packet'[v].of = z /\ packet'[v].n > 0
                              /\ pc'[v] \in {"taken", "received"})
          <=> (\E v \in Workers : /\ packet[v].op = "recv" /\ packet[v].of = z /\ packet[v].n > 0
                                  /\ pc[v] \in {"taken", "received"})
      BY <1>3, <3>2, <3>3
    <3> QED
      BY <3>1, <3>4 DEF Announces
  <2>2. Announced(z)' = Announced(z)
    BY <1>3, <2>1 DEF Announced
  <2>3. SoundInOrder(z)
    BY DEF IInv, SoundServed
  <2>4. \A c \in Clients : socket[z] = c => c # socket[x]
    BY <1>1 DEF IInv, Owned
  <2> QED
    BY <1>3, <2>2, <2>3, <2>4 DEF SoundInOrder, Sound
<1> QED
  BY <1>4, <1>5, <1>6, <1>7, <1>8, <1>9

(* What is left to show of an action on x: what it does to x.               *)
LEMMA Conclude ==
  ASSUME IInv, NEW w \in Workers, pc[w] # "wait", packet[w].op # "new",
         NEW x, x = packet[w].of, ActsOn(w, x),
         TypeOK', Fits(w)', Sound(x)' => Orderly(x)', Sound(x)' => SoundInOrder(x)',
         pool' = pool \/ (Sound(x)' => AtRest(x)')
  PROVE  IInv'
<1>1. /\ \A v \in Workers \ {w} : Fits(v)'
      /\ Connecting' /\ Owned'
      /\ \A y \in Contexts \ {x} : Sound(y)' => Orderly(y)'
      /\ \A y \in Contexts \ {x} : AtRest(y) => AtRest(y)'
      /\ \A y \in Contexts \ {x} : SoundInOrder(y)'
  BY Elsewhere
<1>2. WorkerHolds' /\ SoundOrderly'
  BY <1>1 DEF WorkerHolds, SoundOrderly
<1>3. x \in Contexts /\ ~AtRest(x)
  BY HeldFacts DEF IInv, AtRest
<1>4. SoundServed'
  <2>1. ~Sound(x)' => SoundInOrder(x)'
    BY DEF SoundInOrder
  <2> QED
    BY <1>1, <2>1 DEF SoundServed
<1>5. /\ pool \in Seq(Contexts) /\ Len(pool) \in Nat
      /\ \A i \in 1..Len(pool) : pool[i] \in Contexts
  BY LenProperties, ElementOfSeq DEF IInv, TypeOK
<1>6. tainted \subseteq tainted' /\ pool' \in {pool, Append(pool, x)}
  BY DEF ActsOn
<1>7. ASSUME NEW i \in 1..Len(pool), NEW y, y = pool[i], Sound(y)'
      PROVE  y # x /\ AtRest(y)' /\ \A j \in 1..Len(pool) : pool[j] = y => j = i
  <2>1. y \in Contexts /\ Sound(y)
    BY <1>5, <1>6, <1>7 DEF Sound
  <2>2. AtRest(y) /\ \A j \in 1..Len(pool) : pool[j] = y => j = i
    BY <1>7, <2>1 DEF IInv, SoundPooled
  <2> QED
    BY <1>1, <1>3, <2>1, <2>2
<1>8. SoundPooled'
  <2> SUFFICES ASSUME NEW i \in 1..Len(pool'), NEW y, y = pool'[i], Sound(y)'
               PROVE  AtRest(y)' /\ \A j \in 1..Len(pool') : pool'[j] = y => j = i
    BY DEF SoundPooled
  <2>1. CASE pool' = pool
    BY <1>7, <2>1
  <2>2. CASE pool' = Append(pool, x) /\ (Sound(x)' => AtRest(x)')
    <3>1. \A j \in 1..Len(pool') : \/ j \in 1..Len(pool) /\ pool'[j] = pool[j]
                                   \/ j = Len(pool) + 1 /\ pool'[j] = x
      BY <1>3, <1>5, <2>2
    <3>2. CASE i \in 1..Len(pool) /\ pool'[i] = pool[i]
      <4>1. y # x /\ AtRest(y)' /\ \A j \in 1..Len(pool) : pool[j] = y => j = i
        BY <1>7, <3>2
      <4> QED
        BY <3>1, <4>1
    <3>3. CASE i = Len(pool) + 1 /\ pool'[i] = x
      <4>1. \A j \in 1..Len(pool) : pool[j] # y
        BY <1>7, <3>3
      <4> QED
        BY <2>2, <3>1, <3>3, <4>1
    <3> QED
      BY <3>1, <3>2, <3>3
  <2> QED
    BY <1>6, <2>1, <2>2
<1> QED
  BY <1>1, <1>2, <1>4, <1>8 DEF IInv

(* A context whose completion a worker has, if it is sound: which others    *)
(* there may be.                                                            *)
LEMMA AloneFacts ==
  ASSUME IInv, NEW w \in Workers, pc[w] # "wait", packet[w].op # "new",
         NEW x, x = packet[w].of, Sound(x)
  PROVE  /\ Orderly(x)
         /\ packet[w].op = "recv" =>
              /\ \A c \in Clients : context[c] = x => recvs[c] = 0
              /\ Absent(port, [packet EXCEPT ![w] = Nothing], x, Receives)
         /\ packet[w].op = "send" =>
              /\ sending[x] /\ sendQueue[x] # <<>>
              /\ Absent(port, [packet EXCEPT ![w] = Nothing], x, Sends)
<1>1. x \in Contexts /\ x # None /\ packet[w].op \in {"recv", "send"}
  BY HeldFacts, NameFacts DEF IInv
<1>2. Orderly(x)
  BY <1>1 DEF IInv, SoundOrderly
<1>3. packet \in [Workers -> Packets \cup {Nothing}] /\ recvs \in [Clients -> Nat]
  BY DEF IInv, TypeOK
<1>4. ASSUME packet[w].op = "recv"
      PROVE  /\ \A c \in Clients : context[c] = x => recvs[c] = 0
             /\ Absent(port, [packet EXCEPT ![w] = Nothing], x, Receives)
  <2>1. At(packet[w], x, Receives)
    BY <1>4 DEF At, Receives
  <2>2. ~Absent(port, packet, x, Receives)
    BY <2>1 DEF Absent
  <2>3. \A c \in Clients : context[c] = x => ~(recvs[c] > 0)
    BY <1>2, <2>2 DEF Orderly, OneReceive
  <2>4. Single(port, packet, x, Receives)
    BY <1>2 DEF Orderly, OneReceive
  <2>5. Absent(port, [packet EXCEPT ![w] = Nothing], x, Receives)
    BY <1>1, <1>3, <2>1, <2>4, Finished
  <2> QED
    BY <1>3, <2>3, <2>5
<1>5. ASSUME packet[w].op = "send"
      PROVE  /\ sending[x] /\ sendQueue[x] # <<>>
             /\ Absent(port, [packet EXCEPT ![w] = Nothing], x, Sends)
  <2>1. At(packet[w], x, Sends)
    BY <1>5 DEF At, Sends
  <2>2. ~Absent(port, packet, x, Sends)
    BY <2>1 DEF Absent
  <2>3. Single(port, packet, x, Sends) /\ sending[x] /\ sendQueue[x] # <<>>
    BY <1>2, <2>2 DEF Orderly, OneSend
  <2> QED
    BY <1>1, <1>3, <2>1, <2>3, Finished
<1> QED
  BY <1>1, <1>2, <1>4, <1>5

(* An action that starts no send or receive leaves a sound context orderly. *)
LEMMA OrderlyAfter ==
  ASSUME IInv, NEW w \in Workers, pc[w] # "wait", packet[w].op # "new",
         NEW x, x = packet[w].of, Sound(x), ActsOn(w, x),
         UNCHANGED <<port, recvs, sendQueue, sending>>,
         pc'[w] = "received" => pc[w] = "taken"
  PROVE  Orderly(x)'
<1>1. Orderly(x) /\ x # None /\ x \in Contexts
  BY AloneFacts, HeldFacts, NameFacts DEF IInv
<1>2. /\ \A O : Single(port, packet, x, O) => Single(port, packet', x, O)
      /\ \A O : Absent(port, packet, x, O) => Absent(port, packet', x, O)
  <2> DEFINE done == [packet EXCEPT ![w] = Nothing]
  <2>1. packet \in [Workers -> Packets \cup {Nothing}] /\ packet' \in {packet, done}
    BY DEF ActsOn, IInv, TypeOK
  <2>2. /\ \A O : Single(port, packet, x, O) => Single(port, done, x, O)
        /\ \A O : Absent(port, packet, x, O) => Absent(port, done, x, O)
    BY <1>1, <2>1, Finished
  <2> QED
    BY <2>1, <2>2
<1>3. \A v \in Workers : packet'[v] = packet[v] \/ packet'[v] = Nothing
  BY DEF ActsOn, IInv, TypeOK
<1>4. UNCHANGED <<context, socket, buffer>> /\ pc'[w] # "taken"
      /\ \A v \in Workers \ {w} : pc'[v] = pc[v] /\ packet'[v] = packet[v]
  BY DEF ActsOn
<1>5. OneReceive(x)'
  BY <1>1, <1>2, <1>4 DEF Orderly, OneReceive
<1>6. OneSend(x)'
  BY <1>1, <1>2 DEF Orderly, OneSend
<1>7. Buffered(x)'
  <2>1. \A v \in Workers :
          At(packet[v], x, {"recv"}) /\ packet[v].n > 0 /\ pc[v] \in {"taken", "received"} =>
            packet[v].n = Len(buffer[x])
    BY <1>1 DEF Orderly, Buffered
  <2>2. \A v \in Workers : At(packet'[v], x, {"recv"}) => packet'[v] = packet[v]
    BY <1>1, <1>3, NameFacts
  <2>3. \A v \in Workers : pc'[v] \in {"taken", "received"} => pc[v] \in {"taken", "received"}
    BY <1>4
  <2>4. \A v \in Workers :
          At(packet'[v], x, {"recv"}) /\ packet'[v].n > 0 /\ pc'[v] \in {"taken", "received"} =>
            packet'[v].n = Len(buffer[x])
    BY <2>1, <2>2, <2>3
  <2> QED
    BY <1>1, <1>4, <2>4 DEF Orderly, Buffered
<1> QED
  BY <1>5, <1>6, <1>7 DEF Orderly

(* The stream of a connection is as it was if the action neither answers    *)
(* nor appends, and the worker announces what it announced.                 *)
Mine(w) == packet[w].op = "recv" /\ packet[w].n > 0 /\ pc[w] \in {"taken", "received"}

LEMMA AnnouncedAfter ==
  ASSUME IInv, NEW w \in Workers, pc[w] # "wait", packet[w].op # "new",
         NEW x, x = packet[w].of, ActsOn(w, x), Mine(w)' <=> Mine(w)
  PROVE  Announced(x)' = Announced(x)
<1>1. x \in Contexts /\ x # None
  BY HeldFacts, NameFacts DEF IInv
<1>2. /\ \A i \in 1..Len(port') : \/ i \in 1..Len(port) /\ port'[i] = port[i]
                                  \/ port'[i].op = "send" /\ port'[i].of = x
      /\ \A i \in 1..Len(port) : i \in 1..Len(port') /\ port'[i] = port[i]
      /\ \A v \in Workers : packet'[v] = packet[v] \/ packet'[v] = Nothing
  BY <1>1, ElsewhereFacts DEF IInv
<1>3. buffer' = buffer /\ \A v \in Workers \ {w} : pc'[v] = pc[v] /\ packet'[v] = packet[v]
  BY DEF ActsOn
<1>4. Mine(w)' => packet'[w].of = x
  BY <1>1, <1>2, NameFacts DEF Mine, Nothing
<1>5. (\E i \in 1..Len(port') : port'[i].op = "recv" /\ port'[i].of = x /\ port'[i].n > 0)
      <=> (\E i \in 1..Len(port) : port[i].op = "recv" /\ port[i].of = x /\ port[i].n > 0)
  BY <1>2
<1>6. \A v \in Workers :
        (/\ packet'[v].op = "recv" /\ packet'[v].of = x /\ packet'[v].n > 0
         /\ pc'[v] \in {"taken", "received"})
        <=> (/\ packet[v].op = "recv" /\ packet[v].of = x /\ packet[v].n > 0
             /\ pc[v] \in {"taken", "received"})
  BY <1>3, <1>4 DEF Mine
<1>7. Announces(x)' <=> Announces(x)
  BY <1>5, <1>6 DEF Announces
<1> QED
  BY <1>3, <1>7 DEF Announced

LEMMA ServedAfter ==
  ASSUME IInv, NEW w \in Workers, pc[w] # "wait", packet[w].op # "new",
         NEW x, x = packet[w].of, ActsOn(w, x),
         Mine(w)' <=> Mine(w), answers' = answers, pendingData' = pendingData
  PROVE  SoundInOrder(x)'
<1>1. x \in Contexts
  BY HeldFacts DEF IInv
<1>2. UNCHANGED <<sent, wire, end, socket, unheard, patient>> /\ tainted \subseteq tainted'
  BY DEF ActsOn, peers
<1>3. SoundInOrder(x) /\ Announced(x)' = Announced(x)
  BY <1>1, AnnouncedAfter DEF IInv, SoundServed
<1> QED
  BY <1>2, <1>3 DEF SoundInOrder, Sound

(* release() gives back x once, or else x is not sound any more.            *)
LEMMA ReleaseFacts ==
  ASSUME TypeOK, NEW x \in Contexts, release(x)
  PROVE  /\ pool' \in Seq(Contexts) /\ Len(pool') <= MaxPool
         /\ pool' \in {pool, Append(pool, x)}
         /\ inUse' \subseteq inUse /\ inUse' \subseteq Contexts /\ x \notin inUse'
         /\ tainted' \subseteq Contexts
         /\ tainted \subseteq tainted' /\ tainted' \subseteq tainted \cup {x}
         /\ Sound(x)' => Sound(x) /\ ~Dirty(x)
<1>1. pool \in Seq(Contexts) /\ Len(pool) <= MaxPool /\ inUse \subseteq Contexts /\ tainted \subseteq Contexts
      /\ Len(pool) \in Nat /\ MaxPool \in Nat
  BY LenProperties, SizesAssumption DEF TypeOK
<1>2. Append(pool, x) \in Seq(Contexts) /\ Len(Append(pool, x)) = Len(pool) + 1
  BY <1>1, AppendProperties
<1>3. pool' = (IF Len(pool) < MaxPool THEN Append(pool, x) ELSE pool) /\ inUse' = inUse \ {x}
      /\ tainted' = IF x \notin inUse \/ Dirty(x) THEN tainted \cup {x} ELSE tainted
  BY DEF release, HasRoom
<1>4. pool' \in Seq(Contexts) /\ Len(pool') <= MaxPool /\ pool' \in {pool, Append(pool, x)}
  BY <1>1, <1>2, <1>3
<1> QED
  BY <1>1, <1>3, <1>4 DEF Sound

(* A worker that gives back the clean context of its receive leaves it at   *)
(* rest.                                                                    *)
LEMMA RestsAfter ==
  ASSUME IInv, TypeOK', NEW w \in Workers, pc[w] # "wait", packet[w].op = "recv",
         NEW x, x = packet[w].of, Sound(x), ~Dirty(x), x \notin inUse',
         UNCHANGED <<context, port, recvs, sendQueue, sending, pendingData>>,
         packet' = [packet EXCEPT ![w] = Nothing]
  PROVE  AtRest(x)'
<1>1. x \in Contexts /\ x # None /\ packet \in [Workers -> Packets \cup {Nothing}]
  BY HeldFacts, NameFacts DEF IInv, TypeOK
<1>2. /\ Orderly(x) /\ \A c \in Clients : context[c] = x => recvs[c] = 0
      /\ Absent(port, packet', x, Receives)
  BY AloneFacts
<1>3. Absent(port, packet, x, Sends)
  BY <1>2 DEF Orderly, OneSend, Dirty
<1>4. Absent(port, packet', x, Sends)
  BY <1>1, <1>3, Finished
<1>5. ~Dirty(x)'
  BY DEF Dirty
<1>6. \A y \in Contexts :
        AtRest(y)' <=> /\ ~Dirty(y)' /\ y \notin inUse'
                       /\ \A c \in Clients : context'[c] = y => recvs'[c] = 0
                       /\ Absent(port', packet', y, Receives) /\ Absent(port', packet', y, Sends)
  BY RestIsAbsentNext
<1> QED
  BY <1>1, <1>2, <1>4, <1>5, <1>6

(* The stream of a connection when a part of it moves on: from the buffer   *)
(* to pendingData, and from there to the answers.                           *)
LEMMA MovedBack ==
  ASSUME NEW S, NEW a \in Seq(S), NEW p \in Seq(S), NEW b \in Seq(S)
  PROVE  a \o (p \o b) \o <<>> = a \o p \o b
<1>1. a \o p \o b = a \o (p \o b)
  BY ConcatAssociative
<1>2. a \o (p \o b) \in Seq(S)
  <2>1. p \o b \in Seq(S)
    BY ConcatProperties
  <2> QED
    BY <2>1, ConcatProperties
<1>3. a \o (p \o b) \o <<>> = a \o (p \o b)
  BY <1>2, ConcatEmptySeq
<1> QED
  BY <1>1, <1>3

LEMMA Answering ==
  ASSUME NEW S, NEW a \in Seq(S), NEW p \in Seq(S), p # <<>>
  PROVE  Append(a, Head(p)) \o Tail(p) = a \o p
<1>1. Head(p) \in S /\ Tail(p) \in Seq(S)
  BY HeadTailProperties
<1>2. <<Head(p)>> \in Seq(S) /\ Append(a, Head(p)) = a \o <<Head(p)>>
  BY <1>1, AppendIsConcat
<1>3. a \o <<Head(p)>> \o Tail(p) = a \o (<<Head(p)>> \o Tail(p))
  BY <1>1, <1>2, ConcatAssociative
<1>4. <<Head(p)>> \o Tail(p) = p
  BY <1>1
<1> QED
  BY <1>2, <1>3, <1>4

(***************************************************************************)
(* Every action preserves the invariant: a worker with a completion         *)
(***************************************************************************)

(* disconnected: a worker gives back the context of a client that has gone. *)
LEMMA disconnectedIInv ==
  ASSUME IInv, NEW w \in Workers, disconnected(w)
  PROVE  IInv'
<1>1. PICK x : x = packet[w].of
  OBVIOUS
<1>2. /\ pc[w] = "taken" /\ packet[w].op = "recv" /\ packet[w].n = 0 /\ release(x)
      /\ pc' = [pc EXCEPT ![w] = "wait"] /\ packet' = [packet EXCEPT ![w] = Nothing]
      /\ UNCHANGED <<handle, bound, recvs, port, socket, sendQueue, sending, pendingData, buffer,
                     activeClients, process, answers, client, sent, wire, end, context, unheard, patient>>
  BY <1>1 DEF disconnected, Done, workerUnchanged, fields, peers
<1>3. x \in Contexts
  BY <1>1, <1>2, HeldFacts DEF IInv
<1>4. /\ pool' \in Seq(Contexts) /\ Len(pool') <= MaxPool
      /\ pool' \in {pool, Append(pool, x)}
      /\ inUse' \subseteq inUse /\ inUse' \subseteq Contexts /\ x \notin inUse'
      /\ tainted' \subseteq Contexts
      /\ tainted \subseteq tainted' /\ tainted' \subseteq tainted \cup {x}
      /\ Sound(x)' => Sound(x) /\ ~Dirty(x)
  BY <1>2, <1>3, ReleaseFacts DEF IInv
<1>5. TypeOK'
  BY <1>2, <1>4 DEF IInv, TypeOK
<1>6. pc'[w] = "wait" /\ packet'[w] = Nothing
  BY <1>2 DEF IInv, TypeOK
<1>7. ActsOn(w, x)
  BY <1>2, <1>4, <1>6 DEF ActsOn, peers, IInv, TypeOK
<1>8. Fits(w)'
  BY <1>6 DEF Fits, Nothing
<1>9. Sound(x)' => Orderly(x)' /\ AtRest(x)'
  BY <1>1, <1>2, <1>4, <1>5, <1>6, <1>7, OrderlyAfter, RestsAfter
<1>10. SoundInOrder(x)'
  <2>1. ~Mine(w) /\ ~Mine(w)'
    BY <1>2, <1>6 DEF Mine, Nothing
  <2> QED
    BY <1>1, <1>2, <1>7, <2>1, ServedAfter
<1> QED
  BY <1>1, <1>2, <1>5, <1>7, <1>8, <1>9, <1>10, Conclude

(* The flag `sending' may be wrong about a completion; then its context is   *)
(* not sound any more.                                                      *)
LEMMA read_sendingIInv ==
  ASSUME IInv, NEW w \in Workers, read_sending(w)
  PROVE  IInv'
<1>1. PICK x : x = packet[w].of
  OBVIOUS
<1>2. PICK l \in {"sent", "received"} :
        /\ l = (IF sending[x] THEN "sent" ELSE "received")
        /\ pc[w] = "taken" /\ packet[w].op # "new" /\ packet[w].n > 0
        /\ pc' = [pc EXCEPT ![w] = l]
        /\ tainted' = IF (packet[w].op = "send") # sending[x] THEN tainted \cup {x} ELSE tainted
        /\ UNCHANGED <<packet, handle, bound, recvs, port, socket, sendQueue, sending, pendingData,
                       buffer, pool, inUse, activeClients, process, answers, client, sent, wire, end,
                       context, unheard, patient>>
  BY <1>1 DEF read_sending, TakenForSend, Goto, workerUnchanged, fields, peers
<1>3. x \in Contexts /\ packet[w].op \in {"recv", "send"} /\ packet[w] # Nothing
  BY <1>1, <1>2, HeldFacts, PacketFacts DEF IInv
<1>4. TypeOK'
  BY <1>2, <1>3 DEF IInv, TypeOK
<1>5. pc'[w] = l /\ sending[x] \in BOOLEAN
  BY <1>2, <1>3 DEF IInv, TypeOK
<1>6. ActsOn(w, x)
  BY <1>2, <1>5 DEF ActsOn, peers, IInv, TypeOK
<1>7. Sound(x)' => Sound(x) /\ (packet[w].op = "send" <=> l = "sent")
  BY <1>2, <1>3, <1>5 DEF Sound
<1>8. Fits(w)'
  BY <1>1, <1>2, <1>3, <1>5, <1>7 DEF Fits
<1>9. Sound(x)' => Orderly(x)'
  BY <1>1, <1>2, <1>5, <1>6, <1>7, OrderlyAfter
<1>10. Sound(x)' => SoundInOrder(x)'
  <2>1. Sound(x)' => (Mine(w)' <=> Mine(w))
    BY <1>2, <1>3, <1>5, <1>7 DEF Mine
  <2> QED
    BY <1>1, <1>2, <1>6, <2>1, ServedAfter
<1> QED
  BY <1>1, <1>2, <1>4, <1>6, <1>8, <1>9, <1>10, Conclude

(* What a receive brought is part of the buffer, and all of it if the        *)
(* receive announced all of it.                                             *)
LEMMA ArrivedFacts ==
  ASSUME TypeOK, NEW x \in Contexts, NEW n \in Nat
  PROVE  /\ Arrived(x, n) \in Stream
         /\ n = Len(buffer[x]) => Arrived(x, n) = buffer[x]
<1> DEFINE b == buffer[x]
<1>1. b \in Seq(1..MaxMessages)
  BY DEF TypeOK, Stream
<1>2. PICK m \in 0..Len(b) : m = IF n < Len(b) THEN n ELSE Len(b)
  BY <1>1, LenProperties
<1>3. \A i \in 1..m : i \in 1..Len(b)
  BY <1>1, <1>2, LenProperties
<1>4. \A i \in 1..m : b[i] \in 1..MaxMessages
  BY <1>1, <1>3, ElementOfSeq
<1>5. 1 \in Int /\ m \in Int
  BY <1>1, LenProperties
<1>6. SubSeq(b, 1, m) \in Seq(1..MaxMessages)
  BY <1>4, <1>5, SubSeqProperties
<1>7. SubSeq(b, 1, Len(b)) = b
  BY <1>1, SubSeqFull
<1> QED
  BY <1>1, <1>2, <1>6, <1>7, LenProperties DEF Arrived, Stream

(* handle_client_io: what the worker announced is appended, and announced   *)
(* no more.                                                                 *)
LEMMA handle_client_ioIInv ==
  ASSUME IInv, NEW w \in Workers, handle_client_io(w)
  PROVE  IInv'
<1>1. PICK x : x = packet[w].of
  OBVIOUS
<1>2. /\ pc[w] = "received"
      /\ activeClients' = activeClients \cup {socket[x]}
      /\ pendingData' = [pendingData EXCEPT ![x] = @ \o Arrived(x, packet[w].n)]
      /\ pc' = [pc EXCEPT ![w] = "parse"]
      /\ UNCHANGED <<packet, handle, bound, recvs, port, socket, sendQueue, sending, buffer, pool, inUse,
                     process, answers, tainted, client, sent, wire, end, context, unheard, patient>>
  BY <1>1 DEF handle_client_io, Goto, workerUnchanged, peers
<1>3. /\ packet[w] # Nothing /\ packet[w].op # "new" /\ packet[w].n > 0 /\ packet[w].op # "failed"
      /\ Sound(x) => packet[w].op = "recv"
  <2>1. Fits(w) /\ packet[w] \in Packets \cup {Nothing}
    BY DEF IInv, WorkerHolds, TypeOK
  <2>2. packet[w] \in Packets
    BY <1>2, <2>1 DEF Fits
  <2> QED
    BY <1>1, <1>2, <2>1, <2>2, PacketFacts DEF Fits
<1>4. x \in Contexts /\ socket[x] \in Clients /\ packet[w].n \in Nat
  BY <1>1, <1>2, <1>3, HeldFacts, PacketFacts DEF IInv
<1>5. Arrived(x, packet[w].n) \in Stream /\ pendingData[x] \in Stream
  BY <1>4, ArrivedFacts DEF IInv, TypeOK
<1>6. pendingData' \in [Contexts -> Stream] /\ pendingData'[x] = pendingData[x] \o Arrived(x, packet[w].n)
  BY <1>2, <1>4, <1>5, ConcatProperties DEF IInv, TypeOK, Stream
<1>7. TypeOK'
  BY <1>2, <1>4, <1>6 DEF IInv, TypeOK
<1>8. pc'[w] = "parse"
  BY <1>2 DEF IInv, TypeOK
<1>9. ActsOn(w, x)
  BY <1>2, <1>4, <1>8 DEF ActsOn, peers, IInv, TypeOK
<1>10. Fits(w)'
  BY <1>1, <1>2, <1>3, <1>8 DEF Fits, Sound
<1>11. Sound(x)' => Sound(x)
  BY <1>2 DEF Sound
<1>12. Sound(x)' => Orderly(x)'
  BY <1>1, <1>2, <1>3, <1>8, <1>9, <1>11, OrderlyAfter
<1>13. ASSUME Sound(x) PROVE SoundInOrder(x)'
  <2>1. Announces(x) /\ packet[w].n = Len(buffer[x])
    <3>1. Buffered(x) /\ At(packet[w], x, {"recv"})
      BY <1>1, <1>2, <1>3, <1>13, AloneFacts DEF Orderly, At
    <3>2. Announces(x)
      BY <1>1, <1>2, <1>3, <1>13 DEF Announces
    <3>3. packet[w].n = Len(buffer[x])
      BY <1>2, <1>3, <3>1 DEF Buffered
    <3> QED
      BY <3>2, <3>3
  <2>2. Announced(x) = buffer[x] /\ Arrived(x, packet[w].n) = buffer[x] /\ buffer[x] \in Stream
    BY <1>4, <2>1, ArrivedFacts DEF Announced, IInv, TypeOK
  <2>3. ~Announces(x)'
    <3> DEFINE done == [packet EXCEPT ![w] = Nothing]
    <3>1. Absent(port, done, x, Receives)
      BY <1>1, <1>2, <1>3, <1>13, AloneFacts
    <3>2. \A v \in Workers \ {w} : done[v] = packet[v]
      BY DEF IInv, TypeOK
    <3>3. \A i \in 1..Len(port) : ~(port[i].op = "recv" /\ port[i].of = x)
      BY <3>1 DEF Absent, At, Receives
    <3>4. \A v \in Workers \ {w} : ~(packet[v].op = "recv" /\ packet[v].of = x)
      BY <3>1, <3>2 DEF Absent, At, Receives
    <3> QED
      BY <1>2, <1>8, <3>3, <3>4 DEF Announces
  <2>4. Announced(x)' = <<>>
    BY <2>3 DEF Announced
  <2>5. SoundInOrder(x)
    BY <1>4 DEF IInv, SoundServed
  <2> SUFFICES ASSUME NEW c \in Clients, socket[x] = c, end[c] # "reset", c \notin unheard
               PROVE  answers[c] \o pendingData'[x] \o Announced(x)' \o wire[c] = [k \in 1..sent[c] |-> k]
    BY <1>2 DEF SoundInOrder
  <2>6. answers[c] \in Stream /\ wire[c] \in Stream
    BY DEF IInv, TypeOK
  <2>7. answers[c] \o pendingData[x] \o buffer[x] \o wire[c] = [k \in 1..sent[c] |-> k]
    BY <1>13, <2>2, <2>5 DEF SoundInOrder
  <2>8. answers[c] \o (pendingData[x] \o buffer[x]) \o <<>> = answers[c] \o pendingData[x] \o buffer[x]
    <3>1. PICK q, p, b \in Stream : q = answers[c] /\ p = pendingData[x] /\ b = buffer[x]
      BY <1>5, <2>2, <2>6
    <3>2. q \o (p \o b) \o <<>> = q \o p \o b
      BY MovedBack DEF Stream
    <3> QED
      BY <3>1, <3>2, Zenon
  <2> QED
    BY <1>6, <2>2, <2>4, <2>7, <2>8
<1> QED
  BY <1>1, <1>2, <1>3, <1>7, <1>9, <1>10, <1>11, <1>12, <1>13, Conclude

(* A worker that parses holds the receive of its context, if that is sound. *)
LEMMA ParsingFacts ==
  ASSUME IInv, NEW w \in Workers, pc[w] \in {"sent", "parse"}, NEW x, x = packet[w].of
  PROVE  /\ packet[w] # Nothing /\ packet[w].op \notin {"new", "failed"} /\ packet[w].n > 0
         /\ x \in Contexts /\ socket[x] \in Clients /\ Fits(w)
         /\ Sound(x) => packet[w].op = (IF pc[w] = "sent" THEN "send" ELSE "recv")
<1>1. Fits(w)
  BY DEF IInv, WorkerHolds
<1>2. packet[w] # Nothing /\ packet[w].op \notin {"new", "failed"} /\ packet[w].n > 0
  BY <1>1 DEF Fits
<1>3. packet[w].op \in {"recv", "send"} /\ x \in Contexts /\ socket[x] \in Clients
  BY <1>2, HeldFacts DEF IInv
<1> QED
  BY <1>1, <1>2, <1>3 DEF Fits

(* post_recv: the context has one receive again, or is given back.          *)
LEMMA post_recvIInv ==
  ASSUME IInv, NEW w \in Workers, post_recv(w)
  PROVE  IInv'
<1>1. PICK x, c : x = packet[w].of /\ c = socket[x]
  OBVIOUS
<1>2. /\ pc[w] = "parse" /\ pendingData[x] = <<>>
      /\ \/ /\ recvs' = [recvs EXCEPT ![c] = @ + 1]
            /\ UNCHANGED <<pool, inUse, tainted>>
         \/ release(x) /\ UNCHANGED recvs
      /\ pc' = [pc EXCEPT ![w] = "wait"] /\ packet' = [packet EXCEPT ![w] = Nothing]
      /\ UNCHANGED <<handle, bound, port, socket, sendQueue, sending, pendingData, buffer,
                     activeClients, process, answers, client, sent, wire, end, context, unheard, patient>>
  BY <1>1 DEF post_recv, NextRecv, Done, workerUnchanged, fields, peers
<1>3. /\ packet[w] # Nothing /\ packet[w].op # "new" /\ x \in Contexts /\ x # None /\ c \in Clients
      /\ Sound(x) => packet[w].op = "recv"
  BY <1>1, <1>2, ParsingFacts, NameFacts
<1>4. pc'[w] = "wait" /\ packet'[w] = Nothing
  BY <1>2 DEF IInv, TypeOK
<1>5. Fits(w)' /\ ~Mine(w) /\ ~Mine(w)'
  BY <1>2, <1>4 DEF Fits, Mine, Nothing
<1>6. CASE recvs' = [recvs EXCEPT ![c] = @ + 1] /\ UNCHANGED <<pool, inUse, tainted>>
  <2>1. recvs' \in [Clients -> Nat]
    <3>1. recvs \in [Clients -> Nat]
      BY DEF IInv, TypeOK
    <3>2. recvs[c] + 1 \in Nat
      BY <1>3, <3>1
    <3> QED
      BY <1>3, <1>6, <3>1, <3>2
  <2>2. TypeOK'
    BY <1>2, <1>6, <2>1 DEF IInv, TypeOK
  <2>3. ActsOn(w, x)
    <3>1. \A d \in Clients : d # socket[x] => recvs'[d] = recvs[d] /\ answers'[d] = answers[d]
      BY <1>1, <1>2, <1>6 DEF IInv, TypeOK
    <3>2. \A v \in Workers \ {w} : pc'[v] = pc[v] /\ packet'[v] = packet[v]
      BY <1>2 DEF IInv, TypeOK
    <3> QED
      BY <1>2, <1>4, <1>6, <3>1, <3>2 DEF ActsOn, peers
  <2>4. Sound(x)' => Sound(x)
    BY <1>6 DEF Sound
  <2>5. ASSUME Sound(x) PROVE Orderly(x)'
    <3> DEFINE done == [packet EXCEPT ![w] = Nothing]
    <3>1. /\ Orderly(x) /\ Absent(port, done, x, Receives)
          /\ \A d \in Clients : context[d] = x => recvs[d] = 0
      BY <1>1, <1>2, <1>3, <2>5, AloneFacts
    <3>2. \A O : /\ Single(port, packet, x, O) => Single(port, done, x, O)
                 /\ Absent(port, packet, x, O) => Absent(port, done, x, O)
      BY <1>3, Finished DEF IInv, TypeOK
    <3>3. \A d \in Clients : recvs'[d] = IF d = c THEN recvs[d] + 1 ELSE recvs[d]
      BY <1>6 DEF IInv, TypeOK
    <3> HIDE DEF done
    <3>4. packet' = done
      BY <1>2 DEF done
    <3>5. \A d \in Clients : context[d] = x /\ recvs'[d] > 0 => recvs'[d] = 1 /\ d = c
      BY <3>1, <3>3
    <3>6. OneReceive(x)'
      BY <1>1, <1>2, <3>1, <3>2, <3>4, <3>5 DEF Orderly, OneReceive
    <3>7. OneSend(x)'
      BY <1>2, <3>1, <3>2, <3>4 DEF Orderly, OneSend
    <3>8. \A v \in Workers : v # w => pc'[v] = pc[v] /\ packet'[v] = packet[v]
      BY <1>2 DEF IInv, TypeOK
    <3>9. Buffered(x)'
      BY <1>2, <1>4, <3>1, <3>8 DEF Orderly, Buffered
    <3> QED
      BY <3>6, <3>7, <3>9 DEF Orderly
  <2>6. SoundInOrder(x)'
    BY <1>1, <1>2, <1>3, <1>5, <2>3, ServedAfter
  <2> QED
    BY <1>1, <1>2, <1>3, <1>5, <1>6, <2>2, <2>3, <2>4, <2>5, <2>6, Conclude
<1>7. CASE release(x) /\ UNCHANGED recvs
  <2>1. /\ pool' \in Seq(Contexts) /\ Len(pool') <= MaxPool
        /\ pool' \in {pool, Append(pool, x)}
        /\ inUse' \subseteq inUse /\ inUse' \subseteq Contexts /\ x \notin inUse'
        /\ tainted' \subseteq Contexts
        /\ tainted \subseteq tainted' /\ tainted' \subseteq tainted \cup {x}
        /\ Sound(x)' => Sound(x) /\ ~Dirty(x)
    BY <1>3, <1>7, ReleaseFacts DEF IInv
  <2>2. TypeOK'
    BY <1>2, <1>7, <2>1 DEF IInv, TypeOK
  <2>3. ActsOn(w, x)
    BY <1>2, <1>4, <1>7, <2>1 DEF ActsOn, peers, IInv, TypeOK
  <2>4. Sound(x)' => Orderly(x)' /\ AtRest(x)'
    BY <1>1, <1>2, <1>3, <1>4, <1>7, <2>1, <2>2, <2>3, OrderlyAfter, RestsAfter
  <2>5. SoundInOrder(x)'
    BY <1>1, <1>2, <1>3, <1>5, <2>3, ServedAfter
  <2> QED
    BY <1>1, <1>2, <1>3, <1>5, <2>2, <2>3, <2>4, <2>5, Conclude
<1> QED
  BY <1>2, <1>6, <1>7

(* A WSASend of the first message queued, or a failed one: what follows for *)
(* the types.                                                               *)
LEMMA WSASendTyped ==
  ASSUME TypeOK, NEW x \in Contexts, socket[x] \in Clients, NEW q \in Stream, q # <<>>, WSASend(x, q)
  PROVE  /\ answers' \in [Clients -> Stream] /\ port' \in Seq(Packets)
         /\ answers'[socket[x]] = Append(answers[socket[x]], Head(q))
         /\ \A c \in Clients : c # socket[x] => answers'[c] = answers[c]
         /\ port' = Append(port, Packet("send", x, 1))
         /\ UNCHANGED <<handle, pool, inUse>>
<1>1. /\ answers' = [answers EXCEPT ![socket[x]] = Append(@, Head(q))]
      /\ port' = Append(port, Packet("send", x, 1)) /\ UNCHANGED <<handle, pool, inUse>>
  BY DEF WSASend
<1>2. Head(q) \in 1..MaxMessages /\ answers[socket[x]] \in Seq(1..MaxMessages)
  BY HeadTailProperties DEF Stream, TypeOK
<1>3. Append(answers[socket[x]], Head(q)) \in Stream
  BY <1>2, AppendProperties DEF Stream
<1>4. Packet("send", x, 1) \in Packets
  BY NewPackets
<1>5. port' \in Seq(Packets)
  BY <1>1, <1>4, AppendProperties DEF TypeOK
<1> QED
  BY <1>1, <1>3, <1>5 DEF TypeOK

LEMMA WSASendFailsTyped ==
  ASSUME TypeOK, NEW x \in Contexts, socket[x] \in Clients, close_client(x)
  PROVE  handle' \in [Clients -> {"none", "open", "closed"}] /\ release(x)
BY DEF close_client, TypeOK

(* send_done: a sound context has sent its one answer; another has lost the  *)
(* answers that were queued, or sends the next one.                         *)
LEMMA send_doneIInv ==
  ASSUME IInv, NEW w \in Workers, send_done(w)
  PROVE  IInv'
<1>1. PICK x : x = packet[w].of
  OBVIOUS
<1>2. /\ packet[w] # Nothing /\ packet[w].op # "new" /\ x \in Contexts /\ x # None
      /\ socket[x] \in Clients /\ (Sound(x) => packet[w].op = "send")
  BY <1>1, ParsingFacts, NameFacts DEF send_done
<1>3. PICK q : q = Tail(sendQueue[x])
  OBVIOUS
<1>4. /\ pc[w] = "sent" /\ sendQueue[x] # <<>>
      /\ sendQueue' = [sendQueue EXCEPT ![x] = q]
      /\ \/ q # <<>> /\ WSASend(x, q) /\ UNCHANGED <<sending, tainted>>
         \/ q # <<>> /\ close_client(x) /\ sending' = [sending EXCEPT ![x] = FALSE]
            /\ UNCHANGED <<answers, port>>
         \/ /\ q = <<>> /\ sending' = [sending EXCEPT ![x] = FALSE]
            /\ UNCHANGED <<handle, pool, inUse, port, answers, tainted>>
      /\ pc' = [pc EXCEPT ![w] = "wait"] /\ packet' = [packet EXCEPT ![w] = Nothing]
      /\ UNCHANGED <<bound, recvs, socket, pendingData, buffer, activeClients, process,
                     client, sent, wire, end, context, unheard, patient>>
  BY <1>1, <1>3 DEF send_done, WSASendFails, Done, workerUnchanged, peers
<1>5. pc'[w] = "wait" /\ packet'[w] = Nothing
  BY <1>4 DEF IInv, TypeOK
<1>6. Fits(w)'
  BY <1>5 DEF Fits, Nothing
<1>7. q \in Stream /\ Len(q) = Len(sendQueue[x]) - 1
  BY <1>2, <1>3, <1>4, HeadTailProperties DEF IInv, TypeOK, Stream
<1>8. sendQueue' \in [Contexts -> Stream] /\ \A y \in Contexts \ {x} : sendQueue'[y] = sendQueue[y]
  BY <1>4, <1>7 DEF IInv, TypeOK
<1>9. \A v \in Workers \ {w} : pc'[v] = pc[v] /\ packet'[v] = packet[v]
  BY <1>4 DEF IInv, TypeOK
<1>10. Sound(x) => q = <<>> /\ Orderly(x) /\ Absent(port, [packet EXCEPT ![w] = Nothing], x, Sends)
  <2> SUFFICES ASSUME Sound(x)
               PROVE  q = <<>> /\ Orderly(x) /\ Absent(port, [packet EXCEPT ![w] = Nothing], x, Sends)
    OBVIOUS
  <2>1. Orderly(x) /\ Absent(port, [packet EXCEPT ![w] = Nothing], x, Sends)
    BY <1>1, <1>2, <1>4, AloneFacts
  <2>2. Len(q) <= 0 /\ Len(q) \in Nat
    BY <1>2, <1>7, <2>1, LenProperties DEF Orderly, OneSend, Stream, IInv, TypeOK
  <2> QED
    BY <1>7, <2>1, <2>2, EmptySeq DEF Stream
<1>11. CASE q # <<>> /\ WSASend(x, q) /\ UNCHANGED <<sending, tainted>>
  <2>1. /\ answers' \in [Clients -> Stream] /\ port' \in Seq(Packets)
        /\ \A c \in Clients : c # socket[x] => answers'[c] = answers[c]
        /\ port' = Append(port, Packet("send", x, 1))
        /\ UNCHANGED <<handle, pool, inUse>>
    BY <1>2, <1>7, <1>11, WSASendTyped DEF IInv
  <2>2. TypeOK'
    BY <1>4, <1>8, <1>11, <2>1 DEF IInv, TypeOK
  <2>3. ActsOn(w, x)
    BY <1>4, <1>5, <1>8, <1>9, <1>11, <2>1 DEF ActsOn, peers
  <2>4. ~Sound(x) /\ ~Sound(x)'
    BY <1>10, <1>11 DEF Sound
  <2> QED
    BY <1>1, <1>2, <1>4, <1>6, <2>1, <2>2, <2>3, <2>4, Conclude
<1>12. CASE q # <<>> /\ close_client(x) /\ sending' = [sending EXCEPT ![x] = FALSE]
            /\ UNCHANGED <<answers, port>>
  <2>1. handle' \in [Clients -> {"none", "open", "closed"}] /\ release(x)
    BY <1>2, <1>12, WSASendFailsTyped DEF IInv
  <2>2. /\ pool' \in Seq(Contexts) /\ Len(pool') <= MaxPool
        /\ pool' \in {pool, Append(pool, x)}
        /\ inUse' \subseteq inUse /\ inUse' \subseteq Contexts /\ x \notin inUse'
        /\ tainted' \subseteq Contexts
        /\ tainted \subseteq tainted' /\ tainted' \subseteq tainted \cup {x}
        /\ Sound(x)' => Sound(x)
    BY <1>2, <2>1, ReleaseFacts DEF IInv
  <2>3. TypeOK'
    BY <1>4, <1>8, <1>12, <2>1, <2>2 DEF IInv, TypeOK
  <2>4. \A y \in Contexts \ {x} : sending'[y] = sending[y]
    BY <1>12 DEF IInv, TypeOK
  <2>5. ActsOn(w, x)
    BY <1>4, <1>5, <1>8, <1>9, <1>12, <2>2, <2>4 DEF ActsOn, peers
  <2>6. ~Sound(x)'
    BY <1>10, <1>12, <2>2
  <2> QED
    BY <1>1, <1>2, <1>4, <1>6, <2>3, <2>5, <2>6, Conclude
<1>13. CASE /\ q = <<>> /\ sending' = [sending EXCEPT ![x] = FALSE]
            /\ UNCHANGED <<handle, pool, inUse, port, answers, tainted>>
  <2>1. TypeOK'
    BY <1>4, <1>8, <1>13 DEF IInv, TypeOK
  <2>2. \A y \in Contexts \ {x} : sending'[y] = sending[y]
    BY <1>13 DEF IInv, TypeOK
  <2>3. ActsOn(w, x)
    BY <1>4, <1>5, <1>8, <1>9, <1>13, <2>2 DEF ActsOn, peers
  <2>4. Sound(x)' => Sound(x)
    BY <1>13 DEF Sound
  <2>5. ASSUME Sound(x) PROVE Orderly(x)' /\ SoundInOrder(x)'
    <3> DEFINE done == [packet EXCEPT ![w] = Nothing]
    <3>1. Orderly(x) /\ Absent(port, done, x, Sends) /\ packet[w].op = "send"
      BY <1>2, <1>10, <2>5
    <3>2. \A O : /\ Single(port, packet, x, O) => Single(port, done, x, O)
                 /\ Absent(port, packet, x, O) => Absent(port, done, x, O)
      BY <1>2, Finished DEF IInv, TypeOK
    <3> HIDE DEF done
    <3>3. packet' = done
      BY <1>4 DEF done
    <3>4. OneReceive(x)'
      BY <1>4, <1>13, <3>1, <3>2, <3>3 DEF Orderly, OneReceive
    <3>5. sendQueue'[x] = <<>> /\ Len(<<>>) <= 1
      BY <1>2, <1>4, <1>13 DEF IInv, TypeOK
    <3>6. OneSend(x)'
      BY <1>13, <3>1, <3>2, <3>3, <3>5 DEF Orderly, OneSend
    <3>7. Buffered(x)'
      BY <1>4, <1>5, <1>9, <1>13, <3>1 DEF Orderly, Buffered
    <3>8. ~Mine(w) /\ ~Mine(w)'
      BY <1>5, <3>1 DEF Mine, Nothing
    <3>9. SoundInOrder(x)'
      BY <1>1, <1>2, <1>4, <1>13, <2>3, <3>8, ServedAfter
    <3> QED
      BY <3>4, <3>6, <3>7, <3>9 DEF Orderly
  <2> QED
    BY <1>1, <1>2, <1>4, <1>6, <1>13, <2>1, <2>3, <2>4, <2>5, Conclude
<1> QED
  BY <1>4, <1>11, <1>12, <1>13

(* send_done_empty: never of a sound context.                               *)
LEMMA send_done_emptyIInv ==
  ASSUME IInv, NEW w \in Workers, send_done_empty(w)
  PROVE  IInv'
<1>1. PICK x : x = packet[w].of
  OBVIOUS
<1>2. /\ packet[w] # Nothing /\ packet[w].op # "new" /\ x \in Contexts /\ x # None
      /\ socket[x] \in Clients /\ (Sound(x) => packet[w].op = "send")
  BY <1>1, ParsingFacts, NameFacts DEF send_done_empty
<1>3. /\ pc[w] = "sent" /\ sendQueue[x] = <<>>
      /\ \/ /\ process' = "crashed"
            /\ UNCHANGED <<sending, handle, pool, inUse, tainted>>
         \/ /\ close_client(x) /\ sending' = [sending EXCEPT ![x] = FALSE]
            /\ UNCHANGED process
      /\ pc' = [pc EXCEPT ![w] = "wait"] /\ packet' = [packet EXCEPT ![w] = Nothing]
      /\ UNCHANGED <<bound, recvs, port, socket, sendQueue, pendingData, buffer, activeClients,
                     answers, client, sent, wire, end, context, unheard, patient>>
  BY <1>1 DEF send_done_empty, Done, workerUnchanged, peers
<1>4. pc'[w] = "wait" /\ packet'[w] = Nothing
  BY <1>3 DEF IInv, TypeOK
<1>5. Fits(w)' /\ \A v \in Workers \ {w} : pc'[v] = pc[v] /\ packet'[v] = packet[v]
  BY <1>3, <1>4 DEF Fits, Nothing, IInv, TypeOK
<1>6. ~Sound(x)
  BY <1>1, <1>2, <1>3, AloneFacts
<1>7. CASE process' = "crashed" /\ UNCHANGED <<sending, handle, pool, inUse, tainted>>
  <2>1. TypeOK'
    BY <1>3, <1>7 DEF IInv, TypeOK
  <2>2. ActsOn(w, x)
    BY <1>3, <1>4, <1>5, <1>7 DEF ActsOn, peers
  <2>3. ~Sound(x)'
    BY <1>6, <1>7 DEF Sound
  <2> QED
    BY <1>1, <1>2, <1>3, <1>5, <1>7, <2>1, <2>2, <2>3, Conclude
<1>8. CASE close_client(x) /\ sending' = [sending EXCEPT ![x] = FALSE] /\ UNCHANGED process
  <2>1. handle' \in [Clients -> {"none", "open", "closed"}] /\ release(x)
    BY <1>2, <1>8, WSASendFailsTyped DEF IInv
  <2>2. /\ pool' \in Seq(Contexts) /\ Len(pool') <= MaxPool
        /\ pool' \in {pool, Append(pool, x)}
        /\ inUse' \subseteq inUse /\ inUse' \subseteq Contexts /\ x \notin inUse'
        /\ tainted' \subseteq Contexts
        /\ tainted \subseteq tainted' /\ tainted' \subseteq tainted \cup {x}
        /\ Sound(x)' => Sound(x)
    BY <1>2, <2>1, ReleaseFacts DEF IInv
  <2>3. TypeOK'
    BY <1>3, <1>8, <2>1, <2>2 DEF IInv, TypeOK
  <2>4. \A y \in Contexts \ {x} : sending'[y] = sending[y]
    BY <1>8 DEF IInv, TypeOK
  <2>5. ActsOn(w, x)
    BY <1>3, <1>4, <1>5, <1>8, <2>2, <2>4 DEF ActsOn, peers
  <2>6. ~Sound(x)'
    BY <1>6, <2>2
  <2> QED
    BY <1>1, <1>2, <1>3, <1>5, <2>3, <2>5, <2>6, Conclude
<1> QED
  BY <1>3, <1>7, <1>8

(* post_send: the answer to the first message is sent, or the connection     *)
(* closed; a context that had an answer under way is not sound any more.    *)
LEMMA post_sendIInv ==
  ASSUME IInv, NEW w \in Workers, post_send(w)
  PROVE  IInv'
<1>1. PICK x, p : x = packet[w].of /\ p = pendingData[x]
  OBVIOUS
<1>2. /\ packet[w] # Nothing /\ packet[w].op # "new" /\ x \in Contexts /\ x # None
      /\ socket[x] \in Clients /\ (Sound(x) => packet[w].op = "recv") /\ Fits(w)
  BY <1>1, ParsingFacts, NameFacts DEF post_send
<1>3. PICK q : q = Append(sendQueue[x], Head(p))
  OBVIOUS
<1>4. /\ pc[w] = "parse" /\ p # <<>>
      /\ sendQueue' = [sendQueue EXCEPT ![x] = q]
      /\ pendingData' = [pendingData EXCEPT ![x] = Tail(p)]
      /\ \/ WSASend(x, q) /\ sending' = [sending EXCEPT ![x] = TRUE]
            /\ tainted' = IF sendQueue[x] # <<>> THEN tainted \cup {x} ELSE tainted
         \/ UNCHANGED <<answers, port>> /\ close_client(x) /\ sending' = [sending EXCEPT ![x] = FALSE]
      /\ UNCHANGED <<pc, packet, bound, recvs, socket, buffer, activeClients, process,
                     client, sent, wire, end, context, unheard, patient>>
  BY <1>1, <1>3 DEF post_send, Marked, WSASendFails, Erased, workerUnchanged, peers
<1>5. p \in Seq(1..MaxMessages) /\ sendQueue[x] \in Seq(1..MaxMessages)
  BY <1>1, <1>2 DEF IInv, TypeOK, Stream
<1>6. Head(p) \in 1..MaxMessages /\ Tail(p) \in Seq(1..MaxMessages)
  BY <1>4, <1>5, HeadTailProperties
<1>7. /\ q \in Seq(1..MaxMessages) /\ q # <<>> /\ Len(q) = Len(sendQueue[x]) + 1
      /\ sendQueue[x] = <<>> => Head(q) = Head(p)
  BY <1>3, <1>5, <1>6, AppendProperties, HeadTailAppend
<1>8. /\ sendQueue' \in [Contexts -> Stream] /\ pendingData' \in [Contexts -> Stream]
      /\ sending' \in [Contexts -> BOOLEAN]
      /\ sendQueue'[x] = q /\ pendingData'[x] = Tail(p)
      /\ \A y \in Contexts \ {x} : /\ sendQueue'[y] = sendQueue[y] /\ sending'[y] = sending[y]
                                   /\ pendingData'[y] = pendingData[y]
  BY <1>2, <1>4, <1>6, <1>7 DEF IInv, TypeOK, Stream
<1>9. CASE /\ WSASend(x, q) /\ sending' = [sending EXCEPT ![x] = TRUE]
           /\ tainted' = IF sendQueue[x] # <<>> THEN tainted \cup {x} ELSE tainted
  <2>1. /\ answers' \in [Clients -> Stream] /\ port' \in Seq(Packets)
        /\ answers'[socket[x]] = Append(answers[socket[x]], Head(q))
        /\ \A c \in Clients : c # socket[x] => answers'[c] = answers[c]
        /\ port' = Append(port, Packet("send", x, 1))
        /\ UNCHANGED <<handle, pool, inUse>>
    BY <1>2, <1>7, <1>9, WSASendTyped DEF IInv, Stream
  <2>2. tainted' \subseteq Contexts /\ tainted \subseteq tainted' /\ tainted' \subseteq tainted \cup {x}
        /\ (Sound(x)' => Sound(x) /\ sendQueue[x] = <<>>)
    BY <1>2, <1>9 DEF IInv, TypeOK, Sound
  <2>3. TypeOK'
    BY <1>4, <1>8, <2>1, <2>2 DEF IInv, TypeOK
  <2>4. ActsOn(w, x)
    BY <1>4, <1>8, <2>1, <2>2 DEF ActsOn, peers
  <2>5. Fits(w)'
    BY <1>1, <1>2, <1>4, <2>2 DEF Fits
  <2>6. ASSUME Sound(x), sendQueue[x] = <<>> PROVE Orderly(x)' /\ SoundInOrder(x)'
    <3> DEFINE m == Packet("send", x, 1)
    <3>1. Orderly(x) /\ Absent(port, packet, x, Sends)
      BY <1>1, <1>2, <1>4, <2>6, AloneFacts DEF Orderly, OneSend
    <3>2. m \in Packets /\ m.op = "send" /\ m.of = x /\ port \in Seq(Packets) /\ Len(port) \in Nat
      BY <1>2, NewPackets, LenProperties DEF Packet, IInv, TypeOK
    <3> HIDE DEF m
    <3>3. ~At(m, x, Receives) /\ ~At(m, x, {"recv"})
      BY <3>2 DEF At, Receives
    <3>4. port' = Append(port, m) /\ packet' = packet
      BY <1>4, <2>1 DEF m
    <3>5. OneReceive(x)'
      <4>1. /\ Single(port, packet, x, Receives) => Single(Append(port, m), packet, x, Receives)
            /\ Absent(port, packet, x, Receives) => Absent(Append(port, m), packet, x, Receives)
        BY <3>2, <3>3, Queued
      <4> QED
        BY <1>4, <3>1, <3>4, <4>1 DEF Orderly, OneReceive
    <3>6. OneSend(x)'
      <4>1. Single(Append(port, m), packet, x, Sends)
        BY <3>1, <3>2, Queued DEF Orderly, OneSend
      <4>2. sending'[x] /\ sendQueue'[x] # <<>> /\ Len(sendQueue'[x]) <= 1
        <5>1. sending'[x]
          BY <1>2, <1>9 DEF IInv, TypeOK
        <5>2. Len(sendQueue[x]) = 0
          BY <2>6
        <5>3. sendQueue'[x] = q /\ q # <<>> /\ Len(q) = 1
          BY <1>7, <1>8, <5>2
        <5> QED
          BY <5>1, <5>3
      <4> QED
        BY <3>4, <4>1, <4>2 DEF OneSend
    <3>7. Buffered(x)'
      <4>1. \A i \in 1..Len(port') : \/ i \in 1..Len(port) /\ port'[i] = port[i]
                                     \/ port'[i] = m
        BY <3>2, <3>4
      <4>2. \A i \in 1..Len(port') : At(port'[i], x, {"recv"}) => i \in 1..Len(port) /\ port'[i] = port[i]
        BY <3>3, <4>1
      <4> QED
        BY <1>4, <3>1, <4>2 DEF Orderly, Buffered
    <3>8. Announced(x)' = Announced(x)
      <4>1. ~Mine(w) /\ ~Mine(w)'
        BY <1>4 DEF Mine
      <4> QED
        BY <1>1, <1>2, <1>4, <2>4, <4>1, AnnouncedAfter
    <3>9. SoundInOrder(x)'
      <4> SUFFICES ASSUME NEW c \in Clients, socket[x] = c, end[c] # "reset", c \notin unheard
                   PROVE  answers'[c] \o pendingData'[x] \o Announced(x)' \o wire[c]
                            = [k \in 1..sent[c] |-> k]
        BY <1>4 DEF SoundInOrder
      <4>1. answers[c] \o p \o Announced(x) \o wire[c] = [k \in 1..sent[c] |-> k]
        BY <1>1, <1>2, <2>6 DEF IInv, SoundServed, SoundInOrder
      <4>2. answers'[c] = Append(answers[c], Head(p)) /\ pendingData'[x] = Tail(p)
        BY <1>7, <1>8, <2>1, <2>6
      <4>3. PICK a \in Seq(1..MaxMessages), r \in Seq(1..MaxMessages) : a = answers[c] /\ r = p
        BY <1>5 DEF IInv, TypeOK, Stream
      <4>4. r # <<>>
        BY <1>4, <4>3
      <4>5. Append(a, Head(r)) \o Tail(r) = a \o r
        BY <4>4, Answering
      <4>6. answers'[c] \o pendingData'[x] = answers[c] \o p
        BY <4>2, <4>3, <4>5, Zenon
      <4> QED
        BY <3>8, <4>1, <4>6, Zenon
    <3> QED
      BY <3>5, <3>6, <3>7, <3>9 DEF Orderly
  <2> QED
    BY <1>1, <1>2, <1>4, <2>1, <2>2, <2>3, <2>4, <2>5, <2>6, Conclude
<1>10. CASE UNCHANGED <<answers, port>> /\ close_client(x) /\ sending' = [sending EXCEPT ![x] = FALSE]
  <2>1. handle' \in [Clients -> {"none", "open", "closed"}] /\ release(x)
    BY <1>2, <1>10, WSASendFailsTyped DEF IInv
  <2>2. /\ pool' \in Seq(Contexts) /\ Len(pool') <= MaxPool
        /\ pool' \in {pool, Append(pool, x)}
        /\ inUse' \subseteq inUse /\ inUse' \subseteq Contexts /\ x \notin inUse'
        /\ tainted' \subseteq Contexts
        /\ tainted \subseteq tainted' /\ tainted' \subseteq tainted \cup {x}
        /\ Sound(x)' => Sound(x) /\ ~Dirty(x)
    BY <1>2, <2>1, ReleaseFacts DEF IInv
  <2>3. TypeOK'
    BY <1>4, <1>8, <1>10, <2>1, <2>2 DEF IInv, TypeOK
  <2>4. ActsOn(w, x)
    BY <1>4, <1>8, <1>10, <2>2 DEF ActsOn, peers
  <2>5. ~Sound(x)'
    BY <1>1, <1>4, <2>2 DEF Dirty
  <2>6. Fits(w)'
    BY <1>1, <1>2, <1>4, <2>5 DEF Fits
  <2> QED
    BY <1>1, <1>2, <1>4, <2>3, <2>4, <2>5, <2>6, Conclude
<1> QED
  BY <1>4, <1>9, <1>10

(***************************************************************************)
(* Every action preserves the invariant: completions are taken, connections *)
(* begin and end                                                            *)
(***************************************************************************)

(* take: the completion moves from the queue to the worker.                 *)
LEMMA takeIInv ==
  ASSUME IInv, NEW w \in Workers, take(w)
  PROVE  IInv'
<1>1. PICK m : m = Head(port)
  OBVIOUS
<1>2. /\ pc[w] = "wait" /\ port # <<>> /\ port' = Tail(port)
      /\ \/ m.op = "failed" /\ UNCHANGED <<pc, packet>>
         \/ /\ m.op # "failed"
            /\ pc' = [pc EXCEPT ![w] = "taken"] /\ packet' = [packet EXCEPT ![w] = m]
      /\ UNCHANGED <<handle, bound, recvs, socket, sendQueue, sending, pendingData, buffer, pool, inUse,
                     activeClients, process, answers, tainted, client, sent, wire, end, context, unheard,
                     patient>>
  BY <1>1 DEF take, watched, peers, sockets, fields
<1>3. packet[w] = Nothing
  BY <1>2 DEF IInv, WorkerHolds, Fits
<1>4. port \in Seq(Packets) /\ Len(port) \in Nat /\ packet \in [Workers -> Packets \cup {Nothing}]
      /\ pc \in [Workers -> {"wait", "taken", "bind", "sent", "received", "parse"}]
  BY LenProperties DEF IInv, TypeOK
<1>5. m \in Packets /\ 1 \in 1..Len(port) /\ m = port[1] /\ port' \in Seq(Packets)
  BY <1>1, <1>2, <1>4, HeadTailProperties, EmptySeq
<1>6. TypeOK'
  BY <1>2, <1>4, <1>5 DEF IInv, TypeOK
<1>7. \A x, O : x # None => /\ Single(port, packet, x, O) => Single(port', packet', x, O)
                            /\ Absent(port, packet, x, O) => Absent(port', packet', x, O)
  <2> SUFFICES ASSUME NEW x, NEW O, x # None
               PROVE  /\ Single(port, packet, x, O) => Single(port', packet', x, O)
                      /\ Absent(port, packet, x, O) => Absent(port', packet', x, O)
    OBVIOUS
  <2>1. /\ Single(port, packet, x, O) => Single(Tail(port), packet, x, O)
        /\ Single(port, packet, x, O) => Single(Tail(port), [packet EXCEPT ![w] = Head(port)], x, O)
        /\ Absent(port, packet, x, O) => Absent(Tail(port), packet, x, O)
        /\ Absent(port, packet, x, O) => Absent(Tail(port), [packet EXCEPT ![w] = Head(port)], x, O)
    BY <1>2, <1>3, <1>4, Dequeued
  <2> QED
    BY <1>1, <1>2, <2>1
<1>8. /\ \A i \in 1..Len(port') : i + 1 \in 1..Len(port) /\ port'[i] = port[i + 1]
      /\ \A i \in 1..Len(port) : i # 1 => i - 1 \in 1..Len(port') /\ port'[i - 1] = port[i]
  BY <1>2, <1>4
<1>9. \A v \in Workers : \/ packet'[v] = packet[v] /\ pc'[v] = pc[v]
                         \/ v = w /\ packet'[v] = m /\ pc'[v] = "taken" /\ m.op # "failed"
  BY <1>2, <1>4
<1>10. WorkerHolds'
  <2> SUFFICES ASSUME NEW v \in Workers PROVE Fits(v)'
    BY DEF WorkerHolds
  <2>1. Fits(v)
    BY DEF IInv, WorkerHolds
  <2>2. m # Nothing
    BY <1>5, PacketFacts
  <2>3. CASE packet'[v] = packet[v] /\ pc'[v] = pc[v]
    BY <1>2, <2>1, <2>3 DEF Fits, Sound
  <2>4. CASE packet'[v] = m /\ pc'[v] = "taken" /\ m.op # "failed"
    BY <2>2, <2>4 DEF Fits
  <2> QED
    BY <1>9, <2>3, <2>4
<1>11. Connecting'
  <2> SUFFICES ASSUME NEW c \in Clients
               PROVE  /\ Single(port', packet', c, News)
                      /\ client[c] = "out" => context[c] = None /\ Absent(port', packet', c, News)
                      /\ client[c] # "gone" => end[c] = "open"
                      /\ \A i \in 1..Len(port') : At(port'[i], c, News) => context[c] = None
                      /\ \A v \in Workers : At(packet'[v], c, News) /\ pc'[v] = "taken" => context[c] = None
                      /\ context[c] = None =>
                           /\ recvs[c] = 0 /\ answers[c] = <<>>
                           /\ end[c] # "reset" => wire[c] = [k \in 1..sent[c] |-> k]
    BY <1>2 DEF Connecting
  <2>1. c # None
    BY NameFacts
  <2>2. /\ Single(port, packet, c, News)
        /\ client[c] = "out" => context[c] = None /\ Absent(port, packet, c, News)
        /\ client[c] # "gone" => end[c] = "open"
        /\ \A i \in 1..Len(port) : At(port[i], c, News) => context[c] = None
        /\ \A v \in Workers : At(packet[v], c, News) /\ pc[v] = "taken" => context[c] = None
        /\ context[c] = None =>
             /\ recvs[c] = 0 /\ answers[c] = <<>>
             /\ end[c] # "reset" => wire[c] = [k \in 1..sent[c] |-> k]
    BY DEF IInv, Connecting
  <2>3. \A i \in 1..Len(port') : At(port'[i], c, News) => context[c] = None
    BY <1>8, <2>2
  <2>4. \A v \in Workers : At(packet'[v], c, News) /\ pc'[v] = "taken" => context[c] = None
    BY <1>5, <1>9, <2>2
  <2> QED
    BY <1>7, <2>1, <2>2, <2>3, <2>4
<1>12. \A x \in Contexts : AtRest(x) => AtRest(x)'
  <2> SUFFICES ASSUME NEW x \in Contexts, AtRest(x) PROVE AtRest(x)'
    OBVIOUS
  <2>1. \A i \in 1..Len(port') : port'[i].of # x
    BY <1>8 DEF AtRest
  <2>2. \A v \in Workers : packet'[v].of # x
    BY <1>5, <1>9 DEF AtRest
  <2> QED
    BY <1>2, <2>1, <2>2 DEF AtRest, Dirty
<1>13. Owned'
  BY <1>2, <1>12 DEF IInv, Owned
<1>14. SoundOrderly'
  <2> SUFFICES ASSUME NEW x \in Contexts, Sound(x) PROVE Orderly(x)'
    BY <1>2 DEF SoundOrderly, Sound
  <2>1. Orderly(x) /\ x # None
    BY NameFacts DEF IInv, SoundOrderly
  <2>2. OneReceive(x)' /\ OneSend(x)'
    BY <1>2, <1>7, <2>1 DEF Orderly, OneReceive, OneSend
  <2>3. /\ \A i \in 1..Len(port) :
             At(port[i], x, {"recv"}) /\ port[i].n > 0 => port[i].n = Len(buffer[x])
        /\ \A v \in Workers :
             At(packet[v], x, {"recv"}) /\ packet[v].n > 0 /\ pc[v] \in {"taken", "received"} =>
               packet[v].n = Len(buffer[x])
    BY <2>1 DEF Orderly, Buffered
  <2>4. \A i \in 1..Len(port') :
          At(port'[i], x, {"recv"}) /\ port'[i].n > 0 => port'[i].n = Len(buffer[x])
    <3> SUFFICES ASSUME NEW i \in 1..Len(port'), At(port'[i], x, {"recv"}), port'[i].n > 0
                 PROVE  port'[i].n = Len(buffer[x])
      OBVIOUS
    <3>1. PICK j \in 1..Len(port) : port'[i] = port[j]
      BY <1>8
    <3>2. At(port[j], x, {"recv"}) /\ port[j].n > 0
      BY <3>1
    <3> QED
      BY <2>3, <3>1, <3>2
  <2>5. \A v \in Workers :
          At(packet'[v], x, {"recv"}) /\ packet'[v].n > 0 /\ pc'[v] \in {"taken", "received"} =>
            packet'[v].n = Len(buffer[x])
    BY <1>5, <1>9, <2>3
  <2> QED
    BY <1>2, <2>2, <2>4, <2>5 DEF Orderly, Buffered
<1>15. SoundPooled'
  <2>1. \A i \in 1..Len(pool) : pool[i] \in Contexts
    BY ElementOfSeq DEF IInv, TypeOK
  <2> QED
    BY <1>2, <1>12, <2>1 DEF IInv, SoundPooled, Sound
<1>16. SoundServed'
  <2> SUFFICES ASSUME NEW x \in Contexts PROVE SoundInOrder(x)'
    BY DEF SoundServed
  <2> DEFINE told(e) == e.op = "recv" /\ e.of = x /\ e.n > 0
  <2>1. Announces(x) <=> \/ \E i \in 1..Len(port) : told(port[i])
                         \/ \E v \in Workers : told(packet[v]) /\ pc[v] \in {"taken", "received"}
    BY DEF Announces
  <2>2. Announces(x)' <=> \/ \E i \in 1..Len(port') : told(port'[i])
                          \/ \E v \in Workers : told(packet'[v]) /\ pc'[v] \in {"taken", "received"}
    BY DEF Announces
  <2>3. /\ told(m) => m.op # "failed"
        /\ ~told(packet[w])
    BY <1>3 DEF Nothing
  <2>4. told(m) => packet'[w] = m /\ pc'[w] = "taken"
    BY <1>2, <1>4, <2>3
  <2> HIDE DEF told
  <2>5. ASSUME NEW i \in 1..Len(port), told(port[i]) PROVE Announces(x)'
    <3>1. CASE i = 1
      BY <1>5, <2>2, <2>4, <2>5, <3>1
    <3>2. CASE i # 1
      BY <1>8, <2>2, <2>5, <3>2
    <3> QED
      BY <3>1, <3>2
  <2>6. ASSUME NEW v \in Workers, told(packet[v]), pc[v] \in {"taken", "received"} PROVE Announces(x)'
    <3>1. packet'[v] = packet[v] /\ pc'[v] = pc[v]
      BY <1>9, <2>3, <2>6
    <3> QED
      BY <2>2, <2>6, <3>1
  <2>7. ASSUME NEW i \in 1..Len(port'), told(port'[i]) PROVE Announces(x)
    BY <1>8, <2>1, <2>7
  <2>8. ASSUME NEW v \in Workers, told(packet'[v]), pc'[v] \in {"taken", "received"} PROVE Announces(x)
    BY <1>5, <1>9, <2>1, <2>8
  <2>9. Announced(x)' = Announced(x)
    BY <1>2, <2>1, <2>2, <2>5, <2>6, <2>7, <2>8 DEF Announced
  <2> QED
    BY <1>2, <2>9 DEF IInv, SoundServed, SoundInOrder, Sound
<1> QED
  BY <1>6, <1>10, <1>11, <1>13, <1>14, <1>15, <1>16 DEF IInv

(* A worker that takes up a new connection is the only one that has it.      *)
LEMMA NewFacts ==
  ASSUME IInv, NEW w \in Workers, packet[w].op = "new", NEW c, c = packet[w].of
  PROVE  /\ packet[w] \in Packets /\ packet[w] # Nothing /\ c \in Clients /\ c # None
         /\ client[c] # "out"
         /\ \A i \in 1..Len(port) : ~At(port[i], c, News)
         /\ \A v \in Workers : At(packet[v], c, News) => v = w
         /\ pc[w] = "taken" => context[c] = None
<1>1. packet[w] # Nothing /\ packet[w] \in Packets
  BY DEF IInv, TypeOK, Nothing
<1>2. c \in Clients /\ c # None
  BY <1>1, PacketFacts, NameFacts
<1>3. At(packet[w], c, News)
  BY DEF At, News
<1> QED
  BY <1>1, <1>2, <1>3 DEF IInv, Connecting, Single, Absent

(* connected: the context from the pool serves the new connection from the   *)
(* first message on.                                                        *)
LEMMA connectedIInv ==
  ASSUME IInv, NEW w \in Workers, connected(w)
  PROVE  IInv'
<1>1. PICK c, g : c = packet[w].of /\ g = get
  OBVIOUS
<1>2. PICK n \in {0, 1} :
        /\ pc[w] = "taken" /\ packet[w].op = "new"
        /\ context' = [context EXCEPT ![c] = g] /\ socket' = [socket EXCEPT ![g] = c]
        /\ pool' = Taken /\ inUse' = inUse \cup {g}
        /\ recvs' = [recvs EXCEPT ![c] = n]
        /\ pc' = [pc EXCEPT ![w] = "bind"]
        /\ UNCHANGED <<packet, handle, bound, port, sendQueue, sending, pendingData, buffer, activeClients,
                       process, answers, tainted, unheard, patient, client, sent, wire, end>>
  <2>1. (IF Usable(c) THEN 1 ELSE 0) \in {0, 1}
    OBVIOUS
  <2> QED
    BY <1>1, <2>1 DEF connected, Goto, watched, peers
<1>3. /\ packet[w] # Nothing /\ c \in Clients /\ c # None /\ client[c] # "out" /\ context[c] = None
      /\ \A i \in 1..Len(port) : ~At(port[i], c, News)
      /\ \A v \in Workers : At(packet[v], c, News) => v = w
  BY <1>1, <1>2, NewFacts
<1>4. /\ g \in Contexts /\ g # None /\ (Sound(g) => AtRest(g))
      /\ pool' \in Seq(Contexts) /\ Len(pool') <= Len(pool)
      /\ \A i \in 1..Len(pool') : i \in 1..Len(pool) /\ pool'[i] = pool[i]
      /\ \A i \in 1..Len(pool') : Sound(g) => pool'[i] # g
  BY <1>1, <1>2, <1>3, GetFacts, NameFacts DEF IInv
<1>5. /\ \A d \in Clients : context'[d] = (IF d = c THEN g ELSE context[d])
      /\ \A d \in Clients : recvs'[d] = (IF d = c THEN n ELSE recvs[d])
      /\ \A y \in Contexts : socket'[y] = (IF y = g THEN c ELSE socket[y])
      /\ \A v \in Workers : pc'[v] = (IF v = w THEN "bind" ELSE pc[v])
  BY <1>2, <1>3, <1>4 DEF IInv, TypeOK
<1>6. TypeOK'
  <2>1. /\ context' \in [Clients -> Contexts \cup {None}] /\ recvs' \in [Clients -> Nat]
        /\ socket' \in [Contexts -> Clients \cup {None}]
        /\ pc' \in [Workers -> {"wait", "taken", "bind", "sent", "received", "parse"}]
    BY <1>2, <1>3, <1>4 DEF IInv, TypeOK
  <2>2. Len(pool') <= MaxPool /\ inUse' \subseteq Contexts
    <3>1. Len(pool) \in Nat /\ Len(pool') \in Nat /\ MaxPool \in Nat /\ Len(pool) <= MaxPool
      BY <1>4, LenProperties, SizesAssumption DEF IInv, TypeOK
    <3> QED
      BY <1>2, <1>4, <3>1 DEF IInv, TypeOK
  <2> QED
    BY <1>2, <1>4, <2>1, <2>2 DEF IInv, TypeOK
<1>7. WorkerHolds'
  <2> SUFFICES ASSUME NEW v \in Workers PROVE Fits(v)'
    BY DEF WorkerHolds
  <2>1. Fits(v) /\ (v = w => packet[v].op = "new" /\ packet[v] # Nothing)
    BY <1>2, <1>3 DEF IInv, WorkerHolds
  <2> QED
    BY <1>2, <1>5, <2>1 DEF Fits, Sound
<1>8. Connecting'
  <2> SUFFICES ASSUME NEW d \in Clients
               PROVE  /\ Single(port, packet, d, News)
                      /\ client[d] = "out" => context'[d] = None /\ Absent(port, packet, d, News)
                      /\ client[d] # "gone" => end[d] = "open"
                      /\ \A i \in 1..Len(port) : At(port[i], d, News) => context'[d] = None
                      /\ \A v \in Workers : At(packet[v], d, News) /\ pc'[v] = "taken" => context'[d] = None
                      /\ context'[d] = None =>
                           /\ recvs'[d] = 0 /\ answers[d] = <<>>
                           /\ end[d] # "reset" => wire[d] = [k \in 1..sent[d] |-> k]
    BY <1>2 DEF Connecting
  <2>1. /\ Single(port, packet, d, News)
        /\ client[d] = "out" => context[d] = None /\ Absent(port, packet, d, News)
        /\ client[d] # "gone" => end[d] = "open"
        /\ \A i \in 1..Len(port) : At(port[i], d, News) => context[d] = None
        /\ \A v \in Workers : At(packet[v], d, News) /\ pc[v] = "taken" => context[d] = None
        /\ context[d] = None =>
             /\ recvs[d] = 0 /\ answers[d] = <<>>
             /\ end[d] # "reset" => wire[d] = [k \in 1..sent[d] |-> k]
    BY DEF IInv, Connecting
  <2> QED
    BY <1>3, <1>4, <1>5, <2>1
<1>9. \A y \in Contexts \ {g} : AtRest(y) => AtRest(y)'
  BY <1>2, <1>5 DEF AtRest, Dirty
<1>10. Owned'
  <2>1. ASSUME NEW y \in Contexts
        PROVE  /\ socket'[y] # None => context'[socket'[y]] = y
               /\ socket'[y] = None => AtRest(y)' /\ \A d \in Clients : context'[d] # y
    <3>1. CASE y = g
      BY <1>3, <1>5, <3>1
    <3>2. CASE y # g
      <4>1. /\ socket'[y] = socket[y] /\ y # None /\ socket[y] \in Clients \cup {None}
            /\ socket[y] # None => context[socket[y]] = y
            /\ socket[y] = None => AtRest(y) /\ \A d \in Clients : context[d] # y
        BY <1>5, <3>2, NameFacts DEF IInv, Owned, TypeOK
      <4> QED
        BY <1>3, <1>5, <1>9, <3>2, <4>1
    <3> QED
      BY <3>1, <3>2
  <2>2. \A i \in 1..Len(pool') : socket'[pool'[i]] # None
    <3>1. \A i \in 1..Len(pool) : pool[i] \in Contexts /\ socket[pool[i]] # None
      BY ElementOfSeq DEF IInv, TypeOK, Owned
    <3> QED
      BY <1>3, <1>4, <1>5, <3>1
  <2> QED
    BY <2>1, <2>2 DEF Owned
<1>11. SoundOrderly'
  <2> SUFFICES ASSUME NEW y \in Contexts, Sound(y) PROVE Orderly(y)'
    BY <1>2 DEF SoundOrderly, Sound
  <2>1. Orderly(y) /\ y # None
    BY NameFacts DEF IInv, SoundOrderly
  <2>2. ASSUME NEW d \in Clients, context'[d] = y, recvs'[d] > 0
        PROVE  recvs'[d] = 1 /\ socket'[y] = d /\ Absent(port, packet, y, Receives)
    <3>1. CASE d = c
      <4>1. y = g /\ recvs'[d] = 1 /\ socket'[y] = d
        BY <1>4, <1>5, <2>2, <3>1
      <4>2. Absent(port, packet, y, Receives)
        BY <1>4, <4>1, RestIsAbsent DEF IInv
      <4> QED
        BY <4>1, <4>2
    <3>2. CASE d # c
      <4>1. context[d] = y /\ recvs[d] > 0 /\ recvs'[d] = recvs[d]
        BY <1>5, <2>2, <3>2
      <4>2. y # g
        BY <1>4, <4>1 DEF AtRest
      <4> QED
        BY <1>5, <2>1, <4>1, <4>2 DEF Orderly, OneReceive
    <3> QED
      BY <3>1, <3>2
  <2>3. OneReceive(y)' /\ OneSend(y)'
    BY <1>2, <2>1, <2>2 DEF Orderly, OneReceive, OneSend
  <2>4. Buffered(y)'
    BY <1>2, <1>5, <2>1 DEF Orderly, Buffered
  <2> QED
    BY <2>3, <2>4 DEF Orderly
<1>12. SoundPooled'
  <2> SUFFICES ASSUME NEW i \in 1..Len(pool'), NEW y, y = pool'[i], Sound(y)
               PROVE  AtRest(y)' /\ \A j \in 1..Len(pool') : pool'[j] = y => j = i
    BY <1>2 DEF SoundPooled, Sound
  <2>1. y \in Contexts /\ y # g
    BY <1>4, ElementOfSeq
  <2>2. AtRest(y) /\ \A j \in 1..Len(pool) : pool[j] = y => j = i
    BY <1>4 DEF IInv, SoundPooled
  <2> QED
    BY <1>4, <1>9, <2>1, <2>2
<1>13. SoundServed'
  <2> SUFFICES ASSUME NEW y \in Contexts PROVE SoundInOrder(y)'
    BY DEF SoundServed
  <2>1. Announces(y)' <=> Announces(y)
    BY <1>2, <1>5 DEF Announces
  <2>2. Announced(y)' = Announced(y)
    BY <1>2, <2>1 DEF Announced
  <2>3. SoundInOrder(y)
    BY DEF IInv, SoundServed
  <2>4. CASE y # g
    <3>1. socket'[y] = socket[y]
      BY <1>5, <2>4
    <3>2. UNCHANGED <<end, unheard, answers, pendingData, wire, sent, tainted>>
      BY <1>2
    <3> QED
      BY <2>2, <2>3, <3>1, <3>2 DEF SoundInOrder, Sound
  <2>5. CASE y = g
    <3> SUFFICES ASSUME Sound(g), end[c] # "reset"
                 PROVE  answers[c] \o pendingData[g] \o Announced(g) \o wire[c] = [k \in 1..sent[c] |-> k]
      BY <1>2, <1>5, <2>2, <2>5 DEF SoundInOrder, Sound
    <3>1. AtRest(g)
      BY <1>4
    <3>2. pendingData[g] = <<>> /\ Announced(g) = <<>>
      BY <3>1 DEF AtRest, Dirty, Announced, Announces
    <3>3. answers[c] = <<>> /\ wire[c] = [k \in 1..sent[c] |-> k]
      BY <1>3 DEF IInv, Connecting
    <3>4. PICK s \in Seq(1..MaxMessages) : s = wire[c]
      BY <1>3 DEF IInv, TypeOK, Stream
    <3>5. <<>> \o <<>> = <<>>
      BY EmptySeq, ConcatEmptySeq
    <3>6. <<>> \o s = s
      BY ConcatEmptySeq
    <3> QED
      BY <3>2, <3>3, <3>4, <3>5, <3>6, Zenon
  <2> QED
    BY <2>4, <2>5
<1> QED
  BY <1>6, <1>7, <1>8, <1>10, <1>11, <1>12, <1>13 DEF IInv

(* bind: the worker is done with the connection.                            *)
LEMMA bindIInv ==
  ASSUME IInv, NEW w \in Workers, bind(w)
  PROVE  IInv'
<1>1. /\ pc[w] = "bind"
      /\ bound' = [bound EXCEPT ![packet[w].of] = (handle[packet[w].of] = "open")]
      /\ pc' = [pc EXCEPT ![w] = "wait"] /\ packet' = [packet EXCEPT ![w] = Nothing]
      /\ UNCHANGED <<handle, recvs, port, socket, sendQueue, sending, pendingData, buffer, pool, inUse,
                     activeClients, process, answers, tainted, client, sent, wire, end, context, unheard,
                     patient>>
  BY DEF bind, Done, workerUnchanged, peers, fields
<1>2. packet[w].op = "new" /\ packet[w].of \in Clients
  <2>1. packet[w].op = "new"
    BY <1>1 DEF IInv, WorkerHolds, Fits
  <2> QED
    BY <2>1, NewFacts
<1>3. TypeOK'
  BY <1>1, <1>2 DEF IInv, TypeOK
<1>4. \A v \in Workers : \/ v # w /\ packet'[v] = packet[v] /\ pc'[v] = pc[v]
                         \/ v = w /\ packet'[v] = Nothing /\ pc'[v] = "wait"
  BY <1>1 DEF IInv, TypeOK
<1>5. \A y, O : y # None => /\ Single(port, packet, y, O) => Single(port, packet', y, O)
                            /\ Absent(port, packet, y, O) => Absent(port, packet', y, O)
  BY <1>1, Finished DEF IInv, TypeOK
<1>6. WorkerHolds'
  <2> SUFFICES ASSUME NEW v \in Workers PROVE Fits(v)'
    BY DEF WorkerHolds
  <2>1. CASE v # w
    BY <1>1, <1>4, <2>1 DEF Fits, Sound, IInv, WorkerHolds
  <2>2. CASE v = w
    BY <1>4, <2>2 DEF Fits, Nothing
  <2> QED
    BY <2>1, <2>2
<1>7. Connecting'
  <2> SUFFICES ASSUME NEW d \in Clients
               PROVE  /\ Single(port, packet', d, News)
                      /\ client[d] = "out" => context[d] = None /\ Absent(port, packet', d, News)
                      /\ client[d] # "gone" => end[d] = "open"
                      /\ \A i \in 1..Len(port) : At(port[i], d, News) => context[d] = None
                      /\ \A v \in Workers : At(packet'[v], d, News) /\ pc'[v] = "taken" => context[d] = None
                      /\ context[d] = None =>
                           /\ recvs[d] = 0 /\ answers[d] = <<>>
                           /\ end[d] # "reset" => wire[d] = [k \in 1..sent[d] |-> k]
    BY <1>1 DEF Connecting
  <2>1. /\ Single(port, packet, d, News)
        /\ client[d] = "out" => context[d] = None /\ Absent(port, packet, d, News)
        /\ client[d] # "gone" => end[d] = "open"
        /\ \A i \in 1..Len(port) : At(port[i], d, News) => context[d] = None
        /\ \A v \in Workers : At(packet[v], d, News) /\ pc[v] = "taken" => context[d] = None
        /\ context[d] = None =>
             /\ recvs[d] = 0 /\ answers[d] = <<>>
             /\ end[d] # "reset" => wire[d] = [k \in 1..sent[d] |-> k]
    BY DEF IInv, Connecting
  <2>2. \A v \in Workers : At(packet'[v], d, News) /\ pc'[v] = "taken" => context[d] = None
    BY <1>4, <2>1
  <2> QED
    BY <1>5, <2>1, <2>2, NameFacts
<1>8. \A y \in Contexts : AtRest(y) => AtRest(y)'
  <2>1. \A y \in Contexts : Nothing.of # y
    BY NameFacts DEF Nothing
  <2> QED
    BY <1>1, <1>4, <2>1 DEF AtRest, Dirty
<1>9. Owned'
  BY <1>1, <1>8 DEF IInv, Owned
<1>10. SoundOrderly'
  <2> SUFFICES ASSUME NEW y \in Contexts, Sound(y) PROVE Orderly(y)'
    BY <1>1 DEF SoundOrderly, Sound
  <2>1. Orderly(y) /\ y # None
    BY NameFacts DEF IInv, SoundOrderly
  <2>2. OneReceive(y)' /\ OneSend(y)'
    BY <1>1, <1>5, <2>1 DEF Orderly, OneReceive, OneSend
  <2>3. Buffered(y)'
    BY <1>1, <1>4, <2>1 DEF Orderly, Buffered
  <2> QED
    BY <2>2, <2>3 DEF Orderly
<1>11. SoundPooled'
  <2>1. \A i \in 1..Len(pool) : pool[i] \in Contexts
    BY ElementOfSeq DEF IInv, TypeOK
  <2> QED
    BY <1>1, <1>8, <2>1 DEF IInv, SoundPooled, Sound
<1>12. SoundServed'
  <2> SUFFICES ASSUME NEW y \in Contexts PROVE SoundInOrder(y)'
    BY DEF SoundServed
  <2>1. Announces(y)' <=> Announces(y)
    <3>1. \A v \in Workers : (packet'[v].op = "recv" /\ pc'[v] \in {"taken", "received"} => v # w)
                             /\ (packet[v].op = "recv" => v # w)
      BY <1>2, <1>4
    <3>2. \A v \in Workers :
            (/\ packet'[v].op = "recv" /\ packet'[v].of = y /\ packet'[v].n > 0
             /\ pc'[v] \in {"taken", "received"})
            <=> (/\ packet[v].op = "recv" /\ packet[v].of = y /\ packet[v].n > 0
                 /\ pc[v] \in {"taken", "received"})
      BY <1>4, <3>1
    <3> QED
      BY <1>1, <3>2 DEF Announces
  <2>2. Announced(y)' = Announced(y)
    BY <1>1, <2>1 DEF Announced
  <2>3. SoundInOrder(y)
    BY DEF IInv, SoundServed
  <2> QED
    BY <1>1, <2>2, <2>3 DEF SoundInOrder, Sound
<1> QED
  BY <1>3, <1>6, <1>7, <1>9, <1>10, <1>11, <1>12 DEF IInv

(* accept: a connection nobody has heard of yet is announced.               *)
LEMMA acceptIInv ==
  ASSUME IInv, NEW c \in Clients, accept(c)
  PROVE  IInv'
<1>1. PICK m : m = Packet("new", c, 0)
  OBVIOUS
<1>2. /\ client[c] = "out" /\ client' = [client EXCEPT ![c] = "connected"]
      /\ handle' = [handle EXCEPT ![c] = "open"] /\ port' = Append(port, m)
      /\ UNCHANGED <<sent, wire, end, context, bound, recvs, socket, sendQueue, sending, pendingData,
                     buffer, pool, inUse, pc, packet, activeClients, process, answers, tainted, unheard,
                     patient>>
  BY <1>1 DEF accept, watched, fields
<1>3. /\ m \in Packets /\ m.op = "new" /\ m.of = c /\ c # None /\ c \notin Contexts
      /\ port \in Seq(Packets) /\ Len(port) \in Nat
  BY <1>1, NewPackets, NameFacts, LenProperties DEF Packet, IInv, TypeOK
<1>4. TypeOK'
  <2>1. port' \in Seq(Packets)
    BY <1>2, <1>3, AppendProperties
  <2> QED
    BY <1>2, <2>1 DEF IInv, TypeOK
<1>5. \A y, O : /\ Single(port, packet, y, O) /\ (At(m, y, O) => Absent(port, packet, y, O)) =>
                     Single(port', packet, y, O)
                /\ Absent(port, packet, y, O) /\ ~At(m, y, O) => Absent(port', packet, y, O)
  BY <1>2, <1>3, Queued
<1>6. /\ \A i \in 1..Len(port') : \/ i \in 1..Len(port) /\ port'[i] = port[i]
                                  \/ port'[i] = m
      /\ \A i \in 1..Len(port) : i \in 1..Len(port') /\ port'[i] = port[i]
  BY <1>2, <1>3
<1>7. WorkerHolds'
  BY <1>2 DEF IInv, WorkerHolds, Fits, Sound
<1>8. Connecting'
  <2> SUFFICES ASSUME NEW d \in Clients
               PROVE  /\ Single(port', packet, d, News)
                      /\ client'[d] = "out" => context[d] = None /\ Absent(port', packet, d, News)
                      /\ client'[d] # "gone" => end[d] = "open"
                      /\ \A i \in 1..Len(port') : At(port'[i], d, News) => context[d] = None
                      /\ \A v \in Workers : At(packet[v], d, News) /\ pc[v] = "taken" => context[d] = None
                      /\ context[d] = None =>
                           /\ recvs[d] = 0 /\ answers[d] = <<>>
                           /\ end[d] # "reset" => wire[d] = [k \in 1..sent[d] |-> k]
    BY <1>2 DEF Connecting
  <2>1. /\ Single(port, packet, d, News)
        /\ client[d] = "out" => context[d] = None /\ Absent(port, packet, d, News)
        /\ client[d] # "gone" => end[d] = "open"
        /\ \A i \in 1..Len(port) : At(port[i], d, News) => context[d] = None
        /\ \A v \in Workers : At(packet[v], d, News) /\ pc[v] = "taken" => context[d] = None
        /\ context[d] = None =>
             /\ recvs[d] = 0 /\ answers[d] = <<>>
             /\ end[d] # "reset" => wire[d] = [k \in 1..sent[d] |-> k]
    BY DEF IInv, Connecting
  <2>2. client'[d] = IF d = c THEN "connected" ELSE client[d]
    BY <1>2 DEF IInv, TypeOK
  <2>3. At(m, d, News) => d = c
    BY <1>3 DEF At
  <2>4. Single(port', packet, d, News) /\ (client'[d] = "out" => Absent(port', packet, d, News))
    BY <1>2, <1>5, <2>1, <2>2, <2>3
  <2>5. \A i \in 1..Len(port') : At(port'[i], d, News) => context[d] = None
    BY <1>2, <1>6, <2>1, <2>3
  <2> QED
    BY <1>2, <2>1, <2>2, <2>4, <2>5
<1>9. \A y \in Contexts : AtRest(y) => AtRest(y)'
  <2> SUFFICES ASSUME NEW y \in Contexts, AtRest(y) PROVE AtRest(y)'
    OBVIOUS
  <2>1. \A i \in 1..Len(port') : port'[i].of # y
    BY <1>3, <1>6 DEF AtRest
  <2> QED
    BY <1>2, <2>1 DEF AtRest, Dirty
<1>10. Owned'
  BY <1>2, <1>9 DEF IInv, Owned
<1>11. SoundOrderly'
  <2> SUFFICES ASSUME NEW y \in Contexts, Sound(y) PROVE Orderly(y)'
    BY <1>2 DEF SoundOrderly, Sound
  <2>1. Orderly(y) /\ \A O : ~At(m, y, O)
    BY <1>3 DEF IInv, SoundOrderly, At
  <2>2. OneReceive(y)' /\ OneSend(y)'
    BY <1>2, <1>5, <2>1 DEF Orderly, OneReceive, OneSend
  <2>3. Buffered(y)'
    BY <1>2, <1>6, <2>1 DEF Orderly, Buffered
  <2> QED
    BY <2>2, <2>3 DEF Orderly
<1>12. SoundPooled'
  <2>1. \A i \in 1..Len(pool) : pool[i] \in Contexts
    BY ElementOfSeq DEF IInv, TypeOK
  <2> QED
    BY <1>2, <1>9, <2>1 DEF IInv, SoundPooled, Sound
<1>13. SoundServed'
  <2> SUFFICES ASSUME NEW y \in Contexts PROVE SoundInOrder(y)'
    BY DEF SoundServed
  <2>1. (\E i \in 1..Len(port') : port'[i].op = "recv" /\ port'[i].of = y /\ port'[i].n > 0)
        <=> (\E i \in 1..Len(port) : port[i].op = "recv" /\ port[i].of = y /\ port[i].n > 0)
    BY <1>3, <1>6
  <2>2. Announces(y)' <=> Announces(y)
    BY <1>2, <2>1 DEF Announces
  <2>3. Announced(y)' = Announced(y)
    BY <1>2, <2>2 DEF Announced
  <2>4. SoundInOrder(y)
    BY DEF IInv, SoundServed
  <2> QED
    BY <1>2, <2>3, <2>4 DEF SoundInOrder, Sound
<1> QED
  BY <1>4, <1>7, <1>8, <1>10, <1>11, <1>12, <1>13 DEF IInv

(* What a step that leaves the contexts and the completions alone keeps.     *)
LEMMA ContextsKept ==
  ASSUME IInv, UNCHANGED <<context, recvs, port, fields, pool, inUse, pc, packet, tainted>>
  PROVE  /\ WorkerHolds' /\ Owned' /\ SoundOrderly' /\ SoundPooled'
         /\ \A x : Announced(x)' = Announced(x)
<1>1. UNCHANGED <<context, recvs, port, socket, sendQueue, sending, pendingData, buffer, pool, inUse, pc,
                  packet, tainted>>
  BY DEF fields
<1>2. WorkerHolds'
  BY <1>1 DEF IInv, WorkerHolds, Fits, Sound
<1>3. \A y : AtRest(y)' <=> AtRest(y)
  BY <1>1 DEF AtRest, Dirty
<1>4. Owned'
  BY <1>1, <1>3 DEF IInv, Owned
<1>5. SoundOrderly'
  BY <1>1 DEF IInv, SoundOrderly, Sound, Orderly, OneReceive, OneSend, Buffered
<1>6. SoundPooled'
  BY <1>1, <1>3 DEF IInv, SoundPooled, Sound
<1>7. \A x : Announced(x)' = Announced(x)
  BY <1>1 DEF Announced, Announces
<1> QED
  BY <1>2, <1>4, <1>5, <1>6, <1>7

(* The stream of a connection when one more message is sent.                *)
LEMMA CountOn ==
  ASSUME NEW n \in Nat
  PROVE  Append([k \in 1..n |-> k], n + 1) = [k \in 1..(n + 1) |-> k]
<1> DEFINE s == [k \in 1..n |-> k]
           t == [k \in 1..(n + 1) |-> k]
<1>1. s \in Seq(Nat) /\ Len(s) = n /\ t \in Seq(Nat) /\ Len(t) = n + 1
  OBVIOUS
<1>2. /\ Append(s, n + 1) \in Seq(Nat) /\ Len(Append(s, n + 1)) = n + 1
      /\ \A i \in 1..n : Append(s, n + 1)[i] = s[i]
      /\ Append(s, n + 1)[n + 1] = n + 1
  BY <1>1, AppendProperties
<1>3. \A i \in 1..(n + 1) : Append(s, n + 1)[i] = t[i]
  <2> TAKE i \in 1..(n + 1)
  <2>1. CASE i \in 1..n
    BY <1>2, <2>1
  <2>2. CASE i = n + 1
    BY <1>2, <2>2
  <2> QED
    BY <2>1, <2>2
<1> HIDE DEF s, t
<1>4. Append(s, n + 1) = t
  BY <1>1, <1>2, <1>3, SeqEqual
<1> QED
  BY <1>4 DEF s, t

LEMMA SentLast ==
  ASSUME NEW S, NEW s \in Seq(S), NEW t \in Seq(S), NEW e \in S
  PROVE  s \o Append(t, e) = Append(s \o t, e)
<1>1. <<e>> \in Seq(S) /\ Append(t, e) = t \o <<e>>
  BY AppendIsConcat
<1>2. s \o t \in Seq(S)
  BY ConcatProperties
<1>3. Append(s \o t, e) = (s \o t) \o <<e>>
  BY <1>2, AppendIsConcat
<1>4. s \o t \o <<e>> = s \o (t \o <<e>>)
  BY <1>1, ConcatAssociative
<1> QED
  BY <1>1, <1>3, <1>4

(* submit: the message is the last of those sent, wherever the others are.   *)
LEMMA submitIInv ==
  ASSUME IInv, NEW c \in Clients, submit(c)
  PROVE  IInv'
<1>1. /\ client[c] = "connected" /\ Cardinality(Messages) < MaxMessages
      /\ sent' = [sent EXCEPT ![c] = @ + 1]
      /\ wire' = [wire EXCEPT ![c] = Append(@, sent[c] + 1)]
      /\ UNCHANGED <<client, end, handle, context, bound, recvs, port, fields, pool, inUse, pc, packet,
                     activeClients, process, answers, tainted, unheard>>
      /\ patient' \in BOOLEAN
  BY DEF submit, serverUnchanged, sockets
<1>2. sent[c] \in Nat /\ sent[c] + 1 \in 1..MaxMessages
  BY <1>1, MessagesLeft DEF IInv, TypeOK
<1>3. wire[c] \in Seq(1..MaxMessages) /\ Append(wire[c], sent[c] + 1) \in Stream
  BY <1>2, AppendProperties DEF IInv, TypeOK, Stream
<1>4. /\ \A d \in Clients : sent'[d] = (IF d = c THEN sent[d] + 1 ELSE sent[d])
      /\ \A d \in Clients : wire'[d] = (IF d = c THEN Append(wire[d], sent[d] + 1) ELSE wire[d])
  BY <1>1 DEF IInv, TypeOK
<1>5. TypeOK'
  <2>1. sent' \in [Clients -> 0..MaxMessages]
    BY <1>1, <1>2 DEF IInv, TypeOK
  <2>2. wire' \in [Clients -> Stream]
    BY <1>1, <1>3 DEF IInv, TypeOK
  <2> QED
    BY <1>1, <2>1, <2>2 DEF IInv, TypeOK, fields
<1>6. /\ WorkerHolds' /\ Owned' /\ SoundOrderly' /\ SoundPooled'
      /\ \A x : Announced(x)' = Announced(x)
  BY <1>1, ContextsKept
<1>7. PICK n \in Nat : n = sent[c]
  BY <1>2
<1>8. Append([k \in 1..n |-> k], n + 1) = [k \in 1..(n + 1) |-> k]
  BY CountOn
<1>9. Connecting'
  <2>1. \A d \in Clients : context[d] = None =>
          /\ recvs[d] = 0 /\ answers[d] = <<>>
          /\ end[d] # "reset" => wire'[d] = [k \in 1..sent'[d] |-> k]
    <3> SUFFICES ASSUME NEW d \in Clients, context[d] = None
                 PROVE  /\ recvs[d] = 0 /\ answers[d] = <<>>
                        /\ end[d] # "reset" => wire'[d] = [k \in 1..sent'[d] |-> k]
      OBVIOUS
    <3>1. /\ recvs[d] = 0 /\ answers[d] = <<>>
          /\ end[d] # "reset" => wire[d] = [k \in 1..sent[d] |-> k]
      BY DEF IInv, Connecting
    <3>2. CASE d # c
      BY <1>4, <3>1, <3>2
    <3>3. CASE d = c
      BY <1>4, <1>7, <1>8, <3>1, <3>3
    <3> QED
      BY <3>2, <3>3
  <2> QED
    BY <1>1, <2>1 DEF IInv, Connecting
<1>10. SoundServed'
  <2> SUFFICES ASSUME NEW x \in Contexts PROVE SoundInOrder(x)'
    BY DEF SoundServed
  <2>1. SoundInOrder(x) /\ Announced(x)' = Announced(x)
    BY <1>6 DEF IInv, SoundServed
  <2> SUFFICES ASSUME NEW d \in Clients, Sound(x), socket[x] = d, end[d] # "reset", d \notin unheard
               PROVE  answers[d] \o pendingData[x] \o Announced(x) \o wire'[d] = [k \in 1..sent'[d] |-> k]
    BY <1>1, <2>1 DEF SoundInOrder, Sound, fields
  <2>2. answers[d] \o pendingData[x] \o Announced(x) \o wire[d] = [k \in 1..sent[d] |-> k]
    BY <2>1 DEF SoundInOrder
  <2>3. CASE d # c
    BY <1>4, <2>2, <2>3
  <2>4. CASE d = c
    <3>1. PICK a \in Stream, p \in Stream, b \in Stream :
            a = answers[c] /\ p = pendingData[x] /\ b = Announced(x)
      <4>1. buffer[x] \in Stream /\ <<>> \in Stream
        BY EmptySeq DEF IInv, TypeOK, Stream
      <4>2. Announced(x) \in Stream
        BY <4>1 DEF Announced
      <4>3. answers[c] \in Stream /\ pendingData[x] \in Stream
        BY DEF IInv, TypeOK
      <4> QED
        BY <4>2, <4>3
    <3>2. PICK s \in Seq(1..MaxMessages) : s = a \o p \o b
      BY ConcatProperties DEF Stream
    <3>3. s \o Append(wire[c], n + 1) = Append(s \o wire[c], n + 1)
      <4>1. PICK t \in Seq(1..MaxMessages), e \in 1..MaxMessages : t = wire[c] /\ e = n + 1
        BY <1>2, <1>3, <1>7
      <4>2. s \o Append(t, e) = Append(s \o t, e)
        BY SentLast
      <4> QED
        BY <4>1, <4>2, Zenon
    <3>4. wire'[c] = Append(wire[c], n + 1) /\ sent'[c] = n + 1
      BY <1>4, <1>7
    <3>5. s \o wire[c] = [k \in 1..n |-> k]
      BY <1>7, <2>2, <2>4, <3>1, <3>2, Zenon
    <3>6. s \o wire'[c] = [k \in 1..(n + 1) |-> k]
      BY <1>8, <3>3, <3>4, <3>5, Zenon
    <3> QED
      BY <2>4, <3>1, <3>2, <3>4, <3>6, Zenon
  <2> QED
    BY <2>3, <2>4
<1> QED
  BY <1>5, <1>6, <1>9, <1>10 DEF IInv

(* disconnect: a connection that is reset loses what was under way.          *)
LEMMA disconnectIInv ==
  ASSUME IInv, NEW c \in Clients, disconnect(c)
  PROVE  IInv'
<1>1. /\ client[c] = "connected" /\ client' = [client EXCEPT ![c] = "gone"]
      /\ \/ end' = [end EXCEPT ![c] = "fin"] /\ wire' = wire
         \/ end' = [end EXCEPT ![c] = "reset"] /\ wire' = [wire EXCEPT ![c] = <<>>]
      /\ UNCHANGED <<sent, handle, context, bound, recvs, port, fields, pool, inUse, pc, packet,
                     activeClients, process, answers, tainted, unheard>>
      /\ patient' \in BOOLEAN
  BY DEF disconnect, serverUnchanged, sockets
<1>2. <<>> \in Stream
  BY EmptySeq DEF Stream
<1>3. TypeOK'
  <2>1. end' \in [Clients -> {"open", "fin", "reset"}] /\ wire' \in [Clients -> Stream]
    BY <1>1, <1>2 DEF IInv, TypeOK
  <2> QED
    BY <1>1, <2>1 DEF IInv, TypeOK, fields
<1>4. /\ WorkerHolds' /\ Owned' /\ SoundOrderly' /\ SoundPooled'
      /\ \A x : Announced(x)' = Announced(x)
  BY <1>1, ContextsKept
<1>5. /\ \A d \in Clients : client'[d] = (IF d = c THEN "gone" ELSE client[d])
      /\ \A d \in Clients \ {c} : end'[d] = end[d] /\ wire'[d] = wire[d]
      /\ end'[c] # "reset" => wire'[c] = wire[c]
  BY <1>1 DEF IInv, TypeOK
<1>6. end[c] = "open"
  BY <1>1 DEF IInv, Connecting
<1>7. \A d \in Clients : end'[d] # "reset" => end[d] # "reset" /\ wire'[d] = wire[d]
  BY <1>5, <1>6
<1>8. Connecting'
  <2> SUFFICES ASSUME NEW d \in Clients
               PROVE  /\ Single(port, packet, d, News)
                      /\ client'[d] = "out" => context[d] = None /\ Absent(port, packet, d, News)
                      /\ client'[d] # "gone" => end'[d] = "open"
                      /\ \A i \in 1..Len(port) : At(port[i], d, News) => context[d] = None
                      /\ \A v \in Workers : At(packet[v], d, News) /\ pc[v] = "taken" => context[d] = None
                      /\ context[d] = None =>
                           /\ recvs[d] = 0 /\ answers[d] = <<>>
                           /\ end'[d] # "reset" => wire'[d] = [k \in 1..sent[d] |-> k]
    BY <1>1 DEF Connecting
  <2>1. /\ Single(port, packet, d, News)
        /\ client[d] = "out" => context[d] = None /\ Absent(port, packet, d, News)
        /\ client[d] # "gone" => end[d] = "open"
        /\ \A i \in 1..Len(port) : At(port[i], d, News) => context[d] = None
        /\ \A v \in Workers : At(packet[v], d, News) /\ pc[v] = "taken" => context[d] = None
        /\ context[d] = None =>
             /\ recvs[d] = 0 /\ answers[d] = <<>>
             /\ end[d] # "reset" => wire[d] = [k \in 1..sent[d] |-> k]
    BY DEF IInv, Connecting
  <2> QED
    BY <1>5, <1>7, <2>1
<1>9. SoundServed'
  <2> SUFFICES ASSUME NEW x \in Contexts PROVE SoundInOrder(x)'
    BY DEF SoundServed
  <2>1. SoundInOrder(x) /\ Announced(x)' = Announced(x)
    BY <1>4 DEF IInv, SoundServed
  <2> QED
    BY <1>1, <1>7, <2>1 DEF SoundInOrder, Sound, fields
<1> QED
  BY <1>3, <1>4, <1>8, <1>9 DEF IInv

(* check_client_timeouts: only the handle is closed.                        *)
LEMMA check_client_timeoutsIInv ==
  ASSUME IInv, NEW c \in Clients, check_client_timeouts(c)
  PROVE  IInv'
<1>1. /\ handle' = [handle EXCEPT ![c] = "closed"] /\ activeClients' = activeClients \ {c}
      /\ UNCHANGED <<client, sent, wire, end, context, bound, recvs, port, fields, pool, inUse, pc, packet,
                     process, answers, tainted, unheard>>
      /\ patient' \in BOOLEAN
  BY DEF check_client_timeouts, peers
<1>2. TypeOK'
  BY <1>1 DEF IInv, TypeOK, fields
<1>3. /\ WorkerHolds' /\ Owned' /\ SoundOrderly' /\ SoundPooled'
      /\ \A x : Announced(x)' = Announced(x)
  BY <1>1, ContextsKept
<1>4. Connecting'
  BY <1>1 DEF IInv, Connecting
<1>5. SoundServed'
  BY <1>1, <1>3 DEF IInv, SoundServed, SoundInOrder, Sound, fields
<1> QED
  BY <1>2, <1>3, <1>4, <1>5 DEF IInv

(* The stream of a connection when all that is under way is received.        *)
LEMMA MovedToBuffer ==
  ASSUME NEW S, NEW a \in Seq(S), NEW p \in Seq(S), NEW t \in Seq(S)
  PROVE  a \o p \o t \o <<>> = a \o p \o <<>> \o t
<1>1. PICK s \in Seq(S) : s = a \o p
  BY ConcatProperties
<1>2. s \o t \in Seq(S)
  BY ConcatProperties
<1>3. s \o t \o <<>> = s \o t
  BY <1>2, ConcatEmptySeq
<1>4. s \o <<>> = s
  BY ConcatEmptySeq
<1>5. s \o t \o <<>> = s \o <<>> \o t
  BY <1>3, <1>4, Zenon
<1> QED
  BY <1>1, <1>5, Zenon

(* recv_completes: what is received is announced, unless the socket is not   *)
(* bound yet.                                                               *)
LEMMA recv_completesIInv ==
  ASSUME IInv, NEW c \in Clients, recv_completes(c)
  PROVE  IInv'
<1> DEFINE Moves(m) == /\ end[c] # "reset" /\ wire[c] # <<>> /\ m.op = "recv" /\ m.n = Len(wire[c])
                       /\ buffer' = [buffer EXCEPT ![context[c]] = wire[c]]
                       /\ wire' = [wire EXCEPT ![c] = <<>>]
           Stays(m) == (m.op = "recv" => m.n = 0) /\ UNCHANGED <<buffer, wire>>
<1>1. PICK x : x = context[c]
  OBVIOUS
<1>2. /\ recvs[c] > 0 /\ recvs' = [recvs EXCEPT ![c] = @ - 1]
      /\ unheard' = (IF bound[c] THEN unheard ELSE unheard \cup {c})
      /\ UNCHANGED <<client, sent, end, handle, context, bound, socket, sendQueue, sending, pendingData,
                     pool, inUse, pc, packet, activeClients, process, answers, tainted, patient>>
  BY DEF recv_completes
<1>3. x \in Contexts /\ x # None /\ x \notin Clients
  <2>1. context[c] = None => recvs[c] = 0
    BY DEF IInv, Connecting
  <2>2. context[c] # None
    BY <1>2, <2>1
  <2> QED
    BY <1>1, <2>2, NameFacts DEF IInv, TypeOK
<1>4. wire[c] \in Seq(1..MaxMessages) /\ Len(wire[c]) \in Nat /\ (wire[c] # <<>> => Len(wire[c]) > 0)
  <2>1. wire[c] \in Seq(1..MaxMessages)
    BY DEF IInv, TypeOK, Stream
  <2> QED
    BY <2>1, LenProperties, EmptySeq
<1>5. PICK m \in Packets : /\ m.of = x /\ m.op \in Receives
                           /\ port' = (IF bound[c] THEN Append(port, m) ELSE port)
                           /\ Moves(m) \/ Stays(m)
  <2> DEFINE Queues(m) == port' = IF bound[c] THEN Append(port, m) ELSE port
  <2>1. \/ Usable(c) /\ wire[c] # <<>> /\ Queues(Packet("recv", x, Len(wire[c])))
           /\ buffer' = [buffer EXCEPT ![x] = wire[c]] /\ wire' = [wire EXCEPT ![c] = <<>>]
        \/ Queues(Packet("recv", x, 0)) /\ UNCHANGED <<buffer, wire>>
        \/ Queues(Packet("failed", x, 0)) /\ UNCHANGED <<buffer, wire>>
    BY <1>1 DEF recv_completes
  <2>2. /\ Packet("recv", x, Len(wire[c])) \in Packets /\ Packet("recv", x, 0) \in Packets
        /\ Packet("failed", x, 0) \in Packets
    BY <1>3, <1>4, NewPackets
  <2> QED
    BY <1>1, <2>1, <2>2 DEF Packet, Usable, Receives
<1> HIDE DEF Moves, Stays
<1>6. port \in Seq(Packets) /\ Len(port) \in Nat /\ port' \in Seq(Packets)
  <2>1. port \in Seq(Packets)
    BY DEF IInv, TypeOK
  <2> QED
    BY <1>5, <2>1, LenProperties, AppendProperties
<1>7. \A d \in Clients : recvs[d] \in Nat /\ recvs'[d] = (IF d = c THEN recvs[d] - 1 ELSE recvs[d])
  BY <1>2 DEF IInv, TypeOK
<1>8. /\ \A d \in Clients \ {c} : wire'[d] = wire[d]
      /\ \A y \in Contexts \ {x} : buffer'[y] = buffer[y]
  BY <1>1, <1>5 DEF IInv, TypeOK, Moves, Stays
<1>9. TypeOK'
  <2>1. recvs' \in [Clients -> Nat]
    <3>1. recvs \in [Clients -> Nat]
      BY DEF IInv, TypeOK
    <3>2. recvs[c] - 1 \in Nat
      BY <1>2, <3>1
    <3> QED
      BY <1>2, <3>1, <3>2
  <2>2. buffer' \in [Contexts -> Stream] /\ wire' \in [Clients -> Stream]
    <3>1. <<>> \in Stream
      BY EmptySeq DEF Stream
    <3>2. buffer \in [Contexts -> Stream] /\ wire \in [Clients -> Stream] /\ wire[c] \in Stream
      BY DEF IInv, TypeOK
    <3>3. CASE Moves(m)
      BY <1>1, <1>3, <3>1, <3>2, <3>3 DEF Moves
    <3>4. CASE Stays(m)
      BY <3>2, <3>4 DEF Stays
    <3> QED
      BY <1>5, <3>3, <3>4
  <2>3. unheard' \subseteq Clients
    BY <1>2 DEF IInv, TypeOK
  <2> QED
    BY <1>2, <1>6, <2>1, <2>2, <2>3 DEF IInv, TypeOK
<1>10. \A y, O : /\ Single(port, packet, y, O) /\ (At(m, y, O) => Absent(port, packet, y, O)) =>
                      Single(port', packet, y, O)
                 /\ Absent(port, packet, y, O) /\ ~At(m, y, O) => Absent(port', packet, y, O)
  <2> SUFFICES ASSUME NEW y, NEW O
               PROVE  /\ Single(port, packet, y, O) /\ (At(m, y, O) => Absent(port, packet, y, O)) =>
                           Single(port', packet, y, O)
                      /\ Absent(port, packet, y, O) /\ ~At(m, y, O) => Absent(port', packet, y, O)
    OBVIOUS
  <2>1. /\ Single(port, packet, y, O) /\ (At(m, y, O) => Absent(port, packet, y, O)) =>
             Single(Append(port, m), packet, y, O)
        /\ Absent(port, packet, y, O) /\ ~At(m, y, O) => Absent(Append(port, m), packet, y, O)
    BY <1>6, Queued
  <2> QED
    BY <1>5, <2>1
<1>11. /\ \A i \in 1..Len(port') : \/ i \in 1..Len(port) /\ port'[i] = port[i]
                                   \/ port'[i] = m
       /\ \A i \in 1..Len(port) : i \in 1..Len(port') /\ port'[i] = port[i]
       /\ bound[c] => Len(port) + 1 \in 1..Len(port') /\ port'[Len(port) + 1] = m
  BY <1>5, <1>6
<1>12. WorkerHolds'
  BY <1>2 DEF IInv, WorkerHolds, Fits, Sound
<1>13. Connecting'
  <2> SUFFICES ASSUME NEW d \in Clients
               PROVE  /\ Single(port', packet, d, News)
                      /\ client[d] = "out" => context[d] = None /\ Absent(port', packet, d, News)
                      /\ client[d] # "gone" => end[d] = "open"
                      /\ \A i \in 1..Len(port') : At(port'[i], d, News) => context[d] = None
                      /\ \A v \in Workers : At(packet[v], d, News) /\ pc[v] = "taken" => context[d] = None
                      /\ context[d] = None =>
                           /\ recvs'[d] = 0 /\ answers[d] = <<>>
                           /\ end[d] # "reset" => wire'[d] = [k \in 1..sent[d] |-> k]
    BY <1>2 DEF Connecting
  <2>1. /\ Single(port, packet, d, News)
        /\ client[d] = "out" => context[d] = None /\ Absent(port, packet, d, News)
        /\ client[d] # "gone" => end[d] = "open"
        /\ \A i \in 1..Len(port) : At(port[i], d, News) => context[d] = None
        /\ \A v \in Workers : At(packet[v], d, News) /\ pc[v] = "taken" => context[d] = None
        /\ context[d] = None =>
             /\ recvs[d] = 0 /\ answers[d] = <<>>
             /\ end[d] # "reset" => wire[d] = [k \in 1..sent[d] |-> k]
    BY DEF IInv, Connecting
  <2>2. ~At(m, d, News)
    BY <1>5 DEF At, News, Receives
  <2>3. \A i \in 1..Len(port') : At(port'[i], d, News) => context[d] = None
    BY <1>11, <2>1, <2>2
  <2>4. context[d] = None => d # c
    BY <1>1, <1>3
  <2> QED
    BY <1>7, <1>8, <1>10, <2>1, <2>2, <2>3, <2>4
<1>14. \A y \in Contexts : AtRest(y) => AtRest(y)'
  <2> SUFFICES ASSUME NEW y \in Contexts, AtRest(y) PROVE AtRest(y)'
    OBVIOUS
  <2>1. y # x
    BY <1>1, <1>2 DEF AtRest
  <2>2. \A i \in 1..Len(port') : port'[i].of # y
    BY <1>5, <1>11, <2>1 DEF AtRest
  <2>3. \A d \in Clients : context[d] = y => recvs'[d] = 0
    BY <1>1, <1>7, <2>1 DEF AtRest
  <2> QED
    BY <1>2, <2>2, <2>3 DEF AtRest, Dirty
<1>15. Owned'
  BY <1>2, <1>14 DEF IInv, Owned
<1>16. SoundPooled'
  <2>1. \A i \in 1..Len(pool) : pool[i] \in Contexts
    BY ElementOfSeq DEF IInv, TypeOK
  <2> QED
    BY <1>2, <1>14, <2>1 DEF IInv, SoundPooled, Sound
<1>17. Sound(x) => /\ Orderly(x) /\ socket[x] = c /\ recvs[c] = 1 /\ Absent(port, packet, x, Receives)
                   /\ \A d \in Clients : context[d] = x => recvs'[d] = 0
  <2> SUFFICES ASSUME Sound(x)
               PROVE  /\ Orderly(x) /\ socket[x] = c /\ recvs[c] = 1 /\ Absent(port, packet, x, Receives)
                      /\ \A d \in Clients : context[d] = x => recvs'[d] = 0
    OBVIOUS
  <2>1. Orderly(x)
    BY <1>3 DEF IInv, SoundOrderly
  <2>2. \A d \in Clients : context[d] = x /\ recvs[d] > 0 =>
          recvs[d] = 1 /\ socket[x] = d /\ Absent(port, packet, x, Receives)
    BY <2>1 DEF Orderly, OneReceive
  <2>3. recvs[c] = 1 /\ socket[x] = c /\ Absent(port, packet, x, Receives)
    BY <1>1, <1>2, <2>2
  <2>4. \A d \in Clients : context[d] = x => recvs'[d] = 0
    BY <1>7, <2>2, <2>3
  <2> QED
    BY <2>1, <2>3, <2>4
<1>18. SoundOrderly'
  <2> SUFFICES ASSUME NEW y \in Contexts, Sound(y) PROVE Orderly(y)'
    BY <1>2 DEF SoundOrderly, Sound
  <2>1. Orderly(y) /\ y # None
    BY NameFacts DEF IInv, SoundOrderly
  <2>2. CASE y # x
    <3>1. \A O : ~At(m, y, O)
      BY <1>5, <2>2 DEF At
    <3>2. \A d \in Clients : context[d] = y => recvs'[d] = recvs[d]
      BY <1>1, <1>7, <2>2
    <3>3. OneReceive(y)' /\ OneSend(y)'
      BY <1>2, <1>10, <2>1, <3>1, <3>2 DEF Orderly, OneReceive, OneSend
    <3>4. Buffered(y)'
      BY <1>2, <1>8, <1>11, <2>1, <2>2, <3>1 DEF Orderly, Buffered
    <3> QED
      BY <3>3, <3>4 DEF Orderly
  <2>3. CASE y = x
    <3>1. /\ Absent(port, packet, x, Receives) /\ \A d \in Clients : context[d] = x => recvs'[d] = 0
          /\ Single(port, packet, x, Receives) /\ OneSend(x)
      BY <1>17, <2>1, <2>3 DEF Orderly, OneReceive
    <3>2. OneReceive(x)'
      <4>1. Single(port', packet, x, Receives)
        BY <1>10, <3>1
      <4> QED
        BY <1>2, <3>1, <4>1 DEF OneReceive
    <3>3. OneSend(x)'
      <4>1. ~At(m, x, Sends)
        BY <1>5 DEF At, Sends, Receives
      <4> QED
        BY <1>2, <1>10, <3>1, <4>1 DEF OneSend
    <3>4. Buffered(x)'
      <4>1. \A i \in 1..Len(port) : ~At(port[i], x, {"recv"})
        BY <3>1 DEF Absent, At, Receives
      <4>2. \A v \in Workers : ~At(packet[v], x, {"recv"})
        BY <3>1 DEF Absent, At, Receives
      <4>3. At(m, x, {"recv"}) /\ m.n > 0 => m.n = Len(buffer'[x])
        <5>1. CASE Moves(m)
          <6>1. buffer'[x] = wire[c]
            BY <1>1, <1>3, <5>1 DEF Moves, IInv, TypeOK
          <6> QED
            BY <5>1, <6>1 DEF Moves
        <5>2. CASE Stays(m)
          BY <5>2 DEF Stays, At
        <5> QED
          BY <1>5, <5>1, <5>2
      <4>4. \A i \in 1..Len(port') :
              At(port'[i], x, {"recv"}) /\ port'[i].n > 0 => port'[i].n = Len(buffer'[x])
        BY <1>11, <4>1, <4>3
      <4> QED
        BY <1>2, <4>2, <4>4 DEF Buffered
    <3> QED
      BY <2>3, <3>2, <3>3, <3>4 DEF Orderly
  <2> QED
    BY <2>2, <2>3
<1>19. SoundServed'
  <2> SUFFICES ASSUME NEW y \in Contexts, Sound(y) PROVE SoundInOrder(y)'
    BY <1>2 DEF SoundServed, SoundInOrder, Sound
  <2>1. SoundInOrder(y)
    BY DEF IInv, SoundServed
  <2>2. CASE y # x
    <3>1. (\E i \in 1..Len(port') : port'[i].op = "recv" /\ port'[i].of = y /\ port'[i].n > 0)
          <=> (\E i \in 1..Len(port) : port[i].op = "recv" /\ port[i].of = y /\ port[i].n > 0)
      BY <1>5, <1>11, <2>2
    <3>2. Announces(y)' <=> Announces(y)
      BY <1>2, <3>1 DEF Announces
    <3>3. Announced(y)' = Announced(y)
      BY <1>8, <2>2, <3>2 DEF Announced
    <3>4. \A d \in Clients : socket[y] = d => wire'[d] = wire[d]
      BY <1>1, <1>8, <2>2, NameFacts DEF IInv, Owned
    <3>5. \A d : d \notin unheard' => d \notin unheard
      BY <1>2
    <3> QED
      BY <1>2, <2>1, <3>3, <3>4, <3>5 DEF SoundInOrder, Sound
  <2>3. CASE y = x
    <3> SUFFICES ASSUME end[c] # "reset", c \notin unheard'
                 PROVE  answers[c] \o pendingData[x] \o Announced(x)' \o wire'[c] = [k \in 1..sent[c] |-> k]
      BY <1>2, <1>17, <2>3 DEF SoundInOrder, Sound
    <3>1. bound[c] /\ c \notin unheard
      BY <1>2
    <3>2. /\ \A i \in 1..Len(port) : ~(port[i].op = "recv" /\ port[i].of = x)
          /\ \A v \in Workers : ~(packet[v].op = "recv" /\ packet[v].of = x)
      BY <1>17, <2>3 DEF Absent, At, Receives
    <3>3. Announced(x) = <<>>
      BY <3>2 DEF Announced, Announces
    <3>4. answers[c] \o pendingData[x] \o <<>> \o wire[c] = [k \in 1..sent[c] |-> k]
      BY <1>17, <2>1, <2>3, <3>1, <3>3 DEF SoundInOrder
    <3>5. CASE Moves(m)
      <4>1. buffer'[x] = wire[c] /\ wire'[c] = <<>> /\ m.op = "recv" /\ m.n > 0
        BY <1>1, <1>3, <1>4, <3>5 DEF Moves, IInv, TypeOK
      <4>2. Announces(x)'
        BY <1>5, <1>11, <3>1, <4>1 DEF Announces
      <4>3. Announced(x)' = wire[c]
        BY <4>1, <4>2 DEF Announced
      <4>4. PICK a \in Seq(1..MaxMessages), p \in Seq(1..MaxMessages), t \in Seq(1..MaxMessages) :
              a = answers[c] /\ p = pendingData[x] /\ t = wire[c]
        BY <1>3, <1>4 DEF IInv, TypeOK, Stream
      <4>5. a \o p \o t \o <<>> = a \o p \o <<>> \o t
        BY MovedToBuffer
      <4> QED
        BY <3>4, <4>1, <4>3, <4>4, <4>5, Zenon
    <3>6. CASE Stays(m)
      <4>1. ~(\E i \in 1..Len(port') : port'[i].op = "recv" /\ port'[i].of = x /\ port'[i].n > 0)
        BY <1>11, <3>2, <3>6 DEF Stays
      <4>2. ~Announces(x)'
        BY <1>2, <3>2, <4>1 DEF Announces
      <4>3. Announced(x)' = <<>> /\ wire'[c] = wire[c]
        BY <3>6, <4>2 DEF Announced, Stays
      <4> QED
        BY <3>4, <4>3
    <3> QED
      BY <1>5, <3>5, <3>6
  <2> QED
    BY <2>2, <2>3
<1> QED
  BY <1>9, <1>12, <1>13, <1>15, <1>16, <1>18, <1>19 DEF IInv

(***************************************************************************)
(* The invariant holds                                                     *)
(***************************************************************************)

LEMMA InitIInv == Init => IInv
<1> SUFFICES ASSUME Init PROVE IInv
  OBVIOUS
<1>1. <<>> \in Stream /\ <<>> \in Seq(Packets) /\ <<>> \in Seq(Contexts) /\ Len(<<>>) = 0
  BY EmptySeq DEF Stream
<1>2. MaxPool \in Nat /\ MaxMessages \in Nat
  BY SizesAssumption
<1>3. TypeOK
  BY <1>1, <1>2 DEF Init, TypeOK
<1>4. WorkerHolds
  BY DEF Init, WorkerHolds, Fits, Nothing
<1>5. \A x, O : x # None => Absent(port, packet, x, O) /\ Single(port, packet, x, O)
  BY <1>1, NameFacts DEF Init, Absent, Single
<1>6. <<>> = [k \in 1..0 |-> k]
  OBVIOUS
<1>7. Connecting
  BY <1>1, <1>5, <1>6, NameFacts DEF Init, Connecting
<1>8. \A x \in Contexts : AtRest(x)
  BY <1>1, NameFacts DEF Init, AtRest, Dirty, Nothing
<1>9. Owned
  BY <1>1, <1>8, NameFacts DEF Init, Owned
<1>10. SoundOrderly
  <2> SUFFICES ASSUME NEW x \in Contexts PROVE Orderly(x)
    BY DEF SoundOrderly
  <2>1. OneReceive(x)
    BY <1>5, NameFacts DEF OneReceive, Init
  <2>2. OneSend(x)
    BY <1>1, <1>5, NameFacts DEF OneSend, Init
  <2>3. Buffered(x)
    BY <1>1, NameFacts DEF Buffered, Init
  <2> QED
    BY <2>1, <2>2, <2>3 DEF Orderly
<1>11. SoundPooled
  BY <1>1 DEF Init, SoundPooled
<1>12. SoundServed
  BY NameFacts DEF Init, SoundServed, SoundInOrder
<1> QED
  BY <1>3, <1>4, <1>7, <1>9, <1>10, <1>11, <1>12 DEF IInv

LEMMA StepIInv == IInv /\ [Next]_vars => IInv'
<1> SUFFICES ASSUME IInv, [Next]_vars PROVE IInv'
  OBVIOUS
<1>1. ASSUME NEW c \in Clients,
             accept(c) \/ submit(c) \/ disconnect(c) \/ recv_completes(c) \/ check_client_timeouts(c)
      PROVE  IInv'
  BY <1>1, acceptIInv, submitIInv, disconnectIInv, recv_completesIInv, check_client_timeoutsIInv
<1>2. ASSUME NEW w \in Workers, worker(w) PROVE IInv'
  BY <1>2, takeIInv, connectedIInv, bindIInv, disconnectedIInv, read_sendingIInv, send_doneIInv,
     send_done_emptyIInv, handle_client_ioIInv, post_sendIInv, post_recvIInv DEF worker
<1>3. CASE UNCHANGED vars
  <2>1. UNCHANGED <<client, sent, wire, end, handle, context, bound, recvs, port, fields, pool, inUse, pc,
                    packet, activeClients, process, answers, tainted, unheard, patient>>
    BY <1>3 DEF vars, peers, sockets, watched
  <2>2. /\ WorkerHolds' /\ Owned' /\ SoundOrderly' /\ SoundPooled'
        /\ \A x : Announced(x)' = Announced(x)
    BY <2>1, ContextsKept
  <2>3. TypeOK'
    BY <2>1 DEF IInv, TypeOK, fields
  <2>4. Connecting'
    BY <2>1 DEF IInv, Connecting
  <2>5. SoundServed'
    BY <2>1, <2>2 DEF IInv, SoundServed, SoundInOrder, Sound, fields
  <2> QED
    BY <2>2, <2>3, <2>4, <2>5 DEF IInv
<1> QED
  BY <1>1, <1>2, <1>3 DEF Next

(* Every state of the server satisfies the invariant about sound contexts.  *)
THEOREM Invariance == Safety => []IInv
BY InitIInv, StepIInv, PTL DEF Safety

(***************************************************************************)
(* Patient clients                                                         *)
(*                                                                         *)
(* IInv says what holds of a context as long as nothing has befallen it.    *)
(* Here: while the clients are patient, nothing does.                      *)
(***************************************************************************)

(* The server has closed the connection, or the client has.                 *)
Over(c) == client[c] = "gone" \/ handle[c] = "closed"

(* Nothing is under way for c in the context x, and everything is answered.  *)
Spent(c, x) ==
  /\ ~sending[x] /\ pendingData[x] = <<>> /\ ~Announces(x) /\ wire[c] = <<>>
  /\ answers[c] = [k \in 1..sent[c] |-> k]

(* At most one message of c is unanswered, and then no send is in flight.    *)
InTurn(c, x) ==
  /\ sent[c] <= Len(answers[c]) + 1
  /\ sent[c] # Len(answers[c]) => ~sending[x]

(* A completion says the client of x has gone.                              *)
EndTold(x) ==
  \/ \E i \in 1..Len(port) : port[i].op = "recv" /\ port[i].of = x /\ port[i].n = 0
  \/ \E w \in Workers : packet[w].op = "recv" /\ packet[w].of = x /\ packet[w].n = 0

(* A client speaks, closes and is timed out after its connection is bound.   *)
Greeted(c) ==
  /\ client[c] # "out" => handle[c] # "none"
  /\ ~bound[c] => sent[c] = 0 /\ client[c] # "gone" /\ handle[c] # "closed"
  /\ bound[c] => client[c] # "out" /\ Absent(port, packet, c, News)

(* The context x and the connection it serves.                              *)
Tended(x) ==
  /\ x \notin inUse => AtRest(x)
  /\ ~sending[x] => sendQueue[x] = <<>>
  /\ \A c \in Clients : socket[x] = c =>
       /\ InTurn(c, x)
       /\ Over(c) => Spent(c, x)
       /\ EndTold(x) => client[c] = "gone"

Peace == /\ tainted = {} /\ unheard = {}
         /\ \A c \in Clients : Greeted(c)
         /\ \A x \in Contexts : Tended(x)
Calm == patient => Peace

(* The lengths of four parts of a stream.                                   *)
LEMMA PartsOfStream ==
  ASSUME NEW S, NEW a \in Seq(S), NEW p \in Seq(S), NEW b \in Seq(S), NEW v \in Seq(S),
         NEW n \in Nat, a \o p \o b \o v = [k \in 1..n |-> k]
  PROVE  /\ Len(a) \in Nat /\ Len(a) <= n
         /\ p # <<>> \/ b # <<>> \/ v # <<>> => n # Len(a)
         /\ n = Len(a) => p = <<>> /\ b = <<>> /\ v = <<>> /\ a = [k \in 1..n |-> k]
<1>1. Len(a) \in Nat /\ Len(p) \in Nat /\ Len(b) \in Nat /\ Len(v) \in Nat
  BY LenProperties
<1>2. a \o p \in Seq(S) /\ Len(a \o p) = Len(a) + Len(p)
  BY ConcatProperties
<1>3. (a \o p) \o b \in Seq(S) /\ Len((a \o p) \o b) = Len(a) + Len(p) + Len(b)
  BY <1>2, ConcatProperties
<1>4. Len(((a \o p) \o b) \o v) = Len(a) + Len(p) + Len(b) + Len(v)
  BY <1>3, ConcatProperties
<1>5. Len([k \in 1..n |-> k]) = n
  OBVIOUS
<1>6. n = Len(a) + Len(p) + Len(b) + Len(v)
  BY <1>4, <1>5
<1>7. n = Len(a) => Len(p) = 0 /\ Len(b) = 0 /\ Len(v) = 0
  BY <1>1, <1>6
<1>8. Len(a) <= n
  BY <1>1, <1>6
<1>9. n = Len(a) => p = <<>> /\ b = <<>> /\ v = <<>>
  BY <1>7, EmptySeq
<1>10. a \o <<>> \o <<>> \o <<>> = a
  BY ConcatEmptySeq
<1> QED
  BY <1>1, <1>8, <1>9, <1>10

(* Nothing has befallen any context, so each is as IInv says.               *)
LEMMA PeaceFacts ==
  ASSUME IInv, Peace, NEW x \in Contexts
  PROVE  /\ Sound(x) /\ Orderly(x)
         /\ \A c \in Clients : socket[x] = c /\ end[c] # "reset" =>
              answers[c] \o pendingData[x] \o Announced(x) \o wire[c] = [k \in 1..sent[c] |-> k]
         /\ Announces(x) => Announced(x) # <<>>
<1>1. Sound(x) /\ Orderly(x)
  BY DEF IInv, Peace, Sound, SoundOrderly
<1>2. \A c \in Clients : socket[x] = c /\ end[c] # "reset" =>
        answers[c] \o pendingData[x] \o Announced(x) \o wire[c] = [k \in 1..sent[c] |-> k]
  BY <1>1 DEF IInv, Peace, SoundServed, SoundInOrder
<1>3. Announces(x) => Len(buffer[x]) > 0
  BY <1>1 DEF Orderly, Buffered, Announces, At
<1>4. Announces(x) => buffer[x] # <<>>
  BY <1>3, EmptySeq
<1> QED
  BY <1>1, <1>2, <1>4 DEF Announced

(* A message that is not yet answered keeps sends from being in flight; if   *)
(* all are answered, nothing is under way.                                  *)
LEMMA UnderWay ==
  ASSUME IInv, Peace, NEW x \in Contexts, NEW c \in Clients, socket[x] = c, end[c] # "reset"
  PROVE  /\ pendingData[x] # <<>> \/ Announces(x) \/ wire[c] # <<>> =>
              sent[c] # Len(answers[c]) /\ ~sending[x]
         /\ sent[c] = Len(answers[c]) /\ ~sending[x] => Spent(c, x)
         /\ Len(answers[c]) \in Nat /\ Len(answers[c]) <= sent[c] /\ sent[c] \in Nat
<1>1. /\ answers[c] \o pendingData[x] \o Announced(x) \o wire[c] = [k \in 1..sent[c] |-> k]
      /\ Announces(x) => Announced(x) # <<>>
  BY PeaceFacts
<1>2. /\ answers[c] \in Stream /\ pendingData[x] \in Stream /\ wire[c] \in Stream
      /\ buffer[x] \in Stream /\ sent[c] \in 0..MaxMessages /\ MaxMessages \in Nat
  BY SizesAssumption DEF IInv, TypeOK
<1>3. Announced(x) \in Stream /\ sent[c] \in Nat
  <2>1. <<>> \in Stream
    BY EmptySeq DEF Stream
  <2>2. Announced(x) \in Stream
    BY <1>2, <2>1 DEF Announced
  <2>3. sent[c] \in Nat
    BY <1>2
  <2> QED
    BY <2>2, <2>3
<1>4. /\ Len(answers[c]) \in Nat /\ Len(answers[c]) <= sent[c]
      /\ pendingData[x] # <<>> \/ Announced(x) # <<>> \/ wire[c] # <<>> => sent[c] # Len(answers[c])
      /\ sent[c] = Len(answers[c]) =>
           /\ pendingData[x] = <<>> /\ Announced(x) = <<>> /\ wire[c] = <<>>
           /\ answers[c] = [k \in 1..sent[c] |-> k]
  <2>1. PICK a, p, b, v, n : /\ a = answers[c] /\ p = pendingData[x] /\ b = Announced(x)
                             /\ v = wire[c] /\ n = sent[c]
    OBVIOUS
  <2>2. /\ a \in Seq(1..MaxMessages) /\ p \in Seq(1..MaxMessages) /\ b \in Seq(1..MaxMessages)
        /\ v \in Seq(1..MaxMessages) /\ n \in Nat
    BY <1>2, <1>3, <2>1 DEF Stream
  <2>3. a \o p \o b \o v = [k \in 1..n |-> k]
    BY <1>1, <2>1
  <2>4. /\ Len(a) \in Nat /\ Len(a) <= n
        /\ p # <<>> \/ b # <<>> \/ v # <<>> => n # Len(a)
        /\ n = Len(a) => p = <<>> /\ b = <<>> /\ v = <<>> /\ a = [k \in 1..n |-> k]
    BY <2>2, <2>3, PartsOfStream
  <2> QED
    BY <2>1, <2>4
<1>5. sent[c] # Len(answers[c]) => ~sending[x]
  BY DEF Peace, Tended, InTurn
<1> QED
  BY <1>1, <1>3, <1>4, <1>5 DEF Spent

(* A connection that has a context and is not over can be used.             *)
LEMMA NotOver ==
  ASSUME IInv, Peace, NEW c \in Clients, context[c] # None, ~Over(c)
  PROVE  Usable(c)
<1>1. client[c] # "out" /\ client[c] # "gone" /\ end[c] = "open"
  BY DEF Over, IInv, Connecting
<1>2. handle[c] \in {"none", "open", "closed"} /\ handle[c] # "none" /\ handle[c] # "closed"
  BY <1>1 DEF Over, Peace, Greeted, IInv, TypeOK
<1> QED
  BY <1>1, <1>2 DEF Usable

(* An action of a worker on its context announces nothing more.             *)
LEMMA AnnouncesLess ==
  ASSUME IInv, NEW w \in Workers, pc[w] # "wait", packet[w].op # "new",
         NEW x, x = packet[w].of, ActsOn(w, x), Mine(w)' => Mine(w)
  PROVE  \A y \in Contexts : (Announces(y)' => Announces(y)) /\ (EndTold(y)' => EndTold(y))
<1> SUFFICES ASSUME NEW y \in Contexts
             PROVE  (Announces(y)' => Announces(y)) /\ (EndTold(y)' => EndTold(y))
  OBVIOUS
<1>1. x \in Contexts /\ y # None
  BY HeldFacts, NameFacts DEF IInv
<1>2. /\ \A i \in 1..Len(port') : \/ i \in 1..Len(port) /\ port'[i] = port[i]
                                  \/ port'[i].op = "send" /\ port'[i].of = x
      /\ \A v \in Workers : \/ packet'[v] = packet[v] /\ v # w
                            \/ packet'[v] = packet[v] /\ v = w
                            \/ packet'[v] = Nothing /\ v = w
  BY <1>1, ElsewhereFacts DEF IInv
<1>3. \A v \in Workers \ {w} : pc'[v] = pc[v]
  BY DEF ActsOn
<1>4. \A v \in Workers : packet'[v].of = y => packet'[v] = packet[v]
  BY <1>1, <1>2 DEF Nothing
<1>5. \A v \in Workers :
        packet'[v].of = y /\ packet'[v].op = "recv" /\ packet'[v].n > 0 /\ pc'[v] \in {"taken", "received"} =>
          packet[v].of = y /\ packet[v].op = "recv" /\ packet[v].n > 0 /\ pc[v] \in {"taken", "received"}
  BY <1>3, <1>4 DEF Mine
<1>6. Announces(y)' => Announces(y)
  BY <1>2, <1>5 DEF Announces
<1>7. EndTold(y)' => EndTold(y)
  BY <1>2, <1>4 DEF EndTold
<1> QED
  BY <1>6, <1>7

(* What is left to show of an action on x that announces no more: that      *)
(* nothing befalls x, and that x is tended.                                 *)
LEMMA PeaceAfter ==
  ASSUME IInv, Peace, NEW w \in Workers, pc[w] # "wait", packet[w].op # "new",
         NEW x, x = packet[w].of, ActsOn(w, x), Mine(w)' => Mine(w),
         UNCHANGED <<handle, bound>>, tainted' = {},
         inUse' = inUse \/ (inUse' = inUse \ {x} /\ AtRest(x)'),
         NEW c, c = socket[x], Tended(x) =>
           /\ ~sending'[x] => sendQueue'[x] = <<>>
           /\ InTurn(c, x)'
           /\ Over(c) => Spent(c, x)'
  PROVE  Peace'
<1>1. x \in Contexts /\ c \in Clients /\ x # None /\ x \notin Clients /\ context[c] = x
  BY HeldFacts, NameFacts DEF IInv
<1>2. /\ UNCHANGED <<client, sent, wire, end, context, socket, unheard>>
      /\ \A y \in Contexts \ {x} : /\ sendQueue'[y] = sendQueue[y] /\ sending'[y] = sending[y]
                                   /\ pendingData'[y] = pendingData[y]
      /\ \A d \in Clients : d # c => answers'[d] = answers[d]
  BY DEF ActsOn, peers
<1>3. /\ \A y \in Contexts : (Announces(y)' => Announces(y)) /\ (EndTold(y)' => EndTold(y))
      /\ \A y \in Contexts \ {x} : AtRest(y) => AtRest(y)'
  BY AnnouncesLess, Elsewhere
<1>4. \A d \in Clients : Over(d)' <=> Over(d)
  BY <1>2 DEF Over
<1>5. ASSUME NEW d \in Clients PROVE Greeted(d)'
  <2>1. Greeted(d) /\ d # None /\ d # x
    BY <1>1, NameFacts DEF Peace
  <2>2. Absent(port, packet, d, News) => Absent(port', packet', d, News)
    BY <1>1, <2>1, ElsewhereFacts DEF IInv
  <2> QED
    BY <1>2, <2>1, <2>2 DEF Greeted
<1>6. ASSUME NEW y \in Contexts \ {x} PROVE Tended(y)'
  <2>1. Tended(y)
    BY DEF Peace
  <2>2. y \notin inUse' => AtRest(y)'
    BY <1>3, <2>1 DEF Tended
  <2>3. ASSUME NEW d \in Clients, socket[y] = d
        PROVE  InTurn(d, y)' /\ (Over(d) => Spent(d, y)') /\ (EndTold(y)' => client[d] = "gone")
    <3>1. d # c
      BY <1>1, <2>3, NameFacts DEF IInv, Owned
    <3>2. answers'[d] = answers[d] /\ sending'[y] = sending[y] /\ pendingData'[y] = pendingData[y]
      BY <1>2, <3>1
    <3>3. InTurn(d, y) /\ (Over(d) => Spent(d, y)) /\ (EndTold(y) => client[d] = "gone")
      BY <2>1, <2>3 DEF Tended
    <3>4. InTurn(d, y)'
      BY <1>2, <3>2, <3>3 DEF InTurn
    <3>5. Over(d) => Spent(d, y)'
      BY <1>2, <1>3, <3>2, <3>3 DEF Spent
    <3> QED
      BY <1>3, <3>3, <3>4, <3>5
  <2> QED
    BY <1>2, <1>4, <2>1, <2>2, <2>3 DEF Tended
<1>7. Tended(x)'
  <2>1. Tended(x)
    BY <1>1 DEF Peace
  <2>2. x \in inUse
    BY <1>1, <2>1 DEF Tended, AtRest
  <2>3. EndTold(x)' => client[c] = "gone"
    BY <1>1, <1>3, <2>1 DEF Tended
  <2> QED
    BY <1>1, <1>2, <1>4, <2>1, <2>2, <2>3 DEF Tended
<1> QED
  BY <1>2, <1>5, <1>6, <1>7 DEF Peace

(* What a worker with a completion finds: a context in use, and if it is a   *)
(* receive with messages, no send in flight and a connection not over.      *)
LEMMA Finds ==
  ASSUME IInv, Peace, NEW w \in Workers, pc[w] # "wait", packet[w].op # "new",
         NEW x, x = packet[w].of, NEW c, c = socket[x]
  PROVE  /\ x \in Contexts /\ c \in Clients /\ context[c] = x /\ x \in inUse
         /\ Sound(x) /\ Tended(x) /\ InTurn(c, x) /\ (Over(c) => Spent(c, x))
         /\ packet[w].op \in {"recv", "send"} /\ Fits(w)
         /\ Mine(w) => ~Over(c) /\ ~sending[x]
         /\ packet[w].op = "recv" /\ packet[w].n = 0 => client[c] = "gone"
<1>1. x \in Contexts /\ c \in Clients /\ context[c] = x /\ packet[w].op \in {"recv", "send"} /\ Fits(w)
  BY HeldFacts DEF IInv, WorkerHolds
<1>2. Sound(x) /\ Tended(x)
  BY <1>1, PeaceFacts DEF Peace
<1>3. x \in inUse
  BY <1>2 DEF Tended, AtRest
<1>4. InTurn(c, x) /\ (Over(c) => Spent(c, x)) /\ (EndTold(x) => client[c] = "gone")
  BY <1>1, <1>2 DEF Tended
<1>5. packet[w].op = "recv" /\ packet[w].n = 0 => EndTold(x)
  BY DEF EndTold
<1>6. Mine(w) => Announces(x)
  BY DEF Mine, Announces
<1>7. Mine(w) => ~Over(c)
  BY <1>4, <1>6 DEF Spent
<1>8. ~Over(c) => end[c] # "reset"
  BY <1>1 DEF Over, IInv, Connecting
<1>9. Mine(w) => ~sending[x]
  BY <1>1, <1>6, <1>7, <1>8, UnderWay
<1> QED
  BY <1>1, <1>2, <1>3, <1>4, <1>5, <1>7, <1>9

(* release() of a context in use with nothing left in it taints nothing.    *)
LEMMA ReleasesCleanly ==
  ASSUME Peace, NEW x \in Contexts, x \in inUse, ~sending[x], pendingData[x] = <<>>, release(x)
  PROVE  ~Dirty(x) /\ tainted' = {} /\ inUse' = inUse \ {x}
<1>1. tainted = {} /\ ~Dirty(x)
  BY DEF Peace, Tended, Dirty
<1> QED
  BY <1>1 DEF release

(* disconnected: the client has gone, and went when all was answered.       *)
LEMMA disconnectedPeace ==
  ASSUME IInv, TypeOK', Peace, NEW w \in Workers, disconnected(w)
  PROVE  Peace'
<1>1. PICK x, c : x = packet[w].of /\ c = socket[x]
  OBVIOUS
<1>2. /\ pc[w] = "taken" /\ packet[w].op = "recv" /\ packet[w].n = 0 /\ release(x)
      /\ pc' = [pc EXCEPT ![w] = "wait"] /\ packet' = [packet EXCEPT ![w] = Nothing]
      /\ UNCHANGED <<handle, bound, recvs, port, socket, sendQueue, sending, pendingData, buffer,
                     answers, client, sent, wire, end, context, unheard, patient>>
  BY <1>1 DEF disconnected, Done, workerUnchanged, fields, peers
<1>3. /\ x \in Contexts /\ c \in Clients /\ x \in inUse /\ Sound(x) /\ Tended(x) /\ InTurn(c, x)
      /\ Over(c) => Spent(c, x)
      /\ client[c] = "gone"
  BY <1>1, <1>2, Finds
<1>4. Over(c) /\ Spent(c, x)
  BY <1>3 DEF Over
<1>5. ~Dirty(x) /\ tainted' = {} /\ inUse' = inUse \ {x}
  BY <1>2, <1>3, <1>4, ReleasesCleanly DEF Spent
<1>6. AtRest(x)'
  BY <1>1, <1>2, <1>3, <1>5, RestsAfter
<1>7. pc'[w] = "wait" /\ \A v \in Workers \ {w} : pc'[v] = pc[v] /\ packet'[v] = packet[v]
  BY <1>2 DEF IInv, TypeOK
<1>8. pool' \in {pool, Append(pool, x)} /\ inUse' \subseteq inUse
  BY <1>2, <1>3, ReleaseFacts DEF IInv
<1>9. ActsOn(w, x) /\ ~Mine(w)'
  BY <1>2, <1>5, <1>7, <1>8 DEF ActsOn, Mine, peers, Peace
<1>10. ~sending'[x] => sendQueue'[x] = <<>>
  BY <1>2, <1>3 DEF Tended
<1>11. InTurn(c, x)'
  BY <1>2, <1>3 DEF InTurn
<1>12. Spent(c, x)'
  <2>1. Announces(x)' => Announces(x)
    BY <1>1, <1>2, <1>3, <1>9, AnnouncesLess
  <2> QED
    BY <1>2, <1>4, <2>1 DEF Spent
<1> QED
  BY <1>1, <1>2, <1>5, <1>6, <1>9, <1>10, <1>11, <1>12, PeaceAfter

(* read_sending: the completion is taken for what it is.                    *)
LEMMA read_sendingPeace ==
  ASSUME IInv, Peace, NEW w \in Workers, read_sending(w)
  PROVE  Peace'
<1>1. PICK x, c : x = packet[w].of /\ c = socket[x]
  OBVIOUS
<1>2. PICK l \in {"sent", "received"} :
        /\ pc[w] = "taken" /\ packet[w].op # "new" /\ packet[w].n > 0
        /\ pc' = [pc EXCEPT ![w] = l] /\ packet' = packet
        /\ tainted' = IF (packet[w].op = "send") # sending[x] THEN tainted \cup {x} ELSE tainted
        /\ UNCHANGED <<handle, bound, recvs, port, socket, sendQueue, sending, pendingData, buffer,
                       pool, inUse, answers, client, sent, wire, end, context, unheard, patient>>
  <2>1. (IF TakenForSend(w) THEN "sent" ELSE "received") \in {"sent", "received"}
    OBVIOUS
  <2> QED
    BY <1>1, <2>1 DEF read_sending, Goto, TakenForSend, workerUnchanged, fields, peers
<1>3. /\ x \in Contexts /\ c \in Clients /\ Sound(x) /\ Tended(x) /\ InTurn(c, x)
      /\ Over(c) => Spent(c, x)
      /\ packet[w].op \in {"recv", "send"}
      /\ Mine(w) => ~sending[x]
  BY <1>1, <1>2, Finds
<1>4. packet[w].op = "recv" => Mine(w)
  BY <1>2 DEF Mine
<1>5. packet[w].op = "send" => sending[x]
  BY <1>1, <1>2, <1>3, AloneFacts
<1>6. sending[x] \in BOOLEAN
  BY <1>3 DEF IInv, TypeOK
<1>7. (packet[w].op = "send") = sending[x]
  BY <1>3, <1>4, <1>5, <1>6
<1>8. tainted' = {} /\ tainted' = tainted
  BY <1>2, <1>7 DEF Peace
<1>9. pc'[w] = l /\ \A v \in Workers \ {w} : pc'[v] = pc[v] /\ packet'[v] = packet[v]
  BY <1>2 DEF IInv, TypeOK
<1>10. ActsOn(w, x) /\ (Mine(w)' => Mine(w))
  BY <1>2, <1>8, <1>9 DEF ActsOn, Mine, peers
<1>11. /\ ~sending'[x] => sendQueue'[x] = <<>>
       /\ InTurn(c, x)'
  BY <1>2, <1>3 DEF Tended, InTurn
<1>12. Over(c) => Spent(c, x)'
  <2>1. Announces(x)' => Announces(x)
    BY <1>1, <1>2, <1>3, <1>10, AnnouncesLess
  <2> QED
    BY <1>2, <1>3, <2>1 DEF Spent
<1> QED
  BY <1>1, <1>2, <1>8, <1>10, <1>11, <1>12, PeaceAfter

(* send_done: the one answer queued is sent.                                *)
LEMMA send_donePeace ==
  ASSUME IInv, Peace, NEW w \in Workers, send_done(w)
  PROVE  Peace'
<1>1. PICK x, c : x = packet[w].of /\ c = socket[x]
  OBVIOUS
<1>2. pc[w] = "sent" /\ packet[w].op # "new"
  BY DEF send_done, IInv, WorkerHolds, Fits
<1>3. /\ x \in Contexts /\ c \in Clients /\ Sound(x) /\ InTurn(c, x)
      /\ Over(c) => Spent(c, x)
      /\ Orderly(x)
  <2>1. /\ x \in Contexts /\ c \in Clients /\ Sound(x) /\ InTurn(c, x)
        /\ Over(c) => Spent(c, x)
    BY <1>1, <1>2, Finds
  <2> QED
    BY <2>1, PeaceFacts
<1>4. Tail(sendQueue[x]) = <<>>
  <2>1. sendQueue[x] \in Seq(1..MaxMessages) /\ Len(sendQueue[x]) <= 1 /\ sendQueue[x] # <<>>
    BY <1>1, <1>3 DEF IInv, TypeOK, Stream, Orderly, OneSend, send_done
  <2>2. Tail(sendQueue[x]) \in Seq(1..MaxMessages) /\ Len(Tail(sendQueue[x])) = Len(sendQueue[x]) - 1
        /\ Len(sendQueue[x]) \in Nat
    BY <2>1, HeadTailProperties, LenProperties
  <2>3. Len(Tail(sendQueue[x])) \in Nat
    BY <2>2, LenProperties
  <2>4. PICK n, k : n = Len(sendQueue[x]) /\ k = Len(Tail(sendQueue[x]))
    OBVIOUS
  <2>5. n \in Nat /\ n <= 1 /\ k = n - 1 /\ k \in Nat
    BY <2>1, <2>2, <2>3, <2>4
  <2>6. k = 0
    BY <2>5
  <2> QED
    BY <2>2, <2>4, <2>6, EmptySeq
<1>5. /\ sendQueue' = [sendQueue EXCEPT ![x] = <<>>] /\ sending' = [sending EXCEPT ![x] = FALSE]
      /\ pc' = [pc EXCEPT ![w] = "wait"] /\ packet' = [packet EXCEPT ![w] = Nothing]
      /\ UNCHANGED <<handle, pool, inUse, port, answers, tainted, bound, recvs, socket, pendingData, buffer,
                     client, sent, wire, end, context, unheard, patient>>
  BY <1>1, <1>4 DEF send_done, Done, workerUnchanged, peers
<1>6. /\ sendQueue'[x] = <<>> /\ ~sending'[x] /\ pc'[w] = "wait"
      /\ \A y \in Contexts \ {x} : sendQueue'[y] = sendQueue[y] /\ sending'[y] = sending[y]
      /\ \A v \in Workers \ {w} : pc'[v] = pc[v] /\ packet'[v] = packet[v]
  BY <1>3, <1>5 DEF IInv, TypeOK
<1>7. ActsOn(w, x) /\ ~Mine(w)' /\ tainted' = {}
  BY <1>5, <1>6 DEF ActsOn, Mine, peers, Peace
<1>8. InTurn(c, x)'
  BY <1>3, <1>5, <1>6 DEF InTurn
<1>9. Over(c) => Spent(c, x)'
  <2>1. Announces(x)' => Announces(x)
    BY <1>1, <1>2, <1>3, <1>7, AnnouncesLess
  <2> QED
    BY <1>3, <1>5, <1>6, <2>1 DEF Spent
<1> QED
  BY <1>1, <1>2, <1>5, <1>6, <1>7, <1>8, <1>9, PeaceAfter

(* send_done_empty: never.                                                  *)
LEMMA send_done_emptyNever ==
  ASSUME IInv, Peace, NEW w \in Workers, send_done_empty(w)
  PROVE  FALSE
<1>1. PICK x : x = packet[w].of
  OBVIOUS
<1>2. pc[w] = "sent" /\ packet[w].op # "new" /\ sendQueue[x] = <<>>
  BY <1>1 DEF send_done_empty, IInv, WorkerHolds, Fits
<1>3. Sound(x) /\ packet[w].op \in {"recv", "send"} /\ Fits(w)
  BY <1>1, <1>2, Finds
<1>4. packet[w].op = "send"
  BY <1>1, <1>2, <1>3 DEF Fits
<1> QED
  BY <1>1, <1>2, <1>3, <1>4, AloneFacts

(* handle_client_io: what is announced moves to pendingData.                *)
LEMMA handle_client_ioPeace ==
  ASSUME IInv, Peace, NEW w \in Workers, handle_client_io(w)
  PROVE  Peace'
<1>1. PICK x, c : x = packet[w].of /\ c = socket[x]
  OBVIOUS
<1>2. /\ pc[w] = "received" /\ packet[w].op # "new" /\ packet[w].n > 0
      /\ pendingData' = [pendingData EXCEPT ![x] = @ \o Arrived(x, packet[w].n)]
      /\ pc' = [pc EXCEPT ![w] = "parse"] /\ packet' = packet
      /\ UNCHANGED <<handle, bound, recvs, port, socket, sendQueue, sending, buffer, pool, inUse,
                     answers, tainted, client, sent, wire, end, context, unheard, patient>>
  BY <1>1 DEF handle_client_io, Goto, workerUnchanged, peers, IInv, WorkerHolds, Fits
<1>3. /\ x \in Contexts /\ c \in Clients /\ Sound(x) /\ Tended(x) /\ InTurn(c, x)
      /\ packet[w].op \in {"recv", "send"} /\ Fits(w)
      /\ Mine(w) => ~Over(c)
  BY <1>1, <1>2, Finds
<1>4. Mine(w)
  BY <1>1, <1>2, <1>3 DEF Fits, Mine
<1>5. /\ pc'[w] = "parse" /\ \A v \in Workers \ {w} : pc'[v] = pc[v] /\ packet'[v] = packet[v]
      /\ \A y \in Contexts \ {x} : pendingData'[y] = pendingData[y]
  BY <1>2, <1>3 DEF IInv, TypeOK
<1>6. ActsOn(w, x) /\ tainted' = {}
  BY <1>2, <1>5 DEF ActsOn, peers, Peace
<1>7. /\ ~sending'[x] => sendQueue'[x] = <<>>
      /\ InTurn(c, x)'
  BY <1>2, <1>3 DEF Tended, InTurn
<1> QED
  BY <1>1, <1>2, <1>3, <1>4, <1>6, <1>7, PeaceAfter

(* post_send: the one message not yet answered is answered.                 *)
LEMMA post_sendPeace ==
  ASSUME IInv, Peace, NEW w \in Workers, post_send(w)
  PROVE  Peace'
<1>1. PICK x, c : x = packet[w].of /\ c = socket[x]
  OBVIOUS
<1>2. pc[w] = "parse" /\ packet[w].op # "new" /\ pendingData[x] # <<>>
  BY <1>1 DEF post_send, IInv, WorkerHolds, Fits
<1>3. /\ x \in Contexts /\ c \in Clients /\ context[c] = x /\ Sound(x) /\ Tended(x) /\ InTurn(c, x)
      /\ Over(c) => Spent(c, x)
  BY <1>1, <1>2, Finds
<1>4. ~Over(c) /\ Usable(c)
  <2>1. ~Over(c)
    BY <1>2, <1>3 DEF Spent
  <2>2. context[c] # None
    BY <1>3, NameFacts
  <2> QED
    BY <1>3, <2>1, <2>2, NotOver
<1>5. /\ sent[c] # Len(answers[c]) /\ ~sending[x] /\ sendQueue[x] = <<>>
      /\ Len(answers[c]) \in Nat /\ Len(answers[c]) <= sent[c] /\ sent[c] \in Nat
  <2>1. end[c] # "reset"
    BY <1>4 DEF Usable
  <2>2. sent[c] # Len(answers[c]) /\ ~sending[x]
    BY <1>1, <1>2, <1>3, <2>1, UnderWay
  <2>3. Len(answers[c]) \in Nat /\ Len(answers[c]) <= sent[c] /\ sent[c] \in Nat
    BY <1>1, <1>3, <2>1, UnderWay
  <2> QED
    BY <1>3, <2>2, <2>3 DEF Tended
<1>6. PICK q, m : q = Append(sendQueue[x], Head(pendingData[x])) /\ m = Head(q)
  OBVIOUS
<1>7. /\ sendQueue' = [sendQueue EXCEPT ![x] = q]
      /\ pendingData' = [pendingData EXCEPT ![x] = Tail(@)]
      /\ sending' = [sending EXCEPT ![x] = TRUE]
      /\ answers' = [answers EXCEPT ![c] = Append(@, m)]
      /\ port' = Append(port, Packet("send", x, 1))
      /\ tainted' = tainted
      /\ UNCHANGED <<handle, pool, inUse, pc, packet, bound, recvs, socket, buffer,
                     client, sent, wire, end, context, unheard, patient>>
  BY <1>1, <1>4, <1>5, <1>6 DEF post_send, WSASend, WSASendFails, Marked, Erased, workerUnchanged, peers
<1>8. /\ sending'[x] /\ answers'[c] = Append(answers[c], m)
      /\ \A y \in Contexts \ {x} : /\ sendQueue'[y] = sendQueue[y] /\ sending'[y] = sending[y]
                                   /\ pendingData'[y] = pendingData[y]
      /\ \A d \in Clients : d # c => answers'[d] = answers[d]
  BY <1>3, <1>7 DEF IInv, TypeOK
<1>9. ActsOn(w, x) /\ ~Mine(w)' /\ tainted' = {}
  BY <1>1, <1>2, <1>7, <1>8 DEF ActsOn, Mine, peers, Peace
<1>10. InTurn(c, x)'
  <2>1. answers[c] \in Seq(1..MaxMessages)
    BY <1>3 DEF IInv, TypeOK, Stream
  <2>2. Len(answers'[c]) = Len(answers[c]) + 1
    BY <1>8, <2>1, AppendProperties
  <2>3. PICK a, b : a = Len(answers[c]) /\ b = sent[c]
    OBVIOUS
  <2>4. a \in Nat /\ b \in Nat /\ b # a /\ a <= b /\ b <= a + 1
    BY <1>3, <1>5, <2>3 DEF InTurn
  <2>5. b = a + 1
    BY <2>4
  <2>6. sent'[c] = a + 1 /\ Len(answers'[c]) = a + 1
    BY <1>7, <2>2, <2>3, <2>5
  <2>7. a + 1 <= (a + 1) + 1
    BY <2>4
  <2> QED
    BY <2>6, <2>7 DEF InTurn
<1> QED
  BY <1>1, <1>2, <1>4, <1>7, <1>8, <1>9, <1>10, PeaceAfter

(* post_recv: a connection that cannot be used is over, with all answered.  *)
LEMMA post_recvPeace ==
  ASSUME IInv, TypeOK', Peace, NEW w \in Workers, post_recv(w)
  PROVE  Peace'
<1>1. PICK x, c : x = packet[w].of /\ c = socket[x]
  OBVIOUS
<1>2. /\ pc[w] = "parse" /\ packet[w].op # "new" /\ pendingData[x] = <<>>
      /\ \/ Usable(c) /\ recvs' = [recvs EXCEPT ![c] = @ + 1] /\ UNCHANGED <<pool, inUse, tainted>>
         \/ ~Usable(c) /\ release(x) /\ UNCHANGED recvs
      /\ pc' = [pc EXCEPT ![w] = "wait"] /\ packet' = [packet EXCEPT ![w] = Nothing]
      /\ UNCHANGED <<handle, bound, port, socket, sendQueue, sending, pendingData, buffer,
                     answers, client, sent, wire, end, context, unheard, patient>>
  BY <1>1 DEF post_recv, NextRecv, Done, workerUnchanged, fields, peers, IInv, WorkerHolds, Fits
<1>3. /\ x \in Contexts /\ c \in Clients /\ context[c] = x /\ x \in inUse
      /\ Sound(x) /\ Tended(x) /\ InTurn(c, x)
      /\ Over(c) => Spent(c, x)
      /\ packet[w].op \in {"recv", "send"} /\ Fits(w)
  BY <1>1, <1>2, Finds
<1>4. packet[w].op = "recv"
  BY <1>1, <1>2, <1>3 DEF Fits
<1>5. /\ pc'[w] = "wait" /\ \A v \in Workers \ {w} : pc'[v] = pc[v] /\ packet'[v] = packet[v]
      /\ \A d \in Clients : d # c => recvs'[d] = recvs[d]
  BY <1>2, <1>3 DEF IInv, TypeOK
<1>6. ~Mine(w)'
  BY <1>5 DEF Mine
<1>7. ~sending'[x] => sendQueue'[x] = <<>>
  BY <1>2, <1>3 DEF Tended
<1>8. InTurn(c, x)'
  BY <1>2, <1>3 DEF InTurn
<1>9. ASSUME ActsOn(w, x) PROVE Over(c) => Spent(c, x)'
  <2>1. Announces(x)' => Announces(x)
    BY <1>1, <1>2, <1>3, <1>6, <1>9, AnnouncesLess
  <2> QED
    BY <1>2, <1>3, <2>1 DEF Spent
<1>10. CASE Usable(c) /\ recvs' = [recvs EXCEPT ![c] = @ + 1] /\ UNCHANGED <<pool, inUse, tainted>>
  <2>1. ActsOn(w, x) /\ tainted' = {}
    BY <1>1, <1>2, <1>5, <1>10 DEF ActsOn, peers, Peace
  <2> QED
    BY <1>1, <1>2, <1>6, <1>7, <1>8, <1>9, <1>10, <2>1, PeaceAfter
<1>11. CASE ~Usable(c) /\ release(x) /\ UNCHANGED recvs
  <2>1. Over(c)
    BY <1>3, <1>11, NotOver, NameFacts
  <2>2. ~sending[x]
    BY <1>3, <2>1 DEF Spent
  <2>3. ~Dirty(x) /\ tainted' = {} /\ inUse' = inUse \ {x}
    BY <1>2, <1>3, <1>11, <2>2, ReleasesCleanly
  <2>4. AtRest(x)'
    BY <1>1, <1>2, <1>3, <1>4, <1>11, <2>3, RestsAfter
  <2>5. pool' \in {pool, Append(pool, x)} /\ inUse' \subseteq inUse
    BY <1>3, <1>11, ReleaseFacts DEF IInv
  <2>6. ActsOn(w, x)
    BY <1>1, <1>2, <1>5, <1>11, <2>3, <2>5 DEF ActsOn, peers, Peace
  <2> QED
    BY <1>1, <1>2, <1>6, <1>7, <1>8, <1>9, <2>3, <2>4, <2>6, PeaceAfter
<1> QED
  BY <1>2, <1>10, <1>11

(* What neither x nor the connection it serves is touched by keeps x tended. *)
LEMMA StillTended ==
  ASSUME Peace, NEW x \in Contexts,
         socket'[x] = socket[x], sending'[x] = sending[x], sendQueue'[x] = sendQueue[x],
         pendingData'[x] = pendingData[x],
         x \notin inUse' => x \notin inUse, AtRest(x) => AtRest(x)',
         Announces(x)' => Announces(x), EndTold(x)' => EndTold(x),
         \A c \in Clients : socket[x] = c => /\ client'[c] = client[c] /\ handle'[c] = handle[c]
                                             /\ sent'[c] = sent[c] /\ answers'[c] = answers[c]
                                             /\ wire'[c] = wire[c]
  PROVE  Tended(x)'
<1>1. Tended(x)
  BY DEF Peace
<1>2. x \notin inUse' => AtRest(x)'
  BY <1>1 DEF Tended
<1>3. ASSUME NEW c \in Clients, socket[x] = c
      PROVE  InTurn(c, x)' /\ (Over(c)' => Spent(c, x)') /\ (EndTold(x)' => client'[c] = "gone")
  <2>1. InTurn(c, x) /\ (Over(c) => Spent(c, x)) /\ (EndTold(x) => client[c] = "gone")
    BY <1>1, <1>3 DEF Tended
  <2>2. /\ client'[c] = client[c] /\ handle'[c] = handle[c]
        /\ sent'[c] = sent[c] /\ answers'[c] = answers[c] /\ wire'[c] = wire[c]
    BY <1>3
  <2>3. InTurn(c, x)'
    BY <2>1, <2>2 DEF InTurn
  <2>4. Over(c)' => Spent(c, x)'
    BY <2>1, <2>2 DEF Over, Spent
  <2> QED
    BY <2>1, <2>2, <2>3, <2>4
<1> QED
  BY <1>1, <1>2, <1>3 DEF Tended

(* take: the completion is where it was, or forgotten.                      *)
LEMMA takePeace ==
  ASSUME IInv, Peace, NEW w \in Workers, take(w)
  PROVE  Peace'
<1>1. PICK m : m = Head(port)
  OBVIOUS
<1>2. /\ pc[w] = "wait" /\ port # <<>> /\ port' = Tail(port)
      /\ \/ UNCHANGED <<pc, packet>>
         \/ pc' = [pc EXCEPT ![w] = "taken"] /\ packet' = [packet EXCEPT ![w] = m]
      /\ UNCHANGED <<handle, bound, recvs, socket, sendQueue, sending, pendingData, pool, inUse,
                     answers, tainted, client, sent, wire, end, context, unheard>>
  BY <1>1 DEF take, watched, peers, sockets, fields
<1>3. packet[w] = Nothing
  BY <1>2 DEF IInv, WorkerHolds, Fits
<1>4. port \in Seq(Packets) /\ Len(port) \in Nat /\ packet \in [Workers -> Packets \cup {Nothing}]
  BY LenProperties DEF IInv, TypeOK
<1>5. /\ 1 \in 1..Len(port) /\ m = port[1]
      /\ \A i \in 1..Len(port') : i + 1 \in 1..Len(port) /\ port'[i] = port[i + 1]
  BY <1>1, <1>2, <1>4, EmptySeq
<1>6. \A v \in Workers : (packet'[v] = packet[v] /\ pc'[v] = pc[v]) \/ packet'[v] = m
  BY <1>2 DEF IInv, TypeOK
<1>7. \A c \in Clients : Absent(port, packet, c, News) => Absent(port', packet', c, News)
  <2> SUFFICES ASSUME NEW c \in Clients, Absent(port, packet, c, News)
               PROVE  Absent(port', packet', c, News)
    OBVIOUS
  <2>1. c # None
    BY NameFacts
  <2>2. /\ Absent(Tail(port), packet, c, News)
        /\ Absent(Tail(port), [packet EXCEPT ![w] = Head(port)], c, News)
    BY <1>2, <1>3, <1>4, <2>1, Dequeued
  <2> QED
    BY <1>1, <1>2, <2>2
<1>8. \A c \in Clients : Greeted(c)'
  BY <1>2, <1>7 DEF Peace, Greeted
<1>9. ASSUME NEW x \in Contexts PROVE Tended(x)'
  <2>1. Announces(x)' => Announces(x)
    BY <1>5, <1>6 DEF Announces
  <2>2. EndTold(x)' => EndTold(x)
    BY <1>5, <1>6 DEF EndTold
  <2>3. AtRest(x) => AtRest(x)'
    BY <1>2, <1>5, <1>6 DEF AtRest, Dirty
  <2> QED
    BY <1>2, <2>1, <2>2, <2>3, StillTended
<1> QED
  BY <1>2, <1>8, <1>9 DEF Peace

(* connected: the context was at rest, and the client has not spoken yet.   *)
LEMMA connectedPeace ==
  ASSUME IInv, Peace, NEW w \in Workers, connected(w)
  PROVE  Peace'
<1>1. PICK c, g : c = packet[w].of /\ g = get
  OBVIOUS
<1>2. /\ pc[w] = "taken" /\ packet[w].op = "new"
      /\ context' = [context EXCEPT ![c] = g] /\ socket' = [socket EXCEPT ![g] = c]
      /\ inUse' = inUse \cup {g}
      /\ \A d \in Clients : d # c => recvs'[d] = recvs[d]
      /\ pc' = [pc EXCEPT ![w] = "bind"]
      /\ UNCHANGED <<packet, handle, bound, port, sendQueue, sending, pendingData,
                     answers, tainted, unheard, client, sent, wire, end>>
  BY <1>1 DEF connected, Goto, watched, peers, IInv, TypeOK
<1>3. c \in Clients /\ context[c] = None
  BY <1>1, <1>2, NewFacts
<1>4. g \in Contexts /\ AtRest(g)
  <2>1. g \in Contexts /\ (Sound(g) => AtRest(g))
    BY <1>1, <1>3, GetFacts DEF IInv
  <2> QED
    BY <2>1, PeaceFacts
<1>5. /\ \A d \in Clients : context'[d] = (IF d = c THEN g ELSE context[d])
      /\ \A y \in Contexts : socket'[y] = (IF y = g THEN c ELSE socket[y])
      /\ \A v \in Workers : pc'[v] = (IF v = w THEN "bind" ELSE pc[v])
  BY <1>2, <1>3, <1>4 DEF IInv, TypeOK
<1>6. \A d \in Clients : Greeted(d)'
  BY <1>2 DEF Peace, Greeted
<1>7. \A x : (Announces(x)' => Announces(x)) /\ (EndTold(x)' => EndTold(x))
  BY <1>2, <1>5 DEF Announces, EndTold
<1>8. ASSUME NEW y \in Contexts, y # g PROVE Tended(y)'
  <2>1. AtRest(y) => AtRest(y)'
    BY <1>2, <1>4, <1>5, <1>8 DEF AtRest, Dirty
  <2>2. socket'[y] = socket[y]
    BY <1>5, <1>8
  <2> QED
    BY <1>2, <1>7, <1>8, <2>1, <2>2, StillTended
<1>9. Tended(g)'
  <2>1. ~bound[c]
    BY <1>1, <1>2, <1>3 DEF Peace, Greeted, Absent, At, News
  <2>2. sent[c] = 0 /\ client[c] # "gone" /\ handle[c] # "closed" /\ answers[c] = <<>>
    BY <1>3, <2>1 DEF Peace, Greeted, IInv, Connecting
  <2>3. ~sending[g] /\ sendQueue[g] = <<>> /\ ~EndTold(g)
    BY <1>4 DEF AtRest, Dirty, EndTold
  <2>4. Len(answers[c]) = 0 /\ 0 <= 0 + 1
    BY <2>2
  <2>5. InTurn(c, g)' /\ ~Over(c)'
    BY <1>2, <2>2, <2>4 DEF InTurn, Over
  <2> QED
    BY <1>2, <1>4, <1>5, <1>7, <2>3, <2>5 DEF Tended
<1> QED
  BY <1>2, <1>6, <1>8, <1>9 DEF Peace

(* bind: the client has not been closed yet, so it is bound.                *)
LEMMA bindPeace ==
  ASSUME IInv, Peace, NEW w \in Workers, bind(w)
  PROVE  Peace'
<1>1. PICK c : c = packet[w].of
  OBVIOUS
<1>2. /\ pc[w] = "bind" /\ packet[w].op = "new"
      /\ bound' = [bound EXCEPT ![c] = (handle[c] = "open")]
      /\ pc' = [pc EXCEPT ![w] = "wait"] /\ packet' = [packet EXCEPT ![w] = Nothing]
      /\ UNCHANGED <<handle, recvs, port, socket, sendQueue, sending, pendingData, inUse,
                     answers, tainted, client, sent, wire, end, context, unheard>>
  BY <1>1 DEF bind, Done, workerUnchanged, peers, fields, IInv, WorkerHolds, Fits
<1>3. c \in Clients /\ c # None /\ client[c] # "out"
  BY <1>1, <1>2, NewFacts, NameFacts
<1>4. packet \in [Workers -> Packets \cup {Nothing}]
  BY DEF IInv, TypeOK
<1>5. \A v \in Workers : (packet'[v] = packet[v] /\ pc'[v] = pc[v]) \/ packet'[v] = Nothing
  BY <1>2 DEF IInv, TypeOK
<1>6. handle[c] = "open"
  <2>1. ~bound[c]
    BY <1>1, <1>2, <1>3 DEF Peace, Greeted, Absent, At, News
  <2>2. handle[c] # "closed" /\ handle[c] # "none"
    BY <1>3, <2>1 DEF Peace, Greeted
  <2> QED
    BY <1>3, <2>2 DEF IInv, TypeOK
<1>7. \A d \in Clients : bound'[d] = (IF d = c THEN TRUE ELSE bound[d])
  BY <1>2, <1>3, <1>6 DEF IInv, TypeOK
<1>8. Absent(port, packet', c, News)
  <2>1. Single(port, packet, c, News) /\ At(packet[w], c, News)
    BY <1>1, <1>2, <1>3 DEF IInv, Connecting, At, News
  <2> QED
    BY <1>2, <1>3, <1>4, <2>1, Finished
<1>9. ASSUME NEW d \in Clients PROVE Greeted(d)'
  <2>1. Greeted(d) /\ d # None
    BY NameFacts DEF Peace
  <2>2. Absent(port, packet, d, News) => Absent(port, packet', d, News)
    BY <1>2, <1>4, <2>1, Finished
  <2> QED
    BY <1>2, <1>3, <1>6, <1>7, <1>8, <2>1, <2>2 DEF Greeted
<1>10. ASSUME NEW x \in Contexts PROVE Tended(x)'
  <2>1. x # None
    BY NameFacts
  <2>2. Announces(x)' => Announces(x)
    BY <1>2, <1>5, <2>1 DEF Announces, Nothing
  <2>3. EndTold(x)' => EndTold(x)
    BY <1>2, <1>5, <2>1 DEF EndTold, Nothing
  <2>4. AtRest(x) => AtRest(x)'
    BY <1>2, <1>5, <2>1 DEF AtRest, Dirty, Nothing
  <2> QED
    BY <1>2, <2>2, <2>3, <2>4, StillTended
<1> QED
  BY <1>2, <1>9, <1>10 DEF Peace

(* accept: a connection nobody has heard of yet.                            *)
LEMMA acceptPeace ==
  ASSUME IInv, Peace, NEW c \in Clients, accept(c)
  PROVE  Peace'
<1>1. PICK m : m = Packet("new", c, 0)
  OBVIOUS
<1>2. /\ client[c] = "out" /\ client' = [client EXCEPT ![c] = "connected"]
      /\ handle' = [handle EXCEPT ![c] = "open"] /\ port' = Append(port, m)
      /\ UNCHANGED <<sent, wire, context, bound, recvs, socket, sendQueue, sending, pendingData,
                     inUse, pc, packet, answers, tainted, unheard>>
  BY <1>1 DEF accept, watched, fields
<1>3. /\ m \in Packets /\ m.op = "new" /\ m.of = c /\ c \notin Contexts
      /\ port \in Seq(Packets) /\ Len(port) \in Nat
  BY <1>1, NewPackets, NameFacts DEF Packet, IInv, TypeOK
<1>4. \A i \in 1..Len(port') : (i \in 1..Len(port) /\ port'[i] = port[i]) \/ port'[i] = m
  BY <1>2, <1>3
<1>5. \A d \in Clients : /\ client'[d] = (IF d = c THEN "connected" ELSE client[d])
                         /\ handle'[d] = (IF d = c THEN "open" ELSE handle[d])
  BY <1>2 DEF IInv, TypeOK
<1>6. context[c] = None /\ ~bound[c] /\ sent[c] = 0
  BY <1>2 DEF IInv, Connecting, Peace, Greeted
<1>7. ASSUME NEW d \in Clients PROVE Greeted(d)'
  <2>1. Greeted(d)
    BY DEF Peace
  <2>2. d # c /\ Absent(port, packet, d, News) => Absent(port', packet, d, News)
    BY <1>3, <1>4 DEF Absent, At
  <2> QED
    BY <1>2, <1>5, <1>6, <2>1, <2>2 DEF Greeted
<1>8. ASSUME NEW x \in Contexts PROVE Tended(x)'
  <2>1. Announces(x)' => Announces(x)
    BY <1>2, <1>3, <1>4 DEF Announces
  <2>2. EndTold(x)' => EndTold(x)
    BY <1>2, <1>3, <1>4 DEF EndTold
  <2>3. AtRest(x) => AtRest(x)'
    BY <1>2, <1>3, <1>4 DEF AtRest, Dirty
  <2>4. \A d \in Clients : socket[x] = d => d # c
    BY <1>6, NameFacts DEF IInv, Owned
  <2> QED
    BY <1>2, <1>5, <2>1, <2>2, <2>3, <2>4, StillTended
<1> QED
  BY <1>2, <1>7, <1>8 DEF Peace

(* What a step that leaves the contexts and the completions alone keeps.     *)
LEMMA RestKept ==
  ASSUME UNCHANGED <<context, recvs, port, fields, inUse, pc, packet>>
  PROVE  /\ \A x : /\ AtRest(x)' <=> AtRest(x)
                   /\ Announces(x)' <=> Announces(x)
                   /\ EndTold(x)' <=> EndTold(x)
         /\ UNCHANGED <<socket, sendQueue, sending, pendingData>>
<1>1. UNCHANGED <<socket, sendQueue, sending, pendingData>>
  BY DEF fields
<1>2. \A x : AtRest(x)' <=> AtRest(x)
  BY <1>1 DEF AtRest, Dirty
<1>3. \A x : Announces(x)' <=> Announces(x)
  BY DEF Announces
<1>4. \A x : EndTold(x)' <=> EndTold(x)
  BY DEF EndTold
<1> QED
  BY <1>1, <1>2, <1>3, <1>4

(* submit: a client speaks when it is bound and nothing is under way.       *)
LEMMA submitPeace ==
  ASSUME IInv, Peace, NEW c \in Clients, submit(c), Ready(c)
  PROVE  Peace'
<1>1. /\ client[c] = "connected" /\ handle[c] = "open"
      /\ sent' = [sent EXCEPT ![c] = @ + 1]
      /\ wire' = [wire EXCEPT ![c] = Append(@, sent[c] + 1)]
      /\ UNCHANGED <<client, end, handle, context, bound, recvs, port, fields, inUse, pc, packet,
                     answers, tainted, unheard>>
  BY DEF submit, serverUnchanged, sockets
<1>2. /\ \A x : /\ AtRest(x)' <=> AtRest(x)
                /\ Announces(x)' <=> Announces(x)
                /\ EndTold(x)' <=> EndTold(x)
      /\ UNCHANGED <<socket, sendQueue, sending, pendingData>>
  BY <1>1, RestKept
<1>3. /\ \A d \in Clients : sent'[d] = (IF d = c THEN sent[d] + 1 ELSE sent[d])
      /\ \A d \in Clients : d # c => wire'[d] = wire[d]
  BY <1>1 DEF IInv, TypeOK
<1>4. ASSUME NEW d \in Clients PROVE Greeted(d)'
  BY <1>1, <1>3 DEF Peace, Greeted, Ready
<1>5. ASSUME NEW x \in Contexts, socket[x] # c PROVE Tended(x)'
  BY <1>1, <1>2, <1>3, <1>5, StillTended
<1>6. ASSUME NEW x \in Contexts, socket[x] = c PROVE Tended(x)'
  <2>1. context[c] = x /\ c # None
    BY <1>6, NameFacts DEF IInv, Owned
  <2>2. ~sending[x] /\ sent[c] = Len(answers[c]) /\ Tended(x)
    BY <2>1 DEF Ready, Peace
  <2>3. sent'[c] = Len(answers[c]) + 1
    BY <1>3, <2>2
  <2>4. Len(answers[c]) \in Nat
    BY LenProperties DEF IInv, TypeOK, Stream
  <2>5. sent'[c] <= Len(answers[c]) + 1
    BY <2>3, <2>4
  <2>6. InTurn(c, x)' /\ ~Over(c)'
    BY <1>1, <1>2, <2>2, <2>5 DEF InTurn, Over
  <2> QED
    BY <1>1, <1>2, <1>6, <2>2, <2>6 DEF Tended
<1> QED
  BY <1>1, <1>4, <1>5, <1>6 DEF Peace

(* disconnect: a client closes when it is bound and nothing is under way.   *)
LEMMA disconnectPeace ==
  ASSUME IInv, Peace, NEW c \in Clients, disconnect(c), Ready(c)
  PROVE  Peace'
<1>1. /\ client[c] = "connected" /\ client' = [client EXCEPT ![c] = "gone"]
      /\ wire' = wire \/ wire' = [wire EXCEPT ![c] = <<>>]
      /\ UNCHANGED <<sent, handle, context, bound, recvs, port, fields, inUse, pc, packet,
                     answers, tainted, unheard>>
  BY DEF disconnect, serverUnchanged, sockets
<1>2. /\ \A x : /\ AtRest(x)' <=> AtRest(x)
                /\ Announces(x)' <=> Announces(x)
                /\ EndTold(x)' <=> EndTold(x)
      /\ UNCHANGED <<socket, sendQueue, sending, pendingData>>
  BY <1>1, RestKept
<1>3. /\ \A d \in Clients : client'[d] = (IF d = c THEN "gone" ELSE client[d])
      /\ \A d \in Clients : d # c => wire'[d] = wire[d]
      /\ wire'[c] = wire[c] \/ wire'[c] = <<>>
  BY <1>1 DEF IInv, TypeOK
<1>4. ASSUME NEW d \in Clients PROVE Greeted(d)'
  BY <1>1, <1>3 DEF Peace, Greeted, Ready
<1>5. ASSUME NEW x \in Contexts, socket[x] # c PROVE Tended(x)'
  BY <1>1, <1>2, <1>3, <1>5, StillTended
<1>6. ASSUME NEW x \in Contexts, socket[x] = c PROVE Tended(x)'
  <2>1. context[c] = x /\ end[c] # "reset"
    BY <1>1, <1>6, NameFacts DEF IInv, Owned, Connecting
  <2>2. sent[c] = Len(answers[c]) /\ ~sending[x] /\ Tended(x) /\ InTurn(c, x)
    BY <1>6, <2>1 DEF Ready, Peace, Tended
  <2>3. Spent(c, x)
    BY <1>6, <2>1, <2>2, UnderWay
  <2>4. Spent(c, x)'
    BY <1>1, <1>2, <1>3, <2>3 DEF Spent
  <2>5. InTurn(c, x)'
    BY <1>1, <1>2, <2>2 DEF InTurn
  <2> QED
    BY <1>1, <1>2, <1>3, <1>6, <2>2, <2>4, <2>5 DEF Tended
<1> QED
  BY <1>1, <1>4, <1>5, <1>6 DEF Peace

(* check_client_timeouts: it closes a client that has gone or is idle.      *)
LEMMA check_client_timeoutsPeace ==
  ASSUME IInv, Peace, NEW c \in Clients, check_client_timeouts(c), client[c] = "gone" \/ Ready(c)
  PROVE  Peace'
<1>1. /\ handle' = [handle EXCEPT ![c] = "closed"]
      /\ UNCHANGED <<client, sent, wire, end, context, bound, recvs, port, fields, inUse, pc, packet,
                     answers, tainted, unheard>>
  BY DEF check_client_timeouts, peers
<1>2. /\ \A x : /\ AtRest(x)' <=> AtRest(x)
                /\ Announces(x)' <=> Announces(x)
                /\ EndTold(x)' <=> EndTold(x)
      /\ UNCHANGED <<socket, sendQueue, sending, pendingData>>
  BY <1>1, RestKept
<1>3. \A d \in Clients : handle'[d] = (IF d = c THEN "closed" ELSE handle[d])
  BY <1>1 DEF IInv, TypeOK
<1>4. bound[c]
  BY DEF Peace, Greeted, Ready
<1>5. ASSUME NEW d \in Clients PROVE Greeted(d)'
  BY <1>1, <1>3, <1>4 DEF Peace, Greeted
<1>6. ASSUME NEW x \in Contexts, socket[x] # c PROVE Tended(x)'
  BY <1>1, <1>2, <1>3, <1>6, StillTended
<1>7. ASSUME NEW x \in Contexts, socket[x] = c PROVE Tended(x)'
  <2>1. context[c] = x
    BY <1>7, NameFacts DEF IInv, Owned
  <2>2. Tended(x) /\ InTurn(c, x) /\ (Over(c) => Spent(c, x))
    BY <1>7 DEF Peace, Tended
  <2>3. Spent(c, x)
    <3>1. CASE client[c] = "gone"
      BY <2>2, <3>1 DEF Over
    <3>2. CASE client[c] # "gone" /\ Ready(c)
      <4>1. end[c] # "reset" /\ sent[c] = Len(answers[c]) /\ ~sending[x]
        BY <2>1, <3>2 DEF IInv, Connecting, Ready
      <4> QED
        BY <1>7, <4>1, UnderWay
    <3> QED
      BY <3>1, <3>2
  <2>4. Spent(c, x)' /\ InTurn(c, x)'
    BY <1>1, <1>2, <2>2, <2>3 DEF Spent, InTurn
  <2> QED
    BY <1>1, <1>2, <1>7, <2>2, <2>4 DEF Tended
<1> QED
  BY <1>1, <1>5, <1>6, <1>7 DEF Peace

(* recv_completes: only of a bound connection; 0 bytes once it is gone.     *)
LEMMA recv_completesPeace ==
  ASSUME IInv, Peace, NEW c \in Clients, recv_completes(c)
  PROVE  Peace'
<1>1. PICK x : x = context[c]
  OBVIOUS
<1>2. /\ recvs[c] > 0 /\ recvs' = [recvs EXCEPT ![c] = @ - 1]
      /\ unheard' = (IF bound[c] THEN unheard ELSE unheard \cup {c})
      /\ UNCHANGED <<client, sent, end, handle, context, bound, socket, sendQueue, sending, pendingData,
                     inUse, pc, packet, answers, tainted>>
  BY DEF recv_completes
<1>3. x \in Contexts /\ x # None /\ context[c] # None
  BY <1>1, <1>2, NameFacts DEF IInv, TypeOK, Connecting
<1>4. socket[x] = c /\ x \in inUse
  <2>1. Orderly(x) /\ (x \notin inUse => AtRest(x))
    BY <1>3, PeaceFacts DEF Peace, Tended
  <2> QED
    BY <1>1, <1>2, <2>1 DEF Orderly, OneReceive, AtRest
<1>5. wire[c] # <<>> => sent[c] # Len(answers[c]) \/ end[c] = "reset"
  BY <1>3, <1>4, UnderWay
<1>6. Usable(c) /\ wire[c] # <<>> => bound[c] /\ ~Over(c)
  <2> SUFFICES ASSUME Usable(c), wire[c] # <<>> PROVE bound[c] /\ ~Over(c)
    OBVIOUS
  <2>1. ~Over(c)
    BY <1>3, <1>4 DEF Peace, Tended, Spent
  <2>2. sent[c] # Len(answers[c]) /\ Len(answers[c]) \in Nat /\ Len(answers[c]) <= sent[c]
    BY <1>3, <1>4, UnderWay DEF Usable
  <2>3. sent[c] # 0
    BY <2>2
  <2> QED
    BY <2>1, <2>3 DEF Peace, Greeted
<1>7. end[c] = "fin" => client[c] = "gone" /\ bound[c]
  BY DEF IInv, Connecting, Peace, Greeted
<1>8. ~Usable(c) => bound[c]
  BY <1>3, NotOver DEF Over, Peace, Greeted
<1>9. PICK m : /\ m.of = x /\ m.op \in {"recv", "failed"}
               /\ port' = Append(port, m)
               /\ bound[c] /\ unheard' = unheard
               /\ \/ m.op = "recv" /\ m.n > 0 /\ wire' = [wire EXCEPT ![c] = <<>>] /\ ~Over(c)
                  \/ m.op = "recv" /\ m.n = 0 /\ wire' = wire /\ client[c] = "gone"
                  \/ m.op = "failed" /\ wire' = wire
  <2>1. wire[c] # <<>> => Len(wire[c]) > 0
    BY LenProperties, EmptySeq DEF IInv, TypeOK, Stream
  <2>2. CASE Usable(c) /\ wire[c] # <<>>
    <3>1. port' = Append(port, Packet("recv", x, Len(wire[c]))) /\ wire' = [wire EXCEPT ![c] = <<>>]
      BY <1>1, <1>6, <2>2 DEF recv_completes
    <3> QED
      BY <1>2, <1>6, <2>1, <2>2, <3>1 DEF Packet
  <2>3. CASE Usable(c) /\ wire[c] = <<>>
    <3>1. port' = Append(port, Packet("recv", x, 0)) /\ wire' = wire /\ end[c] = "fin"
      BY <1>1, <1>7, <2>3 DEF recv_completes
    <3> QED
      BY <1>2, <1>7, <3>1 DEF Packet
  <2>4. CASE ~Usable(c)
    <3>1. port' = Append(port, Packet("failed", x, 0)) /\ wire' = wire
      BY <1>1, <1>8, <2>4 DEF recv_completes
    <3> QED
      BY <1>2, <1>8, <2>4, <3>1 DEF Packet
  <2> QED
    BY <2>2, <2>3, <2>4
<1>10. port \in Seq(Packets) /\ Len(port) \in Nat
  BY LenProperties DEF IInv, TypeOK
<1>11. \A i \in 1..Len(port') : (i \in 1..Len(port) /\ port'[i] = port[i]) \/ port'[i] = m
  BY <1>9, <1>10
<1>12. \A d \in Clients : d # c => wire'[d] = wire[d] /\ recvs'[d] = recvs[d]
  BY <1>2, <1>9 DEF IInv, TypeOK
<1>13. ASSUME NEW d \in Clients PROVE Greeted(d)'
  <2>1. Greeted(d)
    BY DEF Peace
  <2>2. Absent(port, packet, d, News) => Absent(port', packet, d, News)
    BY <1>9, <1>11 DEF Absent, At, News
  <2> QED
    BY <1>2, <2>1, <2>2 DEF Greeted
<1>14. ASSUME NEW y \in Contexts, y # x PROVE Tended(y)'
  <2>1. Announces(y)' => Announces(y)
    BY <1>2, <1>9, <1>11, <1>14 DEF Announces
  <2>2. EndTold(y)' => EndTold(y)
    BY <1>2, <1>9, <1>11, <1>14 DEF EndTold
  <2>3. AtRest(y) => AtRest(y)'
    BY <1>1, <1>2, <1>9, <1>11, <1>12, <1>14 DEF AtRest, Dirty
  <2>4. \A d \in Clients : socket[y] = d => d # c
    BY <1>1, <1>14, NameFacts DEF IInv, Owned
  <2> QED
    BY <1>2, <1>12, <1>14, <2>1, <2>2, <2>3, <2>4, StillTended
<1>15. Tended(x)'
  <2>1. Tended(x) /\ InTurn(c, x) /\ (Over(c) => Spent(c, x)) /\ (EndTold(x) => client[c] = "gone")
    BY <1>3, <1>4 DEF Peace, Tended
  <2>2. InTurn(c, x)'
    BY <1>2, <2>1 DEF InTurn
  <2>3. EndTold(x)' => client[c] = "gone"
    BY <1>2, <1>9, <1>11, <2>1 DEF EndTold
  <2>4. Over(c) => Spent(c, x)'
    <3>1. Over(c) => ~(m.op = "recv" /\ m.n > 0) /\ wire' = wire
      BY <1>9
    <3>2. Over(c) => (Announces(x)' => Announces(x))
      BY <1>2, <1>11, <3>1 DEF Announces
    <3> QED
      BY <1>2, <2>1, <3>1, <3>2 DEF Spent
  <2>5. Over(c)' <=> Over(c)
    BY <1>2 DEF Over
  <2> QED
    BY <1>2, <1>4, <2>1, <2>2, <2>3, <2>4, <2>5 DEF Tended
<1> QED
  BY <1>2, <1>9, <1>13, <1>14, <1>15 DEF Peace

LEMMA InitCalm == Init => Calm
<1> SUFFICES ASSUME Init PROVE Peace
  BY DEF Calm
<1>1. \A c \in Clients : Greeted(c)
  BY DEF Init, Greeted
<1>2. \A x \in Contexts : Tended(x)
  <2> SUFFICES ASSUME NEW x \in Contexts PROVE Tended(x)
    OBVIOUS
  <2>1. IInv
    BY InitIInv
  <2>2. socket[x] = None
    BY DEF Init
  <2>3. AtRest(x) /\ \A c \in Clients : socket[x] # c
    BY <2>1, <2>2, NameFacts DEF IInv, Owned
  <2> QED
    BY <2>3 DEF Tended, AtRest, Dirty
<1> QED
  BY <1>1, <1>2 DEF Init, Peace

(* Who is patient was so before, and every action of the patient keeps the   *)
(* peace.                                                                   *)
LEMMA StepCalm == IInv /\ TypeOK' /\ Calm /\ [Next]_vars => Calm'
<1> SUFFICES ASSUME IInv, TypeOK', Calm, [Next]_vars, patient' PROVE Peace'
  BY DEF Calm
<1>1. CASE UNCHANGED vars
  <2>1. Peace
    BY <1>1 DEF Calm, vars, watched
  <2>2. UNCHANGED <<client, sent, wire, handle, context, bound, recvs, port, fields, inUse, pc, packet,
                    answers, tainted, unheard>>
    BY <1>1 DEF vars, watched, peers, sockets
  <2>3. /\ \A x : /\ AtRest(x)' <=> AtRest(x)
                  /\ Announces(x)' <=> Announces(x)
                  /\ EndTold(x)' <=> EndTold(x)
        /\ UNCHANGED <<socket, sendQueue, sending, pendingData>>
    BY <2>2, RestKept
  <2>4. \A c \in Clients : Greeted(c)'
    BY <2>1, <2>2 DEF Peace, Greeted
  <2>5. \A x \in Contexts : Tended(x)'
    BY <2>1, <2>2, <2>3, StillTended
  <2> QED
    BY <2>1, <2>2, <2>4, <2>5 DEF Peace
<1>2. ASSUME NEW c \in Clients, accept(c) \/ recv_completes(c) PROVE Peace'
  <2>1. Peace
    BY <1>2 DEF Calm, accept, recv_completes, watched
  <2> QED
    BY <1>2, <2>1, acceptPeace, recv_completesPeace
<1>3. ASSUME NEW c \in Clients, submit(c) PROVE Peace'
  <2>1. Peace /\ Ready(c)
    BY <1>3 DEF Calm, submit
  <2> QED
    BY <1>3, <2>1, submitPeace
<1>4. ASSUME NEW c \in Clients, disconnect(c) PROVE Peace'
  <2>1. Peace /\ Ready(c)
    BY <1>4 DEF Calm, disconnect
  <2> QED
    BY <1>4, <2>1, disconnectPeace
<1>5. ASSUME NEW c \in Clients, check_client_timeouts(c) PROVE Peace'
  <2>1. Peace /\ (client[c] = "gone" \/ Ready(c))
    BY <1>5 DEF Calm, check_client_timeouts
  <2> QED
    BY <1>5, <2>1, check_client_timeoutsPeace
<1>6. ASSUME NEW w \in Workers, worker(w) PROVE Peace'
  <2>1. patient' = patient
    <3>1. CASE take(w) \/ connected(w)
      BY <3>1 DEF take, connected, watched
    <3>2. CASE bind(w) \/ disconnected(w) \/ read_sending(w)
      BY <3>2 DEF bind, disconnected, read_sending, workerUnchanged
    <3>3. CASE send_done(w) \/ send_done_empty(w)
      BY <3>3 DEF send_done, send_done_empty, workerUnchanged
    <3>4. CASE handle_client_io(w) \/ post_send(w) \/ post_recv(w)
      BY <3>4 DEF handle_client_io, post_send, post_recv, workerUnchanged
    <3> QED
      BY <1>6, <3>1, <3>2, <3>3, <3>4 DEF worker
  <2>2. Peace
    BY <2>1 DEF Calm
  <2> QED
    BY <1>6, <2>2, takePeace, connectedPeace, bindPeace, disconnectedPeace, read_sendingPeace, send_donePeace,
       send_done_emptyNever, handle_client_ioPeace, post_sendPeace, post_recvPeace DEF worker
<1> QED
  BY <1>1, <1>2, <1>3, <1>4, <1>5, <1>6 DEF Next

(* Every state satisfies the invariant about patient clients as well.        *)
THEOREM CalmAlways == Safety => [](IInv /\ Calm)
<1>1. Init => IInv /\ Calm
  BY InitIInv, InitCalm
<1>2. IInv /\ Calm /\ [Next]_vars => (IInv /\ Calm)'
  <2>1. IInv /\ [Next]_vars => IInv'
    BY StepIInv
  <2>2. IInv' => TypeOK'
    BY DEF IInv
  <2> QED
    BY <2>1, <2>2, StepCalm
<1> QED
  BY <1>1, <1>2, PTL DEF Safety

(* Every variable keeps its type: the pool never outgrows MAX_POOL_SIZE, and *)
(* a completion names a connection or a context, as its kind says.          *)
THEOREM TypeCorrect == Safety => []TypeOK
<1>1. IInv => TypeOK
  BY DEF IInv
<1> QED
  BY <1>1, Invariance, PTL

(* Clients that speak, close and are timed out only while nothing is under   *)
(* way for them never make a worker take a receive for a send, start a send *)
(* while one is in flight or give a context back twice or with something    *)
(* left in it: handle_client_io, post_send, ClientContextPool.release.      *)
THEOREM NothingBefalls == Safety => []SoundWhilePatient
<1>1. IInv /\ Calm => SoundWhilePatient
  BY DEF Calm, Peace, SoundWhilePatient
<1> QED
  BY <1>1, CalmAlways, PTL

(* ClientContextPool: then a context in the pool is there once, nothing      *)
(* names it any more and nothing is left in it.                             *)
THEOREM ContextsPooledAtRest == Safety => []PooledAtRest
<1>1. IInv /\ Calm => PooledAtRest
  <2> SUFFICES ASSUME IInv, Calm, patient, NEW i \in 1..Len(pool)
               PROVE  (\A j \in 1..Len(pool) : pool[j] = pool[i] => j = i) /\ AtRest(pool[i])
    BY DEF PooledAtRest
  <2>1. Sound(pool[i])
    BY DEF Calm, Peace, Sound
  <2> QED
    BY <2>1 DEF IInv, SoundPooled
<1> QED
  BY <1>1, CalmAlways, PTL

(* handle_client_io and process_message: then what a connection has been     *)
(* answered, what is still to be answered and what is still to come are the *)
(* messages its client sent, each once and in the order sent, whichever     *)
(* connections its context served before.                                   *)
THEOREM EveryMessageOnce == Safety => []ServedOnce
<1>1. IInv /\ Calm => ServedOnce
  <2> SUFFICES ASSUME IInv, Peace, NEW x \in Contexts, NEW c \in Clients, socket[x] = c
               PROVE  answers[c] \o pendingData[x] \o Announced(x) \o wire[c] = [k \in 1..sent[c] |-> k]
    BY DEF Calm, ServedOnce, ServedInOrder
  <2>1. CASE end[c] # "reset"
    BY <2>1, PeaceFacts
  <2>2. CASE end[c] = "reset"
    <3>1. Over(c)
      BY <2>2 DEF Over, IInv, Connecting
    <3>2. Spent(c, x)
      BY <3>1 DEF Peace, Tended
    <3>3. /\ pendingData[x] = <<>> /\ Announced(x) = <<>> /\ wire[c] = <<>>
          /\ answers[c] = [k \in 1..sent[c] |-> k]
      BY <3>2 DEF Spent, Announced
    <3>4. answers[c] \in Seq(1..MaxMessages)
      BY DEF IInv, TypeOK, Stream
    <3>5. answers[c] \o <<>> \o <<>> \o <<>> = answers[c]
      BY <3>4, ConcatEmptySeq
    <3> QED
      BY <3>3, <3>5
  <2> QED
    BY <2>1, <2>2
<1> QED
  BY <1>1, CalmAlways, PTL

===============================================================================
