-------------------------- MODULE ServerShutdownProofs --------------------------
(***************************************************************************)
(* Proofs about ServerShutdown, for every finite set of clients, every     *)
(* backlog and every bound on the messages.                                *)
(***************************************************************************)
EXTENDS ServerShutdown, FiniteSetTheorems, SequenceTheorems, TLAPS

(* A client that has not called connect() has no connection.                *)
ConnectsOnce == \A c \in Clients : client[c] = "out" => conn[c] = "none"

(* main() has one accepted connection in its hands at most; every other one *)
(* that was accepted has one element of threads and no other has, and a     *)
(* thread that was joined has returned.                                     *)
InHand ==
  \A c \in Clients : conn[c] = "accepted" =>
    main = "emplace" /\ \A d \in Clients : conn[d] = "accepted" => d = c
ThreadPerConnection ==
  /\ \A i, j \in 1..Len(threads) : threads[i] = threads[j] => i = j
  /\ ElementsOf(threads) = {c \in Clients : conn[c] \in {"started", "open", "closed"}}
  /\ \A c \in joined : conn[c] = "closed"

(* While the handler joins, main() is still in accept(); it comes out of it *)
(* when every thread has been joined.                                       *)
Asleep ==
  /\ is_running <=> handler = "none"
  /\ main = "join" \/ woken => ~is_running
  /\ Alive /\ ~listening => handler = "exit"
  /\ ~woken => /\ handler \in {"begin", "join"} => main = "accept"
               /\ handler = "exit" => main # "emplace" /\ ~listening

(* Both loops leave only joined threads behind them: main()'s always, the   *)
(* handler's unless the vector grew under it.                               *)
MainLoop == \A i \in 1..(mainNext - 1) : threads[i] \in joined
HandlerLoop ==
  /\ handler = "exit" => handlerNext > handlerEnd
  /\ ~woken => /\ handler \in {"join", "exit"} => Len(threads) = handlerEnd
               /\ \A i \in 1..(handlerNext - 1) : threads[i] \in joined

IInv == /\ TypeOK /\ ConnectsOnce /\ InHand /\ ThreadPerConnection
        /\ Asleep /\ MainLoop /\ HandlerLoop /\ CleanStop

Served == {"started", "open", "closed"}

(***************************************************************************)
(* The vector of threads                                                   *)
(***************************************************************************)

(* The numbers the loops count with.                                       *)
LEMMA LoopFacts ==
  ASSUME TypeOK
  PROVE  /\ Len(threads) \in Nat /\ mainNext \in Nat /\ handlerNext \in Nat /\ handlerEnd \in Nat
         /\ mainNext >= 1 /\ mainNext <= Len(threads) + 1
         /\ handlerNext >= 1 /\ handlerNext <= handlerEnd + 1 /\ handlerEnd <= Len(threads)
         /\ \A i \in 1..Len(threads) : threads[i] \in Clients
<1>1. Len(threads) \in Nat /\ \A i \in 1..Len(threads) : threads[i] \in Clients
  BY LenProperties, ElementOfSeq DEF TypeOK
<1>2. handlerEnd \in Nat /\ handlerEnd <= Len(threads)
  BY <1>1 DEF TypeOK
<1>3. handlerNext \in Nat /\ handlerNext >= 1 /\ handlerNext <= handlerEnd + 1
  BY <1>2 DEF TypeOK
<1>4. mainNext \in Nat /\ mainNext >= 1 /\ mainNext <= Len(threads) + 1
  BY <1>1 DEF TypeOK
<1> QED
  BY <1>1, <1>2, <1>3, <1>4

(* When a loop has joined every element, every thread has returned and no   *)
(* connection is served any more.                                           *)
LEMMA AllReturned ==
  ASSUME TypeOK, ThreadPerConnection, \A i \in 1..Len(threads) : threads[i] \in joined
  PROVE  /\ \A c \in Clients : conn[c] \notin {"started", "open"}
         /\ ElementsOf(threads) \subseteq joined
<1>0. ElementsOf(threads) \subseteq joined
  BY DEF ElementsOf
<1> SUFFICES ASSUME NEW c \in Clients, conn[c] \in {"started", "open"} PROVE FALSE
  BY <1>0
<1>1. c \in ElementsOf(threads)
  BY DEF ThreadPerConnection
<1>2. c \in joined
  BY <1>1 DEF ElementsOf
<1> QED
  BY <1>2 DEF ThreadPerConnection

(* What emplace_back() appends.                                             *)
LEMMA AppendMoves ==
  ASSUME TypeOK, NEW c \in Clients, threads' = Append(threads, c)
  PROVE  /\ threads' \in Seq(Clients) /\ Len(threads') = Len(threads) + 1
         /\ \A i \in 1..Len(threads) : threads'[i] = threads[i]
         /\ threads'[Len(threads) + 1] = c
         /\ ElementsOf(threads') = ElementsOf(threads) \cup {c}
<1>1. /\ threads' \in Seq(Clients) /\ Len(threads') = Len(threads) + 1
      /\ \A i \in 1..Len(threads) : threads'[i] = threads[i]
      /\ threads'[Len(threads) + 1] = c
  BY AppendProperties DEF TypeOK
<1>2. \A i : i \in 1..Len(threads') <=> i \in 1..Len(threads) \/ i = Len(threads) + 1
  BY <1>1, LoopFacts
<1>3. ElementsOf(threads') = ElementsOf(threads) \cup {c}
  BY <1>1, <1>2 DEF ElementsOf
<1> QED
  BY <1>1, <1>3

(***************************************************************************)
(* The invariant, action by action                                         *)
(***************************************************************************)
LEMMA InitIInv == Init => IInv
<1> SUFFICES ASSUME Init PROVE IInv
  OBVIOUS
<1>1. threads \in Seq(Clients) /\ Len(threads) = 0
  BY EmptySeq DEF Init
<1>2. TypeOK
  <2>1. mainNext \in 1..(Len(threads) + 1) /\ handlerNext \in 1..(handlerEnd + 1)
        /\ handlerEnd \in 0..Len(threads)
    BY <1>1 DEF Init
  <2>2. /\ conn \in [Clients -> {"none", "backlog", "accepted", "started", "open", "closed"}]
        /\ client \in [Clients -> {"out", "prompt", "waiting", "gone"}]
        /\ request \in [Clients -> Nat] /\ response \in [Clients -> Nat]
    BY DEF Init
  <2> QED
    BY <1>1, <2>1, <2>2 DEF Init, TypeOK
<1>3. ThreadPerConnection
  <2>1. ElementsOf(threads) = {}
    BY <1>1 DEF ElementsOf
  <2> QED
    BY <1>1, <2>1 DEF Init, ThreadPerConnection
<1>4. CleanStop /\ ConnectsOnce /\ InHand
  BY DEF Init, CleanStop, ConnectsOnce, InHand
<1>5. Asleep /\ MainLoop /\ HandlerLoop
  BY DEF Init, Asleep, Alive, MainLoop, HandlerLoop
<1> QED
  BY <1>2, <1>3, <1>4, <1>5 DEF IInv

(* What the clients and the threads that serve them may do to the           *)
(* connections: connect once, be served, close.                             *)
Moves(c) ==
  \/ conn'[c] = conn[c] /\ (client'[c] = "out" => client[c] = "out")
  \/ Alive /\ conn[c] = "none" /\ conn'[c] = "backlog" /\ client'[c] # "out"
  \/ /\ Alive /\ conn[c] \in {"started", "open"} /\ conn'[c] \in {"open", "closed"}
     /\ client'[c] = client[c]

NetTypeOK ==
  /\ conn \in [Clients -> {"none", "backlog", "accepted", "started", "open", "closed"}]
  /\ client \in [Clients -> {"out", "prompt", "waiting", "gone"}]
  /\ request \in [Clients -> Nat] /\ response \in [Clients -> Nat]

LEMMA NetIInv ==
  ASSUME IInv, NetTypeOK', serverUnchanged, \A c \in Clients : Moves(c)
  PROVE  IInv'
<1> USE DEF IInv
<1>1. UNCHANGED <<is_running, listening, threads, joined, main, mainNext,
                  handler, handlerNext, handlerEnd, process, woken>>
  BY DEF serverUnchanged
<1>2. TypeOK'
  BY <1>1 DEF TypeOK, NetTypeOK
<1>3. ThreadPerConnection'
  <2>1. \A c \in Clients : conn'[c] \in Served <=> conn[c] \in Served
    BY DEF Moves, Served
  <2>2. ElementsOf(threads)' = {c \in Clients : conn'[c] \in Served}
    BY <1>1, <2>1 DEF ThreadPerConnection, ElementsOf, Served
  <2>3. \A c \in joined : c \in Clients /\ conn[c] = "closed"
    BY DEF ThreadPerConnection, TypeOK
  <2>4. \A c \in joined' : conn'[c] = "closed"
    BY <1>1, <2>3 DEF Moves
  <2> QED
    BY <1>1, <2>2, <2>4 DEF ThreadPerConnection, Served
<1>4. CleanStop'
  <2> SUFFICES ASSUME process' # "running", ~woken'
               PROVE  /\ process' = "exited"
                      /\ \A c \in Clients : conn'[c] \notin {"accepted", "started", "open"}
    BY DEF CleanStop
  <2>1. /\ process = "exited" /\ ~Alive
        /\ \A c \in Clients : conn[c] \notin {"accepted", "started", "open"}
    BY <1>1 DEF CleanStop, Alive
  <2> QED
    BY <1>1, <2>1 DEF Moves
<1>5. ConnectsOnce'
  BY DEF ConnectsOnce, Moves
<1>6. InHand'
  <2>1. \A c \in Clients : conn'[c] = "accepted" => conn[c] = "accepted"
    BY DEF Moves
  <2> QED
    BY <1>1, <2>1 DEF InHand
<1>7. Asleep' /\ MainLoop' /\ HandlerLoop'
  BY <1>1 DEF Asleep, Alive, MainLoop, HandlerLoop
<1> QED
  BY <1>2, <1>3, <1>4, <1>5, <1>6, <1>7

LEMMA ClientIInv ==
  ASSUME IInv, NEW c \in Clients,
         \/ connect(c) \/ quit(c) \/ receive(c)
         \/ \E n \in 0..MaxParts : submit(c, n)
  PROVE  IInv'
<1> USE DEF IInv
<1>0. serverUnchanged
  BY DEF connect, quit, receive, submit
<1>1. ASSUME connect(c) PROVE NetTypeOK' /\ \A x \in Clients : Moves(x)
  <2>1. client[c] = "out" /\ conn[c] = "none" /\ UNCHANGED <<request, response>>
    BY <1>1 DEF connect, ConnectsOnce
  <2>2. CASE listening /\ Alive /\ Cardinality(Queued) < Backlog
    <3>1. /\ client' = [client EXCEPT ![c] = "prompt"]
          /\ conn' = [conn EXCEPT ![c] = "backlog"]
      BY <1>1, <2>2 DEF connect
    <3> QED
      BY <2>1, <2>2, <3>1 DEF NetTypeOK, Moves, TypeOK
  <2>3. CASE ~(listening /\ Alive /\ Cardinality(Queued) < Backlog)
    <3>1. client' = [client EXCEPT ![c] = "gone"] /\ conn' = conn
      BY <1>1, <2>3 DEF connect
    <3> QED
      BY <2>1, <3>1 DEF NetTypeOK, Moves, TypeOK
  <2> QED
    BY <2>2, <2>3
<1>2. ASSUME quit(c) PROVE NetTypeOK' /\ \A x \in Clients : Moves(x)
  <2>1. /\ client' = [client EXCEPT ![c] = "gone"] /\ conn' = conn
        /\ request' = [request EXCEPT ![c] = IF conn[c] = "closed" THEN 0 ELSE @ + 1]
        /\ response' = [response EXCEPT ![c] = 0]
    BY <1>2 DEF quit
  <2>2. request' \in [Clients -> Nat] /\ response' \in [Clients -> Nat]
    BY <2>1 DEF TypeOK
  <2> QED
    BY <2>1, <2>2 DEF NetTypeOK, Moves, TypeOK
<1>3. ASSUME receive(c) PROVE NetTypeOK' /\ \A x \in Clients : Moves(x)
  <2>1. /\ conn' = conn /\ request' = request
        /\ \E l \in {"prompt", "gone"} : client' = [client EXCEPT ![c] = l]
        /\ response' = response \/ response' = [response EXCEPT ![c] = 0]
    BY <1>3 DEF receive
  <2>2. client' \in [Clients -> {"out", "prompt", "waiting", "gone"}]
    BY <2>1 DEF TypeOK
  <2>3. response' \in [Clients -> Nat]
    <3>1. response \in [Clients -> Nat] /\ 0 \in Nat
      BY DEF TypeOK
    <3>2. [response EXCEPT ![c] = 0] \in [Clients -> Nat]
      BY <3>1, Zenon
    <3> QED
      BY <2>1, <3>1, <3>2
  <2>4. ASSUME NEW x \in Clients PROVE Moves(x)
    <3>1. PICK l \in {"prompt", "gone"} : client' = [client EXCEPT ![c] = l]
      BY <2>1
    <3>2. client'[x] = IF x = c THEN l ELSE client[x]
      BY <3>1 DEF TypeOK
    <3> QED
      BY <2>1, <3>2 DEF Moves
  <2> QED
    BY <2>1, <2>2, <2>3, <2>4 DEF NetTypeOK, TypeOK
<1>4. ASSUME NEW n \in 0..MaxParts, submit(c, n)
      PROVE  NetTypeOK' /\ \A x \in Clients : Moves(x)
  <2>1. /\ client' = [client EXCEPT ![c] = "waiting"] /\ conn' = conn /\ response' = response
        /\ request' = [request EXCEPT ![c] = IF conn[c] = "closed" THEN 0 ELSE @ + n]
    BY <1>4 DEF submit
  <2>2. n \in Nat /\ request[c] + n \in Nat
    BY SizesAssumption DEF TypeOK
  <2>3. request' \in [Clients -> Nat]
    BY <2>1, <2>2 DEF TypeOK
  <2> QED
    BY <2>1, <2>3 DEF NetTypeOK, Moves, TypeOK
<1> QED
  BY <1>0, <1>1, <1>2, <1>3, <1>4, NetIInv

LEMMA handle_clientIInv ==
  ASSUME IInv, NEW c \in Clients, handle_client(c)
  PROVE  IInv'
<1> USE DEF IInv
<1>0. serverUnchanged /\ Alive /\ client' = client
  BY DEF handle_client, set_timeout, serve, finish, clientThread
<1>1. /\ conn[c] \in {"started", "open"}
      /\ \E s \in {"open", "closed"} : conn' = [conn EXCEPT ![c] = s]
  <2>1. CASE set_timeout(c)
    BY <2>1 DEF set_timeout
  <2>2. CASE serve(c)
    <3>1. conn[c] = "open" /\ conn' = [conn EXCEPT ![c] = "open"]
      BY <2>2 DEF serve, TypeOK
    <3> QED
      BY <3>1
  <2>3. CASE finish(c)
    BY <2>3 DEF finish
  <2> QED
    BY <2>1, <2>2, <2>3 DEF handle_client
<1>2. request' \in [Clients -> Nat] /\ response' \in [Clients -> Nat]
  <2>1. CASE set_timeout(c)
    BY <2>1 DEF set_timeout, TypeOK
  <2>2. CASE serve(c)
    <3>1. request[c] - 1 \in Nat /\ response[c] + 1 \in Nat
      BY <2>2 DEF serve, TypeOK
    <3> QED
      BY <2>2, <3>1 DEF serve, TypeOK
  <2>3. CASE finish(c)
    BY <2>3 DEF finish, TypeOK
  <2> QED
    BY <2>1, <2>2, <2>3 DEF handle_client
<1>3. NetTypeOK' /\ \A x \in Clients : Moves(x)
  BY <1>0, <1>1, <1>2 DEF NetTypeOK, Moves, TypeOK
<1> QED
  BY <1>0, <1>3, NetIInv

(* The vector of threads, the joined ones and the connections with a thread *)
(* are left alone by whoever neither accepts nor serves.                    *)
LEMMA SameConnections ==
  ASSUME IInv, UNCHANGED <<threads, conn, client>>,
         joined' = joined \/ \E c \in Clients : joined' = joined \cup {c} /\ conn[c] = "closed"
  PROVE  ThreadPerConnection' /\ ConnectsOnce'
BY DEF IInv, ThreadPerConnection, ElementsOf, ConnectsOnce

LEMMA testIInv ==
  ASSUME IInv, Alive, test
  PROVE  IInv'
<1> USE DEF IInv
<1>1. /\ main = "test" /\ main' = IF is_running THEN "accept" ELSE "join"
      /\ UNCHANGED <<is_running, listening, threads, joined, mainNext, process, woken,
                     conn, client, request, response, handler, handlerNext, handlerEnd>>
  BY DEF test, net, stopping
<1>2. TypeOK' /\ InHand'
  BY <1>1 DEF TypeOK, InHand
<1>3. ThreadPerConnection' /\ ConnectsOnce'
  BY <1>1, SameConnections
<1>4. Asleep'
  BY <1>1 DEF Asleep, Alive
<1>5. MainLoop' /\ HandlerLoop' /\ CleanStop'
  BY <1>1 DEF MainLoop, HandlerLoop, CleanStop
<1> QED
  BY <1>2, <1>3, <1>4, <1>5

LEMMA acceptIInv ==
  ASSUME IInv, Alive, accept
  PROVE  IInv'
<1> USE DEF IInv
<1>1. /\ main = "accept"
      /\ UNCHANGED <<is_running, listening, threads, joined, mainNext, process,
                     client, request, response, handler, handlerNext, handlerEnd>>
  BY DEF accept, stopping
<1>2. CleanStop'
  BY <1>1 DEF Alive, CleanStop
<1>3. ASSUME ~listening, main' = "test", UNCHANGED <<conn, woken>>
      PROVE  IInv'
  <2>1. TypeOK' /\ InHand'
    BY <1>1, <1>3 DEF TypeOK, InHand
  <2>2. ThreadPerConnection' /\ ConnectsOnce'
    BY <1>1, <1>3, SameConnections
  <2>3. Asleep'
    <3>1. handler = "exit"
      BY <1>3 DEF Asleep
    <3> QED
      BY <1>1, <1>3, <3>1 DEF Asleep, Alive
  <2>4. MainLoop' /\ HandlerLoop'
    BY <1>1, <1>3 DEF MainLoop, HandlerLoop
  <2> QED
    BY <1>2, <2>1, <2>2, <2>3, <2>4
<1>4. ASSUME NEW c \in Clients, conn[c] = "backlog", listening,
             conn' = [conn EXCEPT ![c] = "accepted"],
             main' = "emplace", woken' = (woken \/ ~is_running)
      PROVE  IInv'
  <2>1. conn'[c] = "accepted" /\ \A d \in Clients : d # c => conn'[d] = conn[d]
    BY <1>4 DEF TypeOK
  <2>2. TypeOK'
    <3>1. conn' \in [Clients -> {"none", "backlog", "accepted", "started", "open", "closed"}]
      BY <1>4 DEF TypeOK
    <3>2. main' \in {"test", "accept", "emplace", "join"} /\ woken' \in BOOLEAN
      BY <1>4 DEF TypeOK
    <3> QED
      BY <1>1, <3>1, <3>2 DEF TypeOK
  <2>3. InHand'
    <3>1. \A d \in Clients : conn[d] # "accepted"
      BY <1>1 DEF InHand
    <3> QED
      BY <1>4, <2>1, <3>1 DEF InHand
  <2>4. ThreadPerConnection'
    <3>1. {d \in Clients : conn'[d] \in Served} = {d \in Clients : conn[d] \in Served}
      BY <1>4, <2>1 DEF Served
    <3>2. ElementsOf(threads)' = ElementsOf(threads)
      BY <1>1 DEF ElementsOf
    <3>3. \A d \in joined' : conn'[d] = "closed"
      BY <1>1, <1>4, <2>1 DEF ThreadPerConnection, TypeOK
    <3> QED
      BY <1>1, <3>1, <3>2, <3>3 DEF ThreadPerConnection, Served
  <2>5. ConnectsOnce'
    BY <1>1, <1>4, <2>1 DEF ConnectsOnce
  <2>6. Asleep'
    BY <1>1, <1>4 DEF Asleep, Alive, TypeOK
  <2>7. MainLoop' /\ HandlerLoop'
    BY <1>1, <1>4 DEF MainLoop, HandlerLoop
  <2> QED
    BY <1>2, <2>2, <2>3, <2>4, <2>5, <2>6, <2>7
<1> QED
  BY <1>3, <1>4 DEF accept, Queued

LEMMA emplace_backIInv ==
  ASSUME IInv, Alive, emplace_back
  PROVE  IInv'
<1> USE DEF IInv
<1>1. /\ main = "emplace" /\ main' = "test"
      /\ UNCHANGED <<is_running, listening, joined, mainNext, process, woken,
                     client, request, response, handler, handlerNext, handlerEnd>>
  BY DEF emplace_back, stopping
<1>2. PICK c \in Clients : /\ conn[c] = "accepted"
                           /\ conn' = [conn EXCEPT ![c] = "started"]
                           /\ threads' = Append(threads, c)
  BY DEF emplace_back
<1>3. conn'[c] = "started" /\ \A d \in Clients : d # c => conn'[d] = conn[d]
  BY <1>2 DEF TypeOK
<1>4. /\ threads' \in Seq(Clients) /\ Len(threads') = Len(threads) + 1
      /\ \A i \in 1..Len(threads) : threads'[i] = threads[i]
      /\ threads'[Len(threads) + 1] = c
      /\ ElementsOf(threads') = ElementsOf(threads) \cup {c}
  BY <1>2, AppendMoves
<1>5. TypeOK'
  <2>1. mainNext' \in 1..(Len(threads') + 1) /\ handlerEnd' \in 0..Len(threads')
    BY <1>1, <1>4, LoopFacts
  <2>2. conn' \in [Clients -> {"none", "backlog", "accepted", "started", "open", "closed"}]
    BY <1>2 DEF TypeOK
  <2> QED
    BY <1>1, <1>4, <2>1, <2>2 DEF TypeOK
<1>6. InHand'
  <2>1. \A d \in Clients : conn'[d] # "accepted"
    BY <1>2, <1>3 DEF InHand
  <2> QED
    BY <2>1 DEF InHand
<1>7. ThreadPerConnection'
  <2>1. \A i \in 1..Len(threads) : threads[i] # c
    BY <1>2 DEF ThreadPerConnection, ElementsOf
  <2>2. ASSUME NEW i \in 1..Len(threads'), NEW j \in 1..Len(threads'),
               threads'[i] = threads'[j]
        PROVE  i = j
    <3>1. /\ i \in 1..Len(threads) \/ i = Len(threads) + 1
          /\ j \in 1..Len(threads) \/ j = Len(threads) + 1
      BY <1>4, LoopFacts
    <3> QED
      BY <1>4, <2>1, <2>2, <3>1 DEF ThreadPerConnection
  <2>3. ElementsOf(threads)' = ElementsOf(threads) \cup {c}
    BY <1>4 DEF ElementsOf
  <2>4. {x \in Clients : conn'[x] \in Served} = {x \in Clients : conn[x] \in Served} \cup {c}
    BY <1>3 DEF Served
  <2>5. \A x \in joined' : conn'[x] = "closed"
    BY <1>1, <1>2, <1>3 DEF ThreadPerConnection, TypeOK
  <2> QED
    BY <2>2, <2>3, <2>4, <2>5 DEF ThreadPerConnection, Served
<1>8. ConnectsOnce'
  BY <1>1, <1>2, <1>3 DEF ConnectsOnce
<1>9. woken \/ handler = "none"
  BY <1>1 DEF Asleep, TypeOK
<1>10. Asleep'
  BY <1>1, <1>9 DEF Asleep, Alive
<1>11. \A i \in 1..(mainNext - 1) : threads'[i] = threads[i]
  BY <1>4, LoopFacts
<1>12. \A i \in 1..(handlerNext - 1) : threads'[i] = threads[i]
  BY <1>4, LoopFacts
<1>13. MainLoop'
  BY <1>1, <1>11 DEF MainLoop
<1>14. HandlerLoop'
  BY <1>1, <1>9, <1>12 DEF HandlerLoop
<1>15. CleanStop'
  BY <1>1 DEF Alive, CleanStop
<1> QED
  BY <1>5, <1>6, <1>7, <1>8, <1>10, <1>13, <1>14, <1>15

(* Both loops go on with one more thread joined, and one that has returned; *)
(* they meet at one thread only if main() was woken.                        *)
LEMMA joinIInv ==
  ASSUME IInv, Alive, join
  PROVE  IInv'
<1> USE DEF IInv
<1> DEFINE c == threads[mainNext]
<1>1. /\ main = "join" /\ mainNext <= Len(threads)
      /\ UNCHANGED <<is_running, listening, threads, main, woken, conn, client, request, response,
                     handler, handlerNext, handlerEnd>>
  BY DEF join, net, stopping
<1>2. /\ process' = process \/ (process' = "terminated" /\ handler = "join")
      /\ \/ mainNext' = mainNext + 1 /\ c \in joined'
         \/ mainNext' = mainNext
      /\ joined' = joined \/ (joined' = joined \cup {c} /\ conn[c] = "closed")
  BY DEF join, Joins, HandlerJoins
<1>3. c \in Clients
  BY <1>1, LoopFacts
<1> HIDE DEF c
<1>4. TypeOK'
  <2>1. mainNext' \in 1..(Len(threads) + 1)
    BY <1>1, <1>2, LoopFacts
  <2>2. joined' \subseteq Clients /\ process' \in {"running", "exited", "terminated"}
    BY <1>2, <1>3 DEF TypeOK
  <2> QED
    BY <1>1, <2>1, <2>2 DEF TypeOK
<1>5. ThreadPerConnection' /\ ConnectsOnce'
  BY <1>1, <1>2, <1>3, SameConnections
<1>6. InHand'
  BY <1>1 DEF InHand
<1>7. Asleep'
  BY <1>1, <1>2 DEF Asleep, Alive
<1>8. CleanStop'
  BY <1>1, <1>2 DEF Asleep, CleanStop, Alive
<1>9. MainLoop'
  <2> SUFFICES ASSUME NEW i \in 1..(mainNext' - 1) PROVE threads'[i] \in joined'
    BY DEF MainLoop
  <2>1. i \in 1..(mainNext - 1) \/ (i = mainNext /\ mainNext' = mainNext + 1)
    BY <1>2, LoopFacts
  <2> QED
    BY <1>1, <1>2, <2>1, LoopFacts DEF MainLoop, c
<1>10. HandlerLoop'
  BY <1>1, <1>2 DEF HandlerLoop
<1> QED
  BY <1>4, <1>5, <1>6, <1>7, <1>8, <1>9, <1>10

LEMMA returnIInv ==
  ASSUME IInv, Alive, return
  PROVE  IInv'
<1> USE DEF IInv
<1>1. /\ main = "join" /\ mainNext > Len(threads) /\ listening' = FALSE /\ Ends
      /\ UNCHANGED <<is_running, threads, joined, main, mainNext, woken, conn, client,
                     request, response, handler, handlerNext, handlerEnd>>
  BY DEF return, net, stopping
<1>2. \A i \in 1..Len(threads) : threads[i] \in joined
  BY <1>1, LoopFacts DEF MainLoop
<1>3. process' = "exited" /\ \A c \in Clients : conn[c] \notin {"accepted", "started", "open"}
  BY <1>1, <1>2, AllReturned DEF Ends, InHand
<1>4. CleanStop'
  BY <1>1, <1>3 DEF CleanStop
<1>5. TypeOK' /\ InHand'
  BY <1>1, <1>3 DEF TypeOK, InHand
<1>6. ThreadPerConnection' /\ ConnectsOnce'
  BY <1>1, SameConnections
<1>7. Asleep' /\ MainLoop' /\ HandlerLoop'
  BY <1>1, <1>3 DEF Asleep, Alive, MainLoop, HandlerLoop
<1> QED
  BY <1>4, <1>5, <1>6, <1>7

LEMMA stop_serverIInv ==
  ASSUME IInv, Alive, stop_server
  PROVE  IInv'
<1> USE DEF IInv
<1>1. /\ handler = "none" /\ handler' = "begin" /\ is_running' = FALSE
      /\ woken' = (main # "accept")
      /\ UNCHANGED <<listening, threads, joined, main, mainNext, process, conn, client,
                     request, response, handlerNext, handlerEnd>>
  BY DEF stop_server, net
<1>2. TypeOK' /\ InHand'
  BY <1>1 DEF TypeOK, InHand
<1>3. ThreadPerConnection' /\ ConnectsOnce'
  BY <1>1, SameConnections
<1>4. Asleep'
  BY <1>1 DEF Asleep, Alive
<1>5. ~woken
  BY <1>1 DEF Asleep
<1>6. MainLoop' /\ HandlerLoop' /\ CleanStop'
  BY <1>1, <1>5 DEF MainLoop, HandlerLoop, CleanStop, Alive
<1> QED
  BY <1>2, <1>3, <1>4, <1>6

LEMMA beginIInv ==
  ASSUME IInv, Alive, begin
  PROVE  IInv'
<1> USE DEF IInv
<1>1. /\ handler = "begin" /\ handler' = "join" /\ handlerEnd' = Len(threads)
      /\ UNCHANGED <<is_running, listening, threads, joined, main, mainNext, process, woken,
                     conn, client, request, response, handlerNext>>
  BY DEF begin, LoopEnd, net
<1>2. TypeOK' /\ InHand'
  <2>1. handlerEnd' \in 0..Len(threads') /\ handlerNext' \in 1..(handlerEnd' + 1)
    BY <1>1, LoopFacts
  <2> QED
    BY <1>1, <2>1 DEF TypeOK, InHand
<1>3. ThreadPerConnection' /\ ConnectsOnce'
  BY <1>1, SameConnections
<1>4. Asleep'
  BY <1>1 DEF Asleep, Alive
<1>5. MainLoop' /\ HandlerLoop' /\ CleanStop'
  BY <1>1 DEF MainLoop, HandlerLoop, CleanStop
<1> QED
  BY <1>2, <1>3, <1>4, <1>5

LEMMA handler_joinIInv ==
  ASSUME IInv, Alive, handler_join
  PROVE  IInv'
<1> USE DEF IInv
<1> DEFINE c == threads[handlerNext]
<1>1. /\ handler = "join" /\ handlerNext <= handlerEnd
      /\ UNCHANGED <<is_running, listening, threads, main, mainNext, handler, handlerEnd, woken,
                     conn, client, request, response>>
  BY DEF handler_join, net
<1>2. /\ process' = process \/ (process' = "terminated" /\ (Invalidated \/ main = "join"))
      /\ \/ handlerNext' = handlerNext + 1 /\ (c \in joined' \/ Invalidated)
         \/ handlerNext' = handlerNext
      /\ joined' = joined \/ (joined' = joined \cup {c} /\ conn[c] = "closed")
  BY DEF handler_join, Joins
<1>3. c \in Clients
  BY <1>1, LoopFacts
<1> HIDE DEF c
<1>4. TypeOK'
  <2>1. handlerNext' \in 1..(handlerEnd + 1)
    BY <1>1, <1>2, LoopFacts
  <2>2. joined' \subseteq Clients /\ process' \in {"running", "exited", "terminated"}
    BY <1>2, <1>3 DEF TypeOK
  <2> QED
    BY <1>1, <2>1, <2>2 DEF TypeOK
<1>5. ThreadPerConnection' /\ ConnectsOnce'
  BY <1>1, <1>2, <1>3, SameConnections
<1>6. InHand' /\ MainLoop'
  BY <1>1, <1>2 DEF InHand, MainLoop
<1>7. Asleep'
  BY <1>1, <1>2 DEF Asleep, Alive
<1>8. ~woken => ~Invalidated
  BY <1>1, LoopFacts DEF HandlerLoop, Invalidated
<1>9. CleanStop'
  BY <1>1, <1>2, <1>8 DEF Asleep, CleanStop, Alive
<1>10. HandlerLoop'
  <2>1. ASSUME ~woken, NEW i \in 1..(handlerNext' - 1) PROVE threads[i] \in joined'
    <3>1. i \in 1..(handlerNext - 1) \/ (i = handlerNext /\ handlerNext' = handlerNext + 1)
      BY <1>2, LoopFacts
    <3> QED
      BY <1>2, <1>8, <2>1, <3>1, LoopFacts DEF HandlerLoop, c
  <2> QED
    BY <1>1, <2>1 DEF HandlerLoop
<1> QED
  BY <1>4, <1>5, <1>6, <1>7, <1>9, <1>10

LEMMA close_listenerIInv ==
  ASSUME IInv, Alive, close_listener
  PROVE  IInv'
<1> USE DEF IInv
<1>1. /\ handler = "join" /\ handlerNext > handlerEnd /\ listening' = FALSE /\ handler' = "exit"
      /\ UNCHANGED <<is_running, threads, joined, main, mainNext, process, woken,
                     conn, client, request, response, handlerNext, handlerEnd>>
  BY DEF close_listener, net
<1>2. TypeOK' /\ InHand'
  BY <1>1 DEF TypeOK, InHand
<1>3. ThreadPerConnection' /\ ConnectsOnce'
  BY <1>1, SameConnections
<1>4. Asleep'
  BY <1>1 DEF Asleep, Alive
<1>5. MainLoop' /\ HandlerLoop' /\ CleanStop'
  BY <1>1 DEF MainLoop, HandlerLoop, CleanStop
<1> QED
  BY <1>2, <1>3, <1>4, <1>5

LEMMA exitIInv ==
  ASSUME IInv, Alive, exit
  PROVE  IInv'
<1> USE DEF IInv
<1>1. /\ handler = "exit" /\ Ends
      /\ UNCHANGED <<is_running, listening, threads, joined, main, mainNext, woken,
                     conn, client, request, response, handler, handlerNext, handlerEnd>>
  BY DEF exit, net, stopping
<1>2. ~woken => \A i \in 1..Len(threads) : threads[i] \in joined
  BY <1>1, LoopFacts DEF HandlerLoop
<1>3. ~woken => /\ process' = "exited"
                /\ \A c \in Clients : conn[c] \notin {"accepted", "started", "open"}
  BY <1>1, <1>2, AllReturned DEF Ends, InHand, Asleep
<1>4. CleanStop'
  BY <1>1, <1>3 DEF CleanStop
<1>5. process' \in {"exited", "terminated"}
  BY <1>1 DEF Ends
<1>6. TypeOK' /\ InHand'
  BY <1>1, <1>5 DEF TypeOK, InHand
<1>7. ThreadPerConnection' /\ ConnectsOnce'
  BY <1>1, SameConnections
<1>8. Asleep' /\ MainLoop' /\ HandlerLoop'
  BY <1>1, <1>5 DEF Asleep, Alive, MainLoop, HandlerLoop
<1> QED
  BY <1>4, <1>6, <1>7, <1>8

LEMMA StepIInv == IInv /\ [Next]_vars => IInv'
<1> SUFFICES ASSUME IInv, [Next]_vars PROVE IInv'
  OBVIOUS
<1>1. ASSUME NEW c \in Clients,
             \/ connect(c) \/ quit(c) \/ receive(c)
             \/ \E n \in 0..MaxParts : submit(c, n)
      PROVE  IInv'
  BY <1>1, ClientIInv
<1>2. ASSUME NEW c \in Clients, handle_client(c) PROVE IInv'
  BY <1>2, handle_clientIInv
<1>3. CASE mainThread
  BY <1>3, testIInv, acceptIInv, emplace_backIInv, joinIInv, returnIInv DEF mainThread
<1>4. CASE Alive /\ stop_server
  BY <1>4, stop_serverIInv
<1>5. CASE signal_handLer
  BY <1>5, beginIInv, handler_joinIInv, close_listenerIInv, exitIInv DEF signal_handLer
<1>6. CASE UNCHANGED vars
  BY <1>6 DEF vars, net, stopping, IInv, TypeOK, InHand, ThreadPerConnection, ElementsOf, ConnectsOnce,
              Asleep, Alive, MainLoop, HandlerLoop, CleanStop
<1> QED
  BY <1>1, <1>2, <1>3, <1>4, <1>5, <1>6 DEF Next

(* Every state of the server and its clients satisfies the invariant.       *)
THEOREM Invariance == Safety => []IInv
BY InitIInv, StepIInv, PTL DEF Safety

(***************************************************************************)
(* What the invariant says                                                 *)
(***************************************************************************)

(* Every variable of the server and of its clients keeps its type; both     *)
(* loops stay within the vector.                                            *)
THEOREM TypeCorrect == Safety => []TypeOK
<1>1. IInv => TypeOK
  BY DEF IInv
<1> QED
  BY <1>1, Invariance, PTL

(* A signal that finds main() in accept(), with no client coming until the  *)
(* listener is closed, ends the process after every thread has returned,    *)
(* and without std::terminate(), for any number of clients and connections. *)
THEOREM StopsCleanly == Safety => []CleanStop
<1>1. IInv => CleanStop
  BY DEF IInv
<1> QED
  BY <1>1, Invariance, PTL
=============================================================================
