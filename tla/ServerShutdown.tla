---------------------------- MODULE ServerShutdown ----------------------------
(***************************************************************************)
(* Network/MultiThreadServerDemo.cpp: the accept loop of main(), one       *)
(* handle_client thread per connection, and the SIGINT handler that stops  *)
(* the server; with Network/ClientDemo.cpp at the other end.               *)
(*                                                                         *)
(* Winsock runs the handler in a thread of its own, so it is concurrent    *)
(* with main().  Both walk the vector `threads' and join what is in it;    *)
(* neither takes a lock.  Where that is undefined the outcomes are a       *)
(* choice: the element is as it was, it is a moved-from thread (nothing to *)
(* join), or the process is terminated.                                    *)
(*                                                                         *)
(* A message is the number of recv() calls it takes the server to read it: *)
(* none if it is empty, more than one if it is longer than the buffer.     *)
(***************************************************************************)
EXTENDS Integers, Sequences, FiniteSets

CONSTANTS Clients,       \* processes that run ClientDemo, once each
          Backlog,       \* the argument of listen()
          MaxParts       \* bound: recv() calls the messages not yet read take

ASSUME ClientsAssumption == IsFiniteSet(Clients)
ASSUME SizesAssumption == Backlog \in Nat \ {0} /\ MaxParts \in Nat \ {0}

VARIABLES is_running, listening,  \* listening: server_fd is open
          threads,                \* the vector, by the client each one serves
          joined,                 \* of those, the ones no longer joinable
          main, mainNext,         \* where main() is, the element it joins next
          handler, handlerNext,   \* the same for the signal handler
          handlerEnd,             \* the end of the handler's loop
          process,                \* "running", "exited" or "terminated"
          conn,                   \* the server's side of each connection
          client,                 \* where each client is
          request, response,      \* parts sent and not read, in each direction
          woken                   \* main() has not been in accept() all the time
                                  \* from the signal to the end of the listener

net == <<conn, client, request, response>>
stopping == <<handler, handlerNext, handlerEnd>>
vars == <<is_running, listening, threads, joined, main, mainNext,
          handler, handlerNext, handlerEnd, process,
          conn, client, request, response, woken>>

Init == /\ is_running = TRUE /\ listening = TRUE
        /\ threads = <<>> /\ joined = {}
        /\ main = "test" /\ mainNext = 1
        /\ handler = "none" /\ handlerNext = 1 /\ handlerEnd = 0
        /\ process = "running"
        /\ conn = [c \in Clients |-> "none"]
        /\ client = [c \in Clients |-> "out"]
        /\ request = [c \in Clients |-> 0]
        /\ response = [c \in Clients |-> 0]
        /\ woken = FALSE

Alive == process = "running"
Queued == {c \in Clients : conn[c] = "backlog"}

-----------------------------------------------------------------------------
(* ClientDemo.  A connection the server never accepts works as well until   *)
(* the process is gone.                                                     *)

serverUnchanged == UNCHANGED <<is_running, listening, threads, joined, main, mainNext,
                               handler, handlerNext, handlerEnd, process, woken>>

connect(c) ==
  /\ client[c] = "out"
  /\ IF listening /\ Alive /\ Cardinality(Queued) < Backlog
       THEN /\ client' = [client EXCEPT ![c] = "prompt"]
            /\ conn' = [conn EXCEPT ![c] = "backlog"]
       ELSE /\ client' = [client EXCEPT ![c] = "gone"]
            /\ UNCHANGED conn
  /\ UNCHANGED <<request, response>> /\ serverUnchanged

submit(c, parts) ==
  /\ client[c] = "prompt" /\ request[c] + parts <= MaxParts
  /\ client' = [client EXCEPT ![c] = "waiting"]
  /\ request' = [request EXCEPT ![c] = IF conn[c] = "closed" THEN 0 ELSE @ + parts]
  /\ UNCHANGED <<conn, response>> /\ serverUnchanged

(* "exit" is sent like any message; then the socket is closed.              *)
quit(c) ==
  /\ client[c] = "prompt"
  /\ client' = [client EXCEPT ![c] = "gone"]
  /\ request' = [request EXCEPT ![c] = IF conn[c] = "closed" THEN 0 ELSE @ + 1]
  /\ response' = [response EXCEPT ![c] = 0]
  /\ UNCHANGED conn /\ serverUnchanged

(* recv() returns responses, all that have come, or the connection is over. *)
receive(c) ==
  /\ client[c] = "waiting"
  /\ \/ /\ response[c] > 0
        /\ response' = [response EXCEPT ![c] = 0]
        /\ client' = [client EXCEPT ![c] = "prompt"]
     \/ /\ response[c] = 0
        /\ conn[c] = "closed" \/ ~Alive
        /\ client' = [client EXCEPT ![c] = "gone"]
        /\ UNCHANGED response
  /\ UNCHANGED <<conn, request>> /\ serverUnchanged

-----------------------------------------------------------------------------
(* handle_client: a thread per connection.  It does not look at is_running. *)

clientThread(c) == Alive /\ UNCHANGED client /\ serverUnchanged

(* setsockopt() may fail; then the thread closes the socket and returns.    *)
set_timeout(c) == /\ clientThread(c)
                  /\ conn[c] = "started"
                  /\ \E s \in {"open", "closed"} :
                       /\ conn' = [conn EXCEPT ![c] = s]
                       /\ request' = [request EXCEPT ![c] = IF s = "open" THEN @ ELSE 0]
                  /\ UNCHANGED response

serve(c) == /\ clientThread(c)
            /\ conn[c] = "open" /\ request[c] > 0
            /\ request' = [request EXCEPT ![c] = @ - 1]
            /\ response' = [response EXCEPT ![c] = IF client[c] = "gone" THEN 0 ELSE @ + 1]
            /\ UNCHANGED conn

(* recv() fails or returns 0: the peer has closed the connection, which it   *)
(* may have reset, or it has been silent for RECV_TIMEOUT_MS.               *)
RecvEnds_NoTimeout(c) == client[c] = "gone"
RecvEnds(c) == client[c] = "gone" \/ request[c] = 0

finish(c) == /\ clientThread(c)
             /\ conn[c] = "open" /\ RecvEnds(c)
             /\ conn' = [conn EXCEPT ![c] = "closed"]
             /\ request' = [request EXCEPT ![c] = 0]
             /\ UNCHANGED response

handle_client(c) == set_timeout(c) \/ serve(c) \/ finish(c)

-----------------------------------------------------------------------------
(* main() *)

test == /\ main = "test"
        /\ main' = IF is_running THEN "accept" ELSE "join"
        /\ UNCHANGED <<is_running, listening, threads, joined, mainNext, process, woken>>
        /\ UNCHANGED <<net, stopping>>

(* accept() waits for a client, or fails once the listener is closed.       *)
accept ==
  /\ main = "accept"
  /\ \/ /\ listening
        /\ \E c \in Queued : conn' = [conn EXCEPT ![c] = "accepted"]
        /\ main' = "emplace"
        /\ woken' = (woken \/ ~is_running)
     \/ /\ ~listening
        /\ main' = "test"
        /\ UNCHANGED <<conn, woken>>
  /\ UNCHANGED <<is_running, listening, threads, joined, mainNext, process,
                 client, request, response>>
  /\ UNCHANGED stopping

(* The connection accepted gets its thread, and the vector the thread.      *)
emplace_back ==
  /\ main = "emplace"
  /\ \E c \in Clients :
       /\ conn[c] = "accepted"
       /\ conn' = [conn EXCEPT ![c] = "started"]
       /\ threads' = Append(threads, c)
  /\ main' = "test"
  /\ UNCHANGED <<is_running, listening, joined, mainNext, process, woken,
                 client, request, response>>
  /\ UNCHANGED stopping

(* A thread is joined once it has returned. *)
Joins(c) == conn[c] = "closed" /\ joined' = joined \cup {c}

HandlerJoins(c) == handler = "join" /\ handlerNext <= handlerEnd /\ threads[handlerNext] = c

(* Two join() calls on one thread: both wait, or the second terminates.     *)
join ==
  /\ main = "join" /\ mainNext <= Len(threads)
  /\ LET c == threads[mainNext]
     IN  \/ /\ c \in joined
            /\ mainNext' = mainNext + 1 /\ UNCHANGED <<joined, process>>
         \/ /\ c \notin joined /\ Joins(c)
            /\ mainNext' = mainNext + 1 /\ UNCHANGED process
         \/ /\ c \notin joined /\ HandlerJoins(c)
            /\ process' = "terminated" /\ UNCHANGED <<mainNext, joined>>
  /\ UNCHANGED <<is_running, listening, threads, main, woken>>
  /\ UNCHANGED <<net, stopping>>

(* Either end of the process destroys the vector: of a thread that can       *)
(* still be joined that is std::terminate().                                *)
ElementsOf(s) == {s[i] : i \in 1..Len(s)}
Ends == process' = IF ElementsOf(threads) \subseteq joined THEN "exited" ELSE "terminated"

return == /\ main = "join" /\ mainNext > Len(threads)
          /\ listening' = FALSE /\ Ends
          /\ UNCHANGED <<is_running, threads, joined, main, mainNext, woken>>
          /\ UNCHANGED <<net, stopping>>

mainThread == Alive /\ (test \/ accept \/ emplace_back \/ join \/ return)

-----------------------------------------------------------------------------
(* signal_handLer() *)

stop_server == /\ handler = "none"
               /\ is_running' = FALSE
               /\ handler' = "begin"
               /\ woken' = (main # "accept")
               /\ UNCHANGED <<listening, threads, joined, main, mainNext, process>>
               /\ UNCHANGED <<net, handlerNext, handlerEnd>>

LoopEnd_OneMore == Len(threads) + 1
LoopEnd_OneLess == IF threads = <<>> THEN 0 ELSE Len(threads) - 1
LoopEnd == Len(threads)

begin == /\ handler = "begin"
         /\ handlerEnd' = LoopEnd
         /\ handler' = "join"
         /\ UNCHANGED <<is_running, listening, threads, joined, main, mainNext, process, woken>>
         /\ UNCHANGED <<net, handlerNext>>

(* The vector grew under the loop: its elements may have moved away.        *)
Invalidated == Len(threads) > handlerEnd

handler_join ==
  /\ handler = "join" /\ handlerNext <= handlerEnd
  /\ LET c == threads[handlerNext]
     IN  \/ /\ c \in joined \/ Invalidated
            /\ handlerNext' = handlerNext + 1 /\ UNCHANGED <<joined, process>>
         \/ /\ c \notin joined /\ Joins(c)
            /\ handlerNext' = handlerNext + 1 /\ UNCHANGED process
         \/ /\ Invalidated \/ (c \notin joined /\ main = "join" /\ mainNext <= Len(threads)
                                 /\ threads[mainNext] = c)
            /\ process' = "terminated" /\ UNCHANGED <<handlerNext, joined>>
  /\ UNCHANGED <<is_running, listening, threads, main, mainNext, handler, handlerEnd, woken>>
  /\ UNCHANGED net

close_listener == /\ handler = "join" /\ handlerNext > handlerEnd
                  /\ listening' = FALSE
                  /\ handler' = "exit"
                  /\ UNCHANGED <<is_running, threads, joined, main, mainNext, process, woken>>
                  /\ UNCHANGED <<net, handlerNext, handlerEnd>>

exit == /\ handler = "exit"
        /\ Ends
        /\ UNCHANGED <<is_running, listening, threads, joined, main, mainNext, woken>>
        /\ UNCHANGED <<net, stopping>>

signal_handLer == Alive /\ (begin \/ handler_join \/ close_listener \/ exit)

-----------------------------------------------------------------------------
Next == \/ \E c \in Clients : \/ connect(c) \/ quit(c) \/ receive(c)
                              \/ \E n \in 0..MaxParts : submit(c, n)
                              \/ handle_client(c)
        \/ mainThread
        \/ Alive /\ stop_server
        \/ signal_handLer

Safety == Init /\ [][Next]_vars

(* Threads that are not blocked are scheduled and recv() times out.  Users  *)
(* owe nothing: they may never connect, type or press Ctrl-C.               *)
Spec == /\ Safety
        /\ \A c \in Clients : WF_vars(handle_client(c)) /\ WF_vars(receive(c))
        /\ WF_vars(mainThread) /\ WF_vars(signal_handLer)
-----------------------------------------------------------------------------
TypeOK == /\ is_running \in BOOLEAN /\ listening \in BOOLEAN /\ woken \in BOOLEAN
          /\ threads \in Seq(Clients) /\ joined \subseteq Clients
          /\ main \in {"test", "accept", "emplace", "join"} /\ mainNext \in 1..(Len(threads) + 1)
          /\ handler \in {"none", "begin", "join", "exit"}
          /\ handlerNext \in 1..(handlerEnd + 1) /\ handlerEnd \in 0..Len(threads)
          /\ process \in {"running", "exited", "terminated"}
          /\ conn \in [Clients -> {"none", "backlog", "accepted", "started", "open", "closed"}]
          /\ client \in [Clients -> {"out", "prompt", "waiting", "gone"}]
          /\ request \in [Clients -> Nat] /\ response \in [Clients -> Nat]

(* A signal that finds main() waiting in accept(), with no client coming      *)
(* until the listener is closed, stops the server cleanly: the two loops do *)
(* not join one thread both, no thread is left for the end of the process   *)
(* to destroy, and no client accepted is cut off.                           *)
CleanStop ==
  process # "running" /\ ~woken =>
    /\ process = "exited"
    /\ \A c \in Clients : conn[c] \notin {"accepted", "started", "open"}

(* As long as no signal comes, no client waits for ever, whatever it sent:   *)
(* it is answered or it sees the connection closed.                         *)
ClientReleased ==
  [](handler = "none") =>
    \A c \in Clients : client[c] = "waiting" ~> client[c] # "waiting"

(* When no client keeps sending, a signal ends the process.                 *)
Silence == <>[](\A c \in Clients : request[c] = 0)
StopsInSilence == Silence => (handler # "none" ~> process # "running")
=============================================================================
