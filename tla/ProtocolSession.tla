---------------------------- MODULE ProtocolSession ----------------------------
(***************************************************************************)
(* Network/MultiThreadWithProtocol (v0.1): one session of the server with   *)
(* its client.  MultiThreadServerDemo.cpp (handle_client, the signal        *)
(* handler), Protocol.cpp and ClientDemo.cpp (the prompt, the heartbeat).   *)
(*                                                                         *)
(* The connection carries bytes and keeps no message apart: recv returns    *)
(* any part of what has come, and the server handles the message at the     *)
(* start of that part and forgets the rest.  What comes back is only        *)
(* counted: the client is held by an answer of no bytes, not by a wrong one.*)
(*                                                                         *)
(* Time is counted in seconds; Tick lets one pass, and passes no deadline.  *)
(***************************************************************************)
EXTENDS Integers, Sequences, FiniteSets

CONSTANTS HeaderSize,   \* sizeof(MessageHeader)
          Buffer,       \* sizeof(buffer), of the server and of the client
          ErrorSize,    \* bytes of the ERROR_MSG packet
          Lengths,      \* of the messages a user may type
          Period,       \* seconds between heartbeats
          Timeout,      \* RECV_TIMEOUT_MS
          MaxDelay,     \* within which the server catches up with what was sent
          MaxMessages,  \* bound: messages the user types
          MaxUnread     \* bound: unread bytes of answers that are told apart

ASSUME SizesAssumption == /\ HeaderSize \in Nat \ {0} /\ Buffer \in Nat /\ Buffer >= HeaderSize
                          /\ ErrorSize \in Nat \ {0} /\ Lengths \subseteq Nat
                          /\ MaxMessages \in Nat /\ MaxUnread \in Nat \ {0}
ASSUME TimesAssumption == /\ Period \in Nat \ {0} /\ Timeout \in Nat /\ MaxDelay \in Nat
                          /\ Period + MaxDelay < Timeout

VARIABLES client,   \* "out", "prompt", "waiting", "gone" (it closed) or "vanished" (it did not)
          sent,     \* messages typed
          wire,     \* what the server has not received: messages, the first perhaps cut
          replies,  \* bytes of answers the client has not read
          server,   \* "listening", "open", "closed" or "timed_out"
          process,  \* the server's: "running", "stopping" or "exited"
          beat,     \* until the heartbeat thread wakes
          age,      \* seconds the server has been behind
          quiet,    \* since the server called recv
          lost      \* ghost: why the message last typed may get no answer

vars == <<client, sent, wire, replies, server, process, beat, age, quiet, lost>>

Init == /\ client = "out" /\ sent = 0 /\ wire = <<>> /\ replies = 0
        /\ server = "listening" /\ process = "running"
        /\ beat = 0 /\ age = 0 /\ quiet = 0 /\ lost = "no"

Types == {"DATA", "EXIT", "ERROR_MSG", "PING", "PONG"}
Ended == {"closed", "timed_out"}
Here == client \in {"prompt", "waiting"}
is_running == process = "running"

-----------------------------------------------------------------------------
(* Protocol. *)

(* serialize: a header and the data. *)
serialize(type, len) == [type |-> type, len |-> len, left |-> HeaderSize + len]

Whole(m) == m.left = HeaderSize + m.len

(* deserialize of a part of n bytes: what it may return.  A part that does   *)
(* not start with a header is read as one all the same, and its bytes may   *)
(* say anything.                                                            *)
Invalid == [type |-> "none", len |-> 0]
Said(n) == {Invalid} \cup [type : Types, len : 0..(n - HeaderSize)]

deserialize(n) ==
  IF n < HeaderSize THEN {Invalid}
  ELSE IF ~Whole(Head(wire)) THEN Said(n)
  ELSE IF n < HeaderSize + Head(wire).len THEN {Invalid}
  ELSE {[type |-> Head(wire).type, len |-> Head(wire).len]}

-----------------------------------------------------------------------------
(* The client. *)

Put(m) == /\ wire' = IF server = "open" THEN Append(wire, m) ELSE wire
          /\ age' = IF wire = <<>> THEN 0 ELSE age

(* accept() in the server's main starts the session's thread, which ends at   *)
(* once if the server is stopping.                                          *)
accept == /\ server = "listening" /\ process # "exited"
          /\ server' = IF is_running THEN "open" ELSE "closed"
          /\ quiet' = 0

(* connect_to_server(), then the heartbeat thread.                           *)
connect ==
  /\ client = "out" /\ accept
  /\ client' = "prompt" /\ beat' = 0
  /\ UNCHANGED <<sent, wire, replies, process, age, lost>>

(* The user types a message of some length; main sends it and waits.         *)
submit(len) ==
  /\ client = "prompt" /\ sent < MaxMessages
  /\ Put(serialize("DATA", len))
  /\ client' = "waiting" /\ sent' = sent + 1
  /\ lost' = IF len = 0 THEN "empty" ELSE "no"
  /\ UNCHANGED <<replies, server, process, beat, quiet>>

(* "exit": no byte of the EXIT message is sent (its length is given as 0);    *)
(* the socket is closed.  With answers unread the connection is reset.      *)
Close == /\ client' = "gone"
         /\ wire' = IF replies > 0 THEN <<>> ELSE wire
         /\ age' = IF wire = <<>> THEN 0 ELSE age
         /\ UNCHANGED <<sent, replies, server, process, beat, quiet, lost>>

exit == client = "prompt" /\ Close

(* recv() of an answer: any part of what has come. *)
Smaller(a, b) == IF a < b THEN a ELSE b
Read_Full == 1..Buffer
Read == 1..Smaller(Buffer, replies)

client_recv ==
  /\ client = "waiting" /\ replies > 0
  /\ client' = "prompt"
  /\ \E n \in Read : replies' = replies - n
  /\ UNCHANGED <<sent, wire, server, process, beat, age, quiet, lost>>

(* The server has closed: recv() returns 0, or an error before the answers    *)
(* are read if bytes reached the closed socket; the client ends.            *)
client_recv_ends == client = "waiting" /\ server \in Ended /\ Close

(* send_heartbeat: a PING, then two seconds of sleep, whatever main does.    *)
NextBeat_Twice == 2 * Period
NextBeat == Period

send_heartbeat ==
  /\ Here /\ beat = 0
  /\ Put(serialize("PING", 0))
  /\ beat' = NextBeat
  /\ UNCHANGED <<client, sent, replies, server, process, quiet, lost>>

(* The client's host is lost: nothing more comes from it, nor an end.        *)
vanish == /\ Here
          /\ client' = "vanished"
          /\ UNCHANGED <<sent, wire, replies, server, process, beat, age, quiet, lost>>

-----------------------------------------------------------------------------
(* The server's thread of the session. *)

(* The bytes of the first i messages that have not been received: <<j, k>> is  *)
(* the k-th of the j-th message.                                            *)
Bytes(i) == UNION {{j} \X (1..wire[j].left) : j \in 1..i}
UpTo(i) == Cardinality(Bytes(i))

(* The wire without its first n bytes; those that begin among them, but not  *)
(* at their start, are never looked at.                                     *)
Rest(n) ==
  LET k == Cardinality({i \in 1..Len(wire) : UpTo(i) <= n})
  IN  IF k = Len(wire) THEN <<>>
      ELSE [SubSeq(wire, k + 1, Len(wire)) EXCEPT ![1].left = UpTo(k + 1) - n]

LastTyped == {i \in 1..Len(wire) : /\ wire[i].type = "DATA"
                                   /\ \A j \in (i + 1)..Len(wire) : wire[j].type # "DATA"}
PassedOver(n) == \E i \in LastTyped : i > 1 /\ UpTo(i - 1) < n

(* How many bytes of an answer are sent: of "Hello from server!" as many as   *)
(* the message had, of the PONG none, of "Invalid message format." all.     *)
Answer_ForDataOnly(m) == IF m.type = "DATA" THEN m.len ELSE 0
Answer(m) == IF m = Invalid THEN ErrorSize ELSE IF m.type = "DATA" THEN m.len ELSE 0

(* while (is_running), which only a message lets the thread look at. *)
Continues_Always == TRUE
Continues == is_running

(* One turn of the loop of handle_client: recv, deserialize, the switch.     *)
handle_client(n) ==
  /\ server = "open" /\ wire # <<>> /\ n <= UpTo(Len(wire))
  /\ wire' = Rest(n)
  /\ lost' = IF PassedOver(n) THEN "merged" ELSE lost
  /\ \E m \in deserialize(n) :
       /\ replies' = Smaller(replies + Answer(m), MaxUnread)
       /\ server' = IF m.type # "EXIT" /\ Continues THEN "open" ELSE "closed"
  /\ age' = IF wire' = <<>> THEN 0 ELSE age
  /\ quiet' = 0
  /\ UNCHANGED <<client, sent, process, beat>>

(* recv() returns 0 or an error: the client has closed, or was silent.       *)
recv_ends ==
  /\ server = "open" /\ wire = <<>>
  /\ \/ client = "gone" /\ server' = "closed"
     \/ quiet = Timeout /\ server' = "timed_out"
  /\ UNCHANGED <<client, sent, wire, replies, process, beat, age, quiet, lost>>

(* The signal handler: stop_server(), the session's thread is joined, exit.  *)
(* main, if a connection makes its accept return meanwhile, waits for the    *)
(* same thread before it returns.                                           *)
stop_server ==
  /\ process = "running"
  /\ process' = "stopping"
  /\ UNCHANGED <<client, sent, wire, replies, server, beat, age, quiet, lost>>

signal_handler ==
  /\ process = "stopping" /\ server # "open"
  /\ process' = "exited"
  /\ UNCHANGED <<client, sent, wire, replies, server, beat, age, quiet, lost>>

-----------------------------------------------------------------------------
(* A second passes, unless something is due: a heartbeat, the bytes or the   *)
(* end the server is behind with, the end of a recv.                        *)
Coming == server = "open" /\ (wire # <<>> \/ client = "gone")

Tick ==
  /\ Here => beat > 0
  /\ Coming => age < MaxDelay
  /\ server = "open" => quiet < Timeout
  /\ beat' = IF Here THEN beat - 1 ELSE beat
  /\ age' = IF Coming THEN age + 1 ELSE 0
  /\ quiet' = IF server = "open" THEN quiet + 1 ELSE quiet
  /\ UNCHANGED <<client, sent, wire, replies, server, process, lost>>

Receive == (\E n \in 1..Buffer : handle_client(n)) \/ recv_ends

Next == \/ connect \/ exit \/ vanish \/ send_heartbeat \/ client_recv \/ client_recv_ends
        \/ \E len \in Lengths : submit(len)
        \/ Receive \/ stop_server \/ signal_handler \/ Tick

(* Time passes and every thread runs; the user and the signal may not come.  *)
Spec == /\ Init /\ [][Next]_vars
        /\ WF_vars(Tick) /\ WF_vars(send_heartbeat) /\ WF_vars(Receive)
        /\ WF_vars(client_recv \/ client_recv_ends) /\ WF_vars(signal_handler)
-----------------------------------------------------------------------------
Packets == [type : {"DATA", "PING"}, len : Lengths \cup {0}, left : Nat]

(* Messages of which only the first may be cut, and none to nothing.         *)
IsStream(s) == /\ s \in Seq(Packets)
               /\ \A i \in 1..Len(s) : /\ s[i].left \in 1..(HeaderSize + s[i].len)
                                       /\ i > 1 => Whole(s[i])

TypeOK ==
  /\ client \in {"out", "prompt", "waiting", "gone", "vanished"}
  /\ sent \in 0..MaxMessages /\ replies \in 0..MaxUnread
  /\ IsStream(wire)
  /\ server \in {"listening", "open"} \cup Ended
  /\ process \in {"running", "stopping", "exited"}
  /\ beat \in 0..Period /\ age \in 0..MaxDelay /\ quiet \in 0..Timeout
  /\ lost \in {"no", "empty", "merged"}

(* The server's receive timeout ends the session of a client whose host is   *)
(* lost, and of no other: the heartbeats of a client that is there reach    *)
(* it in time, while its main thread sits at the prompt or waits for an     *)
(* answer, and whatever parts the stream comes in.                          *)
KeptAlive == server = "timed_out" => client = "vanished"

(* A client that waits for an answer gets one or an end of the connection,   *)
(* unless its message was empty (the answer has as many bytes as the        *)
(* message) or shared a recv with bytes that came before it: a heartbeat.    *)
Answered ==
  client = "waiting" /\ lost = "no" ~> client # "waiting" \/ lost # "no"

(* Once its client has closed or is lost, or the server was told to stop,    *)
(* the session's thread ends: with an end, a timeout, or the heartbeat that  *)
(* brings it back to the test of is_running.  Then the server exits.        *)
SessionEnds ==
  /\ client \in {"gone", "vanished"} ~> server # "open"
  /\ process = "stopping" ~> process = "exited"
=============================================================================
