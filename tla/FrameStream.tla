----------------------------- MODULE FrameStream -----------------------------
(***************************************************************************)
(* Network/MultiThreadWithProtocol v0.2.1: how the server cuts a client's  *)
(* byte stream back into messages.  Protocol.cpp serialize/deserialize,    *)
(* and handle_client_io, process_message and post_recv of                  *)
(* MultiThreadServerDemo.cpp, for one connection on a fresh ClientContext. *)
(*                                                                         *)
(* A byte is the pair <<i, k>>: the k-th byte of the i-th frame sent.  The *)
(* header is HeaderSize bytes; what it says is read off the frame its first *)
(* byte belongs to, which is what the program reads as long as pendingData *)
(* starts where a frame starts (FrameBoundary).  At most one receive is    *)
(* posted, so one worker at a time runs handle_client_io here; sends and   *)
(* their completions are not part of this module.                          *)
(***************************************************************************)
EXTENDS Integers, Sequences

CONSTANTS Frames,      \* records [type, fault, length]: what a peer may send
          HeaderSize,  \* sizeof(MessageHeader)
          BufferSize,  \* sizeof(ctx->buffer)
          MaxFrames    \* bound: frames the peer sends

(* fault: "none", "version" (another CURRENT_VERSION) or "crc" (payload      *)
(* damaged).                                                                *)
Types == {"DATA", "EXIT", "ERROR_MSG", "PING", "PONG"}

ASSUME FramesAssumption ==
  Frames \subseteq [type: Types, fault: {"none", "version", "crc"}, length: Nat]
ASSUME SizesAssumption == HeaderSize \in Nat \ {0} /\ BufferSize \in Nat \ {0}
ASSUME MaxFramesAssumption == MaxFrames \in Nat

VARIABLES sent,         \* frames the peer has sent
          wire,         \* bytes sent and not yet received
          pendingData,  \* ClientContext::pendingData
          pc,           \* "posted": a receive is outstanding; "parsing"
          handled,      \* message types process_message was called with
          replies       \* packets given to post_send, by type

vars == <<sent, wire, pendingData, pc, handled, replies>>

Init == /\ sent = <<>> /\ wire = <<>>
        /\ pendingData = <<>> /\ pc = "posted"
        /\ handled = <<>> /\ replies = <<>>

Size(f) == HeaderSize + f.length

-----------------------------------------------------------------------------
(* serialize() and send(): main() or the heartbeat thread of the client.    *)
serialize(i, f) == [k \in 1..Size(f) |-> <<i, k>>]

send(f) == /\ Len(sent) < MaxFrames
           /\ sent' = Append(sent, f)
           /\ wire' = wire \o serialize(Len(sent) + 1, f)
           /\ UNCHANGED <<pendingData, pc, handled, replies>>

(* A receive completes with the next n bytes, n > 0, wherever they end.     *)
Appended_Replaced(chunk) == chunk
Appended(chunk) == pendingData \o chunk

receive(n) == /\ pc = "posted"
              /\ n \in 1..BufferSize /\ n <= Len(wire)
              /\ pendingData' = Appended(SubSeq(wire, 1, n))
              /\ wire' = SubSeq(wire, n + 1, Len(wire))
              /\ pc' = "parsing"
              /\ UNCHANGED <<sent, handled, replies>>

(* The frame whose header is at the front of pendingData. *)
header == sent[pendingData[1][1]]
totalSize == HeaderSize + header.length

HasMessage_HeaderOnly == Len(pendingData) >= HeaderSize
HasMessage == /\ Len(pendingData) >= HeaderSize
              /\ Len(pendingData) >= totalSize

(* deserialize() of a whole frame returns true in each case, with a type.   *)
deserialize_NoCrc(f) == IF f.fault = "version" THEN "ERROR_MSG" ELSE f.type
deserialize(f) == IF f.fault \in {"version", "crc"} THEN "ERROR_MSG" ELSE f.type

(* process_message: DATA and PING are answered, the rest is logged.         *)
process_message_Echo(type) ==
  IF type \in {"DATA", "PING"} THEN <<type>> ELSE <<>>
process_message(type) ==
  CASE type = "DATA" -> <<"DATA">>
    [] type = "PING" -> <<"PONG">>
    [] OTHER -> <<>>

Erased_Payload == header.length
Erased == totalSize

AfterMessage_Once == "posted"
AfterMessage == "parsing"

(* One turn of the while loop of handle_client_io.                          *)
handle_message ==
  /\ pc = "parsing" /\ HasMessage
  /\ handled' = Append(handled, deserialize(header))
  /\ replies' = replies \o process_message(deserialize(header))
  /\ pendingData' = SubSeq(pendingData, Erased + 1, Len(pendingData))
  /\ pc' = AfterMessage
  /\ UNCHANGED <<sent, wire>>

(* The loop ends and the next receive is posted.                            *)
post_recv == /\ pc = "parsing" /\ ~HasMessage
             /\ pc' = "posted"
             /\ UNCHANGED <<sent, wire, pendingData, handled, replies>>

(* The peer may stop sending; the connection stays open and idle.           *)
Idle == /\ pc = "posted" /\ wire = <<>> /\ Len(sent) = MaxFrames
        /\ UNCHANGED vars

server == handle_message \/ post_recv \/ \E n \in 1..BufferSize : receive(n)

Next == (\E f \in Frames : send(f)) \/ server \/ Idle

Safety == Init /\ [][Next]_vars

(* A posted receive completes while bytes are on the wire, and the worker   *)
(* that got it goes on; the peer owes nothing.                              *)
Spec == Safety /\ WF_vars(server)
-----------------------------------------------------------------------------
TypeOK == /\ sent \in Seq(Frames) /\ Len(sent) <= MaxFrames
          /\ wire \in Seq((1..Len(sent)) \X (Nat \ {0}))
          /\ pendingData \in Seq((1..Len(sent)) \X (Nat \ {0}))
          /\ pc \in {"posted", "parsing"}
          /\ handled \in Seq(Types)
          /\ replies \in Seq({"DATA", "PONG"})

(* The bytes received and not yet handled, then those on the wire, are the  *)
(* whole frames that follow the last one handled, byte after byte: nothing  *)
(* is lost, repeated or split, so pendingData always starts at a header.    *)
FirstByte == <<Len(handled) + 1, 1>>
Follows(b) == IF b[2] < Size(sent[b[1]]) THEN <<b[1], b[2] + 1>> ELSE <<b[1] + 1, 1>>
FrameBoundary ==
  LET rest == pendingData \o wire
  IN  IF rest = <<>>
        THEN Len(handled) = Len(sent)
        ELSE /\ rest[1] = FirstByte
             /\ \A j \in 1..(Len(rest) - 1) : rest[j + 1] = Follows(rest[j])
             /\ Follows(rest[Len(rest)]) = <<Len(sent) + 1, 1>>

(* Each frame is taken for what it is, once and in order, and nothing is     *)
(* taken for a message that was not sent.                                   *)
Meaning(f) == IF f.fault = "none" THEN f.type ELSE "ERROR_MSG"
InOrder == /\ Len(handled) <= Len(sent)
           /\ \A i \in 1..Len(handled) : handled[i] = Meaning(sent[i])

(* The framing implements the message channel: what it does with chunks is   *)
(* invisible, and as long as receives are posted every message sent is      *)
(* handled in the end, also when a chunk brings several.                    *)
Answers(m) == IF m = "DATA" THEN <<"DATA">> ELSE IF m = "PING" THEN <<"PONG">> ELSE <<>>
MC == INSTANCE MessageChannel
ImplementsMessageChannel == MC!Spec
=============================================================================
