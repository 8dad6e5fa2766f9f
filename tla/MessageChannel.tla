---------------------------- MODULE MessageChannel ----------------------------
(***************************************************************************)
(* What a message protocol on top of a byte stream promises: the receiver  *)
(* gets each message once, in the order sent, and answers it when it asks  *)
(* for an answer.  No bytes, no chunks.  FrameStream implements it.        *)
(***************************************************************************)
EXTENDS Naturals, Sequences

CONSTANTS Frames,        \* the messages there are
          MaxFrames,     \* how many are sent
          Meaning(_),    \* what the receiver should take a message for
          Answers(_)     \* the answers it then owes, a sequence of none or one

VARIABLES sent, handled, replies

vars == <<sent, handled, replies>>

Init == sent = <<>> /\ handled = <<>> /\ replies = <<>>

Send(f) == /\ Len(sent) < MaxFrames
           /\ sent' = Append(sent, f)
           /\ UNCHANGED <<handled, replies>>

Receive ==
  /\ Len(handled) < Len(sent)
  /\ LET m == Meaning(sent[Len(handled) + 1])
     IN  /\ handled' = Append(handled, m)
         /\ replies' = replies \o Answers(m)
  /\ UNCHANGED sent

Next == Receive \/ \E f \in Frames : Send(f)

Safety == Init /\ [][Next]_vars

(* A message sent is received; nobody has to send.                          *)
Spec == Safety /\ WF_vars(Receive)
=============================================================================
