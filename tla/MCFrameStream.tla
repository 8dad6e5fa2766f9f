---------------------------- MODULE MCFrameStream ----------------------------
(* A small instance of FrameStream: a frame shorter and one longer than the   *)
(* receive buffer, an empty one, and the two kinds deserialize() rejects.     *)
EXTENDS FrameStream

Frame(t, x, n) == [type |-> t, fault |-> x, length |-> n]

AllFrames == {Frame("PING", "none", 0), Frame("DATA", "none", 1), Frame("DATA", "none", 3),
              Frame("EXIT", "none", 0),
              Frame("DATA", "version", 1), Frame("PING", "crc", 2)}
=============================================================================
