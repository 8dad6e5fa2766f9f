--------------------------- MODULE MCReadWriteLock ---------------------------
(* A small instance of ReadWriteLock: a writer inside, two more that wait, and *)
(* readers beside them.                                                       *)
EXTENDS ReadWriteLock

CONSTANTS r1, r2, w1, w2, w3

TwoReaders == {r1, r2}
ThreeWriters == {w1, w2, w3}
=============================================================================
