---------------------------- MODULE MCRawTaskPool ----------------------------
(* Small instances of RawTaskPool.                                            *)
EXTENDS RawTaskPool

CONSTANTS a, b, c

ThreeWorkers == {a, b, c}
TwoWorkers == {a, b}
=============================================================================
