----------------------------- MODULE MCThreadPool -----------------------------
(* A small instance of ThreadPool: queues longer and shorter than the number  *)
(* of idle workers.                                                           *)
EXTENDS ThreadPool

CONSTANTS a, b, c

ThreeWorkers == {a, b, c}
=============================================================================
