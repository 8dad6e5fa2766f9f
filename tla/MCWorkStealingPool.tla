-------------------------- MODULE MCWorkStealingPool --------------------------
(* Small instances of WorkStealingPool; two tasks have the same priority, and *)
(* the least urgent one is not the last submitted.                            *)
EXTENDS WorkStealingPool

CONSTANTS a, b, c

ThreeWorkers == {a, b, c}
TwoWorkers == {a, b}
FourTasks == <<1, 3, 2, 1>>
TwoTasks == <<3, 1>>
=============================================================================
