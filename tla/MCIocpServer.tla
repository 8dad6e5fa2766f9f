----------------------------- MODULE MCIocpServer -----------------------------
(* A small instance of IocpServer. *)
EXTENDS IocpServer

CONSTANTS ctx1, ctx2, w1, w2

TwoWorkers == {w1, w2}
TwoContexts == {ctx1, ctx2}
=============================================================================
