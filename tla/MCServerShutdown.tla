--------------------------- MODULE MCServerShutdown ---------------------------
(* A small instance of ServerShutdown: one client is served while another     *)
(* waits in the backlog, or comes after the signal.                           *)
EXTENDS ServerShutdown

CONSTANTS a, b

TwoClients == {a, b}
=============================================================================
