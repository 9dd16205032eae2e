----------------------------- MODULE MCTcpServer -----------------------------
(* Instances of TcpServer. *)
EXTENDS TcpServer
CONSTANTS a1, u1
============================================================================
