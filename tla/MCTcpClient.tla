----------------------------- MODULE MCTcpClient -----------------------------
(* A client for TLC. *)
EXTENDS TcpClient
=============================================================================
