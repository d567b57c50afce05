------------------------------ MODULE MCTcpOut ------------------------------
(* TcpOut on small instances. *)
EXTENDS TcpOut, TLC
=============================================================================
