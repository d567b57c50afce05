------------------------------ MODULE MCGuard -------------------------------
(* Guard on small instances. *)
EXTENDS Guard, TLC
=============================================================================
