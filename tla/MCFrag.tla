------------------------------- MODULE MCFrag -------------------------------
(* Frag on small instances. *)
EXTENDS Frag, TLC

Symmetry == Permutations(Tasks) \union Permutations(Senders)
=============================================================================
