----------------------------- MODULE MCAckSlots -----------------------------
(* AckSlots on small instances. *)
EXTENDS AckSlots, TLC

Sym == Permutations(Macs)
=============================================================================
