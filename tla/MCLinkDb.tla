------------------------------ MODULE MCLinkDb ------------------------------
(* Instances of LinkDb for TLC. *)
EXTENDS LinkDb, TLC

CONSTANTS l1, l2, l3, l4, n1

\* Every id hashes to the same bucket.
OneChain == [i \in {l1, l2, l3, l4} |-> 0]

IdSymmetry == Permutations({l1, l2, l3, l4})
=============================================================================
