------------------------------ MODULE MCDhcpd ------------------------------
(* Instances of Dhcpd for TLC. *)
EXTENDS Dhcpd, TLC

CONSTANTS a, b, c

Symmetry == Permutations({a, b, c})
=============================================================================
