---------------------------- MODULE MCDiscovery ----------------------------
(* Instances of Discovery for TLC. *)
EXTENDS Discovery, TLC

Symmetry == Permutations(Clients) \cup Permutations(Servers)
============================================================================
