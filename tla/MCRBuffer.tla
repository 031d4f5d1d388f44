----------------------------- MODULE MCRBuffer -----------------------------
(* Instances of RBuffer for TLC. *)
EXTENDS RBuffer, TLC

AddressSymmetry == Permutations(Addr)
============================================================================
