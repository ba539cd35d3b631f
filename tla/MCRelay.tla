------------------------------- MODULE MCRelay ------------------------------
(* Instances of Relay for TLC: two leaves are interchangeable. *)
EXTENDS Relay, TLC

LeafSymmetry == Permutations(Leaves)
=============================================================================
