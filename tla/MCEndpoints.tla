---------------------------- MODULE MCEndpoints ----------------------------
(* Endpoints with symmetric tasks and memory. *)
EXTENDS Endpoints, TLC
MCSymmetry == Permutations(Task) \union Permutations(Node)
=============================================================================
