---------------------------- MODULE MCRpmsgLite ----------------------------
(* RpmsgLite with symmetric tasks, for the runs without liveness. *)
EXTENDS RpmsgLite, TLC
MCSymmetry == Permutations(MasterTasks)
=============================================================================
