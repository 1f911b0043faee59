---------------------------- MODULE MCLiveMiner ----------------------------
(* LiveMiner on small instances; the jobs are interchangeable. *)
EXTENDS LiveMiner, TLC

JobSymmetry == Permutations(Jobs)
=============================================================================
