---------------------------- MODULE MC_MpiCudaUm ----------------------------
(* The test launched with one, two or three ranks. *)
EXTENDS MpiCudaUm

MC_MaxRanks == 3
=============================================================================
