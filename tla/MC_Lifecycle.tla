----------------------------- MODULE MC_Lifecycle -----------------------------
(***************************************************************************)
(* Lifecycle for TLC: COMM_WORLD and two other communicators, so that the  *)
(* program can start MADWorld on one of them and pass TiledArray the same   *)
(* communicator or another one, with or without a World on it.            *)
(***************************************************************************)
EXTENDS Lifecycle
=============================================================================
