------------------------------ MODULE MC_Range ------------------------------
(* Three dimensions, coordinates 0 .. 2: sizes 0, 1 and 2 on every axis. *)
EXTENDS Range

MC_Dim == 3
MC_Base == 0
MC_Coords == 0 .. 2
=============================================================================
