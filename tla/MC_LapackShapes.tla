-------------------------- MODULE MC_LapackShapes --------------------------
(***************************************************************************)
(* Operands of sizes 1 to 3: square and both kinds of rectangular A for   *)
(* svd, right-hand sides narrower and wider than A.                        *)
(***************************************************************************)
EXTENDS LapackShapes

MC_Dims == 1 .. 3
=============================================================================
