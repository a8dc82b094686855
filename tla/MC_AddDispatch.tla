--------------------------- MODULE MC_AddDispatch ---------------------------
(***************************************************************************)
(* Two tile representations T1 and T2 and two-element tiles.  The native   *)
(* add returns the left operand's type, except that permuting two T2      *)
(* tiles yields a T1 (a representation whose permuted sum is of another   *)
(* kind), so Add<T2, T2, T2> must take the cast form although the plain    *)
(* add already returns T2.  The scaled adds return the right operand's     *)
(* type.  Factors -1 and 2 tell a scaled from an unscaled result.          *)
(***************************************************************************)
EXTENDS AddDispatch

CONSTANTS T1, T2

MC_TileTypes == {T1, T2}
MC_Pos == {1, 2}
MC_Perms == {[x \in MC_Pos |-> x], [x \in MC_Pos |-> 3 - x]}
MC_Scalars == {-1, 2}
MC_InitVals == {0, 1}
MC_MaxVal == 2
MC_NativeAdd == [p \in MC_TileTypes \X MC_TileTypes |-> p[1]]
MC_NativeAddPerm ==
    [p \in MC_TileTypes \X MC_TileTypes |-> IF p = <<T2, T2>> THEN T1 ELSE p[1]]
MC_NativeScalAdd == [p \in MC_TileTypes \X MC_TileTypes |-> p[2]]
MC_NativeScalAddPerm == [p \in MC_TileTypes \X MC_TileTypes |-> p[2]]
=============================================================================
