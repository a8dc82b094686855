------------------------------ MODULE MC_Bitset ------------------------------
(***************************************************************************)
(* Bitset for TLC: two instances, a block of 2 bytes, and sizes that give   *)
(* an empty bitset (no blocks), a partly used last block (3 bits in 2       *)
(* blocks) and exactly filled blocks (4 bits in 2 blocks).                  *)
(***************************************************************************)
EXTENDS Bitset

MC_Sizes == {0, 3, 4}
MC_BlockBytes == 2
=============================================================================
