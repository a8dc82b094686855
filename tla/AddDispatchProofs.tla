------------------------- MODULE AddDispatchProofs -------------------------
(***************************************************************************)
(* Proof that, for every set of tile types, every native result-type       *)
(* table, every set of permutations and factors, AddTo accumulates into    *)
(* its left operand.  Each step overwrites out and last, so the invariant *)
(* needs no strengthening beyond the type invariant: what each step        *)
(* establishes follows from the step alone.                                *)
(***************************************************************************)
EXTENDS AddDispatch, TLAPS

USE AddDispatchAssumption

IInv == TypeOK /\ AddToAccumulates

Ops == {"none", "add", "add_perm", "scal_add", "scal_add_perm",
        "add_to", "scal_add_to_direct", "scal_add_to"}

(* Multiplying every element by 1 changes nothing. *)
LEMMA ScaleByOne ==
    ASSUME NEW d \in [Pos -> Int]
    PROVE  ScaleData(d, 1) = d
BY DEF ScaleData

(* The identity permutation moves no element. *)
LEMMA PermuteById ==
    ASSUME NEW d \in [Pos -> Int]
    PROVE  PermuteData(IdPerm, d) = d
<1>1. \A y \in Pos : (CHOOSE x \in Pos : IdPerm[x] = y) = y
    BY DEF IdPerm
<1>2. \A y \in Pos : PermuteData(IdPerm, d)[y] = d[y]
    BY <1>1 DEF PermuteData
<1>3. QED
    BY <1>2 DEF PermuteData

(* Adding, scaling and permuting keep the elements integers. *)
LEMMA SumType ==
    ASSUME NEW d \in [Pos -> Int], NEW e \in [Pos -> Int]
    PROVE  SumData(d, e) \in [Pos -> Int]
BY DEF SumData

LEMMA ScaleType ==
    ASSUME NEW d \in [Pos -> Int], NEW f \in Int
    PROVE  ScaleData(d, f) \in [Pos -> Int]
BY DEF ScaleData

LEMMA PermuteType ==
    ASSUME NEW d \in [Pos -> Int], NEW perm \in Perms
    PROVE  PermuteData(perm, d) \in [Pos -> Int]
<1>1. \A y \in Pos : d[CHOOSE x \in Pos : perm[x] = y] \in Int
    <2> SUFFICES ASSUME NEW y \in Pos
                 PROVE  d[CHOOSE x \in Pos : perm[x] = y] \in Int
        OBVIOUS
    <2>1. \E x \in Pos : perm[x] = y
        OBVIOUS
    <2>2. (CHOOSE x \in Pos : perm[x] = y) \in Pos
        BY <2>1, Zenon
    <2>3. QED
        BY <2>2
<1>2. QED
    BY <1>1 DEF PermuteData

(* A cast tile has the requested type and the elements it was given. *)
LEMMA CastTile ==
    ASSUME NEW T, NEW t \in Tile(Int)
    PROVE  Cast(T, t) = [type |-> T, data |-> t.data]
BY DEF Cast, Tile

(* The inputs of a step: two typed operand tiles, their sum, a result type. *)
Operands(Result, l, r) ==
    /\ TypeOK /\ Result \in TileTypes /\ l \in Slots /\ r \in Slots

(***************************************************************************)
(* Add and Add with a permutation: whichever form the enable_if selects,  *)
(* the returned tile is a typed tile, and the call is no AddTo.           *)
(***************************************************************************)
LEMMA DoAddInv ==
    ASSUME NEW Result, NEW l, NEW r, Operands(Result, l, r), DoAdd(Result, l, r)
    PROVE  IInv'
<1> DEFINE sum == SumData(tiles[l].data, tiles[r].data)
<1>1. tiles[l] \in Tile(Int) /\ tiles[r] \in Tile(Int)
    BY DEF Operands, TypeOK
<1>2. sum \in [Pos -> Int]
    BY <1>1, SumType, PermuteType DEF Tile
<1>3. add(tiles[l], tiles[r]) \in Tile(Int)
    BY <1>1, <1>2 DEF add, Tile, TypePairs
<1>4. out' = [type |-> Result, data |-> sum]
    <2>1. CASE AddIsDirect(Result, tiles[l].type, tiles[r].type)
        BY <2>1 DEF DoAdd, AddCall, AddIsDirect, add
    <2>2. CASE ~AddIsDirect(Result, tiles[l].type, tiles[r].type)
        BY <2>2, <1>3, CastTile DEF DoAdd, AddCall, add
    <2>3. QED
        BY <2>1, <2>2
<1>5. last'.op = "add" /\ last'.res = Result
    BY DEF DoAdd, Record
<1>6. TypeOK'
    BY <1>2, <1>4, <1>5 DEF Operands, TypeOK, DoAdd, Tile
<1>7. QED
    BY <1>4, <1>5, <1>5, <1>6 DEF IInv, AddToAccumulates

LEMMA DoAddPermInv ==
    ASSUME NEW Result, NEW l, NEW r, Operands(Result, l, r),
           NEW perm \in Perms, DoAddPerm(Result, l, r, perm)
    PROVE  IInv'
<1> DEFINE sum == SumData(tiles[l].data, tiles[r].data)
           val == PermuteData(perm, sum)
<1>1. tiles[l] \in Tile(Int) /\ tiles[r] \in Tile(Int)
    BY DEF Operands, TypeOK
<1>2. sum \in [Pos -> Int] /\ val \in [Pos -> Int]
    BY <1>1, SumType, PermuteType DEF Tile
<1>3. add_perm(tiles[l], tiles[r], perm) \in Tile(Int)
    BY <1>1, <1>2 DEF add_perm, Tile, TypePairs
<1>4. out' = [type |-> Result, data |-> val]
    <2>1. CASE AddIsDirect(Result, tiles[l].type, tiles[r].type)
        BY <2>1 DEF DoAddPerm, AddPermCall, AddIsDirect, add_perm
    <2>2. CASE ~AddIsDirect(Result, tiles[l].type, tiles[r].type)
        BY <2>2, <1>3, CastTile DEF DoAddPerm, AddPermCall, add_perm
    <2>3. QED
        BY <2>1, <2>2
<1>5. last'.op = "add_perm" /\ last'.res = Result
    BY DEF DoAddPerm, Record
<1>6. TypeOK'
    BY <1>2, <1>4, <1>5 DEF Operands, TypeOK, DoAddPerm, Tile
<1>7. QED
    BY <1>4, <1>5, <1>5, <1>6 DEF IInv, AddToAccumulates

(* ScalAdd with and without a permutation, likewise. *)
LEMMA DoScalAddInv ==
    ASSUME NEW Result, NEW l, NEW r, Operands(Result, l, r),
           NEW f \in Scalars, DoScalAdd(Result, l, r, f)
    PROVE  IInv'
<1> DEFINE val == ScaleData(SumData(tiles[l].data, tiles[r].data), f)
<1>1. tiles[l] \in Tile(Int) /\ tiles[r] \in Tile(Int)
    BY DEF Operands, TypeOK
<1>2. val \in [Pos -> Int]
    BY <1>1, SumType, ScaleType DEF Tile
<1>3. add_scal(tiles[l], tiles[r], f) \in Tile(Int)
    BY <1>1, <1>2 DEF add_scal, Tile, TypePairs
<1>4. out' = [type |-> Result, data |-> val]
    <2>1. CASE ScalAddIsDirect(Result, tiles[l].type, tiles[r].type)
        BY <2>1 DEF DoScalAdd, ScalAddCall, ScalAddIsDirect, add_scal
    <2>2. CASE ~ScalAddIsDirect(Result, tiles[l].type, tiles[r].type)
        BY <2>2, <1>3, CastTile DEF DoScalAdd, ScalAddCall, add_scal
    <2>3. QED
        BY <2>1, <2>2
<1>5. last'.op = "scal_add" /\ last'.res = Result
    BY DEF DoScalAdd, Record
<1>6. TypeOK'
    BY <1>2, <1>4, <1>5 DEF Operands, TypeOK, DoScalAdd, Tile
<1>7. QED
    BY <1>4, <1>5, <1>5, <1>6 DEF IInv, AddToAccumulates

LEMMA DoScalAddPermInv ==
    ASSUME NEW Result, NEW l, NEW r, Operands(Result, l, r),
           NEW f \in Scalars, NEW perm \in Perms,
           DoScalAddPerm(Result, l, r, f, perm)
    PROVE  IInv'
<1> DEFINE val == PermuteData(perm, ScaleData(SumData(tiles[l].data, tiles[r].data), f))
<1>1. tiles[l] \in Tile(Int) /\ tiles[r] \in Tile(Int)
    BY DEF Operands, TypeOK
<1>2. val \in [Pos -> Int]
    BY <1>1, SumType, ScaleType, PermuteType DEF Tile
<1>3. add_scal_perm(tiles[l], tiles[r], f, perm) \in Tile(Int)
    BY <1>1, <1>2 DEF add_scal_perm, Tile, TypePairs
<1>4. out' = [type |-> Result, data |-> val]
    <2>1. CASE ScalAddIsDirect(Result, tiles[l].type, tiles[r].type)
        BY <2>1 DEF DoScalAddPerm, ScalAddPermCall, ScalAddIsDirect, add_scal_perm
    <2>2. CASE ~ScalAddIsDirect(Result, tiles[l].type, tiles[r].type)
        BY <2>2, <1>3, CastTile DEF DoScalAddPerm, ScalAddPermCall, add_scal_perm
    <2>3. QED
        BY <2>1, <2>2
<1>5. last'.op = "scal_add_perm" /\ last'.res = Result
    BY DEF DoScalAddPerm, Record
<1>6. TypeOK'
    BY <1>2, <1>4, <1>5 DEF Operands, TypeOK, DoScalAddPerm, Tile
<1>7. QED
    BY <1>4, <1>5, <1>5, <1>6 DEF IInv, AddToAccumulates

(***************************************************************************)
(* AddTo: the left slot receives left + right, and both the direct form   *)
(* (the reference) and the cast form (cast(left) after add_to) return it. *)
(***************************************************************************)
LEMMA DoAddToInv ==
    ASSUME NEW Result, NEW l, NEW r, Operands(Result, l, r), DoAddTo(Result, l, r)
    PROVE  IInv'
<1> DEFINE sum == SumData(tiles[l].data, tiles[r].data)
           acc == add_to(tiles[l], tiles[r])
<1>1. tiles[l] \in Tile(Int) /\ tiles[r] \in Tile(Int)
    BY DEF Operands, TypeOK
<1>2. sum \in [Pos -> Int]
    BY <1>1, SumType DEF Tile
<1>3. acc = [type |-> tiles[l].type, data |-> sum] /\ acc \in Tile(Int)
    BY <1>1, <1>2 DEF add_to, Tile
<1>4. tiles'[l] = acc
    BY DEF DoAddTo, Operands, TypeOK
<1>5. out' = [type |-> Result, data |-> sum]
    <2>1. CASE AddToIsDirect(Result, tiles[l].type)
        BY <2>1, <1>3 DEF DoAddTo, AddToCall, AddToIsDirect
    <2>2. CASE ~AddToIsDirect(Result, tiles[l].type)
        BY <2>2, <1>3, CastTile DEF DoAddTo, AddToCall
    <2>3. QED
        BY <2>1, <2>2
<1>6. Contract(last') = sum
    BY <1>2, ScaleByOne, PermuteById DEF DoAddTo, Record, Contract
<1>7. last'.op = "add_to" /\ last'.res = Result /\ last'.l = l
    BY DEF DoAddTo, Record
<1>8. TypeOK'
    BY <1>3, <1>5, <1>7, <1>2 DEF Operands, TypeOK, DoAddTo, Tile
<1>9. QED
    BY <1>3, <1>4, <1>5, <1>6, <1>7, <1>8
    DEF IInv, AddToAccumulates

(* Neither form of ScalAddTo returns an out-of-place result or is an AddTo. *)
LEMMA DoScalAddToDirectInv ==
    ASSUME NEW Result, NEW l, NEW r, Operands(Result, l, r),
           DoScalAddToDirect(Result, l, r)
    PROVE  IInv'
<1> DEFINE acc == add_to(tiles[l], tiles[r])
<1>1. tiles[l] \in Tile(Int) /\ tiles[r] \in Tile(Int)
    BY DEF Operands, TypeOK
<1>2. acc \in Tile(Int)
    BY <1>1, SumType DEF add_to, Tile
<1>3. out' = acc /\ last'.op = "scal_add_to_direct"
    BY DEF DoScalAddToDirect, ScalAddToDirectCall, Record
<1>4. TypeOK'
    BY <1>2, <1>3 DEF Operands, TypeOK, DoScalAddToDirect
<1>5. QED
    BY <1>3, <1>4 DEF IInv, AddToAccumulates

LEMMA DoScalAddToInv ==
    ASSUME NEW Result, NEW l, NEW r, Operands(Result, l, r),
           NEW f \in Scalars, DoScalAddTo(Result, l, r, f)
    PROVE  IInv'
<1> DEFINE acc == add_to(tiles[l], tiles[r])
<1>1. tiles[l] \in Tile(Int) /\ tiles[r] \in Tile(Int)
    BY DEF Operands, TypeOK
<1>2. acc \in Tile(Int)
    BY <1>1, SumType DEF add_to, Tile
<1>3. out' \in Tile(Int)
    BY <1>2, CastTile DEF DoScalAddTo, ScalAddToCall, Operands, Tile
<1>4. last'.op = "scal_add_to"
    BY DEF DoScalAddTo, Record
<1>5. TypeOK'
    BY <1>2, <1>3, <1>4 DEF Operands, TypeOK, DoScalAddTo
<1>6. QED
    BY <1>4, <1>5 DEF IInv, AddToAccumulates

(* The evaluator starts from typed tiles and no call. *)
LEMMA InitIInv == Init => IInv
<1> SUFFICES ASSUME Init PROVE IInv
    OBVIOUS
<1>1. tiles \in [Slots -> Tile(Int)]
    <2>1. tiles \in [Slots -> Tile(InitVals)]
        BY DEF Init
    <2>2. [Pos -> InitVals] \subseteq [Pos -> Int]
        OBVIOUS
    <2>3. Tile(InitVals) \subseteq Tile(Int)
        BY <2>2 DEF Tile
    <2>4. QED
        BY <2>1, <2>3
<1>2. last.op = "none" /\ out = NoCall
    BY DEF Init, NoCall
<1>3. QED
    BY <1>1, <1>2 DEF IInv, TypeOK, AddToAccumulates

LEMMA NextIInv == IInv /\ [Next]_vars => IInv'
<1> SUFFICES ASSUME IInv, [Next]_vars PROVE IInv'
    OBVIOUS
<1>1. CASE UNCHANGED vars
    BY <1>1 DEF vars, IInv, TypeOK, AddToAccumulates, Contract
<1>2. CASE Next
    <2> PICK Result \in TileTypes, l \in Slots, r \in Slots :
            \/ DoAdd(Result, l, r)
            \/ \E perm \in Perms : DoAddPerm(Result, l, r, perm)
            \/ \E f \in Scalars : DoScalAdd(Result, l, r, f)
            \/ \E f \in Scalars, perm \in Perms : DoScalAddPerm(Result, l, r, f, perm)
            \/ DoAddTo(Result, l, r)
            \/ DoScalAddToDirect(Result, l, r)
            \/ \E f \in Scalars : DoScalAddTo(Result, l, r, f)
        BY <1>2 DEF Next
    <2>1. Operands(Result, l, r)
        BY DEF IInv, Operands
    <2>2. QED
        BY <2>1, DoAddInv, DoAddPermInv, DoScalAddInv, DoScalAddPermInv,
           DoAddToInv, DoScalAddToDirectInv, DoScalAddToInv
<1>3. QED
    BY <1>1, <1>2

(***************************************************************************)
(* Theorem: after every AddTo call the left operand holds the pre-call     *)
(* left + right, and the call returns that accumulated tile as a Result.   *)
(***************************************************************************)
THEOREM AddToAccumulatesHolds == Spec => []AddToAccumulates
<1>1. Spec => []IInv
    BY InitIInv, NextIInv, PTL DEF Spec
<1>2. QED
    BY <1>1, PTL DEF IInv
=============================================================================
