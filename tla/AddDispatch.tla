---------------------------- MODULE AddDispatch ----------------------------
(***************************************************************************)
(* The tile-operation dispatch layer of tile_interface/add.h: the wrappers *)
(* Add, ScalAdd, AddTo and ScalAddTo, each of which exists in a "direct"   *)
(* and a "cast" specialisation chosen by comparing the caller's Result     *)
(* type with the type the tile's native add / add_to capability returns.   *)
(*                                                                         *)
(* A tile is a record [type, data]: its representation (a model value of   *)
(* TileTypes) and its elements, a function from the positions Pos to       *)
(* integers.  The types returned by the native capabilities of each pair   *)
(* of tile types are the constants NativeAdd ... NativeScalAddPerm.  The   *)
(* compile-time selection of a specialisation is evaluated per call from   *)
(* the (Result, Left, Right) types, which is the same choice the compiler  *)
(* makes once per instantiation.                                           *)
(*                                                                         *)
(* The evaluator holds tiles in the slots Slots.  Each action is one call  *)
(* of a dispatch operator: it records the returned tile in out and the     *)
(* call, with a snapshot of its operands, in last.  AddTo and ScalAddTo    *)
(* also overwrite their left operand's slot.                               *)
(***************************************************************************)
EXTENDS Integers

CONSTANTS
    TileTypes,          \* tile representations
    Pos,                \* element positions of a tile
    Perms,              \* permutations of Pos that calls may pass
    Scalars,            \* scaling factors that calls may pass
    NativeAdd,          \* type of left.add(right)
    NativeAddPerm,      \* type of left.add(right, perm)
    NativeScalAdd,      \* type of left.add(right, factor)
    NativeScalAddPerm,  \* type of left.add(right, factor, perm)
    Slots,              \* tiles held by the evaluator
    InitVals,           \* element values of the tiles it starts from
    MaxVal              \* bound on element values accumulated in place

TypePairs == TileTypes \X TileTypes

ASSUME AddDispatchAssumption ==
    /\ NativeAdd \in [TypePairs -> TileTypes]
    /\ NativeAddPerm \in [TypePairs -> TileTypes]
    /\ NativeScalAdd \in [TypePairs -> TileTypes]
    /\ NativeScalAddPerm \in [TypePairs -> TileTypes]
    /\ Perms \subseteq [Pos -> Pos]
    /\ \A perm \in Perms : \A y \in Pos : \E x \in Pos : perm[x] = y
    /\ Scalars \subseteq Int /\ InitVals \subseteq Int /\ MaxVal \in Nat

VARIABLES tiles, out, last

vars == <<tiles, out, last>>

Tile(Vals) == [type : TileTypes, data : [Pos -> Vals]]

IdPerm == [x \in Pos |-> x]

(* Element-wise arithmetic of the native capabilities. *)
SumData(d, e) == [x \in Pos |-> d[x] + e[x]]
ScaleData(d, f) == [x \in Pos |-> d[x] * f]
\* perm ^ d: the element at position x moves to position perm[x].
PermuteData(perm, d) == [y \in Pos |-> d[CHOOSE x \in Pos : perm[x] = y]]

(***************************************************************************)
(* The native capabilities TiledArray::add and add_to forward to (lines    *)
(* 41-111).  add_to returns its (mutated) left operand: its result type is *)
(* the left operand's type.                                                *)
(***************************************************************************)
add(l, r) == [type |-> NativeAdd[<<l.type, r.type>>], data |-> SumData(l.data, r.data)]
add_perm(l, r, perm) ==
    [type |-> NativeAddPerm[<<l.type, r.type>>],
     data |-> PermuteData(perm, SumData(l.data, r.data))]
add_scal(l, r, f) ==
    [type |-> NativeScalAdd[<<l.type, r.type>>],
     data |-> ScaleData(SumData(l.data, r.data), f)]
add_scal_perm(l, r, f, perm) ==
    [type |-> NativeScalAddPerm[<<l.type, r.type>>],
     data |-> PermuteData(perm, ScaleData(SumData(l.data, r.data), f))]
add_to(result, arg) == [result EXCEPT !.data = SumData(result.data, arg.data)]

\* Cast<Result, T>: converts the representation, keeping the elements.
Cast(Result, t) == [t EXCEPT !.type = Result]

(***************************************************************************)
(* Selection of the specialisations (the enable_if conditions).  The cast  *)
(* form of Add is chosen unless Result is the native type of both the      *)
(* plain and the permuting add.                                            *)
(***************************************************************************)
AddIsDirect(Result, L, R) ==
    Result = NativeAdd[<<L, R>>] /\ Result = NativeAddPerm[<<L, R>>]

ScalAddIsDirect(Result, L, R) ==
    Result = NativeScalAdd[<<L, R>>] /\ Result = NativeScalAddPerm[<<L, R>>]

\* result_of_add_to_t<Left, Right[, Scalar]> is the left operand's type.
AddToIsDirect(Result, L) == Result = L

(* The tile each operator() returns. *)
AddCall(Result, l, r) ==
    IF AddIsDirect(Result, l.type, r.type) THEN add(l, r)
    ELSE Cast(Result, add(l, r))

AddPermCall(Result, l, r, perm) ==
    IF AddIsDirect(Result, l.type, r.type) THEN add_perm(l, r, perm)
    ELSE Cast(Result, add_perm(l, r, perm))

ScalAddCall(Result, l, r, f) ==
    IF ScalAddIsDirect(Result, l.type, r.type) THEN add_scal(l, r, f)
    ELSE Cast(Result, add_scal(l, r, f))

ScalAddPermCall(Result, l, r, f, perm) ==
    IF ScalAddIsDirect(Result, l.type, r.type) THEN add_scal_perm(l, r, f, perm)
    ELSE Cast(Result, add_scal_perm(l, r, f, perm))

\* A cast form that converts the left operand before accumulating into it.
AddToCall_cast_first(Result, l, r) ==
    IF AddToIsDirect(Result, l.type) THEN add_to(l, r) ELSE Cast(Result, l)

\* AddTo: add_to(left, right), then either the reference or cast(left).
AddToCall(Result, l, r) ==
    IF AddToIsDirect(Result, l.type) THEN add_to(l, r)
    ELSE Cast(Result, add_to(l, r))

(***************************************************************************)
(* ScalAddTo.  The direct form's operator()(left, right) has no factor     *)
(* parameter and returns add_to(left, right) (lines 324-326).  The cast    *)
(* form's operator()(left, right, factor) takes one but calls              *)
(* add_to(left, right) without it, then returns cast(left) (346-352).      *)
(***************************************************************************)
ScalAddToDirectCall(l, r) == add_to(l, r)

ScalAddToCall(Result, l, r, f) == Cast(Result, add_to(l, r))

NoCall == [op |-> "none", res |-> CHOOSE t \in TileTypes : TRUE,
           l |-> CHOOSE s \in Slots : TRUE, ldata |-> [x \in Pos |-> 0],
           rdata |-> [x \in Pos |-> 0], f |-> 1, perm |-> IdPerm]

Record(op, Result, l, r, f, perm) ==
    [op |-> op, res |-> Result, l |-> l, ldata |-> tiles[l].data,
     rdata |-> tiles[r].data, f |-> f, perm |-> perm]

Bounded(t) == \A x \in Pos : t.data[x] <= MaxVal

TypeOK ==
    /\ tiles \in [Slots -> Tile(Int)]
    /\ out \in Tile(Int) \cup {NoCall}
    /\ last.op \in {"none", "add", "add_perm", "scal_add", "scal_add_perm",
                    "add_to", "scal_add_to_direct", "scal_add_to"}

Init ==
    /\ tiles \in [Slots -> Tile(InitVals)]
    /\ out = NoCall
    /\ last = NoCall

(* One action per call form of the public wrappers (lines 362-407). *)
DoAdd(Result, l, r) ==
    /\ out' = AddCall(Result, tiles[l], tiles[r])
    /\ last' = Record("add", Result, l, r, 1, IdPerm)
    /\ UNCHANGED tiles

DoAddPerm(Result, l, r, perm) ==
    /\ out' = AddPermCall(Result, tiles[l], tiles[r], perm)
    /\ last' = Record("add_perm", Result, l, r, 1, perm)
    /\ UNCHANGED tiles

DoScalAdd(Result, l, r, f) ==
    /\ out' = ScalAddCall(Result, tiles[l], tiles[r], f)
    /\ last' = Record("scal_add", Result, l, r, f, IdPerm)
    /\ UNCHANGED tiles

DoScalAddPerm(Result, l, r, f, perm) ==
    /\ out' = ScalAddPermCall(Result, tiles[l], tiles[r], f, perm)
    /\ last' = Record("scal_add_perm", Result, l, r, f, perm)
    /\ UNCHANGED tiles

DoAddTo(Result, l, r) ==
    /\ Bounded(add_to(tiles[l], tiles[r]))
    /\ tiles' = [tiles EXCEPT ![l] = add_to(tiles[l], tiles[r])]
    /\ out' = AddToCall(Result, tiles[l], tiles[r])
    /\ last' = Record("add_to", Result, l, r, 1, IdPerm)

\* The direct ScalAddTo, selected when Result is result_of_add_to_t.
DoScalAddToDirect(Result, l, r) ==
    /\ AddToIsDirect(Result, tiles[l].type)
    /\ Bounded(add_to(tiles[l], tiles[r]))
    /\ tiles' = [tiles EXCEPT ![l] = add_to(tiles[l], tiles[r])]
    /\ out' = ScalAddToDirectCall(tiles[l], tiles[r])
    /\ last' = Record("scal_add_to_direct", Result, l, r, 1, IdPerm)

\* The cast ScalAddTo, the only one a factor can be passed to.
DoScalAddTo(Result, l, r, f) ==
    /\ ~AddToIsDirect(Result, tiles[l].type)
    /\ Bounded(add_to(tiles[l], tiles[r]))
    /\ tiles' = [tiles EXCEPT ![l] = add_to(tiles[l], tiles[r])]
    /\ out' = ScalAddToCall(Result, tiles[l], tiles[r], f)
    /\ last' = Record("scal_add_to", Result, l, r, f, IdPerm)

Next ==
    \E Result \in TileTypes, l, r \in Slots :
        \/ DoAdd(Result, l, r)
        \/ \E perm \in Perms : DoAddPerm(Result, l, r, perm)
        \/ \E f \in Scalars : DoScalAdd(Result, l, r, f)
        \/ \E f \in Scalars, perm \in Perms : DoScalAddPerm(Result, l, r, f, perm)
        \/ DoAddTo(Result, l, r)
        \/ DoScalAddToDirect(Result, l, r)
        \/ \E f \in Scalars : DoScalAddTo(Result, l, r, f)

Spec == Init /\ [][Next]_vars

-----------------------------------------------------------------------------
(* What the documentation of each call promises: perm ^ ((l + r) * f). *)
Contract(c) == PermuteData(c.perm, ScaleData(SumData(c.ldata, c.rdata), c.f))

(***************************************************************************)
(* AddTo leaves its left operand equal to the pre-call left + right, and   *)
(* what it returns (the reference, or cast(left)) is of type Result and    *)
(* holds that accumulated value, not the operand as it was before.         *)
(***************************************************************************)
AddToAccumulates ==
    last.op = "add_to" =>
        /\ tiles[last.l].data = Contract(last)
        /\ out = [type |-> last.res, data |-> tiles[last.l].data]

(***************************************************************************)
(* A ScalAddTo call given a factor (the cast form, line 346) is           *)
(* documented (line 107, the add_to(result, arg, factor) capability it    *)
(* stands for) to leave its left operand equal to (left + right) * factor.*)
(***************************************************************************)
ScalAddToScales ==
    last.op = "scal_add_to" => tiles[last.l].data = Contract(last)
=============================================================================
