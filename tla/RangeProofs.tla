----------------------------- MODULE RangeProofs -----------------------------
(***************************************************************************)
(* Proofs about Range (module Range) for every dimension Dim, base index   *)
(* and set of coordinates: what operator& and operator^ do to the set of   *)
(* indices a Range holds.  The properties about ordinals, weights and      *)
(* volumes are products and sums over all Dim dimensions and need          *)
(* induction over Dim: they stay with TLC.                                 *)
(***************************************************************************)
EXTENDS Range, TLAPS

(* A box whose bounds are coordinate vectors. *)
Box(g) == Start(g) \in [Dims -> Nat] /\ Finish(g) \in [Dims -> Nat]

(* The inductive invariant: the held Range is always such a box. *)
RangeTypeOK == order \in Orders /\ Box(r)

LEMMA DimsNonEmpty == 1 \in Dims
  BY RangeAssumption DEF Dims

LEMMA IndexIsNat == Index \subseteq [Dims -> Nat]
  BY RangeAssumption DEF Index

(* The constructors keep the bounds they are given. *)
LEMMA MakeRangeBounds ==
  ASSUME NEW s, NEW f
  PROVE  Start(MakeRange(s, f)) = s /\ Finish(MakeRange(s, f)) = f
  BY DEF MakeRange, Start, Finish

LEMMA DefaultBox == Box(DefaultRange) /\ Start(DefaultRange) = BaseIndex
                                     /\ Finish(DefaultRange) = BaseIndex
  BY RangeAssumption, MakeRangeBounds DEF DefaultRange, BaseIndex, Box

(* Range() holds no index. *)
LEMMA DefaultEmpty == ASSUME NEW x \in [Dims -> Nat] PROVE ~Includes(DefaultRange, x)
  BY DefaultBox, DimsNonEmpty, RangeAssumption DEF Includes, BaseIndex

LEMMA AllRangesBoxes == ASSUME NEW b \in AllRanges PROVE Box(b)
  BY MakeRangeBounds, IndexIsNat DEF AllRanges, Box

-----------------------------------------------------------------------------
(* The bounds of a & b: the max of the starts and the min of the finishes. *)
MeetStart(a, b) == [d \in Dims |-> Max2(Start(a)[d], Start(b)[d])]
MeetFinish(a, b) == [d \in Dims |-> Min2(Finish(a)[d], Finish(b)[d])]

LEMMA IntersectionCases ==
  ASSUME NEW a, NEW b
  PROVE  \/ /\ \E d \in Dims : MeetFinish(a, b)[d] < MeetStart(a, b)[d]
            /\ Intersection(a, b) = DefaultRange
         \/ /\ ~\E d \in Dims : MeetFinish(a, b)[d] < MeetStart(a, b)[d]
            /\ Intersection(a, b) = MakeRange(MeetStart(a, b), MeetFinish(a, b))
  BY DEF Intersection, MeetStart, MeetFinish

LEMMA IntersectionBox ==
  ASSUME NEW a, NEW b, Box(a), Box(b)
  PROVE  Box(Intersection(a, b))
  <1>1. MeetStart(a, b) \in [Dims -> Nat] /\ MeetFinish(a, b) \in [Dims -> Nat]
    BY DEF Box, MeetStart, MeetFinish, Max2, Min2
  <1>2. QED
    BY <1>1, IntersectionCases, DefaultBox, MakeRangeBounds DEF Box

(***************************************************************************)
(* An index is in a & b exactly when it is in a and in b: inside the       *)
(* overlap it is between the max start and the min finish on every         *)
(* dimension; with no overlap on some dimension, nothing is in both and    *)
(* a & b is Range(), which holds nothing.                                  *)
(***************************************************************************)
LEMMA MeetIncludes ==
  ASSUME NEW a, NEW b, Box(a), Box(b), NEW x \in [Dims -> Nat]
  PROVE  Includes(Intersection(a, b), x) <=> Includes(a, x) /\ Includes(b, x)
  <1>1. CASE \E d \in Dims : MeetFinish(a, b)[d] < MeetStart(a, b)[d]
    <2>1. ~(Includes(a, x) /\ Includes(b, x))
      BY <1>1 DEF Box, Includes, MeetStart, MeetFinish, Max2, Min2
    <2>2. QED
      BY <1>1, <2>1, IntersectionCases, DefaultEmpty
  <1>2. CASE ~\E d \in Dims : MeetFinish(a, b)[d] < MeetStart(a, b)[d]
    <2>1. Intersection(a, b) = MakeRange(MeetStart(a, b), MeetFinish(a, b))
      BY <1>2, IntersectionCases
    <2>2. QED
      BY <2>1, MakeRangeBounds DEF Box, Includes, MeetStart, MeetFinish, Max2, Min2
  <1>3. QED
    BY <1>1, <1>2

(* a & b and b & a are the same Range. *)
LEMMA MeetCommutes ==
  ASSUME NEW a, NEW b, Box(a), Box(b)
  PROVE  Intersection(a, b) = Intersection(b, a)
  <1>1. MeetStart(a, b) = MeetStart(b, a) /\ MeetFinish(a, b) = MeetFinish(b, a)
    BY DEF Box, MeetStart, MeetFinish, Max2, Min2
  <1>2. QED
    BY <1>1, IntersectionCases

-----------------------------------------------------------------------------
(* The dimension that p sends to position e. *)
Src(p, e) == CHOOSE d \in Dims : p[d] = e

LEMMA SrcOf ==
  ASSUME NEW p \in Permutations, NEW d \in Dims
  PROVE  Src(p, p[d]) = d
  BY DEF Permutations, Src

LEMMA SrcIn ==
  ASSUME NEW p \in Permutations, NEW e \in Dims
  PROVE  Src(p, e) \in Dims /\ p[Src(p, e)] = e
  BY DEF Permutations, Src

LEMMA PermIdxAt ==
  ASSUME NEW p, NEW y, NEW e \in Dims
  PROVE  PermIdx(p, y)[e] = y[Src(p, e)]
  BY DEF PermIdx, Src

LEMMA PermIdxType ==
  ASSUME NEW p \in Permutations, NEW x \in [Dims -> Nat]
  PROVE  PermIdx(p, x) \in [Dims -> Nat]
  BY SrcIn DEF PermIdx, Src

LEMMA PermutedBounds ==
  ASSUME NEW p, NEW g
  PROVE  /\ Start(Permuted(p, g)) = PermIdx(p, Start(g))
         /\ Finish(Permuted(p, g)) = PermIdx(p, Finish(g))
  BY DEF Permuted, Start, Finish

LEMMA PermutedBox ==
  ASSUME NEW p \in Permutations, NEW g, Box(g)
  PROVE  Box(Permuted(p, g))
  BY PermutedBounds, PermIdxType DEF Box

(***************************************************************************)
(* x is in g exactly when p ^ x is in p ^ g: position e of both holds      *)
(* dimension Src(p, e), and Src(p, .) runs over every dimension once.      *)
(***************************************************************************)
LEMMA PermutedIncludes ==
  ASSUME NEW p \in Permutations, NEW g, Box(g), NEW x \in [Dims -> Nat]
  PROVE  Includes(g, x) <=> Includes(Permuted(p, g), PermIdx(p, x))
  <1> DEFINE s == Start(g)  f == Finish(g)
  <1>1. Includes(Permuted(p, g), PermIdx(p, x))
          <=> \A e \in Dims : s[Src(p, e)] <= x[Src(p, e)] /\ x[Src(p, e)] < f[Src(p, e)]
    BY PermutedBounds, PermIdxAt DEF Includes
  <1>2. ASSUME Includes(g, x)
        PROVE  \A e \in Dims : s[Src(p, e)] <= x[Src(p, e)] /\ x[Src(p, e)] < f[Src(p, e)]
    BY <1>2, SrcIn DEF Includes
  <1>3. ASSUME \A e \in Dims : s[Src(p, e)] <= x[Src(p, e)] /\ x[Src(p, e)] < f[Src(p, e)]
        PROVE  Includes(g, x)
    <2> SUFFICES ASSUME NEW d \in Dims PROVE s[d] <= x[d] /\ x[d] < f[d]
      BY DEF Includes
    <2>1. p[d] \in Dims /\ Src(p, p[d]) = d
      BY SrcOf DEF Permutations
    <2>2. QED
      BY <1>3, <2>1
  <1>4. QED
    BY <1>1, <1>2, <1>3

-----------------------------------------------------------------------------
THEOREM RangeTypeCorrect == Spec => []RangeTypeOK
<1>1. Init => RangeTypeOK
  BY DefaultBox DEF Init, RangeTypeOK
<1>2. RangeTypeOK /\ [Next]_vars => RangeTypeOK'
  <2> SUFFICES ASSUME RangeTypeOK, [Next]_vars PROVE RangeTypeOK'
    OBVIOUS
  <2>1. ASSUME NEW s \in Index, NEW f \in Index, Construct(s, f) PROVE RangeTypeOK'
    BY <2>1, MakeRangeBounds, IndexIsNat DEF Construct, RangeTypeOK, Box
  <2>2. CASE Default
    BY <2>2, DefaultBox DEF Default, RangeTypeOK
  <2>3. ASSUME NEW p \in Permutations, Permute(p) PROVE RangeTypeOK'
    BY <2>3, PermutedBox DEF Permute, RangeTypeOK
  <2>4. ASSUME NEW b \in AllRanges, Intersect(b) PROVE RangeTypeOK'
    BY <2>4, AllRangesBoxes, IntersectionBox DEF Intersect, RangeTypeOK
  <2>5. CASE UNCHANGED vars
    BY <2>5 DEF vars, RangeTypeOK, Box, Start, Finish
  <2>6. QED
    BY <2>1, <2>2, <2>3, <2>4, <2>5 DEF Next
<1>3. QED
  BY <1>1, <1>2, PTL DEF Spec

(***************************************************************************)
(* r & b holds exactly the indices in both r and b, and equals b & r, for  *)
(* the Range r the program holds after any sequence of constructions,      *)
(* resizes, permutations and intersections, every operand b and every      *)
(* dimension (the property the range run checks).                          *)
(***************************************************************************)
THEOREM IntersectIsMeetHolds == Spec => []IntersectIsMeet
<1>1. RangeTypeOK => IntersectIsMeet
  <2> SUFFICES ASSUME RangeTypeOK, NEW b \in AllRanges
               PROVE  /\ Intersection(r, b) = Intersection(b, r)
                      /\ \A x \in Index : Includes(Intersection(r, b), x)
                                            <=> Includes(r, x) /\ Includes(b, x)
    BY DEF IntersectIsMeet
  <2>1. Box(r) /\ Box(b)
    BY AllRangesBoxes DEF RangeTypeOK
  <2>2. QED
    BY <2>1, MeetCommutes, MeetIncludes, IndexIsNat
<1>2. QED
  BY <1>1, RangeTypeCorrect, PTL

(***************************************************************************)
(* The part of PermuteKeepsElements about indices: for every permutation p *)
(* (not only those that are their own inverse), an index x is in r exactly *)
(* when p ^ x is in r ^ p, after any sequence of operations.                *)
(***************************************************************************)
PermuteKeepsIndices ==
  \A p \in Permutations : \A x \in Index :
      Includes(r, x) <=> Includes(Permuted(p, r), PermIdx(p, x))

THEOREM PermuteKeepsIndicesHolds == Spec => []PermuteKeepsIndices
<1>1. RangeTypeOK => PermuteKeepsIndices
  BY PermutedIncludes, IndexIsNat DEF RangeTypeOK, PermuteKeepsIndices
<1>2. QED
  BY <1>1, RangeTypeCorrect, PTL
=============================================================================
