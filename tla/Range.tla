------------------------------- MODULE Range -------------------------------
(***************************************************************************)
(* TiledArray::Range over a CoordinateSystem, with Permutation: a          *)
(* half-open box [start, finish) of Dim dimensions, its derived size,      *)
(* weight (strides) and volume, the ordinal of an index, inclusion,        *)
(* intersection (operator&), permutation (operator^ / ^=) and iteration.   *)
(* The Range class itself is not part of src/; its contract is the one     *)
(* src/Tests/range.cpp checks, and spec.md section 4.2 where the tests say *)
(* nothing (weight, ordinal, the touching case of operator&).              *)
(*                                                                         *)
(* The ordering is a template parameter of CoordinateSystem: a run fixes   *)
(* it in its initial state, and both are explored.                         *)
(* The program holds one Range r; each step is a constructor or resize,    *)
(* the default constructor, a permutation, or an intersection with another *)
(* Range, whose arguments come from small sets.  A Range value is the      *)
(* tuple <<start, finish, size, weight, volume>>, so that a wrong derived  *)
(* field stays visible.  A constructor call with finish < start throws and *)
(* leaves no object: it is not a step.                                     *)
(***************************************************************************)
EXTENDS Naturals, FiniteSets

CONSTANTS
    Dim,      \* CoordinateSystem::dim
    Base,     \* CoordinateSystem's base index
    Coords    \* the coordinates indices may take

ASSUME RangeAssumption ==
    /\ Dim \in Nat \ {0}
    /\ Coords \subseteq Nat /\ Base \in Coords

Dims == 1 .. Dim

Index == [Dims -> Coords]

BaseIndex == [d \in Dims |-> Base]

(* The CoordinateSystem's ordering: first or last dimension fastest. *)
Orders == {"increasing", "decreasing"}

VARIABLES
    order,   \* the build's CoordinateSystem ordering, fixed for the whole run
    r        \* the Range the program holds

vars == <<order, r>>

Start(g) == g[1]
Finish(g) == g[2]
Size(g) == g[3]
Weight(g) == g[4]
Volume(g) == g[5]

(* The product of size[d] over the dimensions d in S. *)
Prod(size, S) ==
    LET f[k \in 0 .. Dim] == IF k = 0 THEN 1
                             ELSE f[k - 1] * (IF k \in S THEN size[k] ELSE 1)
    IN  f[Dim]

(* The dimensions that vary faster than d under the ordering convention. *)
Faster_with_self(d) ==
    IF order = "increasing" THEN {e \in Dims : e <= d} ELSE {e \in Dims : e >= d}

Faster(d) ==
    IF order = "increasing" THEN {e \in Dims : e < d} ELSE {e \in Dims : e > d}

(* CoordinateSystem::calc_weight and calc_volume. *)
calc_weight(size) == [d \in Dims |-> Prod(size, Faster(d))]

calc_volume(size) == Prod(size, Dims)

(* Range(start, finish) and resize(start, finish): the derived fields. *)
MakeRange(s, f) ==
    LET size == [d \in Dims |-> f[d] - s[d]]
    IN  <<s, f, size, calc_weight(size), calc_volume(size)>>

Valid(s, f) == \A d \in Dims : s[d] <= f[d]

DefaultRange == MakeRange(BaseIndex, BaseIndex)

(* Every Range the constructors can produce over Index. *)
AllRanges == {MakeRange(q[1], q[2]) : q \in {q \in Index \X Index : Valid(q[1], q[2])}}

Max2(a, b) == IF a >= b THEN a ELSE b
Min2(a, b) == IF a <= b THEN a ELSE b

(***************************************************************************)
(* a & b: the componentwise max of the starts and min of the finishes; a   *)
(* finish below its start on some dimension gives Range().                 *)
(***************************************************************************)
Intersection_min_start(a, b) ==
    LET s == [d \in Dims |-> Min2(Start(a)[d], Start(b)[d])]
        f == [d \in Dims |-> Min2(Finish(a)[d], Finish(b)[d])]
    IN  IF \E d \in Dims : f[d] < s[d] THEN DefaultRange ELSE MakeRange(s, f)

Intersection(a, b) ==
    LET s == [d \in Dims |-> Max2(Start(a)[d], Start(b)[d])]
        f == [d \in Dims |-> Min2(Finish(a)[d], Finish(b)[d])]
    IN  IF \E d \in Dims : f[d] < s[d] THEN DefaultRange ELSE MakeRange(s, f)

(* A Permutation: destination position p[d] of every dimension d, with no *)
(* repeats and every position covered.                                     *)
Permutations ==
    {p \in [Dims -> Dims] : /\ \A d1, d2 \in Dims : p[d1] = p[d2] => d1 = d2
                            /\ \A e \in Dims : \E d \in Dims : p[d] = e}

(* p ^ x: position p[d] of the result receives x[d]. *)
PermIdx(p, x) == [e \in Dims |-> x[CHOOSE d \in Dims : p[d] = e]]

Permuted_relabel(p, g) ==
    <<PermIdx(p, Start(g)), PermIdx(p, Finish(g)), PermIdx(p, Size(g)),
      PermIdx(p, Weight(g)), Volume(g)>>

Permuted_inverse(p, g) ==
    LET back(x) == [d \in Dims |-> x[p[d]]]
        size == back(Size(g))
    IN  <<back(Start(g)), back(Finish(g)), size, calc_weight(size), calc_volume(size)>>

(* p ^ g: start, finish and size reordered; weight and volume recomputed. *)
Permuted(p, g) ==
    LET size == PermIdx(p, Size(g))
    IN  <<PermIdx(p, Start(g)), PermIdx(p, Finish(g)), size,
          calc_weight(size), calc_volume(size)>>

Init == order \in Orders /\ r = DefaultRange

(* RangeN r(s, f), r = RangeN(s, f) or r.resize(s, f). *)
Construct(s, f) == Valid(s, f) /\ r' = MakeRange(s, f) /\ UNCHANGED order

(* r = RangeN(): the default constructor. *)
Default == r' = DefaultRange /\ UNCHANGED order

(* r ^= p. *)
Permute(p) == r' = Permuted(p, r) /\ UNCHANGED order

(* r = r & b. *)
Intersect(b) == r' = Intersection(r, b) /\ UNCHANGED order

Next ==
    \/ \E s, f \in Index : Construct(s, f)
    \/ Default
    \/ \E p \in Permutations : Permute(p)
    \/ \E b \in AllRanges : Intersect(b)

Spec == Init /\ [][Next]_vars

-----------------------------------------------------------------------------
(* includes(i): start[d] <= i[d] < finish[d] on every dimension. *)
Includes(g, x) == \A d \in Dims : Start(g)[d] <= x[d] /\ x[d] < Finish(g)[d]

(* ordinal(i) = sum over d of weight[d] * (i[d] - start[d]). *)
Ordinal(g, x) ==
    LET f[k \in 0 .. Dim] == IF k = 0 THEN 0
                             ELSE f[k - 1] + Weight(g)[k] * (x[k] - Start(g)[k])
    IN  f[Dim]

Elements(g) == {x \in Index : Includes(g, x)}

(* The k-th least significant dimension. *)
Sig(k) == IF order = "increasing" THEN k ELSE Dim + 1 - k

(***************************************************************************)
(* The iterator's ++: step the least significant dimension; one that       *)
(* reaches its finish is reset to its start and carries into the next.     *)
(***************************************************************************)
Incr(g, x) ==
    LET c[k \in 1 .. Dim + 1] ==
            IF k = Dim + 1 THEN Finish(g)
            ELSE IF x[Sig(k)] + 1 < Finish(g)[Sig(k)]
                 THEN [x EXCEPT ![Sig(k)] = x[Sig(k)] + 1]
                 ELSE [c[k + 1] EXCEPT ![Sig(k)] = Start(g)[Sig(k)]]
    IN  c[1]

(* The sequence begin() .. end() of a non-empty Range. *)
Enumerate(g) ==
    LET e[n \in 1 .. Volume(g)] == IF n = 1 THEN Start(g) ELSE Incr(g, e[n - 1])
    IN  e

(***************************************************************************)
(* The ordinal of the Range r the program holds maps its indices one to    *)
(* one onto 0 .. volume-1, with ordinal(start) = 0 and                      *)
(* ordinal(finish - 1) = volume - 1, after any sequence of constructions,  *)
(* resizes, permutations and intersections: tile storage addressed by      *)
(* ordinal neither overlaps nor leaves gaps.                               *)
(***************************************************************************)
OrdinalBijective ==
    /\ {Ordinal(r, x) : x \in Elements(r)} = 0 .. Volume(r) - 1
    /\ Cardinality(Elements(r)) = Volume(r)
    /\ Volume(r) > 0 =>
          /\ Ordinal(r, Start(r)) = 0
          /\ Ordinal(r, [d \in Dims |-> Finish(r)[d] - 1]) = Volume(r) - 1

(***************************************************************************)
(* Iterating r from begin() visits its indices in ordinal order: the n-th  *)
(* index the iterator yields is in r and has ordinal n - 1, also after a   *)
(* permutation has reordered r's dimensions (a distributed transfer relies *)
(* on both sides enumerating a Range in the same order).                  *)
(***************************************************************************)
IterationFollowsOrdinal ==
    \A n \in 1 .. Volume(r) :
        /\ Includes(r, Enumerate(r)[n])
        /\ Ordinal(r, Enumerate(r)[n]) = n - 1

(***************************************************************************)
(* r & b, for the Range r the program holds and every Range b, holds       *)
(* exactly the indices in both r and b, and b & r is the same Range,       *)
(* whether r and b are disjoint, touching or nested.                       *)
(***************************************************************************)
IntersectIsMeet ==
    \A b \in AllRanges :
        LET m == Intersection(r, b)
        IN  /\ m = Intersection(b, r)
            /\ \A x \in Index : Includes(m, x) <=> Includes(r, x) /\ Includes(b, x)

(***************************************************************************)
(* r ^ p keeps r's volume, and an index x is in r exactly when p ^ x is in *)
(* the permuted Range, for every permutation p (not only the reversal the  *)
(* tests use, which is its own inverse).                                   *)
(***************************************************************************)
PermuteKeepsElements ==
    \A p \in Permutations :
        LET q == Permuted(p, r)
        IN  /\ Volume(q) = Volume(r)
            /\ \A x \in Index : Includes(r, x) <=> Includes(q, PermIdx(p, x))

=============================================================================
