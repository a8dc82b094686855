------------------------- MODULE LapackShapesProofs -------------------------
(***************************************************************************)
(* Proofs about the rank-local LAPACK wrappers (module LapackShapes) for   *)
(* operands of every size: the square wrappers stay inside their buffers  *)
(* whichever routine fails.                                                *)
(***************************************************************************)
EXTENDS LapackShapes, TLAPS

(* The least element of a non-empty set of routine positions. *)
LEMMA LeastExists ==
  ASSUME NEW S \in SUBSET (1 .. 2), S # {}
  PROVE  \E i \in S : \A j \in S : i <= j
  <1>1. CASE 1 \in S  BY <1>1
  <1>2. CASE 1 \notin S
    <2>1. PICK s \in S : TRUE  OBVIOUS
    <2>2. s = 2  BY <1>2
    <2>3. QED  BY <2>2
  <1>3. QED  BY <1>1, <1>2

(***************************************************************************)
(* What one wrapper call of one or two routines records: its name, the    *)
(* caller's shapes, and the routines up to the first failure with the     *)
(* panels they were called with.                                           *)
(***************************************************************************)
Recorded(fn, pre, bufs, n, routines) ==
  /\ last.fn = fn /\ last.pre = pre /\ last.bufs = bufs
  /\ \E k \in 1 .. n : /\ DOMAIN last.made = 1 .. k
                       /\ \A i \in 1 .. k : last.made[i].acc = routines[i].acc

LEMMA ExecuteRecord ==
  ASSUME NEW fn, NEW pre, NEW bufs, NEW n \in {1, 2}, NEW routines,
         Len(routines) = n, Execute(fn, pre, bufs, routines)
  PROVE  Recorded(fn, pre, bufs, n, routines)'
  <1>1. PICK info \in [1 .. n -> {0, 1}] :
          LET stop == {i \in 1 .. n : ~Continues(info[i])}
              k == IF stop = {} THEN n ELSE CHOOSE i \in stop : \A j \in stop : i <= j
          IN  last' = [fn |-> fn, pre |-> pre, bufs |-> bufs, raised |-> stop # {},
                       made |-> [i \in 1 .. k |-> [routine |-> routines[i].routine,
                                                   acc |-> routines[i].acc,
                                                   info |-> info[i]]]]
    BY DEF Execute
  <1> DEFINE stop == {i \in 1 .. n : info[i] # 0}
  <1>2. CASE stop = {}
    <2>1. last' = [fn |-> fn, pre |-> pre, bufs |-> bufs, raised |-> FALSE,
                   made |-> [i \in 1 .. n |-> [routine |-> routines[i].routine,
                                               acc |-> routines[i].acc,
                                               info |-> info[i]]]]
      BY <1>1, <1>2 DEF Continues
    <2>2. DOMAIN last'.made = 1 .. n
      BY <2>1
    <2>3. last'.fn = fn /\ last'.pre = pre /\ last'.bufs = bufs
      BY <2>1
    <2>4. \A i \in 1 .. n : last'.made[i].acc = routines[i].acc
      BY <2>1
    <2>5. QED
      BY <2>2, <2>3, <2>4 DEF Recorded
  <1>3. CASE stop # {}
    <2>1. PICK k \in stop : /\ \A j \in stop : k <= j
                            /\ k = CHOOSE i \in stop : \A j \in stop : i <= j
      BY <1>3, LeastExists
    <2>2. last' = [fn |-> fn, pre |-> pre, bufs |-> bufs, raised |-> TRUE,
                   made |-> [i \in 1 .. k |-> [routine |-> routines[i].routine,
                                               acc |-> routines[i].acc,
                                               info |-> info[i]]]]
      BY <1>1, <1>3, <2>1 DEF Continues
    <2>3. DOMAIN last'.made = 1 .. k /\ k \in 1 .. n
      BY <2>2
    <2>4. QED
      BY <2>2, <2>3 DEF Recorded
  <1>4. QED
    BY <1>2, <1>3

-----------------------------------------------------------------------------
(* Panel a fits the buffer of its name among bufs. *)
FitsIn(bufs, a) == Fits(a, bufs[CHOOSE k \in DOMAIN bufs : bufs[k][1] = a[1]])

(* Every panel of every routine fits its buffer. *)
RoutinesFit(bufs, routines) ==
    \A i \in DOMAIN routines : \A j \in DOMAIN routines[i].acc :
        FitsIn(bufs, routines[i].acc[j])

(***************************************************************************)
(* A wrapper of one or two routines whose panels all fit stays in bounds   *)
(* whichever routine fails: any wrapper other than svd whose panels fit    *)
(* under its precondition meets SquareWrappersInBounds after its call.     *)
(***************************************************************************)
LEMMA WrapperStep ==
  ASSUME NEW fn, NEW pre, NEW bufs, NEW n \in {1, 2}, NEW routines,
         Len(routines) = n, DOMAIN routines = 1 .. n,
         fn # "svd" /\ pre => RoutinesFit(bufs, routines),
         Execute(fn, pre, bufs, routines)
  PROVE  SquareWrappersInBounds'
  <1>0. Recorded(fn, pre, bufs, n, routines)'
    BY ExecuteRecord
  <1>1. PICK k \in 1 .. n : /\ DOMAIN last'.made = 1 .. k
                            /\ \A i \in 1 .. k : last'.made[i].acc = routines[i].acc
    BY <1>0 DEF Recorded
  <1>2. last'.fn = fn /\ last'.pre = pre /\ last'.bufs = bufs
    BY <1>0 DEF Recorded
  <1>3. ASSUME fn # "svd" /\ pre PROVE InBounds(last')
    <2>1. RoutinesFit(bufs, routines)
      BY <1>3
    <2> SUFFICES ASSUME NEW i \in DOMAIN last'.made, NEW j \in DOMAIN last'.made[i].acc
                 PROVE  Fits(last'.made[i].acc[j], BufOf(last', last'.made[i].acc[j][1]))
      BY DEF InBounds
    <2>2. i \in DOMAIN routines /\ last'.made[i].acc = routines[i].acc
      BY <1>1
    <2>3. FitsIn(bufs, routines[i].acc[j])
      BY <2>1, <2>2 DEF RoutinesFit
    <2>4. QED
      BY <1>2, <2>2, <2>3 DEF BufOf, FitsIn
  <1>4. QED
    BY <1>2, <1>3 DEF SquareWrappersInBounds

(* The buffer of each name among two or three buffers of distinct names. *)
LEMMA Pick2 ==
  ASSUME NEW x, NEW y, x[1] # y[1]
  PROVE  /\ <<x, y>>[CHOOSE k \in DOMAIN <<x, y>> : <<x, y>>[k][1] = x[1]] = x
         /\ <<x, y>>[CHOOSE k \in DOMAIN <<x, y>> : <<x, y>>[k][1] = y[1]] = y
  OBVIOUS

LEMMA Pick3 ==
  ASSUME NEW x, NEW y, NEW z, x[1] # y[1], x[1] # z[1], y[1] # z[1]
  PROVE  /\ <<x, y, z>>[CHOOSE k \in DOMAIN <<x, y, z>> : <<x, y, z>>[k][1] = x[1]] = x
         /\ <<x, y, z>>[CHOOSE k \in DOMAIN <<x, y, z>> : <<x, y, z>>[k][1] = y[1]] = y
         /\ <<x, y, z>>[CHOOSE k \in DOMAIN <<x, y, z>> : <<x, y, z>>[k][1] = z[1]] = z
  <1> DEFINE bufs == <<x, y, z>>
  <1>1. DOMAIN bufs = {1, 2, 3} /\ bufs[1] = x /\ bufs[2] = y /\ bufs[3] = z
    OBVIOUS
  <1>2. \A n \in {x[1], y[1], z[1]} :
           LET k == CHOOSE k \in DOMAIN bufs : bufs[k][1] = n
           IN  k \in {1, 2, 3} /\ bufs[k][1] = n
    BY <1>1
  <1>3. QED
    BY <1>1, <1>2

(* A call whose panels all fit their buffers. *)
LEMMA Call2Fits ==
  ASSUME NEW bufs, NEW rt, NEW a, NEW b, FitsIn(bufs, a), FitsIn(bufs, b)
  PROVE  RoutinesFit(bufs, <<Call(rt, <<a, b>>)>>)
  BY DEF RoutinesFit, Call

LEMMA Call3Fits ==
  ASSUME NEW bufs, NEW rt, NEW a, NEW b, NEW c,
         FitsIn(bufs, a), FitsIn(bufs, b), FitsIn(bufs, c)
  PROVE  RoutinesFit(bufs, <<Call(rt, <<a, b, c>>)>>)
  <1>1. DOMAIN <<a, b, c>> = {1, 2, 3}
    OBVIOUS
  <1>2. QED
    BY <1>1 DEF RoutinesFit, Call

(* potrf's and trtri's n x n panel of A, lda = n, when A is n x n. *)
LEMMA CholeskyFits ==
  ASSUME NEW ar \in Nat \ {0}, NEW ac \in Nat, ar = ac, NEW rt
  PROVE  RoutinesFit(<<Alloc("A", ar, ac)>>, <<Call(rt, <<Acc("A", ar, ar, ar)>>)>>)
  <1> DEFINE bufs == <<Alloc("A", ar, ac)>>
  <1>1. bufs[CHOOSE k \in DOMAIN bufs : bufs[k][1] = "A"] = bufs[1]
    BY DEF Alloc
  <1>2. ar * (ar - 1) + ar <= ar * ac
    BY SMT
  <1>3. QED
    BY <1>1, <1>2 DEF RoutinesFit, FitsIn, Fits, Alloc, Acc, Call

(* posv's and trtrs's panels: A n x n, lda = n; X n x nrhs, ldb = n. *)
LEMMA SolveFits ==
  ASSUME NEW ar \in Nat \ {0}, NEW ac \in Nat, NEW br \in Nat, NEW bc \in Nat \ {0},
         ar = ac /\ br = ar, NEW rt
  PROVE  RoutinesFit(<<Alloc("A", ar, ac), Alloc("X", br, bc)>>,
                     <<Call(rt, <<Acc("A", ar, ar, ar), Acc("X", ar, ar, bc)>>)>>)
  <1> DEFINE bufs == <<Alloc("A", ar, ac), Alloc("X", br, bc)>>
  <1>1. FitsIn(bufs, Acc("A", ar, ar, ar))
    <2>1. ar * (ar - 1) + ar <= ar * ac  BY SMT
    <2>2. QED  BY <2>1, Pick2 DEF FitsIn, Fits, Alloc, Acc
  <1>2. FitsIn(bufs, Acc("X", ar, ar, bc))
    <2>1. ar * (bc - 1) + ar <= br * bc  BY SMT
    <2>2. QED  BY <2>1, Pick2 DEF FitsIn, Fits, Alloc, Acc
  <1>3. QED
    BY <1>1, <1>2, Call2Fits

(* syev's panels: A n x n, lda = n; W of length n. *)
LEMMA HeigFits ==
  ASSUME NEW ar \in Nat \ {0}, NEW ac \in Nat, ar = ac
  PROVE  RoutinesFit(<<Alloc("A", ar, ac), Vec("W", ar)>>,
                     <<Call("syev", <<Acc("A", ar, ar, ar), Acc("W", ar, ar, 1)>>)>>)
  <1> DEFINE bufs == <<Alloc("A", ar, ac), Vec("W", ar)>>
  <1>1. FitsIn(bufs, Acc("A", ar, ar, ar))
    <2>1. ar * (ar - 1) + ar <= ar * ac  BY SMT
    <2>2. QED  BY <2>1, Pick2 DEF FitsIn, Fits, Alloc, Vec, Acc
  <1>2. FitsIn(bufs, Acc("W", ar, ar, 1))
    BY Pick2 DEF FitsIn, Fits, Alloc, Vec, Acc
  <1>3. QED
    BY <1>1, <1>2, Call2Fits

(* sygv's panels: A and B n x n, lda = n, ldb = B.rows(); W of length n. *)
LEMMA HeigGenFits ==
  ASSUME NEW ar \in Nat \ {0}, NEW ac \in Nat, NEW br \in Nat, NEW bc \in Nat,
         ar = ac /\ br = ar /\ bc = ar
  PROVE  RoutinesFit(<<Alloc("A", ar, ac), Alloc("B", br, bc), Vec("W", ar)>>,
                     <<Call("sygv", <<Acc("A", ar, ar, ar), Acc("B", br, ar, ar),
                                      Acc("W", ar, ar, 1)>>)>>)
  <1> DEFINE bufs == <<Alloc("A", ar, ac), Alloc("B", br, bc), Vec("W", ar)>>
  <1>0. ar * (ar - 1) + ar <= ar * ar  BY SMT
  <1>1. FitsIn(bufs, Acc("A", ar, ar, ar))
    BY <1>0, Pick3 DEF FitsIn, Fits, Alloc, Vec, Acc
  <1>2. FitsIn(bufs, Acc("B", br, ar, ar))
    BY <1>0, Pick3 DEF FitsIn, Fits, Alloc, Vec, Acc
  <1>3. FitsIn(bufs, Acc("W", ar, ar, 1))
    BY Pick3 DEF FitsIn, Fits, Alloc, Vec, Acc
  <1>4. QED
    BY <1>1, <1>2, <1>3, Call3Fits

(* gesv's panels: A n x n, lda = n; ipiv of length n; B n x nrhs, ldb = B.rows(). *)
LEMMA LuSolveFits ==
  ASSUME NEW ar \in Nat \ {0}, NEW ac \in Nat, NEW br \in Nat, NEW bc \in Nat \ {0},
         ar = ac /\ br = ar
  PROVE  RoutinesFit(<<Alloc("A", ar, ac), Alloc("B", br, bc), Vec("ipiv", ar)>>,
                     <<Call("gesv", <<Acc("A", ar, ar, ar), Acc("ipiv", ar, ar, 1),
                                      Acc("B", br, ar, bc)>>)>>)
  <1> DEFINE bufs == <<Alloc("A", ar, ac), Alloc("B", br, bc), Vec("ipiv", ar)>>
  <1>1. FitsIn(bufs, Acc("A", ar, ar, ar))
    <2>1. ar * (ar - 1) + ar <= ar * ac  BY SMT
    <2>2. QED  BY <2>1, Pick3 DEF FitsIn, Fits, Alloc, Vec, Acc
  <1>2. FitsIn(bufs, Acc("ipiv", ar, ar, 1))
    BY Pick3 DEF FitsIn, Fits, Alloc, Vec, Acc
  <1>3. FitsIn(bufs, Acc("B", br, ar, bc))
    <2>1. br * (bc - 1) + ar <= br * bc  BY SMT
    <2>2. QED  BY <2>1, Pick3 DEF FitsIn, Fits, Alloc, Vec, Acc
  <1>4. QED
    BY <1>1, <1>2, <1>3, Call3Fits

(* getrf's and getri's panels: A n x n, lda = n; ipiv of length n. *)
LEMMA LuInvFits ==
  ASSUME NEW ar \in Nat \ {0}, NEW ac \in Nat, ar = ac
  PROVE  RoutinesFit(<<Alloc("A", ar, ac), Vec("ipiv", ar)>>,
                     <<Call("getrf", <<Acc("A", ar, ar, ar), Acc("ipiv", ar, ar, 1)>>),
                       Call("getri", <<Acc("A", ar, ar, ar), Acc("ipiv", ar, ar, 1)>>)>>)
  <1> DEFINE bufs == <<Alloc("A", ar, ac), Vec("ipiv", ar)>>
  <1>1. FitsIn(bufs, Acc("A", ar, ar, ar))
    <2>1. ar * (ar - 1) + ar <= ar * ac  BY SMT
    <2>2. QED  BY <2>1, Pick2 DEF FitsIn, Fits, Alloc, Vec, Acc
  <1>2. FitsIn(bufs, Acc("ipiv", ar, ar, 1))
    BY Pick2 DEF FitsIn, Fits, Alloc, Vec, Acc
  <1>3. RoutinesFit(bufs, <<Call("getrf", <<Acc("A", ar, ar, ar), Acc("ipiv", ar, ar, 1)>>)>>)
    BY <1>1, <1>2, Call2Fits
  <1>4. RoutinesFit(bufs, <<Call("getri", <<Acc("A", ar, ar, ar), Acc("ipiv", ar, ar, 1)>>)>>)
    BY <1>1, <1>2, Call2Fits
  <1>5. QED
    BY <1>3, <1>4 DEF RoutinesFit

-----------------------------------------------------------------------------
(***************************************************************************)
(* Both properties are about the last call alone, and each call records    *)
(* all of last afresh: together they are inductive as they stand, with no  *)
(* strengthening, because every wrapper meets them whatever came before.   *)
(***************************************************************************)
LapackInv == SquareWrappersInBounds

LEMMA InitLapackInv == Init => LapackInv
  BY DEF Init, NoCall, LapackInv, SquareWrappersInBounds, InBounds

LEMMA NextLapackInv == LapackInv /\ [Next]_vars => LapackInv'
<1> SUFFICES ASSUME LapackInv, [Next]_vars PROVE LapackInv'
  OBVIOUS
<1> USE LapackShapesAssumption
<1>1. ASSUME NEW ar \in Dims, NEW ac \in Dims,
             cholesky(ar, ac)
      PROVE  LapackInv'
  <2> DEFINE bufs == <<Alloc("A", ar, ac)>>
             routines == <<Call("potrf", <<Acc("A", ar, ar, ar)>>)>>
  <2>1. Execute("cholesky", ar = ac, bufs, routines)
    BY <1>1 DEF cholesky
  <2>2. Len(routines) = 1 /\ DOMAIN routines = 1 .. 1
    OBVIOUS
  <2>3. ASSUME ar = ac PROVE RoutinesFit(bufs, routines)
    BY <2>3, CholeskyFits
  <2>4. "cholesky" # "svd" /\ ar = ac => RoutinesFit(bufs, routines)
    BY <2>3
  <2>5. QED
    BY <2>1, <2>2, <2>4, WrapperStep DEF LapackInv
<1>2. ASSUME NEW ar \in Dims, NEW ac \in Dims,
             cholesky_linv(ar, ac)
      PROVE  LapackInv'
  <2> DEFINE bufs == <<Alloc("A", ar, ac)>>
             routines == <<Call("trtri", <<Acc("A", ar, ar, ar)>>)>>
  <2>1. Execute("cholesky_linv", ar = ac, bufs, routines)
    BY <1>2 DEF cholesky_linv
  <2>2. Len(routines) = 1 /\ DOMAIN routines = 1 .. 1
    OBVIOUS
  <2>3. ASSUME ar = ac PROVE RoutinesFit(bufs, routines)
    BY <2>3, CholeskyFits
  <2>4. "cholesky_linv" # "svd" /\ ar = ac => RoutinesFit(bufs, routines)
    BY <2>3
  <2>5. QED
    BY <2>1, <2>2, <2>4, WrapperStep DEF LapackInv
<1>3. ASSUME NEW ar \in Dims, NEW ac \in Dims, NEW br \in Dims, NEW bc \in Dims,
             cholesky_solve(ar, ac, br, bc)
      PROVE  LapackInv'
  <2> DEFINE bufs == <<Alloc("A", ar, ac), Alloc("X", br, bc)>>
             routines == <<Call("posv", <<Acc("A", ar, ar, ar), Acc("X", ar, ar, bc)>>)>>
  <2>1. Execute("cholesky_solve", ar = ac /\ br = ar, bufs, routines)
    BY <1>3 DEF cholesky_solve
  <2>2. Len(routines) = 1 /\ DOMAIN routines = 1 .. 1
    OBVIOUS
  <2>3. ASSUME ar = ac /\ br = ar PROVE RoutinesFit(bufs, routines)
    BY <2>3, SolveFits
  <2>4. "cholesky_solve" # "svd" /\ ar = ac /\ br = ar => RoutinesFit(bufs, routines)
    BY <2>3
  <2>5. QED
    BY <2>1, <2>2, <2>4, WrapperStep DEF LapackInv
<1>4. ASSUME NEW ar \in Dims, NEW ac \in Dims, NEW br \in Dims, NEW bc \in Dims,
             cholesky_lsolve(ar, ac, br, bc)
      PROVE  LapackInv'
  <2> DEFINE bufs == <<Alloc("A", ar, ac), Alloc("X", br, bc)>>
             routines == <<Call("trtrs", <<Acc("A", ar, ar, ar), Acc("X", ar, ar, bc)>>)>>
  <2>1. Execute("cholesky_lsolve", ar = ac /\ br = ar, bufs, routines)
    BY <1>4 DEF cholesky_lsolve
  <2>2. Len(routines) = 1 /\ DOMAIN routines = 1 .. 1
    OBVIOUS
  <2>3. ASSUME ar = ac /\ br = ar PROVE RoutinesFit(bufs, routines)
    BY <2>3, SolveFits
  <2>4. "cholesky_lsolve" # "svd" /\ ar = ac /\ br = ar => RoutinesFit(bufs, routines)
    BY <2>3
  <2>5. QED
    BY <2>1, <2>2, <2>4, WrapperStep DEF LapackInv
<1>5. ASSUME NEW ar \in Dims, NEW ac \in Dims,
             heig(ar, ac)
      PROVE  LapackInv'
  <2> DEFINE bufs == <<Alloc("A", ar, ac), Vec("W", ar)>>
             routines == <<Call("syev", <<Acc("A", ar, ar, ar), Acc("W", ar, ar, 1)>>)>>
  <2>1. Execute("heig", ar = ac, bufs, routines)
    BY <1>5 DEF heig
  <2>2. Len(routines) = 1 /\ DOMAIN routines = 1 .. 1
    OBVIOUS
  <2>3. ASSUME ar = ac PROVE RoutinesFit(bufs, routines)
    BY <2>3, HeigFits
  <2>4. "heig" # "svd" /\ ar = ac => RoutinesFit(bufs, routines)
    BY <2>3
  <2>5. QED
    BY <2>1, <2>2, <2>4, WrapperStep DEF LapackInv
<1>6. ASSUME NEW ar \in Dims, NEW ac \in Dims, NEW br \in Dims, NEW bc \in Dims,
             heig_gen(ar, ac, br, bc)
      PROVE  LapackInv'
  <2> DEFINE bufs == <<Alloc("A", ar, ac), Alloc("B", br, bc), Vec("W", ar)>>
             routines == <<Call("sygv", <<Acc("A", ar, ar, ar), Acc("B", br, ar, ar),
                                 Acc("W", ar, ar, 1)>>)>>
  <2>1. Execute("heig_gen", ar = ac /\ br = ar /\ bc = ar, bufs, routines)
    BY <1>6 DEF heig_gen
  <2>2. Len(routines) = 1 /\ DOMAIN routines = 1 .. 1
    OBVIOUS
  <2>3. ASSUME ar = ac /\ br = ar /\ bc = ar PROVE RoutinesFit(bufs, routines)
    BY <2>3, HeigGenFits
  <2>4. "heig_gen" # "svd" /\ ar = ac /\ br = ar /\ bc = ar => RoutinesFit(bufs, routines)
    BY <2>3
  <2>5. QED
    BY <2>1, <2>2, <2>4, WrapperStep DEF LapackInv
<1>7. ASSUME NEW ar \in Dims, NEW ac \in Dims, NEW br \in Dims, NEW bc \in Dims,
             lu_solve(ar, ac, br, bc)
      PROVE  LapackInv'
  <2> DEFINE bufs == <<Alloc("A", ar, ac), Alloc("B", br, bc), Vec("ipiv", ar)>>
             routines == <<Call("gesv", <<Acc("A", ar, ar, ar), Acc("ipiv", ar, ar, 1),
                                 Acc("B", br, ar, bc)>>)>>
  <2>1. Execute("lu_solve", ar = ac /\ br = ar, bufs, routines)
    BY <1>7 DEF lu_solve
  <2>2. Len(routines) = 1 /\ DOMAIN routines = 1 .. 1
    OBVIOUS
  <2>3. ASSUME ar = ac /\ br = ar PROVE RoutinesFit(bufs, routines)
    BY <2>3, LuSolveFits
  <2>4. "lu_solve" # "svd" /\ ar = ac /\ br = ar => RoutinesFit(bufs, routines)
    BY <2>3
  <2>5. QED
    BY <2>1, <2>2, <2>4, WrapperStep DEF LapackInv
<1>8. ASSUME NEW ar \in Dims, NEW ac \in Dims,
             lu_inv(ar, ac)
      PROVE  LapackInv'
  <2> DEFINE bufs == <<Alloc("A", ar, ac), Vec("ipiv", ar)>>
             routines == <<Call("getrf", <<Acc("A", ar, ar, ar), Acc("ipiv", ar, ar, 1)>>),
                         Call("getri", <<Acc("A", ar, ar, ar), Acc("ipiv", ar, ar, 1)>>)>>
  <2>1. Execute("lu_inv", ar = ac, bufs, routines)
    BY <1>8 DEF lu_inv
  <2>2. Len(routines) = 2 /\ DOMAIN routines = 1 .. 2
    OBVIOUS
  <2>3. ASSUME ar = ac PROVE RoutinesFit(bufs, routines)
    BY <2>3, LuInvFits
  <2>4. "lu_inv" # "svd" /\ ar = ac => RoutinesFit(bufs, routines)
    BY <2>3
  <2>5. QED
    BY <2>1, <2>2, <2>4, WrapperStep DEF LapackInv
<1>9. ASSUME NEW m \in Dims, NEW n \in Dims, NEW wantU \in BOOLEAN, NEW wantVT \in BOOLEAN,
             svd(m, n, wantU, wantVT)
      PROVE  LapackInv'
  <2> DEFINE bufs == <<Alloc("A", m, n), Vec("S", Min2(m, n))>>
                     \o (IF wantU THEN <<Alloc("U", m, n)>> ELSE <<>>)
                     \o (IF wantVT THEN <<Alloc("VT", n, m)>> ELSE <<>>)
             accs == <<Acc("A", m, m, n), Acc("S", Min2(m, n), Min2(m, n), 1)>>
                     \o (IF wantU THEN <<Acc("U", m, m, m)>> ELSE <<>>)
                     \o (IF wantVT THEN <<Acc("VT", n, n, n)>> ELSE <<>>)
  <2>1. Execute("svd", TRUE, bufs, <<Call("gesvd", accs)>>)
    BY <1>9 DEF svd
  <2>2. Len(<<Call("gesvd", accs)>>) = 1 /\ DOMAIN <<Call("gesvd", accs)>> = 1 .. 1
    OBVIOUS
  <2>3. QED
    BY <2>1, <2>2, WrapperStep DEF LapackInv
<1>10. CASE UNCHANGED vars
  <2>1. last' = last
    BY <1>10 DEF vars
  <2>2. QED
    BY <2>1, Zenon DEF LapackInv, SquareWrappersInBounds
<1>11. QED
  BY <1>1, <1>2, <1>3, <1>4, <1>5, <1>6, <1>7, <1>8, <1>9, <1>10 DEF Next

(***************************************************************************)
(* For operands of every size that meet the shape precondition, every      *)
(* LAPACK routine called by cholesky, cholesky_linv, cholesky_solve,       *)
(* cholesky_lsolve, heig (both), lu_solve and lu_inv reads and writes only *)
(* inside the buffers the wrapper passes, with the leading dimensions it   *)
(* derives, whichever routine fails (the property the lapack_shapes run    *)
(* checks for sizes up to 3).                                              *)
(***************************************************************************)
THEOREM SquareWrappersInBoundsHolds == Spec => []SquareWrappersInBounds
<1>1. Spec => []LapackInv
  BY InitLapackInv, NextLapackInv, PTL DEF Spec
<1>2. QED
  BY <1>1, PTL DEF LapackInv
=============================================================================
