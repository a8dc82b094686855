---------------------------- MODULE LapackShapes ----------------------------
(***************************************************************************)
(* The rank-local LAPACK wrappers of math/linalg/rank-local.cpp.  Each     *)
(* wrapper sizes its output matrices and vectors, derives the dimension    *)
(* and leading-dimension arguments from the Eigen matrices it was given,   *)
(* and calls one or two LAPACK routines through TA_LAPACK, which throws    *)
(* when a routine returns a non-zero info.                                 *)
(*                                                                         *)
(* The numbers in the matrices are abstracted away; what is kept is every  *)
(* buffer's allocation (rows x cols, column-major, so its leading          *)
(* dimension is rows) and, for every routine the wrapper really calls,     *)
(* the panel of each buffer that LAPACK reads or writes: rows x cols       *)
(* elements at stride ld, as the LAPACK interface documents for the        *)
(* arguments passed.  Each action is one wrapper call on operands of sizes *)
(* from Dims, with every outcome of the info codes; last records it.       *)
(***************************************************************************)
EXTENDS Naturals, Sequences

CONSTANTS Dims   \* matrix dimensions the calls may use

ASSUME LapackShapesAssumption == Dims \subseteq Nat \ {0}

VARIABLE last

vars == <<last>>

(* Buffer b, an Eigen::Matrix or std::vector of rows x cols elements. *)
Alloc(b, rows, cols) == <<b, rows, cols>>
Vec(b, n) == Alloc(b, n, 1)

(* LAPACK touches rows x cols elements of buffer b with leading dimension ld. *)
Acc(b, ld, rows, cols) == <<b, ld, rows, cols>>

Min2(a, b) == IF a <= b THEN a ELSE b

(***************************************************************************)
(* TA_LAPACK(name, args): (lapack::name(args) == 0) || throw.  Execution  *)
(* continues past a routine only when it returned info = 0.               *)
(***************************************************************************)
Continues(info) == info = 0

(***************************************************************************)
(* A wrapper call: the routines run in order until one does not continue; *)
(* that one throws std::runtime_error out of the wrapper.  pre records     *)
(* whether the caller's matrices met the wrapper's documented shape        *)
(* precondition (A square, and the other matrix with A's rows).            *)
(***************************************************************************)
Execute(fn, pre, bufs, routines) ==
    \E info \in [1 .. Len(routines) -> {0, 1}] :
        LET stop == {i \in 1 .. Len(routines) : ~Continues(info[i])}
            k == IF stop = {} THEN Len(routines)
                 ELSE CHOOSE i \in stop : \A j \in stop : i <= j
        IN  last' = [fn |-> fn, pre |-> pre, bufs |-> bufs, raised |-> stop # {},
                     made |-> [i \in 1 .. k |-> [routine |-> routines[i].routine,
                                                 acc |-> routines[i].acc,
                                                 info |-> info[i]]]]

(* A routine called with the panels it touches. *)
Call(routine, accs) == [routine |-> routine, acc |-> accs]

(***************************************************************************)
(* Each wrapper receives the caller's A (ar x ac) and, where it takes one, *)
(* a second matrix B or X (br x bc); n = A.rows(), nrhs = X.cols().        *)
(***************************************************************************)
cholesky(ar, ac) ==                              \* potrf, lda = n
    Execute("cholesky", ar = ac, <<Alloc("A", ar, ac)>>,
            <<Call("potrf", <<Acc("A", ar, ar, ar)>>)>>)

cholesky_linv(ar, ac) ==                         \* trtri, lda = n
    Execute("cholesky_linv", ar = ac, <<Alloc("A", ar, ac)>>,
            <<Call("trtri", <<Acc("A", ar, ar, ar)>>)>>)

cholesky_solve(ar, ac, br, bc) ==                \* posv, lda = ldb = n
    Execute("cholesky_solve", ar = ac /\ br = ar,
            <<Alloc("A", ar, ac), Alloc("X", br, bc)>>,
            <<Call("posv", <<Acc("A", ar, ar, ar), Acc("X", ar, ar, bc)>>)>>)

cholesky_lsolve(ar, ac, br, bc) ==               \* trtrs, lda = ldb = n
    Execute("cholesky_lsolve", ar = ac /\ br = ar,
            <<Alloc("A", ar, ac), Alloc("X", br, bc)>>,
            <<Call("trtrs", <<Acc("A", ar, ar, ar), Acc("X", ar, ar, bc)>>)>>)

heig(ar, ac) ==                                  \* W.resize(n); syev, lda = A.rows()
    Execute("heig", ar = ac, <<Alloc("A", ar, ac), Vec("W", ar)>>,
            <<Call("syev", <<Acc("A", ar, ar, ar), Acc("W", ar, ar, 1)>>)>>)

heig_gen(ar, ac, br, bc) ==                      \* W.resize(n); sygv, ldb = B.rows()
    Execute("heig_gen", ar = ac /\ br = ar /\ bc = ar,
            <<Alloc("A", ar, ac), Alloc("B", br, bc), Vec("W", ar)>>,
            <<Call("sygv", <<Acc("A", ar, ar, ar), Acc("B", br, ar, ar),
                            Acc("W", ar, ar, 1)>>)>>)

(***************************************************************************)
(* svd: S.resize(min(m, n)); with U requested, jobu = AllVec and          *)
(* U->resize(m, n), ldu = U->rows(); with VT requested, jobvt = AllVec and *)
(* VT->resize(n, m), ldvt = VT->rows().  gesvd with AllVec writes all m    *)
(* columns of U (m x m) and all n rows of VT (n x n).  A null U or VT is   *)
(* not referenced.  Any m x n matrix A is a legal argument.                *)
(***************************************************************************)
svd(m, n, wantU, wantVT) ==
    LET bufs == <<Alloc("A", m, n), Vec("S", Min2(m, n))>>
                \o (IF wantU THEN <<Alloc("U", m, n)>> ELSE <<>>)
                \o (IF wantVT THEN <<Alloc("VT", n, m)>> ELSE <<>>)
        accs == <<Acc("A", m, m, n), Acc("S", Min2(m, n), Min2(m, n), 1)>>
                \o (IF wantU THEN <<Acc("U", m, m, m)>> ELSE <<>>)
                \o (IF wantVT THEN <<Acc("VT", n, n, n)>> ELSE <<>>)
    IN  Execute("svd", TRUE, bufs, <<Call("gesvd", accs)>>)

LuSolve_ldb_cols(ar, ac, br, bc) ==
    Execute("lu_solve", ar = ac /\ br = ar,
            <<Alloc("A", ar, ac), Alloc("B", br, bc), Vec("ipiv", ar)>>,
            <<Call("gesv", <<Acc("A", ar, ar, ar), Acc("ipiv", ar, ar, 1),
                            Acc("B", bc, ar, bc)>>)>>)

lu_solve(ar, ac, br, bc) ==                      \* ipiv(n); gesv, ldb = B.rows()
    Execute("lu_solve", ar = ac /\ br = ar,
            <<Alloc("A", ar, ac), Alloc("B", br, bc), Vec("ipiv", ar)>>,
            <<Call("gesv", <<Acc("A", ar, ar, ar), Acc("ipiv", ar, ar, 1),
                            Acc("B", br, ar, bc)>>)>>)

lu_inv(ar, ac) ==                                \* ipiv(n); getrf then getri on A
    Execute("lu_inv", ar = ac, <<Alloc("A", ar, ac), Vec("ipiv", ar)>>,
            <<Call("getrf", <<Acc("A", ar, ar, ar), Acc("ipiv", ar, ar, 1)>>),
              Call("getri", <<Acc("A", ar, ar, ar), Acc("ipiv", ar, ar, 1)>>)>>)

NoCall == [fn |-> "none", pre |-> TRUE, bufs |-> <<>>, raised |-> FALSE, made |-> <<>>]

Init == last = NoCall

Next ==
    \/ \E ar, ac \in Dims :
           \/ cholesky(ar, ac)
           \/ cholesky_linv(ar, ac)
           \/ heig(ar, ac)
           \/ lu_inv(ar, ac)
           \/ \E wantU, wantVT \in BOOLEAN : svd(ar, ac, wantU, wantVT)
    \/ \E ar, ac, br, bc \in Dims :
           \/ cholesky_solve(ar, ac, br, bc)
           \/ cholesky_lsolve(ar, ac, br, bc)
           \/ heig_gen(ar, ac, br, bc)
           \/ lu_solve(ar, ac, br, bc)

Spec == Init /\ [][Next]_vars

-----------------------------------------------------------------------------
(***************************************************************************)
(* A panel fits its buffer when it uses the buffer's own column stride     *)
(* (the Eigen matrix's rows) and its last element, at offset               *)
(* ld * (cols - 1) + rows - 1, lies inside the rows x cols allocation.     *)
(***************************************************************************)
Fits(a, b) ==
    LET ld == a[2]  rows == a[3]  cols == a[4]  brows == b[2]  bcols == b[3]
    IN  /\ ld = brows
        /\ rows <= ld
        /\ ld * (cols - 1) + rows <= brows * bcols

(* The allocation of the buffer named b among the call's buffers. *)
BufOf(c, b) == c.bufs[CHOOSE k \in DOMAIN c.bufs : c.bufs[k][1] = b]

InBounds(c) ==
    \A i \in DOMAIN c.made : \A j \in DOMAIN c.made[i].acc :
        Fits(c.made[i].acc[j], BufOf(c, c.made[i].acc[j][1]))

(***************************************************************************)
(* Every LAPACK routine called by cholesky, cholesky_linv, cholesky_solve, *)
(* cholesky_lsolve, heig (both), lu_solve and lu_inv reads and writes only *)
(* inside the matrices and vectors the wrapper passes, with the leading    *)
(* dimensions it derives, for every size of operands that meets the       *)
(* shape precondition (none of these wrappers checks it: rank-local.cpp   *)
(* takes n = A.rows() and trusts A to be n x n).                          *)
(***************************************************************************)
SquareWrappersInBounds == last.fn # "svd" /\ last.pre => InBounds(last)

(***************************************************************************)
(* The same for svd: gesvd stays inside U, VT, S and A as the wrapper     *)
(* sizes them.                                                             *)
(***************************************************************************)
SvdInBounds == last.fn = "svd" => InBounds(last)
=============================================================================
