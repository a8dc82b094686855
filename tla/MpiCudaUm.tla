----------------------------- MODULE MpiCudaUm -----------------------------
(***************************************************************************)
(* The CUDA-aware MPI test examples/mpi_tests/mpi_cuda_um.cpp: every rank  *)
(* of an MPI job checks the job size, allocates a managed buffer with      *)
(* cudaMallocManaged, asserts on cuda_error, and then rank 0 fills the     *)
(* buffer and sends it to rank 1 (tag 100) while every other rank receives *)
(* from rank 0 and verifies the data; all free and finalize.               *)
(*                                                                         *)
(* Each rank is a process with a program counter.  The N ints of a buffer  *)
(* are abstracted to its content: "data" (0 .. N-1, what rank 0 writes) or *)
(* "garbage".  cuda_error is never assigned, so the assert at line 54      *)
(* reads an uninitialised value: in a debug build it passes or aborts, a   *)
(* nondeterministic choice; with NDEBUG it is compiled out.  A write to,   *)
(* a send from or a receive into a buffer whose allocation failed goes     *)
(* through a wild pointer: the process crashes or goes on with garbage.   *)
(* An abort or an uncaught exception on any rank ends the whole job        *)
(* (mpirun tears the other ranks down).  MPI_Send may buffer the message   *)
(* (eager) or wait until it is matched (rendezvous): both are allowed.     *)
(***************************************************************************)
EXTENDS Naturals, FiniteSets

CONSTANTS MaxRanks   \* mpirun launches the test with 1 .. MaxRanks processes

ASSUME MpiCudaUmAssumption == MaxRanks \in Nat \ {0}

Sizes == 1 .. MaxRanks

Procs == 0 .. MaxRanks - 1

Tag == 100

VARIABLES
    size,     \* MPI_Comm_size of the job
    ndebug,   \* the build defines NDEBUG: assert is compiled out
    pc,       \* [Procs -> program point]
    alloc,    \* [Procs -> "none" | "ok" | "failed"]: cudaMallocManaged's outcome
    buf,      \* [Procs -> "data" | "garbage"]: the content of vector_um
    msgs,     \* messages in flight: <<source, dest, tag, payload>>
    aborted   \* the job was torn down by an abort on some rank

vars == <<size, ndebug, pc, alloc, buf, msgs, aborted>>

Payloads == {"data", "garbage"}

TypeOK ==
    /\ size \in Sizes /\ ndebug \in BOOLEAN /\ aborted \in BOOLEAN
    /\ pc \in [Procs -> {"absent", "init", "alloc", "check", "fill", "send",
                         "waitsend", "recv", "verify", "free", "finalize", "done"}]
    /\ alloc \in [Procs -> {"none", "ok", "failed"}]
    /\ buf \in [Procs -> Payloads]
    /\ msgs \subseteq Procs \X Procs \X {Tag} \X Payloads

Init ==
    /\ size \in Sizes
    /\ ndebug \in BOOLEAN
    /\ pc = [p \in Procs |-> IF p < size THEN "init" ELSE "absent"]
    /\ alloc = [p \in Procs |-> "none"]
    /\ buf = [p \in Procs |-> "garbage"]
    /\ msgs = {}
    /\ aborted = FALSE

(* A step of rank p that is still running in a job that was not torn down. *)
Running(p, at) == ~aborted /\ pc[p] = at

(* abort(), an uncaught exception or a crash: the job is torn down. *)
Abort == aborted' = TRUE /\ UNCHANGED <<size, ndebug, pc, alloc, buf, msgs>>

(* Rank p moves to program point at, changing nothing else. *)
Proceed(p, at) ==
    /\ pc' = [pc EXCEPT ![p] = at]
    /\ UNCHANGED <<size, ndebug, alloc, buf, msgs, aborted>>

(* MPI_Init, MPI_Comm_size and MPI_Comm_rank; any size but 2 throws. *)
SizeCheck(p) ==
    /\ Running(p, "init")
    /\ IF size # 2 THEN Abort ELSE Proceed(p, "alloc")

(* cudaMallocManaged(&vector_um, ...): its return value is discarded. *)
Alloc(p) ==
    /\ Running(p, "alloc")
    /\ \E r \in {"ok", "failed"} : alloc' = [alloc EXCEPT ![p] = r]
    /\ pc' = [pc EXCEPT ![p] = "check"]
    /\ UNCHANGED <<size, ndebug, buf, msgs, aborted>>

(* After the assert, rank 0 fills and sends, every other rank receives. *)
Branch(p) == IF p = 0 THEN "fill" ELSE "recv"

(* assert(cuda_error == cudaSuccess) reads the never-assigned cuda_error: *)
(* with NDEBUG it is gone, otherwise its garbage may or may not be 0.    *)
CheckAlloc(p) ==
    /\ Running(p, "check")
    /\ \/ Proceed(p, Branch(p))
       \/ ~ndebug /\ Abort

(* Touching vector_um when cudaMallocManaged failed: a wild pointer. *)
Wild(p) == alloc[p] = "failed" /\ Abort

Fill_no_write(p) ==
    /\ Running(p, "fill")
    /\ \/ Proceed(p, "send")
       \/ Wild(p)

(* The loop vector_um[i] = i (a wild write crashes or corrupts silently). *)
Fill(p) ==
    /\ Running(p, "fill")
    /\ \/ /\ buf' = [buf EXCEPT ![p] = IF alloc[p] = "ok" THEN "data" ELSE @]
          /\ pc' = [pc EXCEPT ![p] = "send"]
          /\ UNCHANGED <<size, ndebug, alloc, msgs, aborted>>
       \/ Wild(p)

(* MPI_Send(vector_um, N, MPI_INT, 1, 100): buffered (eager) or waiting *)
(* for the matching receive (rendezvous).                               *)
Send(p) ==
    /\ Running(p, "send")
    /\ \/ /\ msgs' = msgs \cup {<<p, 1, Tag, buf[p]>>}
          /\ \E at \in {"free", "waitsend"} : pc' = [pc EXCEPT ![p] = at]
          /\ UNCHANGED <<size, ndebug, alloc, buf, aborted>>
       \/ Wild(p)

(* No message of rank p is left unmatched. *)
Matched(p) == ~\E m \in msgs : m[1] = p

(* A rendezvous send returns once its message has been matched. *)
SendDone(p) ==
    /\ Running(p, "waitsend")
    /\ Matched(p)
    /\ Proceed(p, "free")

(* MPI_Recv(vector_um, N, MPI_INT, 0, 100): matches source and tag. *)
Matches_other_tag(m, p) == m[1] = 0 /\ m[2] = p /\ m[3] = Tag + 1

Matches(m, p) == m[1] = 0 /\ m[2] = p /\ m[3] = Tag

(* A message that MPI_Recv on rank p accepts is in flight. *)
Arrived(p) == \E m \in msgs : Matches(m, p)

Recv(p) ==
    /\ Running(p, "recv")
    /\ \E m \in msgs :
          /\ Matches(m, p)
          /\ \/ /\ msgs' = msgs \ {m}
                /\ buf' = [buf EXCEPT ![p] = IF alloc[p] = "ok" THEN m[4] ELSE @]
                /\ pc' = [pc EXCEPT ![p] = "verify"]
                /\ UNCHANGED <<size, ndebug, alloc, aborted>>
             \/ Wild(p)

(* assert(vector_um[i] == i) for every i: fails on garbage unless NDEBUG. *)
Verify(p) ==
    /\ Running(p, "verify")
    /\ IF ~ndebug /\ buf[p] # "data" THEN Abort ELSE Proceed(p, "free")

(* cudaFree(vector_um): its error on a pointer never allocated is ignored. *)
Free(p) ==
    /\ Running(p, "free")
    /\ Proceed(p, "finalize")

(* The success message on rank 0, MPI_Finalize and return 0. *)
Finalize(p) ==
    /\ Running(p, "finalize")
    /\ Proceed(p, "done")

Rank(p) ==
    \/ SizeCheck(p) \/ Alloc(p) \/ CheckAlloc(p) \/ Fill(p) \/ Send(p)
    \/ SendDone(p) \/ Recv(p) \/ Verify(p) \/ Free(p) \/ Finalize(p)

Next == \E p \in Procs : Rank(p)

(* Each rank is an OS process the scheduler keeps running. *)
Fairness == \A p \in Procs : WF_vars(Rank(p))

Spec == Init /\ [][Next]_vars /\ Fairness

-----------------------------------------------------------------------------
Finished == aborted \/ \A p \in Procs : pc[p] \in {"absent", "done"}

(***************************************************************************)
(* The test always ends: every rank returns from main or the job is torn   *)
(* down, whatever the job size, the build, the allocation outcomes and     *)
(* whether MPI_Send buffers; no rank is left blocked in MPI_Send or        *)
(* MPI_Recv.                                                               *)
(***************************************************************************)
Termination == <>Finished

(* Rank p is not blocked: it is running, and if it waits in MPI_Send or    *)
(* MPI_Recv, what it waits for has happened (the guards of Rank(p)).       *)
CanStep(p) ==
    /\ ~aborted
    /\ \/ pc[p] \in {"init", "alloc", "check", "fill", "send", "verify", "free",
                     "finalize"}
       \/ pc[p] = "waitsend" /\ Matched(p)
       \/ pc[p] = "recv" /\ Arrived(p)

(***************************************************************************)
(* The safety half of Termination: the job is never stuck.  Until every    *)
(* rank has returned or the job was torn down, some rank can take a step:  *)
(* a rank blocked in a rendezvous MPI_Send always has a rank whose         *)
(* MPI_Recv can match it, and a rank blocked in MPI_Recv always has its    *)
(* message in flight or a rank 0 that will still send it.                  *)
(***************************************************************************)
NeverStuck == ~Finished => \E p \in Procs : CanStep(p)

(***************************************************************************)
(* When both allocations succeeded, a rank that has passed its            *)
(* verification loop holds exactly what rank 0 wrote (0 .. N-1), also in  *)
(* an NDEBUG build, where the loop checks nothing.                        *)
(***************************************************************************)
ReceivedWhatWasFilled ==
    \A p \in Procs \ {0} :
        /\ pc[p] \in {"free", "finalize", "done"}
        /\ alloc[0] = "ok" /\ alloc[p] = "ok"
        => buf[p] = "data"

(***************************************************************************)
(* The assert at line 54 is meant to stop a rank whose cudaMallocManaged   *)
(* failed: no rank goes on past it to use vector_um without a successful   *)
(* allocation.                                                             *)
(***************************************************************************)
ProceedsOnlyWhenAllocated ==
    \A p \in Procs :
        ~aborted /\ pc[p] \notin {"absent", "init", "alloc", "check"} => alloc[p] = "ok"
=============================================================================
