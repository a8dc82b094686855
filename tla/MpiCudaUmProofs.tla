--------------------------- MODULE MpiCudaUmProofs ---------------------------
(***************************************************************************)
(* Proofs about the CUDA-aware MPI test (module MpiCudaUm), for every set  *)
(* of job sizes.                                                           *)
(***************************************************************************)
EXTENDS MpiCudaUm, TLAPS

(* Program points of rank 0 once it has sent, and of the others once they *)
(* have received.                                                         *)
Sent == {"waitsend", "free", "finalize", "done"}
Received == {"verify", "free", "finalize", "done"}

(***************************************************************************)
(* The strengthening of ReceivedWhatWasFilled.  Only rank 0 fills and      *)
(* sends, only the other ranks receive; a rank has an allocation outcome   *)
(* exactly once it is past cudaMallocManaged; rank 0 holds 0 .. N-1 from   *)
(* its fill loop on if its allocation succeeded; and every message in      *)
(* flight comes from rank 0 after it sent, carrying that content.          *)
(***************************************************************************)
Roles ==
  /\ pc[0] \notin {"recv", "verify"}
  /\ \A p \in Procs \ {0} : pc[p] \notin {"fill", "send", "waitsend"}
SizeChecked ==
  \A p \in Procs : pc[p] \notin {"absent", "init"} => size = 2
AllocatedIffPast ==
  \A p \in Procs : alloc[p] = "none" <=> pc[p] \in {"absent", "init", "alloc"}
FilledOnceAllocated ==
  pc[0] \in {"send"} \cup Sent /\ alloc[0] = "ok" => buf[0] = "data"
MsgsCarryFill ==
  \A m \in msgs : m[1] = 0 /\ pc[0] \in Sent /\ (alloc[0] = "ok" => m[4] = "data")
ReceivedHoldsFill ==
  \A p \in Procs \ {0} :
    /\ pc[p] \in Received => pc[0] \in Sent
    /\ pc[p] \in Received /\ alloc[0] = "ok" /\ alloc[p] = "ok" => buf[p] = "data"

MsgInv ==
  /\ TypeOK /\ Roles /\ SizeChecked /\ AllocatedIffPast /\ FilledOnceAllocated
  /\ MsgsCarryFill /\ ReceivedHoldsFill

(* Rank p's step that only moves its program counter. *)
LEMMA ProceedKeeps ==
  ASSUME NEW p, NEW at, Proceed(p, at)
  PROVE  /\ pc' = [pc EXCEPT ![p] = at]
         /\ alloc' = alloc /\ buf' = buf /\ msgs' = msgs /\ aborted' = aborted
         /\ size' = size /\ ndebug' = ndebug
  BY DEF Proceed

(* Torn down, the job's state no longer changes except for aborted. *)
LEMMA AbortKeeps ==
  ASSUME Abort
  PROVE  /\ pc' = pc /\ alloc' = alloc /\ buf' = buf /\ msgs' = msgs
         /\ aborted' = TRUE /\ size' = size /\ ndebug' = ndebug
  BY DEF Abort

THEOREM MsgInvInit == Init => MsgInv
<1> SUFFICES ASSUME Init PROVE MsgInv
  OBVIOUS
<1>1. 0 \in Procs /\ 0 < size
  BY MpiCudaUmAssumption DEF Init, Procs, Sizes
<1>2. TypeOK
  BY DEF Init, TypeOK, Payloads
<1>3. Roles /\ SizeChecked /\ AllocatedIffPast
  BY <1>1 DEF Init, Roles, SizeChecked, AllocatedIffPast
<1>4. QED
  BY <1>1, <1>2, <1>3 DEF Init, MsgInv, FilledOnceAllocated, MsgsCarryFill,
                           ReceivedHoldsFill, Sent, Received

(* Rank p moving from program point pc[p] to at, as the code allows. *)
Moves(p, at) ==
  \/ pc[p] = "init" /\ at = "alloc" /\ size = 2
  \/ pc[p] = "check" /\ at = Branch(p)
  \/ pc[p] \in {"waitsend", "verify"} /\ at = "free"
  \/ pc[p] = "free" /\ at = "finalize"
  \/ pc[p] = "finalize" /\ at = "done"

LEMMA ProceedStep ==
  ASSUME MsgInv, NEW p \in Procs, NEW at, Proceed(p, at), Moves(p, at),
         pc[p] = "waitsend" => msgs = {}
  PROVE  MsgInv'
<1> USE DEF MsgInv
<1>1. /\ pc' = [pc EXCEPT ![p] = at]
      /\ alloc' = alloc /\ buf' = buf /\ msgs' = msgs /\ aborted' = aborted
      /\ size' = size /\ ndebug' = ndebug
  BY ProceedKeeps
<1>2. TypeOK'
  BY <1>1 DEF Moves, Branch, TypeOK
<1>3. Roles' /\ SizeChecked'
  BY <1>1 DEF Moves, Branch, Roles, SizeChecked, TypeOK
<1>4. AllocatedIffPast'
  BY <1>1 DEF Moves, Branch, AllocatedIffPast, TypeOK
<1>5. FilledOnceAllocated'
  BY <1>1 DEF Moves, Branch, FilledOnceAllocated, Sent, Roles, TypeOK
<1>6. MsgsCarryFill'
  BY <1>1 DEF Moves, Branch, MsgsCarryFill, Sent, TypeOK
<1>7. ReceivedHoldsFill'
  BY <1>1 DEF Moves, Branch, ReceivedHoldsFill, Received, Sent, Roles, TypeOK
<1>8. QED
  BY <1>2, <1>3, <1>4, <1>5, <1>6, <1>7

LEMMA AllocStep ==
  ASSUME MsgInv, NEW p \in Procs, Alloc(p) PROVE MsgInv'
<1> USE DEF MsgInv
<1>1. /\ pc[p] = "alloc" /\ pc' = [pc EXCEPT ![p] = "check"]
      /\ \E r \in {"ok", "failed"} : alloc' = [alloc EXCEPT ![p] = r]
      /\ size' = size /\ ndebug' = ndebug /\ buf' = buf /\ msgs' = msgs
      /\ aborted' = aborted
  BY DEF Alloc, Running
<1>2. TypeOK' /\ Roles' /\ SizeChecked'
  BY <1>1 DEF TypeOK, Roles, SizeChecked
<1>3. AllocatedIffPast'
  BY <1>1 DEF AllocatedIffPast, TypeOK
<1>4. FilledOnceAllocated' /\ MsgsCarryFill'
  BY <1>1 DEF FilledOnceAllocated, MsgsCarryFill, Sent, TypeOK
<1>5. ReceivedHoldsFill'
  BY <1>1 DEF ReceivedHoldsFill, Received, Sent, TypeOK
<1>6. QED
  BY <1>2, <1>3, <1>4, <1>5

LEMMA FillStep ==
  ASSUME MsgInv, NEW p \in Procs, Running(p, "fill"),
         buf' = [buf EXCEPT ![p] = IF alloc[p] = "ok" THEN "data" ELSE @],
         pc' = [pc EXCEPT ![p] = "send"],
         UNCHANGED <<size, ndebug, alloc, msgs, aborted>>
  PROVE  MsgInv'
<1> USE DEF MsgInv
<1>1. /\ p = 0 /\ pc[0] = "fill"
      /\ size' = size /\ ndebug' = ndebug /\ alloc' = alloc /\ msgs' = msgs
      /\ aborted' = aborted
  BY DEF Running, Roles, TypeOK
<1>2. TypeOK' /\ Roles' /\ SizeChecked' /\ AllocatedIffPast'
  BY <1>1 DEF TypeOK, Roles, SizeChecked, AllocatedIffPast, Payloads
<1>3. FilledOnceAllocated' /\ MsgsCarryFill'
  BY <1>1 DEF FilledOnceAllocated, MsgsCarryFill, Sent, TypeOK
<1>4. ReceivedHoldsFill'
  BY <1>1 DEF ReceivedHoldsFill, Received, Sent, TypeOK
<1>5. QED
  BY <1>2, <1>3, <1>4

LEMMA SendStep ==
  ASSUME MsgInv, NEW p \in Procs, Running(p, "send"),
         msgs' = msgs \cup {<<p, 1, Tag, buf[p]>>},
         NEW at \in {"free", "waitsend"}, pc' = [pc EXCEPT ![p] = at],
         UNCHANGED <<size, ndebug, alloc, buf, aborted>>
  PROVE  MsgInv'
<1> USE DEF MsgInv
<1>1. /\ p = 0 /\ pc[0] = "send" /\ 1 \in Procs
      /\ size' = size /\ ndebug' = ndebug /\ alloc' = alloc /\ buf' = buf
      /\ aborted' = aborted
  <2>1. p = 0 /\ pc[0] = "send"
    BY DEF Running, Roles, TypeOK
  <2>2. size = 2 /\ size \in Sizes
    BY <2>1 DEF SizeChecked, TypeOK
  <2>3. 1 \in Procs
    BY <2>2, MpiCudaUmAssumption DEF Sizes, Procs
  <2>4. QED
    BY <2>1, <2>3
<1>2. TypeOK'
  BY <1>1 DEF TypeOK, Payloads, Tag
<1>3. Roles' /\ SizeChecked' /\ AllocatedIffPast'
  BY <1>1 DEF Roles, SizeChecked, AllocatedIffPast, TypeOK
<1>4. FilledOnceAllocated' /\ MsgsCarryFill'
  BY <1>1 DEF FilledOnceAllocated, MsgsCarryFill, Sent, TypeOK
<1>5. ReceivedHoldsFill'
  BY <1>1 DEF ReceivedHoldsFill, Received, Sent, TypeOK
<1>6. QED
  BY <1>2, <1>3, <1>4, <1>5

LEMMA RecvStep ==
  ASSUME MsgInv, NEW p \in Procs, Running(p, "recv"), NEW m \in msgs, Matches(m, p),
         msgs' = msgs \ {m},
         buf' = [buf EXCEPT ![p] = IF alloc[p] = "ok" THEN m[4] ELSE @],
         pc' = [pc EXCEPT ![p] = "verify"],
         UNCHANGED <<size, ndebug, alloc, aborted>>
  PROVE  MsgInv'
<1> USE DEF MsgInv
<1>1. /\ p # 0 /\ pc[p] = "recv" /\ m[1] = 0 /\ pc[0] \in Sent
      /\ (alloc[0] = "ok" => m[4] = "data") /\ m[4] \in Payloads
      /\ size' = size /\ ndebug' = ndebug /\ alloc' = alloc /\ aborted' = aborted
  BY DEF Running, Roles, MsgsCarryFill, TypeOK
<1>2. TypeOK'
  BY <1>1 DEF TypeOK
<1>3. Roles' /\ SizeChecked' /\ AllocatedIffPast'
  BY <1>1 DEF Roles, SizeChecked, AllocatedIffPast, TypeOK
<1>4. FilledOnceAllocated' /\ MsgsCarryFill'
  BY <1>1 DEF FilledOnceAllocated, MsgsCarryFill, Sent, TypeOK
<1>5. ReceivedHoldsFill'
  BY <1>1 DEF ReceivedHoldsFill, Received, Sent, TypeOK
<1>6. QED
  BY <1>2, <1>3, <1>4, <1>5

THEOREM MsgInvStep == MsgInv /\ [Next]_vars => MsgInv'
<1> SUFFICES ASSUME MsgInv, [Next]_vars PROVE MsgInv'
  OBVIOUS
<1>1. CASE Abort
  BY <1>1, AbortKeeps DEF MsgInv, TypeOK, Roles, SizeChecked, AllocatedIffPast,
                          FilledOnceAllocated, MsgsCarryFill, ReceivedHoldsFill
<1>2. ASSUME NEW p \in Procs PROVE Rank(p) => MsgInv'
  <2> HAVE Rank(p)
  <2>1. CASE SizeCheck(p)
    BY <2>1, <1>1, ProceedStep DEF SizeCheck, Running, Moves
  <2>2. CASE CheckAlloc(p)
    BY <2>2, <1>1, ProceedStep DEF CheckAlloc, Running, Moves
  <2>3. CASE Alloc(p)
    BY <2>3, AllocStep
  <2>4. CASE Fill(p)
    BY <2>4, <1>1, FillStep DEF Fill, Wild
  <2>5. CASE Send(p)
    BY <2>5, <1>1, SendStep DEF Send, Wild
  <2>6. CASE SendDone(p)
    <3>1. pc[p] = "waitsend" /\ msgs = {}
      BY <2>6 DEF SendDone, Matched, Running, MsgInv, MsgsCarryFill, Roles, TypeOK
    <3>2. QED
      BY <2>6, <3>1, ProceedStep DEF SendDone, Moves
  <2>7. CASE Recv(p)
    BY <2>7, <1>1, RecvStep DEF Recv, Wild
  <2>8. CASE Verify(p)
    BY <2>8, <1>1, ProceedStep DEF Verify, Running, Moves
  <2>9. CASE Free(p) \/ Finalize(p)
    BY <2>9, ProceedStep DEF Free, Finalize, Running, Moves
  <2>10. QED
    BY <2>1, <2>2, <2>3, <2>4, <2>5, <2>6, <2>7, <2>8, <2>9 DEF Rank
<1>3. CASE UNCHANGED vars
  BY <1>3 DEF vars, MsgInv, TypeOK, Roles, SizeChecked, AllocatedIffPast,
              FilledOnceAllocated, MsgsCarryFill, ReceivedHoldsFill
<1>4. QED
  BY <1>2, <1>3 DEF Next

-----------------------------------------------------------------------------
(***************************************************************************)
(* The strengthening of NeverStuck.  The ranks beyond the job size are     *)
(* exactly the absent ones; at most one message is in flight, to rank 1    *)
(* with tag 100, and rank 1 has not yet received it; and once rank 0 has   *)
(* sent, the message stays in flight until rank 1 has received it.        *)
(***************************************************************************)
AbsentBeyondSize == \A p \in Procs : pc[p] = "absent" <=> size <= p
MsgShape == \A m \in msgs : m[2] = 1 /\ m[3] = Tag /\ pc[1] \notin Received
SingleMsg == \A m1, m2 \in msgs : m1 = m2
Pending == pc[0] \in Sent /\ pc[1] \notin Received => msgs # {}

Extra == AbsentBeyondSize /\ MsgShape /\ SingleMsg /\ Pending

StuckInv == MsgInv /\ Extra

THEOREM StuckInvInit == Init => StuckInv
<1> SUFFICES ASSUME Init PROVE StuckInv
  OBVIOUS
<1>1. MsgInv
  BY MsgInvInit
<1>2. pc[0] = "init"
  BY MpiCudaUmAssumption DEF Init, Procs, Sizes
<1>3. AbsentBeyondSize
  BY MpiCudaUmAssumption DEF Init, AbsentBeyondSize, Procs, Sizes
<1>4. QED
  BY <1>1, <1>2, <1>3 DEF Init, StuckInv, Extra, MsgShape, SingleMsg, Pending, Sent

LEMMA ProceedExtra ==
  ASSUME StuckInv, NEW p \in Procs, NEW at, Proceed(p, at), Moves(p, at)
  PROVE  Extra'
<1> USE DEF StuckInv, MsgInv
<1>1. /\ pc' = [pc EXCEPT ![p] = at]
      /\ msgs' = msgs /\ size' = size
  BY ProceedKeeps
<1>2. AbsentBeyondSize'
  BY <1>1 DEF Moves, Branch, AbsentBeyondSize, Extra, TypeOK
<1>3. MsgShape' /\ SingleMsg'
  BY <1>1 DEF Moves, Branch, MsgShape, SingleMsg, Extra, Received, Roles, TypeOK
<1>4. Pending'
  BY <1>1 DEF Moves, Branch, Pending, Extra, Received, Sent, Roles, TypeOK
<1>5. QED
  BY <1>2, <1>3, <1>4 DEF Extra

LEMMA AllocExtra ==
  ASSUME StuckInv, NEW p \in Procs, Alloc(p) PROVE Extra'
<1> USE DEF StuckInv, MsgInv
<1>1. /\ pc[p] = "alloc" /\ pc' = [pc EXCEPT ![p] = "check"]
      /\ msgs' = msgs /\ size' = size
  BY DEF Alloc, Running
<1>2. QED
  BY <1>1 DEF Extra, AbsentBeyondSize, MsgShape, SingleMsg, Pending, Received, Sent,
              TypeOK

LEMMA FillExtra ==
  ASSUME StuckInv, NEW p \in Procs, Running(p, "fill"),
         pc' = [pc EXCEPT ![p] = "send"],
         UNCHANGED <<size, ndebug, alloc, msgs, aborted>>
  PROVE  Extra'
<1> USE DEF StuckInv, MsgInv
<1>1. p = 0 /\ pc[0] = "fill"
  BY DEF Running, Roles, TypeOK
<1>2. QED
  BY <1>1 DEF Extra, AbsentBeyondSize, MsgShape, SingleMsg, Pending, Received, Sent,
              TypeOK

(* Rank 0's MPI_Send puts the only message of the run in flight. *)
LEMMA SendExtra ==
  ASSUME StuckInv, NEW p \in Procs, Running(p, "send"),
         msgs' = msgs \cup {<<p, 1, Tag, buf[p]>>},
         NEW at \in {"free", "waitsend"}, pc' = [pc EXCEPT ![p] = at],
         UNCHANGED <<size, ndebug, alloc, buf, aborted>>
  PROVE  Extra'
<1> USE DEF StuckInv, MsgInv
<1>1. p = 0 /\ pc[0] = "send"
  BY DEF Running, Roles, TypeOK
<1>2. 1 \in Procs \ {0}
  BY <1>1, MpiCudaUmAssumption DEF SizeChecked, TypeOK, Sizes, Procs
<1>3. msgs = {}
  BY <1>1 DEF MsgsCarryFill, Sent
<1>4. pc[1] \notin Received
  BY <1>1, <1>2 DEF ReceivedHoldsFill, Sent
<1>5. msgs' = {<<0, 1, Tag, buf[0]>>} /\ pc'[1] = pc[1]
  BY <1>1, <1>3 DEF TypeOK
<1>6. AbsentBeyondSize'
  BY <1>1 DEF Extra, AbsentBeyondSize, TypeOK
<1>7. MsgShape'
  BY <1>4, <1>5 DEF MsgShape, Received
<1>8. QED
  BY <1>5, <1>6, <1>7 DEF Extra, SingleMsg, Pending

(* Rank 1's MPI_Recv takes the message out of flight. *)
LEMMA RecvExtra ==
  ASSUME StuckInv, NEW p \in Procs, Running(p, "recv"), NEW m \in msgs, Matches(m, p),
         msgs' = msgs \ {m},
         pc' = [pc EXCEPT ![p] = "verify"],
         UNCHANGED <<size, ndebug, alloc, aborted>>
  PROVE  Extra'
<1> USE DEF StuckInv, MsgInv
<1>1. p = 1 /\ msgs' = {}
  BY DEF Matches, MsgShape, SingleMsg, Extra
<1>2. pc'[1] = "verify"
  BY <1>1 DEF TypeOK
<1>3. AbsentBeyondSize'
  BY DEF Running, Extra, AbsentBeyondSize, TypeOK
<1>4. QED
  BY <1>1, <1>2, <1>3 DEF Extra, MsgShape, SingleMsg, Pending, Received

THEOREM StuckInvStep == StuckInv /\ [Next]_vars => StuckInv'
<1> SUFFICES ASSUME StuckInv, [Next]_vars PROVE StuckInv'
  OBVIOUS
<1>1. MsgInv'
  BY MsgInvStep DEF StuckInv
<1>2. Extra'
  <2>1. CASE Abort
    BY <2>1, AbortKeeps DEF StuckInv, Extra, AbsentBeyondSize, MsgShape, SingleMsg,
                            Pending
  <2>2. ASSUME NEW p \in Procs PROVE Rank(p) => Extra'
    <3> HAVE Rank(p)
    <3>1. CASE SizeCheck(p)
      BY <3>1, <2>1, ProceedExtra DEF SizeCheck, Running, Moves
    <3>2. CASE CheckAlloc(p)
      BY <3>2, <2>1, ProceedExtra DEF CheckAlloc, Running, Moves
    <3>3. CASE Alloc(p)
      BY <3>3, AllocExtra
    <3>4. CASE Fill(p)
      BY <3>4, <2>1, FillExtra DEF Fill, Wild
    <3>5. CASE Send(p)
      BY <3>5, <2>1, SendExtra DEF Send, Wild
    <3>6. CASE SendDone(p)
      BY <3>6, ProceedExtra DEF SendDone, Running, Moves
    <3>7. CASE Recv(p)
      BY <3>7, <2>1, RecvExtra DEF Recv, Wild
    <3>8. CASE Verify(p)
      BY <3>8, <2>1, ProceedExtra DEF Verify, Running, Moves
    <3>9. CASE Free(p) \/ Finalize(p)
      BY <3>9, ProceedExtra DEF Free, Finalize, Running, Moves
    <3>10. QED
      BY <3>1, <3>2, <3>3, <3>4, <3>5, <3>6, <3>7, <3>8, <3>9 DEF Rank
  <2>3. CASE UNCHANGED vars
    BY <2>3 DEF vars, StuckInv, Extra, AbsentBeyondSize, MsgShape, SingleMsg, Pending
  <2>4. QED
    BY <2>2, <2>3 DEF Next
<1>3. QED
  BY <1>1, <1>2 DEF StuckInv

(***************************************************************************)
(* For every number of ranks mpirun may launch, in debug and NDEBUG      *)
(* builds and with eager or rendezvous sends: when both allocations       *)
(* succeeded, a rank past its verification loop holds exactly what rank 0 *)
(* wrote (the property the mpi_cuda_um run checks on up to three ranks).  *)
(***************************************************************************)
THEOREM ReceivedWhatWasFilledHolds == Spec => []ReceivedWhatWasFilled
<1>1. MsgInv => ReceivedWhatWasFilled
  BY DEF MsgInv, ReceivedHoldsFill, ReceivedWhatWasFilled, Received
<1>2. QED
  BY MsgInvInit, MsgInvStep, <1>1, PTL DEF Spec

(***************************************************************************)
(* For every number of ranks mpirun may launch, the job never deadlocks    *)
(* in MPI_Send or MPI_Recv (the NeverStuck invariant the mpi_cuda_um run   *)
(* checks on up to three ranks).  Were no rank able to step, every rank    *)
(* would be absent, done, waiting in a rendezvous send whose message is    *)
(* still in flight, or waiting in a receive with nothing to match.  A      *)
(* waiting sender is rank 0 with the message to rank 1 in flight, so rank *)
(* 1 waits in MPI_Recv and can take it; a waiting receiver is rank 1 of a  *)
(* job of two, and rank 0, done, has left its message in flight for it.    *)
(* Either way some rank can step, or all have returned.                    *)
(***************************************************************************)
THEOREM NeverStuckHolds == Spec => []NeverStuck
<1>1. StuckInv => NeverStuck
  <2> SUFFICES ASSUME StuckInv, ~Finished, ~\E p \in Procs : CanStep(p) PROVE FALSE
    BY DEF NeverStuck
  <2> USE DEF StuckInv, MsgInv, Extra
  <2>1. 0 \in Procs /\ size \in Sizes /\ ~aborted
    BY MpiCudaUmAssumption DEF Procs, TypeOK, Finished
  <2>2. \A p \in Procs : /\ pc[p] \in {"absent", "done", "waitsend", "recv"}
                         /\ pc[p] = "waitsend" => ~Matched(p)
                         /\ pc[p] = "recv" => ~Arrived(p)
    BY <2>1 DEF CanStep, TypeOK
  <2>3. ASSUME NEW m \in msgs, pc[1] = "recv" PROVE FALSE
    <3>1. m[1] = 0 /\ m[2] = 1 /\ m[3] = Tag /\ pc[0] \in Sent
      BY DEF MsgsCarryFill, MsgShape
    <3>2. 1 \in Procs
      BY <3>1, <2>1, MpiCudaUmAssumption DEF SizeChecked, Sent, Sizes, Procs
    <3>3. QED
      BY <2>3, <3>1, <3>2, <2>2 DEF Arrived, Matches
  <2>4. CASE pc[0] = "waitsend"
    <3>1. PICK m \in msgs : m[1] = 0
      BY <2>1, <2>2, <2>4 DEF Matched
    <3>2. 1 \in Procs /\ pc[1] # "absent"
      BY <2>1, <2>4, MpiCudaUmAssumption DEF SizeChecked, AbsentBeyondSize, Sizes, Procs
    <3>3. pc[1] \notin {"done", "waitsend"}
      BY <3>1, <3>2 DEF MsgShape, Received, Roles
    <3>4. QED
      BY <2>2, <2>3, <3>1, <3>2, <3>3
  <2>5. CASE pc[0] # "waitsend"
    <3>1. CASE \E p \in Procs : pc[p] = "recv"
      <4>1. PICK p \in Procs : pc[p] = "recv"
        BY <3>1
      <4>2. size = 2 /\ p # 0 /\ pc[0] # "absent"
        BY <4>1, <2>1 DEF SizeChecked, Roles, AbsentBeyondSize
      <4>3. p = 1
        BY <4>1, <4>2 DEF AbsentBeyondSize, Procs
      <4>4. pc[0] = "done"
        BY <2>1, <2>2, <2>5, <4>2 DEF Roles
      <4>5. msgs # {}
        BY <4>1, <4>3, <4>4 DEF Pending, Sent, Received
      <4>6. QED
        BY <2>3, <4>1, <4>3, <4>5
    <3>2. CASE ~\E p \in Procs : pc[p] = "recv"
      BY <2>2, <2>5, <3>2 DEF Finished, Roles
    <3>3. QED
      BY <3>1, <3>2
  <2>6. QED
    BY <2>4, <2>5
<1>2. QED
  BY StuckInvInit, StuckInvStep, <1>1, PTL DEF Spec

-----------------------------------------------------------------------------
(* How far a rank has got in main: program points in the code's order. *)
Point == [absent |-> 0, init |-> 0, alloc |-> 1, check |-> 2, fill |-> 3, recv |-> 3,
          send |-> 4, waitsend |-> 5, verify |-> 5, free |-> 6, finalize |-> 7,
          done |-> 8]

(* A step that tears the job down, or moves one rank forward in main. *)
Advance ==
  \/ ~aborted /\ aborted' = TRUE /\ pc' = pc
  \/ /\ aborted' = aborted
     /\ \E p \in Procs : /\ Point[pc[p]] < Point[pc'[p]]
                         /\ \A q \in Procs \ {p} : pc'[q] = pc[q]

LEMMA MoveAdvances ==
  ASSUME TypeOK, NEW p \in Procs, NEW at, pc' = [pc EXCEPT ![p] = at],
         aborted' = aborted, Point[pc[p]] < Point[at]
  PROVE  Advance
<1>1. pc'[p] = at /\ \A q \in Procs \ {p} : pc'[q] = pc[q]
  BY DEF TypeOK
<1>2. QED
  BY <1>1 DEF Advance

LEMMA ProceedAdvances ==
  ASSUME TypeOK, NEW p \in Procs, NEW at, Proceed(p, at), Moves(p, at)
  PROVE  Advance
<1>1. pc' = [pc EXCEPT ![p] = at] /\ aborted' = aborted
  BY ProceedKeeps
<1>2. Point[pc[p]] < Point[at]
  BY DEF Moves, Branch, Point
<1>3. QED
  BY <1>1, <1>2, MoveAdvances

(***************************************************************************)
(* main is straight-line code: every step of the job either tears it down  *)
(* or moves exactly one rank strictly forward, with no retry or loop back  *)
(* to an earlier point (the fill and verification loops are single steps). *)
(* With finitely many ranks and program points, a run has finitely many    *)
(* steps that are not stutters; with NeverStuck and the ranks' weak        *)
(* fairness, this is why Termination holds.                                *)
(***************************************************************************)
THEOREM StepsAdvance == Spec => [][Advance]_vars
<1>1. MsgInv /\ [Next]_vars => [Advance]_vars
  <2> SUFFICES ASSUME MsgInv, [Next]_vars PROVE [Advance]_vars
    OBVIOUS
  <2>0. TypeOK
    BY DEF MsgInv
  <2>1. ASSUME NEW p \in Procs, ~aborted, Abort PROVE Advance
    BY <2>1, AbortKeeps DEF Advance
  <2>2. ASSUME NEW p \in Procs, Rank(p) PROVE Advance
    <3>1. ~aborted
      BY <2>2 DEF Rank, SizeCheck, Alloc, CheckAlloc, Fill, Send, SendDone, Recv,
                  Verify, Free, Finalize, Running
    <3>2. CASE SizeCheck(p)
      BY <2>0, <3>2, <3>1, <2>1, ProceedAdvances DEF SizeCheck, Running, Moves
    <3>3. CASE CheckAlloc(p)
      BY <2>0, <3>3, <3>1, <2>1, ProceedAdvances DEF CheckAlloc, Running, Moves
    <3>4. CASE Alloc(p)
      <4>1. pc[p] = "alloc" /\ pc' = [pc EXCEPT ![p] = "check"] /\ aborted' = aborted
        BY <3>4 DEF Alloc, Running
      <4>2. Point[pc[p]] < Point["check"]
        BY <4>1 DEF Point
      <4>3. QED
        BY <2>0, <4>1, <4>2, MoveAdvances
    <3>5. CASE Fill(p)
      <4>1. CASE Wild(p)
        BY <4>1, <3>1, <2>1 DEF Wild
      <4>2. CASE ~Wild(p)
        <5>1. pc[p] = "fill" /\ pc' = [pc EXCEPT ![p] = "send"] /\ aborted' = aborted
          BY <3>5, <4>2 DEF Fill, Running
        <5>2. Point[pc[p]] < Point["send"]
          BY <5>1 DEF Point
        <5>3. QED
          BY <2>0, <5>1, <5>2, MoveAdvances
      <4>3. QED
        BY <4>1, <4>2
    <3>6. CASE Send(p)
      <4>1. CASE Wild(p)
        BY <4>1, <3>1, <2>1 DEF Wild
      <4>2. CASE ~Wild(p)
        <5>1. PICK at \in {"free", "waitsend"} : pc' = [pc EXCEPT ![p] = at]
          BY <3>6, <4>2 DEF Send
        <5>2. pc[p] = "send" /\ aborted' = aborted
          BY <3>6, <4>2 DEF Send, Running
        <5>3. Point[pc[p]] < Point[at]
          BY <5>2 DEF Point
        <5>4. QED
          BY <2>0, <5>1, <5>2, <5>3, MoveAdvances
      <4>3. QED
        BY <4>1, <4>2
    <3>7. CASE SendDone(p) \/ Free(p) \/ Finalize(p)
      BY <2>0, <3>7, ProceedAdvances DEF SendDone, Free, Finalize, Running, Moves
    <3>8. CASE Recv(p)
      <4>1. CASE Wild(p)
        BY <4>1, <3>1, <2>1 DEF Wild
      <4>2. CASE ~Wild(p)
        <5>1. pc[p] = "recv" /\ pc' = [pc EXCEPT ![p] = "verify"] /\ aborted' = aborted
          BY <3>8, <4>2 DEF Recv, Running
        <5>2. Point[pc[p]] < Point["verify"]
          BY <5>1 DEF Point
        <5>3. QED
          BY <2>0, <5>1, <5>2, MoveAdvances
      <4>3. QED
        BY <4>1, <4>2
    <3>9. CASE Verify(p)
      BY <2>0, <3>9, <3>1, <2>1, ProceedAdvances DEF Verify, Running, Moves
    <3>10. QED
      BY <2>2, <3>2, <3>3, <3>4, <3>5, <3>6, <3>7, <3>8, <3>9 DEF Rank
  <2>3. QED
    BY <2>2 DEF Next
<1>2. QED
  BY MsgInvInit, MsgInvStep, <1>1, PTL DEF Spec
=============================================================================
