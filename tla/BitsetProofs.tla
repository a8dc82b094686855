---------------------------- MODULE BitsetProofs ----------------------------
(***************************************************************************)
(* Proofs about Bitset for every set of instances, every set of sizes and   *)
(* every block width: the type invariant, NoStrayBits, and that the block-  *)
(* packed class implements the abstract bit vector of BitsetSpec.           *)
(*                                                                         *)
(* TypeOK is not inductive by itself: |= and &= read the other operand's    *)
(* blocks at the indices of this one's, which are in its domain only        *)
(* because both block counts are computed from the same size.  The          *)
(* inductive invariant IInv adds that fact (BlocksMatchSize).               *)
(***************************************************************************)
EXTENDS Bitset, TLAPS

USE BitsetAssumption

\* Every instance has the block count its constructor computed from size_.
BlocksMatchSize == \A o \in Obj : blocks_[o] = NumBlocks(size_[o])

IInv == TypeOK /\ BlocksMatchSize /\ NoStrayBits

-----------------------------------------------------------------------------
(* Facts about the index arithmetic of block_index, bit_index, NumBlocks.  *)

LEMMA NumBlocksNat ==
  ASSUME NEW s \in Nat
  PROVE  NumBlocks(s) \in Nat
BY DEF NumBlocks

LEMMA BitIndexRange ==
  ASSUME NEW i \in Nat
  PROVE  bit_index(i) \in 0 .. BlockBytes - 1
BY DEF bit_index

\* An index below the size lies in one of the blocks the constructor made.
LEMMA BlockIndexInRange ==
  ASSUME NEW s \in Nat, NEW i \in 0 .. s - 1
  PROVE  block_index(i) \in 0 .. NumBlocks(s) - 1
BY DEF block_index, NumBlocks

\* No two indices share a block bit.
LEMMA IndexInjective ==
  ASSUME NEW i \in Nat, NEW j \in Nat,
         block_index(i) = block_index(j), bit_index(i) = bit_index(j)
  PROVE  i = j
BY DEF block_index, bit_index

\* Block k, bit b is the bit of index k * sizeof(block_type) + b.
LEMMA IndexDecomposition ==
  ASSUME NEW i \in Nat
  PROVE  block_index(i) * BlockBytes + bit_index(i) = i
BY DEF block_index, bit_index

-----------------------------------------------------------------------------
LEMMA InitIInv == Init => IInv
<1> SUFFICES ASSUME Init PROVE IInv
  OBVIOUS
<1>1. TypeOK
  BY NumBlocksNat DEF Init, TypeOK, ZeroBlocks, BlockVal
<1>2. BlocksMatchSize
  BY DEF Init, BlocksMatchSize
<1>3. NoStrayBits
  BY DEF Init, NoStrayBits, ZeroBlocks
<1> QED
  BY <1>1, <1>2, <1>3 DEF IInv

LEMMA BitsetIInv ==
  ASSUME IInv, NEW o \in Obj, NEW s \in Sizes, Bitset(o, s)
  PROVE  IInv'
<1> USE DEF IInv, Bitset
<1>1. NumBlocks(s) \in Nat /\ ZeroBlocks(NumBlocks(s)) \in [0 .. NumBlocks(s) - 1 -> BlockVal]
  BY NumBlocksNat DEF ZeroBlocks, BlockVal
<1>2. TypeOK'
  <2>1. size_' \in [Obj -> Sizes] /\ blocks_' \in [Obj -> Nat]
    BY <1>1 DEF TypeOK
  <2>2. ASSUME NEW q \in Obj PROVE set_'[q] \in [0 .. blocks_'[q] - 1 -> BlockVal]
    <3>1. CASE q = o
      BY <1>1, <3>1 DEF TypeOK
    <3>2. CASE q # o
      BY <3>2 DEF TypeOK
    <3> QED
      BY <3>1, <3>2
  <2> QED
    BY <2>1, <2>2 DEF TypeOK
<1>3. BlocksMatchSize'
  BY DEF TypeOK, BlocksMatchSize
<1>4. NoStrayBits'
  <2> SUFFICES ASSUME NEW q \in Obj, NEW k \in DOMAIN set_'[q], NEW b \in set_'[q][k]
               PROVE  b < BlockBytes /\ k * BlockBytes + b < size_'[q]
    BY DEF NoStrayBits
  <2>1. CASE q = o
    BY <2>1, NumBlocksNat DEF TypeOK, ZeroBlocks
  <2>2. CASE q # o
    BY <2>2 DEF TypeOK, NoStrayBits
  <2> QED
    BY <2>1, <2>2
<1> QED
  BY <1>2, <1>3, <1>4

LEMMA CopyBitsetIInv ==
  ASSUME IInv, NEW o \in Obj, NEW p \in Obj, CopyBitset(o, p)
  PROVE  IInv'
<1> USE DEF IInv, CopyBitset
<1>1. TypeOK'
  <2>1. size_' \in [Obj -> Sizes] /\ blocks_' \in [Obj -> Nat]
    BY DEF TypeOK
  <2>2. ASSUME NEW q \in Obj PROVE set_'[q] \in [0 .. blocks_'[q] - 1 -> BlockVal]
    <3>1. CASE q = o
      BY <3>1 DEF TypeOK
    <3>2. CASE q # o
      BY <3>2 DEF TypeOK
    <3> QED
      BY <3>1, <3>2
  <2> QED
    BY <2>1, <2>2 DEF TypeOK
<1>2. BlocksMatchSize'
  BY DEF TypeOK, BlocksMatchSize
<1>3. NoStrayBits'
  <2> SUFFICES ASSUME NEW q \in Obj, NEW k \in DOMAIN set_'[q], NEW b \in set_'[q][k]
               PROVE  b < BlockBytes /\ k * BlockBytes + b < size_'[q]
    BY DEF NoStrayBits
  <2>1. CASE q = o
    BY <2>1 DEF TypeOK, NoStrayBits
  <2>2. CASE q # o
    BY <2>2 DEF TypeOK, NoStrayBits
  <2> QED
    BY <2>1, <2>2
<1> QED
  BY <1>1, <1>2, <1>3

LEMMA AssignIInv ==
  ASSUME IInv, NEW o \in Obj, NEW p \in Obj, Assign(o, p)
  PROVE  IInv'
<1> USE DEF IInv, Assign
<1>1. TypeOK'
  BY DEF TypeOK, BlocksMatchSize
<1>2. BlocksMatchSize'
  BY DEF TypeOK, BlocksMatchSize
<1>3. NoStrayBits'
  BY DEF TypeOK, BlocksMatchSize, NoStrayBits
<1> QED
  BY <1>1, <1>2, <1>3

LEMMA OrAssignIInv ==
  ASSUME IInv, NEW o \in Obj, NEW p \in Obj, OrAssign(o, p)
  PROVE  IInv'
<1> USE DEF IInv, OrAssign
<1>1. blocks_[o] = blocks_[p]
  BY DEF BlocksMatchSize
<1>2. TypeOK'
  BY <1>1 DEF TypeOK, BlockVal
<1>3. BlocksMatchSize'
  BY DEF TypeOK, BlocksMatchSize
<1>4. NoStrayBits'
  BY <1>1 DEF TypeOK, NoStrayBits
<1> QED
  BY <1>2, <1>3, <1>4

LEMMA AndAssignIInv ==
  ASSUME IInv, NEW o \in Obj, NEW p \in Obj, AndAssign(o, p)
  PROVE  IInv'
<1> USE DEF IInv, AndAssign
<1>1. blocks_[o] = blocks_[p]
  BY DEF BlocksMatchSize
<1>2. TypeOK'
  BY <1>1 DEF TypeOK, BlockVal
<1>3. BlocksMatchSize'
  BY DEF TypeOK, BlocksMatchSize
<1>4. NoStrayBits'
  BY <1>1 DEF TypeOK, NoStrayBits
<1> QED
  BY <1>2, <1>3, <1>4

LEMMA SetIInv ==
  ASSUME IInv, NEW o \in Obj, NEW i \in 0 .. size_[o] - 1, NEW v \in BOOLEAN,
         Set(o, i, v)
  PROVE  IInv'
<1> USE DEF IInv, Set
<1>1. i \in Nat /\ bit_index(i) \in 0 .. BlockBytes - 1
  BY BitIndexRange DEF TypeOK
<1>2. TypeOK'
  <2>1. ASSUME NEW q \in Obj PROVE set_'[q] \in [0 .. blocks_'[q] - 1 -> BlockVal]
    <3>1. CASE q = o
      <4>1. mask(i) \in BlockVal
        BY <1>1 DEF BlockBits, BlockVal, mask
      <4>2. block_index(i) \in 0 .. blocks_[o] - 1
        BY BlockIndexInRange DEF TypeOK, BlocksMatchSize
      <4>3. set_[o][block_index(i)] \in BlockVal
        BY <4>2 DEF TypeOK
      <4>4. /\ set_[o][block_index(i)] \cup mask(i) \in BlockVal
            /\ set_[o][block_index(i)] \ mask(i) \in BlockVal
        BY <4>1, <4>3 DEF BlockVal
      <4> QED
        BY <3>1, <4>2, <4>4 DEF TypeOK
    <3>2. CASE q # o
      BY <3>2 DEF TypeOK
    <3> QED
      BY <3>1, <3>2
  <2> QED
    BY <2>1 DEF TypeOK
<1>3. BlocksMatchSize'
  BY DEF TypeOK, BlocksMatchSize
<1>4. NoStrayBits'
  <2> SUFFICES ASSUME NEW q \in Obj, NEW k \in DOMAIN set_'[q], NEW b \in set_'[q][k],
                      ~(b < BlockBytes /\ k * BlockBytes + b < size_'[q])
               PROVE  FALSE
    BY DEF NoStrayBits
  <2>1. CASE q = o /\ k = block_index(i) /\ b = bit_index(i)
    BY <1>1, <2>1, IndexDecomposition DEF TypeOK
  <2>2. CASE ~(q = o /\ k = block_index(i) /\ b = bit_index(i))
    BY <2>2 DEF TypeOK, NoStrayBits, mask
  <2> QED
    BY <2>1, <2>2
<1> QED
  BY <1>2, <1>3, <1>4

LEMMA NextIInv == IInv /\ [Next]_vars => IInv'
<1> SUFFICES ASSUME IInv, [Next]_vars PROVE IInv'
  OBVIOUS
<1>1. CASE UNCHANGED vars
  BY <1>1 DEF vars, IInv, TypeOK, BlocksMatchSize, NoStrayBits
<1> QED
  BY <1>1, BitsetIInv, CopyBitsetIInv, AssignIInv, OrAssignIInv,
     AndAssignIInv, SetIInv DEF Next

THEOREM IInvHolds == Spec => []IInv
BY InitIInv, NextIInv, PTL DEF Spec

(***************************************************************************)
(* Every Bitset the program holds is well formed: a size from Sizes and a  *)
(* block array of block values.                                             *)
(***************************************************************************)
THEOREM TypeCorrect == Spec => []TypeOK
BY IInvHolds, PTL DEF IInv

(***************************************************************************)
(* No Bitset ever holds a one bit that is not the bit of an index below its *)
(* size, whatever operations the program applies: get() never exposes a    *)
(* stray bit to serialisation.                                              *)
(***************************************************************************)
THEOREM NoStrayBitsHolds == Spec => []NoStrayBits
BY IInvHolds, PTL DEF IInv

-----------------------------------------------------------------------------
(***************************************************************************)
(* Refinement.  absBits is the refinement mapping of Bitset!Abs: the bit    *)
(* vector operator[] shows.  Each action of Bitset is the abstract action   *)
(* of the same name; the facts it rests on are that an index below the size *)
(* has its block in the array (BlockIndexInRange) and that no two indices   *)
(* share a block bit (IndexInjective).                                      *)
(***************************************************************************)
absBits == [o \in Obj |-> [i \in 0 .. size_[o] - 1 |-> Read(o, i)]]

LEMMA InitRefines == Init => Abs!Init
<1> SUFFICES ASSUME Init PROVE Abs!Init
  OBVIOUS
<1>1. ASSUME NEW o \in Obj, NEW i \in 0 .. size_[o] - 1 PROVE Read(o, i) = FALSE
  <2>1. size_[o] \in Nat
    BY DEF Init
  <2>2. block_index(i) \in 0 .. NumBlocks(size_[o]) - 1
    BY <2>1, BlockIndexInRange
  <2> QED
    BY <2>2 DEF Init, Read, ZeroBlocks
<1> QED
  BY <1>1 DEF Init, Abs!Init, Abs!Clear

\* set(i, v) changes the bit operator[] shows at i, and no other.
LEMMA SetRead ==
  ASSUME IInv, NEW o \in Obj, NEW i \in 0 .. size_[o] - 1, NEW v \in BOOLEAN,
         Set(o, i, v),
         NEW q \in Obj, NEW j \in 0 .. size_[q] - 1
  PROVE  Read(q, j)' = IF q = o /\ j = i THEN v ELSE Read(q, j)
<1>1. i \in Nat /\ j \in Nat
  BY DEF IInv, TypeOK
<1>2. block_index(i) \in 0 .. blocks_[o] - 1 /\ block_index(j) \in 0 .. blocks_[q] - 1
  BY <1>1, BlockIndexInRange DEF IInv, TypeOK, BlocksMatchSize
<1>3. CASE q # o
  BY <1>3 DEF Set, Read, IInv, TypeOK
<1>4. CASE q = o /\ j = i
  BY <1>2, <1>4 DEF Set, Read, mask, IInv, TypeOK
<1>5. CASE q = o /\ j # i /\ block_index(j) # block_index(i)
  BY <1>2, <1>5 DEF Set, Read, IInv, TypeOK
<1>6. CASE q = o /\ j # i /\ block_index(j) = block_index(i)
  <2>1. bit_index(j) # bit_index(i)
    BY <1>1, <1>6, IndexInjective
  <2> QED
    BY <1>2, <1>6, <2>1 DEF Set, Read, mask, IInv, TypeOK
<1> QED
  BY <1>3, <1>4, <1>5, <1>6

LEMMA SetRefines ==
  ASSUME IInv, NEW o \in Obj, NEW i \in 0 .. size_[o] - 1, NEW v \in BOOLEAN,
         Set(o, i, v)
  PROVE  Abs!Set(o, i, v)
<1>1. UNCHANGED size_
  BY DEF Set
<1>2. absBits' = [absBits EXCEPT ![o][i] = v]
  <2>1. ASSUME NEW q \in Obj, q # o PROVE absBits'[q] = absBits[q]
    <3>1. \A j \in 0 .. size_[q] - 1 : Read(q, j)' = Read(q, j)
      BY <2>1, SetRead
    <3> QED
      BY <1>1, <3>1 DEF absBits
  <2>2. absBits'[o] = [absBits[o] EXCEPT ![i] = v]
    <3>1. \A j \in 0 .. size_[o] - 1 : Read(o, j)' = IF j = i THEN v ELSE Read(o, j)
      BY SetRead
    <3> QED
      BY <1>1, <3>1 DEF absBits
  <2> QED
    BY <2>1, <2>2 DEF absBits
<1> QED
  BY <1>1, <1>2 DEF Abs!Set, absBits

\* A step that changes instance o only changes the abstract vector of o.
LEMMA AbsFrame ==
  ASSUME TypeOK, NEW o \in Obj,
         size_' \in [Obj -> Sizes],
         \A q \in Obj \ {o} : size_'[q] = size_[q] /\ set_'[q] = set_[q]
  PROVE  absBits' = [absBits EXCEPT ![o] = [j \in 0 .. size_'[o] - 1 |-> Read(o, j)']]
<1>1. ASSUME NEW q \in Obj \ {o} PROVE absBits'[q] = absBits[q]
  BY <1>1 DEF absBits, Read
<1> QED
  BY <1>1 DEF absBits, TypeOK

LEMMA BitsetRefinesConstruct ==
  ASSUME IInv, NEW o \in Obj, NEW s \in Sizes, Bitset(o, s)
  PROVE  Abs!Construct(o, s)
<1>1. size_' \in [Obj -> Sizes] /\ size_'[o] = s /\ s \in Nat
  BY DEF Bitset, IInv, TypeOK
<1>2. \A q \in Obj \ {o} : size_'[q] = size_[q] /\ set_'[q] = set_[q]
  BY DEF Bitset, IInv, TypeOK
<1>3. ASSUME NEW j \in 0 .. s - 1 PROVE Read(o, j)' = FALSE
  <2>1. block_index(j) \in 0 .. NumBlocks(s) - 1
    BY <1>1, BlockIndexInRange
  <2> QED
    BY <2>1 DEF Bitset, Read, ZeroBlocks, IInv, TypeOK
<1>4. absBits' = [absBits EXCEPT ![o] = Abs!Clear(s)]
  <2>1. [j \in 0 .. size_'[o] - 1 |-> Read(o, j)'] = Abs!Clear(s)
    BY <1>1, <1>3 DEF Abs!Clear
  <2>2. absBits' = [absBits EXCEPT ![o] = [j \in 0 .. size_'[o] - 1 |-> Read(o, j)']]
    BY <1>1, <1>2, AbsFrame DEF IInv
  <2> QED
    BY <2>1, <2>2
<1> QED
  BY <1>4 DEF Bitset, Abs!Construct, absBits

LEMMA CopyBitsetRefines ==
  ASSUME IInv, NEW o \in Obj, NEW p \in Obj, CopyBitset(o, p)
  PROVE  Abs!CopyConstruct(o, p)
<1>1. size_' \in [Obj -> Sizes] /\ size_'[o] = size_[p]
  BY DEF CopyBitset, IInv, TypeOK
<1>2. \A q \in Obj \ {o} : size_'[q] = size_[q] /\ set_'[q] = set_[q]
  BY DEF CopyBitset, IInv, TypeOK
<1>3. ASSUME NEW j \in 0 .. size_[p] - 1 PROVE Read(o, j)' = Read(p, j)
  BY DEF CopyBitset, Read, IInv, TypeOK
<1>4. absBits' = [absBits EXCEPT ![o] = absBits[p]]
  <2>1. [j \in 0 .. size_'[o] - 1 |-> Read(o, j)'] = absBits[p]
    BY <1>1, <1>3 DEF absBits
  <2>2. absBits' = [absBits EXCEPT ![o] = [j \in 0 .. size_'[o] - 1 |-> Read(o, j)']]
    BY <1>1, <1>2, AbsFrame DEF IInv
  <2> QED
    BY <2>1, <2>2
<1> QED
  BY <1>4 DEF CopyBitset, Abs!CopyConstruct, absBits

LEMMA AssignRefines ==
  ASSUME IInv, NEW o \in Obj, NEW p \in Obj, Assign(o, p)
  PROVE  Abs!Assign(o, p)
<1>1. size_' = size_ /\ size_[o] = size_[p]
  BY DEF Assign
<1>2. \A q \in Obj \ {o} : size_'[q] = size_[q] /\ set_'[q] = set_[q]
  BY DEF Assign, IInv, TypeOK
<1>3. ASSUME NEW j \in 0 .. size_[p] - 1 PROVE Read(o, j)' = Read(p, j)
  BY DEF Assign, Read, IInv, TypeOK
<1>4. absBits' = [absBits EXCEPT ![o] = absBits[p]]
  <2>1. [j \in 0 .. size_'[o] - 1 |-> Read(o, j)'] = absBits[p]
    BY <1>1, <1>3 DEF absBits
  <2>2. absBits' = [absBits EXCEPT ![o] = [j \in 0 .. size_'[o] - 1 |-> Read(o, j)']]
    BY <1>1, <1>2, AbsFrame DEF IInv, TypeOK
  <2> QED
    BY <2>1, <2>2
<1> QED
  BY <1>1, <1>4 DEF Abs!Assign, absBits

\* |= and &= combine the bits operator[] shows, index by index.
LEMMA OrAssignRead ==
  ASSUME IInv, NEW o \in Obj, NEW p \in Obj, OrAssign(o, p),
         NEW j \in 0 .. size_[o] - 1
  PROVE  Read(o, j)' = (Read(o, j) \/ Read(p, j))
<1>1. block_index(j) \in 0 .. blocks_[o] - 1
  BY BlockIndexInRange DEF IInv, TypeOK, BlocksMatchSize
<1> QED
  BY <1>1 DEF OrAssign, Read, IInv, TypeOK

LEMMA AndAssignRead ==
  ASSUME IInv, NEW o \in Obj, NEW p \in Obj, AndAssign(o, p),
         NEW j \in 0 .. size_[o] - 1
  PROVE  Read(o, j)' = (Read(o, j) /\ Read(p, j))
<1>1. block_index(j) \in 0 .. blocks_[o] - 1
  BY BlockIndexInRange DEF IInv, TypeOK, BlocksMatchSize
<1>2. bit_index(j) \in Nat
  BY BitIndexRange DEF IInv, TypeOK
<1> QED
  BY <1>1, <1>2 DEF AndAssign, Read, mask, IInv, TypeOK

LEMMA OrAssignRefines ==
  ASSUME IInv, NEW o \in Obj, NEW p \in Obj, OrAssign(o, p)
  PROVE  Abs!OrAssign(o, p)
<1>1. size_' = size_ /\ size_[o] = size_[p]
  BY DEF OrAssign
<1>2. \A q \in Obj \ {o} : size_'[q] = size_[q] /\ set_'[q] = set_[q]
  BY DEF OrAssign, IInv, TypeOK
<1>3. [j \in 0 .. size_'[o] - 1 |-> Read(o, j)']
        = [i \in DOMAIN absBits[o] |-> absBits[o][i] \/ absBits[p][i]]
  BY <1>1, OrAssignRead DEF absBits
<1>4. absBits' = [absBits EXCEPT ![o] = [j \in 0 .. size_'[o] - 1 |-> Read(o, j)']]
  BY <1>1, <1>2, AbsFrame DEF IInv, TypeOK
<1> QED
  BY <1>1, <1>3, <1>4 DEF Abs!OrAssign, absBits

LEMMA AndAssignRefines ==
  ASSUME IInv, NEW o \in Obj, NEW p \in Obj, AndAssign(o, p)
  PROVE  Abs!AndAssign(o, p)
<1>1. size_' = size_ /\ size_[o] = size_[p]
  BY DEF AndAssign
<1>2. \A q \in Obj \ {o} : size_'[q] = size_[q] /\ set_'[q] = set_[q]
  BY DEF AndAssign, IInv, TypeOK
<1>3. [j \in 0 .. size_'[o] - 1 |-> Read(o, j)']
        = [i \in DOMAIN absBits[o] |-> absBits[o][i] /\ absBits[p][i]]
  BY <1>1, AndAssignRead DEF absBits
<1>4. absBits' = [absBits EXCEPT ![o] = [j \in 0 .. size_'[o] - 1 |-> Read(o, j)']]
  BY <1>1, <1>2, AbsFrame DEF IInv, TypeOK
<1> QED
  BY <1>1, <1>3, <1>4 DEF Abs!AndAssign, absBits

LEMMA NextRefines == IInv /\ [Next]_vars => [Abs!Next]_Abs!vars
<1> SUFFICES ASSUME IInv, [Next]_vars PROVE [Abs!Next]_Abs!vars
  OBVIOUS
<1>1. CASE UNCHANGED vars
  BY <1>1 DEF vars, Abs!vars, Read
<1>2. CASE Next
  <2> PICK o \in Obj, p \in Obj :
        \/ \E s \in Sizes : Bitset(o, s)
        \/ CopyBitset(o, p)
        \/ Assign(o, p)
        \/ OrAssign(o, p)
        \/ AndAssign(o, p)
        \/ \E i \in 0 .. size_[o] - 1, v \in BOOLEAN : Set(o, i, v)
    BY <1>2 DEF Next
  <2>1. CASE \E s \in Sizes : Bitset(o, s)
    BY <2>1, BitsetRefinesConstruct DEF Abs!Next
  <2>2. CASE CopyBitset(o, p)
    BY <2>2, CopyBitsetRefines DEF Abs!Next
  <2>3. CASE Assign(o, p)
    BY <2>3, AssignRefines DEF Abs!Next
  <2>4. CASE OrAssign(o, p)
    BY <2>4, OrAssignRefines DEF Abs!Next
  <2>5. CASE AndAssign(o, p)
    BY <2>5, AndAssignRefines DEF Abs!Next
  <2>6. CASE \E i \in 0 .. size_[o] - 1, v \in BOOLEAN : Set(o, i, v)
    BY <2>6, SetRefines DEF Abs!Next
  <2> QED
    BY <2>1, <2>2, <2>3, <2>4, <2>5, <2>6
<1> QED
  BY <1>1, <1>2

(***************************************************************************)
(* The block-packed Bitset implements the abstract bit vector for every     *)
(* block width: what operator[] shows of the blocks behaves as BitsetSpec  *)
(* says (fresh instances clear, set changes one bit, =, |= and &= act bit   *)
(* by bit on operands of equal size), although the code indexes blocks by  *)
(* the byte width of block_type.                                            *)
(***************************************************************************)
THEOREM BitsetImplementsSpec == Spec => BitsetRefinesSpec
<1>1. Spec => Abs!Spec
    BY InitRefines, NextRefines, IInvHolds, PTL DEF Spec, Abs!Spec
<1>2. QED
    BY <1>1 DEF BitsetRefinesSpec
=============================================================================
