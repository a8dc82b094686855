------------------------------- MODULE Bitset -------------------------------
(***************************************************************************)
(* TiledArray::detail::Bitset<Block> (src/TiledArray/bitset.h): a runtime- *)
(* sized bitset stored in an array of blocks_ values of type block_type.   *)
(*                                                                         *)
(* A block_type value is modelled by the set of positions of its one bits, *)
(* so that |, & and ~mask are union, intersection and difference.  The     *)
(* block width is 8 * sizeof(block_type); the code indexes blocks and bits *)
(* by sizeof(block_type), the width in bytes, which this module keeps.      *)
(*                                                                         *)
(* Operations of the class that change an instance are actions.  Element   *)
(* access is the operator Read, which also gives the refinement mapping to *)
(* the abstract bit vector of BitsetSpec.  TA_ASSERT failures throw before *)
(* any write, so a call whose size check fails changes nothing and is not  *)
(* a step.                                                                 *)
(***************************************************************************)
EXTENDS Naturals

CONSTANTS
  Obj,          \* the Bitset instances a program holds
  Sizes,        \* the sizes they are constructed with
  BlockBytes    \* sizeof(block_type)

ASSUME BitsetAssumption ==
  /\ Sizes \subseteq Nat
  /\ BlockBytes \in Nat \ {0}

VARIABLES
  size_,        \* size_[o]: number of bits of o
  blocks_,      \* blocks_[o]: length of o's block array
  set_          \* set_[o][k]: the one bits of block k of o

vars == <<size_, blocks_, set_>>

\* The width of block_type in bits, and its values.
BlockBits == 8 * BlockBytes
BlockVal == SUBSET (0 .. BlockBits - 1)

\* blocks_(s / sizeof(block_type) + (s % sizeof(block_type) ? 1 : 0))
NumBlocks(s) == s \div BlockBytes + (IF s % BlockBytes # 0 THEN 1 ELSE 0)

\* std::fill_n(set_.get(), num_blocks(), block_type(0))
ZeroBlocks(n) == [k \in 0 .. n - 1 |-> {}]

\* Mutant: block index by the width in bits, bit index still by bytes.
block_index_bitwidth(i) == i \div BlockBits
block_index(i) == i \div BlockBytes

\* Mutant: bit index by the width in bits, block index still by bytes.
bit_index_bitwidth(i) == i % BlockBits
bit_index(i) == i % BlockBytes

mask(i) == {bit_index(i)}

\* operator[](i): mask(i) & set_[block_index(i)]
Read(o, i) == mask(i) \cap set_[o][block_index(i)] # {}

TypeOK ==
  /\ size_ \in [Obj -> Sizes]
  /\ blocks_ \in [Obj -> Nat]
  /\ DOMAIN set_ = Obj
  /\ \A o \in Obj : set_[o] \in [0 .. blocks_[o] - 1 -> BlockVal]

Init ==
  /\ size_ \in [Obj -> Sizes]
  /\ blocks_ = [o \in Obj |-> NumBlocks(size_[o])]
  /\ set_ = [o \in Obj |-> ZeroBlocks(blocks_[o])]

\* Bitset(std::size_t s), constructing o anew.
Bitset(o, s) ==
  /\ size_' = [size_ EXCEPT ![o] = s]
  /\ blocks_' = [blocks_ EXCEPT ![o] = NumBlocks(s)]
  /\ set_' = [set_ EXCEPT ![o] = ZeroBlocks(NumBlocks(s))]

\* Mutant: the copy constructor forgets to copy blocks_.
CopyBitset_keep_blocks(o, p) ==
  /\ size_' = [size_ EXCEPT ![o] = size_[p]]
  /\ set_' = [set_ EXCEPT ![o] = set_[p]]
  /\ UNCHANGED blocks_

\* Bitset(const Bitset& other), constructing o as a copy of p.
CopyBitset(o, p) ==
  /\ size_' = [size_ EXCEPT ![o] = size_[p]]
  /\ blocks_' = [blocks_ EXCEPT ![o] = blocks_[p]]
  /\ set_' = [set_ EXCEPT ![o] = set_[p]]

\* operator=(other): TA_ASSERT on the sizes, then copy unless self-assigned.
Assign(o, p) ==
  /\ size_[o] = size_[p]
  /\ set_' = IF o # p THEN [set_ EXCEPT ![o] = set_[p]] ELSE set_
  /\ UNCHANGED <<size_, blocks_>>

\* operator|=(other): TA_ASSERT on the sizes, then or every block of o.
OrAssign(o, p) ==
  /\ size_[o] = size_[p]
  /\ set_' = [set_ EXCEPT ![o] =
                [k \in 0 .. blocks_[o] - 1 |-> set_[o][k] \cup set_[p][k]]]
  /\ UNCHANGED <<size_, blocks_>>

\* operator&=(other): TA_ASSERT on the sizes, then and every block of o.
AndAssign(o, p) ==
  /\ size_[o] = size_[p]
  /\ set_' = [set_ EXCEPT ![o] =
                [k \in 0 .. blocks_[o] - 1 |-> set_[o][k] \cap set_[p][k]]]
  /\ UNCHANGED <<size_, blocks_>>

(***************************************************************************)
(* set(i, value) checks nothing; its callers keep i below size(), and the  *)
(* inputs below respect that contract.                                      *)
(***************************************************************************)
Set(o, i, v) ==
  /\ set_' = [set_ EXCEPT ![o][block_index(i)] =
                IF v THEN @ \cup mask(i) ELSE @ \ mask(i)]
  /\ UNCHANGED <<size_, blocks_>>

Next ==
  \E o, p \in Obj :
    \/ \E s \in Sizes : Bitset(o, s)
    \/ CopyBitset(o, p)
    \/ Assign(o, p)
    \/ OrAssign(o, p)
    \/ AndAssign(o, p)
    \/ \E i \in 0 .. size_[o] - 1, v \in BOOLEAN : Set(o, i, v)

Spec == Init /\ [][Next]_vars

-----------------------------------------------------------------------------
(***************************************************************************)
(* Properties.                                                              *)
(***************************************************************************)

(***************************************************************************)
(* The block array holds no one bit that is not the image of an index below *)
(* size_: every one bit at position b of block k is the bit of index        *)
(* k * sizeof(block_type) + b, and that index is in range.  get() hands the *)
(* raw blocks to serialisation, so a stray bit there would travel to the    *)
(* receiving process although operator[] never shows it.                    *)
(***************************************************************************)
NoStrayBits ==
  \A o \in Obj : \A k \in DOMAIN set_[o] : \A b \in set_[o][k] :
    /\ b < BlockBytes
    /\ k * BlockBytes + b < size_[o]

(***************************************************************************)
(* The block-packed class implements the abstract bit vector: reading every *)
(* bit with operator[] gives a behaviour of BitsetSpec.  This fails if two  *)
(* indices share a block bit (block_index and bit_index disagreeing on the  *)
(* divisor), if a block operation misses a block, or if construction or     *)
(* copying leaves a bit behind.                                             *)
(***************************************************************************)
Abs == INSTANCE BitsetSpec
         WITH bits <- [o \in Obj |-> [i \in 0 .. size_[o] - 1 |-> Read(o, i)]]

BitsetRefinesSpec == Abs!Spec

(***************************************************************************)
(* Spec section 4.4: num_blocks() is ceil(size / bits per block).  The      *)
(* constructor divides by sizeof(block_type), the width in bytes, and so    *)
(* allocates eight times the blocks the spec states, and get() exposes that *)
(* longer, sparser layout to serialisation.                                 *)
(***************************************************************************)
NumBlocksAsSpecified ==
  \A o \in Obj : blocks_[o] = (size_[o] + BlockBits - 1) \div BlockBits
=============================================================================
