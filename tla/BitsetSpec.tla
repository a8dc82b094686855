----------------------------- MODULE BitsetSpec -----------------------------
(***************************************************************************)
(* What TiledArray::detail::Bitset (src/TiledArray/bitset.h) promises to   *)
(* its users, without its block layout: every instance is a vector of      *)
(* size_ booleans, all clear when constructed, whose size never changes     *)
(* after construction.  Assignment, |= and &= need operands of equal size   *)
(* and act bit by bit; set(i, v) changes bit i only.                        *)
(***************************************************************************)
EXTENDS Naturals

CONSTANTS
  Obj,      \* the Bitset instances a program holds
  Sizes     \* the sizes they are constructed with

VARIABLES
  size_,    \* size_[o]: number of bits of instance o
  bits      \* bits[o][i]: the value operator[](i) returns on instance o

vars == <<size_, bits>>

Clear(s) == [i \in 0 .. s - 1 |-> FALSE]

TypeOK ==
  /\ size_ \in [Obj -> Sizes]
  /\ \A o \in Obj : bits[o] \in [0 .. size_[o] - 1 -> BOOLEAN]

Init ==
  /\ size_ \in [Obj -> Sizes]
  /\ bits = [o \in Obj |-> Clear(size_[o])]

\* Bitset(s): a fresh instance of s clear bits in place of o.
Construct(o, s) ==
  /\ size_' = [size_ EXCEPT ![o] = s]
  /\ bits' = [bits EXCEPT ![o] = Clear(s)]

\* Bitset(const Bitset&): o becomes a copy of p, size included.
CopyConstruct(o, p) ==
  /\ size_' = [size_ EXCEPT ![o] = size_[p]]
  /\ bits' = [bits EXCEPT ![o] = bits[p]]

\* operator=, |= and &=: defined only for operands of equal size.
Assign(o, p) ==
  /\ size_[o] = size_[p]
  /\ bits' = [bits EXCEPT ![o] = bits[p]]
  /\ UNCHANGED size_

OrAssign(o, p) ==
  /\ size_[o] = size_[p]
  /\ bits' = [bits EXCEPT ![o] = [i \in DOMAIN bits[o] |-> bits[o][i] \/ bits[p][i]]]
  /\ UNCHANGED size_

AndAssign(o, p) ==
  /\ size_[o] = size_[p]
  /\ bits' = [bits EXCEPT ![o] = [i \in DOMAIN bits[o] |-> bits[o][i] /\ bits[p][i]]]
  /\ UNCHANGED size_

\* set(i, value): bit i of o takes value, for i below the size.
Set(o, i, v) ==
  /\ i \in 0 .. size_[o] - 1
  /\ bits' = [bits EXCEPT ![o][i] = v]
  /\ UNCHANGED size_

Next ==
  \E o, p \in Obj :
    \/ \E s \in Sizes : Construct(o, s)
    \/ CopyConstruct(o, p)
    \/ Assign(o, p)
    \/ OrAssign(o, p)
    \/ AndAssign(o, p)
    \/ \E i \in 0 .. size_[o] - 1, v \in BOOLEAN : Set(o, i, v)

Spec == Init /\ [][Next]_vars
=============================================================================
