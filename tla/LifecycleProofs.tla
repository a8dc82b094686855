--------------------------- MODULE LifecycleProofs ---------------------------
(***************************************************************************)
(* Proofs about TiledArray::initialize / finalize (module Lifecycle), for  *)
(* every set of communicators.                                             *)
(***************************************************************************)
EXTENDS Lifecycle, TLAPS

(***************************************************************************)
(* The strengthening of NoDoubleMadnessInit.  When MADWorld is shut down,  *)
(* either TiledArray shut down the runtime it had started (and so refuses  *)
(* to initialize again) or the program shut down its own (and does not     *)
(* initialize again); a running MADWorld that TiledArray started means     *)
(* TiledArray is initialized, which holds only when cuda_initialize cannot *)
(* throw between madness::initialize and initialized_accessor() = true.    *)
(***************************************************************************)
MadnessInv ==
  /\ mad = "down" => (imw /\ finalized) \/ madOwner = "user"
  /\ imw /\ mad = "up" => initialized
  /\ imw => mad # "uninit"
  /\ NoDoubleMadnessInit

(* A call that throws or faults changes none of the runtime's state. *)
Kept ==
  /\ mad' = mad /\ madComm' = madComm /\ worlds' = worlds /\ madOwner' = madOwner
  /\ imw' = imw /\ initialized' = initialized /\ finalized' = finalized
  /\ defWorld' = defWorld

LEMMA FaultKeepsState ==
  ASSUME NEW op, NEW c, NEW f, Fault(op, c, f) PROVE Kept
  BY DEF Fault, madVars, taVars, Kept

LEMMA ThrowKeepsState ==
  ASSUME NEW c, NEW res, Throw(c, res) PROVE Kept
  BY DEF Throw, madVars, taVars, Kept

(***************************************************************************)
(* Type correctness: every state of every behaviour gives each variable a  *)
(* value of its type, for every set of communicators.                      *)
(***************************************************************************)
THEOREM TypeCorrect == Spec => []TypeOK
<1>1. Init => TypeOK
  BY LifecycleAssumption DEF Init, TypeOK, Calls, Faults
<1>2. TypeOK /\ [Next]_vars => TypeOK'
  <2> SUFFICES ASSUME TypeOK, [Next]_vars PROVE TypeOK'
    OBVIOUS
  <2>1. ASSUME NEW c \in Comms, Initialize(c) PROVE TypeOK'
    <3>1. CASE \E res \in Results : Throw(c, res)
      BY <3>1, ThrowKeepsState DEF Throw, Kept, TypeOK, Calls
    <3>2. CASE \E f \in Faults : Fault("initialize", c, f)
      BY <3>2, FaultKeepsState DEF Fault, Kept, TypeOK, Calls, Results
    <3>3. CASE /\ \E w \in Comms \cup {NoComm} : SetDefaultWorld(c, w)
               /\ mad' \in {"uninit", "up", "down"}
               /\ madComm' \in Comms \cup {NoComm} /\ worlds' \subseteq Comms
               /\ madOwner' \in {"none", "user", "ta"} /\ imw' \in BOOLEAN
      <4>1. lastCall' \in Calls
        BY <3>3 DEF SetDefaultWorld, Calls, Results
      <4>2. initialized' \in BOOLEAN /\ defWorld' \in Comms \cup {NoComm}
        BY <3>3 DEF SetDefaultWorld
      <4>3. QED
        BY <3>3, <4>1, <4>2 DEF SetDefaultWorld, TypeOK
    <3>4. QED
      BY <2>1, <3>1, <3>2, <3>3 DEF Initialize, StartUp, madVars, TypeOK, Results, Faults
  <2>2. CASE Finalize
    <3>1. CASE Fault("finalize", NoComm, "no_world")
      BY <3>1, FaultKeepsState DEF Fault, Kept, TypeOK, Calls, Results, Faults
    <3>2. CASE ~Fault("finalize", NoComm, "no_world")
      <4>1. lastCall' \in Calls
        BY <2>2, <3>2 DEF Finalize, Calls, Results
      <4>2. /\ mad' \in {"uninit", "up", "down"} /\ worlds' \subseteq Comms
            /\ initialized' \in BOOLEAN /\ finalized' \in BOOLEAN
            /\ defWorld' \in Comms \cup {NoComm}
            /\ UNCHANGED <<madComm, madOwner, imw, fault>>
        BY <2>2, <3>2 DEF Finalize, TypeOK
      <4>3. QED
        BY <4>1, <4>2 DEF TypeOK
    <3>3. QED
      BY <3>1, <3>2
  <2>3. ASSUME NEW c \in Comms, UserInitialize(c) \/ UserWorld(c) PROVE TypeOK'
    BY <2>3 DEF UserInitialize, UserWorld, TypeOK, taVars
  <2>4. CASE UserFinalize
    BY <2>4 DEF UserFinalize, TypeOK, taVars
  <2>5. CASE UNCHANGED vars
    BY <2>5 DEF vars, madVars, taVars, TypeOK
  <2>6. QED
    BY <2>1, <2>2, <2>3, <2>4, <2>5 DEF Next
<1>3. QED
  BY <1>1, <1>2, PTL DEF Spec

(* While MADWorld runs, its default World is alive. *)
MadWorldLive == mad = "up" => madComm \in worlds

FinInv == InitializedFinalizable /\ MadWorldLive

(***************************************************************************)
(* While initialized() reports true, MADWorld is running and the World     *)
(* finalize() fences on is alive (the property the lifecycle_cuda run      *)
(* checks), for every set of communicators and with or without CUDA, also  *)
(* on the path where initialize binds a null World: get_default_world()   *)
(* then falls back to MADWorld's default World, which stays alive as long  *)
(* as MADWorld runs (MadWorldLive).                                        *)
(***************************************************************************)
THEOREM InitializedFinalizableHolds == Spec => []InitializedFinalizable
<1>1. Init => FinInv
  BY DEF Init, FinInv, InitializedFinalizable, MadWorldLive
<1>2. FinInv /\ [Next]_vars => FinInv'
  <2> SUFFICES ASSUME FinInv, [Next]_vars PROVE FinInv'
    OBVIOUS
  <2>1. CASE Kept
    BY <2>1 DEF Kept, FinInv, InitializedFinalizable, MadWorldLive, DefaultWorld
  <2>2. ASSUME NEW c \in Comms, Initialize(c) PROVE FinInv'
    <3>0. c # NoComm
      BY LifecycleAssumption
    <3>1. CASE /\ mad' = "up" /\ madComm' = c /\ worlds' = {c}
               /\ SetDefaultWorld(c, c)
      BY <3>0, <3>1 DEF SetDefaultWorld, FinInv, InitializedFinalizable, MadWorldLive,
                        DefaultWorld
    <3>2. CASE /\ mad = "up" /\ c \in worlds /\ UNCHANGED <<madVars, imw>>
               /\ SetDefaultWorld(c, c)
      BY <3>0, <3>2 DEF SetDefaultWorld, madVars, FinInv, InitializedFinalizable,
                        MadWorldLive, DefaultWorld
    <3>3. CASE /\ mad = "up" /\ UNCHANGED <<madVars, imw>>
               /\ SetDefaultWorld(c, NoComm)
      BY <3>3 DEF SetDefaultWorld, madVars, FinInv, InitializedFinalizable,
                  MadWorldLive, DefaultWorld
    <3>4. QED
      BY <2>1, <2>2, <3>1, <3>2, <3>3, FaultKeepsState, ThrowKeepsState
         DEF Initialize, StartUp, IsDefault
  <2>3. CASE Finalize
    <3>1. CASE ~Fault("finalize", NoComm, "no_world")
      <4>1. /\ initialized' = FALSE /\ madComm' = madComm
            /\ \/ mad' = "down"
               \/ mad' = mad /\ worlds' = worlds
        BY <2>3, <3>1 DEF Finalize
      <4>2. QED
        BY <4>1 DEF FinInv, InitializedFinalizable, MadWorldLive
    <3>2. QED
      BY <2>1, <3>1, FaultKeepsState
  <2>4. ASSUME NEW c \in Comms, UserInitialize(c) PROVE FinInv'
    BY <2>4 DEF UserInitialize, taVars, FinInv, InitializedFinalizable, MadWorldLive,
                DefaultWorld
  <2>5. ASSUME NEW c \in Comms, UserWorld(c) PROVE FinInv'
    BY <2>5 DEF UserWorld, taVars, FinInv, InitializedFinalizable, MadWorldLive,
                DefaultWorld
  <2>6. CASE UserFinalize
    BY <2>6 DEF UserFinalize, taVars, FinInv, InitializedFinalizable, MadWorldLive
  <2>7. CASE UNCHANGED vars
    BY <2>1, <2>7 DEF vars, madVars, taVars, Kept
  <2>8. QED
    BY <2>2, <2>3, <2>4, <2>5, <2>6, <2>7 DEF Next
<1>3. QED
  BY <1>1, <1>2, PTL DEF Spec, FinInv

(***************************************************************************)
(* Without CUDA, initialize never calls madness::initialize on a MADWorld  *)
(* that is running or already shut down (the warning at                    *)
(* initialize.h:72-73), for every set of communicators and every order of  *)
(* calls by TiledArray and by the program around it.  The lifecycle_cuda_  *)
(* retry run shows why the hypothesis is needed.                           *)
(***************************************************************************)
THEOREM NoDoubleMadnessInitHolds ==
  ASSUME ~HasCuda PROVE Spec => []NoDoubleMadnessInit
<1>1. Init => TypeOK /\ MadnessInv
  BY LifecycleAssumption DEF Init, TypeOK, Calls, Faults, MadnessInv, NoDoubleMadnessInit
<1>2. TypeOK /\ MadnessInv /\ [Next]_vars => MadnessInv'
  <2> SUFFICES ASSUME TypeOK, MadnessInv, [Next]_vars PROVE MadnessInv'
    OBVIOUS
  <2>1. ASSUME Kept, fault' # "double_init" PROVE MadnessInv'
    BY <2>1 DEF Kept, MadnessInv, NoDoubleMadnessInit
  <2>2. ASSUME NEW c \in Comms, CanInitialize, Initialize(c) PROVE MadnessInv'
    <3>1. CASE \E res : Throw(c, res)
      BY <2>1, <3>1, ThrowKeepsState DEF Throw, MadnessInv, NoDoubleMadnessInit
    <3>2. CASE ~(imw /\ finalized) /\ ~initialized /\ ~IsDefault(c) /\ StartUp(c)
      <4>1. mad = "uninit" \/ (mad = "up" /\ ~imw)
        BY <2>2, <3>2 DEF TypeOK, MadnessInv, CanInitialize
      <4>2. CASE mad = "uninit"
        <5>1. mad' = "up" /\ imw' /\ initialized'
          BY <4>2, <3>2 DEF StartUp, SetDefaultWorld
        <5>2. fault' = fault
          BY <4>2, <3>2 DEF StartUp, SetDefaultWorld
        <5>3. QED
          BY <5>1, <5>2 DEF MadnessInv, NoDoubleMadnessInit
      <4>3. CASE mad = "up" /\ ~imw
        <5>1. CASE Fault("initialize", c, "null_world")
          BY <5>1, <2>1, FaultKeepsState DEF Fault
        <5>2. CASE UNCHANGED <<madVars, imw>> /\ \E w : SetDefaultWorld(c, w)
          BY <4>3, <5>2 DEF SetDefaultWorld, madVars, MadnessInv, NoDoubleMadnessInit
        <5>3. QED
          BY <3>2, <4>3, <5>1, <5>2 DEF StartUp
      <4>4. QED
        BY <4>1, <4>2, <4>3
    <3>3. QED
      BY <2>2, <3>1, <3>2 DEF Initialize
  <2>3. CASE Finalize
    <3>1. CASE Fault("finalize", NoComm, "no_world")
      BY <2>1, <3>1, FaultKeepsState DEF Fault
    <3>2. QED
      BY <2>3, <3>1 DEF Finalize, MadnessInv, NoDoubleMadnessInit
  <2>4. ASSUME NEW c \in Comms, UserInitialize(c) PROVE MadnessInv'
    BY <2>4 DEF UserInitialize, taVars, MadnessInv, NoDoubleMadnessInit
  <2>5. ASSUME NEW c \in Comms, UserWorld(c) PROVE MadnessInv'
    BY <2>5 DEF UserWorld, taVars, MadnessInv, NoDoubleMadnessInit
  <2>6. CASE UserFinalize
    BY <2>6 DEF UserFinalize, taVars, MadnessInv, NoDoubleMadnessInit
  <2>7. CASE UNCHANGED vars
    BY <2>7 DEF vars, madVars, taVars, MadnessInv, NoDoubleMadnessInit
  <2>8. QED
    BY <2>2, <2>3, <2>4, <2>5, <2>6, <2>7 DEF Next
<1>3. MadnessInv => NoDoubleMadnessInit
  BY DEF MadnessInv
<1>4. QED
  BY <1>1, <1>2, <1>3, TypeCorrect, PTL DEF Spec
(***************************************************************************)
(* Who owns MADWorld.  initialized_madworld is set exactly when TiledArray *)
(* called madness::initialize (and never reset), which cannot have         *)
(* happened while MADWorld is uninitialized; and a live World means        *)
(* MADWorld is running.                                                     *)
(***************************************************************************)
OwnerInv ==
  /\ imw <=> madOwner = "ta"
  /\ imw => mad # "uninit"
  /\ worlds # {} => mad = "up"

LEMMA OwnerInvStep == OwnerInv /\ [Next]_vars => OwnerInv'
<1> SUFFICES ASSUME OwnerInv, [Next]_vars PROVE OwnerInv'
  OBVIOUS
<1>1. CASE Kept
  BY <1>1 DEF Kept, OwnerInv
<1>2. ASSUME NEW c \in Comms, Initialize(c) PROVE OwnerInv'
  <2>1. CASE ~(imw /\ finalized) /\ ~initialized /\ ~IsDefault(c) /\ StartUp(c)
    <3>1. CASE mad' = "up" /\ madComm' = c /\ worlds' = {c} /\ madOwner' = "ta"
               /\ imw' = TRUE
      BY <3>1 DEF OwnerInv
    <3>2. CASE UNCHANGED <<madVars, imw>>
      BY <3>2 DEF madVars, OwnerInv
    <3>3. QED
      BY <1>1, <2>1, <3>1, <3>2, FaultKeepsState DEF StartUp
  <2>2. QED
    BY <1>1, <1>2, <2>1, ThrowKeepsState DEF Initialize
<1>3. CASE Finalize
  BY <1>1, <1>3, FaultKeepsState DEF Finalize, OwnerInv
<1>4. ASSUME NEW c \in Comms, UserInitialize(c) PROVE OwnerInv'
  BY <1>4 DEF UserInitialize, taVars, OwnerInv
<1>5. ASSUME NEW c \in Comms, UserWorld(c) PROVE OwnerInv'
  BY <1>5 DEF UserWorld, taVars, OwnerInv
<1>6. CASE UserFinalize
  BY <1>6 DEF UserFinalize, taVars, OwnerInv
<1>7. CASE UNCHANGED vars
  BY <1>7 DEF vars, madVars, taVars, OwnerInv
<1>8. QED
  BY <1>2, <1>3, <1>4, <1>5, <1>6, <1>7 DEF Next

(***************************************************************************)
(* finalize() shuts MADWorld down exactly when TiledArray started it (the  *)
(* action property the lifecycle runs check), for every set of            *)
(* communicators, with or without CUDA: the madness::finalize under        *)
(* initialized_madworld releases only TiledArray's own runtime, and a      *)
(* runtime the program started is still running when finalize fences on   *)
(* one of its Worlds.                                                       *)
(***************************************************************************)
THEOREM FinalizeReleasesOwnRuntimeHolds == Spec => FinalizeReleasesOwnRuntime
<1>1. Init => OwnerInv
  BY DEF Init, OwnerInv
<1>2. OwnerInv /\ [Next]_vars
        => [Finalize /\ fault' = "none" => ((mad' = "down") <=> (madOwner = "ta"))]_vars
  <2> SUFFICES ASSUME OwnerInv, [Next]_vars, Finalize, fault' = "none"
               PROVE (mad' = "down") <=> (madOwner = "ta")
    OBVIOUS
  <2>1. ~Fault("finalize", NoComm, "no_world")
    BY DEF Fault
  <2>2. QED
    BY <2>1 DEF Finalize, OwnerInv
<1>3. QED
  BY <1>1, <1>2, OwnerInvStep, PTL DEF Spec, FinalizeReleasesOwnRuntime
=============================================================================
