------------------------------ MODULE Lifecycle ------------------------------
(***************************************************************************)
(* TiledArray::initialize / TiledArray::finalize (src/TiledArray/          *)
(* initialize.h) and the MADWorld runtime they start and stop.             *)
(*                                                                         *)
(* TiledArray keeps three process-wide flags (initialized_madworld,         *)
(* initialized, finalized) and a default World.  MADWorld is either not yet *)
(* started, running with a default World on some communicator, or shut     *)
(* down; it can be started only once per process.  The program around      *)
(* TiledArray may start MADWorld itself, create further Worlds on other     *)
(* communicators, and shut down a MADWorld it started.                      *)
(*                                                                         *)
(* Each call of initialize or finalize is one step.  Its outcome is kept in *)
(* lastCall; a call that dereferences a missing World or starts or stops     *)
(* MADWorld a second time is undefined behaviour, recorded in fault, and    *)
(* the process stops there.                                                 *)
(***************************************************************************)
EXTENDS Naturals

CONSTANTS
  Comms,      \* communicators the program passes (COMM_WORLD among them)
  NoComm,     \* marks "no World"
  HasCuda     \* TILEDARRAY_HAS_CUDA: cuda_initialize runs and may throw

ASSUME LifecycleAssumption ==
  /\ NoComm \notin Comms
  /\ HasCuda \in BOOLEAN

VARIABLES
  \* MADWorld (madness::initialized(), its default World, live Worlds)
  mad,        \* "uninit", "up" or "down"
  madComm,    \* communicator of MADWorld's default World
  worlds,     \* communicators on which a World exists (find_instance)
  madOwner,   \* who called madness::initialize: "none", "user" or "ta"
  \* TiledArray's state
  imw,        \* detail::initialized_madworld_accessor()
  initialized,\* detail::initialized_accessor()
  finalized,  \* detail::finalized_accessor()
  defWorld,   \* communicator of the World set by set_default_world
  \* observation
  lastCall,   \* the last TiledArray call and its outcome
  fault       \* "none", or the undefined behaviour the process ran into

madVars == <<mad, madComm, worlds, madOwner>>
taVars == <<imw, initialized, finalized, defWorld>>
vars == <<madVars, taVars, lastCall, fault>>

Results == {"ok", "reinit", "already", "not_comm", "cuda", "fault"}
Faults == {"none", "double_init", "null_world", "no_world"}
Calls == [op : {"initialize", "finalize"}, comm : Comms \cup {NoComm}, res : Results]
         \cup {[op |-> "none", comm |-> NoComm, res |-> "ok"]}

TypeOK ==
  /\ mad \in {"uninit", "up", "down"}
  /\ madComm \in Comms \cup {NoComm}
  /\ worlds \subseteq Comms
  /\ madOwner \in {"none", "user", "ta"}
  /\ imw \in BOOLEAN
  /\ initialized \in BOOLEAN
  /\ finalized \in BOOLEAN
  /\ defWorld \in Comms \cup {NoComm}
  /\ lastCall \in Calls
  /\ fault \in Faults

Init ==
  /\ mad = "uninit" /\ madComm = NoComm /\ worlds = {} /\ madOwner = "none"
  /\ imw = FALSE /\ initialized = FALSE /\ finalized = FALSE
  /\ defWorld = NoComm
  /\ lastCall = [op |-> "none", comm |-> NoComm, res |-> "ok"]
  /\ fault = "none"

\* madness::World::is_default(comm)
IsDefault(c) == mad = "up" /\ madComm = c

\* The process ran into undefined behaviour f during call op(c).
Fault(op, c, f) ==
  /\ fault' = f
  /\ lastCall' = [op |-> op, comm |-> c, res |-> "fault"]
  /\ UNCHANGED <<madVars, taVars>>

\* initialize(c) throws res before changing anything.
Throw(c, res) ==
  /\ lastCall' = [op |-> "initialize", comm |-> c, res |-> res]
  /\ UNCHANGED <<madVars, taVars, fault>>

\* set_default_world(world) for the World on communicator w (NoComm: a null
\* reference) and cuda_initialize(world), which may throw; c is the argument.
SetDefaultWorld(c, w) ==
  /\ defWorld' = w
  /\ \/ /\ initialized' = TRUE
        /\ lastCall' = [op |-> "initialize", comm |-> c, res |-> "ok"]
     \/ /\ HasCuda
        /\ initialized' = FALSE
        /\ lastCall' = [op |-> "initialize", comm |-> c, res |-> "cuda"]
  /\ UNCHANGED <<finalized, fault>>

(***************************************************************************)
(* The body of initialize once TiledArray is not initialized and MADWorld   *)
(* is not running on c: own is initialized_madworld() after line 83.  If    *)
(* TiledArray owns MADWorld it calls madness::initialize, otherwise it      *)
(* dereferences World::find_instance(c).  With no World on c that is a null *)
(* dereference: the process crashes, or it binds a null reference and goes  *)
(* on through set_default_world and the flags (lines 92-97).                *)
(***************************************************************************)
StartUp(c) ==
  LET own == mad # "up" \/ imw
  IN  \/ /\ own /\ mad # "uninit"
         /\ Fault("initialize", c, "double_init")
      \/ /\ ~own /\ c \notin worlds
         /\ Fault("initialize", c, "null_world")
      \/ /\ ~own /\ c \notin worlds
         /\ UNCHANGED <<madVars, imw>>
         /\ SetDefaultWorld(c, NoComm)
      \/ /\ own /\ mad = "uninit"
         /\ mad' = "up" /\ madComm' = c /\ worlds' = {c} /\ madOwner' = "ta"
         /\ imw' = TRUE
         /\ SetDefaultWorld(c, c)
      \/ /\ ~own /\ c \in worlds
         /\ UNCHANGED <<madVars, imw>>
         /\ SetDefaultWorld(c, c)

(***************************************************************************)
(* initialize(argc, argv, comm, quiet); its overloads pass COMM_WORLD or     *)
(* wrap an MPI_Comm, and are the same step with another c.                  *)
(***************************************************************************)
Initialize(c) ==
  \/ /\ imw /\ finalized
     /\ Throw(c, "reinit")
  \/ /\ ~(imw /\ finalized) /\ initialized
     /\ Throw(c, "already")
  \/ /\ ~(imw /\ finalized) /\ ~initialized
     /\ IsDefault(c)
     /\ Throw(c, "not_comm")
  \/ /\ ~(imw /\ finalized) /\ ~initialized
     /\ ~IsDefault(c)
     /\ StartUp(c)

\* get_default_world(): the World set_default_world stored, or else
\* MADWorld's default World.
DefaultWorld == IF defWorld # NoComm THEN defWorld ELSE madComm

\* Mutant: finalize leaves initialized_accessor() set.
Finalize_keep_flag ==
  \/ /\ DefaultWorld \notin worlds
     /\ Fault("finalize", NoComm, "no_world")
  \/ /\ DefaultWorld \in worlds
     /\ mad' = IF imw THEN "down" ELSE mad
     /\ worlds' = IF imw THEN {} ELSE worlds
     /\ defWorld' = NoComm
     /\ finalized' = TRUE
     /\ lastCall' = [op |-> "finalize", comm |-> NoComm, res |-> "ok"]
     /\ UNCHANGED <<madComm, madOwner, imw, initialized, fault>>

\* Mutant: finalize calls madness::finalize whoever started MADWorld.
Finalize_always_madness ==
  \/ /\ DefaultWorld \notin worlds
     /\ Fault("finalize", NoComm, "no_world")
  \/ /\ DefaultWorld \in worlds
     /\ mad' = "down"
     /\ worlds' = {}
     /\ defWorld' = NoComm
     /\ initialized' = FALSE
     /\ finalized' = TRUE
     /\ lastCall' = [op |-> "finalize", comm |-> NoComm, res |-> "ok"]
     /\ UNCHANGED <<madComm, madOwner, imw, fault>>

(***************************************************************************)
(* finalize(): fence on get_default_world(), which is the World set by      *)
(* set_default_world or else MADWorld's default World; madness::finalize    *)
(* if TiledArray started MADWorld; then reset the default World and the     *)
(* flags.  Nothing checks that TiledArray is initialized: a second call    *)
(* fences on a World that no longer exists (a live World means MADWorld is *)
(* running, so madness::finalize is never reached twice).                   *)
(***************************************************************************)
Finalize ==
  \/ /\ DefaultWorld \notin worlds
     /\ Fault("finalize", NoComm, "no_world")
  \/ /\ DefaultWorld \in worlds
     /\ mad' = IF imw THEN "down" ELSE mad
     /\ worlds' = IF imw THEN {} ELSE worlds
     /\ defWorld' = NoComm
     /\ initialized' = FALSE
     /\ finalized' = TRUE
     /\ lastCall' = [op |-> "finalize", comm |-> NoComm, res |-> "ok"]
     /\ UNCHANGED <<madComm, madOwner, imw, fault>>

-----------------------------------------------------------------------------
(***************************************************************************)
(* The program around TiledArray.                                          *)
(***************************************************************************)

\* It starts MADWorld itself, with its default World on c.
UserInitialize(c) ==
  /\ mad = "uninit"
  /\ mad' = "up" /\ madComm' = c /\ worlds' = {c} /\ madOwner' = "user"
  /\ UNCHANGED <<taVars, lastCall, fault>>

\* It creates a World on another communicator c.
UserWorld(c) ==
  /\ mad = "up" /\ c \notin worlds
  /\ worlds' = worlds \cup {c}
  /\ UNCHANGED <<mad, madComm, madOwner, taVars, lastCall, fault>>

\* It shuts down the MADWorld it started, with TiledArray not in use.
UserFinalize ==
  /\ mad = "up" /\ madOwner = "user" /\ ~initialized
  /\ mad' = "down" /\ worlds' = {}
  /\ UNCHANGED <<madComm, madOwner, taVars, lastCall, fault>>

\* A program that shut down its own MADWorld does not initialize again.
CanInitialize == ~(madOwner = "user" /\ mad = "down")

Next ==
  /\ fault = "none"
  /\ \/ \E c \in Comms : CanInitialize /\ Initialize(c)
     \/ Finalize
     \/ \E c \in Comms : UserInitialize(c) \/ UserWorld(c)
     \/ UserFinalize

Spec == Init /\ [][Next]_vars

-----------------------------------------------------------------------------
(***************************************************************************)
(* Properties.                                                              *)
(***************************************************************************)

(***************************************************************************)
(* Whenever initialized() reports true, MADWorld is running and the World  *)
(* finalize() fences on at line 119 (get_default_world()) is alive, also   *)
(* after initialize bound a null World and left get_default_world() to     *)
(* fall back to MADWorld's: the documented initialize ... finalize         *)
(* sequence never fences a destroyed World.  Breaks if finalize leaves the *)
(* initialized flag set, so that a second finalize fences the World the    *)
(* first one destroyed, or if the program could take the runtime down     *)
(* under an initialized TiledArray.                                        *)
(***************************************************************************)
InitializedFinalizable ==
  initialized => mad = "up" /\ DefaultWorld \in worlds

(***************************************************************************)
(* The warning at initialize.h:72-73: MADWorld can be initialized only     *)
(* once, so initialize never calls madness::initialize on a runtime that is *)
(* running or already shut down.                                            *)
(***************************************************************************)
NoDoubleMadnessInit == fault # "double_init"

(***************************************************************************)
(* finalize() shuts MADWorld down exactly when TiledArray started it: a     *)
(* runtime the program started survives TiledArray::finalize.               *)
(***************************************************************************)
FinalizeReleasesOwnRuntime ==
  [][Finalize /\ fault' = "none" => ((mad' = "down") <=> (madOwner = "ta"))]_vars

(***************************************************************************)
(* The exception text at initialize.h:86: when MADWorld was started before  *)
(* initialize(comm), initialize refuses exactly when comm is not the        *)
(* communicator of MADWorld's default World.                                *)
(***************************************************************************)
InitializeRejectsOnlyForeignComm ==
  [][\A c \in Comms :
        Initialize(c) /\ mad = "up" /\ ~initialized /\ ~(imw /\ finalized)
          => ((lastCall'.res = "not_comm") <=> ~IsDefault(c))]_vars
=============================================================================
