CONSTANTS
  Comms = {comm_world, comm_a, comm_b}
  NoComm = NoComm
  HasCuda = TRUE
SPECIFICATION Spec
CHECK_DEADLOCK FALSE
INVARIANTS
  InitializedFinalizable
PROPERTIES
  FinalizeReleasesOwnRuntime
