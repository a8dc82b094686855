CONSTANTS
  Comms = {comm_world, comm_a, comm_b}
  NoComm = NoComm
  HasCuda = FALSE
SPECIFICATION Spec
CHECK_DEADLOCK FALSE
PROPERTIES
  InitializeRejectsOnlyForeignComm
