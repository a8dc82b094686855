CONSTANT MaxRanks <- MC_MaxRanks
SPECIFICATION Spec
CHECK_DEADLOCK FALSE
INVARIANT ReceivedWhatWasFilled
INVARIANT NeverStuck
PROPERTY Termination
