CONSTANT Dim <- MC_Dim
CONSTANT Base <- MC_Base
CONSTANT Coords <- MC_Coords
SPECIFICATION Spec
INVARIANT OrdinalBijective
INVARIANT IterationFollowsOrdinal
INVARIANT IntersectIsMeet
INVARIANT PermuteKeepsElements
