CONSTANTS
    Dims <- MC_Dims
SPECIFICATION Spec
INVARIANTS
    SquareWrappersInBounds
