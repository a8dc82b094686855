CONSTANTS
    Dims <- MC_Dims
SPECIFICATION Spec
INVARIANT
    SvdInBounds
