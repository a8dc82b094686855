CONSTANTS
    T1 = T1
    T2 = T2
    Slots = {s1, s2}
    TileTypes <- MC_TileTypes
    Pos <- MC_Pos
    Perms <- MC_Perms
    Scalars <- MC_Scalars
    InitVals <- MC_InitVals
    MaxVal <- MC_MaxVal
    NativeAdd <- MC_NativeAdd
    NativeAddPerm <- MC_NativeAddPerm
    NativeScalAdd <- MC_NativeScalAdd
    NativeScalAddPerm <- MC_NativeScalAddPerm
SPECIFICATION Spec
INVARIANT
    ScalAddToScales
