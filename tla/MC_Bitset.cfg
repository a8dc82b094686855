CONSTANTS
  Obj = {b1, b2}
  Sizes <- MC_Sizes
  BlockBytes <- MC_BlockBytes
SPECIFICATION Spec
INVARIANTS
  TypeOK
  NoStrayBits
PROPERTIES
  BitsetRefinesSpec
