\* Three requests on a listing with one image, or on its owner's avatar.
SPECIFICATION Spec
CONSTANTS
  r1 = r1
  Requests = {r1, r2, r3}
  Posted = {a}
  Size <- MCSize
  NoImage = NoImage
SYMMETRY MCSymmetry
INVARIANTS
  RowsHaveObjects
  NoOrphanObject
  RefusedOnlyWhenRaced
PROPERTIES
  RepairedAlone
  ReorderTakesEffect
CHECK_DEADLOCK FALSE
