\* Three requests on a tree of three categories.
SPECIFICATION Spec
CONSTANTS
  Initial = {a, b, c}
  Requests = {r1, r2, r3}
  Root = Root
  Unset = Unset
SYMMETRY MCSymmetry
INVARIANT
  CyclesOnlyWhenRaced
PROPERTY
  DepthFollowsMove
CHECK_DEADLOCK FALSE
