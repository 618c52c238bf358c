\* Four rows, any list, two changes between or before the pages; or two requests on the
\* filters of two categories.
SPECIFICATION MCSpec
CONSTANTS
  Rows = {1, 2, 3, 4}
  Values = {1, 2}
  Ranks = {0, 2}
  MaxLimit = 2
  MaxChanges = 2
  Given = {d1}
  Callers = {r1, r2}
  Kinds = {c1, c2}
  Slugs = {s1, s2}
  FilterValues <- MCValues
  Options <- MCOptions
  Posted <- MCPosted
  Patches <- MCPatches
  None = None
INVARIANTS
  PagesInOrder
  NothingSkipped
  SelectHasValuesUnlessRaced
  ListingHasFitted
CHECK_DEADLOCK FALSE
