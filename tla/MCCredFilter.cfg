SPECIFICATION FilterSpec
CONSTANTS
  c1 = c1
  c2 = c2
  c3 = c3
  CredIds <- MCCredIds
  Types <- MCTypes
  MaxLog = 4
SYMMETRY IdSymmetry
INVARIANTS
  FollowsDescendants
  NoStaleEntry
PROPERTIES
  ShowsOnlyFollowed
CHECK_DEADLOCK FALSE
