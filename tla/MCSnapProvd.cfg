SPECIFICATION Spec
CONSTANTS
  c0 = c0
  c1 = c1
  v0 = v0
  v1 = v1
  Creds <- MCCreds
  Versions <- MCVersions
  Users = {"root"}
  Groups = {"wheel"}
  Ports = {22}
  MaxRecords = 6
  MaxStarts = 2
  MaxFaults = 1
SYMMETRY IdSymmetry
INVARIANTS
  
  MistakesAtFirstNode
  AncestorsAreSources
CHECK_DEADLOCK FALSE
