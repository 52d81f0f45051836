\* Every tree of up to ten nodes, with equal keys.
SPECIFICATION Spec
CHECK_DEADLOCK FALSE
VIEW View
CONSTANTS
  Nodes <- MCNodes
  nil = nil
  root = root
  Adds <- MCAdds
INVARIANTS
  RbtTypeOK
  LinksBothWays
  BlackHeightsEqual
  NoRedPair
  QueriesAgree
  NothingLeaks
PROPERTIES
  Climbs
  RefinesList
