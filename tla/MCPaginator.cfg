SPECIFICATION Spec
CONSTANTS
  Command = Command
  Clicks = {c1, c2, c3}
  Searches = {name}
  Everything = Everything
  PerPage = 2
  MaxRows = 5
  AtATime = 1
  MaxChanges = 1
  MaxFaults = 2
  Nowhere = Nowhere
INVARIANTS
  TypeOK
  PageInRange
  MessageAgrees
  NothingFoundMeansEmpty
SYMMETRY Symmetry
CHECK_DEADLOCK FALSE
