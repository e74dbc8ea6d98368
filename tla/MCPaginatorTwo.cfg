SPECIFICATION Spec
CONSTANTS
  Command = Command
  Clicks = {c1, c2}
  Searches = {name}
  Everything = Everything
  PerPage = 2
  MaxRows = 5
  AtATime = 2
  MaxChanges = 0
  MaxFaults = 0
  Nowhere = Nowhere
INVARIANT
  NothingFoundMeansEmpty
SYMMETRY Symmetry
CHECK_DEADLOCK FALSE
