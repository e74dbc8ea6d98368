SPECIFICATION Spec
CONSTANTS
  Candidates = {m1, m2, m3}
  Clicks = {c1, c2, c3, c4}
  MaxFaults = 2
  NoOne = NoOne  Nothing = Nothing
INVARIANTS
  TypeOK
  SelectionFollows
  ConfirmedAsShown
SYMMETRY Symmetry
CHECK_DEADLOCK FALSE
