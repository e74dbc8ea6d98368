SPECIFICATION Spec
CONSTANTS
  ann = ann  bob = bob
  Users = {ann, bob}
  Callers = {c1, c2}
  SubjectOf <- MCSubjectOf
  Texts = {text}
  Empty = Empty
  PageSize = 2
  InitialRows = 3
  MaxRows = 4
  MaxChanges = 1
  MaxFaults = 1
  NoOne = NoOne  Nothing = Nothing
INVARIANTS
  TypeOK
  NothingSkipped
  OwnOnly
  AllOrNothing
SYMMETRY Symmetry
CHECK_DEADLOCK FALSE
