SPECIFICATION FairSpec
CONSTANTS
  Submissions = {s1, s2}
  Media = {m1}
  MaxFaults = 1
  NoKey = NoKey  NoOne = NoOne  Others = Others
INVARIANTS
  TypeOK
  ToldTheTruth
  NothingLeftBehind
PROPERTIES
  FinalWordStands
  Finishes
CHECK_DEADLOCK FALSE
