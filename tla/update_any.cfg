SPECIFICATION FairSpec
CONSTANTS
  Keys = {"k1", "k2"}
  Updated = {"k1", "k2"}
  Base = 2
  Strings = {1}
  Values = {1, 2}
  MAX_RECS_OLD_CAP = 2
  MaxUpdates = 3
  Inputs <- UniformInputs
  AnyUpdate = TRUE
INVARIANTS
  TypeOK
  LinksForward
PROPERTY UpdateEnds
CHECK_DEADLOCK FALSE
