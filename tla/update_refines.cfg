SPECIFICATION Spec
CONSTANTS
  Keys = {"k1", "k2"}
  Updated = {"k1"}
  Base = 3
  Strings = {1}
  Values = {1, 2}
  MAX_RECS_OLD_CAP = 3
  MaxUpdates = 4
  Inputs <- SomeInputs
  AnyUpdate = FALSE
INVARIANTS
  PositionsAreKnown
  ReaderMeetsWhole
PROPERTIES
  ImplementsRecords
CHECK_DEADLOCK FALSE
