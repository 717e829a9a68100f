CONSTANTS
  Digits = {"0", "1"}
  Others = {"a"}
  Number <- MCNumber
  Tables <- MCTables

SPECIFICATION Spec
CHECK_DEADLOCK FALSE
INVARIANTS
  NothingPastEnd
  StringIsTable
  ReadsBack
