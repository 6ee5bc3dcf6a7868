SPECIFICATION SchemaSpec
CONSTANTS
  Operators = {p1}
  ByPath = {}
  HeadRevision = 3
  MaxInterruptions = 0
INVARIANTS UpgradeBackedUp
CHECK_DEADLOCK FALSE
