SPECIFICATION MetaSpec
CONSTANTS
  Installs = {"a", "b"}
  OwnBin <- BinOfEach
  SharedGroups = {"g"}
  Secrets = {"e"}
  MaxEdits = 3
  LastTime = 2
INVARIANTS TrashedStaysTrashed
CHECK_DEADLOCK FALSE
