SPECIFICATION CopiesSpec
CONSTANTS
  Devices = {"a", "b"}
  Drift <- DriftOfA
  Places = {"home", "work"}
  MaxOps = 3
  MaxTicks = 1
  Installs = {"a", "b"}
  OwnBin <- BinOfEach
  SharedGroups = {"g"}
  Secrets = {"e"}
  MaxEdits = 3
  LastTime = 3
  Groups = {"a", "b", "bin"}
  Entries = {"e"}
  Icons = {"i", "j"}
  Layouts <- SomeLayouts
  HistoryCap = 1
  MaxLead = 1
  MaxChanges = 4
  LastSecond = 2
  Commands = {"script", "other"}
  Runs <- ScriptAndOther
  Providers = {"sharepoint", "icloud"}
  MaxWrites = 3
ACTION_CONSTRAINT MarkersOrMoves
INVARIANTS
  CopiesTypeOK
  AnswersStand
  BinsReunite
PROPERTIES
  
  SettingsSettle
  TreeKeepsItsShape
  CommandsLoseNothing
CHECK_DEADLOCK FALSE
