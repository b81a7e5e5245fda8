SPECIFICATION DesktopSpec
CONSTANTS
  p = p
  q = q
  t1 = t1
  t2 = t2
  Instances = {p, q}
  Slots = {1, 2}
  MaxVersion = 4
  Threads = {t1, t2}
  QueueCap = 2
  Attempts = {"one", "two"}
  Apps = {"self", "mail", "shop"}
  FerrisPass = "self"
  Script <- TwoTexts
  MaxContexts = 2
  MaxCount = 6
  Files = {1, 2}
  Vaults = {"A", "B"}
  MaxPrompts = 3
  MaxOpens = 2
  Headers = {"A", "B"}
  Costs = {1}
  MaxChecks = 3
  Holders = {"A", "B"}
  MaxIds = 3
  MaxFaults = 2
  Databases = {"A", "B"}
SYMMETRY InstancesAreAlike
CONSTRAINT LastReleaseInTheWay
INVARIANTS
  DesktopTypeOK
PROPERTIES
  UpdatesAreSafe
  LocksArrive
  TypingStops
  CleartextIsCollected
  UnlocksServeTheirScreen
  
CHECK_DEADLOCK FALSE
