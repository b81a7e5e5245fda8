SPECIFICATION FairSpec
CONSTANTS
    UserEdits = {u1}
    DeviceEdits = {d1}
    Clashes <- MCClashes
    Remotes = {1, 2}
    MaxExtras = 1
    Starts = {"open", "locked"}
    None = None
    u1 = u1
    u2 = u2
    d1 = d1
INVARIANTS  BaselineIsTrue ClashesAreAsked MarksHaveTasks BusyHasAnEnd
PROPERTIES EditsAreKept UnsentIsServed
CHECK_DEADLOCK FALSE
