SPECIFICATION Spec
CONSTANTS
    UserEdits = {u1}
    DeviceEdits = {d1}
    Clashes = {}
    Remotes = {1}
    MaxExtras = 1
    Starts = {"open"}
    None = None
    u1 = u1
    u2 = u2
    d1 = d1
INVARIANT BusyMeansWork
CHECK_DEADLOCK FALSE
