SPECIFICATION Spec
CONSTANTS
    UserEdits = {u1, u2}
    DeviceEdits = {}
    Clashes = {}
    Remotes = {1}
    MaxExtras = 0
    Starts = {"open"}
    None = None
    u1 = u1
    u2 = u2
    d1 = d1
PROPERTY CloudKeepsEdits
CHECK_DEADLOCK FALSE
