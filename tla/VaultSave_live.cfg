SPECIFICATION FairSpec
CONSTANTS
    Paths = {p1}
    Sessions = {s1}
    UserEdits = {e1}
    MergeEdits = {m1}
    IconEdits = {i1}
    ForeignEdits = {}
    NoPath = NoPath
    NoSession = NoSession
    MaxFailures = 2
    MaxRestarts = 1
 
INVARIANTS SaveInv PersistedIsDurable
