SPECIFICATION Spec
CONSTANTS
    Paths = {p1}
    Sessions = {s1}
    UserEdits = {e1, e2}
    MergeEdits = {}
    IconEdits = {}
    ForeignEdits = {}
    NoPath = NoPath
    NoSession = NoSession
    MaxFailures = 2
    MaxRestarts = 1
INVARIANT QuitOnlyAfterTold
