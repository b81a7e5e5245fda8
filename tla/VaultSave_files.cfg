SPECIFICATION Spec
CONSTANTS
    Paths = {p1, p2}
    Sessions = {s1, s2}
    UserEdits = {e1, e2}
    MergeEdits = {m1}
    IconEdits = {}
    ForeignEdits = {x1}
    NoPath = NoPath
    NoSession = NoSession
    MaxFailures = 1
    MaxRestarts = 0
SYMMETRY Symmetry
ACTION_CONSTRAINT SeveralFilesOrSeveralWriters
INVARIANTS
    OneSessionPerFile
    NothingSilentlyLost
    CloudPushNotForgotten
PROPERTIES
    ForeignEditsKept
    DiscardIsFinal
    KeepsPromise
