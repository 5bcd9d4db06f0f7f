\* Two works, two comments, an answer from the start or but for one.
SPECIFICATION WorksSpec
CONSTANTS
    Works = {w1, w2}
    Offsets = {0, 1}
    MaxComments = 2
    MaxFailures = 1
    Users = {u1}
    Floors = {f1}
    Names = {n1, n2}
    Tasks = {daily, weekly}
    TASK_ID_DAILY = daily
    NoName = NoName
    Skips = {0, 1}
    MaxTypes = 2
    MaxWorks = 2
    MaxAsked = 1
    MaxChanges = 1
SYMMETRY Symmetric
INVARIANTS
    TypesOK
    FlagMeansUnread
    UnreadIsFlagged
    NamesShown
    SumsComplete
