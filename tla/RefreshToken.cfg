\* One session of one user, and a made up token with that user and a uuid that no
\* login has made, refreshed by two goroutines at the same time.
\* The run stops when the bounds are reached.
SPECIFICATION RefreshSpec
CONSTANTS
    Users = {admin}
    Admins = {admin}
    Uuids = {s1}
    Requests = {r1}
    Refreshers = {q1, q2}
    NoUser = NoUser
    NoUuid = NoUuid
    NoRequest = NoRequest
    MaxRefresh = 1
    Unsigned <- UnsignedOther
    MaxFailures = 1
    MaxErrors = 1
INVARIANTS
    RefreshTypeOK
    RefreshBudget
PROPERTIES
    ImplementsSessions
    DeletedFadeOut
CHECK_DEADLOCK FALSE
