\* Two goroutines, two comments, two texts in all, written by the administrator
\* or the owner of the work, one failure or one offset that leaves the administrator
\* out; a list of two ids that two goroutines change, up to three parts long.  The
\* run stops when both comments are deleted.
SPECIFICATION CommentsSpec
CONSTANTS
    Users = {admin, owner}
    Requests = {r1, r2}
    Comments = {c1, c2}
    Admins = {admin}
    Staff = {owner}
    Owner = owner
    NoUser = NoUser
    NoComment = NoComment
    NoRequest = NoRequest
    MaxText = 2
    MaxFailures = 1
    Ids = {i1, i2}
    Writers = {g1, g2}
    Blank = Blank
    NoKey = NoKey
    MaxParts = 3
SYMMETRY Symmetric
INVARIANTS
    TypesOK
    UnreadUntilShown
    UnreadMeansNew
PROPERTIES
    ImplementsIdSets
CHECK_DEADLOCK FALSE
