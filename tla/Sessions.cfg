\* Two goroutines, two users, two sessions, one failure or made up token.
\* The run stops when every uuid is used and the goroutines have nothing to do.
SPECIFICATION Spec
CONSTANTS
    Users = {admin, staff}
    Admins = {admin}
    Uuids = {s1, s2}
    Requests = {r1, r2}
    NoUser = NoUser
    NoUuid = NoUuid
    NoRequest = NoRequest
    Unsigned <- UnsignedStaff
    MaxFailures = 1
SYMMETRY Symmetric
INVARIANTS
    TypeOK
    NoSpuriousLogout
    RevokedStayRefused
CHECK_DEADLOCK FALSE
