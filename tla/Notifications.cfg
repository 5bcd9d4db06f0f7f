\* One user with two tabs, two requests, two writes, two publications under
\* way, one failure.  The run stops when the process ends.
SPECIFICATION Spec
CONSTANTS
    Users = {u1}
    Clients = {c1, c2}
    Requests = {r1, r2}
    NoUser = NoUser
    Counts = {0, 1}
    NoCount = NoCount
    MaxWrites = 2
    MaxQueue = 2
    MaxFailures = 1
INVARIANTS
    TypeOK
    LastCountHolds
    TabsAgree
SYMMETRY Symmetric
CHECK_DEADLOCK FALSE
