\* The words of the log, against the loop that is to shut the node down.
SPECIFICATION Spec
CONSTANTS
    Users = {u1}
    Clients = {c1}
    Requests = {r1}
    NoUser = NoUser
    Counts = {0, 1}
    NoCount = NoCount
    MaxWrites = 1
    MaxQueue = 2
    MaxFailures = 0
INVARIANT CentrifugalIsStopped
