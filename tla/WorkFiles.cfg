\* Two goroutines, a work of two images or a user with a picture, four uploads,
\* one fault.
\* The run stops when the row is deleted.
SPECIFICATION Spec
CONSTANTS
    Rows = {x1}
    NSlots = 2
    Files = {f1, f2, f3, f4}
    Requests = {r1, r2}
    NoRow = NoRow
    NoRequest = NoRequest
    NoFile = NoFile
    Keep = Keep
    MaxFaults = 1
SYMMETRY Symmetric
INVARIANTS
    TypeOK
    NamedFilesExist
    NotFoundMeansReplaced
    NoStrays
CHECK_DEADLOCK FALSE
