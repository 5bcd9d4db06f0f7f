\* Up to three rows of two values, pages of none, one or two, or all.
\* The run stops when the client is done and all rows are deleted.
SPECIFICATION Spec
CONSTANTS
    Values = {1, 2}
    Limits = {NoParam, 0, 1}
    NoParam = NoParam
    DefaultLimit = 2
    MaxRows = 3
INVARIANTS
    TypeOK
    NothingMissed
    NothingTwice
    CountsWhatIsShown
CHECK_DEADLOCK FALSE
