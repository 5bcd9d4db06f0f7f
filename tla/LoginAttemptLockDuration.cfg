\* The comment on LockDuration, against the sweep of the map.
SPECIFICATION Spec
CONSTANTS
    Keys = {k1, k2}
    Requests = {r1, r2}
    NoKey = NoKey
    NoUser = NoUser
    Max = 2
    Minute = 1
    MaxRestarts = 0
INVARIANT LockLastsItsDuration
