\* PasswordReset with two goroutines, one user, two links, two passwords, two
\* failures; Accounts with two goroutines, up to two accounts, two numbers and an
\* email, one failure.  The run stops when the user or every account is deleted.
SPECIFICATION UsersSpec
CONSTANTS
    Users = {u1}
    Requests = {r1, r2}
    Tokens = {t1, t2}
    Passwords = {p1, p2}
    NoUser = NoUser
    NoToken = NoToken
    NoPassword = NoPassword
    NoRequest = NoRequest
    MaxFailures = 2
    Numbers = {n1, n2}
    Emails = {e1}
    NoNumber = NoNumber
    NoEmail = NoEmail
    Callers = {d1, d2}
    MaxAccounts = 2
    MaxFaults = 1
SYMMETRY Symmetric
INVARIANTS
    TypesOK
    LinkOnce
    LastToldHolds
    OneOwner
PROPERTIES
    ImplementsTrx
CHECK_DEADLOCK FALSE
