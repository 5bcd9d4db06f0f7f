----------------------------- MODULE MCWorkList -----------------------------
(* Small instances of WorkList and Reports for TLC.  A behaviour is one of      *)
(* either: the two have no variable in common.                                 *)
EXTENDS WorkList, Reports, TLC

VARIABLE model     \* which of the two moves

\* The one that does not move begins in one way only.
WorksInit ==
    /\ Init /\ ReportsInit /\ model \in {"list", "reports"}
    /\ model = "list" => user = [u \in Users |-> task_type[1]]
    /\ model = "reports" => unread = {} /\ \A c, d \in DOMAIN comments : comments[c] = comments[d]

WorksNext ==
    \/ model = "list" /\ Next /\ UNCHANGED <<reportVars, model>>
    \/ model = "reports" /\ ReportsNext /\ UNCHANGED <<vars, model>>

WorksSpec == WorksInit /\ [][WorksNext]_<<vars, reportVars, model>>

\* Works, users, floors and names are interchangeable.
Symmetric ==
    Permutations(Works) \cup Permutations(Users) \cup Permutations(Floors)
    \cup Permutations(Names)

\* Both are well typed: a request looks at comments of the work it is at, a sheet
\* has lines of the works that were there (work/service.go, repository/work.go).
TypesOK == TypeOK /\ ReportsTypeOK
=============================================================================
