----------------------------- MODULE MCComments -----------------------------
(* Small instances of Comments and RedisLists for TLC.  A behaviour is one of   *)
(* either: the two have no variable in common.                                 *)
EXTENDS Comments, RedisLists, TLC

VARIABLE model     \* which of the two moves

CommentsInit == Init /\ ListsInit /\ model \in {"comments", "lists"}

CommentsNext ==
    \/ model = "comments" /\ Next /\ UNCHANGED <<listVars, model>>
    \/ model = "lists" /\ ListsNext /\ UNCHANGED <<vars, model>>

CommentsSpec == CommentsInit /\ [][CommentsNext]_<<vars, listVars, model>>

\* Goroutines and comments are interchangeable.
Symmetric == Permutations(Requests) \cup Permutations(Comments)

\* Both are well typed: only comments there are have a text, and a list is missing,
\* blank, or made of ids alone (work/comment/service.go, general.go 830-893).
TypesOK == TypeOK /\ ListsTypeOK

\* The lists of unread comments are used as sets, and the strings they are kept in
\* do what sets would (comment/service.go 192-209, general.go 820-964).
ImplementsIdSets == MarksAreSets /\ StringsAreSets
=============================================================================
