------------------------------ MODULE WorkList ------------------------------
(***************************************************************************)
(* WorkList: the list of works tells a user which of them have a comment the  *)
(* user has not read.  One query finds the works, one counts them, one per    *)
(* work finds its comments, and one GET per comment reads its unread list; all *)
(* four queries take order and offset from the same request.  Meanwhile works *)
(* and comments come and go and comments are read (module Comments has the    *)
(* steps of that; here each is one).                                          *)
(* (internal/app/work/service.go Find, internal/repository.)                  *)
(***************************************************************************)
EXTENDS Integers, Sequences, FiniteSets

CONSTANTS
    Works,
    Offsets,        \* the offsets clients ask for
    MaxComments,    \* bound: comments ever written
    MaxFailures     \* bound: commands that fail

ASSUME WorkListAssumption ==
    /\ Offsets \subseteq Nat /\ Offsets # {}
    /\ MaxComments \in Nat /\ MaxFailures \in Nat

VARIABLES
    works,       \* MySQL: the works that are not deleted
    comments,    \* MySQL: the comments in the order of their ids
    unread,      \* Redis: the comments that have the user on their list
    req,         \* the request of the user
    flag,        \* work -> "unread_comment" of the answer
    failures     \* failures so far

VARIABLES        \* history, since the request began
    steady,      \* the comments that have been there and unread all the time
    there,       \* the comments that have been there at any time
    ever,        \* those of there that have been unread then or later
    unsure       \* works with a comment whose GET failed

env == <<works, comments, unread>>
vars == <<works, comments, unread, req, flag, failures, steady, there, ever, unsure>>

\* The columns one can sort by: comments have no floor.
Columns == {"created_at", "floor"}
CommentColumns == Columns \ {"floor"}

Comment == [work : Works, deleted : BOOLEAN]

\* A request: its order and offset; the works it has yet to deal with, the one
\* it is at, and which comments of that one it has yet to look at.
Request ==
    [at : {"find", "count", "works", "comments", "answer", "failed"}, order : Columns,
     offset : Offsets, works : SUBSET Works, work : SUBSET Works, todo : SUBSET Nat]

\* No request runs.
NoRequest ==
    [at |-> "failed", order |-> "floor", offset |-> CHOOSE o \in Offsets : TRUE,
     works |-> {}, work |-> {}, todo |-> {}]

Live == {c \in DOMAIN comments : ~ comments[c].deleted}

\* A request has an answer for its works.
Listed == DOMAIN flag

TypeOK ==
    /\ works \subseteq Works
    /\ comments \in Seq(Comment) /\ Len(comments) <= MaxComments
    /\ unread \subseteq DOMAIN comments
    /\ req \in Request
    /\ Listed \subseteq Works /\ \A w \in Listed : flag[w] \in BOOLEAN
    /\ req.work \subseteq Listed /\ req.works \cap Listed = {}
    /\ \A c \in req.todo : comments[c].work \in req.work
    /\ failures \in 0..MaxFailures
    /\ steady \subseteq ever /\ ever \subseteq there /\ there \subseteq DOMAIN comments
    /\ unsure \subseteq Works

Init ==
    /\ works = Works
    /\ comments \in [1..MaxComments - 1 -> [work : Works, deleted : {FALSE}]]
    /\ unread \in SUBSET DOMAIN comments
    /\ req = NoRequest
    /\ flag = <<>>
    /\ failures = 0
    /\ steady = {} /\ there = {} /\ ever = {} /\ unsure = {}

-----------------------------------------------------------------------------
(* What goes on meanwhile.                                                  *)

Fails == failures < MaxFailures /\ failures' = failures + 1

\* The history after a change of the comments or the lists.
Observe ==
    /\ steady' = steady \cap Live' \cap unread'
    /\ there' = there \cup Live'
    /\ ever' = ever \cup (there' \cap unread')
    /\ UNCHANGED <<req, flag, failures, unsure>>

Write(w) ==
    /\ w \in works /\ Len(comments) < MaxComments
    /\ comments' = Append(comments, [work |-> w, deleted |-> FALSE])
    /\ unread' \in {unread, unread \cup {Len(comments) + 1}}
    /\ UNCHANGED works /\ Observe

Edit(c) == unread' = unread \cup {c} /\ UNCHANGED <<works, comments>> /\ Observe

Read(c) == unread' = unread \ {c} /\ UNCHANGED <<works, comments>> /\ Observe

DeleteComment(c) ==
    comments' = [comments EXCEPT ![c].deleted = TRUE] /\ UNCHANGED <<works, unread>> /\ Observe

DeleteWork(w) == works' = works \ {w} /\ UNCHANGED <<comments, unread>> /\ Observe

-----------------------------------------------------------------------------
(* The request.                                                             *)

Start(order, offset) ==
    /\ req.at \in {"answer", "failed"}
    /\ req' = [NoRequest EXCEPT !.at = "find", !.order = order, !.offset = offset]
    /\ flag' = <<>>
    /\ steady' = Live \cap unread /\ there' = Live /\ ever' = Live \cap unread
    /\ unsure' = {}
    /\ UNCHANGED <<env, failures>>

\* What an offset leaves of rows, whichever come first in the order.
Rest(rows, n) ==
    LET size == Cardinality(rows) IN
        {some \in SUBSET rows : Cardinality(some) = IF size > n THEN size - n ELSE 0}

\* The works the filters let through, from the offset on; there is no limit to
\* them.
Find ==
    /\ req.at = "find"
    /\ \E found \in SUBSET works : \E some \in Rest(found, req.offset) :
          req' = [req EXCEPT !.at = "count", !.works = some]
    /\ UNCHANGED <<env, flag, failures, steady, there, ever, unsure>>

\* The number of works is for the answer only.
Count ==
    /\ req.at = "count"
    /\ req' = [req EXCEPT !.at = "works"]
    /\ UNCHANGED <<env, flag, failures, steady, there, ever, unsure>>

\* Mutant of FindComments: deleted comments are found, too.
FindCommentsDeleted(w) ==
    /\ req.at = "works" /\ w \in req.works
    /\ req.order \in CommentColumns
    /\ req' = [req EXCEPT !.at = "comments", !.works = @ \ {w}, !.work = {w},
                 !.todo = {c \in DOMAIN comments : comments[c].work = w}]
    /\ flag' = [v \in Listed \cup {w} |-> IF v = w THEN FALSE ELSE flag[v]]
    /\ UNCHANGED <<env, failures, steady, there, ever, unsure>>

\* Mutant of FindComments: the comments of all works are found.
FindCommentsOfAll(w) ==
    /\ req.at = "works" /\ w \in req.works
    /\ req.order \in CommentColumns
    /\ req' = [req EXCEPT !.at = "comments", !.works = @ \ {w}, !.work = {w}, !.todo = Live]
    /\ flag' = [v \in Listed \cup {w} |-> IF v = w THEN FALSE ELSE flag[v]]
    /\ UNCHANGED <<env, failures, steady, there, ever, unsure>>

\* The comments of the next work, by the order and from the offset of the works.
FindComments(w) ==
    /\ req.at = "works" /\ w \in req.works
    /\ req.order \in CommentColumns
    /\ \E some \in Rest({c \in Live : comments[c].work = w}, req.offset) :
          req' = [req EXCEPT !.at = "comments", !.works = @ \ {w}, !.work = {w},
                    !.todo = some]
    /\ flag' = [v \in Listed \cup {w} |-> IF v = w THEN FALSE ELSE flag[v]]
    /\ UNCHANGED <<env, failures, steady, there, ever, unsure>>

\* The comments cannot be sorted by this column, a query fails, or the picture
\* of somebody on the list is not on the drive: there is no answer.
RequestFails ==
    /\ \/ req.at = "works" /\ req.works # {} /\ req.order \notin CommentColumns /\ UNCHANGED failures
       \/ req.at \in {"find", "count", "works"} /\ Fails
    /\ req' = NoRequest /\ flag' = <<>>
    /\ UNCHANGED <<env, steady, there, ever, unsure>>

\* Mutant of Look: the last comment decides.
LookLast(c) ==
    /\ req.at = "comments" /\ c \in req.todo
    /\ flag' = [w \in Listed |-> IF w \in req.work THEN c \in unread ELSE flag[w]]
    /\ req' = [req EXCEPT !.todo = @ \ {c}]
    /\ UNCHANGED <<env, failures, steady, there, ever, unsure>>

\* GET of the unread list of a comment: a GET that fails is an empty list.
Look(c) ==
    /\ req.at = "comments" /\ c \in req.todo
    /\ \/ /\ flag' = [w \in Listed |-> flag[w] \/ (w \in req.work /\ c \in unread)]
          /\ UNCHANGED <<failures, unsure>>
       \/ Fails /\ unsure' = unsure \cup req.work /\ UNCHANGED flag
    /\ req' = [req EXCEPT !.todo = @ \ {c}]
    /\ UNCHANGED <<env, steady, there, ever>>

NextWork ==
    /\ req.at = "comments" /\ req.todo = {}
    /\ req' = [req EXCEPT !.at = "works", !.work = {}]
    /\ UNCHANGED <<env, flag, failures, steady, there, ever, unsure>>

Answer ==
    /\ req.at = "works" /\ req.works = {}
    /\ req' = [req EXCEPT !.at = "answer"]
    /\ UNCHANGED <<env, flag, failures, steady, there, ever, unsure>>

Next ==
    \/ \E w \in Works : Write(w) \/ DeleteWork(w)
    \/ \E c \in DOMAIN comments : Edit(c) \/ Read(c) \/ DeleteComment(c)
    \/ \E order \in Columns, offset \in Offsets : Start(order, offset)
    \/ Find \/ Count \/ (\E w \in Works : FindComments(w)) \/ RequestFails
    \/ (\E c \in DOMAIN comments : Look(c)) \/ NextWork \/ Answer

Spec == Init /\ [][Next]_vars

-----------------------------------------------------------------------------
(* Properties.                                                              *)

Of(w) == {c \in DOMAIN comments : comments[c].work = w}

\* A work flagged unread has had an unread comment while the request ran, and
\* not one that was deleted before, although the lists are read one after the
\* other and keep the marks of deleted comments (work/service.go 217-228).
FlagMeansUnread == \A w \in Listed : flag[w] => Of(w) \cap ever # {}

\* A work with a comment that is unread all the while is flagged, unless the
\* GET of a list of it failed or the list of works does not begin at its start
\* (work/service.go 217-228).
UnreadIsFlagged ==
    req.at = "answer" /\ req.offset = 0 =>
        \A w \in Listed : Of(w) \cap steady # {} => flag[w] \/ w \in unsure

\* The comment "check comment unread" (work/service.go 217): the same wherever
\* the list begins.
CheckCommentUnread ==
    req.at = "answer" =>
        \A w \in Listed : Of(w) \cap steady # {} => flag[w] \/ w \in unsure

\* What makes the first two inductive: a request deals with one work at a time, and
\* with none before it has found some; the comments it has yet to look at have been
\* there, as all that are; of those that have been there, the unread ones have been
\* unread; the steady ones are there and unread; and while the list begins at its
\* start, the steady comments of a work without a flag are yet to be looked at.
OneWorkAtATime ==
    /\ \A v, w \in req.work : v = w
    /\ req.at # "comments" => req.work = {} /\ req.todo = {}
    /\ req.at = "find" => Listed = {}

Observed ==
    /\ req.todo \subseteq there
    /\ req.at # "failed" => Live \subseteq there
    /\ there \cap unread \subseteq ever
    /\ steady \subseteq Live \cap unread

YetToFlag ==
    req.offset = 0 =>
        \A w \in Listed : \A c \in Of(w) \cap steady :
            flag[w] \/ w \in unsure \/ (w \in req.work /\ c \in req.todo)

ListInv == TypeOK /\ OneWorkAtATime /\ Observed /\ FlagMeansUnread /\ YetToFlag
=============================================================================
