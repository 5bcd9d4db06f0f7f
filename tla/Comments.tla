------------------------------ MODULE Comments ------------------------------
(***************************************************************************)
(* Comments: the comments of one work live in MySQL, and for each comment a  *)
(* list in Redis holds the users who have not read it.  Writing or editing a *)
(* comment appends its audience to the list before the transaction commits;  *)
(* reading the comments of the work removes the reader from the lists.  Both *)
(* rewrite a list by a GET and a later SET, steps of their own.  The query   *)
(* for the administrators in the audience obeys the offset in the writer's   *)
(* URL, so that any of them may be left out.                                 *)
(* (internal/app/work/comment/service.go, internal/repository/user.go, the   *)
(* list helpers of pkg/util/general/general.go.)                             *)
(***************************************************************************)
EXTENDS Integers, FiniteSets

CONSTANTS
    Users, Requests,
    Comments,     \* the ids of the comments of the work
    Admins, Staff, Owner,   \* of the users: their roles, and whose work it is
    NoUser, NoComment, NoRequest,
    MaxText,      \* bound: texts written, the comments counted together
    MaxFailures   \* bound: commands, commits and answers that fail, restarts, offsets

ASSUME CommentsAssumption ==
    /\ Admins \cup Staff \subseteq Users /\ Admins \cap Staff = {}
    /\ Owner \in Users
    /\ NoUser \notin Users /\ NoComment \notin Comments /\ NoRequest \notin Requests
    /\ MaxText \in Nat \ {0}
    /\ MaxFailures \in Nat

VARIABLES
    text,         \* MySQL: comment -> how often its text was written, 0: no row
    made,         \* MySQL: the ids given to a row, committed or not
    deleted,      \* MySQL: the comments with is_delete set
    rowLock,      \* MySQL: comment -> the request whose transaction holds its row
    unread,       \* Redis: comment -> the users on its list
    req,          \* goroutine -> the request it serves
    failures      \* failures so far, offsets that left somebody out among them

VARIABLES         \* history
    writer,       \* comment -> who wrote its text
    left,         \* comment -> those of its audience whom the writer's offset left out
    due,          \* comment -> user -> the newest text the user was put on the list for
    shown,        \* comment -> user -> the newest text the user was answered with
    missed,       \* comment -> the users who lost their mark unread
    lingering     \* comment -> the users who kept it, or got it back, though read

rows == <<text, deleted, writer, left>>
mysql == <<rows, made, rowLock>>
redis == <<unread, due, missed, lingering>>
vars == <<text, made, deleted, rowLock, unread, req, failures,
          writer, left, due, shown, missed, lingering>>

WriteSteps == {"row", "mark get", "mark set", "commit"}
ReadSteps == {"look", "clear get", "clear set", "answer"}

\* A request: whose it is; the comment and, in a write, the user its command is
\* about; whom it has to mark or what to look at yet; whom of its audience its
\* offset leaves out; what its last GET returned; and the texts a reader was given,
\* 0 for a comment that is not among them.
Request ==
    [at : {"idle"} \cup WriteSteps \cup ReadSteps,
     kind : {"none", "create", "edit", "touch", "delete", "read"},
     by : Users \cup {NoUser}, comment : Comments \cup {NoComment},
     mark : Users \cup {NoUser}, todo : SUBSET (Users \cup Comments), left : SUBSET Users,
     list : SUBSET Users, given : [Comments -> Nat]]

Nothing == [c \in Comments |-> 0]
Idle == [at |-> "idle", kind |-> "none", by |-> NoUser, comment |-> NoComment,
         mark |-> NoUser, todo |-> {}, left |-> {}, list |-> {}, given |-> Nothing]

TypeOK ==
    /\ text \in [Comments -> Nat]
    /\ made \in SUBSET Comments
    /\ \A c \in Comments \ made : text[c] = 0
    /\ deleted \in SUBSET made
    /\ rowLock \in [Comments -> Requests \cup {NoRequest}]
    /\ unread \in [Comments -> SUBSET Users]
    /\ req \in [Requests -> Request]
    /\ failures \in 0..MaxFailures
    /\ writer \in [Comments -> Users \cup {NoUser}]
    /\ left \in [Comments -> SUBSET Users]
    /\ due \in [Comments -> [Users -> Nat]]
    /\ shown \in [Comments -> [Users -> Nat]]
    /\ missed \in [Comments -> SUBSET Users]
    /\ lingering \in [Comments -> SUBSET Users]

Init ==
    /\ text = Nothing
    /\ made = {} /\ deleted = {}
    /\ rowLock = [c \in Comments |-> NoRequest]
    /\ unread = [c \in Comments |-> {}]
    /\ req = [r \in Requests |-> Idle]
    /\ failures = 0
    /\ writer = [c \in Comments |-> NoUser]
    /\ left = [c \in Comments |-> {}]
    /\ due = [c \in Comments |-> [u \in Users |-> 0]]
    /\ shown = [c \in Comments |-> [u \in Users |-> 0]]
    /\ missed = [c \in Comments |-> {}]
    /\ lingering = [c \in Comments |-> {}]

-----------------------------------------------------------------------------
\* A command, commit or answer fails, or does not.
Fails == failures < MaxFailures /\ failures' = failures + 1
Works == UNCHANGED failures

\* Whom w marks when the query finds these administrators; who has to read what w
\* writes; and whom of them the query leaves out.
Found(w, admins) == IF w \in Staff THEN admins ELSE {Owner} \cup (admins \ {w})
Audience(w) == Found(w, Admins)
LeftOut(w, admins) == Audience(w) \ Found(w, admins)

Begin(r, step, kind, w, c, todo, out) ==
    /\ req[r].at = "idle"
    /\ req' = [req EXCEPT ![r] = [Idle EXCEPT !.at = step, !.kind = kind, !.by = w,
                                  !.comment = c, !.todo = todo, !.left = out]]

Goto(r, step) == req' = [req EXCEPT ![r].at = step]

Done(r) == req' = [req EXCEPT ![r] = Idle]

\* The transaction of r is over and its locks free.
Unlock(r) == rowLock' = [c \in Comments |-> IF rowLock[c] = r THEN NoRequest ELSE rowLock[c]]

\* SET of the list of c to new, where only dropping out and adding in was meant:
\* what else it drops or adds is lost or back.
SetList(c, new, out, in, lost) ==
    LET meant == (unread[c] \ out) \cup in IN
        /\ unread' = [unread EXCEPT ![c] = new]
        /\ missed' = [missed EXCEPT ![c] = (@ \ in) \cup (meant \ new) \cup lost]
        /\ lingering' = [lingering EXCEPT ![c] = (@ \ (in \cup out)) \cup (new \ meant)]

\* The query for the administrators: an offset of k takes k of them away, the first
\* ones in whatever order the URL asks for.  If w misses one, it counts as a failure.
Query(w, admins) == IF LeftOut(w, admins) = {} THEN Works ELSE Fails

\* The users have to be marked, if there are any, before the commit.
Marking(users) == IF users = {} THEN "commit" ELSE "mark get"

-----------------------------------------------------------------------------
(* Create, Update and Delete.                                               *)

\* The texts there are and those that are being written.
Texts ==
    Cardinality({t \in Comments \X (1..MaxText) : t[2] <= text[t[1]]})
    + Cardinality({r \in Requests : req[r].kind \in {"create", "edit"}})

\* Mutant of StartCreate: ids are not counted.
StartCreateUncounted(r, w, c) ==
    /\ Texts < MaxText
    /\ c \notin made /\ text[c] = 0
    /\ rowLock[c] = NoRequest
    /\ rowLock' = [rowLock EXCEPT ![c] = r]
    /\ \E admins \in SUBSET Admins : LET users == Found(w, admins) IN
          /\ Query(w, admins)
          /\ Begin(r, Marking(users), "create", w, c, users, LeftOut(w, admins))
    /\ UNCHANGED <<rows, made, redis, shown>>

\* INSERT: the row and its id are there, for nobody else to see.  Then the query.
StartCreate(r, w, c) ==
    /\ c \notin made /\ Texts < MaxText
    /\ made' = made \cup {c}
    /\ rowLock' = [rowLock EXCEPT ![c] = r]
    /\ \E admins \in SUBSET Admins : LET users == Found(w, admins) IN
          /\ Query(w, admins)
          /\ Begin(r, Marking(users), "create", w, c, users, LeftOut(w, admins))
    /\ UNCHANGED <<rows, redis, shown>>

\* An update with or without a new text, or a deletion, has found the comment.
StartChange(r, w, c, kind) ==
    /\ text[c] > 0 /\ c \notin deleted
    /\ kind = "edit" => Texts < MaxText
    /\ Begin(r, "row", kind, w, c, {}, {})
    /\ UNCHANGED <<mysql, redis, shown, failures>>

\* Mutant of Update: an edit leaves the list alone.
UpdateTellsNobody(r) ==
    LET q == req[r] IN
        /\ q.at = "row" /\ rowLock[q.comment] = NoRequest
        /\ rowLock' = [rowLock EXCEPT ![q.comment] = r]
        /\ Goto(r, "commit")
        /\ UNCHANGED <<rows, made, redis, shown, failures>>

\* UPDATE waits for the row and holds it to the end of the transaction.
Update(r) ==
    LET q == req[r] IN
        /\ q.at = "row" /\ rowLock[q.comment] = NoRequest
        /\ rowLock' = [rowLock EXCEPT ![q.comment] = r]
        /\ \/ q.kind # "edit" /\ Works /\ Goto(r, "commit")
           \/ /\ q.kind = "edit"
              /\ \E admins \in SUBSET Admins : LET users == Found(q.by, admins) IN
                    /\ Query(q.by, admins)
                    /\ req' = [req EXCEPT ![r].at = Marking(users), ![r].todo = users,
                                          ![r].left = LeftOut(q.by, admins)]
        /\ UNCHANGED <<rows, made, redis, shown>>

\* AppendUserIdToKeyRedis for one user after another.  A GET that fails is an
\* empty list.
MarkGet(r) ==
    LET q == req[r] IN
        /\ q.at = "mark get"
        /\ \E u \in q.todo, list \in {unread[q.comment], {}} :
              /\ IF list = unread[q.comment] THEN Works ELSE Fails
              /\ req' = [req EXCEPT ![r].at = "mark set", ![r].mark = u,
                                    ![r].todo = @ \ {u}, ![r].list = list]
        /\ UNCHANGED <<mysql, redis, shown>>

\* A SET that fails is ignored, and may have been run.
MarkSet(r) ==
    LET q == req[r] IN
        /\ q.at = "mark set"
        /\ \/ (Works \/ Fails) /\ SetList(q.comment, q.list \cup {q.mark}, {}, {q.mark}, {})
           \/ /\ Fails
              /\ missed' = [missed EXCEPT ![q.comment] = @ \cup {q.mark}]
              /\ UNCHANGED <<unread, lingering>>
        /\ due' = [due EXCEPT ![q.comment][q.mark] = text[q.comment] + 1]
        /\ Goto(r, Marking(q.todo))
        /\ UNCHANGED <<mysql, shown>>

\* The answer of a commit may be lost.
Commit(r) ==
    LET q == req[r] IN
        /\ q.at = "commit"
        /\ Works \/ Fails
        /\ IF q.kind \in {"create", "edit"}
           THEN /\ text' = [text EXCEPT ![q.comment] = @ + 1]
                /\ writer' = [writer EXCEPT ![q.comment] = q.by]
                /\ left' = [left EXCEPT ![q.comment] = q.left]
           ELSE UNCHANGED <<text, writer, left>>
        /\ deleted' = IF q.kind = "delete" THEN deleted \cup {q.comment} ELSE deleted
        /\ Done(r) /\ Unlock(r)
        /\ UNCHANGED <<made, redis, shown>>

\* The UPDATE, the query for the administrators (in an order by a column that users
\* do not have, say) or the commit fails; who was marked stays marked.
Rollback(r) ==
    /\ \/ req[r].at \in {"row", "commit"}
       \/ req[r].at = "mark get" /\ req[r].todo = Audience(req[r].by) \ req[r].left
    /\ Fails
    /\ Done(r) /\ Unlock(r)
    /\ UNCHANGED <<rows, made, redis, shown>>

-----------------------------------------------------------------------------
(* FindByWorkId.                                                            *)

\* A page of the comments.
StartRead(r, u) ==
    /\ req[r].at = "idle"
    /\ \E page \in SUBSET {c \in Comments \ deleted : text[c] > 0} :
          /\ page # {}
          /\ req' = [req EXCEPT ![r] = [Idle EXCEPT !.at = "look", !.kind = "read",
                !.by = u, !.todo = page,
                !.given = [c \in Comments |-> IF c \in page THEN text[c] ELSE 0]]]
    /\ UNCHANGED <<mysql, redis, shown, failures>>

\* r has dealt with the comment it was at.
NextComment(r) ==
    req' = [req EXCEPT ![r].at = IF req[r].todo = {} THEN "answer" ELSE "look",
                       ![r].comment = NoComment, ![r].list = {}]

\* The GET that looks for the reader on the list of the next comment.
Look(r) ==
    LET q == req[r] IN
        /\ q.at = "look"
        /\ \E c \in q.todo :
              \/ /\ Works /\ q.by \in unread[c]
                 /\ req' = [req EXCEPT ![r].at = "clear get", ![r].comment = c,
                                       ![r].todo = @ \ {c}]
                 /\ UNCHANGED redis
              \/ /\ Works /\ q.by \notin unread[c]
                 /\ req' = [req EXCEPT ![r].at = IF q.todo = {c} THEN "answer" ELSE "look",
                                       ![r].todo = @ \ {c}]
                 /\ UNCHANGED redis
              \/ /\ Fails
                 /\ req' = [req EXCEPT ![r].at = IF q.todo = {c} THEN "answer" ELSE "look",
                                       ![r].todo = @ \ {c}]
                 /\ lingering' = [lingering EXCEPT ![c] = @ \cup {q.by}]
                 /\ UNCHANGED <<unread, due, missed>>
        /\ UNCHANGED <<mysql, shown>>

\* RemoveUserIdFromKeyRedis reads the list again; a GET that fails, or an empty
\* list, ends it.
ClearGet(r) ==
    LET q == req[r] IN
        /\ q.at = "clear get"
        /\ \/ /\ Works /\ unread[q.comment] # {}
              /\ req' = [req EXCEPT ![r].at = "clear set", ![r].list = unread[q.comment]]
              /\ UNCHANGED redis
           \/ Works /\ unread[q.comment] = {} /\ NextComment(r) /\ UNCHANGED redis
           \/ /\ Fails /\ NextComment(r)
              /\ lingering' = [lingering EXCEPT ![q.comment] = @ \cup {q.by}]
              /\ UNCHANGED <<unread, due, missed>>
        /\ UNCHANGED <<mysql, shown>>

\* The mark that is cleared was for a newer text than r gives its user.
Overtaken(r) == due[req[r].comment][req[r].by] > req[r].given[req[r].comment]

\* Mutant of ClearSet: the list is written back as it was read.
ClearSetKept(r) ==
    LET q == req[r] IN
        /\ q.at = "clear set"
        /\ Works /\ SetList(q.comment, q.list, {}, {}, {})
        /\ NextComment(r)
        /\ UNCHANGED <<mysql, shown, due>>

ClearSet(r) ==
    LET q == req[r] IN
        /\ q.at = "clear set"
        /\ \/ /\ Works \/ Fails
              /\ SetList(q.comment, q.list \ {q.by}, {q.by}, {},
                         IF Overtaken(r) THEN {q.by} ELSE {})
           \/ /\ Fails
              /\ lingering' = [lingering EXCEPT ![q.comment] = @ \cup {q.by}]
              /\ UNCHANGED <<unread, missed>>
        /\ NextComment(r)
        /\ UNCHANGED <<mysql, shown, due>>

\* The comments whose marks a reader has cleared are missed if it gets no answer.
Unanswered(r, c) == req[r].kind = "read" /\ req[r].given[c] > 0 /\ c \notin req[r].todo

Newer(m, n) == IF m < n THEN n ELSE m

Answer(r) ==
    LET q == req[r] IN
        /\ q.at = "answer"
        /\ \/ /\ Works
              /\ shown' = [c \in Comments |->
                    [shown[c] EXCEPT ![q.by] = Newer(@, q.given[c])]]
              /\ UNCHANGED missed
           \/ /\ Fails
              /\ missed' = [c \in Comments |-> missed[c] \cup
                    (IF Unanswered(r, c) THEN {q.by} ELSE {})]
              /\ UNCHANGED shown
        /\ Done(r)
        /\ UNCHANGED <<mysql, unread, due, lingering>>

\* The server restarts, and MySQL rolls its transactions back.
Crash ==
    /\ Fails
    /\ req' = [r \in Requests |-> Idle]
    /\ rowLock' = [c \in Comments |-> NoRequest]
    /\ missed' = [c \in Comments |-> missed[c] \cup
                    {req[r].by : r \in {q \in Requests : Unanswered(q, c)}}]
    /\ UNCHANGED <<rows, made, unread, due, shown, lingering>>

Serve(r) ==
    \/ \E w \in Users, c \in Comments :
          \/ StartCreate(r, w, c)
          \/ \E kind \in {"edit", "touch", "delete"} : StartChange(r, w, c, kind)
    \/ Update(r) \/ MarkGet(r) \/ MarkSet(r) \/ Commit(r) \/ Rollback(r)
    \/ \E u \in Users : StartRead(r, u)
    \/ Look(r) \/ ClearGet(r) \/ ClearSet(r) \/ Answer(r)

Next == (\E r \in Requests : Serve(r)) \/ Crash

Spec == Init /\ [][Next]_vars

-----------------------------------------------------------------------------
(* Properties.                                                              *)

\* Whoever has to read the text of a comment has been answered with it, is
\* about to be, or has the comment marked unread, but for the administrators whom
\* the offset of its writer's request left out (repository/user.go 116-128) and
\* those in missed: a failed command or answer, two rewrites of the list in one
\* another's way, or a reader who was given an older text and cleared the mark of
\* the new one (comment/service.go 69-72 against 190-209).
UnreadUntilShown ==
    \A c \in Comments \ deleted : text[c] > 0 =>
        \A u \in Audience(writer[c]) \ left[c] :
            \/ shown[c][u] >= text[c]
            \/ u \in unread[c] \cup missed[c]
            \/ \E r \in Requests : req[r].by = u /\ req[r].given[c] = text[c]

\* A comment marked unread for a user holds, or is about to get, a text the
\* user has not been answered with, but for those in lingering: a failed
\* command, or a list that was written back as it was before
\* (general.go 938-964).
UnreadMeansNew ==
    \A c \in Comments : \A u \in unread[c] :
        due[c][u] > shown[c][u] \/ u \in lingering[c]

\* What makes these two inductive.  For each request: what it is like at each of its
\* steps; it holds the row it writes; no reader was given a text that there is not;
\* whom a writer has marked is marked, or missed, for the text that it is about to
\* commit; and a reader has no mark left of what it has been given, but for newer
\* texts and lingering ones.
Shape(q) ==
    /\ q.kind = "read" <=> q.at \in ReadSteps
    /\ q.kind # "read" => q.given = Nothing
    /\ q.at # "idle" => q.by \in Users
    /\ q.at \in WriteSteps => q.comment \in made /\ q.todo \subseteq Users
    /\ q.at = "row" => q.kind # "create"
    /\ q.at \in {"mark get", "mark set"} => q.kind \in {"create", "edit"}
    /\ q.at = "mark set" => q.mark \in Users
    /\ q.at = "commit" /\ q.kind \in {"create", "edit"} => q.todo = {}
    /\ q.at \in ReadSteps => q.todo \subseteq Comments
    /\ q.at \in {"clear get", "clear set"} => q.comment \in Comments \ q.todo
    /\ q.at \in {"look", "answer"} => q.comment = NoComment
    /\ q.at = "clear set" => q.list # {}
    /\ q.at = "answer" => q.todo = {}

HoldsRow(r) ==
    req[r].at \in {"mark get", "mark set", "commit"} => rowLock[req[r].comment] = r

GivenOK(r) == \A c \in Comments : req[r].given[c] <= text[c]

\* Whom r has marked.
Marked(r) ==
    LET q == req[r] IN
        (Audience(q.by) \ q.left) \ (q.todo \cup (IF q.at = "mark set" THEN {q.mark} ELSE {}))

MarksHold(r) ==
    LET q == req[r] IN
        q.at \in {"mark get", "mark set", "commit"} /\ q.kind \in {"create", "edit"} =>
            \A u \in Marked(r) :
                u \in unread[q.comment] \cup missed[q.comment] /\ due[q.comment][u] > text[q.comment]

Cleared(r) ==
    LET q == req[r] IN
        q.kind = "read" =>
            \A c \in Comments \ q.todo :
                q.given[c] > 0 /\ c # q.comment /\ q.by \in unread[c] =>
                    due[c][q.by] > q.given[c] \/ q.by \in lingering[c]

RequestInv(r) == Shape(req[r]) /\ HoldsRow(r) /\ GivenOK(r) /\ MarksHold(r) /\ Cleared(r)

\* Of the comments: an open row has an id; nobody was shown a text that there is not;
\* who has to read a text was once marked for it; and who is neither marked nor has
\* been answered is with a reader that has looked at the comment already.
LockedMade == \A c \in Comments : rowLock[c] # NoRequest => c \in made

ShownOK == \A c \in Comments, u \in Users : shown[c][u] <= text[c]

DueOK ==
    \A c \in Comments : text[c] > 0 =>
        \A u \in Audience(writer[c]) \ left[c] : due[c][u] >= text[c]

HasText(r, c, u) ==
    LET q == req[r] IN q.kind = "read" /\ q.by = u /\ c \notin q.todo /\ q.given[c] = text[c]

NobodyForgotten ==
    \A c \in Comments \ deleted : text[c] > 0 =>
        \A u \in Audience(writer[c]) \ left[c] :
            \/ shown[c][u] >= text[c]
            \/ u \in unread[c] \cup missed[c]
            \/ \E r \in Requests : HasText(r, c, u)

IInv ==
    /\ TypeOK /\ \A r \in Requests : RequestInv(r)
    /\ LockedMade /\ ShownOK /\ DueOK /\ NobodyForgotten /\ UnreadMeansNew

-----------------------------------------------------------------------------
(* What Comments implements.                                                *)

\* The SET that a request is about to run.
MarkChange(q) ==
    IF q.at = "mark set"
    THEN {[op |-> "append", key |-> q.comment, id |-> q.mark, seen |-> q.list]}
    ELSE IF q.at = "clear set"
    THEN {[op |-> "remove", key |-> q.comment, id |-> q.by, seen |-> q.list]}
    ELSE {}

MarkChanges == [r \in Requests |-> MarkChange(req[r])]

L == INSTANCE IdSets WITH
        Keys <- Comments, Ids <- Users, Writers <- Requests,
        listed <- unread, pending <- MarkChanges

\* The unread lists change in no other way than by the GET and SET of the helpers:
\* a request is in one of them at a time and writes to the key it has read
\* (comment/service.go 69-72, 152-157, 192-209, general.go 938-964).
MarksAreSets == L!Spec

\* A row is held by who has written it, to its commit.
HeldByWriter ==
    \A c \in Comments, r \in Requests :
        rowLock[c] = r => req[r].comment = c /\ req[r].at \in {"mark get", "mark set", "commit"}

\* What is stored of a comment, who holds it, and what its holder has written.
StoredComment(c) == [text |-> text[c], writer |-> writer[c], deleted |-> c \in deleted]

WrittenComment(q) ==
    IF q.kind \in {"create", "edit"}
    THEN [StoredComment(q.comment) EXCEPT !.text = @ + 1, !.writer = q.by]
    ELSE [StoredComment(q.comment) EXCEPT !.deleted = q.kind = "delete" \/ @]

StoredComments == [c \in Comments |-> StoredComment(c)]
CommentHolders == [c \in Comments |-> {rowLock[c]} \ {NoRequest}]
PendingComments ==
    [c \in Comments |-> {WrittenComment(req[r]) : r \in {rowLock[c]} \ {NoRequest}}]

CT == INSTANCE Trx WITH
        Rows <- Comments,
        Values <- [text : Nat, writer : Users \cup {NoUser}, deleted : BOOLEAN],
        stored <- StoredComments, holder <- CommentHolders, pending <- PendingComments

\* A text is there for readers all at once and by a commit alone, however many marks
\* its writer sets before: the comments keep to what WithTrx promises
\* (trxmanager.go 23-46, comment/service.go 34-81, 116-232).
CommentTrx == CT!Spec
=============================================================================
