---------------------------- MODULE CommentsProofs ----------------------------
(***************************************************************************)
(* The comments and their unread lists (Comments, RedisLists).  IInv of        *)
(* Comments is inductive, and with it TypeOK, UnreadUntilShown and             *)
(* UnreadMeansNew hold; the strings that RedisLists keeps a list in implement  *)
(* the sets of IdSets.  All this for all sets of users, comments, goroutines   *)
(* and ids and any number of texts, parts and failures.                      *)
(***************************************************************************)
EXTENDS MCComments, WellFoundedInduction, TLAPS

-----------------------------------------------------------------------------
(* What the helpers give.                                                   *)

LEMMA AudienceIsUsers == \A w : Audience(w) \subseteq Users
  BY CommentsAssumption DEF Audience, Found

\* Whom a query finds is the audience without those it leaves out.
LEMMA FoundOrLeftOut ==
    ASSUME NEW w, NEW admins \in SUBSET Admins
    PROVE  /\ Found(w, admins) = Audience(w) \ LeftOut(w, admins)
           /\ Found(w, admins) \in SUBSET Users /\ LeftOut(w, admins) \in SUBSET Users
<1>1. Found(w, admins) \subseteq Audience(w)
  BY DEF Audience, Found
<1> QED BY <1>1, AudienceIsUsers DEF LeftOut

LEMMA QueryWorksOrFails ==
    ASSUME NEW w, NEW admins, Query(w, admins)
    PROVE  Works \/ Fails
  BY DEF Query

LEMMA IdleFields ==
    /\ Idle \in Request /\ Idle.at = "idle" /\ Idle.kind = "none" /\ Idle.given = Nothing
    /\ Idle.todo = {} /\ \A c \in Comments : Idle.given[c] = 0
  BY DEF Idle, Request, Nothing

\* A request that does nothing knows and holds nothing.
LEMMA IdleInv ==
    ASSUME text \in [Comments -> Nat], NEW r \in Requests, req[r] = Idle
    PROVE  RequestInv(r)
  BY IdleFields DEF RequestInv, Shape, HoldsRow, GivenOK, MarksHold, Cleared, ReadSteps, WriteSteps

LEMMA DoneInv ==
    ASSUME text' \in [Comments -> Nat], NEW r \in Requests, req'[r] = Idle
    PROVE  RequestInv(r)'
  BY IdleFields DEF RequestInv, Shape, HoldsRow, GivenOK, MarksHold, Cleared, ReadSteps, WriteSteps

LEMMA FailuresStay ==
    ASSUME TypeOK, Works \/ Fails
    PROVE  failures' \in 0..MaxFailures
<1>1. failures \in 0..MaxFailures /\ MaxFailures \in Nat
  BY CommentsAssumption DEF TypeOK
<1> QED BY <1>1 DEF Works, Fails

LEMMA NothingGiven ==
    ASSUME TypeOK, NEW r \in Requests, text' = text, req'[r].given = Nothing
    PROVE  GivenOK(r)'
<1> SUFFICES ASSUME NEW c \in Comments PROVE req'[r].given[c] <= text[c]
  BY DEF GivenOK
<1>1. Nothing[c] = 0 /\ text[c] \in Nat
  BY DEF Nothing, TypeOK
<1> QED BY <1>1

LEMMA InitIInv == Init => IInv
<1> SUFFICES ASSUME Init PROVE IInv
  OBVIOUS
<1>1. MaxText \in Nat \ {0} /\ MaxFailures \in Nat
  BY CommentsAssumption
<1>2. text \in [Comments -> Nat] /\ \A c \in Comments : text[c] = 0
  BY DEF Init, Nothing
<1>3. TypeOK
  BY <1>1, <1>2, IdleFields DEF Init, TypeOK
<1>4. \A r \in Requests : RequestInv(r)
  BY <1>2, IdleInv DEF Init
<1>5. LockedMade /\ ShownOK /\ DueOK /\ NobodyForgotten /\ UnreadMeansNew
  BY <1>2 DEF Init, LockedMade, ShownOK, DueOK, NobodyForgotten, UnreadMeansNew
<1> QED BY <1>3, <1>4, <1>5 DEF IInv

-----------------------------------------------------------------------------
(* What a step of r may do for the others to keep what they know.  It lets      *)
(* them alone; no id is taken back and no text, and of the rows the others      *)
(* hold nothing changes; marks are only set for texts to come, nor do they go   *)
(* without being missed unless nothing new is told by them; and marks that come *)
(* back are lingering.                                                       *)

OthersStay(r) == \A q \in Requests \ {r} : req'[q] = req[q]

RowsStay(r) ==
    /\ made \subseteq made'
    /\ \A c \in Comments :
          /\ text[c] <= text'[c]
          /\ \A q \in Requests \ {r} :
                rowLock[c] = q => text'[c] = text[c] /\ rowLock'[c] = q

ListsMove ==
    \A c \in Comments, u \in Users :
        /\ due'[c][u] = due[c][u] \/ due'[c][u] > text'[c]
        /\ u \in unread[c] \cup missed[c] /\ due'[c][u] > text'[c] =>
              u \in unread'[c] \cup missed'[c]
        /\ u \in unread'[c] =>
              \/ u \in lingering'[c]
              \/ due'[c][u] > text'[c]
              \/ u \in unread[c] /\ (u \in lingering[c] => u \in lingering'[c])

LEMMA OthersKeep ==
    ASSUME IInv, TypeOK', NEW r \in Requests, OthersStay(r), RowsStay(r), ListsMove
    PROVE  \A q \in Requests \ {r} : RequestInv(q)'
<1> SUFFICES ASSUME NEW q \in Requests \ {r} PROVE RequestInv(q)'
  OBVIOUS
<1>1. req'[q] = req[q] /\ req[q] \in Request /\ RequestInv(q)
  BY DEF IInv, TypeOK, OthersStay
<1>2. Shape(req[q])'
  BY <1>1 DEF RequestInv, Shape, RowsStay
<1>3. HoldsRow(q)'
  <2> SUFFICES ASSUME req[q].at \in {"mark get", "mark set", "commit"}
               PROVE  rowLock'[req[q].comment] = q
    BY <1>1 DEF HoldsRow
  <2>1. req[q].comment \in made /\ made \subseteq Comments
    BY <1>1 DEF RequestInv, Shape, WriteSteps, IInv, TypeOK
  <2> QED BY <1>1, <2>1 DEF RequestInv, HoldsRow, RowsStay
<1>4. GivenOK(q)'
  <2> SUFFICES ASSUME NEW c \in Comments PROVE req[q].given[c] <= text'[c]
    BY <1>1 DEF GivenOK
  <2>1. req[q].given[c] \in Nat /\ text[c] \in Nat /\ text'[c] \in Nat
    BY <1>1 DEF Request, IInv, TypeOK
  <2>2. req[q].given[c] <= text[c] /\ text[c] <= text'[c]
    BY <1>1 DEF RequestInv, GivenOK, RowsStay
  <2> QED BY <2>1, <2>2
<1>5. MarksHold(q)'
  <2> DEFINE k == req[q].comment
  <2> SUFFICES ASSUME req[q].at \in {"mark get", "mark set", "commit"},
                      req[q].kind \in {"create", "edit"}, NEW u \in Marked(q)
               PROVE  u \in unread'[k] \cup missed'[k] /\ due'[k][u] > text'[k]
    BY <1>1 DEF MarksHold, Marked
  <2>1. k \in Comments /\ rowLock[k] = q
    BY <1>1 DEF RequestInv, Shape, HoldsRow, WriteSteps, IInv, TypeOK
  <2>2. u \in Users
    BY AudienceIsUsers DEF Marked
  <2>3. u \in unread[k] \cup missed[k] /\ due[k][u] > text[k]
    BY <1>1 DEF RequestInv, MarksHold
  <2>4. text'[k] = text[k]
    BY <2>1 DEF RowsStay
  <2>5. due'[k][u] = due[k][u] \/ due'[k][u] > text'[k]
    BY <2>1, <2>2 DEF ListsMove
  <2>6. due'[k][u] > text'[k]
    BY <2>3, <2>4, <2>5
  <2>7. u \in unread'[k] \cup missed'[k]
    BY <2>1, <2>2, <2>3, <2>6 DEF ListsMove
  <2> QED BY <2>6, <2>7
<1>6. Cleared(q)'
  <2> DEFINE u == req[q].by
             g == req[q].given
  <2> SUFFICES ASSUME req[q].kind = "read", NEW c \in Comments \ req[q].todo,
                      g[c] > 0, c # req[q].comment, u \in unread'[c]
               PROVE  due'[c][u] > g[c] \/ u \in lingering'[c]
    BY <1>1 DEF Cleared
  <2>1. u \in Users
    BY <1>1 DEF RequestInv, Shape, ReadSteps
  <2>2. /\ text'[c] \in Nat /\ g[c] \in Nat /\ g[c] <= text'[c]
        /\ due[c][u] \in Nat /\ due'[c][u] \in Nat
    BY <1>1, <1>4, <2>1 DEF GivenOK, Request, IInv, TypeOK
  <2>3. u \in unread[c] => due[c][u] > g[c] \/ u \in lingering[c]
    BY <1>1 DEF RequestInv, Cleared
  <2>4. CASE due'[c][u] > text'[c]
    BY <2>2, <2>4
  <2>5. CASE u \in lingering'[c]
    BY <2>5
  <2>6. CASE u \in unread[c] /\ (u \in lingering[c] => u \in lingering'[c])
    BY <2>1, <2>2, <2>3, <2>4, <2>6 DEF ListsMove
  <2> QED BY <2>1, <2>4, <2>5, <2>6 DEF ListsMove
<1> QED BY <1>2, <1>3, <1>4, <1>5, <1>6 DEF RequestInv

\* Marks of readers are new or linger, whatever is done to the lists.
LEMMA UnreadKeeps ==
    ASSUME IInv, TypeOK', ListsMove, shown' = shown, ShownOK'
    PROVE  UnreadMeansNew'
<1> SUFFICES ASSUME NEW c \in Comments, NEW u \in unread'[c]
             PROVE  due'[c][u] > shown[c][u] \/ u \in lingering'[c]
  BY DEF UnreadMeansNew
<1>1. /\ u \in Users /\ text'[c] \in Nat /\ shown[c][u] \in Nat
      /\ due[c][u] \in Nat /\ due'[c][u] \in Nat
  BY DEF IInv, TypeOK
<1>2. shown[c][u] <= text'[c]
  BY <1>1 DEF ShownOK
<1>3. u \in unread[c] => due[c][u] > shown[c][u] \/ u \in lingering[c]
  BY DEF IInv, UnreadMeansNew
<1> QED BY <1>1, <1>2, <1>3 DEF ListsMove

LEMMA DueKeeps ==
    ASSUME IInv, TypeOK', ListsMove, text' = text, writer' = writer, left' = left
    PROVE  DueOK'
<1> SUFFICES ASSUME NEW c \in Comments, text[c] > 0, NEW u \in Audience(writer[c]) \ left[c]
             PROVE  due'[c][u] >= text[c]
  BY DEF DueOK
<1>1. u \in Users
  BY AudienceIsUsers
<1>2. text[c] \in Nat /\ due[c][u] \in Nat /\ due'[c][u] \in Nat /\ text'[c] = text[c]
  BY <1>1 DEF IInv, TypeOK
<1>3. due[c][u] >= text[c]
  BY DEF IInv, DueOK
<1>4. due'[c][u] = due[c][u] \/ due'[c][u] > text'[c]
  BY <1>1 DEF ListsMove
<1> QED BY <1>2, <1>3, <1>4

LEMMA NobodyForgottenKeeps ==
    ASSUME IInv, text' = text, writer' = writer, left' = left,
           deleted \subseteq deleted', shown' = shown,
           \A c \in Comments, u \in Users :
              /\ u \in unread[c] \cup missed[c] /\ text[c] > 0 /\ u \in Audience(writer[c]) \ left[c] =>
                    u \in unread'[c] \cup missed'[c] \/ \E q \in Requests : HasText(q, c, u)'
              /\ \A q \in Requests : HasText(q, c, u) => HasText(q, c, u)'
    PROVE  NobodyForgotten'
<1> SUFFICES ASSUME NEW c \in Comments \ deleted', text[c] > 0, NEW u \in Audience(writer[c]) \ left[c]
             PROVE  \/ shown[c][u] >= text[c]
                    \/ u \in unread'[c] \cup missed'[c]
                    \/ \E r \in Requests : HasText(r, c, u)'
  BY DEF NobodyForgotten
<1>1. u \in Users
  BY AudienceIsUsers
<1>2. \/ shown[c][u] >= text[c]
      \/ u \in unread[c] \cup missed[c]
      \/ \E r \in Requests : HasText(r, c, u)
  BY DEF IInv, NobodyForgotten
<1> QED BY <1>1, <1>2

LEMMA NoRowMoves ==
    ASSUME TypeOK, NEW r \in Requests, text' = text, made' = made, rowLock' = rowLock
    PROVE  RowsStay(r)
<1>1. \A c \in Comments : text[c] \in Nat
  BY DEF TypeOK
<1>2. \A c \in Comments : text[c] <= text'[c]
  BY <1>1
<1> QED BY <1>2 DEF RowsStay

\* A step of r that leaves the texts and what was shown as they are.
LEMMA ListStep ==
    ASSUME IInv, TypeOK', NEW r \in Requests, OthersStay(r), RowsStay(r), ListsMove,
           text' = text, writer' = writer, left' = left, deleted' = deleted,
           shown' = shown,
           \A c \in Comments, u \in Users :
              u \in unread[c] \cup missed[c] /\ text[c] > 0 /\ u \in Audience(writer[c]) \ left[c] =>
                 u \in unread'[c] \cup missed'[c] \/ \E q \in Requests : HasText(q, c, u)',
           req[r].kind = "read" =>
              /\ req'[r].kind = "read" /\ req'[r].by = req[r].by
              /\ req'[r].given = req[r].given /\ req'[r].todo \subseteq req[r].todo,
           LockedMade', RequestInv(r)'
    PROVE  IInv'
<1>1. \A q \in Requests : RequestInv(q)'
  BY OthersKeep
<1>2. ShownOK'
  BY DEF IInv, ShownOK
<1>3. UnreadMeansNew'
  BY <1>2, UnreadKeeps
<1>4. DueOK'
  BY DueKeeps
<1>5. \A c \in Comments, u \in Users, q \in Requests : HasText(q, c, u) => HasText(q, c, u)'
  BY DEF HasText, OthersStay
<1>6. NobodyForgotten'
  BY <1>5, NobodyForgottenKeeps
<1> QED BY <1>1, <1>2, <1>3, <1>4, <1>6 DEF IInv

\* A step of r that leaves the marks as they are, too.
LEMMA QuietStep ==
    ASSUME IInv, TypeOK', NEW r \in Requests, OthersStay(r),
           text' = text, writer' = writer, left' = left, deleted' = deleted,
           shown' = shown,
           unread' = unread, due' = due, missed' = missed, made \subseteq made',
           \A c \in Comments :
              /\ lingering[c] \subseteq lingering'[c]
              /\ \A q \in Requests \ {r} : rowLock[c] = q => rowLock'[c] = q,
           req[r].kind = "read" =>
              /\ req'[r].kind = "read" /\ req'[r].by = req[r].by
              /\ req'[r].given = req[r].given /\ req'[r].todo \subseteq req[r].todo,
           LockedMade', RequestInv(r)'
    PROVE  IInv'
<1>1. RowsStay(r)
  BY DEF RowsStay, IInv, TypeOK
<1>2. ListsMove
  BY DEF ListsMove
<1> QED BY <1>1, <1>2, ListStep

-----------------------------------------------------------------------------
(* Create, Update and Delete.                                               *)

Steps == {"idle"} \cup WriteSteps \cup ReadSteps

LEMMA BeginEffect ==
    ASSUME req \in [Requests -> Request], NEW r \in Requests, NEW step \in Steps,
           NEW kind \in {"create", "edit", "touch", "delete"}, NEW w \in Users,
           NEW c \in Comments, NEW todo, NEW out, todo \subseteq Users, out \subseteq Users,
           Begin(r, step, kind, w, c, todo, out)
    PROVE  /\ req' \in [Requests -> Request] /\ OthersStay(r) /\ req[r].at = "idle"
           /\ req'[r].at = step /\ req'[r].kind = kind /\ req'[r].by = w
           /\ req'[r].comment = c /\ req'[r].todo = todo /\ req'[r].left = out
           /\ req'[r].given = Nothing
<1> DEFINE v == [Idle EXCEPT !.at = step, !.kind = kind, !.by = w, !.comment = c,
                             !.todo = todo, !.left = out]
<1>1. req' = [req EXCEPT ![r] = v] /\ req[r].at = "idle"
  BY DEF Begin
<1>2. /\ v \in Request /\ v.at = step /\ v.kind = kind /\ v.by = w
      /\ v.comment = c /\ v.todo = todo /\ v.left = out /\ v.given = Nothing
  BY IdleFields DEF Idle, Request, Steps, Nothing
<1> HIDE DEF v
<1> QED BY <1>1, <1>2 DEF OthersStay

LEMMA MarkingIsStep ==
    ASSUME NEW users
    PROVE  /\ Marking(users) \in {"mark get", "commit"}
           /\ Marking(users) = "commit" => users = {}
  BY DEF Marking

LEMMA StartCreateKeeps ==
    ASSUME IInv, NEW r \in Requests, NEW w \in Users, NEW c \in Comments, StartCreate(r, w, c)
    PROVE  IInv'
<1>1. TypeOK /\ RequestInv(r) /\ LockedMade
  BY DEF IInv
<1>2. c \notin made /\ made' = made \cup {c} /\ rowLock' = [rowLock EXCEPT ![c] = r]
  BY DEF StartCreate
<1>3. /\ text' = text /\ deleted' = deleted /\ writer' = writer /\ left' = left
      /\ shown' = shown /\ unread' = unread /\ due' = due /\ missed' = missed
      /\ lingering' = lingering
  BY DEF StartCreate, rows, redis
<1>4. /\ failures' \in 0..MaxFailures
      /\ req' \in [Requests -> Request] /\ OthersStay(r) /\ req[r].at = "idle"
      /\ req'[r].at \in {"mark get", "commit"}
      /\ req'[r].at = "commit" => req'[r].todo = {}
      /\ req'[r].kind = "create" /\ req'[r].by = w
      /\ req'[r].comment = c /\ req'[r].given = Nothing
      /\ req'[r].todo \in SUBSET Users /\ req'[r].todo = Audience(w) \ req'[r].left
  <2>1. PICK admins \in SUBSET Admins :
           /\ Query(w, admins)
           /\ Begin(r, Marking(Found(w, admins)), "create", w, c, Found(w, admins),
                     LeftOut(w, admins))
    BY DEF StartCreate
  <2>2. PICK step, users, out :
           step = Marking(users) /\ users = Found(w, admins) /\ out = LeftOut(w, admins)
    OBVIOUS
  <2>3. /\ step \in Steps /\ step \in {"mark get", "commit"} /\ (step = "commit" => users = {})
        /\ users \in SUBSET Users /\ out \in SUBSET Users /\ users = Audience(w) \ out
    BY <2>2, MarkingIsStep, FoundOrLeftOut DEF Steps, WriteSteps
  <2>4. Begin(r, step, "create", w, c, users, out) /\ req \in [Requests -> Request]
    BY <1>1, <2>1, <2>2 DEF TypeOK
  <2>5. /\ req' \in [Requests -> Request] /\ OthersStay(r) /\ req[r].at = "idle"
        /\ req'[r].at = step /\ req'[r].kind = "create" /\ req'[r].by = w
        /\ req'[r].comment = c /\ req'[r].todo = users /\ req'[r].left = out
        /\ req'[r].given = Nothing
    <3>1. step \in Steps /\ users \subseteq Users /\ out \subseteq Users
      BY <2>3
    <3> QED BY <2>4, <3>1, BeginEffect
  <2>6. failures' \in 0..MaxFailures
    BY <1>1, <2>1, QueryWorksOrFails, FailuresStay
  <2> QED BY <2>3, <2>5, <2>6
<1>5. TypeOK'
  BY <1>1, <1>2, <1>3, <1>4 DEF TypeOK
<1>6. rowLock'[c] = r /\ \A d \in Comments \ {c} : rowLock'[d] = rowLock[d]
  BY <1>1, <1>2 DEF TypeOK
<1>7. LockedMade'
  BY <1>1, <1>2, <1>6 DEF LockedMade
<1>8. rowLock[c] = NoRequest
  BY <1>1, <1>2 DEF LockedMade
<1>9. \A d \in Comments, q \in Requests \ {r} : rowLock[d] = q => rowLock'[d] = q
  BY <1>6, <1>8, CommentsAssumption
<1>10. RequestInv(r)'
  <2>1. Shape(req[r])'
    BY <1>2, <1>4, AudienceIsUsers DEF Shape, WriteSteps, ReadSteps
  <2>2. HoldsRow(r)'
    BY <1>4, <1>6 DEF HoldsRow
  <2>3. GivenOK(r)'
    BY <1>1, <1>3, <1>4, NothingGiven
  <2>4. MarksHold(r)' /\ Cleared(r)'
    BY <1>4 DEF MarksHold, Marked, Cleared
  <2> QED BY <2>1, <2>2, <2>3, <2>4 DEF RequestInv
<1>11. req[r].kind # "read"
  BY <1>1, <1>4 DEF RequestInv, Shape, ReadSteps
<1> QED BY <1>2, <1>3, <1>4, <1>5, <1>7, <1>9, <1>10, <1>11, QuietStep

LEMMA StartChangeKeeps ==
    ASSUME IInv, NEW r \in Requests, NEW w \in Users, NEW c \in Comments,
           NEW kind \in {"edit", "touch", "delete"}, StartChange(r, w, c, kind)
    PROVE  IInv'
<1>1. TypeOK /\ RequestInv(r) /\ LockedMade
  BY DEF IInv
<1>2. /\ text' = text /\ made' = made /\ deleted' = deleted /\ rowLock' = rowLock
      /\ writer' = writer /\ left' = left /\ shown' = shown /\ failures' = failures
      /\ unread' = unread /\ due' = due /\ missed' = missed /\ lingering' = lingering
  BY DEF StartChange, mysql, rows, redis
<1>3. c \in made
  BY <1>1 DEF StartChange, TypeOK
<1>4. /\ req' \in [Requests -> Request] /\ OthersStay(r) /\ req[r].at = "idle"
      /\ req'[r].at = "row" /\ req'[r].kind = kind /\ req'[r].by = w
      /\ req'[r].comment = c /\ req'[r].todo = {} /\ req'[r].given = Nothing
  <2>1. "row" \in Steps /\ {} \subseteq Users /\ kind \in {"create", "edit", "touch", "delete"}
    BY DEF Steps, WriteSteps
  <2>2. Begin(r, "row", kind, w, c, {}, {}) /\ req \in [Requests -> Request]
    BY <1>1 DEF StartChange, TypeOK
  <2> QED BY <2>1, <2>2, BeginEffect
<1>5. TypeOK'
  BY <1>1, <1>2, <1>4 DEF TypeOK
<1>6. LockedMade'
  BY <1>1, <1>2 DEF LockedMade
<1>7. RequestInv(r)'
  <2>1. Shape(req[r])'
    BY <1>2, <1>3, <1>4 DEF Shape, WriteSteps, ReadSteps
  <2>2. GivenOK(r)'
    BY <1>1, <1>2, <1>4, NothingGiven
  <2>3. HoldsRow(r)' /\ MarksHold(r)' /\ Cleared(r)'
    BY <1>4 DEF HoldsRow, MarksHold, Cleared
  <2> QED BY <2>1, <2>2, <2>3 DEF RequestInv
<1>8. req[r].kind # "read"
  BY <1>1, <1>4 DEF RequestInv, Shape, ReadSteps
<1> QED BY <1>2, <1>4, <1>5, <1>6, <1>7, <1>8, QuietStep

\* What an update does to its request, whatever the offset.
LEMMA UpdateEffect ==
    ASSUME req \in [Requests -> Request], NEW r \in Requests, Update(r)
    PROVE  /\ \A q \in Requests \ {r} : req'[q] = req[q]
           /\ req'[r].at \in {"mark get", "commit"} /\ req'[r].comment = req[r].comment
<1>1. CASE req' = [req EXCEPT ![r].at = "commit"]
  BY <1>1 DEF Request
<1>2. CASE \E admins \in SUBSET Admins :
              req' = [req EXCEPT ![r].at = Marking(Found(req[r].by, admins)),
                                 ![r].todo = Found(req[r].by, admins),
                                 ![r].left = LeftOut(req[r].by, admins)]
  <2>1. PICK admins : req' = [req EXCEPT ![r].at = Marking(Found(req[r].by, admins)),
                                        ![r].todo = Found(req[r].by, admins),
                                        ![r].left = LeftOut(req[r].by, admins)]
    BY <1>2
  <2>2. PICK step, users, out :
           /\ step = Marking(Found(req[r].by, admins)) /\ users = Found(req[r].by, admins)
           /\ out = LeftOut(req[r].by, admins)
    OBVIOUS
  <2>3. step \in {"mark get", "commit"}
    BY <2>2, MarkingIsStep
  <2>4. req' = [req EXCEPT ![r].at = step, ![r].todo = users, ![r].left = out]
    BY <2>1, <2>2
  <2> QED BY <2>3, <2>4 DEF Request
<1> QED BY <1>1, <1>2 DEF Update, Goto

LEMMA UpdateKeeps ==
    ASSUME IInv, NEW r \in Requests, Update(r)
    PROVE  IInv'
<1> DEFINE q == req[r]
<1>1. TypeOK /\ RequestInv(r) /\ LockedMade /\ q \in Request
  BY DEF IInv, TypeOK
<1>2. /\ text' = text /\ made' = made /\ deleted' = deleted
      /\ writer' = writer /\ left' = left /\ shown' = shown
      /\ unread' = unread /\ due' = due /\ missed' = missed /\ lingering' = lingering
      /\ rowLock[q.comment] = NoRequest /\ rowLock' = [rowLock EXCEPT ![q.comment] = r]
      /\ q.at = "row"
  BY DEF Update, rows, redis
<1>3. q.comment \in made /\ q.comment \in Comments /\ q.by \in Users
      /\ q.kind \notin {"read", "create"} /\ q.given = Nothing
  BY <1>1, <1>2 DEF RequestInv, Shape, WriteSteps, ReadSteps, TypeOK
<1>4. /\ failures' \in 0..MaxFailures
      /\ req' \in [Requests -> Request] /\ OthersStay(r)
      /\ req'[r].kind = q.kind /\ req'[r].by = q.by /\ req'[r].comment = q.comment
      /\ req'[r].given = Nothing /\ req'[r].at \in {"mark get", "commit"}
      /\ req'[r].todo \subseteq Users
      /\ q.kind = "edit" => /\ req'[r].todo = Audience(q.by) \ req'[r].left
                            /\ req'[r].at = "commit" => req'[r].todo = {}
      /\ q.kind # "edit" => req'[r].at = "commit"
  <2>1. CASE q.kind = "edit"
    <3>1. PICK admins \in SUBSET Admins :
             /\ Query(q.by, admins)
             /\ req' = [req EXCEPT ![r].at = Marking(Found(q.by, admins)),
                                   ![r].todo = Found(q.by, admins),
                                   ![r].left = LeftOut(q.by, admins)]
      BY <2>1 DEF Update
    <3>2. PICK step, users, out :
             step = Marking(users) /\ users = Found(q.by, admins) /\ out = LeftOut(q.by, admins)
      OBVIOUS
    <3>3. /\ step \in {"mark get", "commit"} /\ (step = "commit" => users = {})
          /\ users \in SUBSET Users /\ out \in SUBSET Users /\ users = Audience(q.by) \ out
      BY <3>2, MarkingIsStep, FoundOrLeftOut
    <3>4. req' = [req EXCEPT ![r].at = step, ![r].todo = users, ![r].left = out]
      BY <3>1, <3>2
    <3>5. failures' \in 0..MaxFailures
      BY <1>1, <3>1, QueryWorksOrFails, FailuresStay
    <3>6. req \in [Requests -> Request]
      BY <1>1 DEF TypeOK
    <3>7. /\ OthersStay(r)
          /\ req'[r] = [q EXCEPT !.at = step, !.todo = users, !.left = out]
      BY <3>4, <3>6 DEF OthersStay
    <3>8. /\ req'[r] \in Request /\ req'[r].at = step /\ req'[r].todo = users
          /\ req'[r].left = out /\ req'[r].kind = q.kind /\ req'[r].by = q.by
          /\ req'[r].comment = q.comment /\ req'[r].given = q.given
      BY <1>1, <3>3, <3>7 DEF Request, WriteSteps
    <3>9. req' \in [Requests -> Request]
      BY <3>4, <3>6, <3>8
    <3> QED BY <1>3, <2>1, <3>3, <3>5, <3>7, <3>8, <3>9
  <2>2. CASE q.kind # "edit"
    <3>1. req' = [req EXCEPT ![r].at = "commit"] /\ Works
      BY <2>2 DEF Update, Goto
    <3>2. q.todo \subseteq Users
      BY <1>1, <1>2 DEF RequestInv, Shape, WriteSteps
    <3>3. failures' \in 0..MaxFailures
      BY <1>1, <3>1, FailuresStay
    <3> QED BY <1>1, <1>3, <2>2, <3>1, <3>2, <3>3 DEF TypeOK, Request, WriteSteps, OthersStay
  <2> QED BY <2>1, <2>2
<1> HIDE DEF q
<1>5. TypeOK'
  BY <1>1, <1>2, <1>3, <1>4 DEF TypeOK
<1>6. rowLock'[q.comment] = r /\ \A d \in Comments \ {q.comment} : rowLock'[d] = rowLock[d]
  BY <1>1, <1>2, <1>3 DEF TypeOK
<1>7. LockedMade'
  BY <1>1, <1>2, <1>3, <1>6 DEF LockedMade
<1>8. \A d \in Comments, p \in Requests \ {r} : rowLock[d] = p => rowLock'[d] = p
  BY <1>2, <1>6, CommentsAssumption
<1>9. RequestInv(r)'
  <2>1. Shape(req[r])'
    BY <1>2, <1>3, <1>4, AudienceIsUsers DEF Shape, WriteSteps, ReadSteps
  <2>2. HoldsRow(r)'
    BY <1>4, <1>6 DEF HoldsRow
  <2>3. GivenOK(r)'
    BY <1>1, <1>2, <1>4, NothingGiven
  <2>4. MarksHold(r)' /\ Cleared(r)'
    BY <1>3, <1>4 DEF MarksHold, Marked, Cleared
  <2> QED BY <2>1, <2>2, <2>3, <2>4 DEF RequestInv
<1> QED BY <1>2, <1>3, <1>4, <1>5, <1>7, <1>8, <1>9, QuietStep DEF q

LEMMA MarkGetKeeps ==
    ASSUME IInv, NEW r \in Requests, MarkGet(r)
    PROVE  IInv'
<1> DEFINE q == req[r]
<1>1. TypeOK /\ RequestInv(r) /\ LockedMade /\ q \in Request /\ q.at = "mark get"
  BY DEF IInv, TypeOK, MarkGet
<1>2. /\ text' = text /\ made' = made /\ deleted' = deleted /\ rowLock' = rowLock
      /\ writer' = writer /\ left' = left /\ shown' = shown
      /\ unread' = unread /\ due' = due /\ missed' = missed /\ lingering' = lingering
  BY DEF MarkGet, mysql, rows, redis
<1>3. /\ q.comment \in made /\ q.comment \in Comments /\ q.by \in Users
      /\ q.kind \in {"create", "edit"} /\ q.given = Nothing /\ q.todo \subseteq Users
  BY <1>1 DEF RequestInv, Shape, WriteSteps, ReadSteps, TypeOK
<1>4. PICK u \in q.todo, list \in {unread[q.comment], {}} :
        /\ Works \/ Fails
        /\ req' = [req EXCEPT ![r].at = "mark set", ![r].mark = u,
                              ![r].todo = @ \ {u}, ![r].list = list]
  BY DEF MarkGet
<1>5. /\ req' \in [Requests -> Request] /\ OthersStay(r)
      /\ req'[r].at = "mark set" /\ req'[r].kind = q.kind /\ req'[r].by = q.by
      /\ req'[r].comment = q.comment /\ req'[r].given = Nothing
      /\ req'[r].mark = u /\ req'[r].todo = q.todo \ {u} /\ req'[r].left = q.left
  <2>1. list \subseteq Users /\ u \in Users
    BY <1>1, <1>3 DEF TypeOK
  <2> QED BY <1>1, <1>3, <1>4, <2>1 DEF TypeOK, Request, WriteSteps, OthersStay
<1>6. failures' \in 0..MaxFailures
  BY <1>1, <1>4, FailuresStay
<1> HIDE DEF q
<1>7. TypeOK'
  BY <1>1, <1>2, <1>5, <1>6 DEF TypeOK
<1>8. LockedMade'
  BY <1>1, <1>2 DEF LockedMade
<1>9. RequestInv(r)'
  <2>1. Shape(req[r])'
    BY <1>2, <1>3, <1>5 DEF Shape, WriteSteps, ReadSteps
  <2>2. HoldsRow(r)'
    BY <1>1, <1>2, <1>5 DEF RequestInv, HoldsRow, q
  <2>3. GivenOK(r)'
    BY <1>1, <1>2, <1>5, NothingGiven
  <2>4. Marked(r)' = Marked(r)
    BY <1>1, <1>5 DEF Marked, q
  <2>5. MarksHold(r)'
    BY <1>1, <1>2, <1>3, <1>5, <2>4 DEF RequestInv, MarksHold, q
  <2>6. Cleared(r)'
    BY <1>3, <1>5 DEF Cleared
  <2> QED BY <2>1, <2>2, <2>3, <2>5, <2>6 DEF RequestInv
<1> QED BY <1>2, <1>3, <1>5, <1>7, <1>8, <1>9, QuietStep DEF q

LEMMA RollbackKeeps ==
    ASSUME IInv, NEW r \in Requests, Rollback(r)
    PROVE  IInv'
<1>1. TypeOK /\ RequestInv(r) /\ LockedMade /\ req[r].at \in WriteSteps
  BY DEF IInv, Rollback, WriteSteps
<1>2. /\ text' = text /\ made' = made /\ deleted' = deleted
      /\ writer' = writer /\ left' = left /\ shown' = shown
      /\ unread' = unread /\ due' = due /\ missed' = missed /\ lingering' = lingering
  BY DEF Rollback, rows, redis
<1>3. /\ req' = [req EXCEPT ![r] = Idle]
      /\ rowLock' = [c \in Comments |-> IF rowLock[c] = r THEN NoRequest ELSE rowLock[c]]
  BY DEF Rollback, Done, Unlock
<1>4. req' \in [Requests -> Request] /\ req'[r] = Idle /\ OthersStay(r)
  BY <1>1, <1>3, IdleFields DEF TypeOK, OthersStay
<1>5. failures' \in 0..MaxFailures
  BY <1>1, FailuresStay DEF Rollback
<1>6. TypeOK'
  BY <1>1, <1>2, <1>3, <1>4, <1>5 DEF TypeOK
<1>7. LockedMade'
  BY <1>1, <1>2, <1>3 DEF LockedMade
<1>8. RequestInv(r)'
  BY <1>4, <1>6, DoneInv DEF TypeOK
<1>9. req[r].kind # "read"
  BY <1>1 DEF RequestInv, Shape, WriteSteps, ReadSteps
<1> QED BY <1>2, <1>3, <1>4, <1>6, <1>7, <1>8, <1>9, QuietStep

-----------------------------------------------------------------------------
(* FindByWorkId.                                                            *)

LEMMA StartReadKeeps ==
    ASSUME IInv, NEW r \in Requests, NEW u \in Users, StartRead(r, u)
    PROVE  IInv'
<1>1. TypeOK /\ RequestInv(r) /\ LockedMade /\ req[r].at = "idle"
  BY DEF IInv, StartRead
<1>2. /\ text' = text /\ made' = made /\ deleted' = deleted /\ rowLock' = rowLock
      /\ writer' = writer /\ left' = left /\ shown' = shown /\ failures' = failures
      /\ unread' = unread /\ due' = due /\ missed' = missed /\ lingering' = lingering
  BY DEF StartRead, mysql, rows, redis
<1>3. PICK page \in SUBSET Comments :
        req' = [req EXCEPT ![r] = [Idle EXCEPT !.at = "look", !.kind = "read",
                !.by = u, !.todo = page,
                !.given = [c \in Comments |-> IF c \in page THEN text[c] ELSE 0]]]
  BY DEF StartRead
<1>4. /\ req' \in [Requests -> Request] /\ OthersStay(r)
      /\ req'[r].at = "look" /\ req'[r].kind = "read" /\ req'[r].by = u
      /\ req'[r].todo = page /\ req'[r].comment = NoComment
      /\ req'[r].given = [c \in Comments |-> IF c \in page THEN text[c] ELSE 0]
  <2> DEFINE given == [c \in Comments |-> IF c \in page THEN text[c] ELSE 0]
             v == [Idle EXCEPT !.at = "look", !.kind = "read", !.by = u,
                               !.todo = page, !.given = given]
  <2>1. given \in [Comments -> Nat]
    BY <1>1 DEF TypeOK
  <2>2. req' = [req EXCEPT ![r] = v]
    BY <1>3
  <2> HIDE DEF given
  <2>3. /\ v \in Request /\ v.at = "look" /\ v.kind = "read" /\ v.by = u
        /\ v.todo = page /\ v.comment = NoComment /\ v.given = given
    BY <2>1 DEF Idle, Request, ReadSteps, Nothing
  <2> HIDE DEF v
  <2>4. /\ req' \in [Requests -> Request] /\ OthersStay(r) /\ req'[r] = v
    BY <1>1, <2>2, <2>3 DEF TypeOK, OthersStay
  <2> QED BY <2>3, <2>4 DEF given
<1>5. TypeOK'
  BY <1>1, <1>2, <1>4 DEF TypeOK
<1>6. LockedMade'
  BY <1>1, <1>2 DEF LockedMade
<1>7. RequestInv(r)'
  <2>1. Shape(req[r])'
    BY <1>4 DEF Shape, WriteSteps, ReadSteps
  <2>2. GivenOK(r)'
    <3> SUFFICES ASSUME NEW c \in Comments PROVE req'[r].given[c] <= text[c]
      BY <1>2 DEF GivenOK
    <3>1. text[c] \in Nat /\ (req'[r].given[c] = text[c] \/ req'[r].given[c] = 0)
      BY <1>1, <1>4 DEF TypeOK
    <3> QED BY <3>1
  <2>3. Cleared(r)'
    <3>1. \A c \in Comments \ page : req'[r].given[c] = 0
      BY <1>4
    <3> QED BY <1>4, <3>1 DEF Cleared
  <2>4. HoldsRow(r)' /\ MarksHold(r)'
    BY <1>4 DEF HoldsRow, MarksHold
  <2> QED BY <2>1, <2>2, <2>3, <2>4 DEF RequestInv
<1>8. req[r].kind # "read"
  BY <1>1 DEF RequestInv, Shape, ReadSteps
<1> QED BY <1>2, <1>4, <1>5, <1>6, <1>7, <1>8, QuietStep

\* A reader goes on from the comment c.
LEMMA ReaderGoesOn ==
    ASSUME TypeOK, TypeOK', NEW r \in Requests, RequestInv(r), NEW c \in Comments,
           text' = text, req[r].at \in {"look", "clear get", "clear set"},
           req'[r].at \in {"look", "clear get", "clear set", "answer"},
           IF req'[r].at \in {"clear get", "clear set"}
           THEN req'[r].comment = c
           ELSE req'[r].comment = NoComment
                   /\ (req[r].by \in unread'[c] => req[r].by \in lingering'[c]),
           req'[r].kind = "read", req'[r].by = req[r].by, req'[r].given = req[r].given,
           c \notin req'[r].todo, req'[r].at = "answer" => req'[r].todo = {},
           req'[r].at = "clear set" => req'[r].list # {},
           req[r].todo \subseteq req'[r].todo \cup {c}, req'[r].todo \subseteq req[r].todo,
           req[r].comment \in {c, NoComment}, due' = due,
           \A d \in Comments \ {c} : /\ unread'[d] = unread[d]
                                     /\ lingering[d] \subseteq lingering'[d]
    PROVE  RequestInv(r)'
<1>1. req[r] \in Request /\ req[r].by \in Users /\ req[r].todo \subseteq Comments /\ req[r].kind = "read"
  BY DEF RequestInv, Shape, ReadSteps, TypeOK
<1>2. Shape(req[r])'
  BY <1>1 DEF Shape, WriteSteps, ReadSteps
<1>3. HoldsRow(r)' /\ MarksHold(r)'
  BY DEF HoldsRow, MarksHold
<1>4. GivenOK(r)'
  BY DEF RequestInv, GivenOK
<1>5. Cleared(r)'
  <2> SUFFICES ASSUME NEW d \in Comments \ req'[r].todo, req[r].given[d] > 0,
                      d # req'[r].comment, req[r].by \in unread'[d]
               PROVE  due[d][req[r].by] > req[r].given[d] \/ req[r].by \in lingering'[d]
    BY DEF Cleared
  <2>1. CASE d = c
    BY <2>1
  <2>2. CASE d # c
    <3>1. d \notin req[r].todo /\ d # req[r].comment /\ req[r].by \in unread[d]
      BY <2>2, CommentsAssumption
    <3>2. due[d][req[r].by] > req[r].given[d] \/ req[r].by \in lingering[d]
      BY <1>1, <3>1 DEF RequestInv, Cleared
    <3> QED BY <2>2, <3>2
  <2> QED BY <2>1, <2>2
<1> QED BY <1>2, <1>3, <1>4, <1>5 DEF RequestInv

LEMMA LookKeeps ==
    ASSUME IInv, NEW r \in Requests, Look(r)
    PROVE  IInv'
<1> DEFINE q == req[r]
<1>1. TypeOK /\ RequestInv(r) /\ LockedMade /\ q \in Request /\ q.at = "look"
  BY DEF IInv, TypeOK, Look
<1>2. /\ text' = text /\ made' = made /\ deleted' = deleted /\ rowLock' = rowLock
      /\ writer' = writer /\ left' = left /\ shown' = shown
      /\ unread' = unread /\ due' = due /\ missed' = missed
  BY DEF Look, mysql, rows, redis
<1>3. /\ q.kind = "read" /\ q.by \in Users /\ q.todo \subseteq Comments
      /\ q.comment = NoComment
  BY <1>1 DEF RequestInv, Shape, ReadSteps
<1>4. PICK c \in q.todo :
        \/ /\ Works /\ lingering' = lingering
           /\ req' = [req EXCEPT ![r].at = "clear get", ![r].comment = c, ![r].todo = @ \ {c}]
        \/ /\ \/ Works /\ q.by \notin unread[c] /\ lingering' = lingering
              \/ Fails /\ lingering' = [lingering EXCEPT ![c] = @ \cup {q.by}]
           /\ req' = [req EXCEPT ![r].at = IF q.todo = {c} THEN "answer" ELSE "look",
                                 ![r].todo = @ \ {c}]
  BY DEF Look, redis
<1>5. /\ req' \in [Requests -> Request] /\ OthersStay(r)
      /\ req'[r].kind = "read" /\ req'[r].by = q.by /\ req'[r].given = q.given
      /\ req'[r].todo = q.todo \ {c}
      /\ \/ req'[r].at = "clear get" /\ req'[r].comment = c
         \/ req'[r].at \in {"look", "answer"} /\ req'[r].comment = NoComment
      /\ req'[r].at = "answer" => q.todo = {c}
  <2>1. CASE req' = [req EXCEPT ![r].at = "clear get", ![r].comment = c, ![r].todo = @ \ {c}]
    BY <1>1, <1>3, <2>1 DEF TypeOK, Request, ReadSteps, OthersStay
  <2>2. CASE req' = [req EXCEPT ![r].at = IF q.todo = {c} THEN "answer" ELSE "look",
                                ![r].todo = @ \ {c}]
    <3> DEFINE step == IF q.todo = {c} THEN "answer" ELSE "look"
    <3>1. step \in {"look", "answer"} /\ (step = "answer" => q.todo = {c})
      OBVIOUS
    <3>2. req' = [req EXCEPT ![r].at = step, ![r].todo = @ \ {c}]
      BY <2>2
    <3> HIDE DEF step
    <3> QED BY <1>1, <1>3, <3>1, <3>2 DEF TypeOK, Request, ReadSteps, OthersStay
  <2> QED BY <1>4, <2>1, <2>2
<1>6. /\ lingering' \in [Comments -> SUBSET Users]
      /\ \A d \in Comments : lingering[d] \subseteq lingering'[d]
      /\ req'[r].at = "clear get" \/ q.by \notin unread[c] \/ q.by \in lingering'[c]
  <2>1. lingering \in [Comments -> SUBSET Users] /\ c \in Comments
    BY <1>1, <1>3 DEF TypeOK
  <2>2. CASE lingering' = lingering /\ q.by \notin unread[c]
    BY <2>1, <2>2
  <2>3. CASE lingering' = [lingering EXCEPT ![c] = @ \cup {q.by}]
    BY <1>3, <2>1, <2>3
  <2>4. CASE /\ lingering' = lingering
             /\ req' = [req EXCEPT ![r].at = "clear get", ![r].comment = c, ![r].todo = @ \ {c}]
    BY <1>1, <2>1, <2>4 DEF TypeOK, Request
  <2> QED BY <1>4, <2>2, <2>3, <2>4
<1>7. failures' \in 0..MaxFailures
  BY <1>1, <1>4, FailuresStay
<1> HIDE DEF q
<1>8. TypeOK'
  BY <1>1, <1>2, <1>5, <1>6, <1>7 DEF TypeOK
<1>9. LockedMade'
  BY <1>1, <1>2 DEF LockedMade
<1>10. RequestInv(r)'
  <2>1. c \in Comments /\ c # NoComment
    BY <1>3, CommentsAssumption
  <2> QED BY <1>1, <1>2, <1>3, <1>5, <1>6, <1>8, <2>1, ReaderGoesOn DEF q
<1> QED BY <1>2, <1>3, <1>5, <1>6, <1>8, <1>9, <1>10, QuietStep DEF q

\* What NextComment does to the request.
LEMMA NextCommentEffect ==
    ASSUME TypeOK, NEW r \in Requests, RequestInv(r), NextComment(r),
           req[r].at \in {"clear get", "clear set"}
    PROVE  /\ req' \in [Requests -> Request] /\ OthersStay(r)
           /\ req'[r].kind = "read" /\ req'[r].by = req[r].by /\ req'[r].given = req[r].given
           /\ req'[r].todo = req[r].todo /\ req'[r].comment = NoComment
           /\ req'[r].at \in {"look", "answer"}
           /\ req'[r].at = "answer" => req'[r].todo = {}
<1> DEFINE step == IF req[r].todo = {} THEN "answer" ELSE "look"
<1>1. step \in {"look", "answer"} /\ (step = "answer" => req[r].todo = {})
  OBVIOUS
<1>2. req' = [req EXCEPT ![r].at = step, ![r].comment = NoComment, ![r].list = {}]
  BY DEF NextComment
<1>3. req \in [Requests -> Request] /\ req[r] \in Request /\ req[r].kind = "read"
  BY DEF TypeOK, RequestInv, Shape, ReadSteps
<1> HIDE DEF step
<1>4. OthersStay(r)
  BY <1>2, <1>3 DEF OthersStay
<1>5. req'[r] = [req[r] EXCEPT !.at = step, !.comment = NoComment, !.list = {}]
  BY <1>2, <1>3
<1>6. req'[r] \in Request
  BY <1>1, <1>3, <1>5 DEF Request, ReadSteps
<1>7. req' \in [Requests -> Request]
  BY <1>2, <1>3, <1>6
<1>8. /\ req'[r].kind = "read" /\ req'[r].by = req[r].by /\ req'[r].given = req[r].given
      /\ req'[r].todo = req[r].todo /\ req'[r].comment = NoComment /\ req'[r].at = step
  BY <1>3, <1>5 DEF Request
<1> QED BY <1>1, <1>4, <1>7, <1>8

LEMMA ClearGetKeeps ==
    ASSUME IInv, NEW r \in Requests, ClearGet(r)
    PROVE  IInv'
<1> DEFINE q == req[r]
           c == req[r].comment
<1>1. TypeOK /\ RequestInv(r) /\ LockedMade /\ q \in Request /\ q.at = "clear get"
  BY DEF IInv, TypeOK, ClearGet
<1>2. /\ text' = text /\ made' = made /\ deleted' = deleted /\ rowLock' = rowLock
      /\ writer' = writer /\ left' = left /\ shown' = shown
      /\ unread' = unread /\ due' = due /\ missed' = missed
  BY DEF ClearGet, mysql, rows, redis
<1>3. /\ q.kind = "read" /\ q.by \in Users /\ q.todo \subseteq Comments
      /\ c \in Comments \ q.todo
  BY <1>1 DEF RequestInv, Shape, ReadSteps
<1>4. \/ /\ Works /\ unread[c] # {} /\ lingering' = lingering
         /\ req' = [req EXCEPT ![r].at = "clear set", ![r].list = unread[c]]
      \/ /\ \/ Works /\ q.by \notin unread[c] /\ lingering' = lingering
            \/ Fails /\ lingering' = [lingering EXCEPT ![c] = @ \cup {q.by}]
         /\ NextComment(r)
  BY DEF ClearGet, redis
<1>5. /\ req' \in [Requests -> Request] /\ OthersStay(r)
      /\ req'[r].kind = "read" /\ req'[r].by = q.by /\ req'[r].given = q.given
      /\ req'[r].todo = q.todo
      /\ \/ req'[r].at = "clear set" /\ req'[r].comment = c /\ req'[r].list # {}
         \/ req'[r].at \in {"look", "answer"} /\ req'[r].comment = NoComment
      /\ req'[r].at = "answer" => req'[r].todo = {}
  <2>1. CASE unread[c] # {} /\ req' = [req EXCEPT ![r].at = "clear set", ![r].list = unread[c]]
    BY <1>1, <1>3, <2>1 DEF TypeOK, Request, ReadSteps, OthersStay
  <2>2. CASE NextComment(r)
    BY <1>1, <2>2, NextCommentEffect
  <2> QED BY <1>4, <2>1, <2>2
<1>6. /\ lingering' \in [Comments -> SUBSET Users]
      /\ \A d \in Comments : lingering[d] \subseteq lingering'[d]
      /\ req'[r].at = "clear set" \/ q.by \notin unread[c] \/ q.by \in lingering'[c]
  <2>1. lingering \in [Comments -> SUBSET Users]
    BY <1>1 DEF TypeOK
  <2>2. CASE lingering' = lingering /\ q.by \notin unread[c]
    BY <2>1, <2>2
  <2>3. CASE lingering' = [lingering EXCEPT ![c] = @ \cup {q.by}]
    BY <1>3, <2>1, <2>3
  <2>4. CASE /\ lingering' = lingering
             /\ req' = [req EXCEPT ![r].at = "clear set", ![r].list = unread[c]]
    BY <1>1, <2>1, <2>4 DEF TypeOK, Request
  <2> QED BY <1>4, <2>2, <2>3, <2>4
<1>7. failures' \in 0..MaxFailures
  BY <1>1, <1>4, FailuresStay
<1> HIDE DEF q, c
<1>8. TypeOK'
  BY <1>1, <1>2, <1>5, <1>6, <1>7 DEF TypeOK
<1>9. LockedMade'
  BY <1>1, <1>2 DEF LockedMade
<1>10. RequestInv(r)'
  <2>1. c \in Comments /\ c # NoComment /\ q.comment = c
    BY <1>3, CommentsAssumption DEF q, c
  <2> QED BY <1>1, <1>2, <1>3, <1>5, <1>6, <1>8, <2>1, ReaderGoesOn DEF q
<1> QED BY <1>2, <1>3, <1>5, <1>6, <1>8, <1>9, <1>10, QuietStep DEF q

-----------------------------------------------------------------------------
(* The rewrites of the lists.                                               *)

LEMMA MarkListEffect ==
    ASSUME TypeOK, NEW c \in Comments, NEW u \in Users, NEW new \in SUBSET Users, u \in new,
           SetList(c, new, {}, {u}, {})
    PROVE  /\ unread' \in [Comments -> SUBSET Users] /\ missed' \in [Comments -> SUBSET Users]
           /\ lingering' \in [Comments -> SUBSET Users]
           /\ \A d \in Comments : unread[d] \cup missed[d] \subseteq unread'[d] \cup missed'[d]
           /\ u \in unread'[c] \cup missed'[c]
           /\ \A d \in Comments, v \in Users : d # c \/ v # u => (v \in unread'[d] =>
                 \/ v \in lingering'[d]
                 \/ v \in unread[d] /\ (v \in lingering[d] => v \in lingering'[d]))
<1> DEFINE m == (missed[c] \ {u}) \cup (((unread[c] \ {}) \cup {u}) \ new) \cup {}
           l == (lingering[c] \ ({u} \cup {})) \cup (new \ ((unread[c] \ {}) \cup {u}))
<1>1. /\ unread' = [unread EXCEPT ![c] = new] /\ missed' = [missed EXCEPT ![c] = m]
      /\ lingering' = [lingering EXCEPT ![c] = l]
  BY DEF SetList
<1>2. /\ unread \in [Comments -> SUBSET Users] /\ missed \in [Comments -> SUBSET Users]
      /\ lingering \in [Comments -> SUBSET Users]
  BY DEF TypeOK
<1>3. m \in SUBSET Users /\ l \in SUBSET Users
  BY <1>2
<1>4. /\ unread[c] \cup missed[c] \subseteq new \cup m
      /\ \A v \in Users : v # u => (v \in new =>
            v \in l \/ (v \in unread[c] /\ (v \in lingering[c] => v \in l)))
  OBVIOUS
<1> HIDE DEF m, l
<1>5. /\ unread'[c] = new /\ missed'[c] = m /\ lingering'[c] = l
      /\ \A d \in Comments \ {c} : /\ unread'[d] = unread[d] /\ missed'[d] = missed[d]
                                   /\ lingering'[d] = lingering[d]
  BY <1>1, <1>2
<1>6. /\ unread' \in [Comments -> SUBSET Users] /\ missed' \in [Comments -> SUBSET Users]
      /\ lingering' \in [Comments -> SUBSET Users]
  BY <1>1, <1>2, <1>3
<1>7. \A d \in Comments : unread[d] \cup missed[d] \subseteq unread'[d] \cup missed'[d]
  BY <1>4, <1>5
<1>8. \A d \in Comments, v \in Users : d # c \/ v # u => (v \in unread'[d] =>
         \/ v \in lingering'[d]
         \/ v \in unread[d] /\ (v \in lingering[d] => v \in lingering'[d]))
  BY <1>4, <1>5
<1> QED BY <1>5, <1>6, <1>7, <1>8

LEMMA MarkSetKeeps ==
    ASSUME IInv, NEW r \in Requests, MarkSet(r)
    PROVE  IInv'
<1> DEFINE q == req[r]
           c == req[r].comment
           u == req[r].mark
           new == req[r].list \cup {req[r].mark}
<1>1. TypeOK /\ RequestInv(r) /\ LockedMade /\ q \in Request /\ q.at = "mark set"
  BY DEF IInv, TypeOK, MarkSet
<1>2. /\ text' = text /\ made' = made /\ deleted' = deleted /\ rowLock' = rowLock
      /\ writer' = writer /\ left' = left /\ shown' = shown
  BY DEF MarkSet, mysql, rows
<1>3. /\ c \in made /\ c \in Comments /\ q.by \in Users /\ u \in Users
      /\ q.kind \in {"create", "edit"} /\ q.given = Nothing /\ q.todo \subseteq Users
      /\ new \in SUBSET Users
  BY <1>1 DEF RequestInv, Shape, WriteSteps, ReadSteps, TypeOK, Request
<1>4. /\ Works \/ Fails
      /\ \/ SetList(c, new, {}, {u}, {})
         \/ /\ missed' = [missed EXCEPT ![c] = @ \cup {u}]
            /\ unread' = unread /\ lingering' = lingering
      /\ due' = [due EXCEPT ![c][u] = text[c] + 1]
      /\ Goto(r, Marking(q.todo))
  BY DEF MarkSet
<1>5. /\ req' \in [Requests -> Request] /\ OthersStay(r)
      /\ req'[r].at \in {"mark get", "commit"}
      /\ req'[r].at = "commit" => q.todo = {}
      /\ req'[r].kind = q.kind /\ req'[r].by = q.by /\ req'[r].comment = c
      /\ req'[r].todo = q.todo /\ req'[r].left = q.left /\ req'[r].given = Nothing
  <2> DEFINE step == Marking(q.todo)
  <2>1. step \in {"mark get", "commit"} /\ (step = "commit" => q.todo = {})
    BY MarkingIsStep
  <2>2. req' = [req EXCEPT ![r].at = step]
    BY <1>4 DEF Goto
  <2> HIDE DEF step
  <2> QED BY <1>1, <1>3, <2>1, <2>2 DEF TypeOK, Request, WriteSteps, OthersStay
<1>6. failures' \in 0..MaxFailures
  BY <1>1, <1>4, FailuresStay
<1>7. /\ text[c] + 1 \in Nat /\ text[c] + 1 > text[c] /\ text[c] \in Nat
  <2>1. text[c] \in Nat
    BY <1>1, <1>3 DEF TypeOK
  <2> QED BY <2>1
<1>8. /\ due' \in [Comments -> [Users -> Nat]] /\ due'[c][u] = text[c] + 1
      /\ \A d \in Comments, v \in Users : d # c \/ v # u => due'[d][v] = due[d][v]
  <2>1. due \in [Comments -> [Users -> Nat]]
    BY <1>1 DEF TypeOK
  <2> QED BY <1>3, <1>4, <1>7, <2>1
<1> HIDE DEF q, c, u, new
<1>9. /\ unread' \in [Comments -> SUBSET Users] /\ missed' \in [Comments -> SUBSET Users]
      /\ lingering' \in [Comments -> SUBSET Users]
      /\ \A d \in Comments : unread[d] \cup missed[d] \subseteq unread'[d] \cup missed'[d]
      /\ u \in unread'[c] \cup missed'[c]
      /\ \A d \in Comments, v \in Users : d # c \/ v # u => (v \in unread'[d] =>
            \/ v \in lingering'[d]
            \/ v \in unread[d] /\ (v \in lingering[d] => v \in lingering'[d]))
  <2>1. CASE SetList(c, new, {}, {u}, {})
    <3>1. u \in new
      BY DEF u, new
    <3> QED BY <1>1, <1>3, <2>1, <3>1, MarkListEffect
  <2>2. CASE /\ missed' = [missed EXCEPT ![c] = @ \cup {u}]
             /\ unread' = unread /\ lingering' = lingering
    BY <1>1, <1>3, <2>2 DEF TypeOK
  <2> QED BY <1>4, <2>1, <2>2
<1>10. TypeOK'
  BY <1>1, <1>2, <1>5, <1>6, <1>8, <1>9 DEF TypeOK
<1>11. LockedMade'
  BY <1>1, <1>2 DEF LockedMade
<1>12. ListsMove
  <2> SUFFICES ASSUME NEW d \in Comments, NEW v \in Users
               PROVE  /\ due'[d][v] = due[d][v] \/ due'[d][v] > text'[d]
                      /\ v \in unread[d] \cup missed[d] => v \in unread'[d] \cup missed'[d]
                      /\ v \in unread'[d] =>
                            \/ v \in lingering'[d]
                            \/ due'[d][v] > text'[d]
                            \/ v \in unread[d] /\ (v \in lingering[d] => v \in lingering'[d])
    BY DEF ListsMove
  <2>1. CASE d = c /\ v = u
    <3>1. due'[d][v] > text'[d]
      BY <1>2, <1>7, <1>8, <2>1
    <3> QED BY <1>9, <3>1
  <2>2. CASE d # c \/ v # u
    BY <1>8, <1>9, <2>2
  <2> QED BY <2>1, <2>2
<1>13. RowsStay(r)
  BY <1>1, <1>2, NoRowMoves
<1>14. RequestInv(r)'
  <2>1. Shape(req[r])'
    BY <1>2, <1>3, <1>5 DEF Shape, WriteSteps, ReadSteps
  <2>2. HoldsRow(r)'
    BY <1>1, <1>2, <1>5 DEF RequestInv, HoldsRow, q, c
  <2>3. GivenOK(r)'
    BY <1>1, <1>2, <1>5, NothingGiven
  <2>4. MarksHold(r)'
    <3> SUFFICES ASSUME NEW v \in (Audience(q.by) \ q.left) \ q.todo
                 PROVE  v \in unread'[c] \cup missed'[c] /\ due'[c][v] > text[c]
      BY <1>2, <1>5 DEF MarksHold, Marked
    <3>1. v \in Users
      BY AudienceIsUsers
    <3>2. CASE v = u
      BY <1>7, <1>8, <1>9, <3>2
    <3>3. CASE v # u
      <4>1. v \in Marked(r)
        BY <1>1, <3>3 DEF Marked, q, u
      <4>2. v \in unread[c] \cup missed[c] /\ due[c][v] > text[c]
        BY <1>1, <1>3, <4>1 DEF RequestInv, MarksHold, q, c
      <4>3. due'[c][v] = due[c][v]
        BY <1>3, <1>8, <3>1, <3>3
      <4> QED BY <1>3, <1>9, <4>2, <4>3
    <3> QED BY <3>2, <3>3
  <2>5. Cleared(r)'
    BY <1>3, <1>5 DEF Cleared
  <2> QED BY <2>1, <2>2, <2>3, <2>4, <2>5 DEF RequestInv
<1>15. req[r].kind # "read"
  BY <1>3 DEF q
<1> QED BY <1>2, <1>5, <1>9, <1>10, <1>11, <1>12, <1>13, <1>14, <1>15, ListStep

LEMMA ClearListEffect ==
    ASSUME TypeOK, NEW c \in Comments, NEW u \in Users, NEW list \in SUBSET Users,
           NEW lost \in SUBSET Users, SetList(c, list \ {u}, {u}, {}, lost)
    PROVE  /\ unread' \in [Comments -> SUBSET Users] /\ missed' \in [Comments -> SUBSET Users]
           /\ lingering' \in [Comments -> SUBSET Users]
           /\ \A d \in Comments \ {c} : /\ unread'[d] = unread[d] /\ missed'[d] = missed[d]
                                        /\ lingering'[d] = lingering[d]
           /\ u \notin unread'[c]
           /\ u \in missed[c] \cup lost => u \in missed'[c]
           /\ \A v \in Users \ {u} :
                 /\ v \in unread[c] \cup missed[c] => v \in unread'[c] \cup missed'[c]
                 /\ v \in unread'[c] =>
                       \/ v \in lingering'[c]
                       \/ v \in unread[c] /\ (v \in lingering[c] => v \in lingering'[c])
<1> DEFINE new == list \ {u}
           m == (missed[c] \ {}) \cup (((unread[c] \ {u}) \cup {}) \ new) \cup lost
           l == (lingering[c] \ ({} \cup {u})) \cup (new \ ((unread[c] \ {u}) \cup {}))
<1>1. /\ unread' = [unread EXCEPT ![c] = new] /\ missed' = [missed EXCEPT ![c] = m]
      /\ lingering' = [lingering EXCEPT ![c] = l]
  BY DEF SetList
<1>2. /\ unread \in [Comments -> SUBSET Users] /\ missed \in [Comments -> SUBSET Users]
      /\ lingering \in [Comments -> SUBSET Users]
  BY DEF TypeOK
<1>3. new \in SUBSET Users /\ m \in SUBSET Users /\ l \in SUBSET Users
  BY <1>2
<1>4. /\ u \notin new
      /\ u \in missed[c] \cup lost => u \in m
      /\ \A v \in Users \ {u} :
            /\ v \in unread[c] \cup missed[c] => v \in new \cup m
            /\ v \in new => v \in l \/ (v \in unread[c] /\ (v \in lingering[c] => v \in l))
  OBVIOUS
<1> HIDE DEF m, l, new
<1>5. /\ unread'[c] = new /\ missed'[c] = m /\ lingering'[c] = l
      /\ \A d \in Comments \ {c} : /\ unread'[d] = unread[d] /\ missed'[d] = missed[d]
                                   /\ lingering'[d] = lingering[d]
  BY <1>1, <1>2
<1>6. /\ unread' \in [Comments -> SUBSET Users] /\ missed' \in [Comments -> SUBSET Users]
      /\ lingering' \in [Comments -> SUBSET Users]
  BY <1>1, <1>2, <1>3
<1> QED BY <1>4, <1>5, <1>6

\* Either the reader is off the list, missing a newer text if the mark was for one,
\* or it stays on the list and lingers.
LEMMA ClearSetKeeps ==
    ASSUME IInv, NEW r \in Requests, ClearSet(r)
    PROVE  IInv'
<1> DEFINE q == req[r]
           c == req[r].comment
           u == req[r].by
           list == req[r].list
           lost == IF Overtaken(r) THEN {u} ELSE {}
<1>1. TypeOK /\ RequestInv(r) /\ LockedMade /\ q \in Request /\ q.at = "clear set"
  BY DEF IInv, TypeOK, ClearSet
<1>2. /\ text' = text /\ made' = made /\ deleted' = deleted /\ rowLock' = rowLock
      /\ writer' = writer /\ left' = left /\ shown' = shown /\ due' = due
  BY DEF ClearSet, mysql, rows
<1>3. /\ q.kind = "read" /\ u \in Users /\ q.todo \subseteq Comments
      /\ c \in Comments \ q.todo /\ list \in SUBSET Users /\ lost \in SUBSET Users
  BY <1>1 DEF RequestInv, Shape, ReadSteps, Request
<1>4. /\ Works \/ Fails
      /\ \/ SetList(c, list \ {u}, {u}, {}, lost)
         \/ /\ lingering' = [lingering EXCEPT ![c] = @ \cup {u}]
            /\ unread' = unread /\ missed' = missed
      /\ NextComment(r)
  BY DEF ClearSet
<1>5. /\ req' \in [Requests -> Request] /\ OthersStay(r)
      /\ req'[r].kind = "read" /\ req'[r].by = u /\ req'[r].given = q.given
      /\ req'[r].todo = q.todo /\ req'[r].comment = NoComment
      /\ req'[r].at \in {"look", "answer"}
      /\ req'[r].at = "answer" => req'[r].todo = {}
  BY <1>1, <1>4, NextCommentEffect
<1>6. failures' \in 0..MaxFailures
  BY <1>1, <1>4, FailuresStay
<1>7. u \in lost <=> due[c][u] > q.given[c]
  BY DEF Overtaken
<1> HIDE DEF q, c, u, list, lost
<1>8. /\ unread' \in [Comments -> SUBSET Users] /\ missed' \in [Comments -> SUBSET Users]
      /\ lingering' \in [Comments -> SUBSET Users]
      /\ \A d \in Comments \ {c} : /\ unread'[d] = unread[d] /\ missed'[d] = missed[d]
                                   /\ lingering'[d] = lingering[d]
      /\ u \in unread'[c] => u \in lingering'[c]
      /\ u \in unread[c] \cup missed[c] => u \in unread'[c] \cup missed'[c] \/ u \notin lost
      /\ \A v \in Users \ {u} :
            /\ v \in unread[c] \cup missed[c] => v \in unread'[c] \cup missed'[c]
            /\ v \in unread'[c] =>
                  \/ v \in lingering'[c]
                  \/ v \in unread[c] /\ (v \in lingering[c] => v \in lingering'[c])
  <2>1. CASE SetList(c, list \ {u}, {u}, {}, lost)
    BY <1>1, <1>3, <2>1, ClearListEffect
  <2>2. CASE /\ lingering' = [lingering EXCEPT ![c] = @ \cup {u}]
             /\ unread' = unread /\ missed' = missed
    BY <1>1, <1>3, <2>2 DEF TypeOK
  <2> QED BY <1>4, <2>1, <2>2
<1>9. TypeOK'
  BY <1>1, <1>2, <1>5, <1>6, <1>8 DEF TypeOK
<1>10. LockedMade'
  BY <1>1, <1>2 DEF LockedMade
<1>11. /\ text[c] \in Nat /\ due[c][u] \in Nat /\ q.given[c] \in Nat
       /\ q.given[c] <= text[c]
  <2>1. text[c] \in Nat /\ due[c][u] \in Nat
    BY <1>1, <1>3 DEF TypeOK
  <2>2. q.given[c] \in Nat
    BY <1>1, <1>3 DEF Request
  <2>3. q.given[c] <= text[c]
    BY <1>1, <1>3 DEF RequestInv, GivenOK, q
  <2> QED BY <2>1, <2>2, <2>3
<1>12. ListsMove
  <2> SUFFICES ASSUME NEW d \in Comments, NEW v \in Users
               PROVE  /\ v \in unread[d] \cup missed[d] /\ due[d][v] > text[d] =>
                            v \in unread'[d] \cup missed'[d]
                      /\ v \in unread'[d] =>
                            \/ v \in lingering'[d]
                            \/ v \in unread[d] /\ (v \in lingering[d] => v \in lingering'[d])
    BY <1>2 DEF ListsMove
  <2>1. CASE d # c
    BY <1>8, <2>1
  <2>2. CASE d = c /\ v # u
    BY <1>8, <2>2
  <2>3. CASE d = c /\ v = u
    <3>1. due[c][u] > text[c] => u \in lost
      BY <1>7, <1>11
    <3> QED BY <1>8, <2>3, <3>1
  <2> QED BY <2>1, <2>2, <2>3
<1>13. RowsStay(r)
  BY <1>1, <1>2, NoRowMoves
<1>14. RequestInv(r)'
  <2>1. c # NoComment /\ q.comment = c
    BY <1>3, CommentsAssumption DEF q, c
  <2> QED BY <1>1, <1>2, <1>3, <1>5, <1>8, <1>9, <2>1, ReaderGoesOn DEF q, u
<1>15. ASSUME NEW d \in Comments, NEW v \in Users,
              v \in unread[d] \cup missed[d], text[d] > 0, v \in Audience(writer[d]) \ left[d]
       PROVE  v \in unread'[d] \cup missed'[d] \/ \E p \in Requests : HasText(p, d, v)'
  <2>1. CASE d # c \/ v # u
    BY <1>8, <1>15, <2>1
  <2>2. CASE d = c /\ v = u /\ u \in lost
    BY <1>8, <1>15, <2>2
  <2>3. CASE d = c /\ v = u /\ u \notin lost
    <3>1. due[c][u] >= text[c]
      BY <1>3, <1>15, <2>3 DEF IInv, DueOK
    <3>2. q.given[c] = text[c]
      BY <1>7, <1>11, <2>3, <3>1
    <3>3. HasText(r, d, v)'
      BY <1>2, <1>3, <1>5, <2>3, <3>2 DEF HasText
    <3> QED BY <3>3
  <2> QED BY <2>1, <2>2, <2>3
<1> QED BY <1>2, <1>5, <1>9, <1>10, <1>12, <1>13, <1>14, <1>15, ListStep DEF q, u

-----------------------------------------------------------------------------
(* The ends of a request.                                                   *)

\* What commits is a text that its audience has been marked for.
LEMMA CommitKeeps ==
    ASSUME IInv, NEW r \in Requests, Commit(r)
    PROVE  IInv'
<1> DEFINE q == req[r]
           k == req[r].comment
           writes == req[r].kind \in {"create", "edit"}
<1>1. TypeOK /\ RequestInv(r) /\ LockedMade /\ ShownOK /\ q \in Request /\ q.at = "commit"
  BY DEF IInv, TypeOK, Commit
<1>2. /\ made' = made /\ shown' = shown /\ unread' = unread /\ due' = due
      /\ missed' = missed /\ lingering' = lingering
  BY DEF Commit, rows, redis
<1>3. /\ k \in made /\ k \in Comments /\ q.by \in Users /\ q.kind # "read"
      /\ rowLock[k] = r /\ (writes => q.todo = {})
  BY <1>1 DEF RequestInv, Shape, HoldsRow, WriteSteps, ReadSteps, TypeOK
<1>4. /\ Works \/ Fails
      /\ IF writes THEN /\ text' = [text EXCEPT ![k] = @ + 1]
                        /\ writer' = [writer EXCEPT ![k] = q.by]
                        /\ left' = [left EXCEPT ![k] = q.left]
                   ELSE text' = text /\ writer' = writer /\ left' = left
      /\ deleted' = deleted \/ deleted' = deleted \cup {k}
      /\ req' = [req EXCEPT ![r] = Idle]
      /\ rowLock' = [c \in Comments |-> IF rowLock[c] = r THEN NoRequest ELSE rowLock[c]]
  BY DEF Commit, Done, Unlock
<1>5. req' \in [Requests -> Request] /\ req'[r] = Idle /\ OthersStay(r)
  BY <1>1, <1>4, IdleFields DEF TypeOK, OthersStay
<1>6. failures' \in 0..MaxFailures
  BY <1>1, <1>4, FailuresStay
<1> HIDE DEF q, k, writes
<1>7. /\ text' \in [Comments -> Nat] /\ writer' \in [Comments -> Users \cup {NoUser}]
      /\ left' \in [Comments -> SUBSET Users]
      /\ \A c \in Comments : c # k \/ ~writes =>
            text'[c] = text[c] /\ writer'[c] = writer[c] /\ left'[c] = left[c]
      /\ writes => text'[k] = text[k] + 1 /\ writer'[k] = q.by /\ left'[k] = q.left
  <2>1. /\ text \in [Comments -> Nat] /\ writer \in [Comments -> Users \cup {NoUser}]
        /\ left \in [Comments -> SUBSET Users]
        /\ text[k] + 1 \in Nat /\ q.left \in SUBSET Users
    BY <1>1, <1>3 DEF TypeOK, Request
  <2> QED BY <1>3, <1>4, <2>1
<1>8. \A c \in Comments : text[c] \in Nat /\ text[c] <= text'[c]
  <2> SUFFICES ASSUME NEW c \in Comments PROVE text[c] \in Nat /\ text[c] <= text'[c]
    OBVIOUS
  <2>1. text[c] \in Nat /\ (text'[c] = text[c] \/ text'[c] = text[c] + 1)
    BY <1>1, <1>7 DEF TypeOK
  <2> QED BY <2>1
<1>9. TypeOK'
  <2>1. \A c \in Comments \ made : text'[c] = 0
    BY <1>1, <1>3, <1>7 DEF TypeOK
  <2>2. deleted' \in SUBSET made
    BY <1>1, <1>3, <1>4 DEF TypeOK
  <2>3. rowLock' \in [Comments -> Requests \cup {NoRequest}]
    BY <1>1, <1>4 DEF TypeOK
  <2> QED BY <1>1, <1>2, <1>5, <1>6, <1>7, <2>1, <2>2, <2>3 DEF TypeOK
<1>10. LockedMade'
  BY <1>1, <1>2, <1>4 DEF LockedMade
<1>11. RowsStay(r)
  BY <1>2, <1>3, <1>4, <1>7, <1>8 DEF RowsStay
<1>12. ListsMove
  BY <1>2 DEF ListsMove
<1>13. \A p \in Requests : RequestInv(p)'
  BY <1>5, <1>9, <1>11, <1>12, DoneInv, OthersKeep DEF TypeOK
<1>14. ShownOK'
  <2> SUFFICES ASSUME NEW c \in Comments, NEW u \in Users PROVE shown[c][u] <= text'[c]
    BY <1>2 DEF ShownOK
  <2>1. shown[c][u] \in Nat /\ text[c] \in Nat /\ text'[c] \in Nat
    BY <1>1, <1>7 DEF TypeOK
  <2>2. shown[c][u] <= text[c] /\ text[c] <= text'[c]
    BY <1>1, <1>8 DEF ShownOK
  <2> QED BY <2>1, <2>2
<1>15. UnreadMeansNew'
  BY <1>2, <1>9, <1>12, <1>14, UnreadKeeps
<1>16. writes => \A u \in Audience(q.by) \ q.left :
                   u \in unread[k] \cup missed[k] /\ due[k][u] > text[k]
  <2> SUFFICES ASSUME writes, NEW u \in Audience(q.by) \ q.left
               PROVE  u \in unread[k] \cup missed[k] /\ due[k][u] > text[k]
    OBVIOUS
  <2>1. u \in Marked(r)
    BY <1>1, <1>3 DEF Marked, q
  <2> QED BY <1>1, <2>1 DEF RequestInv, MarksHold, writes, q, k
<1>17. DueOK'
  <2> SUFFICES ASSUME NEW c \in Comments, text'[c] > 0, NEW u \in Audience(writer'[c]) \ left'[c]
               PROVE  due[c][u] >= text'[c]
    BY <1>2 DEF DueOK, Audience, Found
  <2>1. u \in Users
    BY AudienceIsUsers
  <2>2. due[c][u] \in Nat /\ text[c] \in Nat
    BY <1>1, <2>1 DEF TypeOK
  <2>3. CASE writes /\ c = k
    BY <1>7, <1>16, <2>2, <2>3
  <2>4. CASE ~writes \/ c # k
    BY <1>7, <2>4 DEF IInv, DueOK
  <2> QED BY <2>3, <2>4
<1>18. NobodyForgotten'
  <2> SUFFICES ASSUME NEW c \in Comments \ deleted', text'[c] > 0, NEW u \in Audience(writer'[c]) \ left'[c]
               PROVE  \/ shown[c][u] >= text'[c]
                      \/ u \in unread[c] \cup missed[c]
                      \/ \E p \in Requests : HasText(p, c, u)'
    BY <1>2 DEF NobodyForgotten, Audience, Found
  <2>1. CASE writes /\ c = k
    BY <1>7, <1>16, <2>1
  <2>2. CASE ~writes \/ c # k
    <3>1. c \in Comments \ deleted /\ text'[c] = text[c] /\ writer'[c] = writer[c]
          /\ left'[c] = left[c]
      BY <1>4, <1>7, <2>2
    <3>2. CASE \E p \in Requests : HasText(p, c, u)
      <4>1. PICK p \in Requests : HasText(p, c, u)
        BY <3>2
      <4>2. p # r
        BY <1>3, <4>1 DEF HasText, q
      <4>3. HasText(p, c, u)'
        BY <1>5, <3>1, <4>1, <4>2 DEF HasText, OthersStay
      <4> QED BY <4>3
    <3> QED BY <3>1, <3>2 DEF IInv, NobodyForgotten
  <2> QED BY <2>1, <2>2
<1> QED BY <1>9, <1>10, <1>13, <1>14, <1>15, <1>17, <1>18 DEF IInv

LEMMA NewerIsOneOf ==
    ASSUME NEW m \in Nat, NEW n \in Nat
    PROVE  /\ Newer(m, n) = m \/ (Newer(m, n) = n /\ m < n)
           /\ Newer(m, n) \in Nat /\ Newer(m, n) >= m /\ Newer(m, n) >= n
  BY DEF Newer

\* The reader has been shown what it was given, or misses it.
LEMMA AnswerKeeps ==
    ASSUME IInv, NEW r \in Requests, Answer(r)
    PROVE  IInv'
<1> DEFINE q == req[r]
           v == req[r].by
           g == req[r].given
<1>1. /\ TypeOK /\ RequestInv(r) /\ LockedMade /\ ShownOK /\ UnreadMeansNew
      /\ q \in Request /\ q.at = "answer"
  BY DEF IInv, TypeOK, Answer
<1>2. /\ text' = text /\ made' = made /\ deleted' = deleted /\ rowLock' = rowLock
      /\ writer' = writer /\ left' = left /\ unread' = unread /\ due' = due /\ lingering' = lingering
  BY DEF Answer, mysql, rows
<1>3. /\ q.kind = "read" /\ v \in Users /\ q.todo = {} /\ q.comment = NoComment
      /\ g \in [Comments -> Nat]
  BY <1>1 DEF RequestInv, Shape, ReadSteps, Request
<1>4. /\ Works \/ Fails
      /\ \/ /\ shown' = [c \in Comments |-> [shown[c] EXCEPT ![v] = Newer(@, g[c])]]
            /\ missed' = missed
         \/ /\ missed' = [c \in Comments |-> missed[c] \cup
                             (IF Unanswered(r, c) THEN {v} ELSE {})]
            /\ shown' = shown
      /\ req' = [req EXCEPT ![r] = Idle]
  BY DEF Answer, Done
<1>5. req' \in [Requests -> Request] /\ req'[r] = Idle /\ OthersStay(r)
  BY <1>1, <1>4, IdleFields DEF TypeOK, OthersStay
<1>6. failures' \in 0..MaxFailures
  BY <1>1, <1>4, FailuresStay
<1>7. \A c \in Comments : text[c] > 0 /\ g[c] = text[c] => Unanswered(r, c)
  BY <1>3 DEF Unanswered
<1> HIDE DEF q, v, g
<1>8. /\ missed' \in [Comments -> SUBSET Users]
      /\ \A c \in Comments : missed[c] \subseteq missed'[c]
  BY <1>1, <1>3, <1>4 DEF TypeOK
<1>9. /\ shown' \in [Comments -> [Users -> Nat]]
      /\ \A c \in Comments, u \in Users :
            \/ shown'[c][u] = shown[c][u]
            \/ u = v /\ shown'[c][u] = g[c] /\ shown[c][u] < g[c]
      /\ \A c \in Comments :
            shown'[c][v] >= g[c] \/ (Unanswered(r, c) => v \in missed'[c])
      /\ \A c \in Comments, u \in Users : shown'[c][u] >= shown[c][u]
  <2>1. shown \in [Comments -> [Users -> Nat]]
    BY <1>1 DEF TypeOK
  <2>2. CASE shown' = [c \in Comments |-> [shown[c] EXCEPT ![v] = Newer(@, g[c])]]
    <3>1. ASSUME NEW c \in Comments
          PROVE  /\ shown'[c] \in [Users -> Nat] /\ shown'[c][v] = Newer(shown[c][v], g[c])
                 /\ \A u \in Users \ {v} : shown'[c][u] = shown[c][u]
      <4>1. shown[c] \in [Users -> Nat] /\ g[c] \in Nat /\ Newer(shown[c][v], g[c]) \in Nat
        BY <1>3, <2>1, NewerIsOneOf
      <4> QED BY <1>3, <2>2, <4>1
    <3>2. ASSUME NEW c \in Comments, NEW u \in Users
          PROVE  /\ \/ shown'[c][u] = shown[c][u]
                    \/ u = v /\ shown'[c][u] = g[c] /\ shown[c][u] < g[c]
                 /\ shown'[c][u] >= shown[c][u]
                 /\ shown'[c][v] >= g[c]
      <4>1. shown[c][u] \in Nat /\ shown[c][v] \in Nat /\ g[c] \in Nat
        BY <1>3, <2>1
      <4>2. /\ Newer(shown[c][v], g[c]) >= shown[c][v] /\ Newer(shown[c][v], g[c]) >= g[c]
            /\ \/ Newer(shown[c][v], g[c]) = shown[c][v]
               \/ Newer(shown[c][v], g[c]) = g[c] /\ shown[c][v] < g[c]
        BY <4>1, NewerIsOneOf
      <4>3. CASE u = v
        BY <3>1, <4>2, <4>3
      <4>4. CASE u # v
        BY <3>1, <4>1, <4>2, <4>4
      <4> QED BY <4>3, <4>4
    <3>3. shown' \in [Comments -> [Users -> Nat]]
      BY <2>2, <3>1
    <3>4. \A c \in Comments, u \in Users :
            \/ shown'[c][u] = shown[c][u]
            \/ u = v /\ shown'[c][u] = g[c] /\ shown[c][u] < g[c]
      BY <3>2
    <3>5. \A c \in Comments :
            shown'[c][v] >= g[c] \/ (Unanswered(r, c) => v \in missed'[c])
      BY <1>3, <3>2
    <3>6. \A c \in Comments, u \in Users : shown'[c][u] >= shown[c][u]
      BY <3>2
    <3> QED BY <3>3, <3>4, <3>5, <3>6
  <2>3. CASE /\ missed' = [c \in Comments |-> missed[c] \cup
                             (IF Unanswered(r, c) THEN {v} ELSE {})]
             /\ shown' = shown
    <3>1. \A c \in Comments, u \in Users : shown[c][u] \in Nat /\ shown[c][u] >= shown[c][u]
      BY <2>1
    <3>2. \A c \in Comments : Unanswered(r, c) => v \in missed'[c]
      BY <2>3
    <3>3. \A c \in Comments, u \in Users :
            \/ shown'[c][u] = shown[c][u]
            \/ u = v /\ shown'[c][u] = g[c] /\ shown[c][u] < g[c]
      BY <2>3
    <3>4. \A c \in Comments :
            shown'[c][v] >= g[c] \/ (Unanswered(r, c) => v \in missed'[c])
      BY <3>2
    <3>5. \A c \in Comments, u \in Users : shown'[c][u] >= shown[c][u]
      BY <2>3, <3>1
    <3> QED BY <2>1, <2>3, <3>3, <3>4, <3>5
  <2> QED BY <1>4, <2>2, <2>3
<1>10. TypeOK'
  BY <1>1, <1>2, <1>5, <1>6, <1>8, <1>9 DEF TypeOK
<1>11. LockedMade'
  BY <1>1, <1>2 DEF LockedMade
<1>12. RowsStay(r)
  BY <1>1, <1>2, NoRowMoves
<1>13. ListsMove
  BY <1>2, <1>8 DEF ListsMove
<1>14. \A p \in Requests : RequestInv(p)'
  BY <1>5, <1>10, <1>12, <1>13, DoneInv, OthersKeep DEF TypeOK
<1>15. ShownOK'
  <2> SUFFICES ASSUME NEW c \in Comments, NEW u \in Users PROVE shown'[c][u] <= text[c]
    BY <1>2 DEF ShownOK
  <2>1. shown[c][u] <= text[c] /\ g[c] <= text[c]
    BY <1>1 DEF ShownOK, RequestInv, GivenOK, g
  <2> QED BY <1>9, <2>1
<1>16. DueOK'
  BY <1>2, <1>10, <1>13, DueKeeps
<1>17. UnreadMeansNew'
  <2> SUFFICES ASSUME NEW c \in Comments, NEW u \in unread[c]
               PROVE  due[c][u] > shown'[c][u] \/ u \in lingering[c]
    BY <1>2 DEF UnreadMeansNew
  <2>1. u \in Users /\ g[c] \in Nat /\ shown[c][u] \in Nat /\ c # NoComment
    BY <1>1, <1>3, CommentsAssumption DEF TypeOK
  <2>2. CASE shown'[c][u] = shown[c][u]
    BY <1>1, <2>2 DEF UnreadMeansNew
  <2>3. CASE u = v /\ shown'[c][u] = g[c] /\ shown[c][u] < g[c]
    <3>1. g[c] > 0
      BY <2>1, <2>3
    <3>2. due[c][u] > g[c] \/ u \in lingering[c]
      BY <1>1, <1>3, <2>1, <2>3, <3>1 DEF RequestInv, Cleared, q, v, g
    <3> QED BY <2>3, <3>2
  <2> QED BY <1>9, <2>1, <2>2, <2>3
<1>18. NobodyForgotten'
  <2> SUFFICES ASSUME NEW c \in Comments \ deleted, text[c] > 0, NEW u \in Audience(writer[c]) \ left[c]
               PROVE  \/ shown'[c][u] >= text[c]
                      \/ u \in unread[c] \cup missed'[c]
                      \/ \E p \in Requests : HasText(p, c, u)'
    BY <1>2 DEF NobodyForgotten, Audience, Found
  <2>1. u \in Users
    BY AudienceIsUsers
  <2>2. shown[c][u] \in Nat /\ shown'[c][u] \in Nat /\ text[c] \in Nat
    BY <1>1, <1>9, <2>1 DEF TypeOK
  <2>3. CASE shown[c][u] >= text[c]
    <3>1. shown'[c][u] >= shown[c][u]
      BY <1>9, <2>1
    <3> QED BY <2>2, <2>3, <3>1
  <2>4. CASE u \in unread[c] \cup missed[c]
    BY <1>8, <2>4
  <2>5. CASE \E p \in Requests : HasText(p, c, u)
    <3>1. PICK p \in Requests : HasText(p, c, u)
      BY <2>5
    <3>2. CASE p = r
      <4>1. u = v /\ g[c] = text[c]
        BY <3>1, <3>2 DEF HasText, v, g
      <4> QED BY <1>7, <1>9, <4>1
    <3>3. CASE p # r
      <4>1. HasText(p, c, u)'
        BY <1>2, <1>5, <3>1, <3>3 DEF HasText, OthersStay
      <4> QED BY <4>1
    <3> QED BY <3>2, <3>3
  <2> QED BY <2>3, <2>4, <2>5 DEF IInv, NobodyForgotten
<1> QED BY <1>10, <1>11, <1>14, <1>15, <1>16, <1>17, <1>18 DEF IInv

LEMMA CrashKeeps ==
    ASSUME IInv, Crash
    PROVE  IInv'
<1>1. TypeOK /\ LockedMade /\ \A r \in Requests : RequestInv(r)
  BY DEF IInv
<1>2. /\ text' = text /\ made' = made /\ deleted' = deleted
      /\ writer' = writer /\ left' = left
      /\ unread' = unread /\ due' = due /\ shown' = shown /\ lingering' = lingering
      /\ req' = [r \in Requests |-> Idle] /\ rowLock' = [c \in Comments |-> NoRequest]
      /\ missed' = [c \in Comments |-> missed[c] \cup
                       {req[r].by : r \in {q \in Requests : Unanswered(q, c)}}]
  BY DEF Crash, rows
<1>3. failures' \in 0..MaxFailures
  BY <1>1, FailuresStay DEF Crash
<1>4. \A r \in Requests, c \in Comments : Unanswered(r, c) => req[r].by \in Users
  BY <1>1 DEF RequestInv, Shape, ReadSteps, Unanswered
<1>5. missed' \in [Comments -> SUBSET Users] /\ \A c \in Comments : missed[c] \subseteq missed'[c]
  BY <1>1, <1>2, <1>4 DEF TypeOK
<1>6. req' \in [Requests -> Request] /\ \A r \in Requests : req'[r] = Idle
  BY <1>2, IdleFields
<1>7. TypeOK'
  BY <1>1, <1>2, <1>3, <1>5, <1>6 DEF TypeOK
<1>8. LockedMade'
  BY <1>2 DEF LockedMade
<1>9. \A r \in Requests : RequestInv(r)'
  BY <1>6, <1>7, DoneInv DEF TypeOK
<1>10. ListsMove
  BY <1>2, <1>5 DEF ListsMove
<1>11. ShownOK'
  BY <1>2 DEF IInv, ShownOK
<1>12. UnreadMeansNew'
  BY <1>2, <1>7, <1>10, <1>11, UnreadKeeps
<1>13. DueOK'
  BY <1>2, <1>7, <1>10, DueKeeps
<1>14. NobodyForgotten'
  <2> SUFFICES ASSUME NEW c \in Comments \ deleted, text[c] > 0, NEW u \in Audience(writer[c]) \ left[c]
               PROVE  shown[c][u] >= text[c] \/ u \in unread[c] \cup missed'[c]
    BY <1>2 DEF NobodyForgotten, Audience, Found
  <2>1. CASE \E r \in Requests : HasText(r, c, u)
    <3>1. PICK r \in Requests : HasText(r, c, u)
      BY <2>1
    <3>2. Unanswered(r, c) /\ req[r].by = u
      BY <3>1 DEF HasText, Unanswered
    <3> QED BY <1>2, <3>2
  <2>2. CASE u \in unread[c] \cup missed[c]
    BY <1>5, <2>2
  <2> QED BY <2>1, <2>2 DEF IInv, NobodyForgotten
<1> QED BY <1>7, <1>8, <1>9, <1>11, <1>12, <1>13, <1>14 DEF IInv

-----------------------------------------------------------------------------
(* The theorems.                                                            *)

LEMMA ServeKeeps ==
    ASSUME IInv, NEW r \in Requests, Serve(r)
    PROVE  IInv'
<1>1. CASE \E w \in Users, c \in Comments : StartCreate(r, w, c)
  BY <1>1, StartCreateKeeps
<1>2. CASE \E w \in Users, c \in Comments, kind \in {"edit", "touch", "delete"} :
              StartChange(r, w, c, kind)
  BY <1>2, StartChangeKeeps
<1>3. CASE Update(r)
  BY <1>3, UpdateKeeps
<1>4. CASE MarkGet(r)
  BY <1>4, MarkGetKeeps
<1>5. CASE MarkSet(r)
  BY <1>5, MarkSetKeeps
<1>6. CASE Commit(r)
  BY <1>6, CommitKeeps
<1>7. CASE Rollback(r)
  BY <1>7, RollbackKeeps
<1>8. CASE \E u \in Users : StartRead(r, u)
  BY <1>8, StartReadKeeps
<1>9. CASE Look(r)
  BY <1>9, LookKeeps
<1>10. CASE ClearGet(r)
  BY <1>10, ClearGetKeeps
<1>11. CASE ClearSet(r)
  BY <1>11, ClearSetKeeps
<1>12. CASE Answer(r)
  BY <1>12, AnswerKeeps
<1> QED BY <1>1, <1>2, <1>3, <1>4, <1>5, <1>6, <1>7, <1>8, <1>9, <1>10, <1>11, <1>12 DEF Serve

LEMMA StutterKeeps ==
    ASSUME IInv, UNCHANGED vars
    PROVE  IInv'
<1>1. /\ text' = text /\ made' = made /\ deleted' = deleted /\ rowLock' = rowLock
      /\ unread' = unread /\ req' = req /\ failures' = failures
      /\ writer' = writer /\ left' = left
      /\ due' = due /\ shown' = shown /\ missed' = missed /\ lingering' = lingering
  BY DEF vars
<1>2. TypeOK' /\ LockedMade' /\ ShownOK' /\ DueOK' /\ UnreadMeansNew'
  BY <1>1 DEF IInv, TypeOK, LockedMade, ShownOK, DueOK, UnreadMeansNew, Audience, Found
<1>3. \A r \in Requests : RequestInv(r)'
  BY <1>1 DEF IInv, RequestInv, Shape, HoldsRow, GivenOK, MarksHold, Marked, Audience, Found, Cleared
<1>4. NobodyForgotten'
  BY <1>1 DEF IInv, NobodyForgotten, HasText, Audience, Found
<1> QED BY <1>2, <1>3, <1>4 DEF IInv

\* IInv is an invariant of the comments and their unread lists
\* (comment/service.go 49-209, general.go 926-964).
THEOREM Invariant == Spec => []IInv
<1>1. IInv /\ [Next]_vars => IInv'
  BY ServeKeeps, CrashKeeps, StutterKeeps DEF Next
<1> QED BY <1>1, InitIInv, PTL DEF Spec

\* The state of the comments has its type.
THEOREM TypeCorrect == Spec => []TypeOK
<1>1. IInv => TypeOK
  BY DEF IInv
<1> QED BY <1>1, Invariant, PTL

\* Whoever has to read a comment has been answered with its text, is about to be, or
\* has it marked unread, but for the administrators whom the offset of its writer's
\* request left out and the users who lost a mark to a failure, to two rewrites in one
\* another's way or to a reader of the older text (repository/user.go 116-128,
\* comment/service.go 69-72, 190-209).
THEOREM NobodyMisses == Spec => []UnreadUntilShown
<1>1. IInv => UnreadUntilShown
  BY DEF IInv, NobodyForgotten, UnreadUntilShown, HasText
<1> QED BY <1>1, Invariant, PTL

\* A mark is for a text its user has not been answered with, but for the marks that a
\* failed command left or a list written back brought back (general.go 938-964).
THEOREM MarksAreNew == Spec => []UnreadMeansNew
<1>1. IInv => UnreadMeansNew
  BY DEF IInv
<1> QED BY <1>1, Invariant, PTL

-----------------------------------------------------------------------------
(* The lists are used as sets.                                              *)

LEMMA UnderWay ==
    ASSUME IInv, NEW r \in Requests
    PROVE  /\ req[r] \in Request
           /\ req[r].at \in WriteSteps \cup {"clear get", "clear set"} => req[r].comment \in Comments
           /\ req[r].at = "mark set" => req[r].mark \in Users
           /\ req[r].at # "idle" => req[r].by \in Users
           /\ req[r].at = "clear set" => req[r].list # {}
<1>1. TypeOK /\ Shape(req[r]) /\ made \subseteq Comments
  BY DEF IInv, RequestInv, TypeOK
<1> QED BY <1>1 DEF TypeOK, Shape

\* A step of r alone that shows in neither the lists nor what r is to write.
LEMMA ListsStay ==
    ASSUME NEW r \in Requests, \A q \in Requests \ {r} : req'[q] = req[q],
           unread' = unread, req[r].at \notin {"mark set", "clear set"},
           req'[r].at \notin {"mark set", "clear set"}
    PROVE  UNCHANGED L!vars
<1>1. \A q \in Requests : MarkChange(req[q])' = MarkChange(req[q])
  BY DEF MarkChange
<1> QED BY <1>1 DEF L!vars, MarkChanges

\* A step of r alone to the SET of change d, or from it on.
LEMMA ChangeBegins ==
    ASSUME NEW r \in Requests, \A q \in Requests \ {r} : req'[q] = req[q],
           NEW d, MarkChange(req'[r]) = {d}
    PROVE  MarkChanges' = [MarkChanges EXCEPT ![r] = {d}] /\ MarkChanges'[r] # {}
<1>1. \A q \in Requests : MarkChange(req[q])' = IF q = r THEN {d} ELSE MarkChange(req[q])
  BY DEF MarkChange
<1>2. MarkChanges' = [q \in Requests |-> MarkChange(req[q])']
  BY DEF MarkChanges
<1> QED BY <1>1, <1>2 DEF MarkChanges

LEMMA ChangeEnds ==
    ASSUME NEW r \in Requests, \A q \in Requests \ {r} : req'[q] = req[q],
           req'[r].at \notin {"mark set", "clear set"}
    PROVE  MarkChanges' = [MarkChanges EXCEPT ![r] = {}]
<1>1. \A q \in Requests : MarkChange(req[q])' = IF q = r THEN {} ELSE MarkChange(req[q])
  BY DEF MarkChange
<1>2. MarkChanges' = [q \in Requests |-> MarkChange(req[q])']
  BY DEF MarkChanges
<1> QED BY <1>1, <1>2 DEF MarkChanges

LEMMA NextCommentSteps ==
    ASSUME req \in [Requests -> Request], NEW r \in Requests, NextComment(r)
    PROVE  /\ \A q \in Requests \ {r} : req'[q] = req[q]
           /\ req'[r].at \notin {"mark set", "clear set"}
  BY DEF NextComment, Request

LEMMA MarkGetIsRead ==
    ASSUME IInv, NEW r \in Requests, MarkGet(r)
    PROVE  L!Next
<1>1. PICK c : c = req[r].comment
  OBVIOUS
<1>2. /\ req \in [Requests -> Request] /\ req[r].at = "mark get" /\ c \in Comments
      /\ req[r].todo \subseteq Users
  <2>1. Shape(req[r]) /\ TypeOK
    BY DEF IInv, RequestInv
  <2> QED BY <1>1, <2>1, UnderWay DEF MarkGet, Shape, WriteSteps, TypeOK
<1>3. PICK u \in req[r].todo, list \in {unread[c], {}} :
          req' = [req EXCEPT ![r].at = "mark set", ![r].mark = u, ![r].todo = @ \ {u},
                             ![r].list = list]
  BY <1>1 DEF MarkGet
<1>4. unread' = unread
  BY DEF MarkGet, redis
<1> DEFINE d == [op |-> "append", key |-> c, id |-> u, seen |-> list]
<1>5. /\ \A q \in Requests \ {r} : req'[q] = req[q]
      /\ MarkChange(req'[r]) = {d} /\ MarkChange(req[r]) = {}
  BY <1>1, <1>2, <1>3 DEF MarkChange, Request
<1>6. MarkChanges' = [MarkChanges EXCEPT ![r] = {d}] /\ MarkChanges'[r] # {}
  BY <1>5, ChangeBegins
<1>7. MarkChanges[r] = {}
  BY <1>5 DEF MarkChanges
<1>8. L!Read(r, "append", c, u)
  BY <1>4, <1>6, <1>7 DEF L!Read
<1> QED BY <1>2, <1>8 DEF L!Next

\* r sets the list of c, or does not, and its change is no longer pending.
LEMMA SetIsWrite ==
    ASSUME NEW r \in Requests, NEW d, d \in MarkChange(req[r]),
           MarkChanges' = [MarkChanges EXCEPT ![r] = {}],
           \/ unread' = unread
           \/ unread' = [unread EXCEPT ![d.key] = L!Result(d)]
    PROVE  L!Next
<1>1. d \in MarkChanges[r]
  BY DEF MarkChanges
<1>2. L!Write(r) \/ L!Forget(r)
  BY <1>1 DEF L!Write, L!Forget
<1> QED BY <1>2 DEF L!Next

LEMMA MarkSetIsWrite ==
    ASSUME IInv, NEW r \in Requests, MarkSet(r)
    PROVE  L!Next
<1> DEFINE q == req[r]
           d == [op |-> "append", key |-> q.comment, id |-> q.mark, seen |-> q.list]
<1>1. req \in [Requests -> Request] /\ q.at = "mark set"
  BY DEF IInv, TypeOK, MarkSet
<1>2. /\ \A p \in Requests \ {r} : req'[p] = req[p]
      /\ req'[r].at \notin {"mark set", "clear set"}
  BY <1>1 DEF MarkSet, Goto, Marking, Request
<1>3. MarkChanges' = [MarkChanges EXCEPT ![r] = {}]
  BY <1>2, ChangeEnds
<1>4. d \in MarkChange(q)
  BY <1>1 DEF MarkChange
<1>5. L!Result(d) = q.list \cup {q.mark}
  BY DEF L!Result
<1>6. unread' = unread \/ unread' = [unread EXCEPT ![q.comment] = q.list \cup {q.mark}]
  BY DEF MarkSet, SetList
<1>7. d.key = q.comment
  OBVIOUS
<1> HIDE DEF d
<1> QED BY <1>3, <1>4, <1>5, <1>6, <1>7, SetIsWrite

LEMMA ClearSetIsWrite ==
    ASSUME IInv, NEW r \in Requests, ClearSet(r)
    PROVE  L!Next
<1> DEFINE q == req[r]
           d == [op |-> "remove", key |-> q.comment, id |-> q.by, seen |-> q.list]
<1>1. req \in [Requests -> Request] /\ q.at = "clear set" /\ q.list # {}
  BY UnderWay DEF IInv, TypeOK, ClearSet
<1>2. NextComment(r)
  BY DEF ClearSet
<1>3. MarkChanges' = [MarkChanges EXCEPT ![r] = {}]
  BY <1>1, <1>2, NextCommentSteps, ChangeEnds
<1>4. d \in MarkChange(q)
  BY <1>1 DEF MarkChange
<1>5. L!Result(d) = q.list \ {q.by}
  BY <1>1 DEF L!Result
<1>6. unread' = unread \/ unread' = [unread EXCEPT ![q.comment] = q.list \ {q.by}]
  BY DEF ClearSet, SetList
<1>7. d.key = q.comment
  OBVIOUS
<1> HIDE DEF d
<1> QED BY <1>3, <1>4, <1>5, <1>6, <1>7, SetIsWrite

LEMMA ClearGetIsRead ==
    ASSUME IInv, NEW r \in Requests, ClearGet(r)
    PROVE  L!Next \/ UNCHANGED L!vars
<1>1. PICK c, u, list : c = req[r].comment /\ u = req[r].by /\ list = unread[c]
  OBVIOUS
<1>2. /\ req \in [Requests -> Request] /\ req[r].at = "clear get" /\ c \in Comments /\ u \in Users
  BY <1>1, UnderWay DEF ClearGet, IInv, TypeOK
<1>3. unread' = unread
  BY DEF ClearGet, redis
<1>4. CASE req' = [req EXCEPT ![r].at = "clear set", ![r].list = list]
  <2> DEFINE d == [op |-> "remove", key |-> c, id |-> u, seen |-> list]
  <2>1. /\ \A q \in Requests \ {r} : req'[q] = req[q]
        /\ MarkChange(req'[r]) = {d} /\ MarkChange(req[r]) = {}
    BY <1>1, <1>2, <1>4 DEF MarkChange, Request
  <2>2. MarkChanges' = [MarkChanges EXCEPT ![r] = {d}] /\ MarkChanges'[r] # {}
    BY <2>1, ChangeBegins
  <2>3. MarkChanges[r] = {}
    BY <2>1 DEF MarkChanges
  <2>4. L!Read(r, "remove", c, u)
    BY <1>1, <1>3, <2>2, <2>3 DEF L!Read
  <2> QED BY <1>2, <2>4 DEF L!Next
<1>5. CASE NextComment(r)
  BY <1>2, <1>3, <1>5, NextCommentSteps, ListsStay
<1> QED BY <1>1, <1>4, <1>5 DEF ClearGet

LEMMA ServeUsesLists ==
    ASSUME IInv, NEW r \in Requests, Serve(r)
    PROVE  L!Next \/ UNCHANGED L!vars
<1>1. req \in [Requests -> Request]
  BY DEF IInv, TypeOK
<1>2. CASE \E w \in Users, c \in Comments :
              \/ StartCreate(r, w, c)
              \/ \E kind \in {"edit", "touch", "delete"} : StartChange(r, w, c, kind)
  <2>1. unread' = unread /\ req[r].at = "idle"
    BY <1>2 DEF StartCreate, StartChange, Begin, redis
  <2>2. \A q \in Requests \ {r} : req'[q] = req[q]
    BY <1>1, <1>2 DEF StartCreate, StartChange, Begin
  <2>3. req'[r].at \in {"mark get", "commit", "row"}
    <3>1. PICK w \in Users, step \in {"mark get", "commit", "row"} :
             \E kind, c, todo, out : Begin(r, step, kind, w, c, todo, out)
      BY <1>2 DEF StartCreate, StartChange, Marking
    <3> QED BY <1>1, <3>1 DEF Begin, Idle
  <2> QED BY <2>1, <2>2, <2>3, ListsStay
<1>3. CASE \E u \in Users : StartRead(r, u)
  <2>1. unread' = unread /\ req[r].at = "idle"
    BY <1>3 DEF StartRead, redis
  <2>2. (\A q \in Requests \ {r} : req'[q] = req[q]) /\ req'[r].at = "look"
    BY <1>1, <1>3 DEF StartRead, Idle
  <2> QED BY <2>1, <2>2, ListsStay
<1>4. CASE Update(r)
  <2>1. /\ unread' = unread /\ req[r].at = "row" /\ \A q \in Requests \ {r} : req'[q] = req[q]
        /\ req'[r].at \in {"mark get", "commit"}
    BY <1>1, <1>4, UpdateEffect DEF Update, redis
  <2> QED BY <2>1, ListsStay
<1>5. CASE MarkGet(r) \/ MarkSet(r)
  BY <1>5, MarkGetIsRead, MarkSetIsWrite
<1>6. CASE Commit(r) \/ Rollback(r) \/ Answer(r)
  <2>1. unread' = unread /\ req[r].at \in {"row", "mark get", "commit", "answer"} /\ Done(r)
    BY <1>6 DEF Commit, Rollback, Answer, redis
  <2>2. (\A q \in Requests \ {r} : req'[q] = req[q]) /\ req'[r].at = "idle"
    BY <1>1, <2>1 DEF Done, Idle
  <2> QED BY <2>1, <2>2, ListsStay
<1>7. CASE Look(r)
  <2>1. unread' = unread /\ req[r].at = "look"
    BY <1>7 DEF Look, redis
  <2>2. PICK c \in req[r].todo :
          \/ req' = [req EXCEPT ![r].at = "clear get", ![r].comment = c, ![r].todo = @ \ {c}]
          \/ req' = [req EXCEPT ![r].at = IF req[r].todo = {c} THEN "answer" ELSE "look",
                                ![r].todo = @ \ {c}]
    BY <1>7 DEF Look
  <2>3. /\ \A q \in Requests \ {r} : req'[q] = req[q]
        /\ req'[r].at \in {"clear get", "answer", "look"}
    BY <1>1, <2>2 DEF Request
  <2> QED BY <2>1, <2>3, ListsStay
<1>8. CASE ClearGet(r) \/ ClearSet(r)
  BY <1>8, ClearGetIsRead, ClearSetIsWrite
<1> QED BY <1>2, <1>3, <1>4, <1>5, <1>6, <1>7, <1>8 DEF Serve

\* The requests use the unread lists as sets that they read and write back, each in
\* one helper at a time, on the key that this helper has read
\* (comment/service.go 69-72, 124-138, 192-217).
THEOREM MarksImplementIdSets == Spec => MarksAreSets
<1>1. Init => L!Init
  <2> SUFFICES ASSUME Init PROVE L!Init
    OBVIOUS
  <2>1. \A r \in Requests : MarkChange(req[r]) = {}
    BY DEF Init, Idle, MarkChange
  <2> QED BY <2>1 DEF Init, L!Init, MarkChanges
<1>2. IInv /\ [Next]_vars => [L!Next]_L!vars
  <2> SUFFICES ASSUME IInv, [Next]_vars PROVE L!Next \/ UNCHANGED L!vars
    OBVIOUS
  <2>1. CASE \E r \in Requests : Serve(r)
    BY <2>1, ServeUsesLists
  <2>2. CASE Crash
    <3>1. \A r \in Requests : MarkChange(req'[r]) = {}
      BY <2>2 DEF Crash, Idle, MarkChange
    <3>2. MarkChanges' = [r \in Requests |-> {}] /\ unread' = unread
      BY <2>2, <3>1 DEF Crash, MarkChanges, MarkChange
    <3> QED BY <3>2 DEF L!Next, L!Restart
  <2>3. CASE UNCHANGED vars
    BY <2>3 DEF vars, L!vars, MarkChanges, MarkChange
  <2> QED BY <2>1, <2>2, <2>3 DEF Next
<1> QED BY <1>1, <1>2, Invariant, PTL DEF Spec, MarksAreSets, L!Spec

-----------------------------------------------------------------------------
(* The writers of the comments implement Trx.                               *)

\* What the mapping depends on: the rows, their locks, and the requests that hold
\* one.
RowHolder(q) == q.at \in {"mark get", "mark set", "commit"}
SameWrite(q, p) == q.kind = p.kind /\ q.by = p.by /\ q.comment = p.comment

LEMMA LockedByHolder ==
    ASSUME IInv, HeldByWriter, NEW c \in Comments, NEW r \in Requests
    PROVE  rowLock[c] = r <=> req[r].comment = c /\ RowHolder(req[r])
  BY DEF IInv, RequestInv, HoldsRow, HeldByWriter, RowHolder

LEMMA HolderInRequests ==
    ASSUME IInv, NEW c \in Comments
    PROVE  {rowLock[c]} \ {NoRequest} \subseteq Requests
  BY DEF IInv, TypeOK

LEMMA WrittenAreComments ==
    ASSUME IInv, NEW r \in Requests, RowHolder(req[r])
    PROVE  /\ req[r].comment \in Comments
           /\ WrittenComment(req[r]) \in
                 [text : Nat, writer : Users \cup {NoUser}, deleted : BOOLEAN]
<1>1. TypeOK /\ Shape(req[r])
  BY DEF IInv, RequestInv
<1>2. req[r].comment \in Comments /\ req[r].by \in Users
  BY <1>1 DEF Shape, RowHolder, WriteSteps, TypeOK
<1>3. text[req[r].comment] \in Nat /\ writer[req[r].comment] \in Users \cup {NoUser}
  BY <1>1, <1>2 DEF TypeOK
<1>4. CASE req[r].kind \in {"create", "edit"}
  <2>1. WrittenComment(req[r]) = [text |-> text[req[r].comment] + 1, writer |-> req[r].by,
                                  deleted |-> req[r].comment \in deleted]
    BY <1>4 DEF WrittenComment, StoredComment
  <2> QED BY <1>2, <1>3, <2>1
<1>5. CASE req[r].kind \notin {"create", "edit"}
  <2>1. WrittenComment(req[r]) =
          [text |-> text[req[r].comment], writer |-> writer[req[r].comment],
           deleted |-> req[r].kind = "delete" \/ req[r].comment \in deleted]
    BY <1>5 DEF WrittenComment, StoredComment
  <2> QED BY <1>2, <1>3, <2>1
<1> QED BY <1>4, <1>5

\* Steps of requests that leave the rows and their locks alone.
LEMMA RowsStand ==
    ASSUME IInv, HeldByWriter, UNCHANGED <<text, deleted, writer, rowLock>>,
           \A r \in Requests :
              RowHolder(req[r]) => RowHolder(req'[r]) /\ SameWrite(req'[r], req[r])
    PROVE  HeldByWriter' /\ UNCHANGED <<StoredComments, CommentHolders, PendingComments>>
<1>1. HeldByWriter'
  BY DEF HeldByWriter, RowHolder, SameWrite
<1>2. UNCHANGED <<StoredComments, CommentHolders>>
  BY DEF StoredComments, StoredComment, CommentHolders
<1>3. \A c \in Comments : \A r \in {rowLock[c]} \ {NoRequest} :
          WrittenComment(req[r])' = WrittenComment(req[r])
  <2> SUFFICES ASSUME NEW c \in Comments, NEW r \in {rowLock[c]} \ {NoRequest}
               PROVE  WrittenComment(req[r])' = WrittenComment(req[r])
    OBVIOUS
  <2>1. r \in Requests /\ RowHolder(req[r])
    BY HolderInRequests, LockedByHolder
  <2> QED BY <2>1 DEF SameWrite, WrittenComment, StoredComment
<1>4. UNCHANGED PendingComments
  BY <1>3 DEF PendingComments
<1> QED BY <1>1, <1>2, <1>4

\* A step of one request that does not hold its row.
LEMMA BeforeTheRow ==
    ASSUME IInv, HeldByWriter, NEW r \in Requests, ~ RowHolder(req[r]),
           UNCHANGED <<text, deleted, writer, rowLock>>,
           \A q \in Requests \ {r} : req'[q] = req[q]
    PROVE  HeldByWriter' /\ UNCHANGED <<StoredComments, CommentHolders, PendingComments>>
  BY RowsStand DEF SameWrite

\* r writes the row c, which is free.
LEMMA TakesRow ==
    ASSUME IInv, IInv', HeldByWriter, NEW r \in Requests, NEW c \in Comments,
           rowLock[c] = NoRequest, rowLock' = [rowLock EXCEPT ![c] = r],
           ~ RowHolder(req[r]), RowHolder(req'[r]), req'[r].comment = c,
           \A q \in Requests \ {r} : req'[q] = req[q],
           UNCHANGED <<text, deleted, writer>>
    PROVE  HeldByWriter' /\ CT!Write(r, c)
<1>1. /\ DOMAIN rowLock = Comments /\ rowLock'[c] = r /\ r # NoRequest
      /\ \A x \in Comments \ {c} : rowLock'[x] = rowLock[x]
  BY CommentsAssumption DEF IInv, TypeOK
<1>2. HeldByWriter'
  <2> SUFFICES ASSUME NEW x \in Comments, NEW q \in Requests, rowLock'[x] = q
               PROVE  req'[q].comment = x /\ RowHolder(req'[q])
    BY DEF HeldByWriter, RowHolder
  <2>1. CASE x = c
    BY <1>1, <2>1
  <2>2. CASE x # c
    <3>1. rowLock[x] = q
      BY <1>1, <2>2
    <3>2. req[q].comment = x /\ RowHolder(req[q])
      BY <3>1, LockedByHolder
    <3> QED BY <3>2
  <2> QED BY <2>1, <2>2
<1>3. ASSUME NEW x \in Comments \ {c}, NEW q \in {rowLock[x]} \ {NoRequest}
      PROVE  WrittenComment(req[q])' = WrittenComment(req[q])
  <2>1. q \in Requests /\ q # r
    BY HolderInRequests, LockedByHolder
  <2> QED BY <2>1 DEF WrittenComment, StoredComment
<1> DEFINE w == WrittenComment(req[r])'
           P(x) == {WrittenComment(req[q]) : q \in {rowLock[x]} \ {NoRequest}}
<1>4. w \in [text : Nat, writer : Users \cup {NoUser}, deleted : BOOLEAN]
  <2>1. (IInv /\ RowHolder(req[r]) => WrittenComment(req[r]) \in
            [text : Nat, writer : Users \cup {NoUser}, deleted : BOOLEAN])'
    BY WrittenAreComments, PTL
  <2> QED BY <2>1 DEF RowHolder
<1>5. P(c)' = {w}
  BY <1>1
<1>6. ASSUME NEW x \in Comments \ {c} PROVE P(x)' = P(x)
  BY <1>1, <1>3
<1>7. PendingComments = [x \in Comments |-> P(x)] /\ PendingComments' = [x \in Comments |-> P(x)']
  BY DEF PendingComments
<1> HIDE DEF P, w
<1>8. PendingComments' = [PendingComments EXCEPT ![c] = {w}]
  BY <1>5, <1>6, <1>7
<1>9. CommentHolders[c] \subseteq {r} /\ CommentHolders' = [CommentHolders EXCEPT ![c] = {r}]
  <2>1. /\ CommentHolders = [x \in Comments |-> {rowLock[x]} \ {NoRequest}]
        /\ CommentHolders' = [x \in Comments |-> {rowLock'[x]} \ {NoRequest}]
    BY DEF CommentHolders
  <2>2. {rowLock'[c]} \ {NoRequest} = {r} /\ {rowLock[c]} \ {NoRequest} = {}
    BY <1>1
  <2> QED BY <1>1, <2>1, <2>2
<1>10. UNCHANGED StoredComments
  BY DEF StoredComments, StoredComment
<1> QED BY <1>2, <1>4, <1>8, <1>9, <1>10 DEF CT!Write

\* The transactions of rs are over.
LEMMA EndsAreRelease ==
    ASSUME IInv, HeldByWriter, NEW rs \in SUBSET Requests, NEW xs \in SUBSET Comments,
           \A c \in Comments : c \in xs <=> rowLock[c] \in rs,
           rowLock' = [c \in Comments |-> IF rowLock[c] \in rs THEN NoRequest ELSE rowLock[c]],
           \A q \in Requests \ rs : req'[q] = req[q],
           \A c \in Comments \ xs : StoredComment(c)' = StoredComment(c)
    PROVE  HeldByWriter' /\ CT!Release(xs)
<1>1. HeldByWriter'
  BY CommentsAssumption DEF HeldByWriter
<1>2. CommentHolders' = [c \in Comments |-> IF c \in xs THEN {} ELSE CommentHolders[c]]
  BY DEF CommentHolders
<1>3. ASSUME NEW c \in Comments \ xs, NEW r \in {rowLock[c]} \ {NoRequest}
      PROVE  WrittenComment(req[r])' = WrittenComment(req[r])
  <2>1. r \in Requests \ rs /\ req[r].comment = c
    BY HolderInRequests, LockedByHolder
  <2> QED BY <2>1 DEF WrittenComment
<1> DEFINE P(c) == {WrittenComment(req[r]) : r \in {rowLock[c]} \ {NoRequest}}
<1>4. \A c \in Comments \ xs : P(c)' = P(c)
  <2> SUFFICES ASSUME NEW c \in Comments \ xs PROVE P(c)' = P(c)
    OBVIOUS
  <2>1. rowLock'[c] = rowLock[c]
    OBVIOUS
  <2> QED BY <1>3, <2>1
<1>5. \A c \in xs : P(c)' = {}
  OBVIOUS
<1>6. PendingComments = [c \in Comments |-> P(c)] /\ PendingComments' = [c \in Comments |-> P(c)']
  BY DEF PendingComments
<1> HIDE DEF P
<1>7. PendingComments' = [c \in Comments |-> IF c \in xs THEN {} ELSE PendingComments[c]]
  BY <1>4, <1>5, <1>6
<1> QED BY <1>1, <1>2, <1>7 DEF CT!Release

\* The rows of a request that has written one.
LEMMA MineIsTheComment ==
    ASSUME IInv, HeldByWriter, NEW r \in Requests, RowHolder(req[r])
    PROVE  /\ req[r].comment \in Comments /\ CT!Mine(r) = {req[r].comment}
           /\ \A c \in Comments : c \in {req[r].comment} <=> rowLock[c] \in {r}
<1>1. req[r].comment \in Comments
  BY WrittenAreComments
<1>2. \A c \in Comments : rowLock[c] = r <=> req[r].comment = c
  BY LockedByHolder
<1>3. \A c \in Comments : CommentHolders[c] = {r} <=> rowLock[c] = r
  BY CommentsAssumption DEF CommentHolders
<1> QED BY <1>1, <1>2, <1>3 DEF CT!Mine

LEMMA RollbackIsRollback ==
    ASSUME IInv, HeldByWriter, NEW r \in Requests, Rollback(r)
    PROVE  /\ HeldByWriter'
           /\ CT!Rollback(r) \/ UNCHANGED <<StoredComments, CommentHolders, PendingComments>>
<1>1. /\ \A q \in Requests \ {r} : req'[q] = req[q]
      /\ rowLock' = [c \in Comments |-> IF rowLock[c] \in {r} THEN NoRequest ELSE rowLock[c]]
      /\ UNCHANGED <<text, deleted, writer>>
  BY DEF Rollback, rows, Done, Unlock, IInv, TypeOK
<1>2. CASE RowHolder(req[r])
  <2> DEFINE xs == {req[r].comment}
  <2>1. /\ xs \in SUBSET Comments /\ CT!Mine(r) = xs /\ xs # {}
        /\ \A c \in Comments : c \in xs <=> rowLock[c] \in {r}
    BY <1>2, MineIsTheComment
  <2> HIDE DEF xs
  <2>2. HeldByWriter' /\ CT!Release(xs)
    BY <1>1, <2>1, EndsAreRelease DEF StoredComment
  <2>3. UNCHANGED StoredComments
    BY <1>1 DEF StoredComments, StoredComment
  <2> QED BY <2>1, <2>2, <2>3 DEF CT!Rollback
<1>3. CASE ~ RowHolder(req[r])
  <2>1. \A c \in Comments : rowLock[c] # r
    BY <1>3, LockedByHolder
  <2>2. rowLock' = rowLock
    BY <1>1, <2>1 DEF IInv, TypeOK
  <2> QED BY <1>1, <1>3, <2>2, BeforeTheRow
<1> QED BY <1>2, <1>3

LEMMA CommitIsCommit ==
    ASSUME IInv, HeldByWriter, NEW r \in Requests, Commit(r)
    PROVE  HeldByWriter' /\ CT!Commit(r)
<1>0. PICK c, w : c = req[r].comment /\ w = WrittenComment(req[r])
  OBVIOUS
<1>1. TypeOK /\ RowHolder(req[r])
  BY DEF IInv, Commit, RowHolder
<1>2. /\ {c} \in SUBSET Comments /\ CT!Mine(r) = {c}
      /\ \A x \in Comments : x \in {c} <=> rowLock[x] \in {r}
  BY <1>0, <1>1, MineIsTheComment
<1>3. /\ rowLock' = [x \in Comments |-> IF rowLock[x] \in {r} THEN NoRequest ELSE rowLock[x]]
      /\ \A q \in Requests \ {r} : req'[q] = req[q]
      /\ IF req[r].kind \in {"create", "edit"}
         THEN /\ text' = [text EXCEPT ![c] = @ + 1]
              /\ writer' = [writer EXCEPT ![c] = req[r].by]
         ELSE UNCHANGED <<text, writer>>
      /\ deleted' = IF req[r].kind = "delete" THEN deleted \cup {c} ELSE deleted
  BY <1>0, <1>1 DEF Commit, rows, Done, Unlock, TypeOK
<1>4. \A x \in Comments \ {c} : StoredComment(x)' = StoredComment(x)
  BY <1>1, <1>3 DEF TypeOK, StoredComment
<1>5. HeldByWriter' /\ CT!Release({c})
  BY <1>2, <1>3, <1>4, EndsAreRelease
<1>6. PendingComments[c] = {w}
  <2>1. rowLock[c] = r /\ r # NoRequest
    BY <1>2, CommentsAssumption
  <2> QED BY <1>0, <1>2, <2>1 DEF PendingComments
<1>7. StoredComment(c)' = w
  <2>1. StoredComment(c)' = [text |-> text'[c], writer |-> writer'[c], deleted |-> c \in deleted']
    BY DEF StoredComment
  <2>2. CASE req[r].kind \in {"create", "edit"}
    <3>1. text'[c] = text[c] + 1 /\ writer'[c] = req[r].by /\ deleted' = deleted
      BY <1>1, <1>2, <1>3, <2>2 DEF TypeOK
    <3>2. w = [text |-> text[c] + 1, writer |-> req[r].by, deleted |-> c \in deleted]
      BY <1>0, <2>2 DEF WrittenComment, StoredComment
    <3> QED BY <2>1, <3>1, <3>2
  <2>3. CASE req[r].kind \notin {"create", "edit"}
    <3>1. /\ text' = text /\ writer' = writer
          /\ c \in deleted' <=> req[r].kind = "delete" \/ c \in deleted
      BY <1>3, <2>3
    <3>2. w = [text |-> text[c], writer |-> writer[c],
               deleted |-> req[r].kind = "delete" \/ c \in deleted]
      BY <1>0, <2>3 DEF WrittenComment, StoredComment
    <3> QED BY <2>1, <3>1, <3>2
  <2> QED BY <2>2, <2>3
<1>8. /\ StoredComments = [x \in Comments |-> StoredComment(x)]
      /\ StoredComments' = [x \in Comments |-> StoredComment(x)']
  BY DEF StoredComments
<1>9. StoredComments' = [x \in Comments |-> IF x \in {c} THEN CHOOSE v \in PendingComments[x] : TRUE
                                           ELSE StoredComments[x]]
  <2>1. (CHOOSE v \in PendingComments[c] : TRUE) = w
    BY <1>6
  <2> QED BY <1>2, <1>4, <1>7, <1>8, <2>1
<1> QED BY <1>2, <1>5, <1>9 DEF CT!Commit

LEMMA CrashIsRestart ==
    ASSUME IInv, Crash
    PROVE  HeldByWriter' /\ CT!Restart
<1>1. rowLock' = [c \in Comments |-> NoRequest] /\ UNCHANGED <<text, deleted, writer>>
  BY DEF Crash, rows
<1>2. HeldByWriter'
  BY <1>1, CommentsAssumption DEF HeldByWriter
<1>3. /\ CommentHolders' = [c \in Comments |-> IF c \in Comments THEN {} ELSE CommentHolders[c]]
      /\ PendingComments' = [c \in Comments |-> IF c \in Comments THEN {} ELSE PendingComments[c]]
      /\ UNCHANGED StoredComments
  BY <1>1 DEF CommentHolders, PendingComments, StoredComments, StoredComment
<1> QED BY <1>2, <1>3 DEF CT!Restart, CT!Release

LEMMA ServeIsTrx ==
    ASSUME IInv, IInv', HeldByWriter, NEW r \in Requests, Serve(r)
    PROVE  /\ HeldByWriter'
           /\ CT!Next \/ UNCHANGED <<StoredComments, CommentHolders, PendingComments>>
<1>1. TypeOK /\ req \in [Requests -> Request] /\ Shape(req[r])
  BY DEF IInv, RequestInv, TypeOK
<1>2. CASE \E w \in Users, c \in Comments : StartCreate(r, w, c)
  <2>1. PICK w \in Users, c \in Comments : StartCreate(r, w, c)
    BY <1>2
  <2>2. /\ rowLock[c] = NoRequest /\ rowLock' = [rowLock EXCEPT ![c] = r]
        /\ UNCHANGED <<text, deleted, writer>>
    BY <2>1 DEF StartCreate, rows, IInv, LockedMade
  <2>3. /\ ~ RowHolder(req[r]) /\ RowHolder(req'[r]) /\ req'[r].comment = c
        /\ \A q \in Requests \ {r} : req'[q] = req[q]
    BY <1>1, <2>1, MarkingIsStep DEF StartCreate, Begin, Idle, RowHolder, Marking
  <2> QED BY <2>2, <2>3, TakesRow DEF CT!Next
<1>3. CASE \E w \in Users, c \in Comments :
              \E kind \in {"edit", "touch", "delete"} : StartChange(r, w, c, kind)
  <2>1. /\ ~ RowHolder(req[r]) /\ UNCHANGED <<text, deleted, writer, rowLock>>
        /\ \A q \in Requests \ {r} : req'[q] = req[q]
    BY <1>1, <1>3 DEF StartChange, Begin, RowHolder, mysql, rows
  <2> QED BY <2>1, BeforeTheRow
<1>4. CASE Update(r)
  <2>1. PICK c \in Comments : c = req[r].comment
    BY <1>1, <1>4 DEF Update, Shape, WriteSteps, TypeOK
  <2>2. /\ rowLock[c] = NoRequest /\ rowLock' = [rowLock EXCEPT ![c] = r]
        /\ UNCHANGED <<text, deleted, writer>>
    BY <1>4, <2>1 DEF Update, rows
  <2>3. /\ ~ RowHolder(req[r]) /\ RowHolder(req'[r]) /\ req'[r].comment = c
        /\ \A q \in Requests \ {r} : req'[q] = req[q]
    BY <1>1, <1>4, <2>1, UpdateEffect DEF Update, RowHolder
  <2> QED BY <2>2, <2>3, TakesRow DEF CT!Next
<1>5. CASE MarkGet(r) \/ MarkSet(r)
  <2>1. UNCHANGED <<text, deleted, writer, rowLock>>
    BY <1>5 DEF MarkGet, MarkSet, mysql, rows
  <2>2. /\ \A q \in Requests \ {r} : req'[q] = req[q]
        /\ SameWrite(req'[r], req[r]) /\ RowHolder(req'[r])
    <3>1. CASE MarkGet(r)
      <4>1. PICK u, list : req' = [req EXCEPT ![r].at = "mark set", ![r].mark = u,
                                             ![r].todo = @ \ {u}, ![r].list = list]
        BY <3>1 DEF MarkGet
      <4> QED BY <1>1, <4>1 DEF SameWrite, RowHolder, Request
    <3>2. CASE MarkSet(r)
      <4>1. PICK step \in {"commit", "mark get"} : req' = [req EXCEPT ![r].at = step]
        BY <3>2 DEF MarkSet, Goto, Marking
      <4> QED BY <1>1, <4>1 DEF SameWrite, RowHolder, Request
    <3> QED BY <1>5, <3>1, <3>2
  <2>3. \A q \in Requests : RowHolder(req[q]) => RowHolder(req'[q]) /\ SameWrite(req'[q], req[q])
    BY <2>2 DEF SameWrite
  <2> QED BY <2>1, <2>3, RowsStand
<1>6. CASE Commit(r)
  BY <1>6, CommitIsCommit DEF CT!Next
<1>7. CASE Rollback(r)
  BY <1>7, RollbackIsRollback DEF CT!Next
<1>8. CASE (\E u \in Users : StartRead(r, u)) \/ Look(r) \/ ClearGet(r) \/ ClearSet(r) \/ Answer(r)
  <2>1. ~ RowHolder(req[r]) /\ UNCHANGED <<text, deleted, writer, rowLock>>
    BY <1>8 DEF StartRead, Look, ClearGet, ClearSet, Answer, RowHolder, mysql, rows
  <2>2. \A q \in Requests \ {r} : req'[q] = req[q]
    BY <1>1, <1>8 DEF StartRead, Look, ClearGet, ClearSet, Answer, NextComment, Done
  <2> QED BY <2>1, <2>2, BeforeTheRow
<1> QED BY <1>2, <1>3, <1>4, <1>5, <1>6, <1>7, <1>8 DEF Serve

LEMMA StepsAreTrx ==
    IInv /\ IInv' /\ HeldByWriter /\ [Next]_vars => HeldByWriter' /\ [CT!Next]_CT!vars
<1> SUFFICES ASSUME IInv, IInv', HeldByWriter, [Next]_vars
             PROVE  /\ HeldByWriter'
                    /\ CT!Next \/ UNCHANGED <<StoredComments, CommentHolders, PendingComments>>
  BY DEF CT!vars
<1>1. CASE \E r \in Requests : Serve(r)
  BY <1>1, ServeIsTrx
<1>2. CASE Crash
  BY <1>2, CrashIsRestart DEF CT!Next
<1>3. CASE UNCHANGED vars
  BY <1>3, RowsStand DEF vars, SameWrite
<1> QED BY <1>1, <1>2, <1>3 DEF Next

\* A text is stored by its writer's commit alone, all at once, and while it is being
\* written nobody else writes to the comment: Create, Update and Delete keep to what
\* WithTrx promises, whatever the marks they set before (comment/service.go 34-81,
\* 116-232, trxmanager.go 23-46).
THEOREM CommentsImplementTrx == Spec => CommentTrx
<1>1. Init => HeldByWriter /\ CT!Init
  <2> SUFFICES ASSUME Init PROVE HeldByWriter /\ CT!Init
    OBVIOUS
  <2>1. HeldByWriter
    BY CommentsAssumption DEF Init, HeldByWriter
  <2>2. /\ CommentHolders = [c \in Comments |-> {}]
        /\ PendingComments = [c \in Comments |-> {}]
    BY DEF Init, CommentHolders, PendingComments
  <2>3. StoredComments \in
           [Comments -> [text : Nat, writer : Users \cup {NoUser}, deleted : BOOLEAN]]
    BY DEF Init, Nothing, StoredComments, StoredComment
  <2> QED BY <2>1, <2>2, <2>3 DEF CT!Init
<1> QED BY <1>1, StepsAreTrx, Invariant, PTL DEF Spec, CommentTrx, CT!Spec

-----------------------------------------------------------------------------
(* RedisLists: what the helpers make of a string.                            *)

\* What a set of numbers has that has 0, and n + 1 with n.
LEMMA AllNumbers ==
    ASSUME NEW A, 0 \in A, \A n \in Nat : n \in A => n + 1 \in A
    PROVE  Nat \subseteq A
<1> DEFINE R == OpToRel(<, Nat)
<1> SUFFICES ASSUME Nat \ A # {} PROVE FALSE
  OBVIOUS
<1>1. IsWellFoundedOn(R, Nat)
  BY NatLessThanWellFounded
<1> HIDE DEF R
<1>2. PICK n \in Nat \ A : \A m \in Nat \ A : ~ (<<m, n>> \in R)
  <2>1. Nat \ A \subseteq Nat
    OBVIOUS
  <2> QED BY <1>1, <2>1, WFMin, Zenon
<1>3. n # 0 /\ n - 1 \in Nat /\ n - 1 < n
  BY <1>2
<1>4. <<n - 1, n>> \in R
  BY <1>2, <1>3 DEF R, OpToRel
<1>5. n - 1 \in A
  BY <1>2, <1>3, <1>4
<1>6. n - 1 + 1 = n
  BY <1>2
<1> QED BY <1>2, <1>3, <1>5, <1>6

\* One pass of the loop that removes an id.
KeepStep(f, val, id, n) ==
    IF n = 0 THEN <<>> ELSE IF val[n] \in {id, Blank} THEN f[n - 1] ELSE Append(f[n - 1], val[n])

LEMMA LoopIsDefined ==
    ASSUME NEW val, NEW id, NEW m \in Nat
    PROVE  \E f : f = [n \in 0..m |-> KeepStep(f, val, id, n)]
<1> DEFINE A == {k \in Nat : \E f : f = [n \in 0..k |-> KeepStep(f, val, id, n)]}
<1>1. 0 \in A
  <2> DEFINE f == [n \in 0..0 |-> <<>>]
  <2>1. f = [n \in 0..0 |-> KeepStep(f, val, id, n)]
    BY DEF KeepStep
  <2>2. \E e : e = [n \in 0..0 |-> KeepStep(e, val, id, n)]
    <3> HIDE DEF f
    <3> QED BY <2>1
  <2> QED BY <2>2
<1>2. ASSUME NEW k \in Nat, k \in A PROVE k + 1 \in A
  <2>1. PICK f : f = [n \in 0..k |-> KeepStep(f, val, id, n)]
    BY <1>2
  <2> DEFINE h == [n \in 0..(k + 1) |-> KeepStep(f, val, id, n)]
  <2>2. ASSUME NEW n \in 0..k PROVE h[n] = f[n]
    <3>1. f[n] = KeepStep(f, val, id, n)
      BY <2>1, Zenon
    <3>2. n \in 0..(k + 1)
      OBVIOUS
    <3> QED BY <3>1, <3>2
  <2>3. ASSUME NEW n \in 0..(k + 1) PROVE KeepStep(h, val, id, n) = KeepStep(f, val, id, n)
    <3>1. n = 0 \/ n - 1 \in 0..k
      OBVIOUS
    <3>2. n = 0 \/ h[n - 1] = f[n - 1]
      BY <2>2, <3>1
    <3> HIDE DEF h
    <3> QED BY <3>2 DEF KeepStep
  <2>4. h = [n \in 0..(k + 1) |-> KeepStep(h, val, id, n)]
    BY <2>3
  <2>5. \E e : e = [n \in 0..(k + 1) |-> KeepStep(e, val, id, n)]
    <3> HIDE DEF h
    <3> QED BY <2>4
  <2> QED BY <2>5
<1> HIDE DEF A
<1>3. m \in A
  BY <1>1, <1>2, AllNumbers
<1> QED BY <1>3 DEF A

LEMMA RemovedLoops ==
    ASSUME NEW val, Len(val) \in Nat, NEW id
    PROVE  \E f : /\ f = [n \in 0..Len(val) |-> KeepStep(f, val, id, n)]
                  /\ Removed(val, id) = Join(f[Len(val)])
<1> DEFINE kept == CHOOSE f : f = [n \in 0..Len(val) |-> KeepStep(f, val, id, n)]
<1>1. Removed(val, id) = Join(kept[Len(val)])
  BY DEF Removed, KeepStep
<1>2. kept = [n \in 0..Len(val) |-> KeepStep(kept, val, id, n)]
  <2>1. \E f : f = [n \in 0..Len(val) |-> KeepStep(f, val, id, n)]
    BY LoopIsDefined
  <2> QED BY <2>1, Zenon
<1> QED BY <1>1, <1>2, Zenon

LEMMA SeqElements ==
    ASSUME NEW T, NEW s \in Seq(T)
    PROVE  DOMAIN s = 1..Len(s) /\ Len(s) \in Nat /\ \A i \in DOMAIN s : s[i] \in T
OBVIOUS

LEMMA AppendElements ==
    ASSUME NEW T, NEW s \in Seq(T), NEW x \in T
    PROVE  Append(s, x) \in Seq(T) /\ Append(s, x) # <<>> /\ ToSet(Append(s, x)) = ToSet(s) \cup {x}
<1>1. /\ Append(s, x) \in Seq(T) /\ Len(Append(s, x)) = Len(s) + 1 /\ Len(s) \in Nat
      /\ DOMAIN s = 1..Len(s) /\ DOMAIN Append(s, x) = 1..(Len(s) + 1)
      /\ \A i \in 1..Len(s) : Append(s, x)[i] = s[i]
      /\ Append(s, x)[Len(s) + 1] = x
  OBVIOUS
<1>2. 1..(Len(s) + 1) = 1..Len(s) \cup {Len(s) + 1}
  BY <1>1
<1>3. ToSet(Append(s, x)) = ToSet(s) \cup {x}
  BY <1>1, <1>2 DEF ToSet
<1> QED BY <1>1, <1>3

\* The loop keeps the parts that are neither blank nor the id.
LEMMA RemovedKeeps ==
    ASSUME NEW val \in Strings, Blank \notin ToSet(val), NEW id
    PROVE  \E parts \in Seq(Ids \cup {Blank}) :
              ToSet(parts) = ToSet(val) \ {id} /\ Removed(val, id) = Join(parts)
<1> DEFINE T == Ids \cup {Blank}
<1>1. /\ val \in Seq(T) /\ DOMAIN val = 1..Len(val) /\ Len(val) \in Nat
      /\ \A i \in 1..Len(val) : val[i] \in T /\ val[i] # Blank
  BY SeqElements DEF Strings, ToSet
<1>2. PICK f : /\ f = [n \in 0..Len(val) |-> KeepStep(f, val, id, n)]
               /\ Removed(val, id) = Join(f[Len(val)])
  BY <1>1, RemovedLoops
<1> DEFINE Upto(n) == {val[i] : i \in 1..n}
           A == {n \in Nat : n <= Len(val) => f[n] \in Seq(T) /\ ToSet(f[n]) = Upto(n) \ {id}}
<1>3. \A n \in 0..Len(val) : f[n] = KeepStep(f, val, id, n)
  BY <1>2, Zenon
<1> HIDE DEF T
<1>4. 0 \in A
  <2>1. f[0] = <<>>
    BY <1>1, <1>3 DEF KeepStep
  <2>2. <<>> \in Seq(T) /\ ToSet(<<>>) = {} /\ Upto(0) = {}
    BY DEF ToSet
  <2> QED BY <2>1, <2>2
<1>5. ASSUME NEW n \in Nat, n \in A PROVE n + 1 \in A
  <2> SUFFICES ASSUME n + 1 <= Len(val)
               PROVE  f[n + 1] \in Seq(T) /\ ToSet(f[n + 1]) = Upto(n + 1) \ {id}
    OBVIOUS
  <2>1. n + 1 \in 1..Len(val) /\ n + 1 \in 0..Len(val) /\ n + 1 # 0 /\ n + 1 - 1 = n
    BY <1>1
  <2>2. f[n] \in Seq(T) /\ ToSet(f[n]) = Upto(n) \ {id}
    BY <1>1, <1>5
  <2> DEFINE x == val[n + 1]
  <2>3. x \in T /\ x # Blank
    BY <1>1, <2>1
  <2>4. f[n + 1] = IF x = id THEN f[n] ELSE Append(f[n], x)
    BY <1>3, <2>1, <2>3 DEF KeepStep
  <2>5. Upto(n + 1) = Upto(n) \cup {x}
    <3>1. 1..(n + 1) = 1..n \cup {n + 1}
      OBVIOUS
    <3> QED BY <3>1
  <2> HIDE DEF x, Upto
  <2>6. CASE x = id
    BY <2>2, <2>4, <2>5, <2>6
  <2>7. CASE x # id
    BY <2>2, <2>3, <2>4, <2>5, <2>7, AppendElements
  <2> QED BY <2>6, <2>7
<1> HIDE DEF A
<1>6. Len(val) \in A
  BY <1>1, <1>4, <1>5, AllNumbers
<1>7. Upto(Len(val)) = ToSet(val)
  BY <1>1 DEF ToSet
<1> QED BY <1>1, <1>2, <1>6, <1>7 DEF A, T

LEMMA EmptyLists == Empty(NoKey) /\ Empty(<<Blank>>) /\ \A val : Empty(val) => Split(val) = <<>>
BY DEF Empty, Split

\* A list that is not empty is a string of ids.
LEMMA ListsOfIds ==
    ASSUME NEW val, Listing(val), ~ Empty(val)
    PROVE  /\ val \in Strings /\ Blank \notin ToSet(val) /\ Split(val) = val
           /\ val \in Seq(Ids \cup {Blank}) /\ val # <<>>
BY DEF Listing, Empty, Split, Strings

\* A string of ids is not empty.
LEMMA IdsAreListed ==
    ASSUME NEW val \in Strings, Blank \notin ToSet(val)
    PROVE  Listing(val) /\ ~ Empty(val) /\ Split(val) = val
<1>1. val # NoKey
  BY RedisListsAssumption DEF Strings
<1>2. Blank \in ToSet(<<Blank>>)
  <2>1. DOMAIN <<Blank>> = {1} /\ <<Blank>>[1] = Blank
    OBVIOUS
  <2> QED BY <2>1 DEF ToSet
<1>3. val # <<Blank>>
  BY <1>2
<1> QED BY <1>1, <1>3 DEF Listing, Empty, Split

LEMMA AppendedLists ==
    ASSUME NEW val, Listing(val), NEW id \in Ids
    PROVE  /\ Listing(Appended(val, id))
           /\ ToSet(Split(Appended(val, id))) = ToSet(Split(val)) \cup {id}
<1>1. id # Blank
  BY RedisListsAssumption
<1>2. CASE Empty(val)
  <2> DEFINE new == <<id>>
  <2>1. DOMAIN new = {1} /\ new[1] = id /\ new \in Seq(Ids \cup {Blank}) /\ new # <<>>
    OBVIOUS
  <2> HIDE DEF new
  <2>2. ToSet(new) = {id} /\ new \in Strings
    BY <2>1 DEF ToSet, Strings
  <2>3. ToSet(Split(val)) = {}
    BY <1>2, EmptyLists DEF ToSet
  <2>4. Listing(new) /\ Split(new) = new
    BY <1>1, <2>2, IdsAreListed
  <2>5. Appended(val, id) = new
    BY <1>2 DEF Appended, new
  <2> QED BY <2>2, <2>3, <2>4, <2>5
<1>3. CASE ~ Empty(val)
  <2> DEFINE new == Append(val, id)
  <2>1. val \in Seq(Ids \cup {Blank}) /\ Blank \notin ToSet(val) /\ Split(val) = val
    BY <1>3, ListsOfIds
  <2>2. new \in Seq(Ids \cup {Blank}) /\ new # <<>> /\ ToSet(new) = ToSet(val) \cup {id}
    BY <2>1, AppendElements
  <2>3. Appended(val, id) = new
    BY <1>3 DEF Appended
  <2> HIDE DEF new
  <2>4. new \in Strings /\ Blank \notin ToSet(new)
    BY <1>1, <2>1, <2>2 DEF Strings
  <2>5. Listing(new) /\ Split(new) = new
    BY <2>4, IdsAreListed
  <2> QED BY <2>1, <2>2, <2>3, <2>5
<1> QED BY <1>2, <1>3

LEMMA RemovedLists ==
    ASSUME NEW val, Listing(val), ~ Empty(val), NEW id
    PROVE  /\ Listing(Removed(val, id))
           /\ ToSet(Split(Removed(val, id))) = ToSet(Split(val)) \ {id}
<1>1. val \in Strings /\ Blank \notin ToSet(val) /\ Split(val) = val
  BY ListsOfIds
<1>2. PICK parts \in Seq(Ids \cup {Blank}) :
          ToSet(parts) = ToSet(val) \ {id} /\ Removed(val, id) = Join(parts)
  BY <1>1, RemovedKeeps
<1>3. CASE parts = <<>>
  <2>1. Removed(val, id) = <<Blank>>
    BY <1>2, <1>3 DEF Join
  <2>2. Split(<<Blank>>) = <<>> /\ Listing(<<Blank>>) /\ ToSet(<<>>) = {}
    BY EmptyLists DEF Listing, ToSet
  <2> QED BY <1>1, <1>2, <1>3, <2>1, <2>2
<1>4. CASE parts # <<>>
  <2>1. Removed(val, id) = parts /\ parts \in Strings /\ Blank \notin ToSet(parts)
    BY <1>1, <1>2, <1>4 DEF Join, Strings
  <2> QED BY <1>1, <1>2, <2>1, IdsAreListed
<1> QED BY <1>3, <1>4

-----------------------------------------------------------------------------
(* RedisLists: every step.                                                  *)

LEMMA InitLists == ListsInit => ListsTypeOK
BY DEF ListsInit, ListsTypeOK, Listing

LEMMA ListsStepsKeep == ListsTypeOK /\ [ListsNext]_listVars => ListsTypeOK'
<1> SUFFICES ASSUME ListsTypeOK, [ListsNext]_listVars PROVE ListsTypeOK'
  OBVIOUS
<1>1. ASSUME NEW w \in Writers, NEW op \in {"append", "remove"}, NEW id \in Ids,
             GetValue(w, op, id)
      PROVE  ListsTypeOK'
  <2>1. PICK val \in {value, NoKey} :
            change' = [change EXCEPT ![w] = {[op |-> op, id |-> id, val |-> val]}]
    BY <1>1 DEF GetValue
  <2> DEFINE e == [op |-> op, id |-> id, val |-> val]
  <2>2. Listing(val) /\ value' = value
    BY <1>1 DEF GetValue, ListsTypeOK, Listing
  <2>3. e.op = op /\ e.id = id /\ e.val = val
    OBVIOUS
  <2>4. change' = [change EXCEPT ![w] = {e}]
    BY <2>1
  <2> HIDE DEF e
  <2> QED BY <2>2, <2>3, <2>4 DEF ListsTypeOK
<1>2. ASSUME NEW w \in Writers, change' = [change EXCEPT ![w] = {}], Listing(value')
      PROVE  ListsTypeOK'
  BY <1>2 DEF ListsTypeOK
<1>3. ASSUME NEW w \in Writers, SetAppended(w) PROVE ListsTypeOK'
  <2>1. PICK c \in change[w] : value' = Appended(c.val, c.id)
    BY <1>3 DEF SetAppended
  <2>2. c.id \in Ids /\ Listing(c.val)
    BY DEF ListsTypeOK
  <2> QED BY <1>2, <1>3, <2>1, <2>2, AppendedLists DEF SetAppended
<1>4. ASSUME NEW w \in Writers, SetRemoved(w) PROVE ListsTypeOK'
  <2>1. PICK c \in change[w] : value' = IF Empty(c.val) THEN value ELSE Removed(c.val, c.id)
    BY <1>4 DEF SetRemoved
  <2>2. Listing(c.val) /\ Listing(value)
    BY DEF ListsTypeOK
  <2>3. Listing(value')
    BY <2>1, <2>2, RemovedLists
  <2> QED BY <1>2, <1>4, <2>3 DEF SetRemoved
<1>5. ASSUME NEW w \in Writers, SetFails(w) PROVE ListsTypeOK'
  BY <1>2, <1>5 DEF SetFails, ListsTypeOK
<1>6. ASSUME UNCHANGED listVars PROVE ListsTypeOK'
  BY <1>6 DEF listVars, ListsTypeOK
<1> QED BY <1>1, <1>3, <1>4, <1>5, <1>6 DEF ListsNext

\* A list in Redis is missing, empty, or made of ids with no blank among them, and
\* so is what a helper has read of it (general.go 824-858, 930-964).
THEOREM ListsTypeCorrect == ListsSpec => []ListsTypeOK
<1> QED BY InitLists, ListsStepsKeep, PTL DEF ListsSpec

LEMMA StepsAreSetSteps ==
    ASSUME ListsTypeOK, [ListsNext]_listVars
    PROVE  [S!Next]_(S!vars)
<1> DEFINE listed == ToSet(Split(value))
<1>0. DOMAIN change = Writers
  BY DEF ListsTypeOK
<1>1. ASSUME NEW w \in Writers, NEW op \in {"append", "remove"}, NEW id \in Ids,
             GetValue(w, op, id)
      PROVE  S!Read(w, op, "list", id)
  <2>1. PICK val \in {value, NoKey} :
            change' = [change EXCEPT ![w] = {[op |-> op, id |-> id, val |-> val]}]
    BY <1>1 DEF GetValue
  <2> DEFINE seen == ToSet(Split(val))
  <2>2. seen \in {listed, {}}
    BY EmptyLists DEF ToSet
  <2>3. change[w] = {} /\ value' = value
    BY <1>1 DEF GetValue
  <2>4. ListChanges[w] = {}
    BY <2>3 DEF ListChanges
  <2>5. ListChanges' = [ListChanges EXCEPT ![w] = {[op |-> op, key |-> "list", id |-> id, seen |-> seen]}]
    <3>1. Abstract([op |-> op, id |-> id, val |-> val]) = [op |-> op, key |-> "list", id |-> id, seen |-> seen]
      BY DEF Abstract
    <3> DEFINE e == [op |-> op, id |-> id, val |-> val]
    <3>2. \A v \in Writers : change'[v] = IF v = w THEN {e} ELSE change[v]
      BY <1>0, <2>1
    <3>3. \A v \in Writers : {Abstract(c) : c \in change'[v]} =
                IF v = w THEN {Abstract(e)} ELSE {Abstract(c) : c \in change[v]}
      <4> HIDE DEF e
      <4> QED BY <3>2
    <3> HIDE DEF e, seen
    <3> QED BY <3>1, <3>3 DEF ListChanges, e
  <2> HIDE DEF seen, listed
  <2>6. ListChanges'[w] # {} /\ UNCHANGED ListedIds
    BY <2>3, <2>5 DEF ListChanges, ListedIds
  <2> QED BY <2>2, <2>4, <2>5, <2>6 DEF S!Read, ListedIds, listed
<1>2. ASSUME NEW w \in Writers, change' = [change EXCEPT ![w] = {}]
      PROVE  ListChanges' = [ListChanges EXCEPT ![w] = {}]
  <2>1. \A v \in Writers : change'[v] = IF v = w THEN {} ELSE change[v]
    BY <1>0, <1>2
  <2>2. \A v \in Writers : {Abstract(c) : c \in change'[v]} =
              IF v = w THEN {} ELSE {Abstract(c) : c \in change[v]}
    BY <2>1
  <2> QED BY <2>2 DEF ListChanges
<1>3. ASSUME NEW w \in Writers, NEW c \in change[w], change' = [change EXCEPT ![w] = {}],
             ToSet(Split(value')) = S!Result(Abstract(c))
      PROVE  S!Write(w)
  <2>1. Abstract(c) \in ListChanges[w]
    BY DEF ListChanges
  <2>2. ListChanges' = [ListChanges EXCEPT ![w] = {}]
    BY <1>2, <1>3
  <2>3. ListedIds' = [ListedIds EXCEPT !["list"] = S!Result(Abstract(c))]
    BY <1>3 DEF ListedIds
  <2>4. Abstract(c).key = "list"
    BY DEF Abstract
  <2> QED BY <2>1, <2>2, <2>3, <2>4 DEF S!Write
<1>4. ASSUME NEW w \in Writers, SetAppended(w) PROVE S!Write(w)
  <2>1. PICK c \in change[w] : c.op = "append" /\ value' = Appended(c.val, c.id)
    BY <1>4 DEF SetAppended
  <2>2. c.id \in Ids /\ Listing(c.val)
    BY DEF ListsTypeOK
  <2>3. ToSet(Split(value')) = ToSet(Split(c.val)) \cup {c.id}
    BY <2>1, <2>2, AppendedLists
  <2>4. ToSet(Split(value')) = S!Result(Abstract(c))
    BY <2>1, <2>3 DEF S!Result, Abstract
  <2> QED BY <1>3, <1>4, <2>4 DEF SetAppended
<1>5. ASSUME NEW w \in Writers, SetRemoved(w) PROVE S!Write(w)
  <2>1. PICK c \in change[w] :
            c.op = "remove" /\ value' = IF Empty(c.val) THEN value ELSE Removed(c.val, c.id)
    BY <1>5 DEF SetRemoved
  <2>2. Listing(c.val)
    BY DEF ListsTypeOK
  <2>3. ToSet(Split(value')) = S!Result(Abstract(c))
    <3>1. CASE Empty(c.val)
      <4>1. ToSet(Split(c.val)) = {}
        BY <3>1, EmptyLists DEF ToSet
      <4> QED BY <2>1, <3>1, <4>1 DEF S!Result, Abstract, ListedIds
    <3>2. CASE ~ Empty(c.val)
      <4>1. ToSet(Split(value')) = ToSet(Split(c.val)) \ {c.id}
        BY <2>1, <2>2, <3>2, RemovedLists
      <4>2. ToSet(Split(c.val)) # {}
        <5>1. Split(c.val) \in Seq(Ids \cup {Blank}) /\ Split(c.val) # <<>>
          BY <2>2, <3>2, ListsOfIds
        <5>2. 1 \in DOMAIN Split(c.val)
          BY <5>1
        <5> QED BY <5>2 DEF ToSet
      <4> QED BY <2>1, <4>1, <4>2 DEF S!Result, Abstract
    <3> QED BY <3>1, <3>2
  <2> QED BY <1>3, <1>5, <2>3 DEF SetRemoved
<1>6. ASSUME NEW w \in Writers, SetFails(w) PROVE S!Forget(w)
  <2>1. ListChanges' = [ListChanges EXCEPT ![w] = {}]
    BY <1>2, <1>6 DEF SetFails
  <2> QED BY <1>6, <2>1 DEF SetFails, S!Forget, ListedIds
<1>7. ASSUME UNCHANGED listVars PROVE UNCHANGED S!vars
  BY <1>7 DEF listVars, S!vars, ListedIds, ListChanges
<1> QED BY <1>1, <1>4, <1>5, <1>6, <1>7 DEF ListsNext, S!Next

\* The strings with the ids joined do what the sets that Sessions and Comments have
\* do: whatever the length of a list and however often an id is on it
\* (general.go 820-858, 926-964).
THEOREM StringsImplementIdSets == ListsSpec => StringsAreSets
<1>1. ListsInit => S!Init
  <2> SUFFICES ASSUME ListsInit PROVE S!Init
    OBVIOUS
  <2>1. ToSet(Split(value)) = {}
    BY EmptyLists DEF ListsInit, ToSet
  <2> QED BY <2>1 DEF ListsInit, S!Init, ListedIds, ListChanges
<1> QED BY <1>1, StepsAreSetSteps, ListsTypeCorrect, PTL DEF ListsSpec, StringsAreSets, S!Spec

-----------------------------------------------------------------------------
(* Side by side.                                                            *)

LEMMA SideBySide == CommentsSpec => Spec /\ ListsSpec
<1>1. CommentsInit => Init /\ ListsInit
  BY DEF CommentsInit
<1>2. [CommentsNext]_<<vars, listVars, model>> => [Next]_vars /\ [ListsNext]_listVars
  BY DEF CommentsNext
<1> QED BY <1>1, <1>2, PTL DEF CommentsSpec, Spec, ListsSpec

\* Where one of the two moves at a time, both keep their types
\* (work/comment/service.go, general.go 820-964).
THEOREM CommentsTyped == CommentsSpec => []TypesOK
<1> QED BY SideBySide, TypeCorrect, ListsTypeCorrect, PTL DEF TypesOK

\* The lists are used as sets, and their strings are as good as sets
\* (work/comment/service.go, general.go 820-964).
THEOREM CommentsImplementIdSets == CommentsSpec => ImplementsIdSets
<1> QED BY SideBySide, MarksImplementIdSets, StringsImplementIdSets DEF ImplementsIdSets
=============================================================================
