--------------------------- MODULE SessionsProofs ---------------------------
(***************************************************************************)
(* IInv of Sessions is inductive, and with it TypeOK, NoSpuriousLogout and  *)
(* RevokedStayRefused hold, for all sets of users, uuids and goroutines and *)
(* any number of failures.  RefreshToken implements Sessions and keeps      *)
(* RefreshBudget for every limit and any number of refreshes at once.       *)
(***************************************************************************)
EXTENDS RefreshToken, FiniteSetTheorems, TLAPS

Steps == {"idle"} \cup LoginSteps \cup LogoutSteps \cup RevokeSteps

-----------------------------------------------------------------------------
(* What the helpers do to the records of the requests.                      *)

\* Request r has become this one, the others stay as they are.
Becomes(r, at, user, uuid, seen, todo, deletes, target) ==
    /\ req' \in [Requests -> Request]
    /\ \A q \in Requests : q # r => req'[q] = req[q]
    /\ req'[r].at = at /\ req'[r].user = user /\ req'[r].uuid = uuid
    /\ req'[r].seen = seen /\ req'[r].todo = todo
    /\ req'[r].deletes = deletes /\ req'[r].target = target

LEMMA ReadEffect ==
    ASSUME req \in [Requests -> Request], NEW r \in Requests,
           NEW list \in SUBSET Uuids, NEW step \in Steps, Read(r, list, step)
    PROVE  Becomes(r, step, req[r].user, req[r].uuid, list,
                   req[r].todo, req[r].deletes, req[r].target)
<1> DEFINE v == [req[r] EXCEPT !.seen = list, !.at = step]
<1>1. req' = [req EXCEPT ![r] = v]
  BY DEF Read
<1>2. req[r] \in Request
  OBVIOUS
<1>3. /\ v \in Request
      /\ v.at = step /\ v.user = req[r].user /\ v.uuid = req[r].uuid /\ v.seen = list
      /\ v.todo = req[r].todo /\ v.deletes = req[r].deletes /\ v.target = req[r].target
  BY <1>2 DEF Request, Steps
<1> HIDE DEF v
<1> QED BY <1>1, <1>3 DEF Becomes

LEMMA WroteEffect ==
    ASSUME req \in [Requests -> Request], NEW r \in Requests,
           NEW step \in Steps, Wrote(r, step)
    PROVE  Becomes(r, step, req[r].user, req[r].uuid, {},
                   req[r].todo, req[r].deletes, req[r].target)
  BY ReadEffect DEF Wrote

LEMMA GotoEffect ==
    ASSUME req \in [Requests -> Request], NEW r \in Requests,
           NEW step \in Steps, Goto(r, step)
    PROVE  Becomes(r, step, req[r].user, req[r].uuid, req[r].seen,
                   req[r].todo, req[r].deletes, req[r].target)
<1> DEFINE v == [req[r] EXCEPT !.at = step]
<1>1. req' = [req EXCEPT ![r] = v]
  BY DEF Goto
<1>2. req[r] \in Request
  OBVIOUS
<1>3. /\ v \in Request
      /\ v.at = step /\ v.user = req[r].user /\ v.uuid = req[r].uuid /\ v.seen = req[r].seen
      /\ v.todo = req[r].todo /\ v.deletes = req[r].deletes /\ v.target = req[r].target
  BY <1>2 DEF Request, Steps
<1> HIDE DEF v
<1> QED BY <1>1, <1>3 DEF Becomes

LEMMA IdleRequest == Idle \in Request
  BY DEF Idle, Request

LEMMA DoneEffect ==
    ASSUME req \in [Requests -> Request], NEW r \in Requests, Done(r)
    PROVE  Becomes(r, "idle", NoUser, NoUuid, {}, {}, FALSE, {})
<1>1. req' = [req EXCEPT ![r] = Idle]
  BY DEF Done
<1>2. /\ Idle.at = "idle" /\ Idle.user = NoUser /\ Idle.uuid = NoUuid /\ Idle.seen = {}
      /\ Idle.todo = {} /\ Idle.deletes = FALSE /\ Idle.target = {}
  BY DEF Idle
<1> QED BY <1>1, <1>2, IdleRequest DEF Becomes

LEMMA BeginEffect ==
    ASSUME req \in [Requests -> Request], NEW r \in Requests, NEW step \in Steps,
           NEW u \in Users \cup {NoUser}, NEW s \in Uuids \cup {NoUuid}, Begin(r, step, u, s)
    PROVE  Becomes(r, step, u, s, {}, {}, FALSE, {})
<1> DEFINE v == [Idle EXCEPT !.at = step, !.user = u, !.uuid = s]
<1>1. req' = [req EXCEPT ![r] = v]
  BY DEF Begin
<1>2. /\ v \in Request
      /\ v.at = step /\ v.user = u /\ v.uuid = s /\ v.seen = {}
      /\ v.todo = {} /\ v.deletes = FALSE /\ v.target = {}
  BY DEF Idle, Request, Steps
<1> HIDE DEF v
<1> QED BY <1>1, <1>2 DEF Becomes

LEMMA NextMarkEffect ==
    ASSUME req \in [Requests -> Request], NEW r \in Requests,
           NEW s \in req[r].todo, NextMark(r, s)
    PROVE  Becomes(r, IF req[r].todo = {s} THEN "revoke end" ELSE "mark get",
                   req[r].user, NoUuid, {}, req[r].todo \ {s},
                   req[r].deletes, req[r].target)
<1> DEFINE step == IF req[r].todo = {s} THEN "revoke end" ELSE "mark get"
           v == [req[r] EXCEPT !.todo = req[r].todo \ {s}, !.seen = {}, !.uuid = NoUuid,
                               !.at = step]
<1>1. req' = [req EXCEPT ![r] = v]
  BY DEF NextMark
<1>2. req[r] \in Request /\ step \in Steps
  BY DEF Steps, RevokeSteps
<1>3. req[r].todo \ {s} \in SUBSET Uuids
  BY <1>2 DEF Request
<1> HIDE DEF step
<1>4. /\ v \in Request
      /\ v.at = step /\ v.user = req[r].user /\ v.uuid = NoUuid /\ v.seen = {}
      /\ v.todo = req[r].todo \ {s} /\ v.deletes = req[r].deletes /\ v.target = req[r].target
  BY <1>2, <1>3 DEF Request, Steps
<1>5. Becomes(r, step, req[r].user, NoUuid, {}, req[r].todo \ {s},
              req[r].deletes, req[r].target)
  <2> HIDE DEF v
  <2> QED BY <1>1, <1>4 DEF Becomes
<1> QED BY <1>5 DEF step

LEMMA ToMarkEffect ==
    ASSUME req \in [Requests -> Request], NEW r \in Requests,
           NEW s \in Uuids, NEW list \in SUBSET Uuids, ToMark(r, s, list)
    PROVE  Becomes(r, "mark set", req[r].user, s, list,
                   req[r].todo, req[r].deletes, req[r].target)
<1> DEFINE v == [req[r] EXCEPT !.uuid = s, !.seen = list, !.at = "mark set"]
<1>1. req' = [req EXCEPT ![r] = v]
  BY DEF ToMark
<1>2. req[r] \in Request
  OBVIOUS
<1>3. /\ v \in Request
      /\ v.at = "mark set" /\ v.user = req[r].user /\ v.uuid = s /\ v.seen = list
      /\ v.todo = req[r].todo /\ v.deletes = req[r].deletes /\ v.target = req[r].target
  BY <1>2 DEF Request, RevokeSteps
<1> HIDE DEF v
<1> QED BY <1>1, <1>3 DEF Becomes

-----------------------------------------------------------------------------
(* The parts of the invariant that a step of one request must keep.         *)

\* Owners stay, and sessions and excuses only grow.
Grows ==
    /\ \A s \in Uuids : owner[s] \in Users => owner'[s] = owner[s]
    /\ issued \subseteq issued' /\ excused \subseteq excused'
    /\ revoked \subseteq revoked'

\* Apart from excused uuids the lists lose nothing.
ListsKept ==
    /\ \A u \in Users : \A s \in login[u] : s \in login'[u] \/ s \in excused'
    /\ \A s \in autoLogout : s \in autoLogout' \/ s \in excused'

\* ... and gain nothing that request q, about to write a list, has not seen.
NothingUnseen(q) ==
    /\ req[q].at \in {"login set", "logout set"} =>
          \A s \in login'[req[q].user] : s \in login[req[q].user] \/ s \in excused'
    /\ req[q].at \in {"mark set", "unmark set"} =>
          \A s \in autoLogout' : s \in autoLogout \/ s \in excused'

LEMMA OthersOwnership ==
    ASSUME TypeOK, TypeOK', Grows, NEW q \in Requests, RequestOwnership(q),
           req'[q] = req[q]
    PROVE  RequestOwnership(q)'
<1>0. /\ req[q] \in Request /\ revoked \subseteq Users
      /\ req[q].target \subseteq Uuids /\ req[q].todo \subseteq Uuids
      /\ req[q].seen \subseteq Uuids
  BY DEF TypeOK, Request
<1>1. req[q].at \in LoginSteps =>
          req[q].user \in Users /\ req[q].uuid \in Uuids /\ owner'[req[q].uuid] = req[q].user
  BY DEF RequestOwnership, Grows
<1>2. req[q].at \in LogoutSteps =>
          req[q].user \in Users /\ req[q].uuid \in excused' \cup {NoUuid}
  BY DEF RequestOwnership, Grows, TypeOK
<1>3. req[q].at \in RevokeSteps =>
          req[q].user \in Users /\ \A s \in req[q].target : owner'[s] = req[q].user /\ s \in issued'
  <2> SUFFICES ASSUME req[q].at \in RevokeSteps, NEW s \in req[q].target
               PROVE  req[q].user \in Users /\ owner'[s] = req[q].user /\ s \in issued'
    BY DEF RequestOwnership
  <2>1. s \in Uuids /\ req[q].user \in Users /\ owner[s] = req[q].user /\ s \in issued
    BY <1>0 DEF RequestOwnership
  <2> QED BY <2>1 DEF Grows
<1>4. req[q].at \in RevokeSteps \ {"revoke update"} =>
          req[q].user \in revoked' /\ \A s \in req[q].todo : owner'[s] = req[q].user
  BY <1>0 DEF RequestOwnership, Grows
<1>5. req[q].at \in {"login set", "logout set"} =>
          \A s \in req[q].seen : owner'[s] = req[q].user
  BY <1>0 DEF RequestOwnership, Grows, LoginSteps, LogoutSteps
<1>6. req[q].at \in {"mark set", "unmark set"} => \A s \in req[q].seen : owner'[s] \in revoked'
  BY <1>0 DEF RequestOwnership, Grows
<1>7. /\ req[q].at \notin {"mark get", "mark set"} => req[q].todo = {}
      /\ req[q].at = "mark set" => req[q].uuid \in req[q].todo
      /\ req[q].at \in {"logout set", "unmark set"} => req[q].seen # {}
  BY DEF RequestOwnership
<1> QED BY <1>1, <1>2, <1>3, <1>4, <1>5, <1>6, <1>7 DEF RequestOwnership

LEMMA OthersUpToDate ==
    ASSUME TypeOK, TypeOK', Grows, ListsKept, NEW q \in Requests, NothingUnseen(q),
           RequestOwnership(q), RequestUpToDate(q), req'[q] = req[q]
    PROVE  RequestUpToDate(q)'
<1>0. req[q] \in Request /\ req[q].target \subseteq Uuids
  BY DEF TypeOK, Request
<1>1. req[q].at = "login end" =>
          req[q].uuid \in login'[req[q].user] \/ req[q].uuid \in excused'
  BY DEF RequestOwnership, RequestUpToDate, Grows, ListsKept, LoginSteps
<1>2. req[q].at \in {"login set", "logout set"} =>
          \A s \in Uuids : s \in excused' \/ (s \in req[q].seen <=> s \in login'[req[q].user])
  BY DEF RequestOwnership, RequestUpToDate, Grows, ListsKept, NothingUnseen,
         LoginSteps, LogoutSteps
<1>3. req[q].at \in {"mark set", "unmark set"} =>
          \A s \in Uuids : s \in excused' \/ (s \in req[q].seen <=> s \in autoLogout')
  BY DEF RequestUpToDate, Grows, ListsKept, NothingUnseen
<1>4. req[q].at \in {"mark get", "mark set", "revoke end"} =>
          \A s \in req[q].target : s \in req[q].todo \/ s \in autoLogout' \/ s \in excused'
  BY <1>0 DEF RequestUpToDate, Grows, ListsKept
<1> QED BY <1>1, <1>2, <1>3, <1>4 DEF RequestUpToDate

\* A step of r keeps the invariant if it keeps these.
LEMMA StepOf ==
    ASSUME IInv, TypeOK', NEW r \in Requests,
           \A q \in Requests : q # r => req'[q] = req[q],
           Grows, ListsKept, \A q \in Requests \ {r} : NothingUnseen(q),
           Ownership', NoSpuriousLogout',
           \A s \in issued' : s \in issued \/ s \in login'[owner'[s]] \/ s \in excused',
           due' \subseteq due \cup autoLogout',
           RequestOwnership(r)', RequestUpToDate(r)'
    PROVE  IInv'
<1>1. Listed'
  <2> SUFFICES ASSUME NEW s \in issued'
               PROVE  s \in login'[owner'[s]] \/ s \in excused'
    BY DEF Listed
  <2>1. CASE s \in issued
    <3>1. s \in Uuids /\ owner[s] \in Users /\ owner'[s] = owner[s]
      BY <2>1 DEF IInv, TypeOK, Ownership, Grows
    <3>2. s \in login[owner[s]] \/ s \in excused
      BY <2>1 DEF IInv, Listed
    <3> QED BY <3>1, <3>2 DEF Grows, ListsKept
  <2> QED BY <2>1
<1>2. RevokedStayRefused'
  <2> SUFFICES ASSUME NEW s \in due', s \notin autoLogout' PROVE FALSE
    BY DEF RevokedStayRefused
  <2>1. s \in autoLogout
    BY DEF IInv, RevokedStayRefused
  <2>2. s \in excused'
    BY <2>1 DEF ListsKept
  <2> QED BY <2>2 DEF Ownership
<1>3. \A q \in Requests : RequestOwnership(q)' /\ RequestUpToDate(q)'
  <2> SUFFICES ASSUME NEW q \in Requests, q # r
               PROVE  RequestOwnership(q)' /\ RequestUpToDate(q)'
    OBVIOUS
  <2> QED BY OthersOwnership, OthersUpToDate DEF IInv
<1> QED BY <1>1, <1>2, <1>3 DEF IInv

\* Sessions are excused and due no longer, or nothing changes.
Forgives ==
    /\ excused' \in SUBSET Uuids /\ excused \subseteq excused'
    /\ due' \subseteq due /\ due' \cap excused' = {}

LEMMA ExcuseEffect ==
    ASSUME IInv, NEW ss \in SUBSET Uuids, Excuse(ss)
    PROVE  Forgives /\ excused' = excused \cup ss
  BY DEF IInv, TypeOK, Ownership, Excuse, Forgives

LEMMA AsBeforeEffect ==
    ASSUME IInv, AsBefore
    PROVE  Forgives /\ excused' = excused
  BY DEF IInv, TypeOK, Ownership, AsBefore, Forgives

\* A step of r that leaves the lists and the sessions alone.
LEMMA SilentStep ==
    ASSUME IInv, TypeOK', NEW r \in Requests,
           \A q \in Requests : q # r => req'[q] = req[q],
           UNCHANGED <<login, autoLogout, owner, issued>>, Forgives,
           revoked \subseteq revoked',
           RequestOwnership(r)', RequestUpToDate(r)'
    PROVE  IInv'
<1>1. Grows /\ ListsKept /\ \A q \in Requests \ {r} : NothingUnseen(q)
  BY DEF Grows, ListsKept, NothingUnseen, Forgives
<1>2. Ownership'
  BY DEF IInv, Ownership, Forgives
<1>3. NoSpuriousLogout'
  BY DEF IInv, NoSpuriousLogout
<1>4. due' \subseteq due \cup autoLogout'
  BY DEF Forgives
<1> QED BY <1>1, <1>2, <1>3, <1>4, StepOf

\* The type of the failures and of the requests after a step of r.
LEMMA FailuresType == ASSUME TypeOK, Fails \/ Works PROVE failures' \in 0..MaxFailures
  BY SessionsAssumption DEF TypeOK, Fails, Works

LEMMA BecomesType ==
    ASSUME TypeOK, NEW r \in Requests, NEW at, NEW user, NEW uuid, NEW seen, NEW todo,
           NEW deletes, NEW target,
           Becomes(r, at, user, uuid, seen, todo, deletes, target),
           at = "idle" \/ user \in Users
    PROVE  /\ req' \in [Requests -> Request]
           /\ \A q \in Requests : q # r => req'[q] = req[q]
           /\ \A q \in Requests : req'[q].at # "idle" => req'[q].user \in Users
  BY DEF TypeOK, Becomes

\* Where a request holds the lock of the row of its user.
Holding == {"revoke get", "mark get", "mark set", "revoke end"}

LEMMA HoldingSteps == Holding = RevokeSteps \ {"revoke update"}
  BY DEF Holding, RevokeSteps

\* Locks stay with a request that goes on, and one that has none may go anywhere.
LEMMA LocksStay ==
    ASSUME TypeOK, NEW r \in Requests, \A q \in Requests : q # r => req'[q] = req[q],
           UNCHANGED rowLock,
           \/ req[r].at \notin Holding
           \/ req'[r].at \in Holding /\ req'[r].user = req[r].user
    PROVE  LocksHeld'
<1> SUFFICES ASSUME NEW u \in Users, rowLock[u] # NoRequest
             PROVE  /\ req'[rowLock[u]].at \in Holding
                    /\ req'[rowLock[u]].user = u
  BY HoldingSteps DEF LocksHeld
<1>1. /\ rowLock[u] \in Requests
      /\ req[rowLock[u]].at \in Holding /\ req[rowLock[u]].user = u
  BY HoldingSteps DEF TypeOK, LocksHeld
<1> QED BY <1>1

\* What is known of a busy request.
LEMMA OfRequest ==
    ASSUME IInv, NEW r \in Requests
    PROVE  /\ TypeOK /\ RequestOwnership(r) /\ RequestUpToDate(r)
           /\ req \in [Requests -> Request]
           /\ req[r].seen \in SUBSET Uuids /\ req[r].todo \in SUBSET Uuids
           /\ req[r].target \in SUBSET Uuids
           /\ \A u \in Users : login[u] \in SUBSET Uuids
  BY DEF IInv, TypeOK, Request

LEMMA AllSteps ==
    /\ LoginSteps \subseteq Steps /\ LogoutSteps \subseteq Steps /\ RevokeSteps \subseteq Steps
    /\ "idle" \in Steps
  BY DEF Steps

-----------------------------------------------------------------------------
(* Login.                                                                   *)

LEMMA StartLoginKeeps ==
    ASSUME IInv, NEW r \in Requests, NEW u \in Users, NEW s \in Uuids, StartLogin(r, u, s)
    PROVE  IInv'
<1>1. Becomes(r, "login get", u, s, {}, {}, FALSE, {})
  BY OfRequest, BeginEffect, AllSteps DEF StartLogin, LoginSteps
<1>2. /\ owner[s] = NoUser /\ owner' = [owner EXCEPT ![s] = u]
      /\ UNCHANGED <<login, autoLogout, deleted, rowLock, issued, token, madeUp, failures,
                     excused, due, revoked>>
      /\ req[r].at = "idle"
  BY DEF StartLogin, Begin, redis, mysql, history
<1>3. /\ owner' \in [Uuids -> Users \cup {NoUser}] /\ owner'[s] = u
      /\ \A t \in Uuids : owner[t] \in Users => owner'[t] = owner[t]
  BY <1>2, OfRequest, SessionsAssumption DEF TypeOK
<1>4. TypeOK'
  <2>1. LocksHeld'
    BY <1>1, <1>2, OfRequest, LocksStay DEF Becomes, Holding
  <2> QED BY <1>1, <1>2, <1>3, <2>1, OfRequest, BecomesType DEF TypeOK
<1>5. Grows /\ ListsKept /\ \A q \in Requests \ {r} : NothingUnseen(q)
  BY <1>2, <1>3 DEF Grows, ListsKept, NothingUnseen
<1>6. Ownership'
  <2>1. \A v \in Users : \A t \in login[v] : t \in Uuids /\ owner[t] = v
    BY OfRequest DEF IInv, Ownership, TypeOK
  <2>2. \A t \in issued : t \in Uuids /\ owner[t] \in Users
    BY OfRequest DEF IInv, Ownership, TypeOK
  <2> QED BY <1>2, <1>3, <2>1, <2>2 DEF IInv, Ownership
<1>7. NoSpuriousLogout'
  BY <1>2, <1>3 DEF IInv, TypeOK, NoSpuriousLogout
<1>8. RequestOwnership(r)'
  BY <1>1, <1>3 DEF Becomes, RequestOwnership, LoginSteps, LogoutSteps, RevokeSteps
<1>9. RequestUpToDate(r)'
  BY <1>1 DEF Becomes, RequestUpToDate
<1> QED BY <1>1, <1>2, <1>4, <1>5, <1>6, <1>7, <1>8, <1>9, StepOf DEF Becomes

LEMMA LoginGetKeeps ==
    ASSUME IInv, NEW r \in Requests, LoginGet(r)
    PROVE  IInv'
<1>1. PICK u \in Users, s \in Uuids :
          /\ req[r].at = "login get" /\ req[r].user = u /\ req[r].uuid = s /\ owner[s] = u
          /\ login[u] \in SUBSET Uuids
  BY OfRequest DEF LoginGet, RequestOwnership, LoginSteps
<1>2. UNCHANGED <<login, autoLogout, deleted, rowLock, owner, issued, token, madeUp, revoked>>
  BY DEF LoginGet, redis, mysql, clients
<1>3. PICK list \in SUBSET Uuids :
          /\ Read(r, list, "login set") /\ (Fails \/ Works) /\ Forgives
          /\ list = login[u] \/ (list = {} /\ login[u] \subseteq excused')
  <2>1. CASE Works /\ Read(r, login[u], "login set") /\ AsBefore
    BY <2>1, <1>1, AsBeforeEffect
  <2>2. CASE Fails /\ Read(r, {}, "login set") /\ Excuse(login[u])
    <3>1. Forgives /\ login[u] \subseteq excused'
      BY <2>2, <1>1, ExcuseEffect
    <3> QED BY <3>1, <2>2
  <2> QED BY <1>1, <2>1, <2>2 DEF LoginGet
<1>4. Becomes(r, "login set", u, s, list, req[r].todo, req[r].deletes, req[r].target)
  BY <1>1, <1>3, OfRequest, ReadEffect, AllSteps DEF LoginSteps
<1>5. TypeOK'
  <2>1. LocksHeld'
    BY <1>1, <1>2, <1>4, OfRequest, LocksStay DEF Becomes, Holding
  <2>2. due' \in SUBSET Uuids /\ excused' \in SUBSET Uuids
    BY <1>3, OfRequest DEF Forgives, TypeOK
  <2> QED BY <1>2, <1>3, <1>4, <2>1, <2>2, OfRequest, BecomesType, FailuresType DEF TypeOK
<1>6. RequestOwnership(r)'
  BY <1>1, <1>2, <1>3, <1>4, OfRequest
  DEF IInv, Ownership, Becomes, RequestOwnership, LoginSteps, LogoutSteps, RevokeSteps
<1>7. RequestUpToDate(r)'
  BY <1>1, <1>2, <1>3, <1>4 DEF Becomes, RequestUpToDate
<1> QED BY <1>2, <1>3, <1>4, <1>5, <1>6, <1>7, SilentStep DEF Becomes

LEMMA LoginSetKeeps ==
    ASSUME IInv, NEW r \in Requests, LoginSet(r)
    PROVE  IInv'
<1>1. PICK u \in Users, s \in Uuids :
          /\ req[r].at = "login set" /\ req[r].user = u /\ req[r].uuid = s /\ owner[s] = u
          /\ login[u] \in SUBSET Uuids
  <2>1. req[r].at = "login set"
    BY DEF LoginSet
  <2>2. req[r].user \in Users /\ req[r].uuid \in Uuids /\ owner[req[r].uuid] = req[r].user
    BY <2>1, OfRequest DEF RequestOwnership, LoginSteps
  <2> QED BY <2>1, <2>2, OfRequest
<1>2. UNCHANGED <<autoLogout, deleted, rowLock, owner, issued, token, madeUp, revoked>>
  BY DEF LoginSet, mysql, clients
<1>3. Becomes(r, "login end", u, s, {}, req[r].todo, req[r].deletes, req[r].target)
  BY <1>1, OfRequest, WroteEffect, AllSteps DEF LoginSet, LoginSteps
<1>4. /\ \/ /\ login' = [login EXCEPT ![u] = req[r].seen \cup {s}]
            /\ Excuse(IF LoginListOpen(r) THEN {s} ELSE {})
         \/ login' = login /\ Excuse({s})
      /\ Fails \/ Works
  BY <1>1 DEF LoginSet
<1>5. /\ login' \in [Users -> SUBSET Uuids] /\ Forgives
      /\ s \in login'[u] \/ s \in excused'
      /\ \A v \in Users : v # u => login'[v] = login[v]
      /\ \A t \in login'[u] : t = s \/ t \in req[r].seen \/ t \in login[u]
      /\ \A t \in req[r].seen : t \in login'[u] \/ login' = login
      /\ LoginListOpen(r) => s \in excused'
  <2>1. CASE /\ login' = [login EXCEPT ![u] = req[r].seen \cup {s}]
             /\ Excuse(IF LoginListOpen(r) THEN {s} ELSE {})
    <3>1. (IF LoginListOpen(r) THEN {s} ELSE {}) \in SUBSET Uuids
      OBVIOUS
    <3>2. Forgives /\ excused' = excused \cup (IF LoginListOpen(r) THEN {s} ELSE {})
      BY <2>1, <3>1, ExcuseEffect
    <3> QED BY <2>1, <3>2, OfRequest DEF TypeOK
  <2>2. CASE login' = login /\ Excuse({s})
    <3>1. Forgives /\ excused' = excused \cup {s}
      BY <2>2, ExcuseEffect
    <3> QED BY <2>2, <3>1, OfRequest DEF TypeOK
  <2> QED BY <1>4, <2>1, <2>2
<1>6. TypeOK'
  <2>1. failures' \in 0..MaxFailures
    BY <1>4, OfRequest, FailuresType
  <2>2. /\ req' \in [Requests -> Request]
        /\ \A q \in Requests : req'[q].at # "idle" => req'[q].user \in Users
    BY <1>3, OfRequest, BecomesType
  <2>3. login' \in [Users -> SUBSET Uuids]
    BY <1>5
  <2>4. TypeOK
    BY OfRequest
  <2>5. LocksHeld'
    BY <1>1, <1>2, <1>3, <2>4, LocksStay DEF Becomes, Holding
  <2>6. due' \in SUBSET Uuids /\ excused' \in SUBSET Uuids
    BY <1>5, <2>4 DEF Forgives, TypeOK
  <2> QED BY <1>2, <2>1, <2>2, <2>3, <2>4, <2>5, <2>6 DEF TypeOK
<1>7. Grows
  BY <1>2, <1>5 DEF Grows, Forgives
<1>8. \A t \in Uuids : t \in excused' \/ (t \in req[r].seen <=> t \in login[u])
  BY <1>1, <1>7, OfRequest DEF RequestUpToDate, Grows
<1>9. ListsKept
  BY <1>1, <1>2, <1>5, <1>8, OfRequest DEF ListsKept, TypeOK
<1>10. ASSUME NEW q \in Requests \ {r} PROVE NothingUnseen(q)
  <2> SUFFICES ASSUME req[q].at \in {"login set", "logout set"},
                      NEW t \in login'[req[q].user]
               PROVE  t \in login[req[q].user] \/ t \in excused'
    BY <1>2 DEF NothingUnseen
  <2>1. CASE req[q].user # u
    BY <2>1, <1>5, OfRequest DEF RequestOwnership, LoginSteps, LogoutSteps
  <2>2. CASE req[q].user = u
    <3>1. LoginListOpen(r)
      BY <2>2, <1>1 DEF LoginListOpen
    <3>2. s \in excused'
      BY <3>1, <1>5
    <3> QED BY <2>2, <3>2, <1>1, <1>5, <1>8, OfRequest
  <2> QED BY <2>1, <2>2
<1>11. Ownership'
  <2>1. \A t \in req[r].seen : owner[t] = u
    BY <1>1, OfRequest DEF RequestOwnership
  <2>2. \A v \in Users : \A t \in login'[v] : owner[t] = v
    BY <1>1, <1>5, <2>1 DEF IInv, Ownership
  <2> QED BY <1>2, <1>5, <2>2 DEF IInv, Ownership, Forgives
<1>12. NoSpuriousLogout'
  BY <1>2 DEF IInv, NoSpuriousLogout
<1>13. RequestOwnership(r)'
  BY <1>1, <1>2, <1>3, OfRequest
  DEF Becomes, RequestOwnership, LoginSteps, LogoutSteps, RevokeSteps
<1>14. RequestUpToDate(r)'
  BY <1>1, <1>3, <1>5 DEF Becomes, RequestUpToDate
<1>15. due' \subseteq due \cup autoLogout'
  BY <1>5 DEF Forgives
<1> QED BY <1>2, <1>3, <1>6, <1>7, <1>9, <1>10, <1>11, <1>12, <1>13, <1>14, <1>15, StepOf
        DEF Becomes

LEMMA LoginEndKeeps ==
    ASSUME IInv, NEW r \in Requests, LoginEnd(r)
    PROVE  IInv'
<1>1. PICK s \in Uuids, u \in Users :
          /\ req[r].at = "login end" /\ req[r].uuid = s
          /\ req[r].user = u /\ owner[s] = u
  BY OfRequest DEF LoginEnd, RequestOwnership, LoginSteps
<1>2. UNCHANGED <<login, autoLogout, deleted, rowLock, owner, madeUp, excused, due, revoked>>
  BY DEF LoginEnd, redis, mysql, history
<1>3. Becomes(r, "idle", NoUser, NoUuid, {}, {}, FALSE, {})
  BY OfRequest, DoneEffect DEF LoginEnd
<1>4. /\ \/ issued' = issued /\ token' = token
         \/ issued' = issued \cup {s} /\ token' = token \cup {<<s, u>>}
      /\ Fails \/ Works
  BY <1>1 DEF LoginEnd
<1>5. /\ token' \in SUBSET Claims /\ issued' \in SUBSET Uuids
      /\ issued \subseteq issued' /\ \A t \in issued' : t \in issued \/ t = s
  BY <1>4, OfRequest DEF TypeOK, Claims
<1>6. TypeOK'
  <2>1. LocksHeld'
    BY <1>1, <1>2, <1>3, OfRequest, LocksStay DEF Becomes, Holding
  <2> QED BY <1>2, <1>3, <1>4, <1>5, <2>1, OfRequest, BecomesType, FailuresType DEF TypeOK
<1>7. Grows /\ ListsKept /\ \A q \in Requests \ {r} : NothingUnseen(q)
  BY <1>2, <1>5 DEF Grows, ListsKept, NothingUnseen
<1>8. Ownership' /\ NoSpuriousLogout'
  BY <1>1, <1>2, <1>5, OfRequest DEF IInv, Ownership, NoSpuriousLogout, TypeOK
<1>9. \A t \in issued' : t \in issued \/ t \in login'[owner'[t]] \/ t \in excused'
  BY <1>1, <1>2, <1>5, OfRequest DEF RequestUpToDate
<1>10. RequestOwnership(r)' /\ RequestUpToDate(r)'
  BY <1>3 DEF Becomes, RequestOwnership, RequestUpToDate, LoginSteps, LogoutSteps, RevokeSteps
<1> QED BY <1>2, <1>3, <1>6, <1>7, <1>8, <1>9, <1>10, StepOf DEF Becomes

-----------------------------------------------------------------------------
(* Logout.                                                                  *)

LEMMA StartLogoutKeeps ==
    ASSUME IInv, NEW r \in Requests, NEW s \in Uuids \cup {NoUuid}, NEW u \in Users,
           StartLogout(r, s, u)
    PROVE  IInv'
<1>1. Becomes(r, "logout get", u, s, {}, {}, FALSE, {})
  BY OfRequest, BeginEffect, AllSteps DEF StartLogout, LogoutSteps
<1>2. /\ Excuse({s} \cap Uuids) /\ req[r].at = "idle"
      /\ UNCHANGED <<login, autoLogout, deleted, rowLock, owner, issued, token, madeUp,
                     failures, revoked>>
  BY DEF StartLogout, Begin, redis, mysql, clients
<1>3. Forgives /\ s \in excused' \cup {NoUuid}
  BY <1>2, ExcuseEffect
<1>4. TypeOK'
  <2>1. LocksHeld'
    BY <1>1, <1>2, OfRequest, LocksStay DEF Becomes, Holding
  <2>2. due' \in SUBSET Uuids /\ excused' \in SUBSET Uuids
    BY <1>3, OfRequest DEF Forgives, TypeOK
  <2> QED BY <1>1, <1>2, <2>1, <2>2, OfRequest, BecomesType DEF TypeOK
<1>5. RequestOwnership(r)'
  BY <1>1, <1>3
  DEF Becomes, RequestOwnership, LoginSteps, LogoutSteps, RevokeSteps
<1>6. RequestUpToDate(r)'
  BY <1>1 DEF Becomes, RequestUpToDate
<1> QED BY <1>1, <1>2, <1>3, <1>4, <1>5, <1>6, SilentStep DEF Becomes

LEMMA LogoutGetKeeps ==
    ASSUME IInv, NEW r \in Requests, LogoutGet(r)
    PROVE  IInv'
<1>1. PICK u \in Users, s \in excused \cup {NoUuid} :
          /\ req[r].at = "logout get" /\ req[r].user = u /\ req[r].uuid = s
          /\ req[r].todo = {} /\ login[u] \in SUBSET Uuids
  BY OfRequest DEF LogoutGet, RequestOwnership, LogoutSteps
<1>2. UNCHANGED <<login, autoLogout, deleted, rowLock, owner, issued, token, madeUp,
                  excused, due, revoked>>
  BY DEF LogoutGet, redis, mysql, clients, history
<1>3. /\ Fails \/ Works
      /\ (login[u] # {} /\ Read(r, login[u], "logout set")) \/ Goto(r, "unmark get")
  BY <1>1 DEF LogoutGet
<1>4. \/ /\ login[u] # {}
         /\ Becomes(r, "logout set", u, s, login[u], {}, req[r].deletes, req[r].target)
      \/ Becomes(r, "unmark get", u, s, req[r].seen, {}, req[r].deletes, req[r].target)
  BY <1>1, <1>3, OfRequest, ReadEffect, GotoEffect, AllSteps DEF LogoutSteps
<1>5. TypeOK'
  <2>1. LocksHeld'
    BY <1>1, <1>2, <1>4, OfRequest, LocksStay DEF Becomes, Holding
  <2> QED BY <1>1, <1>2, <1>3, <1>4, <2>1, OfRequest, BecomesType, FailuresType DEF TypeOK
<1>6. RequestOwnership(r)'
  BY <1>1, <1>2, <1>4
  DEF IInv, Ownership, Becomes, RequestOwnership, LoginSteps, LogoutSteps, RevokeSteps
<1>7. RequestUpToDate(r)'
  BY <1>1, <1>2, <1>4 DEF Becomes, RequestUpToDate
<1>8. Forgives
  BY <1>2, AsBeforeEffect DEF AsBefore
<1> QED BY <1>2, <1>4, <1>5, <1>6, <1>7, <1>8, SilentStep DEF Becomes

LEMMA LogoutSetKeeps ==
    ASSUME IInv, NEW r \in Requests, LogoutSet(r)
    PROVE  IInv'
<1>1. PICK u \in Users, s \in excused \cup {NoUuid} :
          /\ req[r].at = "logout set" /\ req[r].user = u /\ req[r].uuid = s
          /\ req[r].todo = {} /\ login[u] \in SUBSET Uuids
  BY OfRequest DEF LogoutSet, RequestOwnership, LogoutSteps
<1>2. UNCHANGED <<autoLogout, deleted, rowLock, owner, issued, token, madeUp,
                  excused, due, revoked>>
  BY DEF LogoutSet, mysql, clients, history
<1>3. Becomes(r, "unmark get", u, s, {}, {}, req[r].deletes, req[r].target)
  BY <1>1, OfRequest, WroteEffect, AllSteps DEF LogoutSet, LogoutSteps
<1>4. /\ login' = login \/ login' = [login EXCEPT ![u] = req[r].seen \ {s}]
      /\ Fails \/ Works
  BY <1>1 DEF LogoutSet
<1>5. \A t \in Uuids : t \in excused \/ (t \in req[r].seen <=> t \in login[u])
  BY <1>1, OfRequest DEF RequestUpToDate
<1>6. \A t \in Uuids : t = s => t \in excused
  BY <1>1, SessionsAssumption
<1>7. /\ login' \in [Users -> SUBSET Uuids]
      /\ \A v \in Users : v # u => login'[v] = login[v]
      /\ \A t \in login'[u] : t \in req[r].seen \/ t \in login[u]
      /\ \A t \in login[u] : t \in login'[u] \/ t \in excused
      /\ \A t \in login'[u] : t \in login[u] \/ t \in excused
  <2>1. CASE login' = login
    BY <2>1, OfRequest DEF TypeOK
  <2>2. CASE login' = [login EXCEPT ![u] = req[r].seen \ {s}]
    BY <2>2, <1>1, <1>5, <1>6, OfRequest DEF TypeOK
  <2> QED BY <1>4, <2>1, <2>2
<1>8. TypeOK'
  <2>1. failures' \in 0..MaxFailures
    BY <1>4, OfRequest, FailuresType
  <2>2. LocksHeld'
    BY <1>1, <1>2, <1>3, OfRequest, LocksStay DEF Becomes, Holding
  <2> QED BY <1>2, <1>3, <1>7, <2>1, <2>2, OfRequest, BecomesType DEF TypeOK
<1>9. Grows /\ ListsKept
  BY <1>2, <1>7 DEF Grows, ListsKept
<1>10. ASSUME NEW q \in Requests \ {r} PROVE NothingUnseen(q)
  <2> SUFFICES ASSUME req[q].at \in {"login set", "logout set"},
                      NEW t \in login'[req[q].user]
               PROVE  t \in login[req[q].user] \/ t \in excused'
    BY <1>2 DEF NothingUnseen
  <2>1. req[q].user \in Users
    BY OfRequest DEF RequestOwnership, LoginSteps, LogoutSteps
  <2> QED BY <2>1, <1>2, <1>7
<1>11. Ownership' /\ NoSpuriousLogout'
  <2>1. \A t \in req[r].seen : owner[t] = u
    BY <1>1, OfRequest DEF RequestOwnership
  <2>2. \A v \in Users : \A t \in login'[v] : owner[t] = v
    BY <1>7, <2>1 DEF IInv, Ownership
  <2> QED BY <1>2, <2>2 DEF IInv, Ownership, NoSpuriousLogout
<1>12. RequestOwnership(r)'
  BY <1>1, <1>2, <1>3
  DEF Becomes, RequestOwnership, LoginSteps, LogoutSteps, RevokeSteps
<1>13. RequestUpToDate(r)'
  BY <1>3 DEF Becomes, RequestUpToDate
<1> QED BY <1>2, <1>3, <1>8, <1>9, <1>10, <1>11, <1>12, <1>13, StepOf DEF Becomes

LEMMA UnmarkGetKeeps ==
    ASSUME IInv, NEW r \in Requests, UnmarkGet(r)
    PROVE  IInv'
<1>1. PICK u \in Users, s \in excused \cup {NoUuid} :
          /\ req[r].at = "unmark get" /\ req[r].user = u /\ req[r].uuid = s
          /\ req[r].todo = {} /\ autoLogout \in SUBSET Uuids
  BY OfRequest DEF UnmarkGet, RequestOwnership, LogoutSteps, TypeOK
<1>2. UNCHANGED <<login, autoLogout, deleted, rowLock, owner, issued, token, madeUp,
                  excused, due, revoked>>
  BY DEF UnmarkGet, redis, mysql, clients, history
<1>3. /\ Fails \/ Works
      /\ (autoLogout # {} /\ Read(r, autoLogout, "unmark set")) \/ Done(r)
  BY DEF UnmarkGet
<1>4. \/ /\ autoLogout # {}
         /\ Becomes(r, "unmark set", u, s, autoLogout, {}, req[r].deletes, req[r].target)
      \/ Becomes(r, "idle", NoUser, NoUuid, {}, {}, FALSE, {})
  BY <1>1, <1>3, OfRequest, ReadEffect, DoneEffect, AllSteps DEF LogoutSteps
<1>5. TypeOK'
  <2>1. LocksHeld'
    BY <1>1, <1>2, <1>4, OfRequest, LocksStay DEF Becomes, Holding
  <2> QED BY <1>1, <1>2, <1>3, <1>4, <2>1, OfRequest, BecomesType, FailuresType DEF TypeOK
<1>6. RequestOwnership(r)'
  BY <1>1, <1>2, <1>4
  DEF IInv, NoSpuriousLogout, Becomes, RequestOwnership, LoginSteps, LogoutSteps, RevokeSteps
<1>7. RequestUpToDate(r)'
  BY <1>1, <1>2, <1>4 DEF Becomes, RequestUpToDate
<1>8. Forgives
  BY <1>2, AsBeforeEffect DEF AsBefore
<1> QED BY <1>2, <1>4, <1>5, <1>6, <1>7, <1>8, SilentStep DEF Becomes

LEMMA UnmarkSetKeeps ==
    ASSUME IInv, NEW r \in Requests, UnmarkSet(r)
    PROVE  IInv'
<1>1. PICK s \in excused \cup {NoUuid} :
          /\ req[r].at = "unmark set" /\ req[r].uuid = s
  BY OfRequest DEF UnmarkSet, RequestOwnership, LogoutSteps, TypeOK
<1>2. UNCHANGED <<login, deleted, rowLock, owner, issued, token, madeUp, excused, due, revoked>>
  BY DEF UnmarkSet, mysql, clients, history
<1>3. Becomes(r, "idle", NoUser, NoUuid, {}, {}, FALSE, {})
  BY OfRequest, DoneEffect DEF UnmarkSet
<1>4. /\ autoLogout' = autoLogout \/ autoLogout' = req[r].seen \ {s}
      /\ Fails \/ Works
  BY <1>1 DEF UnmarkSet
<1>5. \A t \in Uuids : t \in excused \/ (t \in req[r].seen <=> t \in autoLogout)
  BY <1>1, OfRequest DEF RequestUpToDate
<1>6. \A t \in Uuids : t = s => t \in excused
  BY <1>1, SessionsAssumption
<1>7. /\ autoLogout' \in SUBSET Uuids
      /\ \A t \in autoLogout' : t \in req[r].seen \/ t \in autoLogout
      /\ \A t \in autoLogout : t \in autoLogout' \/ t \in excused
      /\ \A t \in autoLogout' : t \in autoLogout \/ t \in excused
  BY <1>1, <1>4, <1>5, <1>6, OfRequest DEF TypeOK
<1>8. TypeOK'
  <2>1. LocksHeld'
    BY <1>1, <1>2, <1>3, OfRequest, LocksStay DEF Becomes, Holding
  <2> QED BY <1>2, <1>3, <1>4, <1>7, <2>1, OfRequest, BecomesType, FailuresType DEF TypeOK
<1>9. Grows /\ ListsKept /\ \A q \in Requests \ {r} : NothingUnseen(q)
  BY <1>2, <1>7 DEF Grows, ListsKept, NothingUnseen
<1>10. Ownership' /\ NoSpuriousLogout'
  <2>1. \A t \in req[r].seen : owner[t] \in revoked
    BY <1>1, OfRequest DEF RequestOwnership
  <2> QED BY <1>2, <1>7, <2>1 DEF IInv, Ownership, NoSpuriousLogout
<1>11. RequestOwnership(r)' /\ RequestUpToDate(r)'
  BY <1>3 DEF Becomes, RequestOwnership, RequestUpToDate, LoginSteps, LogoutSteps, RevokeSteps
<1> QED BY <1>2, <1>3, <1>8, <1>9, <1>10, <1>11, StepOf DEF Becomes

-----------------------------------------------------------------------------
(* Revocation.                                                              *)

LEMMA RevocationBegins ==
    ASSUME IInv, NEW r \in Requests, NEW u \in Users, NEW deletes \in BOOLEAN,
           req[r].at = "idle",
           Becomes(r, "revoke update", u, NoUuid, {}, {}, deletes, {}),
           UNCHANGED <<redis, mysql, clients, history>>, failures' \in 0..MaxFailures
    PROVE  IInv'
<1>1. UNCHANGED <<login, autoLogout, deleted, rowLock, owner, issued, token, madeUp,
                  excused, due, revoked>>
  BY DEF redis, mysql, clients, history
<1>2. TypeOK'
  <2>1. LocksHeld'
    BY <1>1, OfRequest, LocksStay DEF Becomes, Holding
  <2> QED BY <1>1, <2>1, OfRequest, BecomesType DEF TypeOK
<1>3. RequestOwnership(r)' /\ RequestUpToDate(r)'
  BY DEF Becomes, RequestOwnership, RequestUpToDate, LoginSteps, LogoutSteps, RevokeSteps
<1>4. Forgives
  BY <1>1, AsBeforeEffect DEF AsBefore
<1> QED BY <1>1, <1>2, <1>3, <1>4, SilentStep DEF Becomes

LEMMA StartChangePasswordKeeps ==
    ASSUME IInv, NEW r \in Requests, NEW s \in Uuids \cup {NoUuid}, NEW u \in Users,
           StartChangePassword(r, s, u)
    PROVE  IInv'
<1>1. Becomes(r, "revoke update", u, NoUuid, {}, {}, FALSE, {})
  BY OfRequest, BeginEffect, AllSteps DEF StartChangePassword, RevokeSteps
<1>2. failures' \in 0..MaxFailures
  BY OfRequest, FailuresType DEF StartChangePassword, NotMarked
<1> QED BY <1>1, <1>2, RevocationBegins DEF StartChangePassword, Begin

LEMMA StartResetPasswordKeeps ==
    ASSUME IInv, NEW r \in Requests, NEW u \in Users, StartResetPassword(r, u)
    PROVE  IInv'
<1>1. Becomes(r, "revoke update", u, NoUuid, {}, {}, FALSE, {})
  BY OfRequest, BeginEffect, AllSteps DEF StartResetPassword, RevokeSteps
<1>2. failures' \in 0..MaxFailures
  BY OfRequest DEF StartResetPassword, TypeOK
<1> QED BY <1>1, <1>2, RevocationBegins DEF StartResetPassword, Begin

LEMMA StartDeleteKeeps ==
    ASSUME IInv, NEW r \in Requests, NEW s \in Uuids \cup {NoUuid}, NEW a \in Admins,
           NEW u \in Users, StartDelete(r, s, a, u)
    PROVE  IInv'
<1> DEFINE v == [Idle EXCEPT !.at = "revoke update", !.user = u, !.deletes = TRUE]
<1>1. req' = [req EXCEPT ![r] = v]
  BY DEF StartDelete
<1>2. /\ v \in Request
      /\ v.at = "revoke update" /\ v.user = u /\ v.uuid = NoUuid /\ v.seen = {}
      /\ v.todo = {} /\ v.deletes = TRUE /\ v.target = {}
  BY DEF Idle, Request, RevokeSteps
<1>3. Becomes(r, "revoke update", u, NoUuid, {}, {}, TRUE, {})
  <2> HIDE DEF v
  <2> QED BY <1>1, <1>2, OfRequest DEF Becomes
<1>4. failures' \in 0..MaxFailures
  BY OfRequest, FailuresType DEF StartDelete, NotMarked
<1> QED BY <1>3, <1>4, RevocationBegins DEF StartDelete

LEMMA RevokeUpdateKeeps ==
    ASSUME IInv, NEW r \in Requests, RevokeUpdate(r)
    PROVE  IInv'
<1> DEFINE u == req[r].user
           target == {s \in issued \ excused : owner[s] = u}
           v == [req[r] EXCEPT !.at = "revoke get", !.target = target]
<1>1. req[r].at = "revoke update" /\ u \in Users /\ req[r].todo = {}
  BY OfRequest DEF RevokeUpdate, RequestOwnership, RevokeSteps
<1>2. /\ UNCHANGED <<login, autoLogout, deleted, owner, issued, token, madeUp, failures,
                     excused, due>>
      /\ rowLock[u] = NoRequest /\ rowLock' = [rowLock EXCEPT ![u] = r]
      /\ revoked' = revoked \cup {u}
      /\ req' = [req EXCEPT ![r] = v]
  BY DEF RevokeUpdate, redis, clients
<1>3. /\ v \in Request
      /\ v.at = "revoke get" /\ v.user = u /\ v.uuid = req[r].uuid /\ v.seen = req[r].seen
      /\ v.todo = req[r].todo /\ v.deletes = req[r].deletes /\ v.target = target
  <2>1. target \in SUBSET Uuids
    BY OfRequest DEF TypeOK
  <2> HIDE DEF target
  <2>2. req[r] \in Request
    BY OfRequest
  <2> QED BY <2>1, <2>2 DEF Request, RevokeSteps
<1>4. Becomes(r, "revoke get", u, req[r].uuid, req[r].seen, {}, req[r].deletes, target)
  <2> HIDE DEF v, target
  <2> QED BY <1>1, <1>2, <1>3, OfRequest DEF Becomes
<1>5. TypeOK'
  <2> HIDE DEF target, v
  <2>1. rowLock' \in [Users -> Requests \cup {NoRequest}] /\ revoked' \in SUBSET Users
    BY <1>1, <1>2, OfRequest DEF TypeOK
  <2>2. /\ req' \in [Requests -> Request]
        /\ \A q \in Requests : req'[q].at # "idle" => req'[q].user \in Users
    BY <1>1, <1>4, OfRequest, BecomesType
  <2>3. LocksHeld'
    <3>1. LocksHeld /\ rowLock \in [Users -> Requests \cup {NoRequest}]
      BY OfRequest DEF TypeOK
    <3>2. req'[r].at \in Holding /\ req'[r].user = u /\ \A q \in Requests : q # r => req'[q] = req[q]
      BY <1>4 DEF Becomes, Holding
    <3> SUFFICES ASSUME NEW w \in Users, rowLock'[w] # NoRequest
                 PROVE  /\ req'[rowLock'[w]].at \in Holding
                        /\ req'[rowLock'[w]].user = w
      BY HoldingSteps DEF LocksHeld
    <3>3. CASE w = u
      BY <1>2, <3>1, <3>2, <3>3
    <3>4. CASE w # u
      <4>1. rowLock'[w] = rowLock[w] /\ rowLock[w] \in Requests
        BY <1>2, <3>1, <3>4
      <4>2. req[rowLock[w]].at \in Holding /\ req[rowLock[w]].user = w
        BY <3>1, <4>1, HoldingSteps DEF LocksHeld
      <4>3. rowLock[w] # r
        BY <1>1, <4>2 DEF Holding
      <4> QED BY <3>2, <4>1, <4>2, <4>3
    <3> QED BY <3>3, <3>4
  <2> HIDE DEF u
  <2> QED BY <1>2, <2>1, <2>2, <2>3, OfRequest DEF TypeOK
<1>6. \A s \in target : owner'[s] = u /\ s \in issued'
  BY <1>2
<1>7. RequestOwnership(r)'
  <2> HIDE DEF target, v, u
  <2> QED BY <1>1, <1>2, <1>4, <1>6
          DEF Becomes, RequestOwnership, LoginSteps, LogoutSteps, RevokeSteps
<1>8. RequestUpToDate(r)'
  <2> HIDE DEF target, v, u
  <2> QED BY <1>4 DEF Becomes, RequestUpToDate
<1>9. revoked \subseteq revoked' /\ Forgives
  BY <1>2, AsBeforeEffect DEF AsBefore
<1> HIDE DEF target, v, u
<1> QED BY <1>2, <1>4, <1>5, <1>7, <1>8, <1>9, SilentStep DEF Becomes

LEMMA RevokeGetKeeps ==
    ASSUME IInv, NEW r \in Requests, RevokeGet(r)
    PROVE  IInv'
<1>1. PICK u \in Users :
          /\ req[r].at = "revoke get" /\ req[r].user = u /\ u \in revoked
          /\ req[r].todo = {} /\ login[u] \in SUBSET Uuids
          /\ \A s \in req[r].target : s \in Uuids /\ owner[s] = u /\ s \in issued
  BY OfRequest DEF RevokeGet, RequestOwnership, RevokeSteps, TypeOK
<1>2. UNCHANGED <<login, autoLogout, deleted, rowLock, owner, issued, token, madeUp, revoked>>
  BY DEF RevokeGet, redis, mysql, clients
<1>3. PICK list \in SUBSET Uuids, step \in {"revoke end", "mark get"} :
          /\ Becomes(r, step, u, req[r].uuid, req[r].seen, list,
                     req[r].deletes, req[r].target)
          /\ Fails \/ Works
          /\ list \subseteq login[u] /\ (step = "revoke end" => list = {})
          /\ Forgives
          /\ list = login[u] \/ req[r].target \subseteq excused'
  <2>1. CASE Fails /\ Goto(r, "revoke end") /\ Excuse(req[r].target)
    <3>1. Becomes(r, "revoke end", u, req[r].uuid, req[r].seen, {},
                  req[r].deletes, req[r].target)
      BY <2>1, <1>1, OfRequest, GotoEffect, AllSteps DEF RevokeSteps
    <3>2. Forgives /\ req[r].target \subseteq excused'
      BY <2>1, OfRequest, ExcuseEffect
    <3>3. \E list \in SUBSET Uuids :
            /\ list = {}
            /\ Becomes(r, "revoke end", u, req[r].uuid, req[r].seen, list,
                       req[r].deletes, req[r].target)
      BY <3>1, Zenon
    <3> QED BY <2>1, <3>2, <3>3
  <2>2. CASE /\ Works
             /\ req' = [req EXCEPT ![r] = [req[r] EXCEPT !.todo = login[u], !.at =
                           IF login[u] = {} THEN "revoke end" ELSE "mark get"]]
             /\ AsBefore
    <3> DEFINE list == login[u]
               step == IF list = {} THEN "revoke end" ELSE "mark get"
               v == [req[r] EXCEPT !.todo = list, !.at = step]
    <3>1. req' = [req EXCEPT ![r] = v]
      BY <2>2
    <3>2. step \in {"revoke end", "mark get"} /\ list \in SUBSET Uuids
          /\ (step = "revoke end" => list = {})
      BY <1>1
    <3>3. req[r] \in Request
      BY OfRequest
    <3> HIDE DEF list, step
    <3>4. /\ v \in Request
          /\ v.at = step /\ v.user = u /\ v.uuid = req[r].uuid /\ v.seen = req[r].seen
          /\ v.todo = list /\ v.deletes = req[r].deletes /\ v.target = req[r].target
      BY <1>1, <3>2, <3>3 DEF Request, RevokeSteps
    <3>5. Becomes(r, step, u, req[r].uuid, req[r].seen, list, req[r].deletes, req[r].target)
      <4> HIDE DEF v
      <4> QED BY <3>1, <3>4, OfRequest DEF Becomes
    <3>6. Forgives
      BY <2>2, AsBeforeEffect
    <3>7. list = login[u]
      BY DEF list
    <3> QED BY <2>2, <3>2, <3>5, <3>6, <3>7
  <2> QED BY <1>1, <2>1, <2>2 DEF RevokeGet
<1>4. TypeOK'
  <2>1. LocksHeld'
    BY <1>1, <1>2, <1>3, OfRequest, LocksStay DEF Becomes, Holding
  <2>2. due' \in SUBSET Uuids /\ excused' \in SUBSET Uuids
    BY <1>3, OfRequest DEF Forgives, TypeOK
  <2> QED BY <1>1, <1>2, <1>3, <2>1, <2>2, OfRequest, BecomesType, FailuresType DEF TypeOK
<1>5. \A s \in list : owner[s] = u
  BY <1>3 DEF IInv, Ownership
<1>6. RequestOwnership(r)'
  <2>1. \A s \in req[r].target : owner'[s] = u /\ s \in issued'
    BY <1>1, <1>2
  <2> QED BY <1>1, <1>2, <1>3, <1>5, <2>1
          DEF Becomes, RequestOwnership, LoginSteps, LogoutSteps, RevokeSteps
<1>7. RequestUpToDate(r)'
  <2>1. \A s \in req[r].target : s \in list \/ s \in excused'
    BY <1>1, <1>2, <1>3 DEF IInv, Listed, Forgives
  <2> QED BY <1>3, <2>1 DEF Becomes, RequestUpToDate
<1> QED BY <1>2, <1>3, <1>4, <1>6, <1>7, SilentStep DEF Becomes

LEMMA MarkGetKeeps ==
    ASSUME IInv, NEW r \in Requests, MarkGet(r)
    PROVE  IInv'
<1>1. PICK u \in Users :
          /\ req[r].at = "mark get" /\ req[r].user = u /\ u \in revoked
          /\ autoLogout \in SUBSET Uuids
  BY OfRequest DEF MarkGet, RequestOwnership, RevokeSteps, TypeOK
<1>2. UNCHANGED <<login, autoLogout, deleted, rowLock, owner, issued, token, madeUp, revoked>>
  BY DEF MarkGet, redis, mysql, clients
<1>3. PICK list \in SUBSET Uuids, t \in req[r].todo :
          /\ ToMark(r, t, list) /\ (Fails \/ Works)
          /\ Forgives
          /\ list = autoLogout \/ (list = {} /\ autoLogout \subseteq excused')
  <2>1. PICK t \in req[r].todo :
            \/ Works /\ ToMark(r, t, autoLogout) /\ AsBefore
            \/ Fails /\ ToMark(r, t, {}) /\ Excuse(autoLogout)
    BY DEF MarkGet
  <2>2. CASE Works /\ ToMark(r, t, autoLogout) /\ AsBefore
    BY <1>1, <2>2, AsBeforeEffect
  <2>3. CASE Fails /\ ToMark(r, t, {}) /\ Excuse(autoLogout)
    BY <1>1, <2>3, ExcuseEffect
  <2> QED BY <2>1, <2>2, <2>3
<1>4. Becomes(r, "mark set", u, t, list,
              req[r].todo, req[r].deletes, req[r].target)
  BY <1>1, <1>3, OfRequest, ToMarkEffect
<1>5. TypeOK'
  <2>1. LocksHeld'
    BY <1>1, <1>2, <1>4, OfRequest, LocksStay DEF Becomes, Holding
  <2>2. due' \in SUBSET Uuids /\ excused' \in SUBSET Uuids
    BY <1>3, OfRequest DEF Forgives, TypeOK
  <2> QED BY <1>1, <1>2, <1>3, <1>4, <2>1, <2>2, OfRequest, BecomesType, FailuresType DEF TypeOK
<1>6. RequestOwnership(r)'
  <2>1. \A s \in req[r].target : owner'[s] = u /\ s \in issued'
    BY <1>1, <1>2, OfRequest DEF RequestOwnership, RevokeSteps
  <2>2. \A s \in req[r].todo : owner'[s] = u
    BY <1>1, <1>2, OfRequest DEF RequestOwnership, RevokeSteps
  <2>3. \A s \in list : owner'[s] \in revoked'
    BY <1>2, <1>3 DEF IInv, NoSpuriousLogout
  <2> QED BY <1>1, <1>2, <1>4, <2>1, <2>2, <2>3
          DEF Becomes, RequestOwnership, LoginSteps, LogoutSteps, RevokeSteps
<1>7. RequestUpToDate(r)'
  <2>1. \A s \in req[r].target : s \in req[r].todo \/ s \in autoLogout' \/ s \in excused'
    BY <1>1, <1>2, <1>3, OfRequest DEF RequestUpToDate, Forgives
  <2>2. \A s \in Uuids : s \in excused' \/ (s \in list <=> s \in autoLogout')
    BY <1>2, <1>3
  <2> QED BY <1>4, <2>1, <2>2 DEF Becomes, RequestUpToDate
<1> QED BY <1>2, <1>3, <1>4, <1>5, <1>6, <1>7, SilentStep DEF Becomes

LEMMA MarkSetKeeps ==
    ASSUME IInv, NEW r \in Requests, MarkSet(r)
    PROVE  IInv'
<1>1. PICK u \in Users, s \in req[r].todo :
          /\ req[r].at = "mark set" /\ req[r].user = u /\ u \in revoked
          /\ s \in Uuids /\ owner[s] = u
          /\ \/ /\ Works
                /\ autoLogout' = req[r].seen \cup {s}
                /\ Excuse(IF AutoLogoutOpen(r) THEN {s} ELSE {})
             \/ Fails /\ UNCHANGED autoLogout /\ Excuse({s})
          /\ NextMark(r, s)
  <2>1. req[r].at = "mark set"
    BY DEF MarkSet
  <2>2. /\ req[r].user \in Users /\ req[r].user \in revoked
        /\ req[r].uuid \in req[r].todo /\ req[r].uuid \in Uuids /\ owner[req[r].uuid] = req[r].user
    BY <2>1, OfRequest DEF RequestOwnership, RevokeSteps
  <2> QED BY <2>1, <2>2 DEF MarkSet
<1>2. UNCHANGED <<login, deleted, rowLock, owner, issued, token, madeUp, revoked>>
  BY DEF MarkSet, mysql, clients
<1>3. PICK step \in {"revoke end", "mark get"} :
          /\ Becomes(r, step, u, NoUuid, {}, req[r].todo \ {s},
                     req[r].deletes, req[r].target)
          /\ step = "revoke end" => req[r].todo = {s}
  BY <1>1, OfRequest, NextMarkEffect
<1>4. /\ autoLogout' \in SUBSET Uuids /\ Forgives
      /\ s \in autoLogout' \/ s \in excused'
      /\ \A t \in autoLogout' : t = s \/ t \in req[r].seen \/ t \in autoLogout
      /\ autoLogout' = autoLogout \/ \A t \in req[r].seen : t \in autoLogout'
      /\ AutoLogoutOpen(r) => s \in excused'
  <2>1. CASE /\ autoLogout' = req[r].seen \cup {s}
             /\ Excuse(IF AutoLogoutOpen(r) THEN {s} ELSE {})
    <3>1. (IF AutoLogoutOpen(r) THEN {s} ELSE {}) \in SUBSET Uuids
      BY <1>1
    <3>2. Forgives /\ excused' = excused \cup (IF AutoLogoutOpen(r) THEN {s} ELSE {})
      BY <2>1, <3>1, ExcuseEffect
    <3> QED BY <1>1, <2>1, <3>2, OfRequest
  <2>2. CASE UNCHANGED autoLogout /\ Excuse({s})
    <3>1. Forgives /\ excused' = excused \cup {s}
      BY <1>1, <2>2, ExcuseEffect
    <3> QED BY <2>2, <3>1, OfRequest DEF TypeOK
  <2> QED BY <1>1, <2>1, <2>2
<1>5. TypeOK'
  <2>1. failures' \in 0..MaxFailures
    BY <1>1, OfRequest, FailuresType
  <2>2. LocksHeld'
    BY <1>1, <1>2, <1>3, OfRequest, LocksStay DEF Becomes, Holding
  <2>3. due' \in SUBSET Uuids /\ excused' \in SUBSET Uuids
    BY <1>4, OfRequest DEF Forgives, TypeOK
  <2> QED BY <1>1, <1>2, <1>3, <1>4, <2>1, <2>2, <2>3, OfRequest, BecomesType DEF TypeOK
<1>6. Grows
  BY <1>2, <1>4 DEF Grows, Forgives
<1>7. \A t \in Uuids : t \in excused' \/ (t \in req[r].seen <=> t \in autoLogout)
  BY <1>1, <1>6, OfRequest DEF RequestUpToDate, Grows
<1>8. \A t \in autoLogout : t \in autoLogout' \/ t \in excused'
  BY <1>4, <1>7, OfRequest DEF TypeOK
<1>9. ListsKept
  BY <1>2, <1>8 DEF ListsKept
<1>10. ASSUME NEW q \in Requests \ {r} PROVE NothingUnseen(q)
  <2> SUFFICES ASSUME req[q].at \in {"mark set", "unmark set"}, NEW t \in autoLogout'
               PROVE  t \in autoLogout \/ t \in excused'
    BY <1>2 DEF NothingUnseen
  <2>1. s \in excused'
    BY <1>4 DEF AutoLogoutOpen
  <2> QED BY <2>1, <1>4, <1>7, OfRequest
<1>11. NoSpuriousLogout'
  <2>1. \A t \in req[r].seen : owner[t] \in revoked
    BY <1>1, OfRequest DEF RequestOwnership
  <2> QED BY <1>1, <1>2, <1>4, <2>1 DEF IInv, NoSpuriousLogout
<1>12. Ownership'
  BY <1>2, <1>4 DEF IInv, Ownership, Forgives
<1>13. RequestOwnership(r)'
  <2>1. \A t \in req[r].target : owner'[t] = u /\ t \in issued'
    BY <1>1, <1>2, OfRequest DEF RequestOwnership, RevokeSteps
  <2>2. \A t \in req[r].todo : owner'[t] = u
    BY <1>1, <1>2, OfRequest DEF RequestOwnership, RevokeSteps
  <2>3. step = "revoke end" => req[r].todo \ {s} = {}
    BY <1>3
  <2> QED BY <1>1, <1>2, <1>3, <2>1, <2>2, <2>3
          DEF Becomes, RequestOwnership, LoginSteps, LogoutSteps, RevokeSteps
<1>14. RequestUpToDate(r)'
  <2>1. \A t \in req[r].target : t \in req[r].todo \/ t \in autoLogout \/ t \in excused'
    BY <1>1, <1>6, OfRequest DEF RequestUpToDate, Grows
  <2>2. \A t \in req[r].target :
            t \in req[r].todo \ {s} \/ t \in autoLogout' \/ t \in excused'
    BY <2>1, <1>4, <1>8
  <2> QED BY <1>3, <2>2 DEF Becomes, RequestUpToDate
<1>15. due' \subseteq due \cup autoLogout'
  BY <1>4 DEF Forgives
<1> QED BY <1>2, <1>3, <1>5, <1>6, <1>9, <1>10, <1>11, <1>12, <1>13, <1>14, <1>15, StepOf
        DEF Becomes

\* A request that ends gives its lock back.
LEMMA LockReleased ==
    ASSUME TypeOK, NEW r \in Requests, \A q \in Requests : q # r => req'[q] = req[q],
           rowLock' \in [Users -> Requests \cup {NoRequest}],
           \A u \in Users : rowLock'[u] \in {rowLock[u], NoRequest},
           \A u \in Users : rowLock'[u] # r
    PROVE  LocksHeld'
<1> SUFFICES ASSUME NEW u \in Users, rowLock'[u] # NoRequest
             PROVE  /\ req'[rowLock'[u]].at \in Holding
                    /\ req'[rowLock'[u]].user = u
  BY HoldingSteps DEF LocksHeld
<1>1. rowLock'[u] = rowLock[u] /\ rowLock[u] \in Requests /\ rowLock[u] # r
  OBVIOUS
<1>2. req[rowLock[u]].at \in Holding /\ req[rowLock[u]].user = u
  BY <1>1, HoldingSteps DEF TypeOK, LocksHeld
<1> QED BY <1>1, <1>2

LEMMA RevokeEndKeeps ==
    ASSUME IInv, NEW r \in Requests, RevokeEnd(r)
    PROVE  IInv'
<1>1. PICK u \in Users :
          /\ req[r].at = "revoke end" /\ req[r].user = u
          /\ \A s \in req[r].target :
                s \in Uuids /\ s \in issued /\ (s \in autoLogout \/ s \in excused)
  BY OfRequest
  DEF RevokeEnd, RequestOwnership, RequestUpToDate, RevokeSteps
<1>2. UNCHANGED <<login, autoLogout, owner, issued, token, madeUp, excused, revoked>>
  BY DEF RevokeEnd, redis, clients
<1>3. Becomes(r, "idle", NoUser, NoUuid, {}, {}, FALSE, {})
  BY OfRequest, DoneEffect DEF RevokeEnd
<1>4. /\ rowLock' = [rowLock EXCEPT ![u] = NoRequest]
      /\ deleted' \in SUBSET Users
      /\ due' = due \/ due' = due \cup (req[r].target \ excused)
      /\ Fails \/ Works
  BY <1>1, OfRequest DEF RevokeEnd, TypeOK
<1>5. due' \in SUBSET Uuids /\ due' \cap excused = {} /\ due' \subseteq issued
  BY <1>1, <1>4, OfRequest DEF IInv, Ownership, TypeOK
<1>6. due' \subseteq due \cup autoLogout'
  BY <1>1, <1>2, <1>4
<1>7. TypeOK'
  <2>1. failures' \in 0..MaxFailures
    BY <1>4, OfRequest, FailuresType
  <2>2. /\ rowLock' \in [Users -> Requests \cup {NoRequest}]
        /\ \A w \in Users : rowLock'[w] \in {rowLock[w], NoRequest}
    BY <1>4, OfRequest DEF TypeOK
  <2>3. \A w \in Users : rowLock'[w] # r
    <3> SUFFICES ASSUME NEW w \in Users, rowLock'[w] = r PROVE FALSE
      OBVIOUS
    <3>1. w # u /\ rowLock[w] = r
      BY <1>4, OfRequest, SessionsAssumption DEF TypeOK
    <3> QED BY <1>1, <3>1, OfRequest, SessionsAssumption DEF TypeOK, LocksHeld
  <2>4. LocksHeld'
    BY <1>3, <2>2, <2>3, OfRequest, LockReleased DEF Becomes
  <2> QED BY <1>2, <1>3, <1>4, <1>5, <2>1, <2>2, <2>4, OfRequest, BecomesType DEF TypeOK
<1>8. Grows /\ ListsKept /\ \A q \in Requests \ {r} : NothingUnseen(q)
  BY <1>2 DEF Grows, ListsKept, NothingUnseen
<1>9. Ownership' /\ NoSpuriousLogout'
  BY <1>2, <1>5 DEF IInv, Ownership, NoSpuriousLogout
<1>10. RequestOwnership(r)' /\ RequestUpToDate(r)'
  BY <1>3 DEF Becomes, RequestOwnership, RequestUpToDate, LoginSteps, LogoutSteps, RevokeSteps
<1> QED BY <1>2, <1>3, <1>6, <1>7, <1>8, <1>9, <1>10, StepOf DEF Becomes

LEMMA RevokeAbortKeeps ==
    ASSUME IInv, NEW r \in Requests, RevokeAbort(r)
    PROVE  IInv'
<1>1. UNCHANGED <<login, autoLogout, deleted, owner, issued, token, madeUp, excused, due, revoked>>
  BY DEF RevokeAbort, redis, clients, history
<1>2. Becomes(r, "idle", NoUser, NoUuid, {}, {}, FALSE, {})
  BY OfRequest, DoneEffect DEF RevokeAbort
<1>3. TypeOK'
  <2>1. failures' \in 0..MaxFailures
    BY OfRequest, FailuresType DEF RevokeAbort
  <2>2. /\ rowLock' \in [Users -> Requests \cup {NoRequest}]
        /\ \A w \in Users : rowLock'[w] \in {rowLock[w], NoRequest} /\ rowLock'[w] # r
    BY OfRequest, SessionsAssumption DEF TypeOK, RevokeAbort
  <2>3. LocksHeld'
    BY <1>2, <2>2, OfRequest, LockReleased DEF Becomes
  <2> QED BY <1>1, <1>2, <2>1, <2>2, <2>3, OfRequest, BecomesType DEF TypeOK
<1>4. RequestOwnership(r)' /\ RequestUpToDate(r)'
  BY <1>2 DEF Becomes, RequestOwnership, RequestUpToDate, LoginSteps, LogoutSteps, RevokeSteps
<1>5. Forgives
  BY <1>1, AsBeforeEffect DEF AsBefore
<1> QED BY <1>1, <1>2, <1>3, <1>4, <1>5, SilentStep DEF Becomes

-----------------------------------------------------------------------------
(* Tokens and restarts.                                                     *)

\* What no request does and only tokens and failures show.
LEMMA TokenStep ==
    ASSUME IInv, UNCHANGED <<redis, mysql, owner, issued, req, history>>,
           token' \in SUBSET Claims, madeUp' \in SUBSET Claims,
           failures' \in 0..MaxFailures
    PROVE  IInv'
<1>1. UNCHANGED <<login, autoLogout, deleted, rowLock, owner, issued, req,
                  excused, due, revoked>>
  BY DEF redis, mysql, history
<1>2. TypeOK'
  BY <1>1 DEF IInv, TypeOK, LocksHeld
<1>3. Grows /\ ListsKept /\ \A q \in Requests : NothingUnseen(q)
  BY <1>1 DEF Grows, ListsKept, NothingUnseen
<1>4. Ownership' /\ NoSpuriousLogout' /\ RevokedStayRefused'
  BY <1>1 DEF IInv, Ownership, NoSpuriousLogout, RevokedStayRefused
<1>5. Listed'
  BY <1>1 DEF IInv, Listed
<1>6. \A q \in Requests : RequestOwnership(q)' /\ RequestUpToDate(q)'
  BY <1>1, <1>2, <1>3, OthersOwnership, OthersUpToDate DEF IInv
<1> QED BY <1>2, <1>4, <1>5, <1>6 DEF IInv

LEMMA TokensKeep ==
    ASSUME IInv, NEW s \in Uuids \cup {NoUuid}, NEW u \in Users,
           MakeUp(s, u) \/ Expire(s, u) \/ Renew(s, u)
    PROVE  IInv'
<1>1. <<s, u>> \in Claims
  BY DEF Claims
<1>2. token' \in SUBSET Claims /\ madeUp' \in SUBSET Claims
  BY <1>1 DEF MakeUp, Expire, Renew, IInv, TypeOK
<1>3. failures' \in 0..MaxFailures
  BY FailuresType DEF MakeUp, Expire, Renew, IInv, Works
<1> QED BY <1>2, <1>3, TokenStep DEF MakeUp, Expire, Renew

LEMMA CrashKeeps ==
    ASSUME IInv, Crash
    PROVE  IInv'
<1>1. UNCHANGED <<login, autoLogout, deleted, owner, issued, token, madeUp, excused, due, revoked>>
  BY DEF Crash, redis, clients, history
<1>2. \A r \in Requests : req'[r].at = "idle" /\ req'[r].todo = {}
  BY DEF Crash, Idle
<1>3. TypeOK'
  <2>1. failures' \in 0..MaxFailures
    BY FailuresType DEF Crash, IInv
  <2>2. /\ req' \in [Requests -> Request]
        /\ \A r \in Requests : req'[r].at = "idle"
    BY IdleRequest DEF Crash, Idle
  <2>3. rowLock' \in [Users -> Requests \cup {NoRequest}]
    BY DEF Crash
  <2>4. LocksHeld'
    BY DEF Crash, LocksHeld
  <2> QED BY <1>1, <2>1, <2>2, <2>3, <2>4 DEF IInv, TypeOK
<1>4. Ownership' /\ NoSpuriousLogout' /\ Listed' /\ RevokedStayRefused'
  BY <1>1 DEF IInv, Ownership, NoSpuriousLogout, Listed, RevokedStayRefused
<1>5. \A r \in Requests : RequestOwnership(r)' /\ RequestUpToDate(r)'
  BY <1>2 DEF RequestOwnership, RequestUpToDate, LoginSteps, LogoutSteps, RevokeSteps
<1> QED BY <1>3, <1>4, <1>5 DEF IInv

-----------------------------------------------------------------------------

LEMMA InitIInv == Init => IInv
<1> SUFFICES ASSUME Init PROVE IInv
  OBVIOUS
<1>1. TypeOK
  <2>1. /\ req \in [Requests -> Request]
        /\ \A r \in Requests : req[r].at = "idle"
    BY IdleRequest DEF Init, Idle
  <2>2. failures \in 0..MaxFailures
    BY SessionsAssumption DEF Init
  <2>3. LocksHeld
    BY DEF Init, LocksHeld
  <2> QED BY <2>1, <2>2, <2>3 DEF Init, TypeOK
<1>2. Ownership /\ NoSpuriousLogout /\ Listed /\ RevokedStayRefused
  BY DEF Init, Ownership, NoSpuriousLogout, Listed, RevokedStayRefused
<1>3. \A r \in Requests : RequestOwnership(r) /\ RequestUpToDate(r)
  BY DEF Init, Idle, RequestOwnership, RequestUpToDate, LoginSteps, LogoutSteps, RevokeSteps
<1> QED BY <1>1, <1>2, <1>3 DEF IInv

LEMMA ServeKeeps ==
    ASSUME IInv, NEW r \in Requests, Serve(r)
    PROVE  IInv'
<1>1. CASE \E u \in Users, s \in Uuids : StartLogin(r, u, s)
  BY <1>1, StartLoginKeeps
<1>2. CASE \E u \in Users : StartResetPassword(r, u)
  BY <1>2, StartResetPasswordKeeps
<1>3. CASE \E u \in Users, s \in Uuids \cup {NoUuid} :
              \/ StartLogout(r, s, u) \/ StartChangePassword(r, s, u)
              \/ \E a \in Admins : StartDelete(r, s, a, u)
  BY <1>3, StartLogoutKeeps, StartChangePasswordKeeps, StartDeleteKeeps
<1>4. CASE LoginGet(r) \/ LoginSet(r) \/ LoginEnd(r)
  BY <1>4, LoginGetKeeps, LoginSetKeeps, LoginEndKeeps
<1>5. CASE LogoutGet(r) \/ LogoutSet(r) \/ UnmarkGet(r) \/ UnmarkSet(r)
  BY <1>5, LogoutGetKeeps, LogoutSetKeeps, UnmarkGetKeeps, UnmarkSetKeeps
<1>6. CASE RevokeUpdate(r) \/ RevokeGet(r) \/ MarkGet(r) \/ MarkSet(r)
  BY <1>6, RevokeUpdateKeeps, RevokeGetKeeps, MarkGetKeeps, MarkSetKeeps
<1>7. CASE RevokeEnd(r) \/ RevokeAbort(r)
  BY <1>7, RevokeEndKeeps, RevokeAbortKeeps
<1> QED BY <1>1, <1>2, <1>3, <1>4, <1>5, <1>6, <1>7 DEF Serve

LEMMA StutterKeeps ==
    ASSUME IInv, UNCHANGED vars
    PROVE  IInv'
<1>1. UNCHANGED <<redis, mysql, owner, issued, token, madeUp, req, failures, history>>
  BY DEF vars, redis, mysql, history
<1>2. /\ token' \in SUBSET Claims /\ madeUp' \in SUBSET Claims
      /\ failures' \in 0..MaxFailures
  BY <1>1 DEF IInv, TypeOK
<1> QED BY <1>1, <1>2, TokenStep

LEMMA NextKeeps == IInv /\ [Next]_vars => IInv'
<1> SUFFICES ASSUME IInv, [Next]_vars PROVE IInv'
  OBVIOUS
<1>1. CASE \E r \in Requests : Serve(r)
  BY <1>1, ServeKeeps
<1>2. CASE \E s \in Uuids \cup {NoUuid}, u \in Users :
              MakeUp(s, u) \/ Expire(s, u) \/ Renew(s, u)
  BY <1>2, TokensKeep
<1>3. CASE Crash
  BY <1>3, CrashKeeps
<1>4. CASE UNCHANGED vars
  BY <1>4, StutterKeeps
<1> QED BY <1>1, <1>2, <1>3, <1>4 DEF Next

\* The strengthened invariant holds in every reachable state, whatever the
\* requests interleave and whichever Redis commands and commits fail (the GET
\* and SET of general.go 832-858 as called by login, logout and revocation).
THEOREM Invariant == Spec => []IInv
<1>1. Init => IInv
  BY InitIInv
<1>2. IInv /\ [Next]_vars => IInv'
  BY NextKeeps
<1> QED BY <1>1, <1>2, PTL DEF Spec

\* The variables keep their types, and a busy request has a user.
THEOREM TypeCorrect == Spec => []TypeOK
<1>1. IInv => TypeOK
  BY DEF IInv
<1> QED BY <1>1, Invariant, PTL

\* Whatever stale lists the requests write back, a uuid on AUTO_LOGOUT is one
\* of a user whose password was changed or who was deleted.
THEOREM NobodyElse == Spec => []NoSpuriousLogout
<1>1. IInv => NoSpuriousLogout
  BY DEF IInv
<1> QED BY <1>1, Invariant, PTL

\* The sessions a committed revocation was to end are refused until a logout names
\* them, whoever's it is and whatever id it comes with, apart from those that a failed
\* Redis command or an overlapping GET and SET of the same list may lose.
THEOREM RevokedRefused == Spec => []RevokedStayRefused
<1>1. IInv => RevokedStayRefused
  BY DEF IInv
<1> QED BY <1>1, Invariant, PTL

-----------------------------------------------------------------------------
(* The lists of uuids are used as sets.                                     *)

SetSteps == {"login set", "logout set", "mark set", "unmark set"}

LEMMA NothingToSet ==
    \A q : q.at \notin SetSteps => ListChange(q) = {}
  BY DEF SetSteps, ListChange

\* A step of r alone that shows in neither the lists nor what r is to write.
LEMMA ListsStay ==
    ASSUME NEW r \in Requests, \A q \in Requests \ {r} : req'[q] = req[q],
           UNCHANGED redis, req[r].at \notin SetSteps, req'[r].at \notin SetSteps
    PROVE  UNCHANGED L!vars
<1>1. \A q \in Requests : ListChange(req'[q]) = ListChange(req[q])
  BY NothingToSet
<1>2. UNCHANGED ListChanges
  BY <1>1 DEF ListChanges, ListChange
<1> QED BY <1>2 DEF L!vars, UuidLists, redis

\* A step of r alone to the SET of change d, or from it on.
LEMMA ChangeBegins ==
    ASSUME NEW r \in Requests, \A q \in Requests \ {r} : req'[q] = req[q],
           NEW d, ListChange(req'[r]) = {d}
    PROVE  ListChanges' = [ListChanges EXCEPT ![r] = {d}] /\ ListChanges'[r] # {}
<1>1. \A q \in Requests : ListChange(req[q])' = IF q = r THEN {d} ELSE ListChange(req[q])
  BY DEF ListChange
<1>2. ListChanges' = [q \in Requests |-> ListChange(req[q])']
  BY DEF ListChanges
<1> QED BY <1>1, <1>2 DEF ListChanges

LEMMA ChangeEnds ==
    ASSUME NEW r \in Requests, \A q \in Requests \ {r} : req'[q] = req[q],
           req'[r].at \notin SetSteps
    PROVE  ListChanges' = [ListChanges EXCEPT ![r] = {}]
<1>1. \A q \in Requests : ListChange(req[q])' = IF q = r THEN {} ELSE ListChange(req[q])
  BY DEF ListChange, SetSteps
<1>2. ListChanges' = [q \in Requests |-> ListChange(req[q])']
  BY DEF ListChanges
<1> QED BY <1>1, <1>2 DEF ListChanges

\* The list of key k, and a SET of it.
LEMMA ListOf ==
    /\ \A u \in Users : UuidLists[u] = login[u]
    /\ UuidLists[NoUser] = autoLogout
  BY SessionsAssumption DEF UuidLists

LEMMA ListSet ==
    ASSUME TypeOK, NEW new
    PROVE  /\ \A u \in Users : login' = [login EXCEPT ![u] = new] /\ UNCHANGED autoLogout =>
                 UuidLists' = [UuidLists EXCEPT ![u] = new]
           /\ autoLogout' = new /\ UNCHANGED login =>
                 UuidLists' = [UuidLists EXCEPT ![NoUser] = new]
  BY SessionsAssumption DEF TypeOK, UuidLists

\* r has read the list of key k and is to change it for uuid s.
LEMMA GetIsRead ==
    ASSUME NEW r \in Requests, \A q \in Requests \ {r} : req'[q] = req[q], UNCHANGED redis,
           req[r].at \notin SetSteps, NEW op \in {"append", "remove"},
           NEW k \in Users \cup {NoUser}, NEW s \in Uuids \cup {NoUuid}, NEW list \in {UuidLists[k], {}},
           ListChange(req'[r]) = {[op |-> op, key |-> k, id |-> s, seen |-> list]}
    PROVE  L!Next
<1> DEFINE d == [op |-> op, key |-> k, id |-> s, seen |-> list]
<1>1. ListChanges' = [ListChanges EXCEPT ![r] = {d}] /\ ListChanges'[r] # {}
  BY ChangeBegins
<1>2. ListChanges[r] = {}
  BY NothingToSet DEF ListChanges
<1>3. UNCHANGED UuidLists
  BY DEF UuidLists, redis
<1>4. L!Read(r, op, k, s)
  BY <1>1, <1>2, <1>3 DEF L!Read
<1> QED BY <1>4 DEF L!Next

\* r sets its list, or does not, and its change is no longer pending.
LEMMA SetIsWrite ==
    ASSUME NEW r \in Requests, NEW d, d \in ListChange(req[r]),
           ListChanges' = [ListChanges EXCEPT ![r] = {}],
           \/ UNCHANGED redis
           \/ UuidLists' = [UuidLists EXCEPT ![d.key] = L!Result(d)]
    PROVE  L!Next
<1>1. d \in ListChanges[r]
  BY DEF ListChanges
<1>2. UNCHANGED redis => UNCHANGED UuidLists
  BY DEF UuidLists, redis
<1>3. L!Write(r) \/ L!Forget(r)
  BY <1>1, <1>2 DEF L!Write, L!Forget
<1> QED BY <1>3 DEF L!Next

LEMMA LoginGetIsRead ==
    ASSUME IInv, NEW r \in Requests, LoginGet(r)
    PROVE  L!Next
<1>1. PICK u \in Users, s \in Uuids :
          req[r].at = "login get" /\ req[r].user = u /\ req[r].uuid = s /\ login[u] \in SUBSET Uuids
  BY OfRequest DEF LoginGet, RequestOwnership, LoginSteps
<1>2. PICK list \in {login[u], {}} : Read(r, list, "login set") /\ UNCHANGED redis
  BY <1>1 DEF LoginGet
<1>3. Becomes(r, "login set", u, s, list, req[r].todo, req[r].deletes, req[r].target)
  BY <1>1, <1>2, OfRequest, ReadEffect, AllSteps DEF LoginSteps
<1>4. ListChange(req'[r]) = {[op |-> "append", key |-> u, id |-> s, seen |-> list]}
  BY <1>3 DEF Becomes, ListChange
<1>5. u \in Users \cup {NoUser} /\ list \in {UuidLists[u], {}} /\ req[r].at \notin SetSteps
  BY <1>1, ListOf DEF SetSteps
<1>6. UNCHANGED redis /\ \A q \in Requests \ {r} : req'[q] = req[q]
  BY <1>2, <1>3 DEF Becomes
<1> QED BY <1>4, <1>5, <1>6, GetIsRead

LEMMA LogoutGetIsRead ==
    ASSUME IInv, NEW r \in Requests, LogoutGet(r)
    PROVE  L!Next \/ UNCHANGED L!vars
<1>1. PICK u \in Users, s \in Uuids \cup {NoUuid} :
          req[r].at = "logout get" /\ req[r].user = u /\ req[r].uuid = s /\ login[u] \in SUBSET Uuids
  <2>1. req[r].at = "logout get"
    BY DEF LogoutGet
  <2>2. req[r].user \in Users /\ req[r].uuid \in Uuids \cup {NoUuid}
    BY <2>1, OfRequest DEF RequestOwnership, LogoutSteps, TypeOK
  <2> QED BY <2>1, <2>2, OfRequest
<1>2. UNCHANGED redis
  BY DEF LogoutGet
<1>3. CASE Read(r, login[u], "logout set")
  <2>1. Becomes(r, "logout set", u, s, login[u], req[r].todo, req[r].deletes, req[r].target)
    BY <1>1, <1>3, OfRequest, ReadEffect, AllSteps DEF LogoutSteps
  <2>2. ListChange(req'[r]) = {[op |-> "remove", key |-> u, id |-> s, seen |-> login[u]]}
    BY <2>1 DEF Becomes, ListChange
  <2>3. login[u] \in {UuidLists[u], {}} /\ req[r].at \notin SetSteps
    BY <1>1, ListOf DEF SetSteps
  <2>4. UNCHANGED redis /\ \A q \in Requests \ {r} : req'[q] = req[q]
    BY <1>2, <2>1 DEF Becomes
  <2> QED BY <1>1, <2>2, <2>3, <2>4, GetIsRead
<1>4. CASE Goto(r, "unmark get")
  <2>1. Becomes(r, "unmark get", u, s, req[r].seen, req[r].todo, req[r].deletes, req[r].target)
    BY <1>1, <1>4, OfRequest, GotoEffect, AllSteps DEF LogoutSteps
  <2> QED BY <1>1, <1>2, <2>1, ListsStay DEF Becomes, SetSteps
<1> QED BY <1>1, <1>3, <1>4 DEF LogoutGet

LEMMA UnmarkGetIsRead ==
    ASSUME IInv, NEW r \in Requests, UnmarkGet(r)
    PROVE  L!Next \/ UNCHANGED L!vars
<1>1. PICK s \in Uuids \cup {NoUuid} :
          req[r].at = "unmark get" /\ req[r].uuid = s /\ autoLogout \in SUBSET Uuids
  BY OfRequest DEF UnmarkGet, RequestOwnership, LogoutSteps, TypeOK
<1>2. UNCHANGED redis
  BY DEF UnmarkGet
<1>3. CASE Read(r, autoLogout, "unmark set")
  <2>1. Becomes(r, "unmark set", req[r].user, s, autoLogout,
                req[r].todo, req[r].deletes, req[r].target)
    BY <1>1, <1>3, OfRequest, ReadEffect, AllSteps DEF LogoutSteps
  <2>2. ListChange(req'[r]) = {[op |-> "remove", key |-> NoUser, id |-> s, seen |-> autoLogout]}
    BY <2>1 DEF Becomes, ListChange
  <2>3. autoLogout \in {UuidLists[NoUser], {}} /\ req[r].at \notin SetSteps
    BY <1>1, ListOf DEF SetSteps
  <2>4. UNCHANGED redis /\ \A q \in Requests \ {r} : req'[q] = req[q]
    BY <1>2, <2>1 DEF Becomes
  <2> QED BY <1>1, <2>2, <2>3, <2>4, GetIsRead
<1>4. CASE Done(r)
  <2>1. Becomes(r, "idle", NoUser, NoUuid, {}, {}, FALSE, {})
    BY <1>4, OfRequest, DoneEffect
  <2> QED BY <1>1, <1>2, <2>1, ListsStay DEF Becomes, SetSteps
<1> QED BY <1>3, <1>4 DEF UnmarkGet

LEMMA MarkGetIsRead ==
    ASSUME IInv, NEW r \in Requests, MarkGet(r)
    PROVE  L!Next
<1>1. req[r].at = "mark get" /\ UNCHANGED redis /\ autoLogout \in SUBSET Uuids
  BY OfRequest DEF MarkGet, TypeOK
<1>2. PICK s \in req[r].todo, list \in {autoLogout, {}} : ToMark(r, s, list)
  BY DEF MarkGet
<1>3. s \in Uuids /\ Becomes(r, "mark set", req[r].user, s, list,
                              req[r].todo, req[r].deletes, req[r].target)
  BY <1>1, <1>2, OfRequest, ToMarkEffect
<1>4. ListChange(req'[r]) = {[op |-> "append", key |-> NoUser, id |-> s, seen |-> list]}
  BY <1>3 DEF Becomes, ListChange
<1>5. list \in {UuidLists[NoUser], {}} /\ req[r].at \notin SetSteps
  BY <1>1, ListOf DEF SetSteps
<1>6. UNCHANGED redis /\ \A q \in Requests \ {r} : req'[q] = req[q]
  BY <1>1, <1>3 DEF Becomes
<1> QED BY <1>3, <1>4, <1>5, <1>6, GetIsRead

LEMMA LoginSetIsWrite ==
    ASSUME IInv, NEW r \in Requests, LoginSet(r)
    PROVE  L!Next
<1>1. PICK u \in Users, s \in Uuids :
          req[r].at = "login set" /\ req[r].user = u /\ req[r].uuid = s
  BY OfRequest DEF LoginSet, RequestOwnership, LoginSteps
<1> DEFINE d == [op |-> "append", key |-> u, id |-> s, seen |-> req[r].seen]
<1>2. Becomes(r, "login end", u, s, {}, req[r].todo, req[r].deletes, req[r].target)
  BY <1>1, OfRequest, WroteEffect, AllSteps DEF LoginSet, LoginSteps
<1>3. ListChanges' = [ListChanges EXCEPT ![r] = {}]
  BY <1>2, ChangeEnds DEF Becomes, SetSteps
<1>4. d \in ListChange(req[r]) /\ d.key = u /\ L!Result(d) = req[r].seen \cup {s}
  BY <1>1 DEF ListChange, L!Result
<1>5. UNCHANGED redis \/ UuidLists' = [UuidLists EXCEPT ![u] = req[r].seen \cup {s}]
  BY <1>1, OfRequest, ListSet DEF LoginSet, redis
<1> HIDE DEF d
<1> QED BY <1>3, <1>4, <1>5, SetIsWrite

LEMMA LogoutSetIsWrite ==
    ASSUME IInv, NEW r \in Requests, LogoutSet(r)
    PROVE  L!Next
<1>1. PICK u \in Users, s \in Uuids \cup {NoUuid} :
          req[r].at = "logout set" /\ req[r].user = u /\ req[r].uuid = s /\ req[r].seen # {}
  <2>1. req[r].at = "logout set"
    BY DEF LogoutSet
  <2>2. /\ req[r].user \in Users /\ req[r].uuid \in Uuids \cup {NoUuid}
        /\ req[r].seen # {}
    BY <2>1, OfRequest DEF RequestOwnership, LogoutSteps, TypeOK
  <2> QED BY <2>1, <2>2
<1> DEFINE d == [op |-> "remove", key |-> u, id |-> s, seen |-> req[r].seen]
<1>2. Becomes(r, "unmark get", u, s, {}, req[r].todo, req[r].deletes, req[r].target)
  BY <1>1, OfRequest, WroteEffect, AllSteps DEF LogoutSet, LogoutSteps
<1>3. ListChanges' = [ListChanges EXCEPT ![r] = {}]
  BY <1>2, ChangeEnds DEF Becomes, SetSteps
<1>4. d \in ListChange(req[r]) /\ d.key = u /\ L!Result(d) = req[r].seen \ {s}
  BY <1>1 DEF ListChange, L!Result
<1>5. UNCHANGED redis \/ UuidLists' = [UuidLists EXCEPT ![u] = req[r].seen \ {s}]
  BY <1>1, OfRequest, ListSet DEF LogoutSet, redis
<1> HIDE DEF d
<1> QED BY <1>3, <1>4, <1>5, SetIsWrite

LEMMA UnmarkSetIsWrite ==
    ASSUME IInv, NEW r \in Requests, UnmarkSet(r)
    PROVE  L!Next
<1>1. PICK s \in Uuids \cup {NoUuid} :
          req[r].at = "unmark set" /\ req[r].uuid = s /\ req[r].seen # {}
  BY OfRequest DEF UnmarkSet, RequestOwnership, LogoutSteps, TypeOK
<1> DEFINE d == [op |-> "remove", key |-> NoUser, id |-> s, seen |-> req[r].seen]
<1>2. Becomes(r, "idle", NoUser, NoUuid, {}, {}, FALSE, {})
  BY OfRequest, DoneEffect DEF UnmarkSet
<1>3. ListChanges' = [ListChanges EXCEPT ![r] = {}]
  BY <1>2, ChangeEnds DEF Becomes, SetSteps
<1>4. d \in ListChange(req[r]) /\ d.key = NoUser /\ L!Result(d) = req[r].seen \ {s}
  BY <1>1 DEF ListChange, L!Result
<1>5. UNCHANGED redis \/ UuidLists' = [UuidLists EXCEPT ![NoUser] = req[r].seen \ {s}]
  BY <1>1, OfRequest, ListSet DEF UnmarkSet, redis
<1> HIDE DEF d
<1> QED BY <1>3, <1>4, <1>5, SetIsWrite

LEMMA MarkSetIsWrite ==
    ASSUME IInv, NEW r \in Requests, MarkSet(r)
    PROVE  L!Next
<1>1. PICK s \in req[r].todo :
          req[r].at = "mark set" /\ req[r].uuid = s /\ NextMark(r, s)
  BY OfRequest DEF MarkSet, RequestOwnership
<1> DEFINE d == [op |-> "append", key |-> NoUser, id |-> s, seen |-> req[r].seen]
<1>2. /\ \A q \in Requests \ {r} : req'[q] = req[q]
      /\ req'[r].at \in {"revoke end", "mark get"}
  BY <1>1, OfRequest, NextMarkEffect DEF Becomes
<1>3. ListChanges' = [ListChanges EXCEPT ![r] = {}]
  BY <1>2, ChangeEnds DEF SetSteps
<1>4. d \in ListChange(req[r]) /\ d.key = NoUser /\ L!Result(d) = req[r].seen \cup {s}
  BY <1>1 DEF ListChange, L!Result
<1>5. UNCHANGED redis \/ UuidLists' = [UuidLists EXCEPT ![NoUser] = req[r].seen \cup {s}]
  BY <1>1, OfRequest, ListSet DEF MarkSet, redis
<1> HIDE DEF d
<1> QED BY <1>3, <1>4, <1>5, SetIsWrite

LEMMA ServeUsesLists ==
    ASSUME IInv, NEW r \in Requests, Serve(r)
    PROVE  L!Next \/ UNCHANGED L!vars
<1>1. req \in [Requests -> Request]
  BY OfRequest
<1>2. CASE \/ \E u \in Users, s \in Uuids : StartLogin(r, u, s)
           \/ \E u \in Users : StartResetPassword(r, u)
           \/ \E u \in Users, s \in Uuids \cup {NoUuid} :
                 \/ StartLogout(r, s, u) \/ StartChangePassword(r, s, u)
                 \/ \E a \in Admins : StartDelete(r, s, a, u)
  <2>1. UNCHANGED redis /\ req[r].at = "idle"
    BY <1>2 DEF StartLogin, StartDelete, StartResetPassword, StartLogout,
                StartChangePassword, Begin
  <2>2. CASE \/ \E u \in Users, s \in Uuids : StartLogin(r, u, s)
             \/ \E u \in Users : StartResetPassword(r, u)
             \/ \E u \in Users, s \in Uuids \cup {NoUuid} :
                   StartLogout(r, s, u) \/ StartChangePassword(r, s, u)
    <3>1. PICK step \in {"login get", "logout get", "revoke update"} : \E u, s : Begin(r, step, u, s)
      <4>1. \/ \E u, s : Begin(r, "login get", u, s)
            \/ \E u, s : Begin(r, "logout get", u, s)
            \/ \E u, s : Begin(r, "revoke update", u, s)
        BY <2>2, Zenon DEF StartLogin, StartResetPassword, StartLogout, StartChangePassword
      <4> QED BY <4>1, Zenon
    <3>2. PICK u, s :
             req' = [req EXCEPT ![r] = [Idle EXCEPT !.at = step, !.user = u, !.uuid = s]]
      BY <3>1, Zenon DEF Begin
    <3>3. (\A q \in Requests \ {r} : req'[q] = req[q]) /\ req'[r].at = step
      BY <1>1, <3>2 DEF Idle
    <3> QED BY <2>1, <3>3, ListsStay DEF SetSteps
  <2>3. CASE \E u \in Users, s \in Uuids \cup {NoUuid}, a \in Admins : StartDelete(r, s, a, u)
    <3>1. PICK u : req' = [req EXCEPT ![r] = [Idle EXCEPT !.at = "revoke update", !.user = u,
                                                          !.deletes = TRUE]]
      BY <2>3, Zenon DEF StartDelete
    <3>2. (\A q \in Requests \ {r} : req'[q] = req[q]) /\ req'[r].at = "revoke update"
      BY <1>1, <3>1 DEF Idle
    <3> QED BY <2>1, <3>2, ListsStay DEF SetSteps
  <2> QED BY <1>2, <2>2, <2>3
<1>3. CASE LoginGet(r) \/ LoginSet(r)
  BY <1>3, LoginGetIsRead, LoginSetIsWrite
<1>4. CASE LogoutGet(r) \/ LogoutSet(r) \/ UnmarkGet(r) \/ UnmarkSet(r)
  BY <1>4, LogoutGetIsRead, LogoutSetIsWrite, UnmarkGetIsRead, UnmarkSetIsWrite
<1>5. CASE MarkGet(r) \/ MarkSet(r)
  BY <1>5, MarkGetIsRead, MarkSetIsWrite
<1>6. CASE LoginEnd(r) \/ RevokeEnd(r) \/ RevokeAbort(r)
  <2>1. /\ UNCHANGED redis /\ req[r].at \notin SetSteps
        /\ Done(r)
    BY <1>6 DEF LoginEnd, RevokeEnd, RevokeAbort, SetSteps
  <2> QED BY <1>1, <2>1, DoneEffect, ListsStay DEF Becomes, SetSteps
<1>7. CASE RevokeUpdate(r) \/ RevokeGet(r)
  <2>1. UNCHANGED redis /\ req[r].at \notin SetSteps
    BY <1>7 DEF RevokeUpdate, RevokeGet, SetSteps
  <2>2. req[r] \in Request
    BY <1>1
  <2>3. CASE RevokeUpdate(r)
    <3>1. PICK target : req' = [req EXCEPT ![r] =
                            [@ EXCEPT !.at = "revoke get", !.target = target]]
      BY <2>3, Zenon DEF RevokeUpdate
    <3>2. (\A q \in Requests \ {r} : req'[q] = req[q]) /\ req'[r].at = "revoke get"
      BY <1>1, <2>2, <3>1 DEF Request
    <3> QED BY <2>1, <3>2, ListsStay DEF SetSteps
  <2>4. CASE RevokeGet(r)
    <3> DEFINE list == login[req[r].user]
    <3>1. (\A q \in Requests \ {r} : req'[q] = req[q]) /\
          req'[r].at \in {"revoke end", "mark get"}
      <4>1. CASE req' = [req EXCEPT ![r] = [@ EXCEPT !.todo = list, !.at =
                           IF list = {} THEN "revoke end" ELSE "mark get"]]
        BY <1>1, <2>2, <4>1 DEF Request
      <4>2. CASE Goto(r, "revoke end")
        BY <1>1, <2>2, <4>2 DEF Goto, Request
      <4> QED BY <2>4, <4>1, <4>2, Zenon DEF RevokeGet
    <3> QED BY <2>1, <3>1, ListsStay DEF SetSteps
  <2> QED BY <1>7, <2>3, <2>4
<1> QED BY <1>2, <1>3, <1>4, <1>5, <1>6, <1>7 DEF Serve

\* Logins, logouts and revocations change the two kinds of uuid list by the GET and
\* SET of the helpers alone, each of the key it has read (general.go 832-858).
THEOREM UuidListsImplementIdSets == Spec => UuidListsAreSets
<1>1. Init => L!Init
  <2> SUFFICES ASSUME Init PROVE L!Init
    OBVIOUS
  <2>1. \A r \in Requests : ListChange(req[r]) = {}
    BY NothingToSet DEF Init, Idle, SetSteps
  <2>2. UuidLists = [k \in Users \cup {NoUser} |-> {}]
    BY DEF Init, UuidLists
  <2> QED BY <2>1, <2>2 DEF L!Init, ListChanges
<1>2. IInv /\ [Next]_vars => [L!Next]_L!vars
  <2> SUFFICES ASSUME IInv, [Next]_vars PROVE L!Next \/ UNCHANGED L!vars
    OBVIOUS
  <2>1. CASE \E r \in Requests : Serve(r)
    BY <2>1, ServeUsesLists
  <2>2. CASE \E s \in Uuids \cup {NoUuid}, u \in Users :
                MakeUp(s, u) \/ Expire(s, u) \/ Renew(s, u)
    <3>1. UNCHANGED <<redis, req>>
      BY <2>2 DEF MakeUp, Expire, Renew
    <3> QED BY <3>1 DEF redis, L!vars, UuidLists, ListChanges, ListChange
  <2>3. CASE Crash
    <3>1. \A r \in Requests : ListChange(req'[r]) = {}
      BY <2>3, NothingToSet DEF Crash, Idle, SetSteps
    <3>2. ListChanges' = [r \in Requests |-> {}] /\ UNCHANGED UuidLists
      BY <2>3, <3>1 DEF Crash, redis, ListChanges, ListChange, UuidLists
    <3> QED BY <3>2 DEF L!Next, L!Restart
  <2>4. CASE UNCHANGED vars
    BY <2>4 DEF vars, L!vars, UuidLists, ListChanges, ListChange
  <2> QED BY <2>1, <2>2, <2>3, <2>4 DEF Next
<1> QED BY <1>1, <1>2, Invariant, PTL DEF Spec, UuidListsAreSets, L!Spec

-----------------------------------------------------------------------------
(* The refresh of a token.                                                  *)

\* A step of Sessions leaves every claim in the world: a login that is issued keeps
\* its owner, and clients forget nothing.
LEMMA ClaimedStays ==
    ASSUME IInv, [Next]_vars, NEW s \in Uuids \cup {NoUuid}, NEW u \in Users, Claimed(s, u)
    PROVE  Claimed(s, u)'
<1>1. SUFFICES /\ issued \subseteq issued' /\ madeUp \subseteq madeUp'
               /\ \A t \in issued : owner'[t] = owner[t]
  BY DEF Claimed
<1>2. issued \subseteq Uuids /\ owner \in [Uuids -> Users \cup {NoUser}]
      /\ \A t \in issued : owner[t] \in Users
  BY DEF IInv, TypeOK, Ownership
<1>3. CASE \E t \in Uuids \cup {NoUuid}, v \in Users :
              MakeUp(t, v) \/ Expire(t, v) \/ Renew(t, v)
  BY <1>3 DEF MakeUp, Expire, Renew
<1>4. CASE Crash
  BY <1>4 DEF Crash, clients
<1>5. CASE UNCHANGED vars
  BY <1>5 DEF vars
<1>6. ASSUME NEW r \in Requests, NEW v \in Users, NEW t \in Uuids, StartLogin(r, v, t)
      PROVE  issued' = issued /\ madeUp' = madeUp /\ \A w \in issued : owner'[w] = owner[w]
  BY <1>2, <1>6, SessionsAssumption DEF StartLogin
<1>7. ASSUME NEW r \in Requests, LoginEnd(r)
      PROVE  issued \subseteq issued' /\ madeUp' = madeUp /\ owner' = owner
  BY <1>7 DEF LoginEnd
<1>8. ASSUME NEW r \in Requests, Serve(r), ~LoginEnd(r),
             ~ \E v \in Users, t \in Uuids : StartLogin(r, v, t)
      PROVE  UNCHANGED clients
  BY <1>8 DEF Serve, StartDelete, StartResetPassword, StartLogout, StartChangePassword,
     LoginGet, LoginSet, LogoutGet, LogoutSet, UnmarkGet, UnmarkSet,
     RevokeUpdate, RevokeGet, MarkGet, MarkSet, RevokeEnd, RevokeAbort
<1>9. CASE \E r \in Requests : Serve(r)
  BY <1>6, <1>7, <1>8, <1>9 DEF clients
<1> QED BY <1>3, <1>4, <1>5, <1>9 DEF Next

LEMMA RefusingFinite ==
    ASSUME NEW s
    PROVE  IsFiniteSet(Refusing(s)) /\ Cardinality(Refusing(s)) \in Nat
<1>1. Refusing(s) \in SUBSET Refreshers
  BY DEF Refusing
<1>2. IsFiniteSet(Refusing(s))
  BY <1>1, FS_Subset, RefreshTokenAssumption
<1> QED BY <1>2, FS_CardinalityType

\* Multiples of the limit, for the provers.
LEMMA Multiples ==
    ASSUME NEW n \in Nat
    PROVE  /\ MaxRefresh * n \in Nat
           /\ MaxRefresh * (n + 1) = MaxRefresh * n + MaxRefresh
           /\ \A m \in Nat : m <= n => MaxRefresh * m <= MaxRefresh * n
<1>1. MaxRefresh \in Nat
  BY RefreshTokenAssumption
<1> QED BY <1>1

\* Refresh q has come to this step with these claims, the others stay.
Turns(q, at, uuid, user) ==
    /\ renewal' \in [Refreshers -> Renewal]
    /\ \A p \in Refreshers : p # q => renewal'[p] = renewal[p]
    /\ renewal'[q].at = at /\ renewal'[q].uuid = uuid /\ renewal'[q].user = user

LEMMA StepEffect ==
    ASSUME RefreshTypeOK, NEW q \in Refreshers, NEW next \in {"find", "del", "sign"},
           Step(q, next)
    PROVE  Turns(q, next, renewal[q].uuid, renewal[q].user)
<1> DEFINE v == [renewal[q] EXCEPT !.at = next]
<1>1. renewal \in [Refreshers -> Renewal]
  BY DEF RefreshTypeOK
<1>2. renewal[q] \in Renewal
  BY <1>1
<1>3. v \in Renewal /\ v.at = next /\ v.uuid = renewal[q].uuid /\ v.user = renewal[q].user
  BY <1>2 DEF Renewal
<1>4. renewal' = [renewal EXCEPT ![q] = v]
  BY DEF Step
<1> HIDE DEF v
<1> QED BY <1>1, <1>3, <1>4 DEF Turns

LEMMA FreeEffect ==
    ASSUME RefreshTypeOK, NEW q \in Refreshers, Free(q)
    PROVE  Turns(q, "idle", NoUuid, NoUser)
<1>1. renewal \in [Refreshers -> Renewal]
  BY DEF RefreshTypeOK
<1>2. /\ NoRenewal \in Renewal /\ NoRenewal.at = "idle"
      /\ NoRenewal.uuid = NoUuid /\ NoRenewal.user = NoUser
  BY DEF NoRenewal, Renewal
<1> QED BY <1>1, <1>2 DEF Free, Turns

LEMMA RefusalAdded ==
    ASSUME NEW q \in Refreshers, NEW s, NEW u, Turns(q, "del", s, u)
    PROVE  Refusing(s)' = Refusing(s) \cup {q}
BY DEF Refusing, Turns

LEMMA NoRefusalAdded ==
    ASSUME NEW q \in Refreshers, NEW at, NEW uuid, NEW user, NEW s,
           Turns(q, at, uuid, user),
           at # "del" \/ uuid # s
    PROVE  Refusing(s)' = Refusing(s) \ {q}
BY DEF Refusing, Turns

-----------------------------------------------------------------------------
(* Each step of a refresh is Renew, Crash or a stutter of Sessions.         *)

LEMMA SignImplements ==
    ASSUME RefreshTypeOK, NEW q \in Refreshers, RefreshSign(q)
    PROVE  Next
<1>1. PICK s \in Uuids \cup {NoUuid}, u \in Users :
          s = renewal[q].uuid /\ u = renewal[q].user /\ Claimed(s, u)
  BY DEF RefreshSign, RefreshTypeOK, Renewal
<1>2. Renew(s, u)
  BY <1>1 DEF RefreshSign, Renew
<1> QED BY <1>2 DEF Next

LEMMA RefreshImplements ==
    ASSUME RefreshTypeOK, [RefreshNext]_allVars
    PROVE  [Next]_vars
<1>1. CASE UNCHANGED allVars
  BY <1>1 DEF allVars
<1>2. CASE \E q \in Refreshers, s \in Uuids \cup {NoUuid}, u \in Users : StartRefresh(q, s, u)
  BY <1>2 DEF StartRefresh
<1>3. CASE \E q \in Refreshers : \/ RefreshPass(q) \/ RefreshRefuse(q) \/ RefreshFails(q)
                                 \/ RefreshDel(q) \/ RefreshFind(q)
  BY <1>3 DEF RefreshPass, RefreshRefuse, RefreshFails, RefreshDel, RefreshFind
<1>4. CASE \E q \in Refreshers : RefreshSign(q)
  BY <1>4, SignImplements
<1>5. CASE \E r \in Requests : Serve(r)
  BY <1>5 DEF Next
<1>6. CASE \E s \in Uuids \cup {NoUuid}, u \in Users : Expire(s, u) \/ RefreshMakeUp(s, u)
  BY <1>6 DEF Next, RefreshMakeUp
<1>7. CASE RefreshCrash
  BY <1>7 DEF Next, RefreshCrash
<1> QED BY <1>1, <1>2, <1>3, <1>4, <1>5, <1>6, <1>7 DEF RefreshNext

-----------------------------------------------------------------------------
(* RefreshIInv is inductive.                                                *)

\* The uuids that a token can have.
Ids == Uuids \cup {NoUuid}

LEMMA RefreshTypeKeeps ==
    ASSUME IInv, RefreshTypeOK, [Next]_vars,
           refreshes' \in [Ids -> Nat], credit' \in [Ids -> Int],
           errors' \in 0..MaxErrors, renewal' \in [Refreshers -> Renewal],
           \A q \in Refreshers : renewal'[q].at # "idle" =>
               renewal'[q].user \in Users /\ Claimed(renewal'[q].uuid, renewal'[q].user)
    PROVE  RefreshTypeOK'
<1>1. ASSUME NEW q \in Refreshers, renewal'[q].at # "idle"
      PROVE  renewal'[q].user \in Users /\ Claimed(renewal[q].uuid, renewal[q].user)'
  <2>1. PICK s \in Ids, u \in Users :
            s = renewal'[q].uuid /\ u = renewal'[q].user /\ Claimed(s, u)
    BY <1>1 DEF Renewal, Ids
  <2>2. Claimed(s, u)'
    BY <2>1, ClaimedStays DEF Ids
  <2> QED BY <2>1, <2>2 DEF Claimed
<1> QED BY <1>1 DEF RefreshTypeOK, Ids

LEMMA ErrorsType ==
    ASSUME RefreshTypeOK, Error \/ NoError
    PROVE  errors' \in 0..MaxErrors
BY RefreshTokenAssumption DEF RefreshTypeOK, Error, NoError

\* A refresh comes to a step, with claims that came in or at rest: the types are kept.
LEMMA RenewalType ==
    ASSUME IInv, RefreshTypeOK, [Next]_vars,
           NEW q \in Refreshers, NEW at, NEW uuid, NEW user, Turns(q, at, uuid, user),
           at # "idle" => user \in Users /\ Claimed(uuid, user),
           refreshes' \in [Ids -> Nat], credit' \in [Ids -> Int],
           errors' \in 0..MaxErrors
    PROVE  RefreshTypeOK'
<1>1. renewal' \in [Refreshers -> Renewal]
  BY DEF Turns
<1>2. \A p \in Refreshers : renewal'[p].at # "idle" =>
          renewal'[p].user \in Users /\ Claimed(renewal'[p].uuid, renewal'[p].user)
  BY DEF Turns, RefreshTypeOK
<1> QED BY <1>1, <1>2, RefreshTypeKeeps

LEMMA RemainingRange ==
    ASSUME RefreshTypeOK, NEW s \in Ids
    PROVE  Remaining(s) \in 0..MaxRefresh
BY RefreshTokenAssumption DEF Remaining, Least, RefreshTypeOK, Ids

\* No refusal is added and the credit pays for the change of the counter.
LEMMA BudgetStays ==
    ASSUME RefreshIInv, refreshes' \in [Ids -> Nat], credit' \in [Ids -> Int],
           NEW s \in Ids, Refusing(s)' \in SUBSET Refusing(s),
           Remaining(s)' - credit'[s] <= Remaining(s) - credit[s]
    PROVE  CreditCovers(s)'
<1> DEFINE n == MaxRefresh * Cardinality(Refusing(s))
           m == MaxRefresh * Cardinality(Refusing(s)')
<1>1. Cardinality(Refusing(s)') <= Cardinality(Refusing(s))
  BY RefusingFinite, FS_Subset
<1>2. Cardinality(Refusing(s)') \in Nat
  BY RefusingFinite, FS_Subset, FS_CardinalityType
<1>3. m <= n /\ m \in Nat /\ n \in Nat
  BY <1>1, <1>2, RefusingFinite, Multiples
<1>4. Remaining(s) \in Int /\ Remaining(s)' \in Int /\ credit[s] \in Int /\ credit'[s] \in Int
  BY RefreshTokenAssumption DEF Remaining, Least, RefreshIInv, RefreshTypeOK, Ids
<1>5. credit[s] >= Remaining(s) + n
  BY DEF RefreshIInv, CreditCovers, Ids
<1>6. credit'[s] >= Remaining(s)' + m
  <2> HIDE DEF n, m
  <2> QED BY <1>3, <1>4, <1>5
<1> QED BY <1>6 DEF CreditCovers

\* No refresh of s is refused, and neither its counter goes down nor its credit moves.
LEMMA BudgetOfOthers ==
    ASSUME RefreshIInv, NEW q \in Refreshers, NEW at, NEW uuid, NEW user,
           Turns(q, at, uuid, user),
           refreshes' \in [Ids -> Nat], credit' \in [Ids -> Int],
           NEW s \in Ids, at # "del" \/ uuid # s,
           refreshes'[s] >= refreshes[s], credit'[s] = credit[s]
    PROVE  CreditCovers(s)'
<1>1. Refusing(s)' \in SUBSET Refusing(s)
  BY NoRefusalAdded
<1>2. Remaining(s)' - credit'[s] <= Remaining(s) - credit[s]
  BY RefreshTokenAssumption DEF Remaining, Least, RefreshIInv, RefreshTypeOK, Ids
<1> QED BY <1>1, <1>2, BudgetStays

LEMMA StartRefreshKeeps ==
    ASSUME IInv, RefreshIInv, [Next]_vars, NEW q \in Refreshers, NEW s \in Ids,
           NEW u \in Users, StartRefresh(q, s, u)
    PROVE  RefreshIInv'
<1> DEFINE v == [at |-> "incr", uuid |-> s, user |-> u]
<1>1. /\ renewal' = [renewal EXCEPT ![q] = v] /\ Claimed(s, u)
      /\ refreshes' = refreshes /\ credit' = credit /\ (Error \/ NoError)
  BY DEF StartRefresh
<1>2. Turns(q, "incr", s, u)
  <2>1. v \in Renewal /\ v.at = "incr" /\ v.uuid = s /\ v.user = u
    BY DEF Renewal, Ids
  <2> HIDE DEF v
  <2> QED BY <1>1, <2>1 DEF Turns, RefreshIInv, RefreshTypeOK, Ids
<1>3. refreshes' \in [Ids -> Nat] /\ credit' \in [Ids -> Int]
  BY <1>1 DEF RefreshIInv, RefreshTypeOK, Ids
<1>4. RefreshTypeOK'
  BY <1>1, <1>2, <1>3, ErrorsType, RenewalType DEF RefreshIInv, Ids
<1>5. ASSUME NEW t \in Ids PROVE CreditCovers(t)'
  <2>1. refreshes'[t] >= refreshes[t] /\ credit'[t] = credit[t]
    BY <1>1 DEF RefreshIInv, RefreshTypeOK, Ids
  <2> QED BY <1>2, <1>3, <2>1, BudgetOfOthers
<1> QED BY <1>4, <1>5 DEF RefreshIInv, Ids

LEMMA RefreshPassKeeps ==
    ASSUME IInv, RefreshIInv, [Next]_vars, NEW q \in Refreshers, RefreshPass(q)
    PROVE  RefreshIInv'
<1>1. PICK s \in Ids, u \in Users :
          s = renewal[q].uuid /\ u = renewal[q].user /\ Claimed(s, u)
  BY DEF RefreshPass, RefreshIInv, RefreshTypeOK, Renewal, Ids
<1>2. Turns(q, "find", s, u)
  BY <1>1, StepEffect DEF RefreshPass, RefreshIInv
<1>3. /\ refreshes' = [refreshes EXCEPT ![s] = refreshes[s] + 1] /\ refreshes[s] < MaxRefresh
      /\ credit' = [credit EXCEPT ![s] = credit[s] - 1] /\ NoError
  BY <1>1 DEF RefreshPass, NoError
<1>4. /\ refreshes \in [Ids -> Nat] /\ refreshes' \in [Ids -> Nat]
      /\ credit \in [Ids -> Int] /\ credit' \in [Ids -> Int]
  BY <1>1, <1>3 DEF RefreshIInv, RefreshTypeOK, Ids
<1>6. RefreshTypeOK'
  BY <1>1, <1>2, <1>3, <1>4, ErrorsType, RenewalType DEF RefreshIInv, Ids
<1>7. ASSUME NEW t \in Ids, t # s PROVE CreditCovers(t)'
  <2>1. refreshes'[t] >= refreshes[t] /\ credit'[t] = credit[t]
    BY <1>1, <1>3, <1>4, <1>7
  <2> QED BY <1>2, <1>4, <2>1, BudgetOfOthers
<1>8. CreditCovers(s)'
  <2>1. Refusing(s)' \in SUBSET Refusing(s)
    BY <1>2, NoRefusalAdded
  <2>2. Remaining(s)' - credit'[s] <= Remaining(s) - credit[s]
    BY <1>1, <1>3, <1>4, RefreshTokenAssumption DEF Remaining, Least
  <2> QED BY <1>1, <1>4, <2>1, <2>2, BudgetStays
<1> QED BY <1>6, <1>7, <1>8 DEF RefreshIInv, Ids

LEMMA RefreshRefuseKeeps ==
    ASSUME IInv, RefreshIInv, [Next]_vars, NEW q \in Refreshers, RefreshRefuse(q)
    PROVE  RefreshIInv'
<1>1. PICK s \in Ids, u \in Users :
          s = renewal[q].uuid /\ u = renewal[q].user /\ Claimed(s, u)
  BY DEF RefreshRefuse, RefreshIInv, RefreshTypeOK, Renewal, Ids
<1> DEFINE n == Cardinality(Refusing(s))
           all == Cardinality(Refreshers)
<1>2. Turns(q, "del", s, u)
  BY <1>1, StepEffect DEF RefreshRefuse, RefreshIInv
<1>3. /\ refreshes' = [refreshes EXCEPT ![s] = refreshes[s] + 1] /\ refreshes[s] >= MaxRefresh
      /\ credit' = [credit EXCEPT ![s] = Least(credit[s] + MaxRefresh, FullCredit)] /\ NoError
  BY <1>1 DEF RefreshRefuse, NoError
<1>4. all \in Nat /\ MaxRefresh \in Nat /\ FullCredit \in Nat /\ MaxRefresh * all <= FullCredit
  <2>1. all \in Nat
    BY FS_CardinalityType, RefreshTokenAssumption
  <2>2. MaxRefresh * all \in Nat /\ MaxRefresh * (all + 1) = MaxRefresh * all + MaxRefresh
    BY <2>1, Multiples
  <2> QED BY <2>1, <2>2, RefreshTokenAssumption DEF FullCredit
<1>5. /\ refreshes \in [Ids -> Nat] /\ refreshes' \in [Ids -> Nat]
      /\ credit \in [Ids -> Int] /\ credit' \in [Ids -> Int]
  BY <1>1, <1>3, <1>4 DEF RefreshIInv, RefreshTypeOK, Ids, Least
<1>7. RefreshTypeOK'
  BY <1>1, <1>2, <1>3, <1>5, ErrorsType, RenewalType DEF RefreshIInv, Ids
<1>8. ASSUME NEW t \in Ids, t # s PROVE CreditCovers(t)'
  <2>1. refreshes'[t] >= refreshes[t] /\ credit'[t] = credit[t]
    BY <1>1, <1>3, <1>5, <1>8
  <2> QED BY <1>2, <1>5, <1>8, <2>1, BudgetOfOthers
<1>9. CreditCovers(s)'
  <2>1. Refusing(s)' = Refusing(s) \cup {q} /\ q \notin Refusing(s)
    BY <1>2, RefusalAdded DEF RefreshRefuse, Refusing
  <2>2. n \in Nat /\ Cardinality(Refusing(s)') = n + 1
    BY <2>1, RefusingFinite, FS_AddElement
  <2>3. n + 1 <= all
    <3>1. Refusing(s)' \in SUBSET Refreshers
      BY <2>1 DEF Refusing
    <3> QED BY <2>2, <3>1, FS_Subset, RefreshTokenAssumption
  <2>4. MaxRefresh * (n + 1) <= MaxRefresh * all
    BY <1>4, <2>2, <2>3, Multiples
  <2>5. MaxRefresh * (n + 1) = MaxRefresh * n + MaxRefresh /\ MaxRefresh * n \in Nat
    BY <2>2, Multiples
  <2>6. Remaining(s) = 0 /\ Remaining(s)' = 0
    BY <1>1, <1>3, <1>4, <1>5 DEF Remaining, Least
  <2>7. credit[s] >= Remaining(s) + MaxRefresh * n
    BY <1>1 DEF RefreshIInv, CreditCovers, Ids
  <2>8. credit'[s] >= MaxRefresh * (n + 1)
    <3>1. credit[s] + MaxRefresh >= MaxRefresh * (n + 1)
      BY <1>1, <1>4, <1>5, <2>5, <2>6, <2>7
    <3>2. FullCredit >= MaxRefresh * (n + 1)
      BY <1>4, <2>4, <2>5, Multiples
    <3> QED BY <1>1, <1>3, <1>5, <3>1, <3>2 DEF Least
  <2> QED BY <2>2, <2>5, <2>6, <2>8, <1>4 DEF CreditCovers
<1> QED BY <1>7, <1>8, <1>9 DEF RefreshIInv, Ids

\* The goroutine is free again and no counter went down: whichever way it came here.
LEMMA FreeKeeps ==
    ASSUME IInv, RefreshIInv, [Next]_vars, NEW q \in Refreshers, Free(q),
           refreshes' \in [Ids -> Nat], \A s \in Ids : refreshes'[s] >= refreshes[s],
           UNCHANGED credit, Error \/ NoError
    PROVE  RefreshIInv'
<1>1. Turns(q, "idle", NoUuid, NoUser)
  BY FreeEffect DEF RefreshIInv, Ids
<1>2. credit' \in [Ids -> Int]
  BY DEF RefreshIInv, RefreshTypeOK, Ids
<1>4. RefreshTypeOK'
  BY <1>1, <1>2, ErrorsType, RenewalType DEF RefreshIInv, Ids
<1>5. ASSUME NEW t \in Ids PROVE CreditCovers(t)'
  BY <1>1, <1>2, BudgetOfOthers
<1> QED BY <1>4, <1>5 DEF RefreshIInv, Ids

LEMMA RefreshFailsKeeps ==
    ASSUME IInv, RefreshIInv, [Next]_vars, NEW q \in Refreshers, RefreshFails(q)
    PROVE  RefreshIInv'
<1> DEFINE s == renewal[q].uuid
<1>1. s \in Ids /\ refreshes \in [Ids -> Nat]
  BY DEF RefreshFails, RefreshIInv, RefreshTypeOK, Renewal, Ids
<1>2. refreshes' = refreshes \/ refreshes' = [refreshes EXCEPT ![s] = refreshes[s] + 1]
  BY DEF RefreshFails
<1>3. refreshes' \in [Ids -> Nat] /\ \A t \in Ids : refreshes'[t] >= refreshes[t]
  BY <1>1, <1>2
<1> QED BY <1>3, FreeKeeps DEF RefreshFails

LEMMA RefreshFindKeeps ==
    ASSUME IInv, RefreshIInv, [Next]_vars, NEW q \in Refreshers, RefreshFind(q)
    PROVE  RefreshIInv'
<1> DEFINE s == renewal[q].uuid
           u == renewal[q].user
<1>1. /\ refreshes \in [Ids -> Nat] /\ credit \in [Ids -> Int]
      /\ refreshes' = refreshes /\ credit' = credit /\ (Error \/ NoError)
  BY DEF RefreshFind, RefreshIInv, RefreshTypeOK, Ids
<1>2. \A t \in Ids : refreshes'[t] >= refreshes[t] /\ credit'[t] = credit[t]
  BY <1>1
<1>3. CASE Free(q)
  BY <1>1, <1>2, <1>3, FreeKeeps
<1>4. CASE Step(q, "sign")
  <2>1. u \in Users /\ Claimed(s, u)
    BY DEF RefreshFind, RefreshIInv, RefreshTypeOK, Ids
  <2>2. Turns(q, "sign", s, u)
    BY <1>4, StepEffect DEF RefreshIInv, Ids
  <2>4. RefreshTypeOK'
    BY <1>1, <2>1, <2>2, ErrorsType, RenewalType DEF RefreshIInv, Ids
  <2>5. ASSUME NEW t \in Ids PROVE CreditCovers(t)'
    BY <1>1, <1>2, <2>2, BudgetOfOthers
  <2> QED BY <2>4, <2>5 DEF RefreshIInv, Ids
<1> QED BY <1>3, <1>4 DEF RefreshFind

LEMMA RefreshDelKeeps ==
    ASSUME IInv, RefreshIInv, [Next]_vars, NEW q \in Refreshers, RefreshDel(q)
    PROVE  RefreshIInv'
<1>1. PICK s \in Ids : s = renewal[q].uuid /\ renewal[q].at = "del"
  BY DEF RefreshDel, RefreshIInv, RefreshTypeOK, Renewal, Ids
<1> DEFINE n == Cardinality(Refusing(s))
<1>2. /\ refreshes \in [Ids -> Nat] /\ credit \in [Ids -> Int]
      /\ credit' = credit /\ Free(q)
  BY <1>1 DEF RefreshDel, RefreshIInv, RefreshTypeOK, Ids
<1>3. CASE Error /\ UNCHANGED refreshes
  BY <1>2, <1>3, FreeKeeps
<1>4. CASE NoError /\ refreshes' = [refreshes EXCEPT ![s] = 0]
  <2>1. Turns(q, "idle", NoUuid, NoUser)
    BY <1>2, FreeEffect DEF RefreshIInv, Ids
  <2>3. refreshes' \in [Ids -> Nat] /\ credit' \in [Ids -> Int]
    BY <1>1, <1>2, <1>4
  <2>4. RefreshTypeOK'
    BY <1>4, <2>1, <2>3, ErrorsType, RenewalType DEF RefreshIInv, Ids
  <2>5. ASSUME NEW t \in Ids, t # s PROVE CreditCovers(t)'
    <3>1. refreshes'[t] >= refreshes[t] /\ credit'[t] = credit[t]
      BY <1>1, <1>2, <1>4, <2>5
    <3> QED BY <2>1, <2>3, <3>1, BudgetOfOthers
  <2>6. CreditCovers(s)'
    <3>1. Refusing(s)' = Refusing(s) \ {q} /\ q \in Refusing(s)
      <4>1. Refusing(s)' = Refusing(s) \ {q}
        BY <2>1, NoRefusalAdded
      <4> QED BY <1>1, <4>1 DEF Refusing
    <3>2. n \in Nat /\ Cardinality(Refusing(s)') = n - 1 /\ n # 0
      BY <3>1, RefusingFinite, FS_RemoveElement, FS_EmptySet
    <3>3. MaxRefresh * n = MaxRefresh * (n - 1) + MaxRefresh /\ MaxRefresh * (n - 1) \in Nat
      <4>1. n - 1 \in Nat /\ (n - 1) + 1 = n
        BY <3>2
      <4> QED BY <4>1, Multiples
    <3>4. Remaining(s)' = MaxRefresh
      BY <1>1, <1>2, <1>4, RefreshTokenAssumption DEF Remaining, Least
    <3>5. credit[s] >= Remaining(s) + MaxRefresh * n
      BY <1>1 DEF RefreshIInv, CreditCovers, Ids
    <3>6. credit[s] >= MaxRefresh + MaxRefresh * (n - 1)
      BY <1>1, <1>2, <3>3, <3>5, RemainingRange, RefreshTokenAssumption DEF RefreshIInv, Ids
    <3> QED BY <1>2, <3>2, <3>4, <3>6 DEF CreditCovers
  <2> QED BY <2>4, <2>5, <2>6 DEF RefreshIInv, Ids
<1>5. \/ Error /\ UNCHANGED refreshes
      \/ NoError /\ refreshes' = [refreshes EXCEPT ![s] = 0]
  BY <1>1 DEF RefreshDel
<1> QED BY <1>3, <1>4, <1>5

LEMMA RefreshSignKeeps ==
    ASSUME IInv, RefreshIInv, [Next]_vars, NEW q \in Refreshers, RefreshSign(q)
    PROVE  RefreshIInv'
<1>1. /\ refreshes \in [Ids -> Nat] /\ refreshes' = refreshes
      /\ credit' = credit /\ Free(q) /\ NoError
  BY DEF RefreshSign, NoError, RefreshIInv, RefreshTypeOK, Ids
<1>2. refreshes' \in [Ids -> Nat] /\ \A t \in Ids : refreshes'[t] >= refreshes[t]
  BY <1>1
<1> QED BY <1>1, <1>2, FreeKeeps

LEMMA RefreshCrashKeeps ==
    ASSUME IInv, RefreshIInv, [Next]_vars, RefreshCrash
    PROVE  RefreshIInv'
<1>1. UNCHANGED <<refreshes, errors, credit>>
  BY DEF RefreshCrash
<1>2. /\ refreshes' \in [Ids -> Nat] /\ credit' \in [Ids -> Int]
      /\ errors' \in 0..MaxErrors
  BY <1>1 DEF RefreshIInv, RefreshTypeOK, Ids
<1>3. \A q \in Refreshers : renewal'[q] = NoRenewal
  BY DEF RefreshCrash
<1>4. renewal' \in [Refreshers -> Renewal]
  BY DEF RefreshCrash, NoRenewal, Renewal
<1>5. \A q \in Refreshers : renewal'[q].at = "idle"
  BY <1>3 DEF NoRenewal
<1>6. RefreshTypeOK'
  BY <1>2, <1>4, <1>5, RefreshTypeKeeps DEF RefreshIInv, Ids
<1>7. ASSUME NEW s \in Ids PROVE CreditCovers(s)'
  <2>1. Refusing(s)' \in SUBSET Refusing(s)
    BY <1>5 DEF Refusing
  <2>2. Remaining(s)' - credit'[s] <= Remaining(s) - credit[s]
    BY <1>1, RemainingRange DEF Remaining, RefreshIInv, RefreshTypeOK, Ids
  <2> QED BY <1>2, <2>1, <2>2, BudgetStays
<1> QED BY <1>6, <1>7 DEF RefreshIInv, Ids

LEMMA RefreshMakeUpKeeps ==
    ASSUME IInv, RefreshIInv, [Next]_vars, NEW s \in Ids, NEW u \in Users, RefreshMakeUp(s, u)
    PROVE  RefreshIInv'
<1>1. UNCHANGED <<refreshes, renewal, credit>> /\ Error
  BY DEF RefreshMakeUp
<1>2. errors' \in 0..MaxErrors
  BY <1>1, ErrorsType DEF RefreshIInv, Ids
<1>3. RefreshTypeOK'
  BY <1>1, <1>2, RefreshTypeKeeps DEF RefreshIInv, RefreshTypeOK, Ids
<1>4. ASSUME NEW t \in Ids PROVE CreditCovers(t)'
  BY <1>1 DEF RefreshIInv, CreditCovers, Remaining, Refusing, Ids
<1> QED BY <1>3, <1>4 DEF RefreshIInv, Ids

\* The requests of Sessions and time do not touch what the refreshes have.
LEMMA SessionsStepKeeps ==
    ASSUME IInv, RefreshIInv, [Next]_vars, UNCHANGED refreshVars
    PROVE  RefreshIInv'
<1>1. UNCHANGED <<refreshes, renewal, errors, credit>>
  BY DEF refreshVars
<1>2. RefreshTypeOK'
  BY <1>1, RefreshTypeKeeps DEF RefreshIInv, RefreshTypeOK, Ids
<1>3. ASSUME NEW s \in Ids PROVE CreditCovers(s)'
  BY <1>1 DEF RefreshIInv, CreditCovers, Remaining, Refusing, Ids
<1> QED BY <1>2, <1>3 DEF RefreshIInv, Ids

LEMMA InitRefreshIInv == RefreshInit => RefreshIInv
<1> SUFFICES ASSUME RefreshInit PROVE RefreshIInv
  OBVIOUS
<1>1. \A q \in Refreshers : renewal[q].at = "idle"
  BY DEF RefreshInit, NoRenewal
<1>2. RefreshTypeOK
  BY <1>1, RefreshTokenAssumption DEF RefreshInit, RefreshTypeOK, Ids, Renewal, NoRenewal
<1>3. ASSUME NEW s \in Ids PROVE CreditCovers(s)
  <2>1. Refusing(s) = {}
    BY <1>1 DEF Refusing
  <2>2. MaxRefresh * Cardinality(Refusing(s)) = 0
    BY <2>1, FS_EmptySet, RefreshTokenAssumption
  <2>3. credit[s] = MaxRefresh /\ Remaining(s) = MaxRefresh
    BY RefreshTokenAssumption DEF RefreshInit, Remaining, Least, Ids
  <2> QED BY <2>2, <2>3, RefreshTokenAssumption DEF CreditCovers
<1> QED BY <1>2, <1>3 DEF RefreshIInv, Ids

LEMMA RefreshNextKeeps ==
    ASSUME IInv, RefreshIInv, [RefreshNext]_allVars
    PROVE  [Next]_vars /\ IInv' /\ RefreshIInv'
<1>1. [Next]_vars
  BY RefreshImplements DEF RefreshIInv, Ids
<1>2. IInv'
  BY <1>1, NextKeeps
<1> SUFFICES RefreshIInv'
  BY <1>1, <1>2
<1>3. CASE \E q \in Refreshers, s \in Ids, u \in Users : StartRefresh(q, s, u)
  BY <1>1, <1>3, StartRefreshKeeps
<1>4. CASE \E q \in Refreshers : \/ RefreshPass(q) \/ RefreshRefuse(q) \/ RefreshFails(q)
                                 \/ RefreshDel(q) \/ RefreshFind(q) \/ RefreshSign(q)
  BY <1>1, <1>4, RefreshPassKeeps, RefreshRefuseKeeps, RefreshFailsKeeps,
     RefreshDelKeeps, RefreshFindKeeps, RefreshSignKeeps
<1>5. CASE \/ (\E r \in Requests : Serve(r)) /\ UNCHANGED refreshVars
           \/ (\E s \in Ids, u \in Users : Expire(s, u)) /\ UNCHANGED refreshVars
           \/ UNCHANGED allVars
  BY <1>1, <1>5, SessionsStepKeeps DEF allVars
<1>6. CASE RefreshCrash
  BY <1>1, <1>6, RefreshCrashKeeps
<1>7. CASE \E s \in Ids, u \in Users : RefreshMakeUp(s, u)
  BY <1>1, <1>7, RefreshMakeUpKeeps
<1> QED BY <1>1, <1>2, <1>3, <1>4, <1>5, <1>6, <1>7 DEF RefreshNext, Ids

\* Both invariants hold whatever refreshes and requests interleave
\* (authentication.go 208-305, auth/service.go 174-214).
THEOREM RefreshInvariant == RefreshSpec => [](IInv /\ RefreshIInv)
<1>1. RefreshInit => IInv /\ RefreshIInv
  BY InitIInv, InitRefreshIInv DEF RefreshInit
<1>2. IInv /\ RefreshIInv /\ [RefreshNext]_allVars => (IInv /\ RefreshIInv)'
  BY RefreshNextKeeps
<1> QED BY <1>1, <1>2, PTL DEF RefreshSpec

\* The counters, the refreshes and the credits keep their types, and a refresh under
\* way goes on with the claims of a token, whoever signed it.
THEOREM RefreshTypeCorrect == RefreshSpec => []RefreshTypeOK
<1>1. RefreshIInv => RefreshTypeOK
  BY DEF RefreshIInv, Ids
<1> QED BY <1>1, RefreshInvariant, PTL

\* Whatever the limit and however many refreshes of a session run at the same
\* time, refused ones among them that remove the counter, it never overdraws its
\* credit (authentication.go 285-293).
THEOREM BudgetKept == RefreshSpec => []RefreshBudget
<1>1. RefreshIInv => RefreshBudget
  <2> SUFFICES ASSUME RefreshIInv, NEW s \in Ids PROVE credit[s] >= 0
    BY DEF RefreshBudget, Ids
  <2>1. MaxRefresh * Cardinality(Refusing(s)) \in Nat
    BY RefusingFinite, Multiples
  <2>2. Remaining(s) \in 0..MaxRefresh /\ MaxRefresh \in Nat /\ credit[s] \in Int
    BY RemainingRange, RefreshTokenAssumption DEF RefreshIInv, RefreshTypeOK, Ids
  <2>3. credit[s] >= Remaining(s) + MaxRefresh * Cardinality(Refusing(s))
    BY DEF RefreshIInv, CreditCovers, Ids
  <2> QED BY <2>1, <2>2, <2>3
<1> QED BY <1>1, RefreshInvariant, PTL

\* With the steps of the refresh spelled out, every step is one of Sessions or a
\* stutter, so what is proved of Spec above holds of RefreshSpec.
THEOREM RefreshIsSessions == RefreshSpec => ImplementsSessions
<1>1. RefreshInit => Init
  BY DEF RefreshInit
<1>2. IInv /\ RefreshIInv /\ [RefreshNext]_allVars => [Next]_vars
  BY RefreshNextKeeps
<1> QED BY <1>1, <1>2, RefreshInvariant, PTL DEF RefreshSpec, Spec, ImplementsSessions

\* So nobody is logged out for nothing and the revoked stay refused while refreshes
\* go on at the same time, crashes included.
THEOREM RevokedWhileRefreshing == RefreshSpec => [](NoSpuriousLogout /\ RevokedStayRefused)
<1>1. IInv => NoSpuriousLogout /\ RevokedStayRefused
  BY DEF IInv
<1> QED BY <1>1, RefreshInvariant, PTL
=============================================================================
