------------------------------ MODULE Sessions ------------------------------
(***************************************************************************)
(* Sessions: a login makes a uuid, signs it into a token that is good for   *)
(* 24 hours and lists it under its user in Redis.  A change or reset of the *)
(* password and the deletion of a user copy the listed uuids to one global  *)
(* list, AUTO_LOGOUT, and a request whose uuid is on it is refused.  Logout  *)
(* and refresh take the uuid and the id of the user from a token whose       *)
(* signature and age they do not look at.                                    *)
(* (internal/app/auth/service.go, internal/app/user/service.go,             *)
(* internal/middleware/authentication.go, pkg/util/general/general.go.)     *)
(*                                                                         *)
(* Both kinds of list are strings in Redis that every request rewrites by a *)
(* GET and, later, a SET of its own.  Each of the two is a step here, and   *)
(* what GET returned stays in the request in between.  The order of a list  *)
(* and repeated uuids are told apart by nothing: a list is a set.           *)
(***************************************************************************)
EXTENDS Integers, FiniteSets

CONSTANTS
    Users,        \* ids; one that never logs in stands for the ids of nobody, too
    Admins,
    Uuids,        \* what uuid.NewString() returns, each value once
    Requests,     \* the goroutines serving requests
    NoUser, NoRequest,
    NoUuid,       \* none; in a token, one that no login has made
    Unsigned,     \* bound: the claims of the tokens that clients may make up
    MaxFailures   \* bound: Redis errors, commit errors, restarts, tokens made up

\* What a token says: the uuid of a session and the id of a user.
Claims == (Uuids \cup {NoUuid}) \X Users

ASSUME SessionsAssumption ==
    /\ Admins \subseteq Users
    /\ Unsigned \subseteq Claims
    /\ MaxFailures \in Nat
    /\ NoUser \notin Users
    /\ NoUuid \notin Uuids
    /\ NoRequest \notin Requests

VARIABLES
    login,       \* Redis: user -> the uuids listed for it
    autoLogout,  \* Redis: the uuids that are refused
    deleted,     \* MySQL: the users with is_delete set
    rowLock,     \* MySQL: user -> the request whose transaction holds its row
    owner,       \* uuid -> the user who logged in with it
    issued,      \* the uuids whose client got the token of its login
    token,       \* the claims of the tokens that the server signed in the last 24 hours
    madeUp,      \* the claims of the other tokens that clients come with
    req,         \* goroutine -> the request it serves
    failures     \* failures and made up tokens so far

VARIABLES        \* history
    excused,     \* the sessions a logout named, or a failure or an overlapping write may lose
    due,         \* the others that a committed revocation was to end
    revoked      \* the users whose revocation began

redis == <<login, autoLogout>>
mysql == <<deleted, rowLock>>
clients == <<owner, issued, token, madeUp>>
history == <<excused, due, revoked>>
vars == <<login, autoLogout, deleted, rowLock, owner, issued, token, madeUp,
          req, failures,
          excused, due, revoked>>

LoginSteps == {"login get", "login set", "login end"}
LogoutSteps == {"logout get", "logout set", "unmark get", "unmark set"}
RevokeSteps == {"revoke update", "revoke get", "mark get", "mark set", "revoke end"}

\* A request: where it is, the user it is about, the uuid it writes to a list, what
\* its last GET returned, the uuids it has still to mark, whether it deletes the user (else
\* a new password), and (history) the sessions its revocation is to end.
Request ==
    [at : {"idle"} \cup LoginSteps \cup LogoutSteps \cup RevokeSteps,
     user : Users \cup {NoUser}, uuid : Uuids \cup {NoUuid},
     seen : SUBSET Uuids, todo : SUBSET Uuids, deletes : BOOLEAN,
     target : SUBSET Uuids]

Idle == [at |-> "idle", user |-> NoUser, uuid |-> NoUuid, seen |-> {},
         todo |-> {}, deletes |-> FALSE, target |-> {}]

\* The row of a user is locked by a request that has updated it and not yet ended.
LocksHeld ==
    \A u \in Users : rowLock[u] # NoRequest =>
        /\ req[rowLock[u]].at \in RevokeSteps \ {"revoke update"}
        /\ req[rowLock[u]].user = u

TypeOK ==
    /\ login \in [Users -> SUBSET Uuids]
    /\ autoLogout \in SUBSET Uuids
    /\ deleted \in SUBSET Users
    /\ rowLock \in [Users -> Requests \cup {NoRequest}]
    /\ owner \in [Uuids -> Users \cup {NoUser}]
    /\ issued \in SUBSET Uuids
    /\ token \in SUBSET Claims
    /\ madeUp \in SUBSET Claims
    /\ req \in [Requests -> Request]
    /\ \A r \in Requests : req[r].at # "idle" => req[r].user \in Users
    /\ LocksHeld
    /\ failures \in 0..MaxFailures
    /\ excused \in SUBSET Uuids
    /\ due \in SUBSET Uuids
    /\ revoked \in SUBSET Users

Init ==
    /\ login = [u \in Users |-> {}]
    /\ autoLogout = {}
    /\ deleted = {}
    /\ rowLock = [u \in Users |-> NoRequest]
    /\ owner = [s \in Uuids |-> NoUser]
    /\ issued = {}
    /\ token = {}
    /\ madeUp = {}
    /\ req = [r \in Requests |-> Idle]
    /\ failures = 0
    /\ excused = {} /\ due = {} /\ revoked = {}

-----------------------------------------------------------------------------
\* A token with uuid s and id u can come in: that of a login, of any age, or one
\* that the server did not sign.
Claimed(s, u) ==
    \/ s \in issued /\ owner[s] = u
    \/ <<s, u>> \in madeUp

\* A command of r fails, or does not.
Fails == failures < MaxFailures /\ failures' = failures + 1
Works == UNCHANGED failures

\* The goroutine is free and takes up a request for user u and uuid s.
Begin(r, step, u, s) ==
    /\ req[r].at = "idle"
    /\ req' = [req EXCEPT ![r] = [Idle EXCEPT !.at = step, !.user = u, !.uuid = s]]

Goto(r, step) == req' = [req EXCEPT ![r] = [@ EXCEPT !.at = step]]

\* A GET returned list, and the request goes on to step.
Read(r, list, step) == req' = [req EXCEPT ![r] = [@ EXCEPT !.seen = list, !.at = step]]

\* A SET is done, and what was read is not used again.
Wrote(r, step) == Read(r, {}, step)

Done(r) == req' = [req EXCEPT ![r] = Idle]

\* Another request than r is between its GET and its SET of the list.
LoginListOpen(r) ==
    \E q \in Requests \ {r} :
        req[q].at \in {"login set", "logout set"} /\ req[q].user = req[r].user
AutoLogoutOpen(r) ==
    \E q \in Requests \ {r} : req[q].at \in {"mark set", "unmark set"}

\* Nothing is promised of the sessions ss from now on, or of no more than before.
Excuse(ss) == excused' = excused \cup ss /\ due' = due \ ss
AsBefore == UNCHANGED <<excused, due>>

\* GetRedisUUIDArray of AUTO_LOGOUT as the middlewares use it: s is not on the
\* list, or GET failed and the list counts as empty.
NotMarked(s) == (s \notin autoLogout /\ Works) \/ (s \in autoLogout /\ Fails)

-----------------------------------------------------------------------------
(* Login.                                                                   *)

\* The user is found, the password is right, a uuid is made and signed.
StartLogin(r, u, s) ==
    /\ u \notin deleted
    /\ owner[s] = NoUser
    /\ Begin(r, "login get", u, s)
    /\ owner' = [owner EXCEPT ![s] = u]
    /\ UNCHANGED <<redis, mysql, issued, token, madeUp, failures, history>>

\* AppendUUIDToRedisArray, the GET: an error counts as an empty list.
LoginGet(r) ==
    LET list == login[req[r].user] IN
        /\ req[r].at = "login get"
        /\ \/ Works /\ Read(r, list, "login set") /\ AsBefore
           \/ Fails /\ Read(r, {}, "login set") /\ Excuse(list)
        /\ UNCHANGED <<redis, mysql, clients, revoked>>

\* ... and the SET, whose error is ignored.
LoginSet(r) ==
    LET s == req[r].uuid IN
        /\ req[r].at = "login set"
        /\ \/ /\ Works
              /\ login' = [login EXCEPT ![req[r].user] = req[r].seen \cup {s}]
              /\ Excuse(IF LoginListOpen(r) THEN {s} ELSE {})
           \/ Fails /\ UNCHANGED login /\ Excuse({s})
        /\ Wrote(r, "login end")
        /\ UNCHANGED <<autoLogout, mysql, clients, revoked>>

\* The client gets its token, or an error: the commit failed, the profile
\* picture was not found, the client is gone.
LoginEnd(r) ==
    /\ req[r].at = "login end"
    /\ \/ /\ Works
          /\ issued' = issued \cup {req[r].uuid}
          /\ token' = token \cup {<<req[r].uuid, req[r].user>>}
       \/ Fails /\ UNCHANGED <<issued, token>>
    /\ Done(r)
    /\ UNCHANGED <<redis, mysql, owner, madeUp, history>>

-----------------------------------------------------------------------------
(* Logout: uuid s leaves the list of user u, then AUTO_LOGOUT, as the token  *)
(* says: neither its signature nor its age nor AUTO_LOGOUT is looked at, and *)
(* it stays as good as it was.                                               *)

StartLogout(r, s, u) ==
    /\ Claimed(s, u)
    /\ Begin(r, "logout get", u, s)
    /\ Excuse({s} \cap Uuids)
    /\ UNCHANGED <<redis, mysql, clients, failures, revoked>>

\* RemoveUUIDFromRedisArray, the GET: an empty list or an error ends it.
LogoutGet(r) ==
    LET list == login[req[r].user] IN
        /\ req[r].at = "logout get"
        /\ \/ Works /\ list # {} /\ Read(r, list, "logout set")
           \/ Works /\ list = {} /\ Goto(r, "unmark get")
           \/ Fails /\ Goto(r, "unmark get")
        /\ UNCHANGED <<redis, mysql, clients, history>>

LogoutSet(r) ==
    /\ req[r].at = "logout set"
    /\ \/ Works /\ login' = [login EXCEPT ![req[r].user] = req[r].seen \ {req[r].uuid}]
       \/ Fails /\ UNCHANGED login
    /\ Wrote(r, "unmark get")
    /\ UNCHANGED <<autoLogout, mysql, clients, history>>

\* Mutant of UnmarkGet: the second key is the first one again.
UnmarkGetLogin(r) ==
    LET list == login[req[r].user] IN
        /\ req[r].at = "unmark get"
        /\ \/ Works /\ list # {} /\ Read(r, list, "unmark set")
           \/ Works /\ list = {} /\ Done(r)
           \/ Fails /\ Done(r)
        /\ UNCHANGED <<redis, mysql, clients, history>>

UnmarkGet(r) ==
    /\ req[r].at = "unmark get"
    /\ \/ Works /\ autoLogout # {} /\ Read(r, autoLogout, "unmark set")
       \/ Works /\ autoLogout = {} /\ Done(r)
       \/ Fails /\ Done(r)
    /\ UNCHANGED <<redis, mysql, clients, history>>

UnmarkSet(r) ==
    /\ req[r].at = "unmark set"
    /\ \/ Works /\ autoLogout' = req[r].seen \ {req[r].uuid}
       \/ Fails /\ UNCHANGED autoLogout
    /\ Done(r)
    /\ UNCHANGED <<login, mysql, clients, history>>

-----------------------------------------------------------------------------
(* Revocation: ChangePassword, ValidationResetPassword and Delete.  Each is *)
(* one transaction: the user is read, its row is updated, the listed uuids  *)
(* are marked one by one, and the transaction commits.                      *)

\* A user changes the own password with a good token.
StartChangePassword(r, s, u) ==
    /\ <<s, u>> \in token
    /\ NotMarked(s)
    /\ u \notin deleted
    /\ Begin(r, "revoke update", u, NoUuid)
    /\ UNCHANGED <<redis, mysql, clients, history>>

\* A user follows the link of a reset mail, in no session.
StartResetPassword(r, u) ==
    /\ u \notin deleted
    /\ Begin(r, "revoke update", u, NoUuid)
    /\ UNCHANGED <<redis, mysql, clients, failures, history>>

\* An administrator a deletes user u with a good token.
StartDelete(r, s, a, u) ==
    /\ <<s, a>> \in token
    /\ NotMarked(s)
    /\ a \in Admins
    /\ u \notin deleted
    /\ req[r].at = "idle"
    /\ req' = [req EXCEPT ![r] = [Idle EXCEPT !.at = "revoke update", !.user = u,
                                              !.deletes = TRUE]]
    /\ UNCHANGED <<redis, mysql, clients, history>>

\* UPDATE takes the lock of the row, which the transaction holds to its end.
RevokeUpdate(r) ==
    LET u == req[r].user IN
        /\ req[r].at = "revoke update"
        /\ rowLock[u] = NoRequest
        /\ rowLock' = [rowLock EXCEPT ![u] = r]
        /\ req' = [req EXCEPT ![r] = [@ EXCEPT !.at = "revoke get", !.target =
                      {s \in issued \ excused : owner[s] = u}]]
        /\ revoked' = revoked \cup {u}
        /\ UNCHANGED <<redis, deleted, clients, failures, excused, due>>

\* The uuids to mark: those listed for the user; none after an error.
RevokeGet(r) ==
    LET list == login[req[r].user] IN
        /\ req[r].at = "revoke get"
        /\ \/ /\ Works
              /\ req' = [req EXCEPT ![r] = [@ EXCEPT !.todo = list, !.at =
                            IF list = {} THEN "revoke end" ELSE "mark get"]]
              /\ AsBefore
           \/ Fails /\ Goto(r, "revoke end") /\ Excuse(req[r].target)
        /\ UNCHANGED <<redis, mysql, clients, revoked>>

\* The request is to mark s on the list that its GET returned.
ToMark(r, s, list) ==
    req' = [req EXCEPT ![r] = [@ EXCEPT !.uuid = s, !.seen = list, !.at = "mark set"]]

\* AppendUUIDToRedisArray of the next uuid, the GET ...
MarkGet(r) ==
    /\ req[r].at = "mark get"
    /\ \E s \in req[r].todo :
        \/ Works /\ ToMark(r, s, autoLogout) /\ AsBefore
        \/ Fails /\ ToMark(r, s, {}) /\ Excuse(autoLogout)
    /\ UNCHANGED <<redis, mysql, clients, revoked>>

\* Mutant of NextMark: one GET serves all the uuids.
NextMarkOneGet(r, s) ==
    \E t \in IF req[r].todo = {s} THEN {NoUuid} ELSE req[r].todo \ {s} :
        req' = [req EXCEPT ![r] = [@ EXCEPT !.todo = req[r].todo \ {s}, !.uuid = t, !.at =
                   IF req[r].todo = {s} THEN "revoke end" ELSE "mark set"]]

\* uuid s is marked: on to the next one.
NextMark(r, s) ==
    req' = [req EXCEPT ![r] = [@ EXCEPT !.todo = req[r].todo \ {s}, !.seen = {}, !.uuid = NoUuid,
               !.at = IF req[r].todo = {s} THEN "revoke end" ELSE "mark get"]]

\* ... and the SET.
MarkSet(r) ==
    LET s == req[r].uuid IN
        /\ req[r].at = "mark set"
        /\ \/ /\ Works
              /\ autoLogout' = req[r].seen \cup {s}
              /\ Excuse(IF AutoLogoutOpen(r) THEN {s} ELSE {})
           \/ Fails /\ UNCHANGED autoLogout /\ Excuse({s})
        /\ NextMark(r, s)
        /\ UNCHANGED <<login, mysql, clients, revoked>>

\* Commit, or a rollback: the marks stay.
RevokeEnd(r) ==
    LET u == req[r].user IN
        /\ req[r].at = "revoke end"
        /\ rowLock' = [rowLock EXCEPT ![u] = NoRequest]
        /\ \/ /\ Works
              /\ deleted' = IF req[r].deletes THEN deleted \cup {u} ELSE deleted
              /\ due' = due \cup (req[r].target \ excused)
           \/ Fails /\ UNCHANGED <<deleted, due>>
        /\ Done(r)
        /\ UNCHANGED <<redis, clients, excused, revoked>>

\* Mutant of RevokeAbort: the transaction is left open.
RevokeAbortOpen(r) ==
    /\ req[r].at \in {"revoke update", "revoke get"}
    /\ Fails
    /\ Done(r)
    /\ UNCHANGED <<redis, mysql, clients, history>>

\* The UPDATE is refused or the mail with the new password cannot be sent:
\* a rollback before anything is marked.
RevokeAbort(r) ==
    /\ req[r].at \in {"revoke update", "revoke get"}
    /\ Fails
    /\ rowLock' = [u \in Users |-> IF rowLock[u] = r THEN NoRequest ELSE rowLock[u]]
    /\ Done(r)
    /\ UNCHANGED <<redis, deleted, clients, history>>

-----------------------------------------------------------------------------
\* A client comes with a token of claims s and u that the server did not sign.
MakeUp(s, u) ==
    /\ <<s, u>> \in Unsigned /\ ~Claimed(s, u)
    /\ s \in Uuids => owner[s] # NoUser
    /\ Fails
    /\ madeUp' = madeUp \cup {<<s, u>>}
    /\ UNCHANGED <<redis, mysql, owner, issued, token, req, history>>

\* 24 hours pass since a token of s and u was last signed.
Expire(s, u) ==
    /\ <<s, u>> \in token
    /\ token' = token \ {<<s, u>>}
    /\ UNCHANGED <<redis, mysql, owner, issued, madeUp, req, failures, history>>

\* A refresh ends well: a token with the claims of the old one, signed by the server
\* now in any case and good for 24 hours.  Module RefreshToken has its steps.
Renew(s, u) ==
    /\ Claimed(s, u)
    /\ token' = token \cup {<<s, u>>}
    /\ UNCHANGED <<redis, mysql, owner, issued, madeUp, req, failures, history>>

\* The server restarts: its requests are gone, MySQL rolls them back.
Crash ==
    /\ Fails
    /\ req' = [r \in Requests |-> Idle]
    /\ rowLock' = [u \in Users |-> NoRequest]
    /\ UNCHANGED <<redis, deleted, clients, history>>

Serve(r) ==
    \/ \E u \in Users, s \in Uuids : StartLogin(r, u, s)
    \/ \E u \in Users, s \in Uuids \cup {NoUuid} :
          \/ StartLogout(r, s, u) \/ StartChangePassword(r, s, u)
          \/ \E a \in Admins : StartDelete(r, s, a, u)
    \/ \E u \in Users : StartResetPassword(r, u)
    \/ LoginGet(r) \/ LoginSet(r) \/ LoginEnd(r)
    \/ LogoutGet(r) \/ LogoutSet(r) \/ UnmarkGet(r) \/ UnmarkSet(r)
    \/ RevokeUpdate(r) \/ RevokeGet(r) \/ MarkGet(r) \/ MarkSet(r)
    \/ RevokeEnd(r) \/ RevokeAbort(r)

Next ==
    \/ \E r \in Requests : Serve(r)
    \/ \E s \in Uuids \cup {NoUuid}, u \in Users : MakeUp(s, u) \/ Expire(s, u) \/ Renew(s, u)
    \/ Crash

\* Tokens grow old.  Clients need not call, and a request may hang.
Spec ==
    /\ Init /\ [][Next]_vars
    /\ \A s \in Uuids \cup {NoUuid}, u \in Users : WF_vars(Expire(s, u))

-----------------------------------------------------------------------------
(* Properties.                                                              *)

\* Nobody is logged out by the revocation of somebody else, whatever stale
\* lists the requests write back: a uuid on AUTO_LOGOUT is a session of a user
\* whose password was changed or who was deleted (general.go 832-858 as called
\* in user/service.go 336-339, 387-390 and auth/service.go).
NoSpuriousLogout == \A s \in autoLogout : owner[s] \in revoked

\* A committed revocation ends the sessions the user had when it began, and
\* they stay ended until a logout names them: anybody's, with whatever id, since
\* its token is believed without a signature (authentication.go 142-152).  The
\* GET and SET of the lists break this only in the ways excused collects besides: a
\* Redis command failed, or the uuid was written to a list while another request
\* was between its GET and its SET of the same list (general.go 832-858).
RevokedStayRefused == due \subseteq autoLogout

-----------------------------------------------------------------------------
(* The invariant that makes the two inductive (module SessionsProofs).      *)

\* A uuid is only listed for its owner; a client has it after a login.
Ownership ==
    /\ \A u \in Users : \A s \in login[u] : owner[s] = u
    /\ \A s \in issued : owner[s] \in Users
    /\ due \subseteq issued
    /\ due \cap excused = {}

\* The same of what a request carries.
RequestOwnership(r) ==
    LET q == req[r] IN
        /\ q.at \in LoginSteps =>
              q.user \in Users /\ q.uuid \in Uuids /\ owner[q.uuid] = q.user
        /\ q.at \in LogoutSteps =>
              q.user \in Users /\ q.uuid \in excused \cup {NoUuid}
        /\ q.at \in RevokeSteps =>
              q.user \in Users /\ \A s \in q.target : owner[s] = q.user /\ s \in issued
        /\ q.at \in RevokeSteps \ {"revoke update"} =>
              q.user \in revoked /\ \A s \in q.todo : owner[s] = q.user
        /\ q.at \in {"login set", "logout set"} => \A s \in q.seen : owner[s] = q.user
        /\ q.at \in {"mark set", "unmark set"} => \A s \in q.seen : owner[s] \in revoked
        /\ q.at \notin {"mark get", "mark set"} => q.todo = {}
        /\ q.at = "mark set" => q.uuid \in q.todo
        /\ q.at \in {"logout set", "unmark set"} => q.seen # {}

\* The client's sessions are listed.
Listed == \A s \in issued : s \in login[owner[s]] \/ s \in excused

\* What a request read is what the list still holds, and what it has to mark
\* is still to do or done, apart from excused uuids.
RequestUpToDate(r) ==
    LET q == req[r] IN
        /\ q.at = "login end" => q.uuid \in login[q.user] \/ q.uuid \in excused
        /\ q.at \in {"login set", "logout set"} =>
              \A s \in Uuids : s \in excused \/ (s \in q.seen <=> s \in login[q.user])
        /\ q.at \in {"mark set", "unmark set"} =>
              \A s \in Uuids : s \in excused \/ (s \in q.seen <=> s \in autoLogout)
        /\ q.at \in {"mark get", "mark set", "revoke end"} =>
              \A s \in q.target : s \in q.todo \/ s \in autoLogout \/ s \in excused

IInv ==
    /\ TypeOK
    /\ Ownership /\ NoSpuriousLogout
    /\ Listed /\ RevokedStayRefused
    /\ \A r \in Requests : RequestOwnership(r) /\ RequestUpToDate(r)

-----------------------------------------------------------------------------
(* What Sessions implements.                                                *)

\* The SET that a request is about to run, AUTO_LOGOUT being the list of nobody.
ListChange(q) ==
    IF q.at \in {"login set", "logout set", "mark set", "unmark set"}
    THEN {[op |-> IF q.at \in {"login set", "mark set"} THEN "append" ELSE "remove",
           key |-> IF q.at \in {"login set", "logout set"} THEN q.user ELSE NoUser,
           id |-> q.uuid, seen |-> q.seen]}
    ELSE {}

UuidLists == [k \in Users \cup {NoUser} |-> IF k = NoUser THEN autoLogout ELSE login[k]]
ListChanges == [r \in Requests |-> ListChange(req[r])]

L == INSTANCE IdSets WITH
        Keys <- Users \cup {NoUser}, Ids <- Uuids \cup {NoUuid}, Writers <- Requests,
        listed <- UuidLists, pending <- ListChanges

\* The uuid lists change in no other way than by the GET and SET of the helpers, each
\* of one key and one helper at a time (general.go 832-858, auth/service.go 112,
\* 161-162, 313, user/service.go 338, 389).
UuidListsAreSets == L!Spec
=============================================================================
