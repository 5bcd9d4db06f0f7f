---------------------------- MODULE PasswordReset ----------------------------
(***************************************************************************)
(* PasswordReset: a link with a one-time token is mailed; whoever follows it *)
(* gets a new password by mail.  The token lives in Redis, the password in   *)
(* MySQL, the mails are with the user: GET and DEL of the token, UPDATE, the  *)
(* mail and COMMIT are steps of their own.  Changes of a password, the       *)
(* registration of an account and its deletion write the same row.           *)
(* (internal/app/auth/service.go, internal/app/user/service.go,             *)
(* pkg/util/trxmanager/trxmanager.go.)  What a reset does to the sessions of *)
(* the user is in module Sessions.                                          *)
(***************************************************************************)
EXTENDS Integers, FiniteSets

CONSTANTS
    Users, Requests,
    Tokens,       \* what GenerateTokenEksternal returns, each value once
    Passwords,
    NoUser, NoToken, NoPassword, NoRequest,
    MaxFailures   \* bound: commands, mails and commits that fail, restarts

ASSUME PasswordResetAssumption ==
    /\ MaxFailures \in Nat
    /\ NoUser \notin Users
    /\ NoToken \notin Tokens
    /\ NoPassword \notin Passwords
    /\ NoRequest \notin Requests

VARIABLES
    stored,      \* Redis: the tokens that are keys
    sealed,      \* token -> the user it was made for
    mailed,      \* the tokens whose link reached the user
    password,    \* MySQL: user -> its password
    deleted,     \* MySQL: the users with is_delete set
    rowLock,     \* MySQL: user -> the request whose transaction holds its row
    req,         \* goroutine -> the request it serves
    failures     \* failures so far

VARIABLES        \* history
    told,        \* user -> the password by the last mail or the last change
    spoilt,      \* the users whose last mail came of a reset that did not commit
    uses,        \* token -> the resets committed with it, up to 2
    leaked       \* the tokens that a failed GET or DEL, or two GETs in a row,
                 \* let through twice

links == <<stored, sealed, mailed>>
mysql == <<password, deleted, rowLock>>
history == <<told, spoilt, uses, leaked>>
vars == <<stored, sealed, mailed, password, deleted, rowLock, req, failures,
          told, spoilt, uses, leaked>>

\* The steps of a request for a link, of a reset, and those of any request that
\* writes the row: a reset, a change or registration, a deletion.
LinkSteps == {"store link", "mail link"}
ResetSteps == {"get link", "burn link", "find", "mail password"}
RowSteps == {"update", "commit"}

Request ==
    [at : {"idle"} \cup LinkSteps \cup ResetSteps \cup RowSteps,
     kind : {"none", "forgot", "reset", "write", "delete"},
     user : Users \cup {NoUser}, token : Tokens \cup {NoToken},
     new : Passwords \cup {NoPassword}]

Idle == [at |-> "idle", kind |-> "none", user |-> NoUser, token |-> NoToken,
         new |-> NoPassword]

TypeOK ==
    /\ stored \in SUBSET Tokens
    /\ sealed \in [Tokens -> Users \cup {NoUser}]
    /\ \A t \in stored : sealed[t] \in Users
    /\ mailed \in SUBSET Tokens
    /\ password \in [Users -> Passwords \cup {NoPassword}]
    /\ deleted \in SUBSET Users
    /\ rowLock \in [Users -> Requests \cup {NoRequest}]
    /\ req \in [Requests -> Request]
    /\ failures \in 0..MaxFailures
    /\ told \in [Users -> Passwords \cup {NoPassword}]
    /\ spoilt \in SUBSET Users
    /\ uses \in [Tokens -> 0..2]
    /\ leaked \in SUBSET Tokens

\* Some users have registered.
Init ==
    /\ stored = {} /\ mailed = {}
    /\ sealed = [t \in Tokens |-> NoUser]
    /\ password \in [Users -> Passwords \cup {NoPassword}]
    /\ deleted = {}
    /\ rowLock = [u \in Users |-> NoRequest]
    /\ req = [r \in Requests |-> Idle]
    /\ failures = 0
    /\ told = password
    /\ spoilt = {} /\ leaked = {}
    /\ uses = [t \in Tokens |-> 0]

-----------------------------------------------------------------------------
\* A command, mail or commit of r fails, or does not.
Fails == failures < MaxFailures /\ failures' = failures + 1
Works == UNCHANGED failures

Begin(r, step, kind, u, t, p) ==
    /\ req[r].at = "idle"
    /\ req' = [req EXCEPT ![r] = [at |-> step, kind |-> kind, user |-> u,
                                  token |-> t, new |-> p]]

Goto(r, step) == req' = [req EXCEPT ![r] = [@ EXCEPT !.at = step]]

Done(r) == req' = [req EXCEPT ![r] = Idle]

\* The transaction of r is over and its lock free.
Unlock(r) == rowLock' = [u \in Users |-> IF rowLock[u] = r THEN NoRequest ELSE rowLock[u]]

\* The transaction of r ends with nothing done.
Rollback(r) == Done(r) /\ Unlock(r) /\ UNCHANGED <<password, deleted>>

\* r has mailed a password that it has yet to commit.
HasMailed(r) == req[r].at = "commit" /\ req[r].kind = "reset"

-----------------------------------------------------------------------------
(* Forgot password.                                                         *)

\* Mutant of StartForgot: the user id is not put in the token.
StartForgotNobody(r, u, t) ==
    /\ u \notin deleted
    /\ sealed[t] = NoUser
    /\ Begin(r, "store link", "forgot", u, t, NoPassword)
    /\ UNCHANGED <<stored, sealed, mailed, mysql, failures, history>>

\* The user is found by the email, which one has with or without a password.
StartForgot(r, u, t) ==
    /\ u \notin deleted
    /\ sealed[t] = NoUser
    /\ sealed' = [sealed EXCEPT ![t] = u]
    /\ Begin(r, "store link", "forgot", u, t, NoPassword)
    /\ UNCHANGED <<stored, mailed, mysql, failures, history>>

\* SET, whose error is ignored: the token may be there even so.
StoreLink(r) ==
    /\ req[r].at = "store link"
    /\ \/ (Works \/ Fails) /\ stored' = stored \cup {req[r].token}
       \/ Fails /\ UNCHANGED stored
    /\ Goto(r, "mail link")
    /\ UNCHANGED <<sealed, mailed, mysql, history>>

MailLink(r) ==
    /\ req[r].at = "mail link"
    /\ \/ (Works \/ Fails) /\ mailed' = mailed \cup {req[r].token}
       \/ Fails /\ UNCHANGED mailed
    /\ Done(r)
    /\ UNCHANGED <<stored, sealed, mysql, history>>

-----------------------------------------------------------------------------
(* A link is followed: once, twice, or after a year.                        *)

StartReset(r, t) ==
    /\ t \in mailed
    /\ Begin(r, "get link", "reset", sealed[t], t, NoPassword)
    /\ UNCHANGED <<links, mysql, failures, history>>

\* Another request has seen the token of r and not deleted it yet.
SeenTwice(r) ==
    \E q \in Requests \ {r} : req[q].at = "burn link" /\ req[q].token = req[r].token

\* GET: only the answer that there is no such key ends the request.  An error
\* does not.
GetLink(r) ==
    LET t == req[r].token IN
        /\ req[r].at = "get link"
        /\ \/ /\ Works /\ t \in stored
              /\ Goto(r, "burn link")
              /\ leaked' = leaked \cup (IF SeenTwice(r) THEN {t} ELSE {})
           \/ Works /\ t \notin stored /\ Done(r) /\ UNCHANGED leaked
           \/ Fails /\ Goto(r, "burn link") /\ leaked' = leaked \cup {t}
        /\ UNCHANGED <<links, mysql, told, spoilt, uses>>

\* Mutant of BurnLink: the token is kept for another try.
BurnLinkKept(r) ==
    /\ req[r].at = "burn link"
    /\ Works /\ Goto(r, "find")
    /\ UNCHANGED <<links, mysql, history>>

\* DEL, whose error is ignored: the token is gone even if the reset fails.
BurnLink(r) ==
    LET t == req[r].token IN
        /\ req[r].at = "burn link"
        /\ \/ (Works \/ Fails) /\ stored' = stored \ {t} /\ UNCHANGED leaked
           \/ Fails /\ UNCHANGED stored /\ leaked' = leaked \cup {t}
        /\ Goto(r, "find")
        /\ UNCHANGED <<sealed, mailed, mysql, told, spoilt, uses>>

\* The user of the token is read and a password generated.
Find(r) ==
    LET u == req[r].user IN
        /\ req[r].at = "find"
        /\ \/ /\ Works /\ u \notin deleted
              /\ \E p \in Passwords :
                    req' = [req EXCEPT ![r] = [@ EXCEPT !.at = "update", !.new = p]]
           \/ Works /\ u \in deleted /\ Done(r)
           \/ Fails /\ Done(r)
        /\ UNCHANGED <<links, mysql, history>>

\* The new password goes out before the commit.  A mail that fails may arrive.
MailPassword(r) ==
    LET u == req[r].user IN
        /\ req[r].at = "mail password"
        /\ \/ /\ Works
              /\ told' = [told EXCEPT ![u] = req[r].new]
              /\ spoilt' = spoilt \ {u}
              /\ Goto(r, "commit") /\ UNCHANGED mysql
           \/ /\ Fails
              /\ told' = [told EXCEPT ![u] = req[r].new]
              /\ spoilt' = spoilt \cup {u}
              /\ Rollback(r)
           \/ Fails /\ UNCHANGED <<told, spoilt>> /\ Rollback(r)
        /\ UNCHANGED <<links, uses, leaked>>

-----------------------------------------------------------------------------
(* The other writers of the row, up to their UPDATE.                        *)

\* ChangePassword: the old password is compared with the row as it is now.
StartChange(r, u, p) ==
    /\ u \notin deleted
    /\ password[u] \notin {NoPassword, p}
    /\ Begin(r, "update", "write", u, NoToken, p)
    /\ UNCHANGED <<links, mysql, failures, history>>

\* Register, with a password.
StartRegister(r, u, p) ==
    /\ u \notin deleted
    /\ Begin(r, "update", "write", u, NoToken, p)
    /\ UNCHANGED <<links, mysql, failures, history>>

StartDelete(r, u) ==
    /\ u \notin deleted
    /\ Begin(r, "update", "delete", u, NoToken, NoPassword)
    /\ UNCHANGED <<links, mysql, failures, history>>

-----------------------------------------------------------------------------
(* The row.                                                                 *)

\* Mutant of Update: UPDATE outside of the transaction.
UpdateUnlocked(r) ==
    /\ req[r].at = "update"
    /\ Goto(r, IF req[r].kind = "reset" THEN "mail password" ELSE "commit")
    /\ UNCHANGED <<links, mysql, failures, history>>

\* UPDATE of the columns that are set, by the primary key: it waits for the row
\* and holds it to the end of the transaction.
Update(r) ==
    /\ req[r].at = "update"
    /\ rowLock[req[r].user] = NoRequest
    /\ rowLock' = [rowLock EXCEPT ![req[r].user] = r]
    /\ Goto(r, IF req[r].kind = "reset" THEN "mail password" ELSE "commit")
    /\ UNCHANGED <<links, password, deleted, failures, history>>

UpdateFails(r) ==
    /\ req[r].at = "update"
    /\ Fails
    /\ Rollback(r)
    /\ UNCHANGED <<links, history>>

\* What a commit leaves behind.
Commits(r) ==
    LET q == req[r] IN
        /\ password' = IF q.kind = "delete" THEN password
                       ELSE [password EXCEPT ![q.user] = q.new]
        /\ deleted' = IF q.kind = "delete" THEN deleted \cup {q.user} ELSE deleted
        /\ told' = IF q.kind = "write" THEN [told EXCEPT ![q.user] = q.new] ELSE told
        /\ spoilt' = IF q.kind = "write" THEN spoilt \ {q.user} ELSE spoilt
        /\ uses' = IF q.kind = "reset" /\ uses[q.token] < 2
                   THEN [uses EXCEPT ![q.token] = @ + 1] ELSE uses

\* The answer of a commit may be lost.
Commit(r) ==
    /\ req[r].at = "commit"
    /\ Works \/ Fails
    /\ Commits(r)
    /\ Done(r) /\ Unlock(r)
    /\ UNCHANGED <<links, leaked>>

CommitFails(r) ==
    /\ req[r].at = "commit"
    /\ Fails
    /\ Rollback(r)
    /\ spoilt' = IF HasMailed(r) THEN spoilt \cup {req[r].user} ELSE spoilt
    /\ UNCHANGED <<links, told, uses, leaked>>

\* The server restarts, and MySQL rolls its transactions back.
Crash ==
    /\ Fails
    /\ req' = [r \in Requests |-> Idle]
    /\ rowLock' = [u \in Users |-> NoRequest]
    /\ spoilt' = spoilt \cup {u \in Users : \E r \in Requests : HasMailed(r) /\ req[r].user = u}
    /\ UNCHANGED <<links, password, deleted, told, uses, leaked>>

Serve(r) ==
    \/ \E u \in Users, t \in Tokens : StartForgot(r, u, t)
    \/ \E u \in Users, p \in Passwords : StartChange(r, u, p) \/ StartRegister(r, u, p)
    \/ \E u \in Users : StartDelete(r, u)
    \/ \E t \in Tokens : StartReset(r, t)
    \/ StoreLink(r) \/ MailLink(r)
    \/ GetLink(r) \/ BurnLink(r) \/ Find(r) \/ MailPassword(r)
    \/ Update(r) \/ UpdateFails(r) \/ Commit(r) \/ CommitFails(r)

Next == (\E r \in Requests : Serve(r)) \/ Crash

Spec == Init /\ [][Next]_vars

-----------------------------------------------------------------------------
(* Properties.                                                              *)

\* A link resets the password once, however often and however concurrently it
\* is followed, but for the tokens leaked collects: a GET or DEL of it failed,
\* or two requests got it before either deleted it (auth/service.go 260-265).
LinkOnce == \A t \in Tokens : uses[t] <= 1 \/ t \in leaked

\* When nobody writes the row of a user, the password is the one the user was
\* last told, by a mail or by changing it, although mails go out before their
\* commit and a change compares with a row it has not locked; but for a reset
\* that mailed and did not commit (auth/service.go 293-319, user/service.go
\* 350-394).
LastToldHolds ==
    \A u \in Users :
        rowLock[u] = NoRequest => password[u] = told[u] \/ u \in spoilt

-----------------------------------------------------------------------------
(* The invariant that makes the two inductive.                              *)

\* r holds a token that GET let through.
Through(r) == req[r].kind = "reset" /\ req[r].at \notin {"idle", "get link"}

\* A request has what its steps use, and a row is locked by who writes it.
RequestOK(r) ==
    LET q == req[r] IN
        /\ q.at = "idle" <=> q.kind = "none"
        /\ q.at \in LinkSteps <=> q.kind = "forgot"
        /\ q.at \in ResetSteps => q.kind = "reset"
        /\ q.at # "idle" => q.user \in Users
        /\ q.kind \in {"forgot", "reset"} =>
              q.token \in Tokens /\ sealed[q.token] = q.user
        /\ q.kind = "reset" => q.token \in mailed
        /\ q.kind \notin {"forgot", "reset"} => q.token = NoToken
        /\ q.kind = "write" => q.new \in Passwords
        /\ q.at \in RowSteps \cup {"mail password"} /\ q.kind = "reset" => q.new \in Passwords
        /\ q.at \in {"mail password", "commit"} => rowLock[q.user] = r

LockOK ==
    \A u \in Users, r \in Requests :
        rowLock[u] = r => req[r].user = u /\ req[r].at \in {"mail password", "commit"}

\* A mail went out for what its sender is about to commit; else what was told
\* holds.
ToldOK ==
    /\ \A r \in Requests : HasMailed(r) => told[req[r].user] = req[r].new
    /\ \A u \in Users : \/ password[u] = told[u] \/ u \in spoilt
                      \/ \E r \in Requests : HasMailed(r) /\ req[r].user = u

\* A token is sealed before it is mailed and mailed before it is used; until
\* it is mailed it is on its way in one request only.
FreshOK ==
    /\ \A t \in Tokens : uses[t] # 0 => t \in mailed
    /\ \A t \in mailed : sealed[t] \in Users
    /\ \A r \in Requests : req[r].kind = "forgot" =>
          /\ req[r].token \notin mailed
          /\ req[r].at = "store link" => req[r].token \notin stored
          /\ \A q \in Requests \ {r} : req[q].token # req[r].token

\* Once a token is through, or used, it is out of Redis, and nobody else has it.
Once(t) ==
    /\ uses[t] <= 1
    /\ uses[t] = 1 => t \notin stored
    /\ \A r \in Requests : Through(r) /\ req[r].token = t =>
          /\ uses[t] = 0
          /\ req[r].at # "burn link" => t \notin stored
          /\ \A q \in Requests \ {r} : ~ (Through(q) /\ req[q].token = t)

TokenOK == \A t \in Tokens \ leaked : Once(t)

IInv ==
    /\ TypeOK
    /\ \A r \in Requests : RequestOK(r)
    /\ LockOK /\ ToldOK /\ FreshOK /\ TokenOK

\* What is stored of a user, who holds the row, and what its holder has written.
StoredUser(u) == [password |-> password[u], deleted |-> u \in deleted]

WrittenUser(q) ==
    [password |-> IF q.kind = "delete" THEN password[q.user] ELSE q.new,
     deleted |-> q.kind = "delete" \/ q.user \in deleted]

StoredUsers == [u \in Users |-> StoredUser(u)]
UserHolders == [u \in Users |-> {rowLock[u]} \ {NoRequest}]
PendingUsers == [u \in Users |-> {WrittenUser(req[r]) : r \in {rowLock[u]} \ {NoRequest}}]

RT == INSTANCE Trx WITH
        Rows <- Users, Values <- [password : Passwords \cup {NoPassword}, deleted : BOOLEAN],
        stored <- StoredUsers, holder <- UserHolders, pending <- PendingUsers

\* The writers of a password keep to what WithTrx promises: none of them overwrites
\* what another one has sent and not yet committed, and the row becomes what its
\* holder sent, all of it or nothing, whatever was mailed in between
\* (trxmanager.go 23-46, auth/service.go 292-322, user/service.go 324-397).
PasswordTrx == RT!Spec
=============================================================================
