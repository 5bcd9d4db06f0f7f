----------------------------- MODULE UsersProofs -----------------------------
(***************************************************************************)
(* IInv of PasswordReset is inductive, and with it TypeOK, LinkOnce and     *)
(* LastToldHolds hold, for all sets of users, tokens, passwords and          *)
(* goroutines and any number of failures.  AccountsInv of Accounts is         *)
(* inductive, and with it AccountsTypeOK and OneOwner hold, for all sets of    *)
(* numbers, emails and goroutines and any number of accounts and failures;    *)
(* its requests implement Trx.  The two side by side are what the runs check. *)
(***************************************************************************)
EXTENDS MCUsers, SequenceTheorems, TLAPS

-----------------------------------------------------------------------------
(* PasswordReset.                                                           *)

Steps == {"idle"} \cup LinkSteps \cup ResetSteps \cup RowSteps

-----------------------------------------------------------------------------
(* What the helpers do to the records of the requests.                      *)

\* Request r has become this one, the others stay as they are.
Becomes(r, at, kind, user, tok, new) ==
    /\ req' \in [Requests -> Request]
    /\ \A q \in Requests : q # r => req'[q] = req[q]
    /\ req'[r].at = at /\ req'[r].kind = kind /\ req'[r].user = user
    /\ req'[r].token = tok /\ req'[r].new = new

LEMMA BeginEffect ==
    ASSUME req \in [Requests -> Request], NEW r \in Requests, NEW step \in Steps,
           NEW kind \in {"forgot", "reset", "write", "delete"}, NEW u \in Users,
           NEW t \in Tokens \cup {NoToken}, NEW p \in Passwords \cup {NoPassword},
           Begin(r, step, kind, u, t, p)
    PROVE  Becomes(r, step, kind, u, t, p)
<1> DEFINE v == [at |-> step, kind |-> kind, user |-> u, token |-> t, new |-> p]
<1>1. req' = [req EXCEPT ![r] = v]
  BY DEF Begin
<1>2. /\ v \in Request
      /\ v.at = step /\ v.kind = kind /\ v.user = u /\ v.token = t /\ v.new = p
  BY DEF Request, Steps
<1> HIDE DEF v
<1> QED BY <1>1, <1>2 DEF Becomes

LEMMA GotoEffect ==
    ASSUME req \in [Requests -> Request], NEW r \in Requests, NEW step \in Steps,
           Goto(r, step)
    PROVE  Becomes(r, step, req[r].kind, req[r].user, req[r].token, req[r].new)
<1> DEFINE v == [req[r] EXCEPT !.at = step]
<1>1. req' = [req EXCEPT ![r] = v]
  BY DEF Goto
<1>2. req[r] \in Request
  OBVIOUS
<1>3. /\ v \in Request
      /\ v.at = step /\ v.kind = req[r].kind /\ v.user = req[r].user
      /\ v.token = req[r].token /\ v.new = req[r].new
  BY <1>2 DEF Request, Steps
<1> HIDE DEF v
<1> QED BY <1>1, <1>3 DEF Becomes

LEMMA IdleRequest == Idle \in Request
  BY DEF Idle, Request

LEMMA DoneEffect ==
    ASSUME req \in [Requests -> Request], NEW r \in Requests, Done(r)
    PROVE  Becomes(r, "idle", "none", NoUser, NoToken, NoPassword)
<1>1. req' = [req EXCEPT ![r] = Idle]
  BY DEF Done
<1>2. /\ Idle.at = "idle" /\ Idle.kind = "none" /\ Idle.user = NoUser
      /\ Idle.token = NoToken /\ Idle.new = NoPassword
  BY DEF Idle
<1> QED BY <1>1, <1>2, IdleRequest DEF Becomes

LEMMA FailuresType == ASSUME TypeOK, Fails \/ Works PROVE failures' \in 0..MaxFailures
  BY PasswordResetAssumption DEF TypeOK, Fails, Works

LEMMA AllSteps ==
    /\ LinkSteps \subseteq Steps /\ ResetSteps \subseteq Steps /\ RowSteps \subseteq Steps
    /\ "idle" \in Steps
  BY DEF Steps

\* The parts of the invariant, for the request r in particular.
LEMMA Parts ==
    ASSUME IInv, NEW r \in Requests
    PROVE  /\ TypeOK /\ RequestOK(r) /\ LockOK /\ ToldOK /\ FreshOK /\ TokenOK
           /\ req \in [Requests -> Request] /\ req[r] \in Request
  BY DEF IInv, TypeOK

-----------------------------------------------------------------------------
(* The rows.  Unlock frees what r holds and nothing else.                   *)

LEMMA UnlockEffect ==
    ASSUME TypeOK, NEW r \in Requests, Unlock(r)
    PROVE  /\ rowLock' \in [Users -> Requests \cup {NoRequest}]
           /\ \A u \in Users : rowLock[u] = r => rowLock'[u] = NoRequest
           /\ \A u \in Users : rowLock[u] # r => rowLock'[u] = rowLock[u]
  BY DEF TypeOK, Unlock

LEMMA RowUnlocked ==
    ASSUME IInv, NEW r \in Requests, Unlock(r),
           \A q \in Requests : q # r => req'[q] = req[q]
    PROVE  LockOK'
<1>1. \A u \in Users : rowLock'[u] # r
  BY UnlockEffect, PasswordResetAssumption DEF IInv
<1>2. \A u \in Users : rowLock'[u] \in Requests => rowLock'[u] = rowLock[u]
  BY UnlockEffect, PasswordResetAssumption DEF IInv
<1> QED BY <1>1, <1>2 DEF IInv, LockOK

\* A step of r that does not touch the passwords nor mail one.
LEMMA ToldKept ==
    ASSUME IInv, NEW r \in Requests,
           \A q \in Requests : q # r => req'[q] = req[q],
           UNCHANGED <<password, told, spoilt>>, ~ HasMailed(r), ~ HasMailed(r)'
    PROVE  ToldOK'
<1>1. \A q \in Requests : HasMailed(q)' => HasMailed(q) /\ req'[q] = req[q]
  BY DEF HasMailed
<1>2. \A q \in Requests : HasMailed(q) => HasMailed(q)' /\ req'[q] = req[q]
  BY DEF HasMailed
<1>3. ASSUME NEW u \in Users
      PROVE  \/ password'[u] = told'[u] \/ u \in spoilt'
             \/ \E q \in Requests : HasMailed(q)' /\ req'[q].user = u
  <2>1. CASE \E q \in Requests : HasMailed(q) /\ req[q].user = u
    BY <1>2, <2>1
  <2>2. CASE password[u] = told[u] \/ u \in spoilt
    BY <2>2
  <2> QED BY <2>1, <2>2 DEF IInv, ToldOK
<1>4. \A q \in Requests : HasMailed(q)' => told'[req'[q].user] = req'[q].new
  BY <1>1 DEF IInv, ToldOK
<1> QED BY <1>3, <1>4 DEF ToldOK

\* A step of r, which holds the row of u, that leaves the other users alone.
LEMMA ToldByHolder ==
    ASSUME IInv, NEW r \in Requests, NEW u \in Users, rowLock[u] = r,
           \A q \in Requests : q # r => req'[q] = req[q],
           \A v \in Users : v # u => password'[v] = password[v] /\ told'[v] = told[v],
           \A v \in Users : v # u /\ v \in spoilt => v \in spoilt',
           HasMailed(r)' => req'[r].user = u /\ told'[u] = req'[r].new,
           password'[u] = told'[u] \/ u \in spoilt' \/ HasMailed(r)'
    PROVE  ToldOK'
<1>1. \A q \in Requests : HasMailed(q) => req[q].user \in Users /\ rowLock[req[q].user] = q
  BY DEF IInv, RequestOK, HasMailed
<1>2. req[r].user = u
  BY DEF IInv, LockOK
<1>3. ASSUME NEW q \in Requests, HasMailed(q)' PROVE told'[req'[q].user] = req'[q].new
  <2>1. CASE q # r
    <3>1. HasMailed(q) /\ req'[q] = req[q]
      BY <1>3, <2>1 DEF HasMailed
    <3>2. req[q].user # u /\ req[q].user \in Users
      BY <1>1, <2>1, <3>1
    <3>3. told[req[q].user] = req[q].new
      BY <3>1 DEF IInv, ToldOK
    <3>4. told'[req[q].user] = told[req[q].user]
      BY <3>2
    <3> QED BY <3>1, <3>3, <3>4
  <2> QED BY <1>3, <2>1
<1>4. ASSUME NEW v \in Users
      PROVE  \/ password'[v] = told'[v] \/ v \in spoilt'
             \/ \E q \in Requests : HasMailed(q)' /\ req'[q].user = v
  <2>1. CASE v # u /\ \E q \in Requests : HasMailed(q) /\ req[q].user = v
    <3>1. PICK q \in Requests : HasMailed(q) /\ req[q].user = v
      BY <2>1
    <3>2. req'[q] = req[q]
      BY <1>2, <2>1, <3>1
    <3> QED BY <3>1, <3>2 DEF HasMailed
  <2>2. CASE v # u /\ (password[v] = told[v] \/ v \in spoilt)
    BY <2>2
  <2>3. CASE v = u
    BY <2>3
  <2> QED BY <2>1, <2>2, <2>3 DEF IInv, ToldOK
<1> QED BY <1>3, <1>4 DEF ToldOK

\* A step of r that does not touch the rows and the passwords told, and ends
\* outside of the steps that hold a lock.
LEMMA RowsKept ==
    ASSUME IInv, NEW r \in Requests,
           \A q \in Requests : q # r => req'[q] = req[q],
           UNCHANGED <<password, rowLock, told, spoilt>>,
           req[r].at \notin {"mail password", "commit"},
           req'[r].at \notin {"mail password", "commit"}
    PROVE  LockOK' /\ ToldOK'
<1>1. LockOK'
  BY Parts DEF LockOK
<1>2. ToldOK'
  BY ToldKept DEF HasMailed
<1> QED BY <1>1, <1>2

\* What is known of a token stays true if r, alone, neither gets it, stores it
\* nor uses it.
LEMMA OnceKept ==
    ASSUME IInv, NEW r \in Requests, NEW t \in Tokens, t \notin leaked,
           \A q \in Requests : q # r => req'[q] = req[q],
           uses'[t] = uses[t], t \in stored' => t \in stored,
           Through(r)' /\ req'[r].token = t =>
               /\ Through(r) /\ req[r].token = t
               /\ req[r].at = "burn link" => req'[r].at = "burn link" \/ t \notin stored'
    PROVE  Once(t)'
<1>1. Once(t)
  BY DEF IInv, TokenOK
<1>2. ASSUME NEW q \in Requests, Through(q)', req'[q].token = t
      PROVE  /\ Through(q) /\ req[q].token = t
             /\ req[q].at = "burn link" => req'[q].at = "burn link" \/ t \notin stored'
  BY <1>2 DEF Through
<1>3. ASSUME NEW q \in Requests, Through(q)', req'[q].token = t
      PROVE  /\ uses'[t] = 0
             /\ req'[q].at # "burn link" => t \notin stored'
             /\ \A p \in Requests \ {q} : ~ (Through(p)' /\ req'[p].token = t)
  <2>1. /\ Through(q) /\ req[q].token = t
        /\ req[q].at = "burn link" => req'[q].at = "burn link" \/ t \notin stored'
    BY <1>2, <1>3
  <2>2. /\ uses[t] = 0
        /\ req[q].at # "burn link" => t \notin stored
        /\ \A p \in Requests \ {q} : ~ (Through(p) /\ req[p].token = t)
    BY <1>1, <2>1 DEF Once
  <2> QED BY <1>2, <2>1, <2>2
<1> QED BY <1>1, <1>3 DEF Once

\* A step of r that does not touch the tokens, and lets none through.
LEMMA TokensKept ==
    ASSUME IInv, NEW r \in Requests,
           \A q \in Requests : q # r => req'[q] = req[q],
           UNCHANGED <<stored, sealed, mailed, uses, leaked>>,
           req'[r].kind # "forgot",
           req'[r].token \in Tokens => req'[r].token \in mailed,
           Through(r)' =>
               /\ Through(r) /\ req'[r].token = req[r].token
               /\ req[r].at # "burn link"
    PROVE  FreshOK' /\ TokenOK'
<1>1. FreshOK'
  <2>1. \A t \in Tokens : uses'[t] # 0 => t \in mailed'
    BY DEF IInv, FreshOK
  <2>2. \A t \in mailed' : sealed'[t] \in Users
    BY DEF IInv, FreshOK
  <2>3. ASSUME NEW q \in Requests, req'[q].kind = "forgot"
        PROVE  /\ req'[q].token \notin mailed'
               /\ req'[q].at = "store link" => req'[q].token \notin stored'
               /\ \A p \in Requests \ {q} : req'[p].token # req'[q].token
    <3>1. q # r /\ req'[q] = req[q]
      BY <2>3
    <3>2. /\ req[q].token \notin mailed /\ req[q].token \in Tokens
          /\ req[q].at = "store link" => req[q].token \notin stored
          /\ \A p \in Requests \ {q} : req[p].token # req[q].token
      BY <2>3, <3>1 DEF IInv, FreshOK, RequestOK
    <3> QED BY <3>1, <3>2
  <2> QED BY <2>1, <2>2, <2>3 DEF FreshOK
<1>2. \A t \in Tokens \ leaked : Once(t)'
  BY OnceKept
<1> QED BY <1>1, <1>2 DEF TokenOK

\* What the other requests know of themselves stays true.
LEMMA OthersOK ==
    ASSUME NEW q \in Requests, RequestOK(q), req'[q] = req[q],
           \A t \in Tokens : sealed[t] \in Users => sealed'[t] = sealed[t],
           mailed \subseteq mailed',
           \A u \in Users : rowLock[u] = q => rowLock'[u] = q
    PROVE  RequestOK(q)'
<1>1. req[q].at # "idle" => req[q].user \in Users
  BY DEF RequestOK
<1>2. req[q].kind \in {"forgot", "reset"} =>
          req[q].token \in Tokens /\ sealed'[req[q].token] = req[q].user
  BY <1>1 DEF RequestOK
<1>3. req[q].at \in {"mail password", "commit"} => rowLock'[req[q].user] = q
  BY <1>1 DEF RequestOK
<1> QED BY <1>1, <1>2, <1>3 DEF RequestOK

\* A step of r keeps the invariant if it keeps these.
LEMMA StepOf ==
    ASSUME IInv, NEW r \in Requests, TypeOK',
           \A q \in Requests : q # r => req'[q] = req[q],
           \A t \in Tokens : sealed[t] \in Users => sealed'[t] = sealed[t],
           mailed \subseteq mailed',
           \A u \in Users : rowLock[u] \notin {r, NoRequest} => rowLock'[u] = rowLock[u],
           RequestOK(r)', LockOK', ToldOK', FreshOK', TokenOK'
    PROVE  IInv'
<1>1. ASSUME NEW q \in Requests, q # r PROVE RequestOK(q)'
  <2>1. \A u \in Users : rowLock[u] = q => rowLock'[u] = q
    BY <1>1, PasswordResetAssumption
  <2>2. RequestOK(q) /\ req'[q] = req[q]
    BY <1>1 DEF IInv
  <2> QED BY <2>1, <2>2, OthersOK
<1> QED BY <1>1 DEF IInv

-----------------------------------------------------------------------------
(* Links.                                                                   *)

LEMMA StartForgotKeeps ==
    ASSUME IInv, NEW r \in Requests, NEW u \in Users, NEW t \in Tokens, StartForgot(r, u, t)
    PROVE  IInv'
<1>1. Becomes(r, "store link", "forgot", u, t, NoPassword)
  BY Parts, BeginEffect, AllSteps DEF StartForgot, LinkSteps
<1>2. /\ req[r].at = "idle" /\ sealed[t] = NoUser /\ sealed' = [sealed EXCEPT ![t] = u]
      /\ UNCHANGED <<stored, mailed, password, deleted, rowLock, failures,
                     told, spoilt, uses, leaked>>
  BY DEF StartForgot, Begin, mysql, history
<1>3. /\ sealed' \in [Tokens -> Users \cup {NoUser}] /\ sealed'[t] = u
      /\ \A s \in Tokens : sealed[s] \in Users => sealed'[s] = sealed[s]
  BY <1>2, Parts, PasswordResetAssumption DEF TypeOK
<1>4. TypeOK'
  BY <1>1, <1>2, <1>3, Parts DEF TypeOK, Becomes
<1>5. RequestOK(r)'
  BY <1>1, <1>3 DEF RequestOK, Becomes, LinkSteps, ResetSteps, RowSteps
<1>6. LockOK' /\ ToldOK'
  BY <1>1, <1>2, RowsKept DEF Becomes
<1>7. /\ t \notin stored /\ t \notin mailed
      /\ \A q \in Requests : req[q].token # t
      /\ uses[t] = 0
  BY <1>2, PasswordResetAssumption DEF IInv, TypeOK, RequestOK, FreshOK
<1>8. FreshOK'
  <2>1. \A s \in Tokens : uses'[s] # 0 => s \in mailed'
    BY <1>2 DEF IInv, FreshOK
  <2>2. \A s \in mailed' : sealed'[s] \in Users
    BY <1>2, <1>3, Parts DEF FreshOK, TypeOK
  <2>3. ASSUME NEW q \in Requests, req'[q].kind = "forgot"
        PROVE  /\ req'[q].token \notin mailed'
               /\ req'[q].at = "store link" => req'[q].token \notin stored'
               /\ \A p \in Requests \ {q} : req'[p].token # req'[q].token
    <3>1. CASE q = r
      BY <3>1, <1>1, <1>2, <1>7 DEF Becomes
    <3>2. CASE q # r
      <4>1. req'[q] = req[q] /\ req[q].token # t
        BY <3>2, <1>1, <1>7 DEF Becomes
      <4>2. /\ req[q].token \notin mailed
            /\ req[q].at = "store link" => req[q].token \notin stored
            /\ \A p \in Requests \ {q} : req[p].token # req[q].token
        BY <2>3, <4>1 DEF IInv, FreshOK
      <4> QED BY <4>1, <4>2, <1>1, <1>2 DEF Becomes
    <3> QED BY <3>1, <3>2
  <2> QED BY <2>1, <2>2, <2>3 DEF FreshOK
<1>9. TokenOK'
  <2>1. ~ Through(r)' /\ UNCHANGED <<stored, uses, leaked>>
    BY <1>1, <1>2 DEF Through, Becomes
  <2>2. \A s \in Tokens \ leaked : Once(s)'
    BY <1>1, <2>1, OnceKept DEF Becomes
  <2> QED BY <2>1, <2>2 DEF TokenOK
<1> QED BY <1>1, <1>2, <1>3, <1>4, <1>5, <1>6, <1>8, <1>9, StepOf DEF Becomes

LEMMA StoreLinkKeeps ==
    ASSUME IInv, NEW r \in Requests, StoreLink(r)
    PROVE  IInv'
<1>1. PICK t \in Tokens :
          /\ req[r].at = "store link" /\ req[r].kind = "forgot" /\ req[r].token = t
          /\ req[r].user \in Users /\ sealed[t] = req[r].user
          /\ t \notin mailed /\ uses[t] = 0
          /\ \A q \in Requests \ {r} : req[q].token # t
  BY Parts DEF StoreLink, RequestOK, LinkSteps, FreshOK
<1>2. UNCHANGED <<sealed, mailed, password, deleted, rowLock, told, spoilt, uses, leaked>>
  BY DEF StoreLink, mysql, history
<1>3. /\ stored' = stored \/ stored' = stored \cup {t}
      /\ Fails \/ Works
  BY <1>1 DEF StoreLink
<1>4. Becomes(r, "mail link", "forgot", req[r].user, t, req[r].new)
  BY <1>1, Parts, GotoEffect, AllSteps DEF StoreLink, LinkSteps
<1>5. TypeOK'
  <2>1. failures' \in 0..MaxFailures
    BY <1>3, Parts, FailuresType
  <2>2. stored' \in SUBSET Tokens /\ \A s \in stored' : sealed'[s] \in Users
    BY <1>1, <1>2, <1>3, Parts DEF TypeOK
  <2> QED BY <1>2, <1>4, <2>1, <2>2, Parts DEF TypeOK, Becomes
<1>6. RequestOK(r)'
  BY <1>1, <1>2, <1>4 DEF RequestOK, Becomes, LinkSteps, ResetSteps, RowSteps
<1>7. LockOK' /\ ToldOK'
  BY <1>1, <1>2, <1>4, RowsKept DEF Becomes
<1>8. FreshOK'
  <2>1. /\ \A s \in Tokens : uses'[s] # 0 => s \in mailed'
        /\ \A s \in mailed' : sealed'[s] \in Users
    BY <1>2 DEF IInv, FreshOK
  <2>2. ASSUME NEW q \in Requests, req'[q].kind = "forgot"
        PROVE  /\ req'[q].token \notin mailed'
               /\ req'[q].at = "store link" => req'[q].token \notin stored'
               /\ \A p \in Requests \ {q} : req'[p].token # req'[q].token
    <3>1. /\ req'[q].token = req[q].token
          /\ \A p \in Requests : req'[p].token = req[p].token
          /\ req[q].kind = "forgot"
          /\ req'[q].at = "store link" => q # r /\ req[q].at = "store link"
      BY <1>1, <1>4, <2>2 DEF Becomes
    <3>2. /\ req[q].token \notin mailed
          /\ req[q].at = "store link" => req[q].token \notin stored
          /\ \A p \in Requests \ {q} : req[p].token # req[q].token
      BY <3>1 DEF IInv, FreshOK
    <3> QED BY <3>1, <3>2, <1>1, <1>2, <1>3
  <2> QED BY <2>1, <2>2 DEF FreshOK
<1>9. TokenOK'
  <2>1. ASSUME NEW s \in Tokens \ leaked, s # t PROVE Once(s)'
    <3>1. ~ Through(r)' /\ uses'[s] = uses[s] /\ (s \in stored' => s \in stored)
      BY <1>2, <1>3, <1>4, <2>1 DEF Through, Becomes
    <3> QED BY <1>4, <3>1, OnceKept DEF Becomes
  <2>2. Once(t)'
    <3>1. uses'[t] = 0
      BY <1>1, <1>2
    <3>2. \A q \in Requests : ~ (Through(q)' /\ req'[q].token = t)
      BY <1>1, <1>4 DEF Becomes, Through
    <3>3. uses'[t] <= 1 /\ (uses'[t] = 1 => t \notin stored')
      BY <3>1
    <3> QED BY <3>2, <3>3 DEF Once
  <2> QED BY <1>2, <2>1, <2>2 DEF TokenOK
<1> QED BY <1>1, <1>2, <1>4, <1>5, <1>6, <1>7, <1>8, <1>9, StepOf DEF Becomes

LEMMA MailLinkKeeps ==
    ASSUME IInv, NEW r \in Requests, MailLink(r)
    PROVE  IInv'
<1>1. PICK t \in Tokens :
          /\ req[r].at = "mail link" /\ req[r].kind = "forgot" /\ req[r].token = t
          /\ sealed[t] \in Users
          /\ \A q \in Requests \ {r} : req[q].token # t
  BY Parts DEF MailLink, RequestOK, LinkSteps, FreshOK
<1>2. UNCHANGED <<stored, sealed, password, deleted, rowLock, told, spoilt, uses, leaked>>
  BY DEF MailLink, mysql, history
<1>3. /\ mailed' = mailed \/ mailed' = mailed \cup {t}
      /\ Fails \/ Works
  BY <1>1 DEF MailLink
<1>4. Becomes(r, "idle", "none", NoUser, NoToken, NoPassword)
  BY Parts, DoneEffect DEF MailLink
<1>5. TypeOK'
  <2>1. failures' \in 0..MaxFailures
    BY <1>3, Parts, FailuresType
  <2>2. mailed' \in SUBSET Tokens
    BY <1>3, Parts DEF TypeOK
  <2> QED BY <1>2, <1>4, <2>1, <2>2, Parts DEF TypeOK, Becomes
<1>6. RequestOK(r)'
  BY <1>4 DEF RequestOK, Becomes, LinkSteps, ResetSteps, RowSteps
<1>7. LockOK' /\ ToldOK'
  BY <1>1, <1>2, <1>4, RowsKept DEF Becomes
<1>8. FreshOK'
  <2>1. /\ \A s \in Tokens : uses'[s] # 0 => s \in mailed'
        /\ \A s \in mailed' : sealed'[s] \in Users
    BY <1>1, <1>2, <1>3 DEF IInv, FreshOK
  <2>2. ASSUME NEW q \in Requests, req'[q].kind = "forgot"
        PROVE  /\ req'[q].token \notin mailed'
               /\ req'[q].at = "store link" => req'[q].token \notin stored'
               /\ \A p \in Requests \ {q} : req'[p].token # req'[q].token
    <3>1. q # r /\ req'[q] = req[q]
      BY <1>4, <2>2 DEF Becomes
    <3>2. /\ req[q].token \notin mailed /\ req[q].token \in Tokens
          /\ req[q].at = "store link" => req[q].token \notin stored
          /\ \A p \in Requests \ {q} : req[p].token # req[q].token
      BY <3>1, <2>2 DEF IInv, FreshOK, RequestOK
    <3>3. req[q].token # t
      BY <1>1, <3>1
    <3>4. \A p \in Requests \ {q} : req'[p].token # req[q].token
      BY <3>2, <1>4, PasswordResetAssumption DEF Becomes
    <3>5. req[q].token \notin mailed'
      BY <3>2, <3>3, <1>3
    <3> QED BY <3>1, <3>2, <3>4, <3>5, <1>2
  <2> QED BY <2>1, <2>2 DEF FreshOK
<1>9. TokenOK'
  <2>1. ~ Through(r)' /\ UNCHANGED <<stored, uses, leaked>>
    BY <1>2, <1>4 DEF Through, Becomes
  <2>2. \A s \in Tokens \ leaked : Once(s)'
    BY <1>4, <2>1, OnceKept DEF Becomes
  <2> QED BY <2>1, <2>2 DEF TokenOK
<1>10. mailed \subseteq mailed'
  BY <1>3
<1> QED BY <1>2, <1>4, <1>5, <1>6, <1>7, <1>8, <1>9, <1>10, StepOf DEF Becomes

-----------------------------------------------------------------------------
(* Requests that begin with a link or a form.                               *)

LEMMA RequestBegins ==
    ASSUME IInv, NEW r \in Requests, NEW step \in {"get link", "update"},
           NEW kind \in {"reset", "write", "delete"}, NEW u \in Users,
           NEW t \in Tokens \cup {NoToken}, NEW p \in Passwords \cup {NoPassword},
           Begin(r, step, kind, u, t, p),
           UNCHANGED <<links, mysql, failures, history>>,
           step = "get link" <=> kind = "reset",
           IF kind = "reset" THEN t \in mailed /\ sealed[t] = u ELSE t = NoToken,
           kind = "write" => p \in Passwords
    PROVE  IInv'
<1>1. Becomes(r, step, kind, u, t, p) /\ req[r].at = "idle"
  BY Parts, BeginEffect DEF Begin, Steps, ResetSteps, RowSteps
<1>2. UNCHANGED <<stored, sealed, mailed, password, deleted, rowLock, failures,
                  told, spoilt, uses, leaked>>
  BY DEF links, mysql, history
<1>3. TypeOK'
  BY <1>1, <1>2, Parts DEF TypeOK, Becomes
<1>4. kind = "reset" => t \in Tokens
  BY Parts DEF TypeOK
<1>5. RequestOK(r)'
  BY <1>1, <1>2, <1>4 DEF RequestOK, Becomes, LinkSteps, ResetSteps, RowSteps
<1>6. LockOK' /\ ToldOK'
  BY <1>1, <1>2, RowsKept DEF Becomes
<1>7. FreshOK' /\ TokenOK'
  <2>1. ~ Through(r)'
    BY <1>1 DEF Through, Becomes
  <2>2. req'[r].kind # "forgot" /\ (req'[r].token \in Tokens => req'[r].token \in mailed)
    BY <1>1, PasswordResetAssumption DEF Becomes
  <2> QED BY <1>1, <1>2, <2>1, <2>2, TokensKept DEF Becomes
<1> QED BY <1>1, <1>2, <1>3, <1>5, <1>6, <1>7, StepOf DEF Becomes

LEMMA StartResetKeeps ==
    ASSUME IInv, NEW r \in Requests, NEW t \in Tokens, StartReset(r, t)
    PROVE  IInv'
<1>1. t \in mailed /\ sealed[t] \in Users
  BY DEF StartReset, IInv, FreshOK
<1> QED BY <1>1, RequestBegins DEF StartReset

LEMMA StartWriteKeeps ==
    ASSUME IInv, NEW r \in Requests, NEW u \in Users, NEW p \in Passwords,
           StartChange(r, u, p) \/ StartRegister(r, u, p)
    PROVE  IInv'
  BY RequestBegins DEF StartChange, StartRegister

LEMMA StartDeleteKeeps ==
    ASSUME IInv, NEW r \in Requests, NEW u \in Users, StartDelete(r, u)
    PROVE  IInv'
  BY RequestBegins DEF StartDelete

-----------------------------------------------------------------------------
(* A reset up to its UPDATE.                                                *)

LEMMA GetLinkKeeps ==
    ASSUME IInv, NEW r \in Requests, GetLink(r)
    PROVE  IInv'
<1>1. PICK t \in Tokens :
          /\ req[r].at = "get link" /\ req[r].kind = "reset" /\ req[r].token = t
          /\ req[r].user \in Users /\ sealed[t] = req[r].user /\ t \in mailed
  BY Parts DEF GetLink, RequestOK, ResetSteps
<1>2. UNCHANGED <<stored, sealed, mailed, password, deleted, rowLock, told, spoilt, uses>>
  BY DEF GetLink, links, mysql
<1>3. /\ Fails \/ Works
      /\ \/ Goto(r, "burn link") /\ t \in stored
            /\ leaked' = leaked \cup (IF SeenTwice(r) THEN {t} ELSE {})
         \/ Goto(r, "burn link") /\ leaked' = leaked \cup {t}
         \/ Done(r) /\ leaked' = leaked
  BY <1>1 DEF GetLink
<1>4. \/ Becomes(r, "burn link", "reset", req[r].user, t, req[r].new)
      \/ Becomes(r, "idle", "none", NoUser, NoToken, NoPassword) /\ leaked' = leaked
  BY <1>1, <1>3, Parts, GotoEffect, DoneEffect, AllSteps DEF ResetSteps
<1>5. /\ leaked' \in SUBSET Tokens /\ leaked \subseteq leaked'
      /\ \A s \in Tokens : s # t /\ s \notin leaked' => s \notin leaked
      /\ t \notin leaked' => \/ t \in stored /\ ~ SeenTwice(r) /\ t \notin leaked
                             \/ leaked' = leaked /\ Done(r)
  BY <1>3, Parts DEF TypeOK
<1>6. TypeOK'
  <2>1. failures' \in 0..MaxFailures
    BY <1>3, Parts, FailuresType
  <2> QED BY <1>2, <1>4, <1>5, <2>1, Parts DEF TypeOK, Becomes
<1>7. RequestOK(r)'
  BY <1>1, <1>2, <1>4 DEF RequestOK, Becomes, LinkSteps, ResetSteps, RowSteps
<1>8. LockOK' /\ ToldOK'
  BY <1>1, <1>2, <1>4, RowsKept DEF Becomes
<1>9. FreshOK'
  <2>1. /\ \A s \in Tokens : uses'[s] # 0 => s \in mailed'
        /\ \A s \in mailed' : sealed'[s] \in Users
    BY <1>2 DEF IInv, FreshOK
  <2>2. ASSUME NEW q \in Requests, req'[q].kind = "forgot"
        PROVE  /\ req'[q].token \notin mailed'
               /\ req'[q].at = "store link" => req'[q].token \notin stored'
               /\ \A p \in Requests \ {q} : req'[p].token # req'[q].token
    <3>1. q # r /\ req'[q] = req[q]
      BY <1>4, <2>2 DEF Becomes
    <3>2. /\ req[q].token \notin mailed /\ req[q].token \in Tokens
          /\ req[q].at = "store link" => req[q].token \notin stored
          /\ \A p \in Requests \ {q} : req[p].token # req[q].token
      BY <3>1, <2>2 DEF IInv, FreshOK, RequestOK
    <3>3. \A p \in Requests \ {q} : req'[p].token # req[q].token
      BY <3>2, <1>1, <1>4, PasswordResetAssumption DEF Becomes
    <3> QED BY <3>1, <3>2, <3>3, <1>2
  <2> QED BY <2>1, <2>2 DEF FreshOK
<1>10. TokenOK'
  <2>1. ASSUME NEW s \in Tokens, s \notin leaked', s # t PROVE Once(s)'
    <3>1. s \notin leaked /\ uses'[s] = uses[s] /\ (s \in stored' => s \in stored)
          /\ ~ (Through(r)' /\ req'[r].token = s)
      BY <1>2, <1>4, <1>5, <2>1 DEF Through, Becomes
    <3> QED BY <1>4, <3>1, OnceKept DEF Becomes
  <2>2. ASSUME t \notin leaked', Done(r), leaked' = leaked PROVE Once(t)'
    <3>1. Becomes(r, "idle", "none", NoUser, NoToken, NoPassword)
      BY <2>2, Parts, DoneEffect
    <3>2. ~ Through(r)'
      BY <3>1 DEF Through, Becomes
    <3> QED BY <1>2, <2>2, <3>1, <3>2, OnceKept DEF Becomes
  <2>3. ASSUME t \notin leaked, t \in stored, ~ SeenTwice(r) PROVE Once(t)'
    <3>1. Once(t)
      BY <2>3 DEF IInv, TokenOK
    <3>2. uses[t] = 0
      <4>1. uses[t] \in 0..2
        BY Parts DEF TypeOK
      <4>2. uses[t] <= 1 /\ uses[t] # 1
        BY <3>1, <2>3 DEF Once
      <4> QED BY <4>1, <4>2
    <3>3. ASSUME NEW q \in Requests, q # r, Through(q), req[q].token = t PROVE FALSE
      <4>1. req[q].at = "burn link"
        BY <2>3, <3>1, <3>3 DEF Once
      <4> QED BY <4>1, <1>1, <2>3, <3>3 DEF SeenTwice
    <3>4. ASSUME NEW q \in Requests, Through(q)', req'[q].token = t
          PROVE q = r /\ req'[q].at = "burn link"
      BY <1>4, <3>3, <3>4 DEF Through, Becomes
    <3>5. uses'[t] = 0 /\ uses'[t] <= 1 /\ uses'[t] # 1
      BY <1>2, <3>2
    <3>6. ASSUME NEW q \in Requests, Through(q)', req'[q].token = t
          PROVE  /\ req'[q].at = "burn link"
                 /\ \A p \in Requests \ {q} : ~ (Through(p)' /\ req'[p].token = t)
      BY <3>4, <3>6
    <3> QED BY <3>5, <3>6 DEF Once
  <2>4. ASSUME t \notin leaked' PROVE Once(t)'
    BY <1>5, <2>2, <2>3, <2>4
  <2> QED BY <2>1, <2>4 DEF TokenOK
<1> QED BY <1>2, <1>4, <1>6, <1>7, <1>8, <1>9, <1>10, StepOf DEF Becomes

LEMMA BurnLinkKeeps ==
    ASSUME IInv, NEW r \in Requests, BurnLink(r)
    PROVE  IInv'
<1>1. PICK t \in Tokens :
          /\ req[r].at = "burn link" /\ req[r].kind = "reset" /\ req[r].token = t
          /\ req[r].user \in Users /\ sealed[t] = req[r].user /\ t \in mailed
  BY Parts DEF BurnLink, RequestOK, ResetSteps
<1>2. UNCHANGED <<sealed, mailed, password, deleted, rowLock, told, spoilt, uses>>
  BY DEF BurnLink, mysql
<1>3. /\ Fails \/ Works
      /\ \/ stored' = stored \ {t} /\ leaked' = leaked
         \/ stored' = stored /\ leaked' = leaked \cup {t}
  BY <1>1 DEF BurnLink
<1>4. Becomes(r, "find", "reset", req[r].user, t, req[r].new)
  BY <1>1, Parts, GotoEffect, AllSteps DEF BurnLink, ResetSteps
<1>5. /\ stored' \subseteq stored /\ leaked' \in SUBSET Tokens /\ leaked \subseteq leaked'
      /\ t \in leaked' \/ t \notin stored'
  BY <1>3, Parts DEF TypeOK
<1>6. TypeOK'
  <2>1. failures' \in 0..MaxFailures
    BY <1>3, Parts, FailuresType
  <2> QED BY <1>2, <1>4, <1>5, <2>1, Parts DEF TypeOK, Becomes
<1>7. RequestOK(r)'
  BY <1>1, <1>2, <1>4 DEF RequestOK, Becomes, LinkSteps, ResetSteps, RowSteps
<1>8. LockOK' /\ ToldOK'
  BY <1>1, <1>2, <1>4, RowsKept DEF Becomes
<1>9. FreshOK'
  <2>1. /\ \A s \in Tokens : uses'[s] # 0 => s \in mailed'
        /\ \A s \in mailed' : sealed'[s] \in Users
    BY <1>2 DEF IInv, FreshOK
  <2>2. ASSUME NEW q \in Requests, req'[q].kind = "forgot"
        PROVE  /\ req'[q].token \notin mailed'
               /\ req'[q].at = "store link" => req'[q].token \notin stored'
               /\ \A p \in Requests \ {q} : req'[p].token # req'[q].token
    <3>1. q # r /\ req'[q] = req[q] /\ \A p \in Requests : req'[p].token = req[p].token
      BY <1>1, <1>4, <2>2 DEF Becomes
    <3>2. /\ req[q].token \notin mailed
          /\ req[q].at = "store link" => req[q].token \notin stored
          /\ \A p \in Requests \ {q} : req[p].token # req[q].token
      BY <3>1, <2>2 DEF IInv, FreshOK
    <3> QED BY <3>1, <3>2, <1>2, <1>5
  <2> QED BY <2>1, <2>2 DEF FreshOK
<1>10. TokenOK'
  <2>1. ASSUME NEW s \in Tokens, s \notin leaked' PROVE Once(s)'
    <3>1. s \notin leaked /\ uses'[s] = uses[s] /\ (s \in stored' => s \in stored)
      BY <1>2, <1>5, <2>1
    <3>2. Through(r)' /\ req'[r].token = s =>
              Through(r) /\ req[r].token = s /\ s \notin stored'
      BY <1>1, <1>4, <1>5, <2>1 DEF Through, Becomes
    <3> QED BY <1>4, <3>1, <3>2, OnceKept DEF Becomes
  <2> QED BY <2>1 DEF TokenOK
<1> QED BY <1>2, <1>4, <1>6, <1>7, <1>8, <1>9, <1>10, StepOf DEF Becomes

LEMMA FindKeeps ==
    ASSUME IInv, NEW r \in Requests, Find(r)
    PROVE  IInv'
<1>1. PICK t \in Tokens :
          /\ req[r].at = "find" /\ req[r].kind = "reset" /\ req[r].token = t
          /\ req[r].user \in Users /\ sealed[t] = req[r].user /\ t \in mailed
  BY Parts DEF Find, RequestOK, ResetSteps
<1>2. UNCHANGED <<stored, sealed, mailed, password, deleted, rowLock,
                  told, spoilt, uses, leaked>>
  BY DEF Find, links, mysql, history
<1>3. /\ Fails \/ Works
      /\ \/ \E p \in Passwords : req' = [req EXCEPT ![r] =
                                        [req[r] EXCEPT !.at = "update", !.new = p]]
         \/ Done(r)
  BY DEF Find
<1>4. \/ \E p \in Passwords : Becomes(r, "update", "reset", req[r].user, t, p)
      \/ Becomes(r, "idle", "none", NoUser, NoToken, NoPassword)
  <2>1. CASE Done(r)
    BY <2>1, Parts, DoneEffect
  <2>2. ASSUME NEW p \in Passwords,
               req' = [req EXCEPT ![r] = [req[r] EXCEPT !.at = "update", !.new = p]]
        PROVE  Becomes(r, "update", "reset", req[r].user, t, p)
    <3> DEFINE v == [req[r] EXCEPT !.at = "update", !.new = p]
    <3>1. req' = [req EXCEPT ![r] = v]
      BY <2>2
    <3>2. req[r] \in Request
      BY Parts
    <3>3. /\ v \in Request
          /\ v.at = "update" /\ v.kind = "reset" /\ v.user = req[r].user
          /\ v.token = t /\ v.new = p
      BY <1>1, <3>2 DEF Request, RowSteps
    <3> HIDE DEF v
    <3> QED BY <3>1, <3>3, Parts DEF Becomes
  <2> QED BY <1>3, <2>1, <2>2
<1>5. TypeOK'
  <2>1. failures' \in 0..MaxFailures
    BY <1>3, Parts, FailuresType
  <2>2. req' \in [Requests -> Request]
    BY <1>4 DEF Becomes
  <2> QED BY <1>2, <2>1, <2>2, Parts DEF TypeOK
<1>6. RequestOK(r)'
  BY <1>1, <1>2, <1>4 DEF RequestOK, Becomes, LinkSteps, ResetSteps, RowSteps
<1>7. LockOK' /\ ToldOK'
  BY <1>1, <1>2, <1>4, RowsKept DEF Becomes
<1>8. FreshOK' /\ TokenOK'
  BY <1>1, <1>2, <1>4, TokensKept, PasswordResetAssumption DEF Becomes, Through
<1> QED BY <1>2, <1>4, <1>5, <1>6, <1>7, <1>8, StepOf DEF Becomes

-----------------------------------------------------------------------------
(* The row.                                                                 *)

LEMMA UpdateKeeps ==
    ASSUME IInv, NEW r \in Requests, Update(r)
    PROVE  IInv'
<1>1. PICK u \in Users, step \in {"mail password", "commit"} :
          /\ req[r].at = "update" /\ req[r].user = u /\ rowLock[u] = NoRequest
          /\ rowLock' = [rowLock EXCEPT ![u] = r]
          /\ step = "mail password" <=> req[r].kind = "reset"
          /\ Goto(r, step)
  <2>1. req[r].at = "update" /\ req[r].user \in Users
    BY Parts DEF Update, RequestOK
  <2> QED BY <2>1 DEF Update
<1>2. UNCHANGED <<stored, sealed, mailed, password, deleted, failures,
                  told, spoilt, uses, leaked>>
  BY DEF Update, links, history
<1>3. Becomes(r, step, req[r].kind, u, req[r].token, req[r].new)
  BY <1>1, Parts, GotoEffect, AllSteps DEF ResetSteps, RowSteps
<1>4. /\ rowLock' \in [Users -> Requests \cup {NoRequest}] /\ rowLock'[u] = r
      /\ \A v \in Users : v # u => rowLock'[v] = rowLock[v]
  BY <1>1, Parts DEF TypeOK
<1>5. TypeOK'
  BY <1>2, <1>3, <1>4, Parts DEF TypeOK, Becomes
<1>6. RequestOK(r)'
  BY <1>1, <1>2, <1>3, <1>4, Parts DEF RequestOK, Becomes, LinkSteps, ResetSteps, RowSteps
<1>7. LockOK'
  <2>1. ASSUME NEW v \in Users, NEW q \in Requests, rowLock'[v] = q
        PROVE  req'[q].user = v /\ req'[q].at \in {"mail password", "commit"}
    <3>1. CASE v = u
      BY <1>3, <1>4, <2>1, <3>1 DEF Becomes
    <3>2. CASE v # u
      <4>1. req[q].user = v /\ req[q].at \in {"mail password", "commit"}
        BY <1>4, <2>1, <3>2, Parts DEF LockOK
      <4>2. q # r
        BY <1>1, <4>1
      <4> QED BY <4>1, <4>2, <1>3 DEF Becomes
    <3> QED BY <3>1, <3>2
  <2> QED BY <2>1 DEF LockOK
<1>8. ToldOK'
  BY <1>1, <1>2, <1>3, ToldKept DEF HasMailed, Becomes
<1>9. FreshOK' /\ TokenOK'
  <2>1. req'[r].kind # "forgot" /\ req'[r].token = req[r].token
    BY <1>1, <1>3, Parts DEF RequestOK, LinkSteps, Becomes
  <2>2. req[r].token \in Tokens => req[r].token \in mailed
    BY <1>3, <2>1, Parts, PasswordResetAssumption DEF RequestOK, Becomes
  <2>3. Through(r)' => Through(r) /\ req[r].at # "burn link"
    BY <1>1, <1>3 DEF Through, Becomes
  <2> QED BY <1>2, <1>3, <2>1, <2>2, <2>3, TokensKept DEF Becomes
<1>10. \A v \in Users : rowLock[v] \notin {r, NoRequest} => rowLock'[v] = rowLock[v]
  BY <1>1, <1>4
<1> QED BY <1>2, <1>3, <1>5, <1>6, <1>7, <1>8, <1>9, <1>10, StepOf DEF Becomes

\* The transaction of r is over: r is idle, its lock free, the tokens as before.
LEMMA EndsKeeping ==
    ASSUME IInv, NEW r \in Requests, Done(r), Unlock(r),
           UNCHANGED <<stored, sealed, mailed, uses, leaked>>,
           password' \in [Users -> Passwords \cup {NoPassword}], deleted' \in SUBSET Users,
           told' \in [Users -> Passwords \cup {NoPassword}], spoilt' \in SUBSET Users,
           Fails \/ Works, ToldOK'
    PROVE  IInv'
<1>1. Becomes(r, "idle", "none", NoUser, NoToken, NoPassword)
  BY Parts, DoneEffect
<1>2. TypeOK'
  <2>1. failures' \in 0..MaxFailures
    BY Parts, FailuresType
  <2>2. rowLock' \in [Users -> Requests \cup {NoRequest}]
    BY Parts, UnlockEffect
  <2> QED BY <1>1, <2>1, <2>2, Parts DEF TypeOK, Becomes
<1>3. RequestOK(r)'
  BY <1>1 DEF RequestOK, Becomes, LinkSteps, ResetSteps, RowSteps
<1>4. LockOK'
  BY <1>1, RowUnlocked DEF Becomes
<1>5. FreshOK' /\ TokenOK'
  BY <1>1, TokensKept, PasswordResetAssumption DEF Becomes, Through
<1>6. \A v \in Users : rowLock[v] \notin {r, NoRequest} => rowLock'[v] = rowLock[v]
  BY Parts, UnlockEffect
<1> QED BY <1>1, <1>2, <1>3, <1>4, <1>5, <1>6, StepOf DEF Becomes

LEMMA UpdateFailsKeeps ==
    ASSUME IInv, NEW r \in Requests, UpdateFails(r)
    PROVE  IInv'
<1>1. /\ req[r].at = "update" /\ Fails /\ Done(r) /\ Unlock(r)
      /\ UNCHANGED <<stored, sealed, mailed, password, deleted, told, spoilt, uses, leaked>>
  BY DEF UpdateFails, Rollback, links, history
<1>2. Becomes(r, "idle", "none", NoUser, NoToken, NoPassword)
  BY <1>1, Parts, DoneEffect
<1>3. ToldOK'
  BY <1>1, <1>2, ToldKept DEF HasMailed, Becomes
<1> QED BY <1>1, <1>3, Parts, EndsKeeping DEF TypeOK

LEMMA MailPasswordKeeps ==
    ASSUME IInv, NEW r \in Requests, MailPassword(r)
    PROVE  IInv'
<1>1. PICK u \in Users, p \in Passwords, t \in Tokens :
          /\ req[r].at = "mail password" /\ req[r].kind = "reset" /\ req[r].user = u
          /\ req[r].new = p /\ rowLock[u] = r
          /\ req[r].token = t /\ t \in mailed /\ sealed[t] = u
  <2>1. req[r].at = "mail password"
    BY DEF MailPassword
  <2>2. /\ req[r].kind = "reset" /\ req[r].user \in Users /\ rowLock[req[r].user] = r
        /\ req[r].token \in Tokens /\ req[r].token \in mailed
        /\ sealed[req[r].token] = req[r].user
    BY <2>1, Parts DEF RequestOK, ResetSteps
  <2>3. req[r].new \in Passwords
    BY <2>1, <2>2, Parts DEF RequestOK, RowSteps
  <2> QED BY <2>1, <2>2, <2>3
<1>2. UNCHANGED <<stored, sealed, mailed, password, deleted, uses, leaked>>
  BY DEF MailPassword, Rollback, links, mysql
<1>3. /\ Fails \/ Works
      /\ told' \in [Users -> Passwords \cup {NoPassword}] /\ spoilt' \in SUBSET Users
      /\ \A v \in Users : v # u => told'[v] = told[v]
      /\ \A v \in Users : v # u /\ v \in spoilt => v \in spoilt'
      /\ \/ Goto(r, "commit") /\ rowLock' = rowLock /\ told'[u] = p
         \/ /\ Done(r) /\ Unlock(r) /\ Fails
            /\ u \in spoilt' \/ (told' = told /\ spoilt' = spoilt)
  <2>1. told \in [Users -> Passwords \cup {NoPassword}] /\ spoilt \in SUBSET Users
    BY Parts DEF TypeOK
  <2> QED BY <1>1, <2>1 DEF MailPassword, Rollback, mysql
<1>4. CASE Goto(r, "commit") /\ rowLock' = rowLock /\ told'[u] = p
  <2>1. Becomes(r, "commit", "reset", u, t, p)
    BY <1>1, <1>4, Parts, GotoEffect, AllSteps DEF RowSteps
  <2>2. TypeOK'
    <3>1. failures' \in 0..MaxFailures
      BY <1>3, Parts, FailuresType
    <3> QED BY <1>2, <1>3, <1>4, <2>1, <3>1, Parts DEF TypeOK, Becomes
  <2>3. RequestOK(r)'
    BY <1>1, <1>2, <1>4, <2>1 DEF RequestOK, Becomes, LinkSteps, ResetSteps, RowSteps
  <2>4. LockOK'
    <3>1. \A q \in Requests : req'[q].user = req[q].user
      BY <1>1, <2>1 DEF Becomes
    <3>2. \A q \in Requests : req[q].at \in {"mail password", "commit"} =>
              req'[q].at \in {"mail password", "commit"}
      BY <2>1 DEF Becomes
    <3> QED BY <1>4, <3>1, <3>2, Parts DEF LockOK
  <2>5. ToldOK'
    <3>1. HasMailed(r)' /\ req'[r].user = u /\ req'[r].new = p
      BY <2>1 DEF HasMailed, Becomes
    <3> QED BY <1>1, <1>2, <1>3, <1>4, <2>1, <3>1, ToldByHolder DEF Becomes
  <2>6. FreshOK' /\ TokenOK'
    <3>1. Through(r)
      BY <1>1 DEF Through
    <3> QED BY <1>1, <1>2, <2>1, <3>1, TokensKept DEF Becomes
  <2> QED BY <1>2, <1>4, <2>1, <2>2, <2>3, <2>4, <2>5, <2>6, StepOf DEF Becomes
<1>5. CASE /\ Done(r) /\ Unlock(r) /\ Fails
           /\ u \in spoilt' \/ (told' = told /\ spoilt' = spoilt)
  <2>1. Becomes(r, "idle", "none", NoUser, NoToken, NoPassword)
    BY <1>5, Parts, DoneEffect
  <2>2. ~ HasMailed(r) /\ ~ HasMailed(r)'
    BY <1>1, <2>1 DEF HasMailed, Becomes
  <2>3. ToldOK'
    <3>1. CASE u \in spoilt'
      BY <1>1, <1>2, <1>3, <2>1, <2>2, <3>1, ToldByHolder DEF Becomes
    <3>2. CASE told' = told /\ spoilt' = spoilt
      BY <1>2, <2>1, <2>2, <3>2, ToldKept DEF Becomes
    <3> QED BY <1>5, <3>1, <3>2
  <2>4. password \in [Users -> Passwords \cup {NoPassword}] /\ deleted \in SUBSET Users
    BY Parts DEF TypeOK
  <2> QED BY <1>2, <1>3, <1>5, <2>3, <2>4, EndsKeeping
<1> QED BY <1>3, <1>4, <1>5

LEMMA CommitFailsKeeps ==
    ASSUME IInv, NEW r \in Requests, CommitFails(r)
    PROVE  IInv'
<1>1. PICK u \in Users : req[r].at = "commit" /\ req[r].user = u /\ rowLock[u] = r
  <2>1. req[r].at = "commit"
    BY DEF CommitFails
  <2> QED BY <2>1, Parts DEF RequestOK
<1>2. /\ Fails /\ Done(r) /\ Unlock(r)
      /\ UNCHANGED <<stored, sealed, mailed, password, deleted, told, uses, leaked>>
      /\ spoilt' = IF HasMailed(r) THEN spoilt \cup {u} ELSE spoilt
  BY <1>1 DEF CommitFails, Rollback, links
<1>3. Becomes(r, "idle", "none", NoUser, NoToken, NoPassword)
  BY <1>2, Parts, DoneEffect
<1>4. spoilt' \in SUBSET Users /\ spoilt \subseteq spoilt'
  BY <1>2, Parts DEF TypeOK
<1>5. ~ HasMailed(r)'
  BY <1>3 DEF HasMailed, Becomes
<1>6. ToldOK'
  <2>1. CASE HasMailed(r)
    <3>1. u \in spoilt'
      BY <1>2, <2>1
    <3> QED BY <1>1, <1>2, <1>3, <1>4, <1>5, <3>1, ToldByHolder DEF Becomes
  <2>2. CASE ~ HasMailed(r)
    BY <1>2, <1>3, <1>5, <2>2, ToldKept DEF Becomes
  <2> QED BY <2>1, <2>2
<1>7. /\ password \in [Users -> Passwords \cup {NoPassword}] /\ deleted \in SUBSET Users
      /\ told \in [Users -> Passwords \cup {NoPassword}]
  BY Parts DEF TypeOK
<1> QED BY <1>2, <1>4, <1>6, <1>7, EndsKeeping

LEMMA CommitKeeps ==
    ASSUME IInv, NEW r \in Requests, Commit(r)
    PROVE  IInv'
<1>1. PICK u \in Users :
          /\ req[r].at = "commit" /\ req[r].user = u /\ rowLock[u] = r
          /\ req[r].kind \in {"reset", "write", "delete"}
  <2>1. req[r].at = "commit"
    BY DEF Commit
  <2>2. req[r].kind \notin {"none", "forgot"} /\ req[r].kind \in
            {"none", "forgot", "reset", "write", "delete"}
    BY <2>1, Parts DEF RequestOK, LinkSteps, Request
  <2> QED BY <2>1, <2>2, Parts DEF RequestOK
<1>2. /\ Fails \/ Works
      /\ Done(r) /\ Unlock(r) /\ UNCHANGED <<stored, sealed, mailed, leaked>>
  BY DEF Commit, links
<1>3. Becomes(r, "idle", "none", NoUser, NoToken, NoPassword)
  BY <1>2, Parts, DoneEffect
<1>4. ~ HasMailed(r)'
  BY <1>3 DEF HasMailed, Becomes
<1>5. /\ password \in [Users -> Passwords \cup {NoPassword}] /\ deleted \in SUBSET Users
      /\ told \in [Users -> Passwords \cup {NoPassword}] /\ spoilt \in SUBSET Users
      /\ req[r].new \in Passwords \cup {NoPassword}
  BY Parts DEF TypeOK, Request
<1>6. CASE req[r].kind = "delete"
  <2>1. UNCHANGED <<password, told, spoilt, uses>> /\ deleted' = deleted \cup {u}
    BY <1>1, <1>6 DEF Commit, Commits
  <2>2. ToldOK'
    BY <1>3, <1>4, <1>6, <2>1, ToldKept DEF HasMailed, Becomes
  <2> QED BY <1>2, <1>5, <2>1, <2>2, EndsKeeping
<1>7. CASE req[r].kind = "write"
  <2>1. /\ password' = [password EXCEPT ![u] = req[r].new]
        /\ told' = [told EXCEPT ![u] = req[r].new]
        /\ deleted' = deleted /\ spoilt' = spoilt \ {u} /\ uses' = uses
    BY <1>1, <1>7 DEF Commit, Commits
  <2>2. /\ \A v \in Users : v # u => password'[v] = password[v] /\ told'[v] = told[v]
        /\ \A v \in Users : v # u /\ v \in spoilt => v \in spoilt'
        /\ password'[u] = told'[u]
    BY <1>5, <2>1
  <2>3. ToldOK'
    BY <1>1, <1>3, <1>4, <2>2, ToldByHolder DEF Becomes
  <2>4. /\ password' \in [Users -> Passwords \cup {NoPassword}] /\ deleted' \in SUBSET Users
        /\ told' \in [Users -> Passwords \cup {NoPassword}] /\ spoilt' \in SUBSET Users
    BY <1>5, <2>1
  <2> QED BY <1>2, <2>1, <2>3, <2>4, EndsKeeping
<1>8. CASE req[r].kind = "reset"
  <2>1. PICK t \in Tokens : req[r].token = t /\ t \in mailed /\ HasMailed(r) /\ Through(r)
    BY <1>1, <1>8, Parts DEF RequestOK, HasMailed, Through
  <2>2. /\ password' = [password EXCEPT ![u] = req[r].new]
        /\ told' = told /\ deleted' = deleted /\ spoilt' = spoilt
        /\ uses' = IF uses[t] < 2 THEN [uses EXCEPT ![t] = @ + 1] ELSE uses
    BY <1>1, <1>8, <2>1 DEF Commit, Commits
  <2>3. uses \in [Tokens -> 0..2]
    BY Parts DEF TypeOK
  <2>4. uses' \in [Tokens -> 0..2] /\ \A s \in Tokens : s # t => uses'[s] = uses[s]
    BY <2>1, <2>2, <2>3
  <2>5. TypeOK'
    <3>1. failures' \in 0..MaxFailures
      BY <1>2, Parts, FailuresType
    <3>2. rowLock' \in [Users -> Requests \cup {NoRequest}]
      BY <1>2, Parts, UnlockEffect
    <3>3. password' \in [Users -> Passwords \cup {NoPassword}]
      BY <1>5, <2>2
    <3> QED BY <1>2, <1>3, <2>2, <2>4, <3>1, <3>2, <3>3, Parts DEF TypeOK, Becomes
  <2>6. RequestOK(r)'
    BY <1>3 DEF RequestOK, Becomes, LinkSteps, ResetSteps, RowSteps
  <2>7. LockOK'
    BY <1>2, <1>3, RowUnlocked DEF Becomes
  <2>8. ToldOK'
    <3>1. told[u] = req[r].new
      BY <1>1, <2>1, Parts DEF ToldOK
    <3>2. /\ \A v \in Users : v # u => password'[v] = password[v]
          /\ password'[u] = told[u]
      BY <1>5, <2>2, <3>1
    <3> QED BY <1>1, <1>3, <1>4, <2>2, <3>2, ToldByHolder DEF Becomes
  <2>9. FreshOK'
    <3>1. /\ \A s \in Tokens : uses'[s] # 0 => s \in mailed'
          /\ \A s \in mailed' : sealed'[s] \in Users
      BY <1>2, <2>1, <2>4, Parts DEF FreshOK
    <3>2. ASSUME NEW q \in Requests, req'[q].kind = "forgot"
          PROVE  /\ req'[q].token \notin mailed'
                 /\ req'[q].at = "store link" => req'[q].token \notin stored'
                 /\ \A p \in Requests \ {q} : req'[p].token # req'[q].token
      <4>1. q # r /\ req'[q] = req[q]
        BY <1>3, <3>2 DEF Becomes
      <4>2. /\ req[q].token \notin mailed /\ req[q].token \in Tokens
            /\ req[q].at = "store link" => req[q].token \notin stored
            /\ \A p \in Requests \ {q} : req[p].token # req[q].token
        BY <4>1, <3>2 DEF IInv, FreshOK, RequestOK
      <4>3. \A p \in Requests \ {q} : req'[p].token # req[q].token
        BY <4>2, <1>3, PasswordResetAssumption DEF Becomes
      <4> QED BY <4>1, <4>2, <4>3, <1>2
    <3> QED BY <3>1, <3>2 DEF FreshOK
  <2>10. ~ Through(r)'
    BY <1>3 DEF Through, Becomes
  <2>11. ASSUME NEW s \in Tokens, s \notin leaked, s # t PROVE Once(s)'
    BY <1>2, <1>3, <2>4, <2>10, <2>11, OnceKept DEF Becomes
  <2>12. ASSUME t \notin leaked PROVE Once(t)'
    <3>1. /\ uses[t] = 0 /\ t \notin stored
          /\ \A q \in Requests \ {r} : ~ (Through(q) /\ req[q].token = t)
      BY <1>1, <2>1, <2>12, Parts DEF TokenOK, Once
    <3>2. uses'[t] = 1 /\ t \notin stored'
      BY <1>2, <2>1, <2>2, <2>3, <3>1
    <3>3. \A q \in Requests : ~ (Through(q)' /\ req'[q].token = t)
      <4>1. \A q \in Requests \ {r} : ~ (Through(q)' /\ req'[q].token = t)
        BY <1>3, <3>1 DEF Becomes, Through
      <4> QED BY <2>10, <4>1
    <3>4. uses'[t] <= 1
      BY <3>2
    <3> QED BY <3>2, <3>3, <3>4 DEF Once
  <2>13. TokenOK'
    BY <1>2, <2>11, <2>12 DEF TokenOK
  <2>14. \A v \in Users : rowLock[v] \notin {r, NoRequest} => rowLock'[v] = rowLock[v]
    BY <1>2, Parts, UnlockEffect
  <2> QED BY <1>2, <1>3, <2>5, <2>6, <2>7, <2>8, <2>9, <2>13, <2>14, StepOf DEF Becomes
<1> QED BY <1>1, <1>6, <1>7, <1>8

LEMMA CrashKeeps ==
    ASSUME IInv, Crash
    PROVE  IInv'
<1>1. /\ UNCHANGED <<stored, sealed, mailed, password, deleted, told, uses, leaked>>
      /\ Fails
      /\ spoilt' = spoilt \cup {u \in Users : \E r \in Requests : HasMailed(r) /\ req[r].user = u}
  BY DEF Crash, links
<1>2. /\ req' \in [Requests -> Request]
      /\ \A r \in Requests : req'[r].at = "idle" /\ req'[r].kind = "none"
                             /\ req'[r].token = NoToken
  BY IdleRequest DEF Crash, Idle
<1>3. /\ rowLock' \in [Users -> Requests \cup {NoRequest}]
      /\ \A u \in Users : rowLock'[u] = NoRequest
  BY DEF Crash
<1>4. TypeOK'
  <2>1. failures' \in 0..MaxFailures
    BY <1>1, FailuresType DEF IInv
  <2>2. spoilt' \in SUBSET Users
    BY <1>1 DEF IInv, TypeOK
  <2> QED BY <1>1, <1>2, <1>3, <2>1, <2>2 DEF IInv, TypeOK
<1>5. \A r \in Requests : RequestOK(r)'
  BY <1>2 DEF RequestOK, LinkSteps, ResetSteps, RowSteps
<1>6. LockOK'
  BY <1>3, PasswordResetAssumption DEF LockOK
<1>7. ToldOK'
  <2>1. \A r \in Requests : ~ HasMailed(r)'
    BY <1>2 DEF HasMailed
  <2>2. \A u \in Users : password'[u] = told'[u] \/ u \in spoilt'
    BY <1>1 DEF IInv, ToldOK
  <2> QED BY <2>1, <2>2 DEF ToldOK
<1>8. FreshOK'
  BY <1>1, <1>2 DEF IInv, FreshOK
<1>9. TokenOK'
  <2>1. \A r \in Requests : ~ Through(r)'
    BY <1>2 DEF Through
  <2>2. ASSUME NEW t \in Tokens \ leaked PROVE Once(t)'
    <3>1. uses'[t] <= 1 /\ (uses'[t] = 1 => t \notin stored')
      BY <1>1 DEF IInv, TokenOK, Once
    <3> QED BY <2>1, <3>1 DEF Once
  <2> QED BY <1>1, <2>2 DEF TokenOK
<1> QED BY <1>4, <1>5, <1>6, <1>7, <1>8, <1>9 DEF IInv

-----------------------------------------------------------------------------

LEMMA InitIInv == Init => IInv
<1> SUFFICES ASSUME Init PROVE IInv
  OBVIOUS
<1>1. \A r \in Requests : req[r].at = "idle" /\ req[r].kind = "none" /\ req[r].token = NoToken
  BY DEF Init, Idle
<1>2. TypeOK
  <2>1. req \in [Requests -> Request]
    BY IdleRequest DEF Init
  <2>2. failures \in 0..MaxFailures
    BY PasswordResetAssumption DEF Init
  <2> QED BY <2>1, <2>2 DEF Init, TypeOK
<1>3. \A r \in Requests : RequestOK(r)
  BY <1>1 DEF RequestOK, LinkSteps, ResetSteps, RowSteps
<1>4. LockOK /\ ToldOK
  BY <1>1, PasswordResetAssumption DEF Init, LockOK, ToldOK, HasMailed
<1>5. FreshOK
  BY <1>1 DEF Init, FreshOK
<1>6. TokenOK
  <2>1. \A r \in Requests : ~ Through(r)
    BY <1>1 DEF Through
  <2>2. ASSUME NEW t \in Tokens PROVE Once(t)
    <3>1. uses[t] <= 1 /\ uses[t] # 1
      BY DEF Init
    <3> QED BY <2>1, <3>1 DEF Once
  <2> QED BY <2>2 DEF TokenOK
<1> QED BY <1>2, <1>3, <1>4, <1>5, <1>6 DEF IInv

LEMMA ServeKeeps ==
    ASSUME IInv, NEW r \in Requests, Serve(r)
    PROVE  IInv'
<1>1. CASE \E u \in Users, t \in Tokens : StartForgot(r, u, t)
  BY <1>1, StartForgotKeeps
<1>2. CASE \E u \in Users, p \in Passwords : StartChange(r, u, p) \/ StartRegister(r, u, p)
  BY <1>2, StartWriteKeeps
<1>3. CASE \E u \in Users : StartDelete(r, u)
  BY <1>3, StartDeleteKeeps
<1>4. CASE \E t \in Tokens : StartReset(r, t)
  BY <1>4, StartResetKeeps
<1>5. CASE StoreLink(r) \/ MailLink(r)
  BY <1>5, StoreLinkKeeps, MailLinkKeeps
<1>6. CASE GetLink(r) \/ BurnLink(r) \/ Find(r) \/ MailPassword(r)
  BY <1>6, GetLinkKeeps, BurnLinkKeeps, FindKeeps, MailPasswordKeeps
<1>7. CASE Update(r) \/ UpdateFails(r) \/ Commit(r) \/ CommitFails(r)
  BY <1>7, UpdateKeeps, UpdateFailsKeeps, CommitKeeps, CommitFailsKeeps
<1> QED BY <1>1, <1>2, <1>3, <1>4, <1>5, <1>6, <1>7 DEF Serve

LEMMA StutterKeeps ==
    ASSUME IInv, UNCHANGED vars
    PROVE  IInv'
<1> USE DEF IInv
<1>1. TypeOK'
  BY DEF vars, TypeOK
<1>2. \A r \in Requests : RequestOK(r)'
  BY DEF vars, RequestOK
<1>3. LockOK' /\ ToldOK'
  BY DEF vars, LockOK, ToldOK, HasMailed
<1>4. FreshOK'
  BY DEF vars, FreshOK
<1>5. TokenOK'
  <2>1. \A t \in Tokens : Once(t) => Once(t)'
    BY DEF vars, Once, Through
  <2> QED BY <2>1 DEF vars, TokenOK
<1> QED BY <1>1, <1>2, <1>3, <1>4, <1>5

LEMMA NextKeeps == IInv /\ [Next]_vars => IInv'
<1> SUFFICES ASSUME IInv, [Next]_vars PROVE IInv'
  OBVIOUS
<1>1. CASE \E r \in Requests : Serve(r)
  BY <1>1, ServeKeeps
<1>2. CASE Crash
  BY <1>2, CrashKeeps
<1>3. CASE UNCHANGED vars
  BY <1>3, StutterKeeps
<1> QED BY <1>1, <1>2, <1>3 DEF Next

\* The strengthened invariant holds in every reachable state, whatever the
\* requests for links, resets, changes, registrations and deletions interleave
\* and whichever commands, mails and commits fail.
THEOREM Invariant == Spec => []IInv
<1>1. Init => IInv
  BY InitIInv
<1>2. IInv /\ [Next]_vars => IInv'
  BY NextKeeps
<1> QED BY <1>1, <1>2, PTL DEF Spec

\* The variables keep their types, and what is in Redis was sealed for a user.
THEOREM TypeCorrect == Spec => []TypeOK
<1>1. IInv => TypeOK
  BY DEF IInv
<1> QED BY <1>1, Invariant, PTL

\* A link resets the password once, but for tokens whose GET or DEL failed or
\* which two requests got before either deleted it (auth/service.go 260-265).
THEOREM OneResetPerLink == Spec => []LinkOnce
<1>1. IInv => LinkOnce
  BY DEF IInv, TokenOK, Once, LinkOnce
<1> QED BY <1>1, Invariant, PTL

\* A row nobody writes holds the password its user was last told, but for a
\* reset that mailed and did not commit (auth/service.go 293-319).
THEOREM PasswordAsTold == Spec => []LastToldHolds
<1>1. IInv => LastToldHolds
  <2> SUFFICES ASSUME IInv, NEW u \in Users, rowLock[u] = NoRequest
               PROVE  password[u] = told[u] \/ u \in spoilt
    BY DEF LastToldHolds
  <2>1. \A r \in Requests : HasMailed(r) => rowLock[req[r].user] = r
    BY DEF IInv, RequestOK, HasMailed
  <2>2. ~ \E r \in Requests : HasMailed(r) /\ req[r].user = u
    BY <2>1, PasswordResetAssumption
  <2> QED BY <2>2 DEF IInv, ToldOK
<1> QED BY <1>1, Invariant, PTL

-----------------------------------------------------------------------------
(* The writers of the password implement Trx.                               *)

\* What the mapping depends on: the rows, their locks, and the requests that hold
\* one.
RowHolder(q) == q.at \in {"mail password", "commit"}
SameWrite(q, p) == q.kind = p.kind /\ q.user = p.user /\ q.new = p.new

LEMMA LockedByHolder ==
    ASSUME IInv, NEW u \in Users, NEW r \in Requests
    PROVE  rowLock[u] = r <=> req[r].user = u /\ RowHolder(req[r])
  BY DEF IInv, RequestOK, LockOK, RowHolder

LEMMA HolderInRequests ==
    ASSUME IInv, NEW u \in Users
    PROVE  {rowLock[u]} \ {NoRequest} \subseteq Requests
  BY DEF IInv, TypeOK

LEMMA WrittenAreUsers ==
    ASSUME IInv, NEW r \in Requests, RowHolder(req[r])
    PROVE  /\ req[r].user \in Users
           /\ WrittenUser(req[r]) \in [password : Passwords \cup {NoPassword}, deleted : BOOLEAN]
<1>1. TypeOK /\ RequestOK(r) /\ req[r] \in Request
  BY DEF IInv, TypeOK
<1>2. req[r].user \in Users
  BY <1>1 DEF RequestOK, RowHolder
<1>3. req[r].kind # "delete" => req[r].new \in Passwords \cup {NoPassword}
  BY <1>1 DEF Request
<1> QED BY <1>1, <1>2, <1>3 DEF WrittenUser, TypeOK

\* Steps of requests that leave the rows and their locks alone.
LEMMA ShowsNothing ==
    ASSUME IInv, UNCHANGED mysql,
           \A r \in Requests : RowHolder(req[r]) => SameWrite(req'[r], req[r])
    PROVE  UNCHANGED <<StoredUsers, UserHolders, PendingUsers>>
<1>1. UNCHANGED <<StoredUsers, UserHolders>>
  BY DEF mysql, StoredUsers, StoredUser, UserHolders
<1>2. \A u \in Users : \A r \in {rowLock[u]} \ {NoRequest} :
          WrittenUser(req[r])' = WrittenUser(req[r])
  <2> SUFFICES ASSUME NEW u \in Users, NEW r \in {rowLock[u]} \ {NoRequest}
               PROVE  WrittenUser(req[r])' = WrittenUser(req[r])
    OBVIOUS
  <2>1. r \in Requests /\ RowHolder(req[r])
    BY HolderInRequests, LockedByHolder
  <2> QED BY <2>1 DEF SameWrite, WrittenUser, mysql
<1>3. UNCHANGED PendingUsers
  BY <1>2 DEF PendingUsers, mysql
<1> QED BY <1>1, <1>3

\* A step of one request that does not hold its row.
LEMMA BeforeTheRow ==
    ASSUME IInv, NEW r \in Requests, ~ RowHolder(req[r]), UNCHANGED mysql,
           \A q \in Requests \ {r} : req'[q] = req[q]
    PROVE  UNCHANGED <<StoredUsers, UserHolders, PendingUsers>>
  BY ShowsNothing DEF SameWrite

\* The transactions of rs are over.
LEMMA EndsAreRelease ==
    ASSUME IInv, NEW rs \in SUBSET Requests, NEW xs \in SUBSET Users,
           \A u \in Users : u \in xs <=> rowLock[u] \in rs,
           rowLock' = [u \in Users |-> IF rowLock[u] \in rs THEN NoRequest ELSE rowLock[u]],
           \A q \in Requests \ rs : req'[q] = req[q],
           \A u \in Users \ xs : password'[u] = password[u] /\ (u \in deleted' <=> u \in deleted)
    PROVE  RT!Release(xs)
<1>1. UserHolders' = [u \in Users |-> IF u \in xs THEN {} ELSE UserHolders[u]]
  BY DEF UserHolders
<1>2. ASSUME NEW u \in Users \ xs, NEW r \in {rowLock[u]} \ {NoRequest}
      PROVE  WrittenUser(req[r])' = WrittenUser(req[r])
  <2>1. r \in Requests \ rs /\ req[r].user = u
    BY HolderInRequests, LockedByHolder
  <2> QED BY <2>1 DEF WrittenUser
<1> DEFINE P(u) == {WrittenUser(req[r]) : r \in {rowLock[u]} \ {NoRequest}}
<1>3. \A u \in Users \ xs : P(u)' = P(u)
  <2> SUFFICES ASSUME NEW u \in Users \ xs PROVE P(u)' = P(u)
    OBVIOUS
  <2>1. rowLock'[u] = rowLock[u]
    OBVIOUS
  <2> QED BY <1>2, <2>1
<1>4. \A u \in xs : P(u)' = {}
  OBVIOUS
<1>5. PendingUsers = [u \in Users |-> P(u)] /\ PendingUsers' = [u \in Users |-> P(u)']
  BY DEF PendingUsers
<1> HIDE DEF P
<1>6. PendingUsers' = [u \in Users |-> IF u \in xs THEN {} ELSE PendingUsers[u]]
  BY <1>3, <1>4, <1>5
<1> QED BY <1>1, <1>6 DEF RT!Release

\* The rows of a request that has written one.
LEMMA MineIsTheUser ==
    ASSUME IInv, NEW r \in Requests, RowHolder(req[r])
    PROVE  /\ req[r].user \in Users /\ RT!Mine(r) = {req[r].user}
           /\ \A u \in Users : u \in {req[r].user} <=> rowLock[u] \in {r}
<1>1. req[r].user \in Users
  BY WrittenAreUsers
<1>2. \A u \in Users : rowLock[u] = r <=> req[r].user = u
  BY LockedByHolder
<1>3. \A u \in Users : UserHolders[u] = {r} <=> rowLock[u] = r
  BY PasswordResetAssumption DEF UserHolders
<1> QED BY <1>1, <1>2, <1>3 DEF RT!Mine

LEMMA RollbackIsRollback ==
    ASSUME IInv, NEW r \in Requests, Rollback(r)
    PROVE  RT!Rollback(r) \/ UNCHANGED <<StoredUsers, UserHolders, PendingUsers>>
<1>1. /\ \A q \in Requests \ {r} : req'[q] = req[q]
      /\ rowLock' = [u \in Users |-> IF rowLock[u] \in {r} THEN NoRequest ELSE rowLock[u]]
      /\ UNCHANGED <<password, deleted>>
  BY DEF Rollback, Done, Unlock, IInv, TypeOK
<1>2. CASE RowHolder(req[r])
  <2> DEFINE xs == {req[r].user}
  <2>1. /\ xs \in SUBSET Users /\ RT!Mine(r) = xs /\ xs # {}
        /\ \A u \in Users : u \in xs <=> rowLock[u] \in {r}
    BY <1>2, MineIsTheUser
  <2> HIDE DEF xs
  <2>2. RT!Release(xs)
    BY <1>1, <2>1, EndsAreRelease
  <2>3. UNCHANGED StoredUsers
    BY <1>1 DEF StoredUsers, StoredUser
  <2> QED BY <2>1, <2>2, <2>3 DEF RT!Rollback
<1>3. CASE ~ RowHolder(req[r])
  <2>1. \A u \in Users : rowLock[u] # r
    BY <1>3, LockedByHolder
  <2>2. rowLock' = rowLock
    BY <1>1, <2>1 DEF IInv, TypeOK
  <2> QED BY <1>1, <1>3, <2>2, BeforeTheRow DEF mysql
<1> QED BY <1>2, <1>3

LEMMA UpdateIsWrite ==
    ASSUME IInv, IInv', NEW r \in Requests, Update(r)
    PROVE  \E u \in Users : RT!Write(r, u)
<1>0. PICK u : u = req[r].user
  OBVIOUS
<1>1. TypeOK /\ RequestOK(r)
  BY DEF IInv
<1>2. u \in Users /\ rowLock[u] = NoRequest /\ rowLock' = [rowLock EXCEPT ![u] = r]
  BY <1>0, <1>1 DEF Update, RequestOK
<1>3. /\ RowHolder(req'[r]) /\ SameWrite(req'[r], req[r])
      /\ \A q \in Requests \ {r} : req'[q] = req[q]
      /\ UNCHANGED <<password, deleted>>
  BY <1>1 DEF Update, Goto, RowHolder, SameWrite, TypeOK, Request
<1> DEFINE w == WrittenUser(req[r])'
<1>4. w \in [password : Passwords \cup {NoPassword}, deleted : BOOLEAN]
  <2>1. (IInv /\ RowHolder(req[r]) => WrittenUser(req[r]) \in
            [password : Passwords \cup {NoPassword}, deleted : BOOLEAN])'
    BY WrittenAreUsers, PTL
  <2> QED BY <1>3, <2>1 DEF RowHolder
<1> DEFINE P(x) == {WrittenUser(req[q]) : q \in {rowLock[x]} \ {NoRequest}}
<1>5. P(u)' = {w}
  <2>1. rowLock'[u] = r /\ r # NoRequest
    BY <1>1, <1>2, PasswordResetAssumption DEF TypeOK
  <2> QED BY <2>1
<1>6. ASSUME NEW x \in Users \ {u} PROVE P(x)' = P(x)
  <2>1. rowLock'[x] = rowLock[x]
    BY <1>1, <1>2 DEF TypeOK
  <2>2. ASSUME NEW q \in {rowLock[x]} \ {NoRequest}
        PROVE  WrittenUser(req[q])' = WrittenUser(req[q])
    <3>1. q \in Requests /\ q # r
      <4>1. q \in Requests /\ req[q].user = x
        BY HolderInRequests, LockedByHolder
      <4> QED BY <1>0, <4>1
    <3> QED BY <1>3, <3>1 DEF WrittenUser
  <2> QED BY <2>1, <2>2
<1>7. PendingUsers = [x \in Users |-> P(x)] /\ PendingUsers' = [x \in Users |-> P(x)']
  BY DEF PendingUsers
<1> HIDE DEF P, w
<1>8. PendingUsers' = [PendingUsers EXCEPT ![u] = {w}]
  BY <1>2, <1>5, <1>6, <1>7
<1>9. UserHolders[u] \subseteq {r} /\ UserHolders' = [UserHolders EXCEPT ![u] = {r}]
  <2>1. r # NoRequest /\ DOMAIN rowLock = Users
    BY <1>1, PasswordResetAssumption DEF TypeOK
  <2>2. rowLock'[u] = r /\ \A x \in Users \ {u} : rowLock'[x] = rowLock[x]
    BY <1>2, <2>1
  <2>3. /\ UserHolders = [x \in Users |-> {rowLock[x]} \ {NoRequest}]
        /\ UserHolders' = [x \in Users |-> {rowLock'[x]} \ {NoRequest}]
    BY DEF UserHolders
  <2>4. {rowLock'[u]} \ {NoRequest} = {r} /\ {rowLock[u]} \ {NoRequest} = {}
    BY <1>2, <2>1, <2>2
  <2> QED BY <1>2, <2>2, <2>3, <2>4
<1>10. UNCHANGED StoredUsers
  BY <1>3 DEF StoredUsers, StoredUser
<1>11. RT!Write(r, u)
  BY <1>4, <1>8, <1>9, <1>10 DEF RT!Write
<1> QED BY <1>2, <1>11

LEMMA CommitIsCommit ==
    ASSUME IInv, NEW r \in Requests, Commit(r)
    PROVE  RT!Commit(r)
<1>0. PICK u, w : u = req[r].user /\ w = WrittenUser(req[r])
  OBVIOUS
<1>1. TypeOK /\ RowHolder(req[r])
  BY DEF IInv, Commit, RowHolder
<1>2. /\ {u} \in SUBSET Users /\ RT!Mine(r) = {u}
      /\ \A x \in Users : x \in {u} <=> rowLock[x] \in {r}
  BY <1>0, <1>1, MineIsTheUser
<1>3. /\ rowLock' = [x \in Users |-> IF rowLock[x] \in {r} THEN NoRequest ELSE rowLock[x]]
      /\ \A q \in Requests \ {r} : req'[q] = req[q]
      /\ password' = IF req[r].kind = "delete" THEN password ELSE [password EXCEPT ![u] = req[r].new]
      /\ deleted' = IF req[r].kind = "delete" THEN deleted \cup {u} ELSE deleted
  BY <1>0, <1>1 DEF Commit, Commits, Done, Unlock, TypeOK
<1>4. \A x \in Users \ {u} : password'[x] = password[x] /\ (x \in deleted' <=> x \in deleted)
  BY <1>1, <1>3 DEF TypeOK
<1>5. RT!Release({u})
  BY <1>2, <1>3, <1>4, EndsAreRelease
<1>6. PendingUsers[u] = {w}
  <2>1. rowLock[u] = r /\ r # NoRequest
    BY <1>2, PasswordResetAssumption
  <2> QED BY <1>0, <1>2, <2>1 DEF PendingUsers
<1>7. StoredUser(u)' = w /\ \A x \in Users \ {u} : StoredUser(x)' = StoredUser(x)
  <2>1. /\ password'[u] = IF req[r].kind = "delete" THEN password[u] ELSE req[r].new
        /\ u \in deleted' <=> req[r].kind = "delete" \/ u \in deleted
    BY <1>1, <1>2, <1>3 DEF TypeOK
  <2>2. StoredUser(u)' = [password |-> password'[u], deleted |-> u \in deleted']
    BY DEF StoredUser
  <2> QED BY <1>0, <1>4, <2>1, <2>2 DEF StoredUser, WrittenUser
<1>8. StoredUsers = [x \in Users |-> StoredUser(x)] /\ StoredUsers' = [x \in Users |-> StoredUser(x)']
  BY DEF StoredUsers
<1>9. StoredUsers' = [x \in Users |-> IF x \in {u} THEN CHOOSE v \in PendingUsers[x] : TRUE
                                     ELSE StoredUsers[x]]
  <2>1. (CHOOSE v \in PendingUsers[u] : TRUE) = w
    BY <1>6
  <2> QED BY <1>2, <1>7, <1>8, <2>1
<1> QED BY <1>2, <1>5, <1>9 DEF RT!Commit

LEMMA CrashIsRestart ==
    ASSUME IInv, Crash
    PROVE  RT!Restart
<1>1. /\ rowLock' = [u \in Users |-> NoRequest] /\ UNCHANGED <<password, deleted>>
  BY DEF Crash
<1>2. /\ UserHolders' = [u \in Users |-> IF u \in Users THEN {} ELSE UserHolders[u]]
      /\ PendingUsers' = [u \in Users |-> IF u \in Users THEN {} ELSE PendingUsers[u]]
      /\ UNCHANGED StoredUsers
  BY <1>1 DEF UserHolders, PendingUsers, StoredUsers, StoredUser
<1> QED BY <1>2 DEF RT!Restart, RT!Release

LEMMA ServeIsTrx ==
    ASSUME IInv, IInv', NEW r \in Requests, Serve(r)
    PROVE  RT!Next \/ UNCHANGED <<StoredUsers, UserHolders, PendingUsers>>
<1>1. TypeOK /\ req \in [Requests -> Request]
  BY DEF IInv, TypeOK
<1>2. ASSUME NEW step, NEW kind, NEW u, NEW t, NEW p, Begin(r, step, kind, u, t, p), UNCHANGED mysql
      PROVE  UNCHANGED <<StoredUsers, UserHolders, PendingUsers>>
  BY <1>1, <1>2, BeforeTheRow DEF Begin, RowHolder
<1>3. CASE \E u \in Users, t \in Tokens : StartForgot(r, u, t)
  BY <1>2, <1>3 DEF StartForgot
<1>4. CASE \E u \in Users, p \in Passwords : StartChange(r, u, p) \/ StartRegister(r, u, p)
  BY <1>2, <1>4 DEF StartChange, StartRegister
<1>5. CASE \E u \in Users : StartDelete(r, u)
  BY <1>2, <1>5 DEF StartDelete
<1>6. CASE \E t \in Tokens : StartReset(r, t)
  BY <1>2, <1>6 DEF StartReset
<1>7. CASE StoreLink(r) \/ MailLink(r) \/ GetLink(r) \/ BurnLink(r) \/ Find(r)
  <2>1. ~ RowHolder(req[r]) /\ UNCHANGED mysql
    BY <1>7 DEF StoreLink, MailLink, GetLink, BurnLink, Find, RowHolder
  <2>2. \A q \in Requests \ {r} : req'[q] = req[q]
    BY <1>1, <1>7 DEF StoreLink, MailLink, GetLink, BurnLink, Find, Goto, Done
  <2> QED BY <2>1, <2>2, BeforeTheRow
<1>8. CASE MailPassword(r)
  <2>1. CASE Goto(r, "commit") /\ UNCHANGED mysql
    <3>1. \A q \in Requests : SameWrite(req'[q], req[q])
      BY <1>1, <2>1 DEF Goto, SameWrite, Request
    <3> QED BY <2>1, <3>1, ShowsNothing
  <2>2. CASE Rollback(r)
    BY <2>2, RollbackIsRollback DEF RT!Next
  <2> QED BY <1>8, <2>1, <2>2 DEF MailPassword
<1>9. CASE Update(r)
  BY <1>9, UpdateIsWrite DEF RT!Next
<1>10. CASE UpdateFails(r) \/ CommitFails(r)
  <2>1. Rollback(r)
    BY <1>10 DEF UpdateFails, CommitFails
  <2> QED BY <2>1, RollbackIsRollback DEF RT!Next
<1>11. CASE Commit(r)
  BY <1>11, CommitIsCommit DEF RT!Next
<1> QED BY <1>3, <1>4, <1>5, <1>6, <1>7, <1>8, <1>9, <1>10, <1>11 DEF Serve

\* The writers of a password implement what WithTrx promises: a row is written by
\* one of them at a time and becomes, all at once, what that one sent
\* (trxmanager.go 23-46, auth/service.go 292-322, user/service.go 324-397).
THEOREM PasswordsImplementTrx == Spec => PasswordTrx
<1>1. Init => RT!Init
  <2> SUFFICES ASSUME Init PROVE RT!Init
    OBVIOUS
  <2>1. \A u \in Users : StoredUser(u) \in [password : Passwords \cup {NoPassword}, deleted : BOOLEAN]
    BY DEF Init, StoredUser
  <2> QED BY <2>1 DEF Init, RT!Init, StoredUsers, UserHolders, PendingUsers
<1>2. IInv /\ IInv' /\ [Next]_vars => [RT!Next]_RT!vars
  <2> SUFFICES ASSUME IInv, IInv', [Next]_vars
               PROVE  RT!Next \/ UNCHANGED <<StoredUsers, UserHolders, PendingUsers>>
    BY DEF RT!vars
  <2>1. CASE \E r \in Requests : Serve(r)
    BY <2>1, ServeIsTrx
  <2>2. CASE Crash
    BY <2>2, CrashIsRestart DEF RT!Next
  <2>3. CASE UNCHANGED vars
    BY <2>3, ShowsNothing DEF vars, mysql, SameWrite
  <2> QED BY <2>1, <2>2, <2>3 DEF Next
<1> QED BY <1>1, <1>2, Invariant, PTL DEF Spec, PasswordTrx, RT!Spec

-----------------------------------------------------------------------------
(* Accounts.                                                                *)

-----------------------------------------------------------------------------
(* What the helpers do.                                                     *)

\* Request r has become this one, the others stay as they are.
CallBecomes(r, at, kind, i, n, e) ==
    /\ call' \in [Callers -> Call]
    /\ \A q \in Callers : q # r => call'[q] = call[q]
    /\ call'[r].at = at /\ call'[r].kind = kind /\ call'[r].id = i
    /\ call'[r].number = n /\ call'[r].email = e

LEMMA EnterEffect ==
    ASSUME AccountsTypeOK, NEW r \in Callers, NEW step \in {"insert", "update"},
           NEW kind \in {"create", "register", "update", "delete"}, NEW i \in Ids \cup {0},
           NEW n \in Numbers \cup {NoNumber}, NEW e \in Emails \cup {NoEmail},
           Enter(r, step, kind, i, n, e)
    PROVE  call[r].at = "idle" /\ CallBecomes(r, step, kind, i, n, e)
<1> DEFINE v == [at |-> step, kind |-> kind, id |-> i, number |-> n, email |-> e]
<1>1. call[r].at = "idle" /\ call' = [call EXCEPT ![r] = v]
  BY DEF Enter
<1>2. i \in 0..MaxAccounts
  BY AccountsAssumption DEF AccountsTypeOK, Ids
<1>3. /\ v \in Call
      /\ v.at = step /\ v.kind = kind /\ v.id = i /\ v.number = n /\ v.email = e
  BY <1>2 DEF Call
<1> HIDE DEF v
<1> QED BY <1>1, <1>3 DEF CallBecomes, AccountsTypeOK

LEMMA GotoCallEffect ==
    ASSUME call \in [Callers -> Call], NEW r \in Callers, NEW i \in 0..MaxAccounts,
           call' = [call EXCEPT ![r].at = "commit", ![r].id = i]
    PROVE  CallBecomes(r, "commit", call[r].kind, i, call[r].number, call[r].email)
<1> DEFINE v == [call[r] EXCEPT !.at = "commit", !.id = i]
<1>1. call' = [call EXCEPT ![r] = v]
  OBVIOUS
<1>2. call[r] \in Call
  OBVIOUS
<1>3. /\ v \in Call
      /\ v.at = "commit" /\ v.kind = call[r].kind /\ v.id = i
      /\ v.number = call[r].number /\ v.email = call[r].email
  BY <1>2 DEF Call
<1> HIDE DEF v
<1>4. /\ call' \in [Callers -> Call] /\ call'[r] = v
      /\ \A q \in Callers : q # r => call'[q] = call[q]
  BY <1>1, <1>3
<1> QED BY <1>3, <1>4 DEF CallBecomes

LEMMA NoCallFields ==
    /\ NoCall \in Call
    /\ NoCall.at = "idle" /\ NoCall.kind = "none" /\ NoCall.id = 0
    /\ NoCall.number = NoNumber /\ NoCall.email = NoEmail
  BY AccountsAssumption DEF NoCall, Call

LEMMA CallDoneEffect ==
    ASSUME AccountsTypeOK, NEW r \in Callers, call' = [call EXCEPT ![r] = NoCall]
    PROVE  CallBecomes(r, "idle", "none", 0, NoNumber, NoEmail)
  BY NoCallFields DEF CallBecomes, AccountsTypeOK

\* Rows that are overwritten keep their ids.
LEMMA RowsStay ==
    ASSUME accounts \in Seq(Account), accounts' \in [Ids -> Account]
    PROVE  accounts' \in Seq(Account) /\ Len(accounts') = Len(accounts) /\ Ids' = Ids
<1>1. Ids = 1..Len(accounts) /\ Len(accounts) \in Nat
  BY DEF Ids
<1> QED BY <1>1 DEF Ids

-----------------------------------------------------------------------------
(* What a request does to the invariant, as far as its kind matters.         *)

\* Nothing but the request of r has changed, which has entered.
LEMMA EnterKeeps ==
    ASSUME AccountsInv, NEW r \in Callers, call[r].at = "idle",
           NEW step \in {"insert", "update"},
           NEW kind \in {"create", "register", "update", "delete"}, NEW i \in Ids \cup {0},
           NEW n \in Numbers \cup {NoNumber}, NEW e \in Emails \cup {NoEmail},
           CallBecomes(r, step, kind, i, n, e),
           UNCHANGED <<accounts, held, faults>>,
           raced \subseteq raced', assigned \subseteq assigned',
           raced' \subseteq Numbers \cup Emails, assigned' \subseteq Numbers \cup Emails,
           step = "insert" <=> kind = "create",
           kind = "create" => n \in Numbers /\ e = NoEmail,
           kind # "create" => i \in Live /\ n \in assigned' \cup {NoNumber},
           kind # "register" => e \in assigned' \cup {NoEmail},
           kind = "create" => \A j \in Live : accounts[j].number = n => n \in Shared',
           e # NoEmail => \A j \in Live : accounts[j].email = e => e \in Shared',
           \A q \in Callers \ {r} : call[q].at # "idle" =>
               /\ call[q].number = n => n \in Shared' \cup {NoNumber}
               /\ call[q].email = e => e \in Shared' \cup {NoEmail}
    PROVE  AccountsInv'
<1> USE DEF AccountsInv
<1>1. AccountsTypeOK'
  BY DEF AccountsTypeOK, CallBecomes, Ids, Live
<1>2. HeldByOne'
  BY DEF HeldByOne, Ids
<1>3. CallKnowsRow'
  BY DEF CallKnowsRow, KnowsRow, CallBecomes, Ids, Live
<1>4. StillFree'
  BY DEF StillFree, CallBecomes, Ids, Live, Shared
<1>5. ClaimsShared'
  BY DEF ClaimsShared, CallBecomes, Shared
<1>6. OneOwner'
  BY DEF OneOwner, NumberOfOne, EmailOfOne, Live, Ids
<1> QED BY <1>1, <1>2, <1>3, <1>4, <1>5, <1>6

LEMMA ClaimedShared ==
    ASSUME NEW r \in Callers, NEW n \in Numbers \cup {NoNumber}, NEW e \in Emails \cup {NoEmail},
           NEW q \in Callers \ {r}, call[q].at # "idle"
    PROVE  /\ call[q].number = n => n \in Claimed(r, n, e) \cup {NoNumber}
           /\ call[q].email = e => e \in Claimed(r, n, e) \cup {NoEmail}
  BY AccountsAssumption DEF Claimed

LEMMA StartCreateKeeps ==
    ASSUME AccountsInv, NEW r \in Callers, NEW n \in Numbers, StartCreate(r, n)
    PROVE  AccountsInv'
<1>1. AccountsTypeOK
  BY DEF AccountsInv
<1>2. call[r].at = "idle" /\ CallBecomes(r, "insert", "create", 0, n, NoEmail)
  BY <1>1, EnterEffect DEF StartCreate
<1>3. raced \subseteq raced' /\ raced' \subseteq Numbers \cup Emails
  BY <1>1 DEF StartCreate, Claimed, AccountsTypeOK
<1>4. \A j \in Live : accounts[j].number # n
  BY DEF StartCreate, WithNumber
<1>5. \A q \in Callers \ {r} : call[q].at # "idle" =>
         (call[q].number = n => n \in Shared' \cup {NoNumber})
  BY ClaimedShared DEF StartCreate, Shared
<1>6. UNCHANGED <<accounts, held, faults, assigned>> /\ assigned \subseteq Numbers \cup Emails
  BY <1>1 DEF StartCreate, AccountsTypeOK
<1> QED BY <1>1, <1>2, <1>3, <1>4, <1>5, <1>6, EnterKeeps

LEMMA StartRegistrationKeeps ==
    ASSUME AccountsInv, NEW r \in Callers, NEW n \in Numbers, NEW e \in Emails \cup {NoEmail},
           StartRegistration(r, n, e)
    PROVE  AccountsInv'
<1>1. AccountsTypeOK
  BY DEF AccountsInv
<1>2. PICK i \in Live : Enter(r, "update", "register", i, NoNumber, e)
  BY DEF StartRegistration, First, WithNumber
<1>3. i \in Ids
  BY DEF Live
<1>4. call[r].at = "idle" /\ CallBecomes(r, "update", "register", i, NoNumber, e)
  BY <1>1, <1>2, <1>3, EnterEffect
<1>5. raced \subseteq raced' /\ raced' \subseteq Numbers \cup Emails
  BY <1>1, <1>2 DEF StartRegistration, Claimed, AccountsTypeOK
<1>6. e # NoEmail => \A j \in Live : accounts[j].email # e
  BY DEF StartRegistration, WithEmail
<1>7. \A q \in Callers \ {r} : call[q].at # "idle" =>
         (call[q].email = e => e \in Shared' \cup {NoEmail})
  BY ClaimedShared DEF StartRegistration, Shared
<1>8. UNCHANGED <<accounts, held, faults, assigned>> /\ assigned \subseteq Numbers \cup Emails
  BY <1>1 DEF StartRegistration, AccountsTypeOK
<1> QED BY <1>1, <1>2, <1>3, <1>4, <1>5, <1>6, <1>7, <1>8, EnterKeeps

LEMMA StartUpdateKeeps ==
    ASSUME AccountsInv, NEW r \in Callers, NEW i \in Ids,
           NEW n \in Numbers \cup {NoNumber}, NEW e \in Emails \cup {NoEmail},
           StartUpdate(r, i, n, e)
    PROVE  AccountsInv'
<1>1. AccountsTypeOK
  BY DEF AccountsInv
<1>2. call[r].at = "idle" /\ CallBecomes(r, "update", "update", i, n, e)
  BY <1>1, EnterEffect DEF StartUpdate
<1>3. assigned' = assigned \cup ({n, e} \ {NoNumber, NoEmail})
  BY DEF StartUpdate
<1>4. assigned' \subseteq Numbers \cup Emails
  BY <1>1, <1>3 DEF AccountsTypeOK
<1>5. n \in assigned' \cup {NoNumber} /\ e \in assigned' \cup {NoEmail}
  BY <1>3, AccountsAssumption
<1>6. i \in Live /\ UNCHANGED <<accounts, held, faults, raced>> /\ raced \subseteq Numbers \cup Emails
  BY <1>1 DEF StartUpdate, AccountsTypeOK
<1>7. n \in Shared' \cup {NoNumber} /\ e \in Shared' \cup {NoEmail}
  BY <1>5 DEF Shared
<1> QED BY <1>1, <1>2, <1>3, <1>4, <1>5, <1>6, <1>7, EnterKeeps

LEMMA StartDeletionKeeps ==
    ASSUME AccountsInv, NEW r \in Callers, NEW i \in Ids, StartDeletion(r, i)
    PROVE  AccountsInv'
<1>1. AccountsTypeOK
  BY DEF AccountsInv
<1>2. call[r].at = "idle" /\ CallBecomes(r, "update", "delete", i, NoNumber, NoEmail)
  BY <1>1, EnterEffect DEF StartDeletion
<1> QED BY <1>1, <1>2, EnterKeeps DEF StartDeletion, AccountsTypeOK

-----------------------------------------------------------------------------
(* The statements and the ends of transactions.                             *)

\* Rows of the least kind: where those of a transaction are, and where not.
LEMMA HeldAtCommit ==
    ASSUME AccountsTypeOK, NEW r \in Callers, NEW i \in Ids
    PROVE  held[i] = {r} <=> call[r].at = "commit" /\ call[r].id = i
  BY DEF AccountsTypeOK

\* INSERT adds a row, which the request holds.
LEMMA InsertEffect ==
    ASSUME AccountsInv, NEW r \in Callers, Insert(r),
           NEW k, k = Len(accounts) + 1,
           NEW row, row = [number |-> call[r].number, email |-> NoEmail, state |-> "inserted"]
    PROVE  /\ call[r].at = "insert" /\ call[r].kind = "create" /\ call[r].email = NoEmail
           /\ k \in 1..MaxAccounts /\ k \notin Ids /\ row \in Account
           /\ accounts' \in Seq(Account) /\ Len(accounts') = k /\ Ids' = Ids \cup {k}
           /\ accounts'[k] = row /\ \A i \in Ids : accounts'[i] = accounts[i]
           /\ held' \in [Ids' -> SUBSET Callers] /\ held'[k] = {r}
           /\ \A i \in Ids : held'[i] = held[i]
<1>1. AccountsTypeOK /\ HeldByOne /\ CallKnowsRow
  BY DEF AccountsInv
<1>2. /\ call[r].at = "insert" /\ call[r].kind = "create" /\ call[r].email = NoEmail
      /\ call[r].number \in Numbers
  BY <1>1 DEF CallKnowsRow, KnowsRow, Insert
<1>3. /\ Len(accounts) \in Nat /\ k \in 1..MaxAccounts /\ k \notin Ids
      /\ Ids = 1..Len(accounts)
  BY <1>1, AccountsAssumption DEF AccountsTypeOK, Insert, Ids
<1>4. row \in Account
  BY <1>2 DEF Account
<1>5. /\ accounts' \in Seq(Account) /\ Len(accounts') = k /\ Ids' = Ids \cup {k}
      /\ accounts'[k] = row /\ \A i \in Ids : accounts'[i] = accounts[i]
  <2>1. accounts' = Append(accounts, row) /\ accounts \in Seq(Account)
    BY <1>1 DEF Insert, AccountsTypeOK
  <2>2. accounts' \in Seq(Account) /\ Len(accounts') = k
    BY <1>4, <2>1, AppendProperties
  <2>3. accounts'[k] = row /\ \A i \in 1..Len(accounts) : accounts'[i] = accounts[i]
    BY <1>4, <2>1, AppendProperties
  <2> QED BY <1>3, <2>2, <2>3 DEF Ids
<1>6. /\ held' \in [Ids' -> SUBSET Callers] /\ held'[k] = {r}
      /\ \A i \in Ids : held'[i] = held[i]
  <2>1. held \in Seq(SUBSET Callers) /\ Len(held) = Len(accounts)
    BY <1>1, <1>3 DEF AccountsTypeOK
  <2>2. held' = Append(held, {r}) /\ {r} \in SUBSET Callers
    BY DEF Insert
  <2>3. held' \in Seq(SUBSET Callers) /\ Len(held') = k
    BY <2>1, <2>2, AppendProperties
  <2>4. held'[k] = {r} /\ \A i \in 1..Len(held) : held'[i] = held[i]
    BY <2>1, <2>2, AppendProperties
  <2>5. Ids' = 1..k
    BY <1>3, <1>5
  <2>6. held' \in [1..k -> SUBSET Callers]
    BY <2>3
  <2> QED BY <1>3, <2>1, <2>4, <2>5, <2>6
<1> QED BY <1>2, <1>3, <1>4, <1>5, <1>6

LEMMA InsertKeeps ==
    ASSUME AccountsInv, NEW r \in Callers, Insert(r)
    PROVE  AccountsInv'
<1> DEFINE k == Len(accounts) + 1
           row == [number |-> call[r].number, email |-> NoEmail, state |-> "inserted"]
<1>1. AccountsTypeOK /\ HeldByOne /\ CallKnowsRow
  BY DEF AccountsInv
<1>2. call[r].at = "insert" /\ call[r].kind = "create" /\ call[r].email = NoEmail
  BY InsertEffect
<1>3. k \in 1..MaxAccounts /\ k \notin Ids /\ k \in Nat
  <2>1. k \in 1..MaxAccounts /\ k \notin Ids
    BY InsertEffect
  <2> HIDE DEF k
  <2> QED BY <2>1
<1>4. row \in Account
  BY InsertEffect
<1>5. /\ accounts' \in Seq(Account) /\ Len(accounts') = k /\ Ids' = Ids \cup {k}
      /\ accounts'[k] = row /\ \A i \in Ids : accounts'[i] = accounts[i]
  BY InsertEffect
<1>6. /\ held' \in [Ids' -> SUBSET Callers] /\ held'[k] = {r}
      /\ \A i \in Ids : held'[i] = held[i]
  BY InsertEffect
<1>7. CallBecomes(r, "commit", "create", k, call[r].number, NoEmail)
  <2>1. k \in 0..MaxAccounts /\ call \in [Callers -> Call]
    BY <1>1, <1>3 DEF AccountsTypeOK
  <2>2. call' = [call EXCEPT ![r].at = "commit", ![r].id = k]
    BY DEF Insert
  <2> HIDE DEF k
  <2> QED BY <1>2, <2>1, <2>2, GotoCallEffect
<1>8. UNCHANGED <<faults, raced, assigned>>
  BY DEF Insert
<1>9. Live' = Live
  BY <1>3, <1>5, <1>4 DEF Live
<1> HIDE DEF k, row
<1>10. AccountsTypeOK'
  <2>1. k \in 1..MaxAccounts /\ k <= MaxAccounts
    BY <1>3
  <2>2. \A q \in Callers \ {r} : call'[q].id # k /\ k # 0
    BY <1>1, <1>3, <1>7, <2>1 DEF CallBecomes, AccountsTypeOK
  <2>3. \A q \in Callers \ {r} : \A i \in Ids' :
           call'[q].at = "commit" /\ call'[q].id = i <=> held'[i] = {q}
    <3> SUFFICES ASSUME NEW q \in Callers \ {r}, NEW i \in Ids'
                 PROVE  call'[q].at = "commit" /\ call'[q].id = i <=> held'[i] = {q}
      OBVIOUS
    <3>1. call'[q] = call[q]
      BY <1>7 DEF CallBecomes
    <3>2. CASE i = k
      BY <1>6, <2>2, <3>2
    <3>3. CASE i \in Ids
      BY <1>1, <1>6, <3>1, <3>3, HeldAtCommit
    <3> QED BY <1>5, <3>2, <3>3
  <2>4. \A i \in Ids' : call'[r].at = "commit" /\ call'[r].id = i <=> held'[i] = {r}
    <3>1. \A i \in Ids : held[i] # {r}
      BY <1>1, <1>2, HeldAtCommit
    <3> QED BY <1>3, <1>5, <1>6, <1>7, <3>1 DEF CallBecomes
  <2>5. \A q \in Callers :
           /\ call'[q].id \in Ids' \cup {0}
           /\ call'[q].at \in {"update", "commit"} => call'[q].id \in Ids'
    BY <1>1, <1>5, <1>7 DEF CallBecomes, AccountsTypeOK
  <2>6. \A q \in Callers : \A i \in Ids' :
           call'[q].at = "commit" /\ call'[q].id = i <=> held'[i] = {q}
    BY <2>3, <2>4
  <2>7. Len(accounts') <= MaxAccounts
    BY <1>5, <2>1
  <2>8. /\ faults' \in 0..MaxFaults /\ raced' \subseteq Numbers \cup Emails
        /\ assigned' \subseteq Numbers \cup Emails
    BY <1>1, <1>8 DEF AccountsTypeOK
  <2>9. call' \in [Callers -> Call]
    BY <1>7 DEF CallBecomes
  <2> QED BY <1>5, <1>6, <2>5, <2>6, <2>7, <2>8, <2>9 DEF AccountsTypeOK
<1>11. HeldByOne'
  BY <1>1, <1>5, <1>6 DEF HeldByOne
<1>12. CallKnowsRow'
  <2>1. row = [number |-> call[r].number, email |-> NoEmail, state |-> "inserted"]
    BY DEF row
  <2> QED BY <1>1, <1>2, <1>5, <1>7, <1>8, <2>1 DEF CallKnowsRow, KnowsRow, CallBecomes, AccountsTypeOK
<1>13. \A i \in Live : i \in Ids
  BY DEF Live
<1>14. StillFree'
  BY <1>2, <1>5, <1>7, <1>8, <1>9, <1>13 DEF AccountsInv, StillFree, CallBecomes, Shared
<1>15. ClaimsShared'
  BY <1>2, <1>7, <1>8 DEF AccountsInv, ClaimsShared, CallBecomes, Shared
<1>16. OneOwner'
  BY <1>5, <1>8, <1>9, <1>13 DEF AccountsInv, OneOwner, NumberOfOne, EmailOfOne
<1> QED BY <1>10, <1>11, <1>12, <1>14, <1>15, <1>16 DEF AccountsInv

LEMMA UpdateRowKeeps ==
    ASSUME AccountsInv, NEW r \in Callers, UpdateRow(r)
    PROVE  AccountsInv'
<1> DEFINE k == call[r].id
<1>1. AccountsTypeOK /\ HeldByOne /\ CallKnowsRow
  BY DEF AccountsInv
<1>2. /\ k \in Ids /\ k \in 0..MaxAccounts /\ call[r].at = "update" /\ held[k] = {}
      /\ call[r] \in Call
  BY <1>1 DEF AccountsTypeOK, UpdateRow, Call
<1>3. /\ held' = [held EXCEPT ![k] = {r}]
      /\ call' = [call EXCEPT ![r].at = "commit"]
      /\ UNCHANGED <<accounts, faults, raced, assigned>>
  BY DEF UpdateRow
<1>4. CallBecomes(r, "commit", call[r].kind, k, call[r].number, call[r].email)
  <2>1. call \in [Callers -> Call]
    BY <1>1 DEF AccountsTypeOK
  <2>2. call' = [call EXCEPT ![r].at = "commit", ![r].id = k]
    BY <1>2, <1>3, <2>1 DEF Call
  <2> QED BY <1>2, <2>1, <2>2, GotoCallEffect
<1>5. Ids' = Ids /\ Live' = Live
  BY <1>3 DEF Ids, Live
<1>6. AccountsTypeOK'
  <2>1. \A q \in Callers : \A i \in Ids :
           call[q].at = "commit" /\ call[q].id = i <=> held[i] = {q}
    BY <1>1, HeldAtCommit
  <2>2. held' \in [Ids -> SUBSET Callers]
    BY <1>1, <1>3 DEF AccountsTypeOK
  <2>3. held \in [Ids -> SUBSET Callers]
    BY <1>1 DEF AccountsTypeOK
  <2>4. \A q \in Callers : \A i \in Ids :
           call'[q].at = "commit" /\ call'[q].id = i <=> held'[i] = {q}
    BY <1>2, <1>3, <1>4, <2>1, <2>3 DEF CallBecomes
  <2>5. \A q \in Callers :
           /\ call'[q].id \in Ids \cup {0}
           /\ call'[q].at \in {"update", "commit"} => call'[q].id \in Ids
    BY <1>1, <1>2, <1>4 DEF CallBecomes, AccountsTypeOK
  <2>6. call' \in [Callers -> Call]
    BY <1>4 DEF CallBecomes
  <2> QED BY <1>1, <1>3, <1>5, <2>2, <2>4, <2>5, <2>6 DEF AccountsTypeOK
<1>7. HeldByOne'
  BY <1>1, <1>2, <1>3, <1>5 DEF HeldByOne, AccountsTypeOK
<1>8. CallKnowsRow'
  BY <1>1, <1>2, <1>3, <1>4, <1>5 DEF CallKnowsRow, KnowsRow, CallBecomes
<1>9. StillFree'
  BY <1>2, <1>3, <1>4, <1>5 DEF AccountsInv, StillFree, CallBecomes, Shared
<1>10. ClaimsShared'
  BY <1>2, <1>3, <1>4 DEF AccountsInv, ClaimsShared, CallBecomes, Shared
<1>11. OneOwner'
  BY <1>3, <1>5 DEF AccountsInv, OneOwner, NumberOfOne, EmailOfOne
<1> QED BY <1>6, <1>7, <1>8, <1>9, <1>10, <1>11 DEF AccountsInv

\* The invariant when rows have been written and the locks of rs are free: in
\* each case the requests of rs are over.
LEMMA EndKeeps ==
    ASSUME AccountsInv, NEW rs \in SUBSET Callers,
           accounts' \in [Ids -> Account],
           call' \in [Callers -> Call],
           \A q \in rs : call'[q] = NoCall,
           \A q \in Callers \ rs : call'[q] = call[q],
           held' = [i \in Ids |-> held[i] \ rs],
           faults' \in 0..MaxFaults,
           UNCHANGED <<raced, assigned>>,
           \A q \in Callers \ rs : \A i \in Ids :
               call[q].at # "idle" /\ call[q].id = i =>
                   /\ call[q].at = "commit" /\ call[q].kind = "create" => accounts'[i] = accounts[i]
                   /\ call[q].kind # "create" => accounts'[i].state \in {"live", "deleted"},
           \A i \in Ids : accounts'[i].state = "live" =>
               /\ \/ accounts[i].state = "live" /\ accounts[i].number = accounts'[i].number
                  \/ \E r \in rs : /\ call[r].at # "idle"
                                    /\ accounts'[i].number \in {call[r].number} \ {NoNumber}
               /\ \/ accounts'[i].email = NoEmail
                  \/ accounts[i].state = "live" /\ accounts[i].email = accounts'[i].email
                  \/ \E r \in rs : /\ call[r].at # "idle"
                                    /\ accounts'[i].email \in {call[r].email} \ {NoEmail},
           \A i, j \in Ids : accounts'[i] # accounts[i] /\ accounts'[j] # accounts[j]
                             /\ accounts'[i].state = "live" /\ accounts'[j].state = "live" => i = j
    PROVE  AccountsInv'
<1>1. AccountsTypeOK /\ HeldByOne /\ CallKnowsRow /\ StillFree /\ ClaimsShared
  BY DEF AccountsInv
<1>2. accounts' \in Seq(Account) /\ Len(accounts') = Len(accounts) /\ Ids' = Ids
  BY <1>1, RowsStay DEF AccountsTypeOK
<1>3. Shared' = Shared
  BY DEF Shared
<1>4. NoCall.at = "idle" /\ NoCall.id = 0
  BY NoCallFields
<1>5. AccountsTypeOK'
  <2>1. held' \in [Ids -> SUBSET Callers] /\ held \in [Ids -> SUBSET Callers]
    BY <1>1 DEF AccountsTypeOK
  <2>2. \A q \in Callers : \A i \in Ids :
           call'[q].at = "commit" /\ call'[q].id = i <=> held'[i] = {q}
    <3> SUFFICES ASSUME NEW q \in Callers, NEW i \in Ids
                 PROVE  call'[q].at = "commit" /\ call'[q].id = i <=> held'[i] = {q}
      OBVIOUS
    <3>1. held'[i] = held[i] \ rs
      OBVIOUS
    <3>2. CASE q \in rs
      BY <1>4, <3>1, <3>2
    <3>3. CASE q \notin rs
      <4>1. held[i] = {q} <=> call[q].at = "commit" /\ call[q].id = i
        BY <1>1, HeldAtCommit
      <4>2. held'[i] = {q} <=> held[i] = {q}
        BY <1>1, <2>1, <3>1, <3>3 DEF HeldByOne
      <4> QED BY <3>3, <4>1, <4>2
    <3> QED BY <3>2, <3>3
  <2>3. \A q \in Callers :
           /\ call'[q].id \in Ids \cup {0}
           /\ call'[q].at \in {"update", "commit"} => call'[q].id \in Ids
    BY <1>1, <1>4 DEF AccountsTypeOK
  <2>4. /\ raced' \subseteq Numbers \cup Emails /\ assigned' \subseteq Numbers \cup Emails
        /\ Len(accounts') <= MaxAccounts
    BY <1>1, <1>2 DEF AccountsTypeOK
  <2> QED BY <1>2, <2>1, <2>2, <2>3, <2>4 DEF AccountsTypeOK
<1>6. HeldByOne'
  BY <1>1, <1>2 DEF HeldByOne
<1>7. CallKnowsRow'
  <2> SUFFICES ASSUME NEW q \in Callers, call'[q].at # "idle", q \notin rs, call'[q] = call[q]
               PROVE  KnowsRow(call[q])'
    BY <1>4 DEF CallKnowsRow, KnowsRow
  <2>1. call[q].id \in Ids \cup {0} /\ (call[q].at = "commit" => call[q].id \in Ids)
    BY <1>1 DEF AccountsTypeOK
  <2> QED BY <1>1, <1>2, <2>1 DEF CallKnowsRow, KnowsRow
<1>8. StillFree'
  <2> SUFFICES ASSUME NEW q \in Callers, NEW i \in Live', call'[q].at # "idle", q \notin rs,
                      call'[q] = call[q]
               PROVE  /\ call[q].kind = "create" /\ accounts'[i].number = call[q].number =>
                            call[q].number \in Shared
                      /\ call[q].email # NoEmail /\ accounts'[i].email = call[q].email =>
                            call[q].email \in Shared
    BY <1>3, <1>4 DEF StillFree
  <2>1. i \in Ids /\ accounts'[i].state = "live"
    BY <1>2 DEF Live
  <2>2. accounts[i].state = "live" => i \in Live
    BY <2>1 DEF Live
  <2>3. call[q].at # "idle"
    OBVIOUS
  <2>4. \A r \in rs : call[r].at # "idle" =>
           /\ call[r].number = call[q].number => call[q].number \in Shared \cup {NoNumber}
           /\ call[r].email = call[q].email => call[q].email \in Shared \cup {NoEmail}
    BY <1>1, <2>3 DEF ClaimsShared
  <2>5. ASSUME call[q].kind = "create", accounts'[i].number = call[q].number
        PROVE  call[q].number \in Shared
    <3>1. CASE accounts[i].state = "live" /\ accounts[i].number = accounts'[i].number
      BY <1>1, <2>2, <2>3, <2>5, <3>1 DEF StillFree
    <3>2. CASE \E r \in rs : call[r].at # "idle"
                             /\ accounts'[i].number \in {call[r].number} \ {NoNumber}
      BY <2>4, <2>5, <3>2
    <3> QED BY <2>1, <3>1, <3>2
  <2>6. ASSUME call[q].email # NoEmail, accounts'[i].email = call[q].email
        PROVE  call[q].email \in Shared
    <3>1. CASE accounts[i].state = "live" /\ accounts[i].email = accounts'[i].email
      BY <1>1, <2>2, <2>3, <2>6, <3>1 DEF StillFree
    <3>2. CASE \E r \in rs : call[r].at # "idle"
                             /\ accounts'[i].email \in {call[r].email} \ {NoEmail}
      BY <2>4, <2>6, <3>2
    <3> QED BY <2>1, <2>6, <3>1, <3>2
  <2> QED BY <2>5, <2>6
<1>9. ClaimsShared'
  BY <1>1, <1>3, <1>4 DEF ClaimsShared
<1>10. ASSUME NEW i \in Live', NEW j \in Live', i # j
       PROVE  /\ accounts'[i].number = accounts'[j].number => accounts'[i].number \in Shared
              /\ accounts'[i].email = accounts'[j].email /\ accounts'[i].email # NoEmail =>
                    accounts'[i].email \in Shared
  <2>1. /\ i \in Ids /\ accounts'[i].state = "live"
        /\ j \in Ids /\ accounts'[j].state = "live"
    BY <1>2 DEF Live
  <2>2. ASSUME NEW a \in Ids, NEW b \in Ids, a # b, accounts'[a].state = "live",
               accounts[b].state = "live", accounts'[b] = accounts[b]
        PROVE  /\ accounts'[a].number = accounts'[b].number => accounts'[a].number \in Shared
               /\ accounts'[a].email = accounts'[b].email /\ accounts'[a].email # NoEmail =>
                     accounts'[a].email \in Shared
    <3>1. b \in Live /\ (accounts[a].state = "live" => a \in Live)
      BY <2>2 DEF Live
    <3>2. ASSUME accounts'[a].number = accounts'[b].number PROVE accounts'[a].number \in Shared
      <4>1. CASE accounts[a].state = "live" /\ accounts[a].number = accounts'[a].number
        BY <2>2, <3>1, <3>2, <4>1 DEF AccountsInv, OneOwner, NumberOfOne, Shared
      <4>2. ASSUME NEW r \in rs, call[r].at # "idle",
                   accounts'[a].number \in {call[r].number} \ {NoNumber}
            PROVE  accounts'[a].number \in Shared
        <5>1. call[r].kind # "create" => call[r].number \in assigned \cup {NoNumber}
          BY <1>1, <4>2 DEF CallKnowsRow, KnowsRow
        <5>2. call[r].kind = "create" => call[r].number \in Shared
          BY <1>1, <2>2, <3>1, <3>2, <4>2 DEF StillFree
        <5> QED BY <4>2, <5>1, <5>2 DEF Shared
      <4> QED BY <2>2, <4>1, <4>2
    <3>3. ASSUME accounts'[a].email = accounts'[b].email, accounts'[a].email # NoEmail
          PROVE  accounts'[a].email \in Shared
      <4>1. CASE accounts[a].state = "live" /\ accounts[a].email = accounts'[a].email
        BY <2>2, <3>1, <3>3, <4>1 DEF AccountsInv, OneOwner, EmailOfOne, Shared
      <4>2. ASSUME NEW r \in rs, call[r].at # "idle",
                   accounts'[a].email \in {call[r].email} \ {NoEmail}
            PROVE  accounts'[a].email \in Shared
        BY <1>1, <2>2, <3>1, <3>3, <4>2 DEF StillFree
      <4> QED BY <2>2, <3>3, <4>1, <4>2
    <3> QED BY <3>2, <3>3
  <2>3. CASE accounts'[j] = accounts[j]
    BY <1>10, <2>1, <2>2, <2>3
  <2>4. CASE accounts'[i] = accounts[i]
    BY <1>10, <2>1, <2>2, <2>4
  <2> QED BY <1>10, <2>1, <2>3, <2>4
<1>11. OneOwner'
  BY <1>3, <1>10 DEF OneOwner, NumberOfOne, EmailOfOne, Shared
<1> QED BY <1>5, <1>6, <1>7, <1>8, <1>9, <1>11 DEF AccountsInv

LEMMA WrittenRow ==
    ASSUME AccountsInv, NEW r \in Callers, call[r].at = "commit"
    PROVE  LET q == call[r]  w == Written(q) IN
               /\ q.id \in Ids /\ w \in Account /\ w.state \in {"live", "deleted"}
               /\ q.kind # "create" => accounts[q.id].state \in {"live", "deleted"}
               /\ w.state = "live" =>
                     /\ \/ accounts[q.id].state = "live" /\ accounts[q.id].number = w.number
                        \/ w.number \in {q.number} \ {NoNumber}
                     /\ \/ w.email = NoEmail
                        \/ accounts[q.id].state = "live" /\ accounts[q.id].email = w.email
                        \/ w.email \in {q.email} \ {NoEmail}
<1> DEFINE q == call[r]
           a == accounts[q.id]
<1>1. AccountsTypeOK /\ KnowsRow(q)
  BY DEF AccountsInv, CallKnowsRow
<1>2. q.id \in Ids /\ q \in Call
  BY <1>1 DEF AccountsTypeOK
<1>3. a \in Account
  BY <1>1, <1>2 DEF AccountsTypeOK, Ids
<1>4. /\ q.number \in Numbers \cup {NoNumber} /\ q.email \in Emails \cup {NoEmail}
      /\ a.number \in Numbers /\ a.email \in Emails \cup {NoEmail}
  BY <1>2, <1>3 DEF Call, Account
<1>5. /\ q.kind # "create" => a.state \in {"live", "deleted"}
      /\ q.kind = "create" => /\ a.email = NoEmail /\ q.number \in Numbers
                              /\ q.email = NoEmail
  BY <1>1 DEF KnowsRow
<1>6. Written(q) = [number |-> IF q.number = NoNumber THEN a.number ELSE q.number,
                    email |-> IF q.email = NoEmail THEN a.email ELSE q.email,
                    state |-> IF q.kind = "create" THEN "live"
                              ELSE IF q.kind = "delete" THEN "deleted" ELSE a.state]
  BY DEF Written
<1> HIDE DEF q, a
<1>7. Written(q).state \in {"live", "deleted"} /\ Written(q) \in Account
  BY <1>4, <1>5, <1>6 DEF Account
<1>8. q.kind = "create" => Written(q).number = q.number /\ q.number # NoNumber
                           /\ Written(q).email = NoEmail
  BY <1>4, <1>5, <1>6, AccountsAssumption
<1>9. q.kind # "create" => (Written(q).state = "live" => a.state = "live")
  BY <1>5, <1>6
<1>10. /\ Written(q).number = a.number \/ Written(q).number \in {q.number} \ {NoNumber}
       /\ Written(q).email = a.email \/ Written(q).email \in {q.email} \ {NoEmail}
  BY <1>6
<1> QED BY <1>2, <1>5, <1>7, <1>8, <1>9, <1>10 DEF q, a

LEMMA CommitRowKeeps ==
    ASSUME AccountsInv, NEW r \in Callers, CommitRow(r)
    PROVE  AccountsInv'
<1> DEFINE k == call[r].id
           w == Written(call[r])
<1>1. AccountsTypeOK /\ CallKnowsRow
  BY DEF AccountsInv
<1>2. call[r].at = "commit" /\ accounts' = [accounts EXCEPT ![k] = w] /\ held' = Unlocked(r)
      /\ call' = [call EXCEPT ![r] = NoCall] /\ UNCHANGED <<raced, assigned>>
  BY DEF CommitRow
<1>3. /\ k \in Ids /\ w \in Account /\ w.state \in {"live", "deleted"}
      /\ call[r].kind # "create" => accounts[k].state \in {"live", "deleted"}
      /\ w.state = "live" =>
            /\ \/ accounts[k].state = "live" /\ accounts[k].number = w.number
               \/ w.number \in {call[r].number} \ {NoNumber}
            /\ \/ w.email = NoEmail
               \/ accounts[k].state = "live" /\ accounts[k].email = w.email
               \/ w.email \in {call[r].email} \ {NoEmail}
  BY <1>2, WrittenRow
<1> HIDE DEF w
<1>4. accounts \in [Ids -> Account]
  BY <1>1 DEF AccountsTypeOK, Ids
<1>5. /\ accounts' \in [Ids -> Account] /\ accounts'[k] = w
      /\ \A i \in Ids : i # k => accounts'[i] = accounts[i]
  BY <1>2, <1>3, <1>4
<1>6. CallBecomes(r, "idle", "none", 0, NoNumber, NoEmail) /\ call'[r] = NoCall
  BY <1>1, <1>2, CallDoneEffect DEF AccountsTypeOK
<1>7. faults' \in 0..MaxFaults
  BY <1>1, AccountsAssumption DEF CommitRow, Faulty, Sound, AccountsTypeOK
<1>8. held' = [i \in Ids |-> held[i] \ {r}]
  BY <1>2 DEF Unlocked
<1>9. \A q \in Callers \ {r} : call[q].at = "commit" => call[q].id # k
  <2>1. held[k] = {r}
    BY <1>1, <1>2, <1>3, HeldAtCommit
  <2> QED BY <1>1, <1>3, <2>1, HeldAtCommit
<1>10. \A q \in Callers \ {r} : \A i \in Ids :
          call[q].at # "idle" /\ call[q].id = i =>
              /\ call[q].at = "commit" /\ call[q].kind = "create" => accounts'[i] = accounts[i]
              /\ call[q].kind # "create" => accounts'[i].state \in {"live", "deleted"}
  BY <1>1, <1>3, <1>5, <1>9 DEF CallKnowsRow, KnowsRow
<1>11. \A i \in Ids : accounts'[i].state = "live" =>
          /\ \/ accounts[i].state = "live" /\ accounts[i].number = accounts'[i].number
             \/ \E q \in {r} : /\ call[q].at # "idle"
                               /\ accounts'[i].number \in {call[q].number} \ {NoNumber}
          /\ \/ accounts'[i].email = NoEmail
             \/ accounts[i].state = "live" /\ accounts[i].email = accounts'[i].email
             \/ \E q \in {r} : /\ call[q].at # "idle"
                               /\ accounts'[i].email \in {call[q].email} \ {NoEmail}
  BY <1>2, <1>3, <1>5
<1>12. \A i, j \in Ids : accounts'[i] # accounts[i] /\ accounts'[j] # accounts[j] => i = j
  BY <1>5
<1>13. call' \in [Callers -> Call] /\ \A q \in Callers \ {r} : call'[q] = call[q]
  BY <1>6 DEF CallBecomes
<1>14. {r} \in SUBSET Callers /\ \A q \in {r} : call'[q] = NoCall
  BY <1>6
<1> QED BY <1>2, <1>5, <1>7, <1>8, <1>10, <1>11, <1>12, <1>13, <1>14, EndKeeps

\* Rolling back whatever rs have begun.
LEMMA UndoneKeeps ==
    ASSUME AccountsInv, NEW rs \in SUBSET Callers,
           accounts' = Undone(rs), held' = [i \in Ids |-> held[i] \ rs], Faulty,
           call' \in [Callers -> Call],
           \A q \in rs : call'[q] = NoCall,
           \A q \in Callers \ rs : call'[q] = call[q],
           UNCHANGED <<raced, assigned>>
    PROVE  AccountsInv'
<1>1. AccountsTypeOK /\ CallKnowsRow
  BY DEF AccountsInv
<1>2. accounts \in [Ids -> Account]
  BY <1>1 DEF AccountsTypeOK, Ids
<1>3. /\ accounts' \in [Ids -> Account]
      /\ \A i \in Ids : accounts'[i] # accounts[i] =>
            /\ accounts'[i].state = "undone" /\ accounts[i].state = "inserted"
            /\ held[i] \cap rs # {}
  <2>1. \A i \in Ids : /\ accounts[i] \in Account
                       /\ [accounts[i] EXCEPT !.state = "undone"] \in Account
                       /\ [accounts[i] EXCEPT !.state = "undone"].state = "undone"
    BY <1>2 DEF Account
  <2> QED BY <1>2, <2>1 DEF Undone
<1>4. faults' \in 0..MaxFaults
  BY <1>1, AccountsAssumption DEF Faulty, AccountsTypeOK
<1>5. \A q \in Callers \ rs : \A i \in Ids :
          call[q].at # "idle" /\ call[q].id = i =>
              /\ call[q].at = "commit" /\ call[q].kind = "create" => accounts'[i] = accounts[i]
              /\ call[q].kind # "create" => accounts'[i].state \in {"live", "deleted"}
  <2> SUFFICES ASSUME NEW q \in Callers \ rs, NEW i \in Ids, call[q].at # "idle", call[q].id = i
               PROVE  /\ call[q].at = "commit" => accounts'[i] = accounts[i]
                      /\ call[q].kind # "create" => accounts'[i].state \in {"live", "deleted"}
    OBVIOUS
  <2>1. call[q].at = "commit" => held[i] = {q}
    BY <1>1, HeldAtCommit
  <2>2. call[q].kind # "create" => accounts[i].state \in {"live", "deleted"}
    BY <1>1 DEF CallKnowsRow, KnowsRow
  <2> QED BY <1>3, <2>1, <2>2
<1>6. \A i \in Ids : accounts'[i].state = "live" => accounts'[i] = accounts[i]
  BY <1>3
<1> QED BY <1>3, <1>4, <1>5, <1>6, EndKeeps

LEMMA RollbackRowKeeps ==
    ASSUME AccountsInv, NEW r \in Callers, RollbackRow(r)
    PROVE  AccountsInv'
<1>1. AccountsTypeOK
  BY DEF AccountsInv
<1>2. CallBecomes(r, "idle", "none", 0, NoNumber, NoEmail) /\ call'[r] = NoCall
  BY <1>1, CallDoneEffect DEF AccountsTypeOK, RollbackRow
<1>3. call' \in [Callers -> Call] /\ \A q \in Callers \ {r} : call'[q] = call[q]
  BY <1>2 DEF CallBecomes
<1>4. {r} \in SUBSET Callers /\ \A q \in {r} : call'[q] = NoCall
  BY <1>2
<1>5. /\ accounts' = Undone({r}) /\ held' = [i \in Ids |-> held[i] \ {r}] /\ Faulty
      /\ UNCHANGED <<raced, assigned>>
  BY DEF RollbackRow, Unlocked
<1> QED BY <1>3, <1>4, <1>5, UndoneKeeps

LEMMA RestartKeeps == AccountsInv /\ Restart => AccountsInv'
<1> SUFFICES ASSUME AccountsInv, Restart PROVE AccountsInv'
  OBVIOUS
<1>1. AccountsTypeOK
  BY DEF AccountsInv
<1>2. held' = [i \in Ids |-> held[i] \ Callers]
  BY <1>1 DEF Restart, AccountsTypeOK
<1>3. call' \in [Callers -> Call] /\ \A q \in Callers : call'[q] = NoCall
  BY NoCallFields DEF Restart
<1> QED BY <1>2, <1>3, UndoneKeeps DEF Restart

LEMMA InitAccountsInv == AccountsInit => AccountsInv
<1> SUFFICES ASSUME AccountsInit PROVE AccountsInv
  OBVIOUS
<1>1. accounts = <<>> /\ Ids = {} /\ Live = {} /\ Len(accounts) = 0
  BY DEF AccountsInit, Ids, Live
<1>2. \A r \in Callers : call[r] = NoCall /\ NoCall.at = "idle" /\ NoCall.id = 0
  BY NoCallFields DEF AccountsInit
<1>3. held \in [Ids -> SUBSET Callers]
  BY <1>1 DEF AccountsInit
<1>4. AccountsTypeOK
  BY <1>1, <1>2, <1>3, NoCallFields, AccountsAssumption DEF AccountsInit, AccountsTypeOK
<1>5. HeldByOne /\ OneOwner
  BY <1>1 DEF HeldByOne, OneOwner, NumberOfOne, EmailOfOne
<1>6. CallKnowsRow /\ StillFree /\ ClaimsShared
  BY <1>1, <1>2 DEF CallKnowsRow, KnowsRow, StillFree, ClaimsShared
<1> QED BY <1>4, <1>5, <1>6 DEF AccountsInv

LEMMA ServeCallKeeps ==
    ASSUME AccountsInv, NEW r \in Callers, ServeCall(r)
    PROVE  AccountsInv'
<1>1. CASE \E n \in Numbers : StartCreate(r, n)
  BY <1>1, StartCreateKeeps
<1>2. CASE \E n \in Numbers, e \in Emails \cup {NoEmail} : StartRegistration(r, n, e)
  BY <1>2, StartRegistrationKeeps
<1>3. CASE \E i \in Ids, n \in Numbers \cup {NoNumber}, e \in Emails \cup {NoEmail} :
              StartUpdate(r, i, n, e)
  BY <1>3, StartUpdateKeeps
<1>4. CASE \E i \in Ids : StartDeletion(r, i)
  BY <1>4, StartDeletionKeeps
<1>5. CASE Insert(r)
  BY <1>5, InsertKeeps
<1>6. CASE UpdateRow(r)
  BY <1>6, UpdateRowKeeps
<1>7. CASE CommitRow(r)
  BY <1>7, CommitRowKeeps
<1>8. CASE RollbackRow(r)
  BY <1>8, RollbackRowKeeps
<1> QED BY <1>1, <1>2, <1>3, <1>4, <1>5, <1>6, <1>7, <1>8 DEF ServeCall

LEMMA AccountsStutterKeeps == AccountsInv /\ UNCHANGED accountVars => AccountsInv'
<1> SUFFICES ASSUME AccountsInv, UNCHANGED accountVars PROVE AccountsInv'
  OBVIOUS
<1>1. AccountsTypeOK' /\ HeldByOne'
  BY DEF AccountsInv, accountVars, AccountsTypeOK, HeldByOne, Ids
<1>2. CallKnowsRow'
  BY DEF AccountsInv, accountVars, CallKnowsRow, KnowsRow, Ids
<1>3. StillFree' /\ ClaimsShared'
  BY DEF AccountsInv, accountVars, StillFree, ClaimsShared, Shared, Live, Ids
<1>4. OneOwner'
  BY DEF AccountsInv, OneOwner, accountVars, NumberOfOne, EmailOfOne, Live, Ids
<1> QED BY <1>1, <1>2, <1>3, <1>4 DEF AccountsInv

\* The strengthened invariant holds in every reachable state, whatever the
\* requests interleave, fail and restart.
THEOREM AccountsInvariant == AccountsSpec => []AccountsInv
<1>1. AccountsInit => AccountsInv
  BY InitAccountsInv
<1>2. AccountsInv /\ [AccountsNext]_accountVars => AccountsInv'
  BY ServeCallKeeps, RestartKeeps, AccountsStutterKeeps DEF AccountsNext
<1> QED BY <1>1, <1>2, PTL DEF AccountsSpec

\* The rows, locks and requests keep their types and belong together.
THEOREM AccountsTypeCorrect == AccountsSpec => []AccountsTypeOK
<1>1. AccountsInv => AccountsTypeOK
  BY DEF AccountsInv
<1> QED BY <1>1, AccountsInvariant, PTL

\* A number and an email belong to one account, but for those that two requests had
\* both found free or an update gave (user/service.go 66-72, 220-228, auth/service.go
\* 373-382).
THEOREM Owners == AccountsSpec => []OneOwner
<1>1. AccountsInv => OneOwner
  BY DEF AccountsInv
<1> QED BY <1>1, AccountsInvariant, PTL

-----------------------------------------------------------------------------
(* The requests implement Trx.                                              *)

LEMMA IdsArePlaces == AccountsTypeOK => Ids \subseteq Places
  BY AccountsAssumption DEF AccountsTypeOK, Ids, Places

\* What the mapping depends on: the rows, their holders, and the requests that
\* hold one.
LEMMA SamePicture ==
    ASSUME AccountsInv, Ids' = Ids,
           \A i \in Ids : Row(accounts[i])' = Row(accounts[i]) /\ held'[i] = held[i],
           \A i \in Ids : \A r \in held[i] : Written(call[r])' = Written(call[r])
    PROVE  UNCHANGED <<StoredRows, RowHolders, PendingRows>>
  BY DEF StoredRows, RowHolders, PendingRows, Places

\* The requests up to their statement show nothing.
LEMMA EnterIsStutter ==
    ASSUME AccountsInv, NEW r \in Callers, call[r].at # "commit",
           \A q \in Callers \ {r} : call'[q] = call[q],
           UNCHANGED <<accounts, held>>
    PROVE  UNCHANGED <<StoredRows, RowHolders, PendingRows>>
<1>1. AccountsTypeOK /\ HeldByOne
  BY DEF AccountsInv
<1>2. Ids' = Ids /\ \A i \in Ids : Row(accounts[i])' = Row(accounts[i]) /\ held'[i] = held[i]
  BY DEF Ids, Row
<1>3. \A i \in Ids : \A q \in held[i] : q \in Callers \ {r}
  <2> SUFFICES ASSUME NEW i \in Ids, NEW q \in held[i] PROVE q \in Callers \ {r}
    OBVIOUS
  <2>1. held[i] = {q} /\ q \in Callers
    BY <1>1 DEF HeldByOne, AccountsTypeOK
  <2> QED BY <1>1, <2>1, HeldAtCommit
<1>4. \A i \in Ids : \A q \in held[i] : Written(call[q])' = Written(call[q])
  BY <1>3 DEF Written
<1> QED BY <1>2, <1>4, SamePicture

\* What a request has written is a row.
WritesRows == \A r \in Callers : call[r].at = "commit" => Written(call[r]) \in Account

LEMMA WrittenAreRows == AccountsInv => WritesRows
  BY WrittenRow DEF WritesRows

LEMMA StatementIsWrite ==
    ASSUME AccountsInv, AccountsInv', NEW r \in Callers, NEW k \in Ids',
           Ids' = Ids \cup {k}, k \in Ids => held[k] = {},
           k \notin Ids => Row(accounts[k])' = {},
           held'[k] = {r}, \A i \in Ids \ {k} : held'[i] = held[i],
           \A i \in Ids : Row(accounts[i])' = Row(accounts[i]),
           \A q \in Callers \ {r} : call'[q] = call[q],
           \A q \in Callers \ {r} : call[q].at = "commit" => Written(call[q])' = Written(call[q])
    PROVE  T!Write(r, k)
<1>1. AccountsTypeOK /\ HeldByOne /\ AccountsTypeOK'
  BY DEF AccountsInv
<1>2. k \in Places /\ Ids \subseteq Places
  <2>1. AccountsTypeOK' => (Ids \subseteq Places)'
    BY IdsArePlaces, PTL
  <2>2. Places' = Places
    BY DEF Places
  <2> QED BY <1>1, <2>1, <2>2, IdsArePlaces
<1>3. Written(call[r])' \in Account
  <2>1. WritesRows'
    BY WrittenAreRows, PTL
  <2>2. call'[r].at = "commit"
    BY <1>1 DEF AccountsTypeOK
  <2> QED BY <2>1, <2>2 DEF WritesRows, Account
<1>4. \A i \in Ids \ {k} : \A q \in held[i] : Written(call[q])' = Written(call[q])
  <2> SUFFICES ASSUME NEW i \in Ids \ {k}, NEW q \in held[i]
               PROVE  Written(call[q])' = Written(call[q])
    OBVIOUS
  <2>1. held[i] = {q} /\ q \in Callers
    BY <1>1 DEF HeldByOne, AccountsTypeOK
  <2>2. call[q].at = "commit" /\ call[q].id = i
    BY <1>1, <2>1, HeldAtCommit
  <2>3. q # r
    <3>1. (held[k] = {r} <=> call[r].at = "commit" /\ call[r].id = k)'
      BY <1>1 DEF AccountsTypeOK
    <3>2. (held[i] = {r} <=> call[r].at = "commit" /\ call[r].id = i)'
      BY <1>1 DEF AccountsTypeOK
    <3>3. held'[i] = {q}
      BY <2>1
    <3> QED BY <3>1, <3>2, <3>3
  <2> QED BY <2>1, <2>2, <2>3
<1>5. RowHolders[k] \subseteq {r}
  BY <1>2 DEF RowHolders
<1>6. RowHolders' = [RowHolders EXCEPT ![k] = {r}]
  BY <1>2 DEF RowHolders, Places
<1>7. UNCHANGED StoredRows
  BY <1>2 DEF StoredRows, Places
<1>8. PendingRows' = [PendingRows EXCEPT ![k] = {{Written(call[r])'}}]
  <2> DEFINE P(i) == {{Written(call[q])} : q \in held[i]}
  <2>1. P(k)' = {{Written(call[r])'}}
    OBVIOUS
  <2>2. \A i \in Ids \ {k} : P(i)' = P(i)
    BY <1>4
  <2>3. PendingRows = [i \in Places |-> IF i \in Ids THEN P(i) ELSE {}]
    BY DEF PendingRows
  <2>4. PendingRows' = [i \in Places |-> IF i \in Ids \cup {k} THEN P(i)' ELSE {}]
    BY DEF PendingRows, Places
  <2> HIDE DEF P
  <2> QED BY <1>2, <2>1, <2>2, <2>3, <2>4
<1>9. {Written(call[r])'} \in {{}} \cup {{a} : a \in Account}
  BY <1>3
<1> QED BY <1>5, <1>6, <1>7, <1>8, <1>9 DEF T!Write

LEMMA InsertIsWrite ==
    ASSUME AccountsInv, AccountsInv', NEW r \in Callers, Insert(r)
    PROVE  \E k \in Places : T!Write(r, k)
<1>0. PICK k : k = Len(accounts) + 1
  OBVIOUS
<1> DEFINE row == [number |-> call[r].number, email |-> NoEmail, state |-> "inserted"]
<1>1. /\ k \in 1..MaxAccounts /\ k \notin Ids /\ Ids' = Ids \cup {k} /\ accounts'[k] = row
      /\ \A i \in Ids : accounts'[i] = accounts[i]
      /\ held'[k] = {r} /\ \A i \in Ids : held'[i] = held[i]
  BY <1>0, InsertEffect
<1>2. Row(accounts[k])' = {} /\ \A i \in Ids : Row(accounts[i])' = Row(accounts[i])
  BY <1>1 DEF Row
<1>3. AccountsTypeOK
  BY DEF AccountsInv
<1>4. \A q \in Callers \ {r} : call'[q] = call[q]
  BY <1>3 DEF Insert, AccountsTypeOK
<1>5. \A q \in Callers \ {r} : call[q].at = "commit" => Written(call[q])' = Written(call[q])
  <2>1. \A q \in Callers : call[q].at = "commit" => call[q].id \in Ids
    BY <1>3 DEF AccountsTypeOK
  <2> QED BY <1>1, <1>4, <2>1 DEF Written
<1>6. k \in Places /\ T!Write(r, k)
  BY <1>1, <1>2, <1>4, <1>5, StatementIsWrite DEF Places
<1> QED BY <1>6

LEMMA UpdateRowIsWrite ==
    ASSUME AccountsInv, AccountsInv', NEW r \in Callers, UpdateRow(r)
    PROVE  \E k \in Places : T!Write(r, k)
<1>0. PICK k : k = call[r].id
  OBVIOUS
<1>1. AccountsTypeOK
  BY DEF AccountsInv
<1>2. k \in Ids /\ Ids' = Ids /\ held[k] = {}
  BY <1>0, <1>1 DEF UpdateRow, AccountsTypeOK, Ids
<1>3. /\ accounts' = accounts /\ held'[k] = {r} /\ \A i \in Ids \ {k} : held'[i] = held[i]
      /\ \A q \in Callers \ {r} : call'[q] = call[q]
  BY <1>0, <1>1, <1>2 DEF UpdateRow, AccountsTypeOK
<1>4. /\ \A i \in Ids : Row(accounts[i])' = Row(accounts[i])
      /\ \A q \in Callers \ {r} : Written(call[q])' = Written(call[q])
  BY <1>3 DEF Row, Written
<1>5. Ids \subseteq Places
  BY <1>1, IdsArePlaces
<1>6. T!Write(r, k)
  BY <1>2, <1>3, <1>4, StatementIsWrite
<1> QED BY <1>2, <1>5, <1>6

\* The requests rs are over, who held the rows xs.
LEMMA EndIsRelease ==
    ASSUME AccountsInv, NEW rs \in SUBSET Callers, NEW xs \in SUBSET Places,
           Ids' = Ids, held' = [i \in Ids |-> held[i] \ rs],
           \A i \in Ids \cap xs : held[i] \subseteq rs,
           \A i \in Ids \ xs : held[i] \cap rs = {},
           \A q \in Callers \ rs : call'[q] = call[q],
           \A i \in Ids : held[i] # {} /\ held[i] \cap rs = {} => accounts'[i] = accounts[i]
    PROVE  T!Release(xs)
<1> DEFINE P(i) == {{Written(call[r])} : r \in held[i]}
<1>1. AccountsTypeOK /\ HeldByOne
  BY DEF AccountsInv
<1>2. \A i \in Ids \ xs : held'[i] = held[i]
  BY <1>1 DEF AccountsTypeOK
<1>3. \A i \in Ids \cap xs : held'[i] = {}
  OBVIOUS
<1>4. \A i \in Ids \ xs : \A q \in held[i] : Written(call[q])' = Written(call[q])
  <2> SUFFICES ASSUME NEW i \in Ids \ xs, NEW q \in held[i]
               PROVE  Written(call[q])' = Written(call[q])
    OBVIOUS
  <2>1. held[i] = {q} /\ q \in Callers \ rs
    BY <1>1 DEF HeldByOne, AccountsTypeOK
  <2>2. call[q].id = i /\ call'[q] = call[q]
    BY <1>1, <2>1, HeldAtCommit
  <2>3. accounts'[i] = accounts[i]
    OBVIOUS
  <2> QED BY <2>2, <2>3 DEF Written
<1>5. \A i \in Ids \ xs : P(i)' = P(i)
  BY <1>2, <1>4
<1>6. \A i \in Ids \cap xs : P(i)' = {}
  BY <1>3
<1>7. PendingRows = [i \in Places |-> IF i \in Ids THEN P(i) ELSE {}]
  BY DEF PendingRows
<1>8. PendingRows' = [i \in Places |-> IF i \in Ids THEN P(i)' ELSE {}]
  BY DEF PendingRows, Places
<1> HIDE DEF P
<1>9. PendingRows' = [x \in Places |-> IF x \in xs THEN {} ELSE PendingRows[x]]
  BY <1>5, <1>6, <1>7, <1>8
<1>10. RowHolders' = [x \in Places |-> IF x \in xs THEN {} ELSE RowHolders[x]]
  BY <1>2, <1>3 DEF RowHolders, Places
<1> QED BY <1>9, <1>10 DEF T!Release

\* The rows of a request that is about to commit: its one.
LEMMA MineAtCommit ==
    ASSUME AccountsInv, NEW r \in Callers, call[r].at = "commit"
    PROVE  /\ call[r].id \in Ids /\ call[r].id \in Places /\ held[call[r].id] = {r}
           /\ T!Mine(r) = {call[r].id}
           /\ \A i \in Ids \ {call[r].id} : held[i] \cap {r} = {}
<1>1. AccountsTypeOK /\ HeldByOne
  BY DEF AccountsInv
<1>2. call[r].id \in Ids /\ call[r].id \in Places
  BY <1>1, IdsArePlaces DEF AccountsTypeOK
<1>3. \A i \in Ids : held[i] = {r} <=> call[r].id = i
  BY <1>1, HeldAtCommit
<1>4. \A i \in Ids \ {call[r].id} : held[i] \cap {r} = {}
  BY <1>1, <1>3 DEF HeldByOne, AccountsTypeOK
<1>5. T!Mine(r) = {x \in Places : RowHolders[x] = {r}}
  BY DEF T!Mine
<1>6. \A x \in Places : RowHolders[x] = {r} <=> x = call[r].id
  BY <1>2, <1>3 DEF RowHolders
<1> QED BY <1>2, <1>3, <1>4, <1>5, <1>6

LEMMA CommitRowIsCommit ==
    ASSUME AccountsInv, NEW r \in Callers, CommitRow(r)
    PROVE  T!Commit(r)
<1>0. PICK k : k = call[r].id
  OBVIOUS
<1>1. PICK w : w = Written(call[r])
  OBVIOUS
<1>2. /\ call[r].at = "commit" /\ accounts' = [accounts EXCEPT ![k] = w]
      /\ held' = [i \in Ids |-> held[i] \ {r}]
      /\ call' = [call EXCEPT ![r] = NoCall]
  BY <1>0, <1>1 DEF CommitRow, Unlocked
<1>3. /\ k \in Ids /\ k \in Places /\ held[k] = {r} /\ T!Mine(r) = {k}
      /\ \A i \in Ids \ {k} : held[i] \cap {r} = {}
  BY <1>0, <1>2, MineAtCommit
<1>4. w \in Account /\ w.state \in {"live", "deleted"}
  BY <1>1, <1>2, WrittenRow
<1>5. accounts \in [Ids -> Account] /\ call \in [Callers -> Call]
  BY DEF AccountsInv, AccountsTypeOK, Ids
<1>6. /\ Ids' = Ids /\ accounts'[k] = w /\ \A i \in Ids \ {k} : accounts'[i] = accounts[i]
  BY <1>2, <1>3, <1>4, <1>5 DEF Ids
<1>7. T!Release({k})
  <2>1. \A q \in Callers \ {r} : call'[q] = call[q]
    BY <1>2, <1>5
  <2>2. {r} \in SUBSET Callers /\ {k} \in SUBSET Places
    BY <1>3
  <2>3. \A i \in Ids : held[i] # {} /\ held[i] \cap {r} = {} => accounts'[i] = accounts[i]
    BY <1>3, <1>6
  <2> QED BY <1>2, <1>3, <1>6, <2>1, <2>2, <2>3, EndIsRelease
<1>8. (CHOOSE v \in PendingRows[k] : TRUE) = {w}
  <2>1. PendingRows[k] = {{w}}
    BY <1>1, <1>3 DEF PendingRows
  <2> QED BY <2>1
<1>9. StoredRows' = [x \in Places |-> IF x \in {k} THEN CHOOSE v \in PendingRows[x] : TRUE
                                     ELSE StoredRows[x]]
  <2>1. Row(accounts[k])' = {w}
    BY <1>4, <1>6 DEF Row
  <2>2. \A i \in Ids \ {k} : Row(accounts[i])' = Row(accounts[i])
    BY <1>6 DEF Row
  <2>3. StoredRows' = [x \in Places |-> IF x \in Ids THEN Row(accounts[x])' ELSE {}]
    BY <1>6 DEF StoredRows, Places
  <2> QED BY <1>3, <1>8, <2>1, <2>2, <2>3 DEF StoredRows
<1> QED BY <1>3, <1>7, <1>9 DEF T!Commit

\* What was begun and is undone is nothing stored.
LEMMA UndoneStored ==
    ASSUME AccountsInv, NEW rs \in SUBSET Callers, accounts' = Undone(rs)
    PROVE  /\ Ids' = Ids /\ UNCHANGED StoredRows
           /\ \A i \in Ids : held[i] \cap rs = {} => accounts'[i] = accounts[i]
<1>1. accounts \in [Ids -> Account]
  BY DEF AccountsInv, AccountsTypeOK, Ids
<1>2. Ids' = Ids
  BY DEF Undone, Ids
<1>3. \A i \in Ids : /\ held[i] \cap rs = {} => accounts'[i] = accounts[i]
                     /\ \/ accounts'[i] = accounts[i]
                        \/ accounts[i].state = "inserted" /\ accounts'[i].state = "undone"
  BY <1>1 DEF Undone, Account
<1>4. \A i \in Ids : Row(accounts[i])' = Row(accounts[i])
  BY <1>3 DEF Row
<1> QED BY <1>2, <1>3, <1>4 DEF StoredRows, Places

LEMMA RollbackRowIsRollback ==
    ASSUME AccountsInv, NEW r \in Callers, RollbackRow(r)
    PROVE  T!Rollback(r) \/ UNCHANGED <<StoredRows, RowHolders, PendingRows>>
<1>1. AccountsTypeOK /\ HeldByOne
  BY DEF AccountsInv
<1>2. /\ accounts' = Undone({r}) /\ held' = [i \in Ids |-> held[i] \ {r}]
      /\ call' = [call EXCEPT ![r] = NoCall]
  BY DEF RollbackRow, Unlocked
<1>3. /\ Ids' = Ids /\ UNCHANGED StoredRows
      /\ \A i \in Ids : held[i] \cap {r} = {} => accounts'[i] = accounts[i]
  BY <1>2, UndoneStored
<1>4. \A q \in Callers \ {r} : call'[q] = call[q]
  BY <1>1, <1>2 DEF AccountsTypeOK
<1>5. CASE call[r].at = "commit"
  <2>0. PICK k : k = call[r].id
    OBVIOUS
  <2>1. /\ k \in Places /\ held[k] = {r} /\ T!Mine(r) = {k}
        /\ \A i \in Ids \ {k} : held[i] \cap {r} = {}
    BY <1>5, <2>0, MineAtCommit
  <2>2. {r} \in SUBSET Callers /\ {k} \in SUBSET Places
    BY <2>1
  <2>3. T!Release({k})
    BY <1>2, <1>3, <1>4, <2>1, <2>2, EndIsRelease
  <2> QED BY <1>3, <2>1, <2>3 DEF T!Rollback
<1>6. CASE call[r].at # "commit"
  <2>1. \A i \in Ids : held[i] \cap {r} = {}
    <3> SUFFICES ASSUME NEW i \in Ids, r \in held[i] PROVE FALSE
      OBVIOUS
    <3>1. held[i] = {r}
      BY <1>1 DEF HeldByOne, AccountsTypeOK
    <3> QED BY <1>1, <1>6, <3>1, HeldAtCommit
  <2>2. accounts' = accounts /\ held' = held
    <3>1. accounts \in [Ids -> Account] /\ held \in [Ids -> SUBSET Callers]
      BY <1>1 DEF AccountsTypeOK, Ids
    <3>2. held' = held
      BY <1>2, <2>1, <3>1
    <3>3. Undone({r}) = [i \in Ids |-> accounts[i]]
      BY <2>1 DEF Undone
    <3> QED BY <1>2, <3>1, <3>2, <3>3
  <2> QED BY <1>4, <1>6, <2>2, EnterIsStutter
<1> QED BY <1>5, <1>6

LEMMA RestartIsRestart ==
    ASSUME AccountsInv, Restart
    PROVE  T!Restart
<1>1. AccountsTypeOK /\ accounts' = Undone(Callers)
  BY DEF AccountsInv, Restart
<1>2. /\ Ids' = Ids /\ UNCHANGED StoredRows
      /\ \A i \in Ids : held[i] \cap Callers = {} => accounts'[i] = accounts[i]
  BY <1>1, UndoneStored
<1>3. held' = [i \in Ids |-> held[i] \ Callers] /\ \A i \in Ids : held[i] \subseteq Callers
  BY <1>1 DEF Restart, AccountsTypeOK
<1>4. Ids \ Places = {}
  BY <1>1, IdsArePlaces
<1>5. T!Release(Places)
  BY <1>2, <1>3, <1>4, EndIsRelease
<1> QED BY <1>2, <1>5 DEF T!Restart

LEMMA ServeCallIsTrx ==
    ASSUME AccountsInv, AccountsInv', NEW r \in Callers, ServeCall(r)
    PROVE  T!Next \/ UNCHANGED <<StoredRows, RowHolders, PendingRows>>
<1>1. ASSUME NEW step, NEW kind, NEW i, NEW n, NEW e, Enter(r, step, kind, i, n, e),
             UNCHANGED <<accounts, held>>
      PROVE  UNCHANGED <<StoredRows, RowHolders, PendingRows>>
  <2>1. call[r].at # "commit" /\ \A q \in Callers \ {r} : call'[q] = call[q]
    BY <1>1 DEF Enter, AccountsInv, AccountsTypeOK
  <2> QED BY <1>1, <2>1, EnterIsStutter
<1>2. CASE \E n \in Numbers : StartCreate(r, n)
  BY <1>1, <1>2 DEF StartCreate
<1>3. CASE \E n \in Numbers, e \in Emails \cup {NoEmail} : StartRegistration(r, n, e)
  BY <1>1, <1>3 DEF StartRegistration
<1>4. CASE \E i \in Ids, n \in Numbers \cup {NoNumber}, e \in Emails \cup {NoEmail} :
              StartUpdate(r, i, n, e)
  BY <1>1, <1>4 DEF StartUpdate
<1>5. CASE \E i \in Ids : StartDeletion(r, i)
  BY <1>1, <1>5 DEF StartDeletion
<1>6. CASE Insert(r)
  BY <1>6, InsertIsWrite DEF T!Next
<1>7. CASE UpdateRow(r)
  BY <1>7, UpdateRowIsWrite DEF T!Next
<1>8. CASE CommitRow(r)
  BY <1>8, CommitRowIsCommit DEF T!Next
<1>9. CASE RollbackRow(r)
  BY <1>9, RollbackRowIsRollback DEF T!Next
<1> QED BY <1>2, <1>3, <1>4, <1>5, <1>6, <1>7, <1>8, <1>9 DEF ServeCall

\* Every step of the requests is one that WithTrx promises, or shows nothing.
THEOREM StepsAreTrx == AccountsInv /\ AccountsInv' /\ [AccountsNext]_accountVars => [T!Next]_T!vars
<1> SUFFICES ASSUME AccountsInv, AccountsInv', [AccountsNext]_accountVars
             PROVE  T!Next \/ UNCHANGED <<StoredRows, RowHolders, PendingRows>>
  BY DEF T!vars
<1>1. CASE \E r \in Callers : ServeCall(r)
  BY <1>1, ServeCallIsTrx
<1>2. CASE Restart
  BY <1>2, RestartIsRestart DEF T!Next
<1>3. CASE UNCHANGED accountVars
  BY <1>3 DEF accountVars, StoredRows, RowHolders, PendingRows, Ids, Places, Row, Written
<1> QED BY <1>1, <1>2, <1>3 DEF AccountsNext

\* The accounts implement what WithTrx promises: an account changes by a commit
\* only, of the request that wrote it and alone held it since, to what it wrote
\* (trxmanager.go 23-46).
THEOREM AccountsImplementTrx == AccountsSpec => AccountTrx
<1>1. AccountsInit => T!Init
  <2> SUFFICES ASSUME AccountsInit PROVE T!Init
    OBVIOUS
  <2>1. Ids = {}
    BY DEF AccountsInit, Ids
  <2> QED BY <2>1 DEF T!Init, StoredRows, RowHolders, PendingRows
<1>2. AccountsInv /\ AccountsInv' /\ [AccountsNext]_accountVars => [T!Next]_T!vars
  BY StepsAreTrx
<1> QED BY <1>1, <1>2, AccountsInvariant, PTL DEF AccountsSpec, AccountTrx, T!Spec

-----------------------------------------------------------------------------
(* The two side by side.                                                    *)

\* Whichever of them moves, the other stands still.
LEMMA SideBySide ==
    /\ UsersInit => Init /\ AccountsInit
    /\ [UsersNext]_<<vars, accountVars, model>> => [Next]_vars /\ [AccountsNext]_accountVars
  BY DEF UsersInit, UsersNext, vars, accountVars

\* Side by side, too, both keep to what WithTrx promises (trxmanager.go 23-46).
THEOREM UsersImplementTrx == UsersSpec => ImplementsTrx
<1>1. UsersSpec => Spec /\ AccountsSpec
  BY SideBySide, PTL DEF UsersSpec, Spec, AccountsSpec
<1> QED BY <1>1, PasswordsImplementTrx, AccountsImplementTrx DEF ImplementsTrx

\* Accounts, passwords and links keep their types: a request under way is
\* for a user or a link there is, and a row is held by the request that will
\* commit it or undo it (auth/service.go 229-393, user/service.go 53-389).
THEOREM UsersTyped == UsersSpec => []TypesOK
<1>1. UsersSpec => Spec /\ AccountsSpec
  BY SideBySide, PTL DEF UsersSpec, Spec, AccountsSpec
<1>2. TypeOK /\ AccountsTypeOK => TypesOK
  BY DEF TypesOK
<1> QED BY <1>1, <1>2, TypeCorrect, AccountsTypeCorrect, PTL
=============================================================================
