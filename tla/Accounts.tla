------------------------------ MODULE Accounts ------------------------------
(***************************************************************************)
(* Accounts: an administrator creates an account for the number of a member  *)
(* of staff, who registers for it with an email; accounts are edited and      *)
(* deleted.  No index keeps numbers and emails apart: Create and Register     *)
(* look for them, and write later in the same transaction; Update does not    *)
(* look.  (internal/app/user/service.go, internal/app/auth/service.go,        *)
(* internal/repository/user.go.)                                              *)
(***************************************************************************)
EXTENDS Integers, Sequences

CONSTANTS
    Numbers, Emails,   \* up to upper and lower case, which the queries ignore
    NoNumber, NoEmail,
    Callers,
    MaxAccounts,       \* bound: accounts ever created
    MaxFaults          \* bound: statements and commits that fail, restarts

ASSUME AccountsAssumption ==
    /\ {NoNumber, NoEmail} \cap (Numbers \cup Emails) = {}
    /\ MaxAccounts \in Nat /\ MaxFaults \in Nat

VARIABLES
    accounts,    \* MySQL: the rows by their ids, those of open and undone inserts included
    held,        \* MySQL: id -> the request whose transaction holds the row, if any
    call,        \* goroutine -> the request it serves
    faults       \* failures so far

VARIABLES        \* history
    raced,       \* numbers and emails that two requests had both found free
    assigned     \* numbers and emails given by an update, which does not look

accountVars == <<accounts, held, call, faults, raced, assigned>>

Account == [number : Numbers, email : Emails \cup {NoEmail},
            state : {"inserted", "live", "deleted", "undone"}]

\* A request: the account it writes, 0 before it has one, and the number and
\* email it is going to write.
Call ==
    [at : {"idle", "insert", "update", "commit"},
     kind : {"none", "create", "register", "update", "delete"},
     id : 0..MaxAccounts, number : Numbers \cup {NoNumber}, email : Emails \cup {NoEmail}]

NoCall == [at |-> "idle", kind |-> "none", id |-> 0, number |-> NoNumber, email |-> NoEmail]

Ids == DOMAIN accounts

AccountsTypeOK ==
    /\ accounts \in Seq(Account) /\ Len(accounts) <= MaxAccounts
    /\ held \in [Ids -> SUBSET Callers]
    /\ call \in [Callers -> Call]
    /\ \A r \in Callers :
          /\ call[r].id \in Ids \cup {0}
          /\ call[r].at \in {"update", "commit"} => call[r].id \in Ids
          /\ \A i \in Ids : call[r].at = "commit" /\ call[r].id = i <=> held[i] = {r}
    /\ faults \in 0..MaxFaults
    /\ raced \subseteq Numbers \cup Emails
    /\ assigned \subseteq Numbers \cup Emails

AccountsInit ==
    /\ accounts = <<>> /\ held = <<>>
    /\ call = [r \in Callers |-> NoCall]
    /\ faults = 0
    /\ raced = {} /\ assigned = {}

-----------------------------------------------------------------------------
(* The queries.                                                             *)

Live == {i \in Ids : accounts[i].state = "live"}

\* FindByNumberId and FindByEmail, of what is committed: the account with the
\* least id.
WithNumber(n) == {i \in Live : accounts[i].number = n}
WithEmail(e) == {i \in Live : accounts[i].email = e}
First(ids) == {i \in ids : \A j \in ids : i <= j}

\* A statement or commit fails, or does not.
Faulty == faults < MaxFaults /\ faults' = faults + 1
Sound == UNCHANGED faults

Enter(r, step, kind, i, n, e) ==
    /\ call[r].at = "idle"
    /\ call' = [call EXCEPT ![r] = [at |-> step, kind |-> kind, id |-> i,
                                  number |-> n, email |-> e]]

\* What of n and e another request has found free or is going to give.
Claimed(r, n, e) ==
    {x \in {n, e} \ {NoNumber, NoEmail} :
        \E q \in Callers \ {r} : call[q].at # "idle" /\ x \in {call[q].number, call[q].email}}

Unlocked(r) == [i \in Ids |-> held[i] \ {r}]

-----------------------------------------------------------------------------
(* The requests, up to their statement.                                     *)

\* Mutant of StartCreate: the number is not looked for.
StartCreateBlind(r, n) ==
    /\ Enter(r, "insert", "create", 0, n, NoEmail)
    /\ raced' = raced \cup Claimed(r, n, NoEmail)
    /\ UNCHANGED <<accounts, held, faults, assigned>>

StartCreate(r, n) ==
    /\ WithNumber(n) = {}
    /\ Enter(r, "insert", "create", 0, n, NoEmail)
    /\ raced' = raced \cup Claimed(r, n, NoEmail)
    /\ UNCHANGED <<accounts, held, faults, assigned>>

\* Mutant of StartRegistration: the email is not looked for.
StartRegistrationBlind(r, n, e) ==
    /\ \E i \in First(WithNumber(n)) : Enter(r, "update", "register", i, NoNumber, e)
    /\ raced' = raced \cup Claimed(r, NoNumber, e)
    /\ UNCHANGED <<accounts, held, faults, assigned>>

\* Register with an email or without.
StartRegistration(r, n, e) ==
    /\ e # NoEmail => WithEmail(e) = {}
    /\ \E i \in First(WithNumber(n)) : Enter(r, "update", "register", i, NoNumber, e)
    /\ raced' = raced \cup Claimed(r, NoNumber, e)
    /\ UNCHANGED <<accounts, held, faults, assigned>>

\* Update of a number, an email, both or neither.
StartUpdate(r, i, n, e) ==
    /\ i \in Live
    /\ Enter(r, "update", "update", i, n, e)
    /\ assigned' = assigned \cup ({n, e} \ {NoNumber, NoEmail})
    /\ UNCHANGED <<accounts, held, faults, raced>>

StartDeletion(r, i) ==
    /\ i \in Live
    /\ Enter(r, "update", "delete", i, NoNumber, NoEmail)
    /\ UNCHANGED <<accounts, held, faults, raced, assigned>>

-----------------------------------------------------------------------------
(* The statement and the end of the transaction.                            *)

\* INSERT gets the next id.
Insert(r) ==
    /\ call[r].at = "insert" /\ Len(accounts) < MaxAccounts
    /\ accounts' = Append(accounts, [number |-> call[r].number, email |-> NoEmail,
                                     state |-> "inserted"])
    /\ held' = Append(held, {r})
    /\ call' = [call EXCEPT ![r].at = "commit", ![r].id = Len(accounts) + 1]
    /\ UNCHANGED <<faults, raced, assigned>>

\* Mutant of UpdateRow: UPDATE does not wait for the row.
UpdateRowAtOnce(r) ==
    /\ call[r].at = "update"
    /\ held' = [held EXCEPT ![call[r].id] = {r}]
    /\ call' = [call EXCEPT ![r].at = "commit"]
    /\ UNCHANGED <<accounts, faults, raced, assigned>>

\* UPDATE by the id waits for the row and holds it.
UpdateRow(r) ==
    /\ call[r].at = "update" /\ held[call[r].id] = {}
    /\ held' = [held EXCEPT ![call[r].id] = {r}]
    /\ call' = [call EXCEPT ![r].at = "commit"]
    /\ UNCHANGED <<accounts, faults, raced, assigned>>

\* The columns that are not empty are written.
Written(q) ==
    LET a == accounts[q.id] IN
        [number |-> IF q.number = NoNumber THEN a.number ELSE q.number,
         email |-> IF q.email = NoEmail THEN a.email ELSE q.email,
         state |-> IF q.kind = "create" THEN "live"
                   ELSE IF q.kind = "delete" THEN "deleted" ELSE a.state]

\* The answer of a commit may be lost.
CommitRow(r) ==
    /\ call[r].at = "commit"
    /\ Sound \/ Faulty
    /\ accounts' = [accounts EXCEPT ![call[r].id] = Written(call[r])]
    /\ held' = Unlocked(r)
    /\ call' = [call EXCEPT ![r] = NoCall]
    /\ UNCHANGED <<raced, assigned>>

\* Inserts of rs that were not committed are undone.
Undone(rs) ==
    [i \in Ids |-> IF accounts[i].state = "inserted" /\ held[i] \cap rs # {}
                   THEN [accounts[i] EXCEPT !.state = "undone"] ELSE accounts[i]]

\* A statement or the commit fails.
RollbackRow(r) ==
    /\ call[r].at # "idle"
    /\ Faulty
    /\ accounts' = Undone({r})
    /\ held' = Unlocked(r)
    /\ call' = [call EXCEPT ![r] = NoCall]
    /\ UNCHANGED <<raced, assigned>>

\* The server restarts, and MySQL rolls its transactions back.
Restart ==
    /\ Faulty
    /\ accounts' = Undone(Callers)
    /\ held' = [i \in Ids |-> {}]
    /\ call' = [r \in Callers |-> NoCall]
    /\ UNCHANGED <<raced, assigned>>

ServeCall(r) ==
    \/ \E n \in Numbers : StartCreate(r, n)
    \/ \E n \in Numbers, e \in Emails \cup {NoEmail} : StartRegistration(r, n, e)
    \/ \E i \in Ids, n \in Numbers \cup {NoNumber}, e \in Emails \cup {NoEmail} :
          StartUpdate(r, i, n, e)
    \/ \E i \in Ids : StartDeletion(r, i)
    \/ Insert(r) \/ UpdateRow(r) \/ CommitRow(r) \/ RollbackRow(r)

AccountsNext == (\E r \in Callers : ServeCall(r)) \/ Restart

AccountsSpec == AccountsInit /\ [][AccountsNext]_accountVars

-----------------------------------------------------------------------------
(* Properties.                                                              *)

\* A number belongs to one account at a time, although it is looked for before
\* the insert, unless two requests had both found it free or an update gave it
\* (user/service.go 66-72, 220-222).
NumberOfOne ==
    \A i, j \in Live :
        i # j /\ accounts[i].number = accounts[j].number =>
            accounts[i].number \in raced \cup assigned

\* The same of an email (auth/service.go 373-382, user/service.go 226-228).
EmailOfOne ==
    \A i, j \in Live :
        i # j /\ accounts[i].email = accounts[j].email /\ accounts[i].email # NoEmail =>
            accounts[i].email \in raced \cup assigned

\* Whatever interleaves, a number and an email are of one account each, with these
\* exceptions (user/service.go 66-72, 220-228, auth/service.go 373-382).
OneOwner == NumberOfOne /\ EmailOfOne

\* What makes it inductive: a row has one holder; a request knows what kind
\* of row it writes, and an update has noted what it gives; whatever a request
\* looked for and found free is still nobody's, or is one of the exceptions.
HeldByOne == \A i \in Ids : \A r, q \in held[i] : r = q

Shared == raced \cup assigned

KnowsRow(q) ==
    /\ q.at = "insert" => q.kind = "create"
    /\ q.at = "update" => q.kind # "create"
    /\ q.at # "idle" /\ q.kind = "create" => q.number \in Numbers /\ q.email = NoEmail
    /\ q.at = "commit" /\ q.kind = "create" =>
          accounts[q.id] = [number |-> q.number, email |-> NoEmail, state |-> "inserted"]
    /\ q.at # "idle" /\ q.kind # "create" =>
          /\ q.id \in Ids /\ accounts[q.id].state \in {"live", "deleted"}
          /\ q.number \in assigned \cup {NoNumber}
    /\ q.at # "idle" /\ q.kind # "register" => q.email \in assigned \cup {NoEmail}

CallKnowsRow == \A r \in Callers : KnowsRow(call[r])

StillFree ==
    \A r \in Callers : \A i \in Live :
        call[r].at # "idle" =>
            /\ call[r].kind = "create" /\ accounts[i].number = call[r].number =>
                  call[r].number \in Shared
            /\ call[r].email # NoEmail /\ accounts[i].email = call[r].email =>
                  call[r].email \in Shared

ClaimsShared ==
    \A r, q \in Callers :
        r # q /\ call[r].at # "idle" /\ call[q].at # "idle" =>
            /\ call[r].number = call[q].number => call[r].number \in Shared \cup {NoNumber}
            /\ call[r].email = call[q].email => call[r].email \in Shared \cup {NoEmail}

AccountsInv ==
    /\ AccountsTypeOK /\ HeldByOne /\ CallKnowsRow /\ StillFree /\ ClaimsShared
    /\ OneOwner

\* What is stored of an account, who holds it, and what its holder has written:
\* the columns at the commit are those of the statement before it.
Row(a) == IF a.state \in {"inserted", "undone"} THEN {} ELSE {a}
Places == 1..MaxAccounts

StoredRows == [i \in Places |-> IF i \in Ids THEN Row(accounts[i]) ELSE {}]
RowHolders == [i \in Places |-> IF i \in Ids THEN held[i] ELSE {}]
PendingRows ==
    [i \in Places |-> IF i \in Ids THEN {{Written(call[r])} : r \in held[i]} ELSE {}]

T == INSTANCE Trx WITH
        Rows <- Places, Requests <- Callers, Values <- {{}} \cup {{a} : a \in Account},
        stored <- StoredRows, holder <- RowHolders, pending <- PendingRows

\* The requests keep to what WithTrx promises: an account changes by a commit
\* only, of the request that wrote it and alone held it since, and then to what
\* it wrote, whatever else began or ended meanwhile; a request that fails and a
\* restart leave every account as it was (trxmanager.go 23-46).
AccountTrx == T!Spec
=============================================================================
