---------------------------- MODULE RefreshToken ----------------------------
(***************************************************************************)
(* The refresh of a token, added to Sessions: the middleware RefreshToken   *)
(* (internal/middleware/authentication.go) refuses a uuid on AUTO_LOGOUT and *)
(* counts the refreshes of the others in Redis; the service (internal/app/  *)
(* auth/service.go) reads the user and signs a new token for the uuid.  Both *)
(* are what the old token says, whose signature is not looked at.  The       *)
(* goroutines that do this meet those of Sessions in Redis, in MySQL and in *)
(* a crash.                                                                 *)
(***************************************************************************)
EXTENDS Sessions

CONSTANTS
    Refreshers,   \* the goroutines serving refreshes
    MaxRefresh,   \* REDIS_MAX_REFRESH_TOKEN = 30
    MaxErrors     \* bound: Redis and MySQL errors that refreshes meet

ASSUME RefreshTokenAssumption ==
    /\ MaxRefresh \in Nat \ {0}
    /\ IsFiniteSet(Refreshers)
    /\ MaxErrors \in Nat

VARIABLES
    refreshes,  \* Redis: uuid -> the counter of its refreshes
    renewal,    \* goroutine -> the refresh it serves
    errors,     \* errors so far
    credit      \* history: uuid -> the refreshes it may still be let through

refreshVars == <<refreshes, renewal, errors, credit>>
allVars == <<vars, refreshVars>>

\* A refresh: where it is, and the uuid and the user of its token.
Renewal == [at : {"idle", "incr", "del", "find", "sign"},
            uuid : Uuids \cup {NoUuid}, user : Users \cup {NoUser}]
NoRenewal == [at |-> "idle", uuid |-> NoUuid, user |-> NoUser]

RefreshTypeOK ==
    /\ refreshes \in [Uuids \cup {NoUuid} -> Nat]
    /\ renewal \in [Refreshers -> Renewal]
    /\ \A q \in Refreshers :
            renewal[q].at # "idle" =>
                renewal[q].user \in Users /\ Claimed(renewal[q].uuid, renewal[q].user)
    /\ errors \in 0..MaxErrors
    /\ credit \in [Uuids \cup {NoUuid} -> Int]

RefreshInit ==
    /\ Init
    /\ refreshes = [s \in Uuids \cup {NoUuid} |-> 0]
    /\ renewal = [q \in Refreshers |-> NoRenewal]
    /\ errors = 0
    /\ credit = [s \in Uuids \cup {NoUuid} |-> MaxRefresh]

Error == errors < MaxErrors /\ errors' = errors + 1
NoError == UNCHANGED errors

Least(a, b) == IF a < b THEN a ELSE b

\* What a session can have in store: one counter's worth, and one for every
\* refusal whose DEL is still to come.
FullCredit == MaxRefresh * (Cardinality(Refreshers) + 1)

Step(q, next) == renewal' = [renewal EXCEPT ![q].at = next]
Free(q) == renewal' = [renewal EXCEPT ![q] = NoRenewal]

\* The middleware: neither the signature of the token nor its age nor the user is
\* looked at, and a GET that fails counts as an empty AUTO_LOGOUT.
StartRefresh(q, s, u) ==
    /\ renewal[q].at = "idle"
    /\ Claimed(s, u)
    /\ (s \notin autoLogout /\ NoError) \/ (s \in autoLogout /\ Error)
    /\ renewal' = [renewal EXCEPT ![q] = [at |-> "incr", uuid |-> s, user |-> u]]
    /\ UNCHANGED <<vars, refreshes, credit>>

\* Mutant of RefreshPass: the limit is off by one.
RefreshPassOneMore(q) ==
    LET s == renewal[q].uuid IN
        /\ renewal[q].at = "incr"
        /\ refreshes[s] <= MaxRefresh
        /\ refreshes' = [refreshes EXCEPT ![s] = @ + 1]
        /\ credit' = [credit EXCEPT ![s] = @ - 1]
        /\ Step(q, "find")
        /\ UNCHANGED <<vars, errors>>

\* INCR up to MaxRefresh: the request goes on.
RefreshPass(q) ==
    LET s == renewal[q].uuid IN
        /\ renewal[q].at = "incr"
        /\ refreshes[s] < MaxRefresh
        /\ refreshes' = [refreshes EXCEPT ![s] = @ + 1]
        /\ credit' = [credit EXCEPT ![s] = @ - 1]
        /\ Step(q, "find")
        /\ UNCHANGED <<vars, errors>>

\* INCR above MaxRefresh: the request is refused.
RefreshRefuse(q) ==
    LET s == renewal[q].uuid IN
        /\ renewal[q].at = "incr"
        /\ refreshes[s] >= MaxRefresh
        /\ refreshes' = [refreshes EXCEPT ![s] = @ + 1]
        /\ credit' = [credit EXCEPT ![s] = Least(@ + MaxRefresh, FullCredit)]
        /\ Step(q, "del")
        /\ UNCHANGED <<vars, errors>>

\* INCR reports an error: 401.  Redis may have run it.
RefreshFails(q) ==
    /\ renewal[q].at = "incr"
    /\ Error
    /\ \/ UNCHANGED refreshes
       \/ refreshes' = [refreshes EXCEPT ![renewal[q].uuid] = @ + 1]
    /\ Free(q)
    /\ UNCHANGED <<vars, credit>>

\* A refusal removes the counter (an error is ignored): the next refresh of
\* the session counts from 1.
RefreshDel(q) ==
    /\ renewal[q].at = "del"
    /\ \/ NoError /\ refreshes' = [refreshes EXCEPT ![renewal[q].uuid] = 0]
       \/ Error /\ UNCHANGED refreshes
    /\ Free(q)
    /\ UNCHANGED <<vars, credit>>

\* Mutant of RefreshFind: deleted users are found.
RefreshFindDeleted(q) ==
    /\ renewal[q].at = "find"
    /\ \/ NoError /\ Step(q, "sign")
       \/ Error /\ Free(q)
    /\ UNCHANGED <<vars, refreshes, credit>>

\* Mutant of RefreshFind: a user who is not found is an empty model, with the id of nobody.
RefreshFindEmpty(q) ==
    LET u == renewal[q].user IN
        /\ renewal[q].at = "find"
        /\ \/ u \notin deleted /\ NoError /\ Step(q, "sign")
           \/ /\ u \in deleted /\ NoError
              /\ renewal' = [renewal EXCEPT ![q] = [@ EXCEPT !.at = "sign", !.user = NoUser]]
           \/ Error /\ Free(q)
        /\ UNCHANGED <<vars, refreshes, credit>>

\* The service reads the user whose id the token has.  A deleted one is not found and
\* the request fails, as it does after an error of MySQL.
RefreshFind(q) ==
    LET u == renewal[q].user IN
        /\ renewal[q].at = "find"
        /\ \/ u \notin deleted /\ NoError /\ Step(q, "sign")
           \/ u \in deleted /\ NoError /\ Free(q)
           \/ Error /\ Free(q)
        /\ UNCHANGED <<vars, refreshes, credit>>

\* Mutant of RefreshSign: the uuid is listed again, in one command.
RefreshSignAndList(q) ==
    LET s == renewal[q].uuid  u == renewal[q].user IN
        /\ renewal[q].at = "sign"
        /\ token' = token \cup {<<s, u>>}
        /\ login' = [login EXCEPT ![u] = @ \cup {s}]
        /\ Free(q)
        /\ UNCHANGED <<autoLogout, mysql, owner, issued, madeUp, req, failures, history,
                       refreshes, errors, credit>>

\* The new token is signed, good for 24 hours; the user may be deleted by now.
RefreshSign(q) ==
    /\ renewal[q].at = "sign"
    /\ token' = token \cup {<<renewal[q].uuid, renewal[q].user>>}
    /\ Free(q)
    /\ UNCHANGED <<redis, mysql, owner, issued, madeUp, req, failures, history,
                   refreshes, errors, credit>>

\* A made up token counts as an error here, too: the bounds are shared.
RefreshMakeUp(s, u) ==
    /\ MakeUp(s, u) /\ Error
    /\ UNCHANGED <<refreshes, renewal, credit>>

\* A restart ends the refreshes, too.
RefreshCrash ==
    /\ Crash
    /\ renewal' = [q \in Refreshers |-> NoRenewal]
    /\ UNCHANGED <<refreshes, errors, credit>>

RefreshNext ==
    \/ \E q \in Refreshers, s \in Uuids \cup {NoUuid}, u \in Users : StartRefresh(q, s, u)
    \/ \E q \in Refreshers :
            \/ RefreshPass(q) \/ RefreshRefuse(q) \/ RefreshFails(q)
            \/ RefreshDel(q) \/ RefreshFind(q) \/ RefreshSign(q)
    \/ (\E r \in Requests : Serve(r)) /\ UNCHANGED refreshVars
    \/ (\E s \in Uuids \cup {NoUuid}, u \in Users : Expire(s, u)) /\ UNCHANGED refreshVars
    \/ \E s \in Uuids \cup {NoUuid}, u \in Users : RefreshMakeUp(s, u)
    \/ RefreshCrash

\* As in Sessions: tokens grow old, nobody has to call.
RefreshSpec ==
    /\ RefreshInit /\ [][RefreshNext]_allVars
    /\ \A s \in Uuids \cup {NoUuid}, u \in Users : WF_vars(Expire(s, u))

-----------------------------------------------------------------------------
(* Properties.                                                              *)

\* However many refreshes of one uuid run at the same time, and although
\* a refused one removes the counter under the others (authentication.go
\* 285-293), the uuid never overdraws a credit of MaxRefresh refreshes, to
\* which a refusal adds MaxRefresh more up to FullCredit.
RefreshBudget == \A s \in Uuids \cup {NoUuid} : credit[s] >= 0

\* A deleted user is out for good in the end, even if the revocation missed a
\* session and whatever the tokens say that are refreshed: a refresh that begins
\* after the deletion has committed ends without a token for that user, and the
\* tokens there are grow old (auth/service.go 177-182, 104).  What it says of is
\* the user in the token: the uuid of a deleted user's session can be in a token
\* of somebody else.
DeletedFadeOut ==
    \A u \in Users :
        u \in deleted ~> [](\A s \in Uuids \cup {NoUuid} : <<s, u>> \notin token)

\* With the steps of the refresh spelled out this is still Sessions, where a
\* refresh is the one step Renew: what holds of the lists there holds here.
ImplementsSessions == Spec

-----------------------------------------------------------------------------
(* The invariant that makes RefreshBudget inductive (module SessionsProofs). *)

\* The refused refreshes of s whose DEL is still to come.
Refusing(s) == {q \in Refreshers : renewal[q].at = "del" /\ renewal[q].uuid = s}

\* How many refreshes the counter of s lets through before it is removed.
Remaining(s) == MaxRefresh - Least(refreshes[s], MaxRefresh)

\* The credit of s pays for these and for those that each DEL makes room for.
CreditCovers(s) == credit[s] >= Remaining(s) + MaxRefresh * Cardinality(Refusing(s))

RefreshIInv == RefreshTypeOK /\ \A s \in Uuids \cup {NoUuid} : CreditCovers(s)
=============================================================================
