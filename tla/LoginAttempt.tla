---------------------------- MODULE LoginAttempt ----------------------------
(***************************************************************************)
(* The login limiter of internal/middleware/login-attempt.go: an in-memory  *)
(* map from "ip:number_id" to the failures counted for it and the lock they *)
(* earned, shared by the goroutines that serve POST /auth/login.  A request *)
(* meets the map twice, each time under the store's mutex: Allow before the *)
(* handler and IncreaseAttempt after it.  What happens between the two, to  *)
(* this key and to the others, is up to the other goroutines and the clock. *)
(*                                                                         *)
(* Times are kept relative to now, so that the clock need not be bounded:   *)
(* idle is now - LastSeen, lockLeft is LockedAt - now (0 once it has        *)
(* passed), sinceCleanUp is now - lastCleanUp.  Ages saturate one tick past *)
(* the only value they are compared with.                                   *)
(***************************************************************************)
EXTENDS Integers, FiniteSets

CONSTANTS
    Keys,        \* the "ip:number_id" pairs that log in
    Requests,    \* the goroutines serving login requests
    NoKey,       \* what a free goroutine is working on
    NoUser,      \* what the map holds for a key it does not hold
    Max,         \* maxAttempts (10 in middleware.Init)
    Minute,      \* ticks of the clock in cleanedUpIn = 1 minute
    MaxRestarts  \* bound: how often the process is restarted

Old == Minute + 1          \* any age past cleanedUpIn
ShortLock == Minute        \* 1 * time.Minute
LongLock == 5 * Minute     \* 5 * time.Minute

User == [Attempts : 0..(Max - 1), idle : 0..Old, lockLeft : 0..LongLock,
         LockDuration : {0, ShortLock, LongLock}]

ASSUME LoginAttemptAssumption ==
    /\ Max \in Nat \ {0}
    /\ Minute \in Nat \ {0}
    /\ MaxRestarts \in Nat
    /\ IsFiniteSet(Requests)
    /\ NoKey \notin Keys
    /\ NoUser \notin User

VARIABLES
    users,         \* store.users: key -> User or NoUser
    sinceCleanUp,  \* now - store.lastCleanUp
    inFlight,      \* goroutine -> the key its admitted login is for, or NoKey
    restarts,      \* how often the process was restarted
    owed,          \* history: what is left of the last lock given to a key
    quiet,         \* history: time since the store last saw a key
    steady,        \* history: no pause over a minute since the last lock
    streak,        \* history: failures in a row, no pause over a minute
    late           \* history: failures recorded under a lock since it was set

store == <<users, sinceCleanUp>>
history == <<owed, quiet, steady, streak, late>>
vars == <<users, sinceCleanUp, inFlight, restarts,
          owed, quiet, steady, streak, late>>

NewUser == [Attempts |-> 0, idle |-> Old, lockLeft |-> 0, LockDuration |-> 0]

Locked(k) == users[k] # NoUser /\ users[k].lockLeft > 0
Working(k) == {r \in Requests : inFlight[r] = k}

TypeOK ==
    /\ users \in [Keys -> User \cup {NoUser}]
    /\ sinceCleanUp \in 0..Old
    /\ inFlight \in [Requests -> Keys \cup {NoKey}]
    /\ restarts \in 0..MaxRestarts
    /\ owed \in [Keys -> 0..LongLock]
    /\ quiet \in [Keys -> 0..Old]
    /\ steady \in [Keys -> BOOLEAN]
    /\ streak \in [Keys -> Nat]
    /\ late \in [Keys -> Nat]

Init ==
    /\ users = [k \in Keys |-> NoUser]
    /\ sinceCleanUp = 0
    /\ inFlight = [r \in Requests |-> NoKey]
    /\ restarts = 0
    /\ owed = [k \in Keys |-> 0]
    /\ quiet = [k \in Keys |-> Old]
    /\ steady = [k \in Keys |-> FALSE]
    /\ streak = [k \in Keys |-> 0]
    /\ late = [k \in Keys |-> 0]

-----------------------------------------------------------------------------
(* The store: what Allow and IncreaseAttempt do under the mutex.            *)

Entry(k) == IF users[k] = NoUser THEN NewUser ELSE users[k]

\* cleanUpStaleUsers: the entries of us not seen for more than cleanedUpIn go.
Fresh(us) == [k \in Keys |-> IF us[k] # NoUser /\ us[k].idle > Minute
                             THEN NoUser ELSE us[k]]

\* Mutant of Touch: LastSeen is only written when the entry is made.
TouchOnce(k, u) ==
    LET seen == [users EXCEPT ![k] = IF @ = NoUser THEN [u EXCEPT !.idle = 0]
                                     ELSE [u EXCEPT !.idle = @]]
        due == sinceCleanUp > Minute
    IN  /\ users' = IF due THEN Fresh(seen) ELSE seen
        /\ sinceCleanUp' = IF due THEN 0 ELSE sinceCleanUp
        /\ quiet' = [quiet EXCEPT ![k] = 0]

\* The entry u of k is stored as seen now, and the map is swept when the last
\* sweep is more than cleanedUpIn ago.
Touch(k, u) ==
    LET seen == [users EXCEPT ![k] = [u EXCEPT !.idle = 0]]
        due == sinceCleanUp > Minute
    IN  /\ users' = IF due THEN Fresh(seen) ELSE seen
        /\ sinceCleanUp' = IF due THEN 0 ELSE sinceCleanUp
        /\ quiet' = [quiet EXCEPT ![k] = 0]

\* Mutant of Failed: the count is compared before it is raised.
FailedTooLate(u) ==
    IF u.Attempts < Max
    THEN [u EXCEPT !.Attempts = @ + 1]
    ELSE LET d == IF u.LockDuration = ShortLock THEN LongLock ELSE ShortLock
         IN  [u EXCEPT !.Attempts = 0, !.LockDuration = d, !.lockLeft = d]

\* Mutant of Failed: the durations double instead of alternating.
FailedDoubling(u) ==
    IF u.Attempts + 1 < Max
    THEN [u EXCEPT !.Attempts = @ + 1]
    ELSE LET d == IF u.LockDuration = 0 THEN ShortLock ELSE 2 * u.LockDuration
         IN  [u EXCEPT !.Attempts = 0, !.LockDuration = d, !.lockLeft = d]

\* A failure that reaches Max locks the key: one minute, or five when the
\* last duration was one; the count starts again.
Failed(u) ==
    IF u.Attempts + 1 < Max
    THEN [u EXCEPT !.Attempts = @ + 1]
    ELSE LET d == IF u.LockDuration = ShortLock THEN LongLock ELSE ShortLock
         IN  [u EXCEPT !.Attempts = 0, !.LockDuration = d, !.lockLeft = d]

\* Any other status clears the count, not the lock.
NotFailed(u) == [u EXCEPT !.Attempts = 0, !.LockDuration = ShortLock]

-----------------------------------------------------------------------------
(* The middleware.                                                          *)

\* Mutant of Admit: only the Locked flag is looked at, LockedAt is not.
AdmitLocked(r, k) ==
    /\ inFlight[r] = NoKey
    /\ Touch(k, Entry(k))
    /\ inFlight' = [inFlight EXCEPT ![r] = k]
    /\ UNCHANGED <<restarts, owed, steady, streak, late>>

\* Allow says yes: the handler runs.
Admit(r, k) ==
    /\ inFlight[r] = NoKey
    /\ Entry(k).lockLeft = 0
    /\ Touch(k, Entry(k))
    /\ inFlight' = [inFlight EXCEPT ![r] = k]
    /\ UNCHANGED <<restarts, owed, steady, streak, late>>

\* Mutant of Deny: a refused call starts the lock again.
DenyProlongs(r, k) ==
    /\ inFlight[r] = NoKey
    /\ Entry(k).lockLeft > 0
    /\ Touch(k, [Entry(k) EXCEPT !.lockLeft = Entry(k).LockDuration])
    /\ UNCHANGED <<inFlight, restarts, owed, steady, streak, late>>

\* Allow says no: 401 with the time to wait; the lock is not prolonged.
Deny(r, k) ==
    /\ inFlight[r] = NoKey
    /\ Entry(k).lockLeft > 0
    /\ Touch(k, Entry(k))
    /\ UNCHANGED <<inFlight, restarts, owed, steady, streak, late>>

\* The handler answered 401.
RecordFailure(r) ==
    LET k == inFlight[r]
        old == Entry(k)
        new == Failed(old)
        locks == new.Attempts = 0 /\ new.lockLeft > 0
    IN  /\ k # NoKey
        /\ Touch(k, new)
        /\ inFlight' = [inFlight EXCEPT ![r] = NoKey]
        /\ owed' = [owed EXCEPT ![k] = IF locks THEN new.lockLeft ELSE @]
        /\ steady' = [steady EXCEPT ![k] = locks \/ @]
        /\ streak' = [streak EXCEPT ![k] = IF locks THEN 0 ELSE @ + 1]
        /\ late' = [late EXCEPT ![k] = IF locks THEN 0
                                       ELSE IF Locked(k) THEN @ + 1 ELSE @]
        /\ UNCHANGED restarts

\* The handler answered anything else: a login, a bad request, a crash.
RecordOther(r) ==
    LET k == inFlight[r] IN
        /\ k # NoKey
        /\ Touch(k, NotFailed(Entry(k)))
        /\ inFlight' = [inFlight EXCEPT ![r] = NoKey]
        /\ streak' = [streak EXCEPT ![k] = 0]
        /\ UNCHANGED <<restarts, owed, steady, late>>

\* The query inside IncreaseAttempt failed: an entry that was missing is now
\* there with a zero LastSeen, one that was there is left as it is.
RecordingFails(r) ==
    LET k == inFlight[r] IN
        /\ k # NoKey
        /\ users' = [users EXCEPT ![k] = Entry(k)]
        /\ inFlight' = [inFlight EXCEPT ![r] = NoKey]
        /\ UNCHANGED <<sinceCleanUp, restarts, history>>

\* next(c) returned an error: the attempt is not recorded.
HandlerError(r) ==
    /\ inFlight[r] # NoKey
    /\ inFlight' = [inFlight EXCEPT ![r] = NoKey]
    /\ UNCHANGED <<store, restarts, history>>

-----------------------------------------------------------------------------
(* The clock and the process.                                               *)

Older(age) == IF age < Old THEN age + 1 ELSE Old
Less(left) == IF left > 0 THEN left - 1 ELSE 0

Tick ==
    /\ users' = [k \in Keys |->
                    IF users[k] = NoUser THEN NoUser
                    ELSE [users[k] EXCEPT !.idle = Older(@), !.lockLeft = Less(@)]]
    /\ sinceCleanUp' = Older(sinceCleanUp)
    /\ owed' = [k \in Keys |-> Less(owed[k])]
    /\ quiet' = [k \in Keys |-> Older(quiet[k])]
    /\ steady' = [k \in Keys |-> steady[k] /\ owed[k] > 1 /\ quiet[k] < Minute]
    /\ streak' = [k \in Keys |-> IF quiet[k] >= Minute THEN 0 ELSE streak[k]]
    /\ late' = [k \in Keys |-> IF owed[k] <= 1 THEN 0 ELSE late[k]]
    /\ UNCHANGED <<inFlight, restarts>>

\* The process is restarted: its memory and its requests are gone.
Restart ==
    /\ restarts < MaxRestarts
    /\ restarts' = restarts + 1
    /\ users' = [k \in Keys |-> NoUser]
    /\ sinceCleanUp' = 0
    /\ inFlight' = [r \in Requests |-> NoKey]
    /\ owed' = [k \in Keys |-> 0]
    /\ quiet' = [k \in Keys |-> Old]
    /\ steady' = [k \in Keys |-> FALSE]
    /\ streak' = [k \in Keys |-> 0]
    /\ late' = [k \in Keys |-> 0]

Next ==
    \/ \E r \in Requests, k \in Keys : Admit(r, k) \/ Deny(r, k)
    \/ \E r \in Requests : \/ RecordFailure(r)
                           \/ RecordOther(r)
                           \/ RecordingFails(r)
                           \/ HandlerError(r)
    \/ Tick
    \/ Restart

\* Time goes on; clients may stay away and requests may hang in the handler.
Spec == Init /\ [][Next]_vars /\ WF_vars(Tick)
-----------------------------------------------------------------------------
(* Properties.                                                              *)

\* Max failures in a row lock the key, whatever the other keys and the sweeps
\* of the map do meanwhile, as long as the key is never quiet for more than a
\* minute: no failure of such a run is lost (IncreaseAttempt 349-360 against
\* cleanUpStaleUsers 373-376).
FailuresLock == \A k \in Keys : streak[k] < Max

\* A client that calls at least once a minute serves the lock it was given in
\* full: its refused calls neither prolong the lock nor free it, and no sweep
\* can drop it (Allow 294-307, cleanUpStaleUsers 373-376).
LockServedInFull ==
    \A k \in Keys : owed[k] > 0 /\ steady[k] => /\ users[k] # NoUser
                                                /\ users[k].lockLeft = owed[k]

\* Under a lock only the logins admitted before it are still answered: those
\* already counted and those in flight are fewer than the goroutines, one of
\* which set the lock (Allow 305-307, the middleware 172-185).
OverrunBounded ==
    \A k \in Keys :
        Locked(k) => late[k] + Cardinality(Working(k)) < Cardinality(Requests)

\* What makes the three inductive: an entry's age is the key's quiet time and a
\* missing entry belongs to a quiet key; a run of failures and a lock served
\* steadily are in the map, seen less than a minute ago.
AgesAgree ==
    \A k \in Keys : quiet[k] = IF users[k] = NoUser THEN Old ELSE users[k].idle
StreakCounted ==
    \A k \in Keys : streak[k] > 0 => /\ users[k] # NoUser
                                     /\ streak[k] <= users[k].Attempts
                                     /\ quiet[k] <= Minute
LockKept ==
    \A k \in Keys : owed[k] > 0 /\ steady[k] => /\ users[k] # NoUser
                                                /\ users[k].lockLeft = owed[k]
                                                /\ quiet[k] <= Minute
IInv == TypeOK /\ AgesAgree /\ StreakCounted /\ LockKept /\ OverrunBounded

\* A locked key is not locked for ever, however often its client tries while
\* it waits and whatever the logins still in flight add (304-307, 351-359).
LockLifts == \A k \in Keys : Locked(k) ~> ~Locked(k)

\* What the comments promise: a locked key stays locked for the duration the
\* lock was given ("LockDuration ... duration for which the user is locked
\* out", 216).
LockLastsItsDuration == \A k \in Keys : owed[k] > 0 => Locked(k)
=============================================================================
