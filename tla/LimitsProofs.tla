---------------------------- MODULE LimitsProofs ----------------------------
(***************************************************************************)
(* What the two limits promise: LoginAttempt for every set of keys and        *)
(* goroutines, every maxAttempts and every length of a minute; IpCheck for    *)
(* every set of addresses and goroutines, every maximum and every window; and *)
(* the two side by side, as the runs check them.                             *)
(***************************************************************************)
EXTENDS MCLimits, FiniteSetTheorems, TLAPS

-----------------------------------------------------------------------------
(* LoginAttempt.                                                            *)

\* An entry, stored or new, is a User, and a lock is the lock of a stored one.
LEMMA EntryType ==
    ASSUME TypeOK, NEW k \in Keys
    PROVE  /\ Entry(k) \in User
           /\ Entry(k).lockLeft > 0 => users[k] # NoUser
           /\ users[k] # NoUser => Entry(k) = users[k]
  BY LoginAttemptAssumption DEF TypeOK, Entry, NewUser, User, Old, LongLock, ShortLock

\* Touch stores the entry of k as just seen; of the others only entries not
\* seen for over a minute can go.
LEMMA TouchEffect ==
    ASSUME TypeOK, NEW k \in Keys, NEW u \in User, Touch(k, u)
    PROVE  /\ users' \in [Keys -> User \cup {NoUser}]
           /\ sinceCleanUp' \in 0..Old
           /\ quiet' \in [Keys -> 0..Old]
           /\ users'[k] # NoUser /\ users'[k].idle = 0 /\ quiet'[k] = 0
           /\ users'[k].Attempts = u.Attempts /\ users'[k].lockLeft = u.lockLeft
           /\ \A j \in Keys \ {k} :
                /\ quiet'[j] = quiet[j]
                /\ \/ users'[j] = users[j]
                   \/ users[j] # NoUser /\ users[j].idle > Minute /\ users'[j] = NoUser
<1> DEFINE new == [u EXCEPT !.idle = 0]
           seen == [users EXCEPT ![k] = new]
<1>1. /\ new \in User /\ new.idle = 0 /\ new # NoUser
      /\ new.Attempts = u.Attempts /\ new.lockLeft = u.lockLeft
  BY LoginAttemptAssumption DEF User, Old
<1>2. seen \in [Keys -> User \cup {NoUser}] /\ seen[k] = new
  BY <1>1 DEF TypeOK
<1>3. \A j \in Keys \ {k} : seen[j] = users[j]
  BY DEF TypeOK
<1>4. users' = Fresh(seen) \/ users' = seen
  BY DEF Touch
<1>5. /\ Fresh(seen) \in [Keys -> User \cup {NoUser}]
      /\ Fresh(seen)[k] = new
      /\ \A j \in Keys \ {k} :
            \/ Fresh(seen)[j] = users[j]
            \/ users[j] # NoUser /\ users[j].idle > Minute /\ Fresh(seen)[j] = NoUser
  <2> HIDE DEF new, seen
  <2> QED  BY <1>1, <1>2, <1>3, LoginAttemptAssumption DEF Fresh
<1>6. sinceCleanUp' \in 0..Old /\ quiet' = [quiet EXCEPT ![k] = 0]
  BY LoginAttemptAssumption DEF Touch, TypeOK, Old
<1>7. /\ quiet' \in [Keys -> 0..Old] /\ quiet'[k] = 0
      /\ \A j \in Keys \ {k} : quiet'[j] = quiet[j]
  BY <1>6, LoginAttemptAssumption DEF TypeOK, Old
<1> HIDE DEF new, seen
<1> QED  BY <1>1, <1>2, <1>3, <1>4, <1>5, <1>6, <1>7

\* A failed attempt: one more counted, or a lock and a count of none.
LEMMA FailedType ==
    ASSUME NEW u \in User
    PROVE  /\ Failed(u) \in User
           /\ \/ /\ Failed(u).Attempts = u.Attempts + 1
                 /\ Failed(u).lockLeft = u.lockLeft
              \/ /\ Failed(u).Attempts = 0
                 /\ Failed(u).lockLeft > 0
<1>1. CASE u.Attempts + 1 < Max
  <2>1. Failed(u) = [u EXCEPT !.Attempts = u.Attempts + 1]
    BY <1>1 DEF Failed
  <2>2. u.Attempts + 1 \in 0..(Max - 1)
    BY <1>1, LoginAttemptAssumption DEF User
  <2>3. ASSUME NEW a \in 0..(Max - 1)
        PROVE  LET v == [u EXCEPT !.Attempts = a]
               IN  v \in User /\ v.Attempts = a /\ v.lockLeft = u.lockLeft
    BY DEF User
  <2> QED  BY <2>1, <2>2, <2>3
<1>2. CASE ~(u.Attempts + 1 < Max)
  <2> DEFINE d == IF u.LockDuration = ShortLock THEN LongLock ELSE ShortLock
             v == [u EXCEPT !.Attempts = 0, !.LockDuration = d, !.lockLeft = d]
  <2>1. Failed(u) = v
    BY <1>2, Zenon DEF Failed
  <2>2. d \in {ShortLock, LongLock} /\ d \in 0..LongLock /\ d > 0 /\ 0 \in 0..(Max - 1)
    BY LoginAttemptAssumption DEF LongLock, ShortLock
  <2> HIDE DEF d
  <2>3. v \in User /\ v.Attempts = 0 /\ v.lockLeft = d
    BY <2>2 DEF User
  <2> HIDE DEF v
  <2> QED  BY <2>1, <2>2, <2>3
<1> QED  BY <1>1, <1>2

LEMMA NotFailedType ==
    ASSUME NEW u \in User
    PROVE  NotFailed(u) \in User /\ NotFailed(u).lockLeft = u.lockLeft
<1>1. 0 \in 0..(Max - 1)
  BY LoginAttemptAssumption
<1>2. ASSUME NEW a \in 0..(Max - 1), NEW d \in {0, ShortLock, LongLock}
      PROVE  LET v == [u EXCEPT !.Attempts = a, !.LockDuration = d]
             IN  v \in User /\ v.lockLeft = u.lockLeft
  BY DEF User
<1> QED  BY <1>1, <1>2 DEF NotFailed

\* An entry grows older by one tick.
LEMMA OlderType ==
    ASSUME NEW u \in User
    PROVE  LET v == [u EXCEPT !.idle = Older(@), !.lockLeft = Less(@)]
           IN  /\ v \in User
               /\ v.Attempts = u.Attempts
               /\ v.idle = Older(u.idle)
               /\ v.lockLeft = Less(u.lockLeft)
<1>1. Older(u.idle) \in 0..Old /\ Less(u.lockLeft) \in 0..LongLock
  BY LoginAttemptAssumption DEF User, Old, LongLock, Older, Less
<1>2. ASSUME NEW a \in 0..Old, NEW b \in 0..LongLock
      PROVE  LET v == [u EXCEPT !.idle = a, !.lockLeft = b]
             IN  /\ v \in User /\ v.Attempts = u.Attempts
                 /\ v.idle = a /\ v.lockLeft = b
  BY DEF User
<1> QED  BY <1>1, <1>2

-----------------------------------------------------------------------------
\* The invariant holds at the start.
LEMMA InitIInv == Init => IInv
<1> SUFFICES ASSUME Init PROVE IInv
  OBVIOUS
<1>1. TypeOK /\ AgesAgree /\ StreakCounted /\ LockKept
  BY LoginAttemptAssumption
  DEF Init, TypeOK, AgesAgree, StreakCounted, LockKept, Old, LongLock
<1>2. OverrunBounded
  BY DEF Init, OverrunBounded, Locked
<1> QED  BY <1>1, <1>2 DEF IInv

\* A goroutine takes up or gives up key k: nothing changes for other keys.
LEMMA WorkingOthers ==
    ASSUME TypeOK, NEW r \in Requests, NEW k \in Keys \cup {NoKey},
           NEW j \in Keys, j # k, inFlight[r] # j,
           inFlight' = [inFlight EXCEPT ![r] = k]
    PROVE  Working(j)' = Working(j)
  BY DEF TypeOK, Working

\* A goroutine that was working on k is free: one fewer works on k.
LEMMA WorkingEnds ==
    ASSUME TypeOK, NEW r \in Requests, NEW k \in Keys, inFlight[r] = k,
           inFlight' = [inFlight EXCEPT ![r] = NoKey]
    PROVE  /\ Working(k)' = Working(k) \ {r}
           /\ Cardinality(Working(k)) \in Nat
           /\ Cardinality(Working(k)') = Cardinality(Working(k)) - 1
           /\ Cardinality(Working(k)') < Cardinality(Requests)
           /\ Cardinality(Requests) \in Nat
<1>1. Working(k)' = Working(k) \ {r} /\ r \in Working(k)
  BY LoginAttemptAssumption DEF TypeOK, Working
<1>2. IsFiniteSet(Requests) /\ Working(k) \subseteq Requests
  BY LoginAttemptAssumption DEF Working
<1>3. IsFiniteSet(Working(k)) /\ Cardinality(Working(k)) <= Cardinality(Requests)
  BY <1>2, FS_Subset
<1>4. Cardinality(Working(k)') = Cardinality(Working(k)) - 1
  BY <1>1, <1>3, FS_RemoveElement
<1>5. Cardinality(Working(k)) \in Nat /\ Cardinality(Requests) \in Nat
  BY <1>2, <1>3, FS_CardinalityType
<1> QED  BY <1>1, <1>3, <1>4, <1>5

\* What a call for k does to the other keys: at most a sweep of those that were
\* quiet for over a minute.
LEMMA TouchOthers ==
    ASSUME TypeOK, AgesAgree, NEW k \in Keys, NEW u \in User, Touch(k, u)
    PROVE  /\ AgesAgree'
           /\ \A j \in Keys \ {k} :
                /\ quiet'[j] = quiet[j]
                /\ quiet[j] <= Minute => users'[j] = users[j]
                /\ users'[j] # NoUser => users'[j] = users[j]
<1>1. /\ users'[k] # NoUser /\ users'[k].idle = 0 /\ quiet'[k] = 0
      /\ \A j \in Keys \ {k} :
            /\ quiet'[j] = quiet[j]
            /\ \/ users'[j] = users[j]
               \/ users[j] # NoUser /\ users[j].idle > Minute /\ users'[j] = NoUser
  BY TouchEffect
<1>3. ASSUME NEW j \in Keys, users[j] # NoUser
      PROVE  users[j].idle \in 0..Old /\ quiet[j] = users[j].idle
  BY <1>3 DEF TypeOK, AgesAgree, User
<1>4. ASSUME NEW j \in Keys \ {k}
      PROVE  /\ quiet'[j] = quiet[j]
             /\ quiet[j] <= Minute => users'[j] = users[j]
             /\ users'[j] # NoUser => users'[j] = users[j]
             /\ quiet'[j] = IF users'[j] = NoUser THEN Old ELSE users'[j].idle
  <2>1. CASE users'[j] = users[j]
    BY <1>1, <2>1 DEF AgesAgree
  <2>2. CASE users[j] # NoUser /\ users[j].idle > Minute /\ users'[j] = NoUser
    <3>1. quiet[j] = Old /\ ~(quiet[j] <= Minute)
      BY <1>3, <2>2, LoginAttemptAssumption DEF Old
    <3> QED  BY <1>1, <2>2, <3>1
  <2> QED  BY <1>1, <2>1, <2>2
<1>5. AgesAgree'
  <2> SUFFICES ASSUME NEW j \in Keys
               PROVE  quiet'[j] = IF users'[j] = NoUser THEN Old ELSE users'[j].idle
    BY DEF AgesAgree
  <2> QED  BY <1>1, <1>4
<1> QED  BY <1>4, <1>5

\* A call for k that leaves the count and the lock of k alone.
LEMMA QuietCall ==
    ASSUME IInv, NEW k \in Keys, NEW u \in User, Touch(k, u), u = Entry(k),
           UNCHANGED <<owed, steady, streak, late>>
    PROVE  /\ AgesAgree' /\ StreakCounted' /\ LockKept'
           /\ \A j \in Keys : Locked(j)' => Locked(j)
<1> USE DEF IInv
<1>1. /\ users'[k] # NoUser /\ quiet'[k] = 0
      /\ users'[k].Attempts = u.Attempts /\ users'[k].lockLeft = u.lockLeft
  BY TouchEffect
<1>2. /\ AgesAgree'
      /\ \A j \in Keys \ {k} :
                /\ quiet'[j] = quiet[j]
                /\ quiet[j] <= Minute => users'[j] = users[j]
                /\ users'[j] # NoUser => users'[j] = users[j]
  BY TouchOthers
<1>4. /\ users[k] # NoUser => u = users[k]
      /\ u.lockLeft > 0 => users[k] # NoUser
  BY EntryType
<1>6. StreakCounted'
  <2> SUFFICES ASSUME NEW j \in Keys, streak[j] > 0
               PROVE  /\ users'[j] # NoUser /\ streak[j] <= users'[j].Attempts
                      /\ quiet'[j] <= Minute
    BY DEF StreakCounted
  <2>1. users[j] # NoUser /\ streak[j] <= users[j].Attempts /\ quiet[j] <= Minute
    BY DEF StreakCounted
  <2>2. CASE j = k
    BY <1>1, <1>4, <2>1, <2>2, LoginAttemptAssumption
  <2>3. CASE j # k
    BY <1>2, <2>1, <2>3
  <2> QED  BY <2>2, <2>3
<1>7. LockKept'
  <2> SUFFICES ASSUME NEW j \in Keys, owed[j] > 0, steady[j]
               PROVE  /\ users'[j] # NoUser /\ users'[j].lockLeft = owed[j]
                      /\ quiet'[j] <= Minute
    BY DEF LockKept
  <2>1. users[j] # NoUser /\ users[j].lockLeft = owed[j] /\ quiet[j] <= Minute
    BY DEF LockKept
  <2>2. CASE j = k
    BY <1>1, <1>4, <2>1, <2>2, LoginAttemptAssumption
  <2>3. CASE j # k
    BY <1>2, <2>1, <2>3
  <2> QED  BY <2>2, <2>3
<1>8. ASSUME NEW j \in Keys, Locked(j)' PROVE Locked(j)
  BY <1>1, <1>2, <1>4, <1>8 DEF Locked
<1> QED  BY <1>2, <1>6, <1>7, <1>8

-----------------------------------------------------------------------------
(* Every action keeps the invariant.                                         *)

\* An admitted call: its key is not locked, and stays so.
LEMMA AdmitKeeps ==
    ASSUME IInv, NEW r \in Requests, NEW k \in Keys, Admit(r, k)
    PROVE  IInv'
<1> USE DEF IInv
<1>1. Entry(k) \in User
  BY EntryType
<1>2. AgesAgree' /\ StreakCounted' /\ LockKept' /\ \A j \in Keys : Locked(j)' => Locked(j)
  BY <1>1, QuietCall DEF Admit
<1>3. TypeOK'
  BY <1>1, TouchEffect DEF Admit, TypeOK
<1>4. OverrunBounded'
  <2> SUFFICES ASSUME NEW j \in Keys, Locked(j)'
               PROVE  late[j] + Cardinality(Working(j)') < Cardinality(Requests)
    BY DEF Admit, OverrunBounded
  <2>1. Locked(j)
    BY <1>2
  <2>2. j # k
    BY <2>1, EntryType DEF Admit, Locked
  <2>3. inFlight[r] # j
    BY LoginAttemptAssumption DEF Admit
  <2>4. Working(j)' = Working(j)
    BY <2>2, <2>3, WorkingOthers DEF Admit
  <2> QED  BY <2>1, <2>4 DEF OverrunBounded
<1> QED  BY <1>2, <1>3, <1>4

\* A refused call.
LEMMA DenyKeeps ==
    ASSUME IInv, NEW r \in Requests, NEW k \in Keys, Deny(r, k)
    PROVE  IInv'
<1> USE DEF IInv
<1>1. Entry(k) \in User
  BY EntryType
<1>2. AgesAgree' /\ StreakCounted' /\ LockKept' /\ \A j \in Keys : Locked(j)' => Locked(j)
  BY <1>1, QuietCall DEF Deny
<1>3. TypeOK'
  BY <1>1, TouchEffect DEF Deny, TypeOK
<1>4. OverrunBounded'
  BY <1>2 DEF Deny, OverrunBounded, Working
<1> QED  BY <1>2, <1>3, <1>4

\* A recorded failure: counted, or turned into a lock that starts with no
\* failure recorded under it and one goroutine fewer at work on the key.
LEMMA RecordFailureKeeps ==
    ASSUME IInv, NEW r \in Requests, RecordFailure(r)
    PROVE  IInv'
<1> USE DEF IInv
<1>1. PICK k \in Keys : k = inFlight[r]
  BY DEF RecordFailure, TypeOK
<1> DEFINE old == Entry(k)
           new == Failed(old)
           locks == new.Attempts = 0 /\ new.lockLeft > 0
<1>2. /\ old \in User
      /\ old.lockLeft > 0 => users[k] # NoUser
      /\ users[k] # NoUser => old = users[k]
  BY <1>1, EntryType
<1>3. /\ new \in User
      /\ \/ new.Attempts = old.Attempts + 1 /\ new.lockLeft = old.lockLeft
         \/ locks
  BY <1>2, FailedType
<1>4. /\ Touch(k, new)
      /\ inFlight' = [inFlight EXCEPT ![r] = NoKey]
      /\ owed' = [owed EXCEPT ![k] = IF locks THEN new.lockLeft ELSE @]
      /\ steady' = [steady EXCEPT ![k] = locks \/ @]
      /\ streak' = [streak EXCEPT ![k] = IF locks THEN 0 ELSE @ + 1]
      /\ late' = [late EXCEPT ![k] = IF locks THEN 0 ELSE IF Locked(k) THEN @ + 1 ELSE @]
      /\ UNCHANGED restarts
  BY <1>1 DEF RecordFailure
<1> HIDE DEF old, new
<1>5. /\ users'[k] # NoUser /\ quiet'[k] = 0
      /\ users'[k].Attempts = new.Attempts /\ users'[k].lockLeft = new.lockLeft
  BY <1>1, <1>3, <1>4, TouchEffect
<1>6. /\ AgesAgree'
      /\ \A j \in Keys \ {k} :
                /\ quiet'[j] = quiet[j]
                /\ quiet[j] <= Minute => users'[j] = users[j]
                /\ users'[j] # NoUser => users'[j] = users[j]
  BY <1>1, <1>3, <1>4, TouchOthers
<1>7. old.Attempts \in Nat /\ old.lockLeft \in Nat /\ new.lockLeft \in 0..LongLock
  BY <1>2, <1>3, LoginAttemptAssumption DEF User, LongLock
<1>8. TypeOK'
  <2>1. users' \in [Keys -> User \cup {NoUser}] /\ sinceCleanUp' \in 0..Old
        /\ quiet' \in [Keys -> 0..Old]
    BY <1>1, <1>3, <1>4, TouchEffect
  <2>2. inFlight' \in [Requests -> Keys \cup {NoKey}] /\ restarts' \in 0..MaxRestarts
    BY <1>4 DEF TypeOK
  <2>3. owed' \in [Keys -> 0..LongLock]
    BY <1>4, <1>7 DEF TypeOK
  <2>4. steady' \in [Keys -> BOOLEAN]
    BY <1>4 DEF TypeOK
  <2>5. streak' \in [Keys -> Nat]
    BY <1>4 DEF TypeOK
  <2> DEFINE n == IF locks THEN 0 ELSE IF Locked(k) THEN late[k] + 1 ELSE late[k]
  <2>6. n \in Nat /\ late' = [late EXCEPT ![k] = n]
    <3>1. late[k] \in Nat
      BY DEF TypeOK
    <3>2. n \in Nat
      BY <3>1
    <3> QED  BY <1>4, <3>2
  <2> HIDE DEF n
  <2>7. late' \in [Keys -> Nat]
    BY <2>6 DEF TypeOK
  <2> QED  BY <2>1, <2>2, <2>3, <2>4, <2>5, <2>7 DEF TypeOK
<1>9. ASSUME NEW j \in Keys \ {k}
      PROVE  /\ owed'[j] = owed[j] /\ steady'[j] = steady[j]
             /\ streak'[j] = streak[j] /\ late'[j] = late[j]
  BY <1>4 DEF TypeOK
<1>10. /\ owed'[k] = IF locks THEN new.lockLeft ELSE owed[k]
       /\ steady'[k] = (locks \/ steady[k])
       /\ streak'[k] = IF locks THEN 0 ELSE streak[k] + 1
       /\ late'[k] = IF locks THEN 0 ELSE IF Locked(k) THEN late[k] + 1 ELSE late[k]
  BY <1>1, <1>4 DEF TypeOK
<1>11. StreakCounted'
  <2> SUFFICES ASSUME NEW j \in Keys, streak'[j] > 0
               PROVE  /\ users'[j] # NoUser /\ streak'[j] <= users'[j].Attempts
                      /\ quiet'[j] <= Minute
    BY DEF StreakCounted
  <2>1. CASE j # k
    BY <1>6, <1>9, <2>1 DEF StreakCounted
  <2>2. CASE j = k
    <3>1. ~locks /\ streak'[k] = streak[k] + 1 /\ new.Attempts = old.Attempts + 1
      BY <1>3, <1>10, <2>2
    <3>2. streak[k] \in Nat /\ streak[k] <= old.Attempts
      BY <1>1, <1>2, <1>7 DEF TypeOK, StreakCounted
    <3> QED  BY <1>5, <1>7, <2>2, <3>1, <3>2, LoginAttemptAssumption
  <2> QED  BY <2>1, <2>2
<1>12. LockKept'
  <2> SUFFICES ASSUME NEW j \in Keys, owed'[j] > 0, steady'[j]
               PROVE  /\ users'[j] # NoUser /\ users'[j].lockLeft = owed'[j]
                      /\ quiet'[j] <= Minute
    BY DEF LockKept
  <2>1. CASE j # k
    BY <1>6, <1>9, <2>1 DEF LockKept
  <2>2. CASE j = k /\ locks
    BY <1>5, <1>10, <2>2, LoginAttemptAssumption
  <2>3. CASE j = k /\ ~locks
    <3>1. owed[k] > 0 /\ steady[k] /\ owed'[k] = owed[k]
      BY <1>10, <2>3
    <3>2. users[k] # NoUser /\ users[k].lockLeft = owed[k]
      BY <1>1, <3>1 DEF LockKept
    <3> QED  BY <1>2, <1>3, <1>5, <2>3, <3>1, <3>2, LoginAttemptAssumption
  <2> QED  BY <2>1, <2>2, <2>3
<1>13. OverrunBounded'
  <2> SUFFICES ASSUME NEW j \in Keys, Locked(j)'
               PROVE  late'[j] + Cardinality(Working(j)') < Cardinality(Requests)
    BY DEF OverrunBounded
  <2>1. CASE j # k
    <3>1. Working(j)' = Working(j)
      BY <1>1, <1>4, <2>1, WorkingOthers, LoginAttemptAssumption
    <3>2. Locked(j)
      BY <1>6, <2>1 DEF Locked
    <3> QED  BY <1>9, <2>1, <3>1, <3>2 DEF OverrunBounded
  <2>2. CASE j = k
    <3>1. /\ Cardinality(Working(k)) \in Nat /\ Cardinality(Requests) \in Nat
          /\ Cardinality(Working(k)') = Cardinality(Working(k)) - 1
          /\ Cardinality(Working(k)') < Cardinality(Requests)
      BY <1>1, <1>4, WorkingEnds
    <3>2. CASE locks
      BY <1>10, <2>2, <3>1, <3>2
    <3>3. CASE ~locks
      <4>1. Locked(k)
        BY <1>2, <1>3, <1>5, <2>2, <3>3 DEF Locked
      <4>2. late[k] + Cardinality(Working(k)) < Cardinality(Requests) /\ late[k] \in Nat
        BY <1>1, <4>1 DEF OverrunBounded, TypeOK
      <4> QED  BY <1>10, <2>2, <3>1, <3>3, <4>1, <4>2
    <3> QED  BY <3>2, <3>3
  <2> QED  BY <2>1, <2>2
<1> QED  BY <1>6, <1>8, <1>11, <1>12, <1>13

\* A recorded success, or any other answer: the lock is left alone.
LEMMA RecordOtherKeeps ==
    ASSUME IInv, NEW r \in Requests, RecordOther(r)
    PROVE  IInv'
<1> USE DEF IInv
<1>1. PICK k \in Keys : k = inFlight[r]
  BY DEF RecordOther, TypeOK
<1> DEFINE old == Entry(k)
           new == NotFailed(old)
<1>2. /\ old \in User
      /\ old.lockLeft > 0 => users[k] # NoUser
      /\ users[k] # NoUser => old = users[k]
  BY <1>1, EntryType
<1>3. new \in User /\ new.lockLeft = old.lockLeft
  BY <1>2, NotFailedType
<1>4. /\ Touch(k, new)
      /\ inFlight' = [inFlight EXCEPT ![r] = NoKey]
      /\ streak' = [streak EXCEPT ![k] = 0]
      /\ UNCHANGED <<restarts, owed, steady, late>>
  BY <1>1 DEF RecordOther
<1> HIDE DEF old, new
<1>5. users'[k] # NoUser /\ quiet'[k] = 0 /\ users'[k].lockLeft = new.lockLeft
  BY <1>1, <1>3, <1>4, TouchEffect
<1>6. /\ AgesAgree'
      /\ \A j \in Keys \ {k} :
                /\ quiet'[j] = quiet[j]
                /\ quiet[j] <= Minute => users'[j] = users[j]
                /\ users'[j] # NoUser => users'[j] = users[j]
  BY <1>1, <1>3, <1>4, TouchOthers
<1>7. TypeOK'
  <2>1. users' \in [Keys -> User \cup {NoUser}] /\ sinceCleanUp' \in 0..Old
        /\ quiet' \in [Keys -> 0..Old]
    BY <1>1, <1>3, <1>4, TouchEffect
  <2> QED  BY <1>4, <2>1 DEF TypeOK
<1>8. StreakCounted'
  <2> SUFFICES ASSUME NEW j \in Keys, streak'[j] > 0
               PROVE  /\ users'[j] # NoUser /\ streak'[j] <= users'[j].Attempts
                      /\ quiet'[j] <= Minute
    BY DEF StreakCounted
  <2>1. j # k /\ streak'[j] = streak[j]
    BY <1>4 DEF TypeOK
  <2> QED  BY <1>6, <2>1 DEF StreakCounted
<1>9. LockKept'
  <2> SUFFICES ASSUME NEW j \in Keys, owed[j] > 0, steady[j]
               PROVE  /\ users'[j] # NoUser /\ users'[j].lockLeft = owed[j]
                      /\ quiet'[j] <= Minute
    BY <1>4 DEF LockKept
  <2>1. CASE j # k
    BY <1>6, <2>1 DEF LockKept
  <2>2. CASE j = k
    BY <1>2, <1>3, <1>5, <2>2, LoginAttemptAssumption DEF LockKept
  <2> QED  BY <2>1, <2>2
<1>10. OverrunBounded'
  <2> SUFFICES ASSUME NEW j \in Keys, Locked(j)'
               PROVE  late[j] + Cardinality(Working(j)') < Cardinality(Requests)
    BY <1>4 DEF OverrunBounded
  <2>1. CASE j # k
    <3>1. Working(j)' = Working(j)
      BY <1>1, <1>4, <2>1, WorkingOthers, LoginAttemptAssumption
    <3>2. Locked(j)
      BY <1>6, <2>1 DEF Locked
    <3> QED  BY <3>1, <3>2 DEF OverrunBounded
  <2>2. CASE j = k
    <3>1. /\ Cardinality(Working(k)) \in Nat /\ Cardinality(Requests) \in Nat
          /\ Cardinality(Working(k)') = Cardinality(Working(k)) - 1
      BY <1>1, <1>4, WorkingEnds
    <3>2. Locked(k)
      BY <1>2, <1>3, <1>5, <2>2 DEF Locked
    <3>3. late[k] + Cardinality(Working(k)) < Cardinality(Requests) /\ late[k] \in Nat
      BY <1>1, <3>2 DEF OverrunBounded, TypeOK
    <3> QED  BY <2>2, <3>1, <3>3
  <2> QED  BY <2>1, <2>2
<1> QED  BY <1>6, <1>7, <1>8, <1>9, <1>10

\* A goroutine gives up its key with the histories as they were: the bound on
\* the overrun stays, if no key becomes locked.
LEMMA AbandonKeepsOverrun ==
    ASSUME IInv, NEW r \in Requests, inFlight[r] # NoKey,
           inFlight' = [inFlight EXCEPT ![r] = NoKey], UNCHANGED late,
           \A j \in Keys : Locked(j)' => Locked(j)
    PROVE  OverrunBounded'
<1> USE DEF IInv
<1>1. PICK k \in Keys : k = inFlight[r]
  BY DEF TypeOK
<1> SUFFICES ASSUME NEW j \in Keys, Locked(j)
             PROVE  late[j] + Cardinality(Working(j)') < Cardinality(Requests)
  BY DEF OverrunBounded
<1>2. late[j] + Cardinality(Working(j)) < Cardinality(Requests) /\ late[j] \in Nat
  BY DEF OverrunBounded, TypeOK
<1>3. CASE j # k
  <2>1. Working(j)' = Working(j)
    BY <1>1, <1>3, WorkingOthers, LoginAttemptAssumption
  <2> QED  BY <1>2, <2>1
<1>4. CASE j = k
  <2>1. /\ Cardinality(Working(k)) \in Nat /\ Cardinality(Requests) \in Nat
        /\ Cardinality(Working(k)') = Cardinality(Working(k)) - 1
    BY <1>1, WorkingEnds
  <2> QED  BY <1>2, <1>4, <2>1
<1> QED  BY <1>3, <1>4

\* The query of IncreaseAttempt fails: at most an unused entry is made.
LEMMA RecordingFailsKeeps ==
    ASSUME IInv, NEW r \in Requests, RecordingFails(r)
    PROVE  IInv'
<1> USE DEF IInv
<1>1. PICK k \in Keys : k = inFlight[r]
  BY DEF RecordingFails, TypeOK
<1>2. /\ users' = [users EXCEPT ![k] = Entry(k)]
      /\ inFlight' = [inFlight EXCEPT ![r] = NoKey]
      /\ UNCHANGED <<sinceCleanUp, restarts, owed, quiet, steady, streak, late>>
  BY <1>1 DEF RecordingFails, history
<1>3. /\ Entry(k) \in User
      /\ Entry(k).lockLeft > 0 => users[k] # NoUser
      /\ users[k] # NoUser => Entry(k) = users[k]
      /\ users[k] = NoUser => Entry(k).idle = Old
  <2>1. users[k] = NoUser => Entry(k).idle = Old
    BY DEF Entry, NewUser
  <2> QED  BY <2>1, EntryType
<1>4. TypeOK'
  BY <1>2, <1>3 DEF TypeOK
<1>5. users'[k] = Entry(k) /\ users'[k] # NoUser /\ \A j \in Keys \ {k} : users'[j] = users[j]
  BY <1>2, <1>3, LoginAttemptAssumption DEF TypeOK
<1>6. AgesAgree'
  BY <1>2, <1>3, <1>5 DEF AgesAgree
<1>7. StreakCounted' /\ LockKept'
  BY <1>2, <1>3, <1>5 DEF StreakCounted, LockKept
<1>8. \A j \in Keys : Locked(j)' => Locked(j)
  BY <1>3, <1>5 DEF Locked
<1>9. OverrunBounded'
  BY <1>1, <1>2, <1>8, AbandonKeepsOverrun, LoginAttemptAssumption
<1> QED  BY <1>4, <1>6, <1>7, <1>9

\* The handler's error is passed on: nothing is recorded.
LEMMA HandlerErrorKeeps ==
    ASSUME IInv, NEW r \in Requests, HandlerError(r)
    PROVE  IInv'
<1> USE DEF IInv
<1>1. /\ inFlight' = [inFlight EXCEPT ![r] = NoKey] /\ inFlight[r] # NoKey
      /\ UNCHANGED <<users, sinceCleanUp, restarts, owed, quiet, steady, streak, late>>
  BY DEF HandlerError, store, history
<1>2. TypeOK' /\ AgesAgree' /\ StreakCounted' /\ LockKept'
  BY <1>1 DEF TypeOK, AgesAgree, StreakCounted, LockKept
<1>3. OverrunBounded'
  BY <1>1, AbandonKeepsOverrun DEF Locked
<1> QED  BY <1>2, <1>3

\* Time passes: runs of failures and steady locks end with a pause of a minute,
\* and a lock counts down in the map as it does on the clock.
LEMMA TickKeeps ==
    ASSUME IInv, Tick
    PROVE  IInv'
<1> USE DEF IInv
<1>1. ASSUME NEW k \in Keys
      PROVE  /\ users'[k] \in User \cup {NoUser}
             /\ users[k] = NoUser <=> users'[k] = NoUser
             /\ users[k] # NoUser => /\ users[k] \in User
                                     /\ users'[k].Attempts = users[k].Attempts
                                     /\ users'[k].idle = Older(users[k].idle)
                                     /\ users'[k].lockLeft = Less(users[k].lockLeft)
  <2>1. CASE users[k] = NoUser
    BY <2>1 DEF Tick
  <2>2. CASE users[k] # NoUser
    <3> DEFINE v == [users[k] EXCEPT !.idle = Older(@), !.lockLeft = Less(@)]
    <3>1. users[k] \in User
      BY <2>2 DEF TypeOK
    <3>2. users'[k] = v
      BY <2>2 DEF Tick
    <3>3. /\ v \in User /\ v.Attempts = users[k].Attempts
          /\ v.idle = Older(users[k].idle) /\ v.lockLeft = Less(users[k].lockLeft)
      BY <3>1, OlderType
    <3> HIDE DEF v
    <3> QED  BY <2>2, <3>1, <3>2, <3>3, LoginAttemptAssumption
  <2> QED  BY <2>1, <2>2
<1>2. ASSUME NEW k \in Keys
      PROVE  /\ owed'[k] = Less(owed[k]) /\ quiet'[k] = Older(quiet[k])
             /\ steady'[k] = (steady[k] /\ owed[k] > 1 /\ quiet[k] < Minute)
             /\ streak'[k] = IF quiet[k] >= Minute THEN 0 ELSE streak[k]
             /\ late'[k] = IF owed[k] <= 1 THEN 0 ELSE late[k]
  BY DEF Tick
<1>3. ASSUME NEW k \in Keys
      PROVE  /\ owed[k] \in 0..LongLock /\ quiet[k] \in 0..Old /\ streak[k] \in Nat
             /\ late[k] \in Nat /\ Minute \in Nat
  BY LoginAttemptAssumption DEF TypeOK
<1>4. TypeOK'
  <2>1. users' \in [Keys -> User \cup {NoUser}]
    BY <1>1 DEF Tick
  <2>2. sinceCleanUp' \in 0..Old
    <3>1. sinceCleanUp \in 0..Old /\ sinceCleanUp' = Older(sinceCleanUp)
      BY DEF Tick, TypeOK
    <3> QED  BY <3>1, LoginAttemptAssumption DEF Older, Old
  <2>3. owed' \in [Keys -> 0..LongLock]
    <3>1. \A k \in Keys : Less(owed[k]) \in 0..LongLock
      BY <1>3, LoginAttemptAssumption DEF Less, LongLock
    <3> QED  BY <3>1 DEF Tick
  <2>4. quiet' \in [Keys -> 0..Old]
    <3>1. \A k \in Keys : Older(quiet[k]) \in 0..Old
      BY <1>3, LoginAttemptAssumption DEF Older, Old
    <3> QED  BY <3>1 DEF Tick
  <2>5. steady' \in [Keys -> BOOLEAN] /\ streak' \in [Keys -> Nat] /\ late' \in [Keys -> Nat]
    <3>1. steady' \in [Keys -> BOOLEAN]
      BY DEF Tick
    <3>2. \A k \in Keys : (IF quiet[k] >= Minute THEN 0 ELSE streak[k]) \in Nat
      BY <1>3
    <3>3. \A k \in Keys : (IF owed[k] <= 1 THEN 0 ELSE late[k]) \in Nat
      BY <1>3
    <3> QED  BY <3>1, <3>2, <3>3 DEF Tick
  <2>6. inFlight' = inFlight /\ restarts' = restarts
    BY DEF Tick
  <2> QED  BY <2>1, <2>2, <2>3, <2>4, <2>5, <2>6 DEF TypeOK
<1>5. AgesAgree'
  <2> SUFFICES ASSUME NEW k \in Keys
               PROVE  quiet'[k] = IF users'[k] = NoUser THEN Old ELSE users'[k].idle
    BY DEF AgesAgree
  <2>1. quiet[k] = IF users[k] = NoUser THEN Old ELSE users[k].idle
    BY DEF AgesAgree
  <2> QED  BY <1>1, <1>2, <2>1, LoginAttemptAssumption DEF Older, Old
<1>6. StreakCounted'
  <2> SUFFICES ASSUME NEW k \in Keys, streak'[k] > 0
               PROVE  /\ users'[k] # NoUser /\ streak'[k] <= users'[k].Attempts
                      /\ quiet'[k] <= Minute
    BY DEF StreakCounted
  <2>1. quiet[k] < Minute /\ streak'[k] = streak[k]
    BY <1>2, <1>3
  <2>2. users[k] # NoUser /\ streak[k] <= users[k].Attempts
    BY <2>1 DEF StreakCounted
  <2> QED  BY <1>1, <1>2, <1>3, <2>1, <2>2 DEF Older, Old
<1>7. LockKept'
  <2> SUFFICES ASSUME NEW k \in Keys, owed'[k] > 0, steady'[k]
               PROVE  /\ users'[k] # NoUser /\ users'[k].lockLeft = owed'[k]
                      /\ quiet'[k] <= Minute
    BY DEF LockKept
  <2>1. steady[k] /\ owed[k] > 1 /\ quiet[k] < Minute
    BY <1>2
  <2>2. users[k] # NoUser /\ users[k].lockLeft = owed[k]
    BY <1>3, <2>1 DEF LockKept
  <2> QED  BY <1>1, <1>2, <1>3, <2>1, <2>2 DEF Older, Old
<1>8. OverrunBounded'
  <2> SUFFICES ASSUME NEW k \in Keys, Locked(k)'
               PROVE  late'[k] + Cardinality(Working(k)') < Cardinality(Requests)
    BY DEF OverrunBounded
  <2>1. Locked(k)
    BY <1>1, LoginAttemptAssumption DEF Locked, Less, User, LongLock
  <2>2. Working(k)' = Working(k)
    BY DEF Working, Tick
  <2>3. IsFiniteSet(Working(k)) /\ IsFiniteSet(Requests)
    BY FS_Subset, LoginAttemptAssumption DEF Working
  <2>4. Cardinality(Working(k)) \in Nat /\ Cardinality(Requests) \in Nat
    BY <2>3, FS_CardinalityType
  <2>5. late[k] + Cardinality(Working(k)) < Cardinality(Requests)
    BY <2>1 DEF OverrunBounded
  <2>6. late'[k] = 0 \/ late'[k] = late[k]
    BY <1>2
  <2> QED  BY <1>3, <2>2, <2>4, <2>5, <2>6
<1> QED  BY <1>4, <1>5, <1>6, <1>7, <1>8

\* A restart empties the map and forgets the histories.
LEMMA RestartKeeps ==
    ASSUME IInv, Restart
    PROVE  IInv'
<1>1. TypeOK'
  BY LoginAttemptAssumption DEF IInv, TypeOK, Restart, Old, LongLock
<1>2. AgesAgree' /\ StreakCounted' /\ LockKept' /\ OverrunBounded'
  BY DEF Restart, AgesAgree, StreakCounted, LockKept, OverrunBounded, Locked
<1> QED  BY <1>1, <1>2 DEF IInv

-----------------------------------------------------------------------------
\* No step of it leaves IInv.
LEMMA NextIInv == IInv /\ [Next]_vars => IInv'
<1> SUFFICES ASSUME IInv, [Next]_vars PROVE IInv'
  OBVIOUS
<1>1. ASSUME NEW r \in Requests, NEW k \in Keys, Admit(r, k) PROVE IInv'
  BY <1>1, AdmitKeeps
<1>2. ASSUME NEW r \in Requests, NEW k \in Keys, Deny(r, k) PROVE IInv'
  BY <1>2, DenyKeeps
<1>3. ASSUME NEW r \in Requests, RecordFailure(r) PROVE IInv'
  BY <1>3, RecordFailureKeeps
<1>4. ASSUME NEW r \in Requests, RecordOther(r) PROVE IInv'
  BY <1>4, RecordOtherKeeps
<1>5. ASSUME NEW r \in Requests, RecordingFails(r) PROVE IInv'
  BY <1>5, RecordingFailsKeeps
<1>6. ASSUME NEW r \in Requests, HandlerError(r) PROVE IInv'
  BY <1>6, HandlerErrorKeeps
<1>7. CASE Tick
  BY <1>7, TickKeeps
<1>8. CASE Restart
  BY <1>8, RestartKeeps
<1>9. CASE UNCHANGED vars
  BY <1>9 DEF vars, IInv, TypeOK, AgesAgree, StreakCounted, LockKept, OverrunBounded,
              Locked, Working
<1> QED  BY <1>1, <1>2, <1>3, <1>4, <1>5, <1>6, <1>7, <1>8, <1>9 DEF Next

\* IInv is an invariant of the limiter.
THEOREM Invariant == Spec => []IInv
  BY InitIInv, NextIInv, PTL DEF Spec

\* The state of the limiter has its type: no counter reaches Max, no age or
\* lock leaves its range.
THEOREM TypeCorrect == Spec => []TypeOK
  BY Invariant, PTL DEF IInv

\* Max failures in a row, none of them a minute after the one before, lock the
\* key, for every Max and every number of keys and goroutines.
THEOREM FailuresAlwaysLock == Spec => []FailuresLock
<1>1. IInv => FailuresLock
  <2> SUFFICES ASSUME IInv, NEW k \in Keys PROVE streak[k] < Max
    BY DEF FailuresLock
  <2>1. streak[k] \in Nat /\ (users[k] # NoUser => users[k].Attempts \in 0..(Max - 1))
    BY DEF IInv, TypeOK, User
  <2>2. streak[k] > 0 => users[k] # NoUser /\ streak[k] <= users[k].Attempts
    BY DEF IInv, StreakCounted
  <2> QED  BY <2>1, <2>2, LoginAttemptAssumption
<1> QED  BY <1>1, Invariant, PTL

\* A client that keeps calling serves its lock in full, whatever the others do.
THEOREM LocksServed == Spec => []LockServedInFull
<1>1. IInv => LockServedInFull
  BY DEF IInv, LockKept, LockServedInFull
<1> QED  BY <1>1, Invariant, PTL

\* Under a lock fewer failures than there are goroutines can still come in.
THEOREM Overrun == Spec => []OverrunBounded
  BY Invariant, PTL DEF IInv

-----------------------------------------------------------------------------
(* IpCheck.                                                                 *)

\* The requests waiting on a counter are finitely many.
LEMMA WaitingFinite ==
    ASSUME NEW k \in Counters
    PROVE  IsFiniteSet(Waiting(k)) /\ Cardinality(Waiting(k)) \in Nat
<1>1. IsFiniteSet(Waiting(k))
  BY FS_Subset, IpCheckAssumption DEF Waiting
<1> QED  BY <1>1, FS_CardinalityType

\* A request leaves its counter: if it waited there, one fewer waits.
LEMMA WaitingEnds ==
    ASSUME IpTypeOK, NEW r \in Workers, NEW k \in Counters, pending[r] = k,
           pending' = [pending EXCEPT ![r] = NoCounter],
           current' = [current EXCEPT ![r] = FALSE]
    PROVE  /\ Cardinality(Waiting(k)') =
                  Cardinality(Waiting(k)) - (IF current[r] THEN 1 ELSE 0)
           /\ current[r] => Cardinality(Waiting(k)) > 0
           /\ \A j \in Counters \ {k} : Waiting(j)' = Waiting(j)
<1>1. ASSUME NEW j \in Counters \ {k} PROVE Waiting(j)' = Waiting(j)
  BY IpCheckAssumption DEF IpTypeOK, Waiting
<1>2. Waiting(k)' = Waiting(k) \ {r}
  BY IpCheckAssumption DEF IpTypeOK, Waiting
<1>3. r \in Waiting(k) <=> current[r]
  BY DEF Waiting
<1>4. IsFiniteSet(Waiting(k)) /\ Cardinality(Waiting(k)) \in Nat
  BY WaitingFinite
<1>5. CASE current[r]
  <2>1. Cardinality(Waiting(k)') = Cardinality(Waiting(k)) - 1
    BY <1>2, <1>3, <1>4, <1>5, FS_RemoveElement
  <2>2. Cardinality(Waiting(k)) # 0
    BY <1>3, <1>4, <1>5, FS_EmptySet
  <2> QED  BY <1>1, <1>4, <1>5, <2>1, <2>2
<1>6. CASE ~current[r]
  <2>1. Waiting(k)' = Waiting(k)
    BY <1>2, <1>3, <1>6
  <2> QED  BY <1>1, <1>4, <1>6, <2>1
<1> QED  BY <1>5, <1>6

\* A free goroutine starts to wait on k: one more waits there.
LEMMA WaitingBegins ==
    ASSUME IpTypeOK, NEW r \in Workers, NEW k \in Counters, pending[r] = NoCounter,
           pending' = [pending EXCEPT ![r] = k],
           current' = [current EXCEPT ![r] = TRUE]
    PROVE  /\ Cardinality(Waiting(k)') = Cardinality(Waiting(k)) + 1
           /\ \A j \in Counters \ {k} : Waiting(j)' = Waiting(j)
<1>1. ASSUME NEW j \in Counters \ {k} PROVE Waiting(j)' = Waiting(j)
  BY IpCheckAssumption DEF IpTypeOK, Waiting
<1>2. Waiting(k)' = Waiting(k) \cup {r} /\ r \notin Waiting(k)
  BY IpCheckAssumption DEF IpTypeOK, Waiting
<1>3. IsFiniteSet(Waiting(k))
  BY WaitingFinite
<1>4. Cardinality(Waiting(k)') = Cardinality(Waiting(k)) + 1
  BY <1>2, <1>3, FS_AddElement
<1> QED  BY <1>1, <1>4

-----------------------------------------------------------------------------
\* The invariant holds at the start.
LEMMA InitIpInv == IpInit => IpInv
<1> SUFFICES ASSUME IpInit PROVE IpInv
  OBVIOUS
<1>1. IpTypeOK /\ PassedExpires
  BY IpCheckAssumption DEF IpInit, IpTypeOK, PassedExpires
<1>2. ASSUME NEW k \in Counters PROVE Cardinality(Waiting(k)) = 0
  <2>1. Waiting(k) = {}
    BY DEF IpInit, Waiting
  <2> QED  BY <2>1, FS_EmptySet
<1>3. Accounted
  BY <1>2, IpCheckAssumption DEF IpInit, Accounted
<1> QED  BY <1>1, <1>3 DEF IpInv

(* Every action keeps the invariant.                                         *)

\* A request within MaxAttempts takes the next value and waits.
LEMMA CountKeeps ==
    ASSUME IpInv, NEW r \in Workers, NEW k \in Counters, Count(r, k)
    PROVE  IpInv'
<1> USE DEF IpInv
<1>1. IpTypeOK'
  BY IpCheckAssumption DEF Count, INCR, IpTypeOK
<1>2. /\ Cardinality(Waiting(k)') = Cardinality(Waiting(k)) + 1
      /\ \A j \in Counters \ {k} : Waiting(j)' = Waiting(j)
  BY WaitingBegins DEF Count
<1>3. Accounted'
  <2> SUFFICES ASSUME NEW j \in Counters
               PROVE  passed[j] + lost[j] + Cardinality(Waiting(j)') =
                          IF count'[j] < MaxAttempts THEN count'[j] ELSE MaxAttempts
    BY DEF Accounted, Count
  <2>1. /\ passed[j] + lost[j] + Cardinality(Waiting(j)) =
              IF count[j] < MaxAttempts THEN count[j] ELSE MaxAttempts
        /\ passed[j] \in Nat /\ lost[j] \in Nat /\ count[j] \in Nat
        /\ Cardinality(Waiting(j)) \in Nat
    BY WaitingFinite DEF Accounted, IpTypeOK
  <2>2. CASE j = k
    <3>1. count[k] < MaxAttempts /\ count'[k] = count[k] + 1
      BY IpCheckAssumption DEF Count, INCR, IpTypeOK
    <3> QED  BY <1>2, <2>1, <2>2, <3>1, IpCheckAssumption
  <2>3. CASE j # k
    <3>1. count'[j] = count[j]
      BY <2>3 DEF Count, INCR, IpTypeOK
    <3> QED  BY <1>2, <2>1, <2>3, <3>1
  <2> QED  BY <2>2, <2>3
<1>4. PassedExpires'
  BY DEF Count, PassedExpires
<1> QED  BY <1>1, <1>3, <1>4

\* A refused request only raises a counter that is full.
LEMMA RefuseKeeps ==
    ASSUME IpInv, NEW r \in Workers, NEW k \in Counters, Refuse(r, k)
    PROVE  IpInv'
<1> USE DEF IpInv
<1>1. IpTypeOK'
  BY IpCheckAssumption DEF Refuse, INCR, IpTypeOK, ipHistory
<1>2. ASSUME NEW j \in Counters
      PROVE  (IF count'[j] < MaxAttempts THEN count'[j] ELSE MaxAttempts) =
             (IF count[j] < MaxAttempts THEN count[j] ELSE MaxAttempts)
  BY IpCheckAssumption DEF Refuse, INCR, IpTypeOK
<1>3. ASSUME NEW j \in Counters PROVE Waiting(j)' = Waiting(j)
  BY DEF Refuse, Waiting, ipHistory
<1>4. Accounted'
  BY <1>2, <1>3 DEF Accounted, Refuse, ipHistory
<1>5. PassedExpires'
  BY DEF Refuse, PassedExpires, ipHistory
<1> QED  BY <1>1, <1>4, <1>5

\* A request whose INCR fails: not counted, or counted and lost.
LEMMA CountFailsKeeps ==
    ASSUME IpInv, NEW r \in Workers, NEW k \in Counters, CountFails(r, k)
    PROVE  IpInv'
<1> USE DEF IpInv
<1>1. ASSUME NEW j \in Counters PROVE Waiting(j)' = Waiting(j)
  BY DEF CountFails, Waiting
<1>2. failures' \in 0..MaxFailures
  BY IpCheckAssumption DEF CountFails, IpTypeOK
<1>3. CASE UNCHANGED <<count, lost>>
  <2>1. IpTypeOK' /\ PassedExpires'
    BY <1>2, <1>3 DEF CountFails, IpTypeOK, PassedExpires
  <2>2. Accounted'
    BY <1>1, <1>3 DEF CountFails, Accounted
  <2> QED  BY <2>1, <2>2
<1>4. CASE /\ INCR(k)
           /\ lost' = [lost EXCEPT ![k] = IF count[k] < MaxAttempts THEN @ + 1 ELSE @]
  <2>1. IpTypeOK'
    <3>1. lost' \in [Counters -> Nat]
      BY <1>4 DEF IpTypeOK
    <3>2. count' \in [Counters -> 0..(MaxAttempts + 1)]
      BY <1>4, IpCheckAssumption DEF IpTypeOK, INCR
    <3> QED  BY <1>2, <3>1, <3>2 DEF IpTypeOK, CountFails
  <2>2. ASSUME NEW j \in Counters
        PROVE  passed[j] + lost'[j] + Cardinality(Waiting(j)) =
                   IF count'[j] < MaxAttempts THEN count'[j] ELSE MaxAttempts
    <3>1. /\ passed[j] + lost[j] + Cardinality(Waiting(j)) =
                IF count[j] < MaxAttempts THEN count[j] ELSE MaxAttempts
          /\ passed[j] \in Nat /\ lost[j] \in Nat /\ count[j] \in Nat
          /\ Cardinality(Waiting(j)) \in Nat
      BY WaitingFinite DEF Accounted, IpTypeOK
    <3>2. CASE j = k
      <4>1. /\ count'[k] = IF count[k] > MaxAttempts THEN count[k] ELSE count[k] + 1
            /\ lost'[k] = IF count[k] < MaxAttempts THEN lost[k] + 1 ELSE lost[k]
        BY <1>4 DEF INCR, IpTypeOK
      <4> QED  BY <3>1, <3>2, <4>1, IpCheckAssumption
    <3>3. CASE j # k
      <4>1. count'[j] = count[j] /\ lost'[j] = lost[j]
        BY <1>4, <3>3 DEF INCR, IpTypeOK
      <4> QED  BY <3>1, <4>1
    <3> QED  BY <3>2, <3>3
  <2>3. Accounted'
    BY <1>1, <2>2 DEF Accounted, CountFails
  <2>4. PassedExpires'
    BY DEF CountFails, PassedExpires
  <2> QED  BY <2>1, <2>3, <2>4
<1> QED  BY <1>3, <1>4 DEF CountFails

\* EXPIRE of a counter that exists gives it a time to live.
LEMMA EXPIREEffect ==
    ASSUME IpTypeOK, NEW k \in Counters, EXPIRE(k)
    PROVE  /\ ttl' \in [Counters -> 0..Window]
           /\ count[k] > 0 => ttl'[k] > 0
           /\ \A j \in Counters \ {k} : ttl'[j] = ttl[j]
<1>1. ttl' = [ttl EXCEPT ![k] = IF count[k] = 0 THEN 0 ELSE Window]
  BY DEF EXPIRE
<1>2. (IF count[k] = 0 THEN 0 ELSE Window) \in 0..Window
  BY IpCheckAssumption
<1>3. ttl' \in [Counters -> 0..Window]
  BY <1>1, <1>2 DEF IpTypeOK
<1>4. count[k] > 0 => ttl'[k] > 0
  BY <1>1, IpCheckAssumption DEF IpTypeOK
<1>5. \A j \in Counters \ {k} : ttl'[j] = ttl[j]
  BY <1>1 DEF IpTypeOK
<1> QED  BY <1>3, <1>4, <1>5

\* A request that waits on a counter is one of those the counter counts.
LEMMA WaitingIsCounted ==
    ASSUME IpInv, NEW k \in Counters, Cardinality(Waiting(k)) > 0
    PROVE  count[k] > 0
<1>1. /\ passed[k] + lost[k] + Cardinality(Waiting(k)) =
             IF count[k] < MaxAttempts THEN count[k] ELSE MaxAttempts
      /\ passed[k] \in Nat /\ lost[k] \in Nat /\ count[k] \in Nat
      /\ Cardinality(Waiting(k)) \in Nat
  BY WaitingFinite DEF IpInv, Accounted, IpTypeOK
<1> QED  BY <1>1, IpCheckAssumption

\* A request passes: it stops waiting and its counter has a time to live.
LEMMA PassKeeps ==
    ASSUME IpInv, NEW r \in Workers, Pass(r)
    PROVE  IpInv'
<1> USE DEF IpInv
<1>1. PICK k \in Counters : k = pending[r]
  BY DEF Pass, IpTypeOK
<1>2. /\ EXPIRE(k)
      /\ passed' = [passed EXCEPT ![k] = IF current[r] THEN @ + 1 ELSE @]
      /\ pending' = [pending EXCEPT ![r] = NoCounter]
      /\ current' = [current EXCEPT ![r] = FALSE]
      /\ UNCHANGED <<count, lost, failures>>
  BY <1>1 DEF Pass
<1>3. /\ Cardinality(Waiting(k)') =
            Cardinality(Waiting(k)) - (IF current[r] THEN 1 ELSE 0)
      /\ current[r] => Cardinality(Waiting(k)) > 0
      /\ \A j \in Counters \ {k} : Waiting(j)' = Waiting(j)
  BY <1>1, <1>2, WaitingEnds
<1>4. /\ ttl' \in [Counters -> 0..Window]
      /\ count[k] > 0 => ttl'[k] > 0
      /\ \A j \in Counters \ {k} : ttl'[j] = ttl[j]
  BY <1>2, EXPIREEffect
<1>5. IpTypeOK'
  <2>1. passed' \in [Counters -> Nat]
    BY <1>2 DEF IpTypeOK
  <2> QED  BY <1>2, <1>4, <2>1 DEF IpTypeOK
<1>6. /\ passed'[k] = IF current[r] THEN passed[k] + 1 ELSE passed[k]
      /\ \A j \in Counters \ {k} : passed'[j] = passed[j]
  BY <1>2 DEF IpTypeOK
<1>7. ASSUME NEW j \in Counters
      PROVE  passed'[j] + lost[j] + Cardinality(Waiting(j)') =
                 IF count[j] < MaxAttempts THEN count[j] ELSE MaxAttempts
  <2>1. /\ passed[j] + lost[j] + Cardinality(Waiting(j)) =
              IF count[j] < MaxAttempts THEN count[j] ELSE MaxAttempts
        /\ passed[j] \in Nat /\ lost[j] \in Nat /\ Cardinality(Waiting(j)) \in Nat
    BY WaitingFinite DEF Accounted, IpTypeOK
  <2>2. CASE j = k
    BY <1>3, <1>6, <2>1, <2>2
  <2>3. CASE j # k
    BY <1>3, <1>6, <2>1, <2>3
  <2> QED  BY <2>2, <2>3
<1>8. Accounted'
  BY <1>2, <1>7 DEF Accounted
<1>9. PassedExpires'
  <2> SUFFICES ASSUME NEW j \in Counters, ttl'[j] = 0 PROVE passed'[j] = 0
    BY DEF PassedExpires
  <2>1. CASE j # k
    BY <1>4, <1>6, <2>1 DEF PassedExpires
  <2>2. CASE j = k
    <3>1. ~(count[k] > 0)
      BY <1>4, <2>2
    <3>2. ~current[r]
      BY <1>3, <3>1, WaitingIsCounted
    <3>3. passed[k] = 0
      <4>1. /\ passed[k] + lost[k] + Cardinality(Waiting(k)) =
                  IF count[k] < MaxAttempts THEN count[k] ELSE MaxAttempts
            /\ passed[k] \in Nat /\ lost[k] \in Nat /\ count[k] \in Nat
            /\ Cardinality(Waiting(k)) \in Nat
        BY WaitingFinite DEF Accounted, IpTypeOK
      <4> QED  BY <3>1, <4>1, IpCheckAssumption
    <3> QED  BY <1>6, <2>2, <3>2, <3>3
  <2> QED  BY <2>1, <2>2
<1> QED  BY <1>5, <1>8, <1>9

\* A request whose EXPIRE fails is lost, whether Redis ran it or not.
LEMMA PassFailsKeeps ==
    ASSUME IpInv, NEW r \in Workers, PassFails(r)
    PROVE  IpInv'
<1> USE DEF IpInv
<1>1. PICK k \in Counters : k = pending[r]
  BY DEF PassFails, IpTypeOK
<1>2. /\ EXPIRE(k) \/ UNCHANGED ttl
      /\ lost' = [lost EXCEPT ![k] = IF current[r] THEN @ + 1 ELSE @]
      /\ pending' = [pending EXCEPT ![r] = NoCounter]
      /\ current' = [current EXCEPT ![r] = FALSE]
      /\ UNCHANGED <<count, passed>>
  BY <1>1 DEF PassFails
<1>3. /\ Cardinality(Waiting(k)') =
            Cardinality(Waiting(k)) - (IF current[r] THEN 1 ELSE 0)
      /\ current[r] => Cardinality(Waiting(k)) > 0
      /\ \A j \in Counters \ {k} : Waiting(j)' = Waiting(j)
  BY <1>1, <1>2, WaitingEnds
<1>4. /\ ttl' \in [Counters -> 0..Window]
      /\ ttl'[k] = ttl[k] \/ (count[k] > 0 => ttl'[k] > 0)
      /\ \A j \in Counters \ {k} : ttl'[j] = ttl[j]
  BY <1>2, EXPIREEffect DEF IpTypeOK
<1>5. IpTypeOK'
  <2>1. lost' \in [Counters -> Nat]
    BY <1>2 DEF IpTypeOK
  <2>2. failures' \in 0..MaxFailures
    BY IpCheckAssumption DEF PassFails, IpTypeOK
  <2> QED  BY <1>2, <1>4, <2>1, <2>2 DEF IpTypeOK
<1>6. /\ lost'[k] = IF current[r] THEN lost[k] + 1 ELSE lost[k]
      /\ \A j \in Counters \ {k} : lost'[j] = lost[j]
  BY <1>2 DEF IpTypeOK
<1>7. ASSUME NEW j \in Counters
      PROVE  passed[j] + lost'[j] + Cardinality(Waiting(j)') =
                 IF count[j] < MaxAttempts THEN count[j] ELSE MaxAttempts
  <2>1. /\ passed[j] + lost[j] + Cardinality(Waiting(j)) =
              IF count[j] < MaxAttempts THEN count[j] ELSE MaxAttempts
        /\ passed[j] \in Nat /\ lost[j] \in Nat /\ Cardinality(Waiting(j)) \in Nat
    BY WaitingFinite DEF Accounted, IpTypeOK
  <2>2. CASE j = k
    BY <1>3, <1>6, <2>1, <2>2
  <2>3. CASE j # k
    BY <1>3, <1>6, <2>1, <2>3
  <2> QED  BY <2>2, <2>3
<1>8. Accounted'
  BY <1>2, <1>7 DEF Accounted
<1>9. PassedExpires'
  <2> SUFFICES ASSUME NEW j \in Counters, ttl'[j] = 0 PROVE passed[j] = 0
    BY <1>2 DEF PassedExpires
  <2>1. CASE ttl'[j] = ttl[j]
    BY <2>1 DEF PassedExpires
  <2>2. CASE ttl'[j] # ttl[j]
    <3>1. j = k /\ ~(count[k] > 0)
      BY <1>4, <2>2
    <3>2. /\ passed[k] + lost[k] + Cardinality(Waiting(k)) =
                IF count[k] < MaxAttempts THEN count[k] ELSE MaxAttempts
          /\ passed[k] \in Nat /\ lost[k] \in Nat /\ count[k] \in Nat
          /\ Cardinality(Waiting(k)) \in Nat
      BY WaitingFinite DEF Accounted, IpTypeOK
    <3> QED  BY <3>1, <3>2, IpCheckAssumption
  <2> QED  BY <2>1, <2>2
<1> QED  BY <1>5, <1>8, <1>9

\* A crash loses every request that waits.
LEMMA CrashKeeps ==
    ASSUME IpInv, Crash
    PROVE  IpInv'
<1> USE DEF IpInv
<1>1. ASSUME NEW k \in Counters
      PROVE  /\ lost'[k] = lost[k] + Cardinality(Waiting(k))
             /\ Cardinality(Waiting(k)) \in Nat
             /\ Cardinality(Waiting(k)') = 0
  <2>1. Waiting(k)' = {}
    BY IpCheckAssumption DEF Waiting, Crash
  <2> QED  BY <2>1, FS_EmptySet, WaitingFinite DEF Crash
<1>2. IpTypeOK'
  <2>1. lost' \in [Counters -> Nat]
    <3>1. \A k \in Counters : lost[k] + Cardinality(Waiting(k)) \in Nat
      BY <1>1 DEF IpTypeOK
    <3> QED  BY <3>1 DEF Crash
  <2>2. failures' \in 0..MaxFailures
    BY IpCheckAssumption DEF Crash, IpTypeOK
  <2> QED  BY <2>1, <2>2 DEF Crash, IpTypeOK, redis
<1>3. ASSUME NEW k \in Counters
      PROVE  passed[k] + lost'[k] + Cardinality(Waiting(k)') =
                 IF count[k] < MaxAttempts THEN count[k] ELSE MaxAttempts
  BY <1>1 DEF Accounted, IpTypeOK
<1>4. Accounted'
  BY <1>3 DEF Accounted, Crash, redis
<1>5. PassedExpires'
  BY DEF PassedExpires, Crash, redis
<1> QED  BY <1>2, <1>4, <1>5

\* Time passes: a counter that expires starts a life without requests.
LEMMA IpTickKeeps ==
    ASSUME IpInv, IpTick
    PROVE  IpInv'
<1> USE DEF IpInv
<1>1. ASSUME NEW k \in Counters
      PROVE  /\ ttl'[k] = IF ttl[k] > 0 THEN ttl[k] - 1 ELSE 0
             /\ count'[k] = IF ttl[k] = 1 THEN 0 ELSE count[k]
             /\ passed'[k] = IF ttl[k] = 1 THEN 0 ELSE passed[k]
             /\ lost'[k] = IF ttl[k] = 1 THEN 0 ELSE lost[k]
             /\ ttl[k] \in 0..Window /\ count[k] \in 0..(MaxAttempts + 1)
             /\ passed[k] \in Nat /\ lost[k] \in Nat
  BY DEF IpTick, IpTypeOK
<1>2. IpTypeOK'
  <2>1. ttl' \in [Counters -> 0..Window]
    <3>1. \A k \in Counters : (IF ttl[k] > 0 THEN ttl[k] - 1 ELSE 0) \in 0..Window
      BY <1>1, IpCheckAssumption
    <3> QED  BY <3>1 DEF IpTick
  <2>2. count' \in [Counters -> 0..(MaxAttempts + 1)]
    <3>1. \A k \in Counters : (IF ttl[k] = 1 THEN 0 ELSE count[k]) \in 0..(MaxAttempts + 1)
      BY <1>1, IpCheckAssumption
    <3> QED  BY <3>1 DEF IpTick
  <2>3. passed' \in [Counters -> Nat] /\ lost' \in [Counters -> Nat]
    <3>1. \A k \in Counters : /\ (IF ttl[k] = 1 THEN 0 ELSE passed[k]) \in Nat
                              /\ (IF ttl[k] = 1 THEN 0 ELSE lost[k]) \in Nat
      BY <1>1
    <3> QED  BY <3>1 DEF IpTick
  <2>4. current' \in [Workers -> BOOLEAN]
    BY DEF IpTick
  <2> QED  BY <2>1, <2>2, <2>3, <2>4 DEF IpTick, IpTypeOK
<1>3. ASSUME NEW k \in Counters
      PROVE  /\ ttl[k] = 1 => Waiting(k)' = {}
             /\ ttl[k] # 1 => Waiting(k)' = Waiting(k)
  <2>1. \A r \in Workers :
          /\ pending'[r] = pending[r]
          /\ current'[r] = (current[r] /\
                ~ \E j \in Counters : pending[r] = j /\ ttl[j] = 1)
    BY DEF IpTick
  <2>2. ASSUME NEW r \in Workers
        PROVE  r \in Waiting(k)' <=> r \in Waiting(k) /\ ttl[k] # 1
    BY <2>1, IpCheckAssumption DEF Waiting
  <2>3. Waiting(k) \subseteq Workers /\ Waiting(k)' \subseteq Workers
    BY DEF Waiting
  <2> HIDE DEF IpInv
  <2> QED  BY <2>2, <2>3, Zenon
<1>4. Accounted'
  <2> SUFFICES ASSUME NEW k \in Counters
               PROVE  passed'[k] + lost'[k] + Cardinality(Waiting(k)') =
                          IF count'[k] < MaxAttempts THEN count'[k] ELSE MaxAttempts
    BY DEF Accounted
  <2>1. CASE ttl[k] = 1
    <3>1. Cardinality(Waiting(k)') = 0
      BY <1>3, <2>1, FS_EmptySet
    <3> QED  BY <1>1, <2>1, <3>1, IpCheckAssumption
  <2>2. CASE ttl[k] # 1
    BY <1>1, <1>3, <2>2 DEF Accounted
  <2> QED  BY <2>1, <2>2
<1>5. PassedExpires'
  <2> SUFFICES ASSUME NEW k \in Counters, ttl'[k] = 0 PROVE passed'[k] = 0
    BY DEF PassedExpires
  <2>1. ttl[k] = 1 \/ ttl[k] = 0
    BY <1>1, IpCheckAssumption
  <2> QED  BY <1>1, <2>1 DEF PassedExpires
<1> QED  BY <1>2, <1>4, <1>5

-----------------------------------------------------------------------------
\* No step of it leaves IpInv.
LEMMA NextIpInv == IpInv /\ [IpNext]_ipVars => IpInv'
<1> SUFFICES ASSUME IpInv, [IpNext]_ipVars PROVE IpInv'
  OBVIOUS
<1>1. ASSUME NEW r \in Workers, NEW kind \in Kinds, NEW ip \in Addresses,
             Arrive(r, kind, ip)
      PROVE  IpInv'
  <2>1. PICK k \in Counters : Count(r, k) \/ Refuse(r, k) \/ CountFails(r, k)
    BY <1>1 DEF Arrive, Counters
  <2> QED  BY <2>1, CountKeeps, RefuseKeeps, CountFailsKeeps
<1>2. ASSUME NEW r \in Workers, Pass(r) PROVE IpInv'
  BY <1>2, PassKeeps
<1>3. ASSUME NEW r \in Workers, PassFails(r) PROVE IpInv'
  BY <1>3, PassFailsKeeps
<1>4. CASE Crash
  BY <1>4, CrashKeeps
<1>5. CASE IpTick
  BY <1>5, IpTickKeeps
<1>6. CASE UNCHANGED ipVars
  BY <1>6 DEF ipVars, IpInv, IpTypeOK, Accounted, PassedExpires, Waiting
<1> QED  BY <1>1, <1>2, <1>3, <1>4, <1>5, <1>6 DEF IpNext

\* IpInv is an invariant of the checks.
THEOREM IpInvariant == IpSpec => []IpInv
  BY InitIpInv, NextIpInv, PTL DEF IpSpec

\* The state of the checks has its type.
THEOREM IpTypeCorrect == IpSpec => []IpTypeOK
  BY IpInvariant, PTL DEF IpInv

\* At most MaxAttempts requests of an address and kind reach the handler in a life of
\* their counter, for every MaxAttempts and every number of requests at a time.
THEOREM AtMostMaxPass == IpSpec => []AdmissionBounded
<1>1. IpInv => AdmissionBounded
  <2> SUFFICES ASSUME IpInv, NEW k \in Counters
               PROVE  passed[k] + Cardinality(Waiting(k)) <= MaxAttempts
    BY DEF AdmissionBounded
  <2>1. /\ passed[k] + lost[k] + Cardinality(Waiting(k)) =
             IF count[k] < MaxAttempts THEN count[k] ELSE MaxAttempts
        /\ passed[k] \in Nat /\ lost[k] \in Nat /\ count[k] \in Nat
        /\ Cardinality(Waiting(k)) \in Nat
    BY WaitingFinite DEF IpInv, Accounted, IpTypeOK
  <2> QED  BY <2>1, IpCheckAssumption
<1> QED  BY <1>1, IpInvariant, PTL

\* An address is refused for ever only after MaxAttempts of its requests were cut off
\* between INCR and EXPIRE.
THEOREM NeverStuckOtherwise == IpSpec => []StuckOnlyByLosses
<1>1. IpInv => StuckOnlyByLosses
  <2> SUFFICES ASSUME IpInv, NEW k \in Counters, count[k] >= MaxAttempts, ttl[k] = 0
               PROVE  lost[k] + Cardinality(Waiting(k)) >= MaxAttempts
    BY DEF StuckOnlyByLosses
  <2>1. /\ passed[k] + lost[k] + Cardinality(Waiting(k)) =
             IF count[k] < MaxAttempts THEN count[k] ELSE MaxAttempts
        /\ passed[k] = 0 /\ lost[k] \in Nat /\ count[k] \in Nat
        /\ Cardinality(Waiting(k)) \in Nat
    BY WaitingFinite DEF IpInv, Accounted, PassedExpires, IpTypeOK
  <2> QED  BY <2>1, IpCheckAssumption
<1> QED  BY <1>1, IpInvariant, PTL

-----------------------------------------------------------------------------
(* The two side by side.                                                    *)

\* Whichever of them moves, the other stands still.
LEMMA SideBySide ==
    /\ LimitsInit => Init /\ IpInit
    /\ [LimitsNext]_limitVars => [Next]_vars /\ [IpNext]_ipVars
  BY DEF LimitsInit, LimitsNext, limitVars, Login, Address, ipVars, vars

\* Both limits keep their types in one process: no counted failure reaches Max, no
\* lock is longer than five minutes, no counter outlives its window
\* (login-attempt.go 280-379, noauthentication.go 21-34).
THEOREM LimitsTyped == LimitsSpec => []TypesOK
<1>1. LimitsInit => IInv /\ IpInv
  BY SideBySide, InitIInv, InitIpInv
<1>2. IInv /\ IpInv /\ [LimitsNext]_limitVars => IInv' /\ IpInv'
  BY SideBySide, NextIInv, NextIpInv
<1>3. IInv /\ IpInv => TypesOK
  BY DEF IInv, IpInv, TypesOK
<1> QED BY <1>1, <1>2, <1>3, PTL DEF LimitsSpec
=============================================================================
