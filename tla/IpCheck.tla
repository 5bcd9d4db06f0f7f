------------------------------- MODULE IpCheck -------------------------------
(***************************************************************************)
(* The three request limits of internal/middleware/noauthentication.go      *)
(* (forgotten password, number verification, registration).  Each counts    *)
(* the requests of an address in a Redis counter of its own kind: INCR the  *)
(* counter, refuse above a maximum, else EXPIRE it in Window and go on.  The *)
(* two are two round trips: between them other requests come, the           *)
(* counter expires, the client leaves (both commands use the request's      *)
(* context), the connection breaks or the server stops.                     *)
(*                                                                         *)
(* A counter that is missing counts 0; a life of a counter lasts from the   *)
(* INCR that makes it to its expiry.                                        *)
(***************************************************************************)
EXTENDS Integers, FiniteSets

CONSTANTS
    Kinds,       \* the three key templates of pkg/constant
    Addresses,   \* what c.RealIP() returns
    Loopback6,   \* "::1"
    Localhost,   \* "localhost"
    Workers,     \* the goroutines serving requests
    NoCounter,   \* what a free goroutine is working on
    MaxAttempts, \* REDIS_REQUEST_MAX_ATTEMPTS_* = 10
    Window,      \* REDIS_REQUEST_IP_EXPIRE = 240 minutes
    MaxFailures  \* bound: how many commands fail and servers stop

\* The counters: one per kind and address, the two loopbacks sharing one.
Name(ip) == IF ip = Loopback6 THEN Localhost ELSE ip
Counters == Kinds \X {Name(ip) : ip \in Addresses}

ASSUME IpCheckAssumption ==
    /\ MaxAttempts \in Nat \ {0}
    /\ Window \in Nat \ {0}
    /\ MaxFailures \in Nat
    /\ IsFiniteSet(Workers)
    /\ NoCounter \notin Counters

VARIABLES
    count,     \* the value of a counter, 0 when it does not exist
    ttl,       \* its time to live, 0 when it has none
    pending,   \* goroutine -> the counter it raised and has yet to expire
    current,   \* history: that counter has not expired since it was raised
    passed,    \* history: requests of this life that reached the handler
    lost,      \* history: requests of this life counted and then abandoned
    failures   \* failures so far

redis == <<count, ttl>>
ipHistory == <<current, passed, lost>>
ipVars == <<count, ttl, pending, current, passed, lost, failures>>

IpTypeOK ==
    /\ count \in [Counters -> 0..(MaxAttempts + 1)]
    /\ ttl \in [Counters -> 0..Window]
    /\ pending \in [Workers -> Counters \cup {NoCounter}]
    /\ current \in [Workers -> BOOLEAN]
    /\ passed \in [Counters -> Nat]
    /\ lost \in [Counters -> Nat]
    /\ failures \in 0..MaxFailures

IpInit ==
    /\ count = [k \in Counters |-> 0]
    /\ ttl = [k \in Counters |-> 0]
    /\ pending = [r \in Workers |-> NoCounter]
    /\ current = [r \in Workers |-> FALSE]
    /\ passed = [k \in Counters |-> 0]
    /\ lost = [k \in Counters |-> 0]
    /\ failures = 0

\* The requests of this life of k between their two commands.
Waiting(k) == {r \in Workers : pending[r] = k /\ current[r]}

-----------------------------------------------------------------------------
(* The Redis commands.  Values above Max are told apart by nothing, so the  *)
(* counter saturates at Max + 1.                                            *)

INCR(k) == count' = [count EXCEPT ![k] = IF @ > MaxAttempts THEN @ ELSE @ + 1]

\* Mutant of EXPIRE: minutes taken for seconds.
EXPIREScaled(k) == ttl' = [ttl EXCEPT ![k] = IF count[k] = 0 THEN 0 ELSE 60 * Window]

\* EXPIRE of a counter that is gone does nothing.
EXPIRE(k) == ttl' = [ttl EXCEPT ![k] = IF count[k] = 0 THEN 0 ELSE Window]

-----------------------------------------------------------------------------
(* The middleware.                                                          *)

\* Mutant of Count: one request more.
CountOneMore(r, k) ==
    /\ pending[r] = NoCounter
    /\ count[k] <= MaxAttempts
    /\ INCR(k)
    /\ pending' = [pending EXCEPT ![r] = k]
    /\ current' = [current EXCEPT ![r] = TRUE]
    /\ UNCHANGED <<ttl, passed, lost, failures>>

\* The first command: within MaxAttempts, the second one follows.
Count(r, k) ==
    /\ pending[r] = NoCounter
    /\ count[k] < MaxAttempts
    /\ INCR(k)
    /\ pending' = [pending EXCEPT ![r] = k]
    /\ current' = [current EXCEPT ![r] = TRUE]
    /\ UNCHANGED <<ttl, passed, lost, failures>>

\* Mutant of Refuse: every call expires the counter anew.
RefuseExpiring(r, k) ==
    /\ pending[r] = NoCounter
    /\ count[k] >= MaxAttempts
    /\ INCR(k)
    /\ EXPIRE(k)
    /\ UNCHANGED <<pending, ipHistory, failures>>

\* Above MaxAttempts: 400, and the time to live is not touched.
Refuse(r, k) ==
    /\ pending[r] = NoCounter
    /\ count[k] >= MaxAttempts
    /\ INCR(k)
    /\ UNCHANGED <<ttl, pending, ipHistory, failures>>

\* The first command reports an error: 500.  Redis may have run it.
CountFails(r, k) ==
    /\ pending[r] = NoCounter
    /\ failures < MaxFailures
    /\ failures' = failures + 1
    /\ \/ UNCHANGED <<count, lost>>
       \/ /\ INCR(k)
          /\ lost' = [lost EXCEPT ![k] = IF count[k] < MaxAttempts THEN @ + 1 ELSE @]
    /\ UNCHANGED <<ttl, pending, current, passed>>

\* Mutant of Pass: only the request that made the counter expires it.
PassFirstExpires(r) ==
    LET k == pending[r] IN
        /\ k # NoCounter
        /\ IF count[k] = 1 THEN EXPIRE(k) ELSE UNCHANGED ttl
        /\ passed' = [passed EXCEPT ![k] = IF current[r] THEN @ + 1 ELSE @]
        /\ pending' = [pending EXCEPT ![r] = NoCounter]
        /\ current' = [current EXCEPT ![r] = FALSE]
        /\ UNCHANGED <<count, lost, failures>>

\* The second command: the request goes on to its handler.
Pass(r) ==
    LET k == pending[r] IN
        /\ k # NoCounter
        /\ EXPIRE(k)
        /\ passed' = [passed EXCEPT ![k] = IF current[r] THEN @ + 1 ELSE @]
        /\ pending' = [pending EXCEPT ![r] = NoCounter]
        /\ current' = [current EXCEPT ![r] = FALSE]
        /\ UNCHANGED <<count, lost, failures>>

\* The second command reports an error: 500.  Redis may have run it.
PassFails(r) ==
    LET k == pending[r] IN
        /\ k # NoCounter
        /\ failures < MaxFailures
        /\ failures' = failures + 1
        /\ EXPIRE(k) \/ UNCHANGED ttl
        /\ lost' = [lost EXCEPT ![k] = IF current[r] THEN @ + 1 ELSE @]
        /\ pending' = [pending EXCEPT ![r] = NoCounter]
        /\ current' = [current EXCEPT ![r] = FALSE]
        /\ UNCHANGED <<count, passed>>

\* The server stops: no pending request sends its second command.
Crash ==
    /\ failures < MaxFailures
    /\ failures' = failures + 1
    /\ lost' = [k \in Counters |-> lost[k] + Cardinality(Waiting(k))]
    /\ pending' = [r \in Workers |-> NoCounter]
    /\ current' = [r \in Workers |-> FALSE]
    /\ UNCHANGED <<redis, passed>>

-----------------------------------------------------------------------------
\* Time goes on; a counter whose time is over is gone.
IpTick ==
    LET over(k) == ttl[k] = 1 IN
        /\ ttl' = [k \in Counters |-> IF ttl[k] > 0 THEN ttl[k] - 1 ELSE 0]
        /\ count' = [k \in Counters |-> IF over(k) THEN 0 ELSE count[k]]
        /\ passed' = [k \in Counters |-> IF over(k) THEN 0 ELSE passed[k]]
        /\ lost' = [k \in Counters |-> IF over(k) THEN 0 ELSE lost[k]]
        /\ current' = [r \in Workers |->
                          current[r] /\ ~ \E k \in Counters : pending[r] = k /\ over(k)]
        /\ UNCHANGED <<pending, failures>>

Arrive(r, kind, ip) ==
    LET k == <<kind, Name(ip)>> IN Count(r, k) \/ Refuse(r, k) \/ CountFails(r, k)

IpNext ==
    \/ \E r \in Workers, kind \in Kinds, ip \in Addresses : Arrive(r, kind, ip)
    \/ \E r \in Workers : Pass(r) \/ PassFails(r)
    \/ Crash
    \/ IpTick

\* Time goes on; clients call or not, and a request may hang between its two
\* commands.
IpSpec == IpInit /\ [][IpNext]_ipVars /\ WF_ipVars(IpTick)

-----------------------------------------------------------------------------
(* Properties.                                                              *)

\* However the requests interleave, at most MaxAttempts of one address and kind reach
\* the handler in a life of their counter: each of them, and each one still
\* between its two commands, holds a value of its own up to MaxAttempts (23-28).
AdmissionBounded ==
    \A k \in Counters : passed[k] + Cardinality(Waiting(k)) <= MaxAttempts

\* INCR and EXPIRE are not atomic, so a counter can be left without a time to
\* live, and one that reached MaxAttempts so refuses its address for ever.  That
\* takes MaxAttempts requests each cut off between the two commands: as soon as one
\* of this life completes, the counter has an end (23, 32).
StuckOnlyByLosses ==
    \A k \in Counters :
        count[k] >= MaxAttempts /\ ttl[k] = 0 => lost[k] + Cardinality(Waiting(k)) >= MaxAttempts

\* What makes both inductive: every value up to MaxAttempts is held by one request of
\* this life, which has passed, is waiting or is lost; and a counter without a
\* time to live has let nobody pass.
Accounted ==
    \A k \in Counters :
        passed[k] + lost[k] + Cardinality(Waiting(k)) =
            IF count[k] < MaxAttempts THEN count[k] ELSE MaxAttempts
PassedExpires == \A k \in Counters : ttl[k] = 0 => passed[k] = 0
IpInv == IpTypeOK /\ Accounted /\ PassedExpires

\* A refused client does get through again: a full counter with a time to
\* live expires although refused clients go on calling, for a refusal raises
\* the counter and leaves its time to live alone (28-30).
RefusalEnds ==
    \A k \in Counters : (count[k] >= MaxAttempts /\ ttl[k] > 0) ~> (count[k] = 0)
=============================================================================
