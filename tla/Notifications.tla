---------------------------- MODULE Notifications ----------------------------
(***************************************************************************)
(* Notifications: a browser tab connects to the websocket with its token and *)
(* subscribes to the channel of its user; from then on it is told how many    *)
(* unread notifications the user has.  Whoever subscribes has the number read *)
(* and published to all tabs of the user; whoever writes a notification calls *)
(* PublishNotification, which reads it and publishes it if anybody listens.   *)
(* Reading, publishing and delivering are steps of their own.  SIGTERM stops  *)
(* the process, which waits ten seconds for its requests.                     *)
(* (pkg/ws/centrifugal.go, JustValidateToken of                               *)
(* internal/middleware/authentication.go, main.go.)                           *)
(***************************************************************************)
EXTENDS Integers, Sequences, FiniteSets

CONSTANTS
    Users, Clients,
    Requests,      \* the goroutines serving requests that write notifications
    NoUser,
    Counts,        \* the numbers of unread notifications
    NoCount,       \* what a tab shows before it is told, and after "null"
    MaxWrites,     \* bound: how often notifications are written
    MaxQueue,      \* bound: publications of a channel under way
    MaxFailures    \* bound: queries, publications and starts that fail

ASSUME NotificationsAssumption ==
    /\ NoUser \notin Users
    /\ 0 \in Counts /\ NoCount \notin Counts
    /\ MaxWrites \in Nat /\ MaxQueue \in Nat /\ MaxFailures \in Nat

VARIABLES
    count,       \* MySQL: user -> its rows of notifikasi that are not read
    conn,        \* connection -> its user and what its subscription does next
    pub,         \* goroutine -> the PublishNotification it runs
    queue,       \* Redis: user -> the publications on its way to the node
    view,        \* connection -> the last number it was sent
    phase,       \* what main does
    node,        \* NodeCentrifugal
    watcher,     \* the goroutine that waits for the context to be cancelled
    failures     \* failures so far

VARIABLES        \* history
    version,     \* user -> how often its notifications were written
    last,        \* user -> the version the last publication had read
    overtaken,   \* users whose last publication had read less than the one before
    lost         \* users who missed a publication since the last one that was current

process == <<phase, node, watcher>>
history == <<version, last, overtaken, lost>>
vars == <<count, conn, pub, queue, view, phase, node, watcher, failures,
          version, last, overtaken, lost>>

Versions == 0..MaxWrites
Message == [n : Counts \cup {NoCount}, seen : Versions]

\* A connection: "on" is connected only; "read" and "publish" is in the handler
\* of its subscription, "in" is past it.  linked: it has not been cut since.
Connection ==
    [at : {"away", "on", "read", "publish", "in"}, linked : BOOLEAN,
     user : Users \cup {NoUser}, msg : Message]
NoMessage == [n |-> NoCount, seen |-> 0]
Away == [at |-> "away", linked |-> FALSE, user |-> NoUser, msg |-> NoMessage]

Publisher == [at : {"idle", "check", "read", "publish"}, user : Users \cup {NoUser},
              msg : Message]
Idle == [at |-> "idle", user |-> NoUser, msg |-> NoMessage]

Running == phase \in {"up", "draining"}

\* The tabs of u that the node delivers to.
Tabs(u) == {c \in Clients : conn[c].user = u /\ conn[c].linked
                              /\ conn[c].at \in {"read", "publish", "in"}}

TypeOK ==
    /\ count \in [Users -> Counts]
    /\ conn \in [Clients -> Connection]
    /\ \A c \in Clients : conn[c].at = "away" <=> conn[c].user = NoUser
    /\ pub \in [Requests -> Publisher]
    /\ \A r \in Requests : pub[r].at = "idle" <=> pub[r].user = NoUser
    /\ queue \in [Users -> Seq(Message)] /\ \A u \in Users : Len(queue[u]) <= MaxQueue
    /\ view \in [Clients -> Counts \cup {NoCount}]
    /\ phase \in {"starting", "up", "draining", "exited"}
    /\ node \in {"new", "running", "shut", "killed"}
    /\ watcher \in {"waiting", "ended"}
    /\ failures \in 0..MaxFailures
    /\ version \in [Users -> Versions] /\ last \in [Users -> Versions]
    /\ overtaken \subseteq Users /\ lost \subseteq Users

Init ==
    /\ count \in [Users -> Counts]
    /\ conn = [c \in Clients |-> Away]
    /\ pub = [r \in Requests |-> Idle]
    /\ queue = [u \in Users |-> <<>>]
    /\ view = [c \in Clients |-> NoCount]
    /\ phase = "starting" /\ node = "new" /\ watcher = "waiting"
    /\ failures = 0
    /\ version = [u \in Users |-> 0] /\ last = [u \in Users |-> 0]
    /\ overtaken = {} /\ lost = {}

Fails == failures < MaxFailures /\ failures' = failures + 1
Works == UNCHANGED failures

-----------------------------------------------------------------------------
(* Publications.                                                            *)

\* The message a count of u gives now; NoCount when the query fails.
Counted(u) == [n |-> count[u], seen |-> version[u]]
Null(u) == [n |-> NoCount, seen |-> version[u]]

\* NodeCentrifugal.Publish: PUBLISH, or an error, which is logged.
Publish(u, msg) ==
    \/ /\ Works /\ Len(queue[u]) < MaxQueue
       /\ queue' = [queue EXCEPT ![u] = Append(@, msg)]
       /\ last' = [last EXCEPT ![u] = msg.seen]
       /\ overtaken' = IF msg.seen < last[u] THEN overtaken \cup {u}
                       ELSE IF msg.seen = version[u] THEN overtaken \ {u} ELSE overtaken
       /\ lost' = IF msg.seen < version[u] THEN lost
                  ELSE IF msg.n = NoCount THEN lost \cup {u} ELSE lost \ {u}
    \/ Fails /\ lost' = lost \cup {u} /\ UNCHANGED <<queue, last, overtaken>>

\* Redis sends the publications of a channel in their order to the node, which
\* hands each to all tabs that are subscribed by then.
Deliver(u) ==
    /\ Running /\ queue[u] # <<>>
    /\ queue' = [queue EXCEPT ![u] = Tail(@)]
    /\ view' = [c \in Clients |-> IF c \in Tabs(u) THEN Head(queue[u]).n ELSE view[c]]
    /\ UNCHANGED <<count, conn, pub, process, failures, history>>

-----------------------------------------------------------------------------
(* Connections.                                                             *)

\* What clients bring: tokens with a wrong signature or claims, tokens that have
\* expired, and good ones.
Token == [user : Users, good : BOOLEAN, expired : BOOLEAN]

\* Whose token it is.  Every error is the same to the caller; AUTO_LOGOUT is not
\* asked for.
JustValidateToken(t) == IF t.good /\ ~ t.expired THEN t.user ELSE NoUser

\* Mutant of Connect: a token that does not stand the test is let in.
ConnectUnchecked(c, t) ==
    /\ phase = "up"
    /\ conn[c].at = "away"
    /\ conn' = [conn EXCEPT ![c] = [Away EXCEPT !.at = "on", !.linked = TRUE,
                                                !.user = JustValidateToken(t)]]
    /\ view' = [view EXCEPT ![c] = NoCount]
    /\ UNCHANGED <<count, pub, queue, process, failures, history>>

\* OnConnecting: the user of the token takes the place of the random one.
Connect(c, t) ==
    /\ phase = "up"
    /\ conn[c].at = "away"
    /\ JustValidateToken(t) # NoUser
    /\ conn' = [conn EXCEPT ![c] = [Away EXCEPT !.at = "on", !.linked = TRUE,
                                                !.user = JustValidateToken(t)]]
    /\ view' = [view EXCEPT ![c] = NoCount]
    /\ UNCHANGED <<count, pub, queue, process, failures, history>>

\* OnSubscribe, to the channel of u, which has to be the user's own.
Subscribe(c, u) ==
    /\ Running
    /\ conn[c].at = "on" /\ conn[c].user = u
    /\ conn' = [conn EXCEPT ![c].at = "read"]
    /\ UNCHANGED <<count, pub, queue, view, process, failures, history>>

\* Mutant of ReadCount: a count of zero is not published.
ReadCountQuiet(c) ==
    LET u == conn[c].user IN
        /\ Running /\ conn[c].at = "read" /\ Works
        /\ conn' = [conn EXCEPT ![c].at = IF count[u] = 0 THEN "in" ELSE "publish",
                                ![c].msg = Counted(u)]
        /\ UNCHANGED <<count, pub, queue, view, process, history>>

\* GetNotification: when it fails, "null" is published.
ReadCount(c) ==
    /\ Running /\ conn[c].at = "read"
    /\ \/ Works /\ conn' = [conn EXCEPT ![c].at = "publish", ![c].msg = Counted(conn[c].user)]
       \/ Fails /\ conn' = [conn EXCEPT ![c].at = "publish", ![c].msg = Null(conn[c].user)]
    /\ UNCHANGED <<count, pub, queue, view, process, history>>

\* The handler is over.
Subscribed(c) ==
    conn' = [conn EXCEPT ![c] = IF @.linked THEN [@ EXCEPT !.at = "in", !.msg = NoMessage]
                                ELSE Away]

\* Mutant of PublishCount: the count is sent to the new tab alone.
PublishCountToOne(c) ==
    /\ Running /\ conn[c].at = "publish" /\ Works
    /\ view' = [view EXCEPT ![c] = conn[c].msg.n]
    /\ Subscribed(c)
    /\ UNCHANGED <<count, pub, queue, process, history>>

PublishCount(c) ==
    /\ Running /\ conn[c].at = "publish"
    /\ Publish(conn[c].user, conn[c].msg)
    /\ Subscribed(c)
    /\ UNCHANGED <<count, pub, view, process, version>>

\* The tab is closed or cut off; its handler goes on.
Disconnect(c) ==
    /\ Running /\ conn[c].linked
    /\ conn' = [conn EXCEPT ![c] = IF @.at \in {"read", "publish"} THEN [@ EXCEPT !.linked = FALSE]
                                   ELSE Away]
    /\ UNCHANGED <<count, pub, queue, view, process, failures, history>>

-----------------------------------------------------------------------------
(* PublishNotification, with and without a transaction of its own, in which   *)
(* it does nothing.                                                           *)

\* A request has written notifications of u, or marked some read, and calls it.
Write(r, u, n) ==
    /\ phase = "up"
    /\ pub[r].at = "idle"
    /\ version[u] < MaxWrites /\ n # count[u]
    /\ count' = [count EXCEPT ![u] = n]
    /\ version' = [version EXCEPT ![u] = @ + 1]
    /\ pub' = [pub EXCEPT ![r] = [Idle EXCEPT !.at = "check", !.user = u]]
    /\ UNCHANGED <<conn, queue, view, process, failures, last, overtaken, lost>>

\* Hub().Channels(): nobody listens, or somebody does.
Check(r) ==
    /\ Running /\ pub[r].at = "check"
    /\ pub' = IF Tabs(pub[r].user) = {} THEN [pub EXCEPT ![r] = Idle]
              ELSE [pub EXCEPT ![r].at = "read"]
    /\ UNCHANGED <<count, conn, queue, view, process, failures, history>>

\* The count: an error ends it.
Read(r) ==
    LET u == pub[r].user IN
        /\ Running /\ pub[r].at = "read"
        /\ \/ /\ Works /\ pub' = [pub EXCEPT ![r].at = "publish", ![r].msg = Counted(u)]
              /\ UNCHANGED lost
           \/ Fails /\ pub' = [pub EXCEPT ![r] = Idle] /\ lost' = lost \cup {u}
        /\ UNCHANGED <<count, conn, queue, view, process, version, last, overtaken>>

PublishRead(r) ==
    /\ Running /\ pub[r].at = "publish"
    /\ Publish(pub[r].user, pub[r].msg)
    /\ pub' = [pub EXCEPT ![r] = Idle]
    /\ UNCHANGED <<count, conn, view, process, version>>

-----------------------------------------------------------------------------
(* The process.                                                             *)

\* InitCentrifugal and e.Start; an error of either is fatal.
Start ==
    /\ phase = "starting"
    /\ \/ Works /\ phase' = "up" /\ node' = "running"
       \/ Fails /\ phase' = "exited" /\ UNCHANGED node
       \/ Fails /\ phase' = "exited" /\ node' = "killed"
    /\ UNCHANGED <<count, conn, pub, queue, view, watcher, history>>

\* A signal: cancel(), and Shutdown of Echo closes its listeners and waits.
Stop ==
    /\ phase = "up"
    /\ phase' = "draining"
    /\ UNCHANGED <<count, conn, pub, queue, view, node, watcher, failures, history>>

\* for range ctx.Done(): its body, which shuts the node down, runs for each value
\* received.  Nothing is sent; cancel closes the channel, which ends the loop.
WatcherEnds ==
    /\ phase = "draining" /\ watcher = "waiting"
    /\ watcher' = "ended"
    /\ UNCHANGED <<count, conn, pub, queue, view, phase, node, failures, history>>

\* Shutdown returns when no request is left, or after ten seconds; it does not
\* wait for websockets.  main returns.
Exit ==
    /\ phase = "draining"
    /\ phase' = "exited" /\ node' = "killed"
    /\ conn' = [c \in Clients |-> Away] /\ pub' = [r \in Requests |-> Idle]
    /\ queue' = [u \in Users |-> <<>>] /\ view' = [c \in Clients |-> NoCount]
    /\ UNCHANGED <<count, watcher, failures, history>>

Next ==
    \/ \E c \in Clients :
          \/ \E t \in Token : Connect(c, t)
          \/ \E u \in Users : Subscribe(c, u)
          \/ ReadCount(c) \/ PublishCount(c) \/ Disconnect(c)
    \/ \E r \in Requests :
          \/ \E u \in Users, n \in Counts : Write(r, u, n)
          \/ Check(r) \/ Read(r) \/ PublishRead(r)
    \/ \E u \in Users : Deliver(u)
    \/ Start \/ Stop \/ WatcherEnds \/ Exit

Spec == Init /\ [][Next]_vars

-----------------------------------------------------------------------------
(* Properties.                                                              *)

\* Every publication of u has been delivered.
Quiet(u) == queue[u] = <<>> /\ \A r \in Requests : pub[r].user # u

\* Once nothing of a user is under way, each of its tabs shows the number of its
\* unread notifications, though tabs come and go while notifications are
\* written: but for a query or publication that failed, and for two that
\* overtook one another between reading and publishing (centrifugal.go 111-127
\* against 239-267).
LastCountHolds ==
    \A u \in Users : Running /\ Quiet(u) =>
        \A c \in Tabs(u) : conn[c].at = "in" =>
            view[c] = count[u] \/ u \in lost \cup overtaken

\* All tabs of a user show the same number, a wrong one included, but for a
\* publication that failed (centrifugal.go 124, 265).
TabsAgree ==
    \A c, d \in Clients :
        LET u == conn[c].user IN
            conn[c].at = "in" /\ conn[d].at = "in" /\ conn[d].user = u /\ queue[u] = <<>> =>
                view[c] = view[d] \/ u \in lost

\* What the log says of the goroutine that waits for the context: when it has
\* ended, "centrifugal is stopped" (centrifugal.go 186-194).
CentrifugalIsStopped == watcher = "ended" => node = "shut"

-----------------------------------------------------------------------------
(* What makes the two inductive (module NotificationsProofs).               *)

\* What was read of u is not newer than what there is, and is that if it is as new.
MessageOK(u, msg) ==
    /\ msg.seen <= version[u]
    /\ msg.seen = version[u] => msg.n \in {count[u], NoCount}

MessagesOK ==
    /\ \A c \in Clients : conn[c].at = "publish" => MessageOK(conn[c].user, conn[c].msg)
    /\ \A r \in Requests : pub[r].at = "publish" => MessageOK(pub[r].user, pub[r].msg)
    /\ \A u \in Users : last[u] <= version[u]

\* A request is on its way to publish the number of u that there is now.
Owed(u) ==
    \E r \in Requests :
        /\ pub[r].user = u
        /\ pub[r].at \in {"check", "read"} \/ (pub[r].at = "publish" /\ pub[r].msg.seen = version[u])

\* Whoever listens has been told of the last change, will be, or tells it to all.
ToldOK ==
    \A c \in Clients, u \in Users : conn[c].user = u =>
        /\ conn[c].at = "in" => conn[c].linked
        /\ conn[c].linked /\ conn[c].at \in {"publish", "in"} =>
              \/ u \in lost \cup overtaken
              \/ last[u] = version[u]
              \/ Owed(u)
              \/ conn[c].at = "publish" /\ conn[c].msg.seen = version[u]

\* If the last publication of u was of the last change, it has the number of now.
LastOK ==
    \A u \in Users : last[u] = version[u] /\ u \notin lost =>
        /\ queue[u] # <<>> => queue[u][Len(queue[u])].n = count[u]
        /\ queue[u] = <<>> =>
              \A c \in Clients : conn[c].at = "in" /\ conn[c].user = u => view[c] = count[u]

IInv == TypeOK /\ MessagesOK /\ ToldOK /\ LastOK /\ TabsAgree
=============================================================================
