-------------------------- MODULE NotificationsProofs --------------------------
(***************************************************************************)
(* IInv of Notifications is inductive, and with it TypeOK, TabsAgree and      *)
(* LastCountHolds hold, for all sets of users, tabs and requests and any      *)
(* number of writes, publications under way and failures.                    *)
(***************************************************************************)
EXTENDS Notifications, TLAPS

-----------------------------------------------------------------------------
(* What the records hold.                                                   *)

LEMMA ConstantFacts ==
    /\ MaxWrites \in Nat /\ MaxQueue \in Nat /\ MaxFailures \in Nat
    /\ NoUser \notin Users /\ NoCount \notin Counts /\ 0 \in Versions
    /\ \A u, v : u \in Versions /\ v \in Versions => u \in Int /\ v \in Int
  BY NotificationsAssumption DEF Versions

LEMMA AwayFields ==
    /\ Away \in Connection /\ Away.at = "away" /\ Away.linked = FALSE
    /\ Away.user = NoUser /\ Away.msg = NoMessage /\ NoMessage \in Message
  BY ConstantFacts DEF Away, Connection, NoMessage, Message

LEMMA IdleFields ==
    Idle \in Publisher /\ Idle.at = "idle" /\ Idle.user = NoUser
  BY ConstantFacts DEF Idle, Publisher, Message, NoMessage

LEMMA CountedOK ==
    ASSUME TypeOK, NEW u \in Users
    PROVE  /\ Counted(u) \in Message /\ Null(u) \in Message
           /\ Counted(u).seen = version[u] /\ Null(u).seen = version[u]
           /\ MessageOK(u, Counted(u)) /\ MessageOK(u, Null(u))
  BY ConstantFacts DEF TypeOK, Counted, Null, Message, MessageOK, Versions

LEMMA FailuresStay ==
    ASSUME TypeOK, Works \/ Fails
    PROVE  failures' \in 0..MaxFailures
<1>1. failures \in 0..MaxFailures /\ MaxFailures \in Nat
  BY ConstantFacts DEF TypeOK
<1> QED BY <1>1 DEF Works, Fails

\* Where a connection or a goroutine is at, it has a user.
LEMMA UserOf ==
    ASSUME TypeOK
    PROVE  /\ \A c \in Clients : conn[c].at # "away" => conn[c].user \in Users
           /\ \A r \in Requests : pub[r].at # "idle" => pub[r].user \in Users
  BY DEF TypeOK, Connection, Publisher

LEMMA InitIInv == Init => IInv
<1> SUFFICES ASSUME Init PROVE IInv
  OBVIOUS
<1>1. /\ \A c \in Clients : conn[c] = Away
      /\ \A r \in Requests : pub[r] = Idle
      /\ \A u \in Users : queue[u] = <<>> /\ version[u] = 0 /\ last[u] = 0
  BY DEF Init
<1>2. TypeOK
  BY <1>1, ConstantFacts, AwayFields, IdleFields DEF Init, TypeOK
<1>3. MessagesOK
  BY <1>1, AwayFields, IdleFields DEF MessagesOK
<1>4. ToldOK
  BY <1>1, AwayFields DEF ToldOK
<1>5. LastOK
  BY <1>1, AwayFields DEF LastOK
<1>6. TabsAgree
  BY <1>1, AwayFields DEF TabsAgree
<1> QED BY <1>2, <1>3, <1>4, <1>5, <1>6 DEF IInv

-----------------------------------------------------------------------------
(* Publications.                                                            *)

\* What Publish does for the user it is of, and that it touches no other.
LEMMA Published ==
    ASSUME TypeOK, NEW u \in Users, NEW msg \in Message, MessageOK(u, msg),
           last[u] <= version[u], Publish(u, msg)
    PROVE  /\ queue' \in [Users -> Seq(Message)]
           /\ \A v \in Users : Len(queue'[v]) <= MaxQueue
           /\ last' \in [Users -> Versions]
           /\ overtaken' \subseteq Users /\ lost' \subseteq Users
           /\ failures' \in 0..MaxFailures
           /\ \A v \in Users : v # u =>
                 /\ queue'[v] = queue[v] /\ last'[v] = last[v]
                 /\ v \in lost' <=> v \in lost
                 /\ v \in overtaken' <=> v \in overtaken
           /\ last'[u] <= version[u]
           /\ u \in lost' \/ queue'[u] # <<>>
           /\ last'[u] = version[u] /\ u \notin lost' =>
                 queue'[u][Len(queue'[u])].n = count[u]
           /\ u \in lost \cup overtaken \/ last[u] = version[u] \/ msg.seen = version[u] =>
                 u \in lost' \cup overtaken' \/ last'[u] = version[u]
<1>1. /\ queue \in [Users -> Seq(Message)] /\ \A v \in Users : Len(queue[v]) <= MaxQueue
      /\ last \in [Users -> Versions] /\ version[u] \in Int /\ last[u] \in Int
      /\ overtaken \subseteq Users /\ lost \subseteq Users
      /\ msg.seen \in Versions /\ msg.seen \in Int /\ MaxQueue \in Nat
  BY ConstantFacts DEF TypeOK, Message, Versions
<1>2. failures' \in 0..MaxFailures
  BY FailuresStay DEF Publish
<1>3. msg.seen <= version[u] /\ (msg.seen = version[u] => msg.n \in {count[u], NoCount})
  BY DEF MessageOK
<1>4. CASE /\ Len(queue[u]) < MaxQueue
           /\ queue' = [queue EXCEPT ![u] = Append(@, msg)]
           /\ last' = [last EXCEPT ![u] = msg.seen]
           /\ overtaken' = IF msg.seen < last[u] THEN overtaken \cup {u}
                           ELSE IF msg.seen = version[u] THEN overtaken \ {u} ELSE overtaken
           /\ lost' = IF msg.seen < version[u] THEN lost
                      ELSE IF msg.n = NoCount THEN lost \cup {u} ELSE lost \ {u}
  <2>1. queue[u] \in Seq(Message) /\ queue'[u] = Append(queue[u], msg)
    BY <1>1, <1>4
  <2>2. /\ queue'[u] \in Seq(Message) /\ Len(queue'[u]) = Len(queue[u]) + 1
        /\ queue'[u][Len(queue'[u])] = msg /\ queue'[u] # <<>> /\ Len(queue[u]) \in Nat
    BY <2>1
  <2>3. last'[u] = msg.seen /\ \A v \in Users : v # u => last'[v] = last[v]
    BY <1>1, <1>4
  <2>4. \A v \in Users : v # u => queue'[v] = queue[v]
    BY <1>1, <1>4
  <2>5. /\ queue' \in [Users -> Seq(Message)]
        /\ \A v \in Users : Len(queue'[v]) <= MaxQueue
    BY <1>1, <1>4, <2>2, <2>4
  <2>6. last' \in [Users -> Versions]
    BY <1>1, <1>4
  <2>7. \A v \in Users : v # u => (v \in lost' <=> v \in lost) /\ (v \in overtaken' <=> v \in overtaken)
    BY <1>4
  <2>8. msg.seen = version[u] /\ u \notin lost' => msg.n = count[u]
    BY <1>1, <1>3, <1>4
  <2>9. u \in lost \cup overtaken \/ last[u] = version[u] \/ msg.seen = version[u] =>
          u \in lost' \cup overtaken' \/ msg.seen = version[u]
    BY <1>1, <1>3, <1>4
  <2>10. overtaken' \subseteq Users /\ lost' \subseteq Users
    BY <1>1, <1>4
  <2> QED BY <1>2, <1>3, <2>2, <2>3, <2>4, <2>5, <2>6, <2>7, <2>8, <2>9, <2>10
<1>5. CASE lost' = lost \cup {u} /\ UNCHANGED <<queue, last, overtaken>>
  BY <1>1, <1>2, <1>5
<1> QED BY <1>4, <1>5 DEF Publish

\* A publication of u keeps what is said of the last ones, whoever of the tabs of
\* u comes in with it.
LEMMA PublishedKeeps ==
    ASSUME IInv, NEW u \in Users, NEW msg \in Message, MessageOK(u, msg), Publish(u, msg),
           UNCHANGED <<count, version, view>>,
           \A c \in Clients : conn'[c] = conn[c] \/ conn'[c].at = "away" \/ conn'[c].user = u
    PROVE  LastOK' /\ TabsAgree'
<1>1. last[u] <= version[u] /\ TypeOK
  BY DEF IInv, MessagesOK
<1>2. LastOK'
  <2> SUFFICES ASSUME NEW v \in Users, last'[v] = version[v], v \notin lost'
               PROVE  /\ queue'[v] # <<>> => queue'[v][Len(queue'[v])].n = count[v]
                      /\ queue'[v] = <<>> =>
                            \A c \in Clients : conn'[c].at = "in" /\ conn'[c].user = v => view[c] = count[v]
    BY DEF LastOK
  <2>1. CASE v = u
    BY <1>1, <2>1, Published
  <2>2. CASE v # u
    <3>1. queue'[v] = queue[v] /\ last[v] = version[v] /\ v \notin lost
      BY <1>1, <2>2, Published
    <3>2. \A c \in Clients : conn'[c].at = "in" /\ conn'[c].user = v => conn[c].at = "in" /\ conn[c].user = v
      BY <2>2, ConstantFacts
    <3> QED BY <3>1, <3>2 DEF IInv, LastOK
  <2> QED BY <2>1, <2>2
<1>3. TabsAgree'
  <2> SUFFICES ASSUME NEW c \in Clients, NEW d \in Clients,
                      conn'[c].at = "in", conn'[d].at = "in", conn'[d].user = conn'[c].user,
                      queue'[conn'[c].user] = <<>>, conn'[c].user \notin lost'
               PROVE  view[c] = view[d]
    BY DEF TabsAgree
  <2>1. conn'[c].user # u
    BY <1>1, Published
  <2>2. conn[c] = conn'[c] /\ conn[d] = conn'[d] /\ conn[c].user \in Users
    BY <1>1, <2>1, UserOf
  <2>3. queue[conn[c].user] = <<>> /\ conn[c].user \notin lost
    BY <1>1, <2>1, <2>2, Published
  <2> QED BY <2>2, <2>3 DEF IInv, TabsAgree
<1> QED BY <1>2, <1>3

\* It keeps ToldOK, for the tab or the goroutine that publishes is no longer on
\* its way: what it had read is what it has published, or is lost or overtaken.
LEMMA PublishedTells ==
    ASSUME IInv, NEW u \in Users, NEW msg \in Message, MessageOK(u, msg), Publish(u, msg),
           UNCHANGED version,
           \A c \in Clients :
              \/ conn'[c].at = "away"
              \/ conn'[c].linked /\ conn'[c].user = u /\ conn'[c].at = "in"
                   /\ conn[c].linked /\ conn[c].user = u /\ conn[c].at = "publish" /\ conn[c].msg = msg
              \/ conn'[c] = conn[c],
           \A r \in Requests : pub'[r] = pub[r] \/ (pub[r].user = u /\ pub[r].at = "publish" /\ pub[r].msg = msg)
    PROVE  ToldOK'
<1>1. last[u] <= version[u] /\ TypeOK
  BY DEF IInv, MessagesOK
<1> SUFFICES ASSUME NEW c \in Clients, NEW v \in Users, conn'[c].user = v
             PROVE     /\ conn'[c].at = "in" => conn'[c].linked
                       /\ conn'[c].linked /\ conn'[c].at \in {"publish", "in"} =>
                             \/ v \in lost' \cup overtaken'
                             \/ last'[v] = version[v]
                             \/ Owed(v)'
                             \/ conn'[c].at = "publish" /\ conn'[c].msg.seen = version[v]
  BY DEF ToldOK
<1>2. CASE conn'[c].at = "away"
  BY <1>2
<1>3. CASE ~ conn'[c].at = "away"
  <2>1. /\ conn[c].user = v /\ (conn'[c].linked <=> conn[c].linked)
        /\ conn'[c] = conn[c] \/ (conn'[c].at = "in" /\ conn'[c].linked)
        /\ conn'[c].at = conn[c].at \/ conn[c].at = "publish"
        /\ conn'[c] = conn[c] \/ (conn[c].msg = msg /\ v = u)
    BY <1>3
  <2>2. conn'[c].at = "in" => conn'[c].linked
    BY <2>1 DEF IInv, ToldOK
  <2>3. SUFFICES ASSUME conn[c].linked, conn[c].at \in {"publish", "in"}
                 PROVE  \/ v \in lost' \cup overtaken'
                        \/ last'[v] = version[v]
                        \/ Owed(v)'
                        \/ conn'[c].at = "publish" /\ conn'[c].msg.seen = version[v]
    BY <1>3, <2>1, <2>2
  <2>4. \/ v \in lost \cup overtaken
        \/ last[v] = version[v]
        \/ Owed(v)
        \/ conn[c].at = "publish" /\ conn[c].msg.seen = version[v]
    BY <2>1, <2>3 DEF IInv, ToldOK
  <2>5. CASE v # u
    <3>1. /\ last'[v] = last[v] /\ (v \in lost' <=> v \in lost)
          /\ v \in overtaken' <=> v \in overtaken
      BY <1>1, <2>5, Published
    <3>2. Owed(v) => Owed(v)'
      BY <2>5, UNCHANGED version DEF Owed
    <3>3. conn'[c] = conn[c]
      BY <2>1, <2>5
    <3> QED BY <2>4, <3>1, <3>2, <3>3
  <2>6. CASE v = u
    <3>1. u \in lost \cup overtaken \/ last[u] = version[u] \/ msg.seen = version[u] =>
             u \in lost' \cup overtaken' \/ last'[u] = version[u]
      BY <1>1, Published
    <3>2. Owed(u) => Owed(u)' \/ msg.seen = version[u]
      BY DEF Owed
    <3>3. conn'[c] = conn[c] \/ conn[c].msg = msg
      BY <2>1
    <3> QED BY <2>4, <2>6, <3>1, <3>2, <3>3
  <2> QED BY <2>5, <2>6
<1> QED BY <1>2, <1>3

-----------------------------------------------------------------------------
(* Connections.                                                             *)

\* A connection that moves, but not in, disturbs nothing, if what it takes with
\* it to publish is what there is now, or it is cut.
LEMMA ConnMoves ==
    ASSUME IInv, TypeOK', NEW c \in Clients,
           UNCHANGED <<count, pub, queue, history>>,
           \A d \in Clients : d # c => conn'[d] = conn[d] /\ view'[d] = view[d],
           conn'[c].at # "in",
           conn'[c].at = "publish" =>
              /\ MessageOK(conn'[c].user, conn'[c].msg)
              /\ conn'[c].msg.seen = version[conn'[c].user] \/ ~ conn'[c].linked
    PROVE  IInv'
<1> USE DEF history
<1>1. MessagesOK'
  BY DEF IInv, MessagesOK, MessageOK
<1>2. ToldOK'
  <2> SUFFICES ASSUME NEW d \in Clients, NEW u \in Users, conn'[d].user = u
               PROVE  /\ conn'[d].at = "in" => conn'[d].linked
                      /\ conn'[d].linked /\ conn'[d].at \in {"publish", "in"} =>
                            \/ u \in lost \cup overtaken
                            \/ last[u] = version[u]
                            \/ Owed(u)'
                            \/ conn'[d].at = "publish" /\ conn'[d].msg.seen = version[u]
    BY DEF ToldOK
  <2>1. Owed(u)' <=> Owed(u)
    BY DEF Owed
  <2>2. CASE d = c
    BY <2>2
  <2>3. CASE d # c
    BY <2>1, <2>3 DEF IInv, ToldOK
  <2> QED BY <2>2, <2>3
<1>3. LastOK'
  BY DEF IInv, LastOK
<1>4. TabsAgree'
  BY DEF IInv, TabsAgree
<1> QED BY <1>1, <1>2, <1>3, <1>4 DEF IInv

\* The same for a connection: TypeOK follows.
LEMMA ConnTypeOK ==
    ASSUME TypeOK, NEW c \in Clients, NEW w \in Connection,
           w.at = "away" <=> w.user = NoUser,
           conn' = [conn EXCEPT ![c] = w],
           view' = view \/ view' = [view EXCEPT ![c] = NoCount],
           Works \/ Fails,
           UNCHANGED <<count, pub, queue, process, history>>
    PROVE  /\ TypeOK' /\ conn'[c] = w
           /\ \A d \in Clients : d # c => conn'[d] = conn[d] /\ view'[d] = view[d]
<1>1. failures' \in 0..MaxFailures
  BY FailuresStay
<1>2. /\ conn' \in [Clients -> Connection] /\ conn'[c] = w
      /\ \A d \in Clients : d # c => conn'[d] = conn[d]
  BY DEF TypeOK
<1>3. /\ view' \in [Clients -> Counts \cup {NoCount}]
      /\ \A d \in Clients : d # c => view'[d] = view[d]
  BY DEF TypeOK
<1> QED BY <1>1, <1>2, <1>3 DEF TypeOK, process, history

LEMMA ConnectKeeps ==
    ASSUME IInv, NEW c \in Clients, NEW t \in Token, Connect(c, t)
    PROVE  IInv'
<1> DEFINE w == [Away EXCEPT !.at = "on", !.linked = TRUE, !.user = JustValidateToken(t)]
<1>1. JustValidateToken(t) \in Users
  BY DEF Connect, Token, JustValidateToken
<1>2. w \in Connection /\ w.at = "on" /\ w.user \in Users
  BY <1>1, AwayFields DEF Connection
<1>3. conn' = [conn EXCEPT ![c] = w]
  BY DEF Connect
<1> HIDE DEF w
<1>4. Works /\ UNCHANGED <<count, pub, queue, process, history>> /\ view' = [view EXCEPT ![c] = NoCount]
  BY DEF Connect, Works
<1>5. /\ TypeOK' /\ conn'[c] = w
      /\ \A d \in Clients : d # c => conn'[d] = conn[d] /\ view'[d] = view[d]
  BY <1>2, <1>3, <1>4, ConnTypeOK, ConstantFacts DEF IInv
<1> QED BY <1>2, <1>4, <1>5, ConnMoves

LEMMA SubscribeKeeps ==
    ASSUME IInv, NEW c \in Clients, NEW u \in Users, Subscribe(c, u)
    PROVE  IInv'
<1> DEFINE w == [conn[c] EXCEPT !.at = "read"]
<1>1. w \in Connection /\ w.at = "read" /\ w.user = u
  BY DEF Subscribe, IInv, TypeOK, Connection
<1>2. conn' = [conn EXCEPT ![c] = w]
  BY DEF Subscribe
<1> HIDE DEF w
<1>3. Works /\ UNCHANGED <<count, pub, queue, process, history>> /\ view' = view
  BY DEF Subscribe, Works
<1>4. /\ TypeOK' /\ conn'[c] = w
      /\ \A d \in Clients : d # c => conn'[d] = conn[d] /\ view'[d] = view[d]
  BY <1>1, <1>2, <1>3, ConnTypeOK, ConstantFacts DEF IInv
<1> QED BY <1>1, <1>3, <1>4, ConnMoves

LEMMA ReadCountKeeps ==
    ASSUME IInv, NEW c \in Clients, ReadCount(c)
    PROVE  IInv'
<1> DEFINE u == conn[c].user
<1>1. u \in Users
  BY UserOf DEF ReadCount, IInv
<1>2. PICK m \in {Counted(u), Null(u)} :
         (Works \/ Fails) /\ conn' = [conn EXCEPT ![c].at = "publish", ![c].msg = m]
  BY DEF ReadCount
<1>3. m \in Message /\ m.seen = version[u] /\ MessageOK(u, m)
  BY <1>1, <1>2, CountedOK DEF IInv
<1> DEFINE w == [conn[c] EXCEPT !.at = "publish", !.msg = m]
<1>4. w \in Connection /\ w.at = "publish" /\ w.user = u /\ w.msg = m
  BY <1>3 DEF IInv, TypeOK, Connection
<1>5. conn' = [conn EXCEPT ![c] = w]
  BY <1>2
<1> HIDE DEF w, u
<1>6. UNCHANGED <<count, pub, queue, process, history>> /\ view' = view
  BY DEF ReadCount
<1>7. /\ TypeOK' /\ conn'[c] = w
      /\ \A d \in Clients : d # c => conn'[d] = conn[d] /\ view'[d] = view[d]
  BY <1>1, <1>2, <1>4, <1>5, <1>6, ConnTypeOK, ConstantFacts DEF IInv
<1> QED BY <1>3, <1>4, <1>6, <1>7, ConnMoves

LEMMA DisconnectKeeps ==
    ASSUME IInv, NEW c \in Clients, Disconnect(c)
    PROVE  IInv'
<1> DEFINE w == IF conn[c].at \in {"read", "publish"} THEN [conn[c] EXCEPT !.linked = FALSE] ELSE Away
<1>1. /\ w \in Connection /\ (w.at = "away" <=> w.user = NoUser) /\ w.at # "in"
      /\ w.at = "publish" => ~ w.linked /\ conn[c].at = "publish" /\ w.user = conn[c].user /\ w.msg = conn[c].msg
  <2>1. conn[c] \in Connection /\ (conn[c].at = "away" <=> conn[c].user = NoUser)
    BY DEF IInv, TypeOK
  <2>2. CASE conn[c].at \in {"read", "publish"}
    BY <2>1, <2>2 DEF Connection
  <2>3. CASE ~ conn[c].at \in {"read", "publish"}
    BY <2>3, AwayFields
  <2> QED BY <2>2, <2>3
<1>2. conn' = [conn EXCEPT ![c] = w]
  BY DEF Disconnect
<1> HIDE DEF w
<1>3. Works /\ UNCHANGED <<count, pub, queue, process, history>> /\ view' = view
  BY DEF Disconnect, Works
<1>4. /\ TypeOK' /\ conn'[c] = w
      /\ \A d \in Clients : d # c => conn'[d] = conn[d] /\ view'[d] = view[d]
  BY <1>1, <1>2, <1>3, ConnTypeOK DEF IInv
<1>5. conn'[c].at = "publish" => MessageOK(conn'[c].user, conn'[c].msg)
  BY <1>1, <1>4 DEF IInv, MessagesOK
<1> QED BY <1>1, <1>3, <1>4, <1>5, ConnMoves

LEMMA PublishCountKeeps ==
    ASSUME IInv, NEW c \in Clients, PublishCount(c)
    PROVE  IInv'
<1>1. PICK u, msg : u = conn[c].user /\ msg = conn[c].msg
  OBVIOUS
<1>2. /\ u \in Users /\ msg \in Message /\ conn[c] \in Connection /\ conn[c].at = "publish"
      /\ MessageOK(u, msg) /\ last[u] <= version[u]
  BY <1>1, UserOf DEF PublishCount, IInv, TypeOK, Connection, MessagesOK
<1>3. Publish(u, msg) /\ UNCHANGED <<count, pub, view, process, version>>
  BY <1>1 DEF PublishCount
<1> DEFINE w == IF conn[c].linked THEN [conn[c] EXCEPT !.at = "in", !.msg = NoMessage] ELSE Away
<1>4. /\ w \in Connection /\ (w.at = "away" <=> w.user = NoUser)
      /\ w.at = "away" \/ (conn[c].linked /\ w.linked /\ w.at = "in" /\ w.user = u)
  <2>1. CASE conn[c].linked
    BY <1>1, <1>2, <2>1, ConstantFacts, AwayFields DEF Connection
  <2>2. CASE ~ conn[c].linked
    BY <2>2, AwayFields
  <2> QED BY <2>1, <2>2
<1>5. conn' = [conn EXCEPT ![c] = w]
  BY DEF PublishCount, Subscribed
<1> HIDE DEF w
<1>6. /\ conn' \in [Clients -> Connection] /\ conn'[c] = w
      /\ \A d \in Clients : d # c => conn'[d] = conn[d]
  BY <1>4, <1>5 DEF IInv, TypeOK
<1>7. TypeOK
  BY DEF IInv
<1>8. TypeOK'
  <2>1. \A d \in Clients : conn'[d].at = "away" <=> conn'[d].user = NoUser
    BY <1>4, <1>6 DEF IInv, TypeOK
  <2>2. /\ queue' \in [Users -> Seq(Message)] /\ \A v \in Users : Len(queue'[v]) <= MaxQueue
        /\ last' \in [Users -> Versions] /\ overtaken' \subseteq Users /\ lost' \subseteq Users
        /\ failures' \in 0..MaxFailures
    BY <1>2, <1>3, <1>7, Published
  <2> QED BY <1>3, <1>6, <2>1, <2>2 DEF IInv, TypeOK, process
<1>9. MessagesOK'
  <2>1. \A d \in Clients : conn'[d].at = "publish" => conn'[d] = conn[d]
    BY <1>4, <1>6
  <2>2. \A v \in Users : last'[v] <= version[v]
    BY <1>2, <1>3, <1>7, Published DEF IInv, MessagesOK
  <2> QED BY <1>3, <2>1, <2>2 DEF IInv, MessagesOK, MessageOK
<1>10. LastOK' /\ TabsAgree'
  <2>1. \A d \in Clients : conn'[d] = conn[d] \/ conn'[d].at = "away" \/ conn'[d].user = u
    BY <1>4, <1>6
  <2> QED BY <1>2, <1>3, <2>1, PublishedKeeps
<1>11. ToldOK'
  <2>1. \A d \in Clients :
              \/ conn'[d].at = "away"
              \/ conn'[d].linked /\ conn'[d].user = u /\ conn'[d].at = "in"
                   /\ conn[d].linked /\ conn[d].user = u /\ conn[d].at = "publish" /\ conn[d].msg = msg
              \/ conn'[d] = conn[d]
    BY <1>1, <1>2, <1>4, <1>6
  <2> QED BY <1>2, <1>3, <2>1, PublishedTells
<1> QED BY <1>8, <1>9, <1>10, <1>11 DEF IInv

-----------------------------------------------------------------------------
(* Requests.                                                                *)

\* A goroutine takes its next step.
LEMMA PubTypeOK ==
    ASSUME TypeOK, NEW r \in Requests, NEW p \in Publisher,
           p.at = "idle" <=> p.user = NoUser,
           pub' = [pub EXCEPT ![r] = p]
    PROVE  /\ pub' \in [Requests -> Publisher] /\ pub'[r] = p
           /\ \A q \in Requests : q # r => pub'[q] = pub[q]
           /\ \A q \in Requests : pub'[q].at = "idle" <=> pub'[q].user = NoUser
  BY DEF TypeOK

\* The last change of u is no longer what was published last; its writer owes it.
LEMMA WriteKeeps ==
    ASSUME IInv, NEW r \in Requests, NEW u \in Users, NEW n \in Counts, Write(r, u, n)
    PROVE  IInv'
<1> DEFINE p == [Idle EXCEPT !.at = "check", !.user = u]
<1>1. p \in Publisher /\ p.at = "check" /\ p.user = u /\ pub' = [pub EXCEPT ![r] = p]
  BY IdleFields DEF Write, Publisher
<1> HIDE DEF p
<1>2. TypeOK /\ UNCHANGED <<conn, queue, view, phase, node, watcher, failures, last, overtaken, lost>>
  BY DEF IInv, Write, process
<1>3. /\ pub' \in [Requests -> Publisher] /\ pub'[r] = p
      /\ \A q \in Requests : q # r => pub'[q] = pub[q]
      /\ \A q \in Requests : pub'[q].at = "idle" <=> pub'[q].user = NoUser
  BY <1>1, <1>2, PubTypeOK, ConstantFacts
<1>4. /\ count' \in [Users -> Counts] /\ version' \in [Users -> Versions]
      /\ version'[u] = version[u] + 1 /\ version[u] \in Int
      /\ \A v \in Users : v # u => count'[v] = count[v] /\ version'[v] = version[v]
  BY <1>2, ConstantFacts DEF Write, TypeOK, Versions
<1>5. TypeOK'
  BY <1>2, <1>3, <1>4 DEF TypeOK
<1>6. \A v \in Users, msg \in Message : MessageOK(v, msg) =>
         msg.seen <= version'[v] /\ (msg.seen = version'[v] => msg.n \in {count'[v], NoCount})
  <2> SUFFICES ASSUME NEW v \in Users, NEW msg \in Message, MessageOK(v, msg)
               PROVE  msg.seen <= version'[v] /\ (msg.seen = version'[v] => msg.n \in {count'[v], NoCount})
    OBVIOUS
  <2>1. msg.seen \in Int
    BY ConstantFacts DEF Message
  <2> QED BY <1>4, <2>1 DEF MessageOK
<1>7. MessagesOK'
  <2>1. \A q \in Requests : pub'[q].at = "publish" => pub[q].at = "publish" /\ pub'[q] = pub[q]
    BY <1>1, <1>3
  <2>2. \A c \in Clients : conn[c].at = "publish" =>
           conn[c].user \in Users /\ conn[c].msg \in Message /\ MessageOK(conn[c].user, conn[c].msg)
    BY <1>2, UserOf DEF TypeOK, Connection, IInv, MessagesOK
  <2>3. \A q \in Requests : pub[q].at = "publish" =>
           pub[q].user \in Users /\ pub[q].msg \in Message /\ MessageOK(pub[q].user, pub[q].msg)
    BY <1>2, UserOf DEF TypeOK, Publisher, IInv, MessagesOK
  <2>4. ASSUME NEW v \in Users PROVE last[v] <= version'[v]
    <3>1. last[v] \in Int /\ version[v] \in Int /\ last[v] <= version[v]
      BY <1>2, ConstantFacts DEF IInv, MessagesOK, TypeOK
    <3> QED BY <1>4, <3>1
  <2>5. ASSUME NEW c \in Clients, conn[c].at = "publish"
        PROVE  LET msg == conn[c].msg v == conn[c].user IN
                  msg.seen <= version'[v] /\ (msg.seen = version'[v] => msg.n \in {count'[v], NoCount})
    BY <1>6, <2>2, <2>5
  <2>6. ASSUME NEW q \in Requests, pub[q].at = "publish"
        PROVE  LET msg == pub[q].msg v == pub[q].user IN
                  msg.seen <= version'[v] /\ (msg.seen = version'[v] => msg.n \in {count'[v], NoCount})
    BY <1>6, <2>3, <2>6
  <2> QED BY <1>2, <2>1, <2>4, <2>5, <2>6 DEF MessagesOK, MessageOK
<1>8. ToldOK'
  <2> SUFFICES ASSUME NEW c \in Clients, NEW v \in Users, conn[c].user = v
               PROVE  /\ conn[c].at = "in" => conn[c].linked
                      /\ conn[c].linked /\ conn[c].at \in {"publish", "in"} =>
                            \/ v \in lost \cup overtaken
                            \/ last[v] = version'[v]
                            \/ Owed(v)'
                            \/ conn[c].at = "publish" /\ conn[c].msg.seen = version'[v]
    BY <1>2 DEF ToldOK
  <2>1. Owed(u)'
    BY <1>1, <1>3 DEF Owed
  <2>2. v # u => (Owed(v) => Owed(v)')
    <3> SUFFICES ASSUME v # u, NEW q \in Requests, pub[q].user = v,
                        pub[q].at \in {"check", "read"} \/ (pub[q].at = "publish" /\ pub[q].msg.seen = version[v])
                 PROVE  Owed(v)'
      BY DEF Owed
    <3>1. q # r
      BY ConstantFacts DEF Write
    <3> QED BY <1>3, <1>4, <3>1 DEF Owed
  <2> QED BY <1>4, <2>1, <2>2 DEF IInv, ToldOK
<1>9. LastOK'
  <2>1. last[u] # version'[u]
    BY <1>2, <1>4, ConstantFacts DEF IInv, MessagesOK, TypeOK
  <2> QED BY <1>2, <1>4, <2>1 DEF IInv, LastOK
<1>10. TabsAgree'
  BY <1>2 DEF IInv, TabsAgree
<1> QED BY <1>5, <1>7, <1>8, <1>9, <1>10 DEF IInv

LEMMA CheckKeeps ==
    ASSUME IInv, NEW r \in Requests, Check(r)
    PROVE  IInv'
<1>1. PICK u : u = pub[r].user
  OBVIOUS
<1>2. /\ TypeOK /\ u \in Users /\ pub[r].at = "check"
      /\ UNCHANGED <<count, conn, queue, view, phase, node, watcher, failures, version, last, overtaken, lost>>
  BY <1>1, UserOf DEF IInv, Check, process, history
<1> DEFINE p == IF Tabs(u) = {} THEN Idle ELSE [pub[r] EXCEPT !.at = "read"]
<1>3. /\ p \in Publisher /\ (p.at = "idle" <=> p.user = NoUser) /\ p.at # "publish"
      /\ Tabs(u) # {} => p.at = "read" /\ p.user = u
  <2>1. CASE Tabs(u) = {}
    BY <2>1, IdleFields
  <2>2. CASE Tabs(u) # {}
    BY <1>1, <1>2, <2>2, ConstantFacts DEF TypeOK, Publisher
  <2> QED BY <2>1, <2>2
<1>4. pub' = [pub EXCEPT ![r] = p]
  BY <1>1 DEF Check
<1> HIDE DEF p
<1>5. /\ pub' \in [Requests -> Publisher] /\ pub'[r] = p
      /\ \A q \in Requests : q # r => pub'[q] = pub[q]
      /\ \A q \in Requests : pub'[q].at = "idle" <=> pub'[q].user = NoUser
  BY <1>2, <1>3, <1>4, PubTypeOK
<1>6. TypeOK'
  BY <1>2, <1>5 DEF TypeOK
<1>7. MessagesOK'
  <2>1. \A q \in Requests : pub'[q].at = "publish" => pub'[q] = pub[q]
    BY <1>3, <1>5
  <2> QED BY <1>2, <2>1 DEF IInv, MessagesOK, MessageOK
<1>8. ToldOK'
  <2> SUFFICES ASSUME NEW c \in Clients, NEW v \in Users, conn[c].user = v,
                      conn[c].linked, conn[c].at \in {"publish", "in"}, Owed(v)
               PROVE  Owed(v)'
    BY <1>2 DEF IInv, ToldOK
  <2>1. v = u => p.at = "read" /\ p.user = u
    BY <1>3 DEF Tabs
  <2> QED BY <1>1, <1>2, <1>5, <2>1 DEF Owed
<1>9. LastOK' /\ TabsAgree'
  BY <1>2 DEF IInv, LastOK, TabsAgree
<1> QED BY <1>6, <1>7, <1>8, <1>9 DEF IInv

LEMMA ReadKeeps ==
    ASSUME IInv, NEW r \in Requests, Read(r)
    PROVE  IInv'
<1>1. PICK u : u = pub[r].user
  OBVIOUS
<1>2. /\ TypeOK /\ u \in Users /\ pub[r].at = "read" /\ failures' \in 0..MaxFailures
      /\ UNCHANGED <<count, conn, queue, view, phase, node, watcher, version, last, overtaken>>
  BY <1>1, UserOf, FailuresStay DEF IInv, Read, process
<1>3. PICK p \in Publisher :
         /\ pub' = [pub EXCEPT ![r] = p] /\ (p.at = "idle" <=> p.user = NoUser)
         /\ \/ /\ lost' = lost /\ p.at = "publish" /\ p.user = u
               /\ p.msg.seen = version[u] /\ MessageOK(u, p.msg)
            \/ lost' = lost \cup {u} /\ p.at = "idle"
  <2>1. CASE pub' = [pub EXCEPT ![r].at = "publish", ![r].msg = Counted(u)] /\ lost' = lost
    <3> DEFINE p == [pub[r] EXCEPT !.at = "publish", !.msg = Counted(u)]
    <3>1. /\ p \in Publisher /\ p.at = "publish" /\ p.user = u /\ p.msg = Counted(u)
          /\ p.user # NoUser /\ Counted(u).seen = version[u] /\ MessageOK(u, Counted(u))
      BY <1>1, <1>2, CountedOK, ConstantFacts DEF TypeOK, Publisher
    <3>2. pub' = [pub EXCEPT ![r] = p]
      BY <2>1
    <3> HIDE DEF p
    <3> QED BY <2>1, <3>1, <3>2
  <2>2. CASE pub' = [pub EXCEPT ![r] = Idle] /\ lost' = lost \cup {u}
    BY <2>2, IdleFields
  <2> QED BY <1>1, <2>1, <2>2 DEF Read
<1>4. /\ pub' \in [Requests -> Publisher] /\ pub'[r] = p
      /\ \A q \in Requests : q # r => pub'[q] = pub[q]
      /\ \A q \in Requests : pub'[q].at = "idle" <=> pub'[q].user = NoUser
  BY <1>2, <1>3, PubTypeOK
<1>5. lost' \subseteq Users /\ lost \subseteq lost'
  BY <1>2, <1>3 DEF TypeOK
<1>6. TypeOK'
  BY <1>2, <1>4, <1>5 DEF TypeOK
<1>7. MessagesOK'
  <2>1. \A q \in Requests : pub'[q].at = "publish" =>
           pub'[q] = pub[q] \/ (pub'[q].user = u /\ MessageOK(u, pub'[q].msg))
    BY <1>3, <1>4
  <2> QED BY <1>2, <2>1 DEF IInv, MessagesOK, MessageOK
<1>8. ToldOK'
  <2>1. ASSUME NEW v \in Users, Owed(v)
        PROVE  Owed(v)' \/ v \in lost'
    <3>1. PICK q \in Requests :
             /\ pub[q].user = v
             /\ pub[q].at \in {"check", "read"} \/ (pub[q].at = "publish" /\ pub[q].msg.seen = version[v])
      BY <2>1 DEF Owed
    <3>2. CASE q = r
      BY <1>1, <1>2, <1>3, <1>4, <3>1, <3>2 DEF Owed
    <3>3. CASE q # r
      BY <1>2, <1>4, <3>1, <3>3 DEF Owed
    <3> QED BY <3>2, <3>3
  <2> SUFFICES ASSUME NEW c \in Clients, NEW v \in Users, conn[c].user = v
               PROVE  /\ conn[c].at = "in" => conn[c].linked
                      /\ conn[c].linked /\ conn[c].at \in {"publish", "in"} =>
                            \/ v \in lost' \cup overtaken
                            \/ last[v] = version[v]
                            \/ Owed(v)'
                            \/ conn[c].at = "publish" /\ conn[c].msg.seen = version[v]
    BY <1>2 DEF ToldOK
  <2> QED BY <1>5, <2>1 DEF IInv, ToldOK
<1>9. LastOK' /\ TabsAgree'
  BY <1>2, <1>5 DEF IInv, LastOK, TabsAgree
<1> QED BY <1>6, <1>7, <1>8, <1>9 DEF IInv

LEMMA PublishReadKeeps ==
    ASSUME IInv, NEW r \in Requests, PublishRead(r)
    PROVE  IInv'
<1>1. PICK u, msg : u = pub[r].user /\ msg = pub[r].msg
  OBVIOUS
<1>2. /\ u \in Users /\ msg \in Message /\ pub[r].at = "publish"
      /\ MessageOK(u, msg) /\ last[u] <= version[u] /\ TypeOK
  BY <1>1, UserOf DEF PublishRead, IInv, TypeOK, Publisher, MessagesOK
<1>3. Publish(u, msg) /\ UNCHANGED <<count, conn, view, phase, node, watcher, version>>
  BY <1>1 DEF PublishRead, process
<1>4. /\ pub' \in [Requests -> Publisher] /\ pub'[r] = Idle
      /\ \A q \in Requests : q # r => pub'[q] = pub[q]
      /\ \A q \in Requests : pub'[q].at = "idle" <=> pub'[q].user = NoUser
  BY <1>2, PubTypeOK, IdleFields DEF PublishRead
<1>5. TypeOK'
  <2>1. /\ queue' \in [Users -> Seq(Message)] /\ \A v \in Users : Len(queue'[v]) <= MaxQueue
        /\ last' \in [Users -> Versions] /\ overtaken' \subseteq Users /\ lost' \subseteq Users
        /\ failures' \in 0..MaxFailures
    BY <1>2, <1>3, Published
  <2> QED BY <1>2, <1>3, <1>4, <2>1 DEF TypeOK
<1>6. MessagesOK'
  <2>1. \A q \in Requests : pub'[q].at = "publish" => pub'[q] = pub[q]
    BY <1>4, IdleFields
  <2>2. \A v \in Users : last'[v] <= version[v]
    BY <1>2, <1>3, Published DEF IInv, MessagesOK
  <2> QED BY <1>3, <2>1, <2>2 DEF IInv, MessagesOK, MessageOK
<1>7. LastOK' /\ TabsAgree'
  BY <1>2, <1>3, PublishedKeeps
<1>8. ToldOK'
  <2>1. \A q \in Requests : pub'[q] = pub[q] \/ (pub[q].user = u /\ pub[q].at = "publish" /\ pub[q].msg = msg)
    BY <1>1, <1>2, <1>4
  <2>2. \A c \in Clients : conn'[c] = conn[c]
    BY <1>3
  <2> QED BY <1>2, <1>3, <2>1, <2>2, PublishedTells
<1> QED BY <1>5, <1>6, <1>7, <1>8 DEF IInv

-----------------------------------------------------------------------------
(* Delivery and the process.                                                *)

LEMMA DeliverKeeps ==
    ASSUME IInv, NEW u \in Users, Deliver(u)
    PROVE  IInv'
<1>1. /\ TypeOK /\ UNCHANGED <<count, conn, pub, phase, node, watcher, failures, version, last, overtaken, lost>>
      /\ queue[u] # <<>> /\ queue[u] \in Seq(Message)
  BY DEF IInv, TypeOK, Deliver, process, history
<1>2. /\ queue'[u] = Tail(queue[u]) /\ queue'[u] \in Seq(Message)
      /\ Len(queue'[u]) <= Len(queue[u]) /\ Head(queue[u]) \in Message
      /\ queue'[u] # <<>> => queue'[u][Len(queue'[u])] = queue[u][Len(queue[u])]
      /\ queue'[u] = <<>> => Head(queue[u]) = queue[u][Len(queue[u])]
  <2>1. queue'[u] = Tail(queue[u]) /\ Len(queue[u]) \in Nat /\ Len(queue[u]) > 0
    BY <1>1 DEF Deliver, TypeOK
  <2>2. /\ Tail(queue[u]) \in Seq(Message) /\ Len(Tail(queue[u])) = Len(queue[u]) - 1
        /\ Head(queue[u]) \in Message /\ Head(queue[u]) = queue[u][1]
        /\ \A i \in 1..(Len(queue[u]) - 1) : Tail(queue[u])[i] = queue[u][i + 1]
    BY <1>1, <2>1
  <2>3. queue'[u] # <<>> => Len(queue[u]) > 1
    BY <2>1, <2>2
  <2>4. queue'[u] = <<>> => Len(queue[u]) = 1
    <3>1. PICK s : s = Tail(queue[u])
      OBVIOUS
    <3>2. s = <<>> => Len(s) = 0
      OBVIOUS
    <3>3. Len(s) = Len(queue[u]) - 1
      BY <2>2, <3>1
    <3>4. queue'[u] = s
      BY <2>1, <3>1
    <3> QED BY <2>1, <3>2, <3>3, <3>4
  <2> QED BY <2>1, <2>2, <2>3, <2>4
<1>3. \A v \in Users : v # u => queue'[v] = queue[v]
  BY DEF Deliver, IInv, TypeOK
<1>4. /\ queue' \in [Users -> Seq(Message)] /\ \A v \in Users : Len(queue'[v]) <= MaxQueue
  <2>1. queue' = [queue EXCEPT ![u] = Tail(@)] /\ queue \in [Users -> Seq(Message)]
    BY <1>1 DEF Deliver, TypeOK
  <2>2. Len(queue[u]) \in Nat /\ Len(queue'[u]) \in Nat /\ MaxQueue \in Nat /\ Len(queue[u]) <= MaxQueue
    BY <1>1, <1>2, ConstantFacts DEF TypeOK
  <2> QED BY <1>1, <1>2, <1>3, <2>1, <2>2 DEF TypeOK
<1>5. /\ view' \in [Clients -> Counts \cup {NoCount}]
      /\ \A c \in Clients : view'[c] = IF c \in Tabs(u) THEN Head(queue[u]).n ELSE view[c]
  BY <1>1, <1>2 DEF Deliver, TypeOK, Message
<1>6. TypeOK'
  BY <1>1, <1>4, <1>5 DEF TypeOK
<1>7. MessagesOK'
  BY <1>1 DEF IInv, MessagesOK, MessageOK
<1>8. ToldOK'
  BY <1>1 DEF IInv, ToldOK, Owed
<1>9. \A c \in Clients : conn[c].at = "in" =>
         view'[c] = IF conn[c].user = u THEN Head(queue[u]).n ELSE view[c]
  BY <1>5 DEF IInv, ToldOK, Tabs
<1>10. LastOK'
  <2> SUFFICES ASSUME NEW v \in Users, last[v] = version[v], v \notin lost
               PROVE  /\ queue'[v] # <<>> => queue'[v][Len(queue'[v])].n = count[v]
                      /\ queue'[v] = <<>> =>
                            \A c \in Clients : conn[c].at = "in" /\ conn[c].user = v => view'[c] = count[v]
    BY <1>1 DEF LastOK
  <2>1. CASE v = u
    BY <1>1, <1>2, <1>9, <2>1 DEF IInv, LastOK
  <2>2. CASE v # u
    BY <1>3, <1>9, <2>2 DEF IInv, LastOK
  <2> QED BY <2>1, <2>2
<1>11. TabsAgree'
  <2> SUFFICES ASSUME NEW c \in Clients, NEW d \in Clients, conn[c].at = "in", conn[d].at = "in",
                      conn[d].user = conn[c].user, queue'[conn[c].user] = <<>>, conn[c].user \notin lost
               PROVE  view'[c] = view'[d]
    BY <1>1 DEF TabsAgree
  <2>1. CASE conn[c].user = u
    BY <1>9, <2>1
  <2>2. CASE conn[c].user # u
    <3>1. queue[conn[c].user] = <<>>
      BY <1>1, <1>3, <2>2, UserOf
    <3> QED BY <1>9, <2>2, <3>1 DEF IInv, TabsAgree
  <2> QED BY <2>1, <2>2
<1> QED BY <1>6, <1>7, <1>8, <1>10, <1>11 DEF IInv

\* The process, and steps that change nothing.
LEMMA ProcessKeeps ==
    ASSUME IInv, TypeOK', UNCHANGED <<count, conn, pub, queue, view, version, last, overtaken, lost>>
    PROVE  IInv'
<1>1. MessagesOK' /\ ToldOK'
  BY DEF IInv, MessagesOK, MessageOK, ToldOK, Owed
<1>2. LastOK' /\ TabsAgree'
  BY DEF IInv, LastOK, TabsAgree
<1> QED BY <1>1, <1>2 DEF IInv

LEMMA ExitKeeps ==
    ASSUME IInv, Exit
    PROVE  IInv'
<1>1. /\ \A c \in Clients : conn'[c] = Away
      /\ \A r \in Requests : pub'[r] = Idle
  BY DEF Exit
<1>2. TypeOK'
  BY <1>1, ConstantFacts, AwayFields, IdleFields DEF Exit, IInv, TypeOK, history
<1>3. MessagesOK'
  BY <1>1, AwayFields, IdleFields DEF Exit, IInv, MessagesOK, history
<1>4. ToldOK'
  BY <1>1, AwayFields DEF ToldOK
<1>5. LastOK'
  <2>1. \A u \in Users : queue'[u] = <<>>
    BY DEF Exit
  <2> QED BY <1>1, <2>1, AwayFields DEF LastOK
<1>6. TabsAgree'
  BY <1>1, AwayFields DEF TabsAgree
<1> QED BY <1>2, <1>3, <1>4, <1>5, <1>6 DEF IInv

LEMMA NextIInv == IInv /\ [Next]_vars => IInv'
<1> SUFFICES ASSUME IInv, [Next]_vars PROVE IInv'
  OBVIOUS
<1>1. ASSUME NEW c \in Clients,
             (\E t \in Token : Connect(c, t)) \/ (\E u \in Users : Subscribe(c, u))
             \/ ReadCount(c) \/ PublishCount(c) \/ Disconnect(c)
      PROVE  IInv'
  BY <1>1, ConnectKeeps, SubscribeKeeps, ReadCountKeeps, PublishCountKeeps, DisconnectKeeps
<1>2. ASSUME NEW r \in Requests,
             (\E u \in Users, n \in Counts : Write(r, u, n)) \/ Check(r) \/ Read(r) \/ PublishRead(r)
      PROVE  IInv'
  BY <1>2, WriteKeeps, CheckKeeps, ReadKeeps, PublishReadKeeps
<1>3. ASSUME NEW u \in Users, Deliver(u) PROVE IInv'
  BY <1>3, DeliverKeeps
<1>4. CASE Start
  <2>1. failures' \in 0..MaxFailures
    BY <1>4, FailuresStay DEF Start, IInv
  <2>2. TypeOK'
    BY <1>4, <2>1 DEF Start, IInv, TypeOK, history
  <2> QED BY <1>4, <2>2, ProcessKeeps DEF Start, history
<1>5. CASE Stop
  BY <1>5, ProcessKeeps DEF Stop, IInv, TypeOK, history
<1>6. CASE WatcherEnds
  BY <1>6, ProcessKeeps DEF WatcherEnds, IInv, TypeOK, history
<1>7. CASE Exit
  BY <1>7, ExitKeeps
<1>8. CASE UNCHANGED vars
  <2>1. TypeOK'
    BY <1>8 DEF vars, IInv, TypeOK
  <2> QED BY <1>8, <2>1, ProcessKeeps DEF vars
<1> QED BY <1>1, <1>2, <1>3, <1>4, <1>5, <1>6, <1>7, <1>8 DEF Next

\* Nothing of u is under way: nobody owes its number any more.
LEMMA QuietOwesNothing ==
    ASSUME NEW u \in Users, Quiet(u)
    PROVE  ~ Owed(u) /\ queue[u] = <<>>
  BY DEF Quiet, Owed

LEMMA IInvLastCount == IInv => LastCountHolds
<1> SUFFICES ASSUME IInv, NEW u \in Users, Quiet(u), NEW c \in Tabs(u), conn[c].at = "in",
                    u \notin lost \cup overtaken
             PROVE  view[c] = count[u]
  BY DEF LastCountHolds
<1>1. c \in Clients /\ conn[c].user = u /\ conn[c].linked
  BY DEF Tabs
<1>2. last[u] = version[u]
  BY <1>1, QuietOwesNothing DEF IInv, ToldOK
<1> QED BY <1>1, <1>2, QuietOwesNothing DEF IInv, LastOK

-----------------------------------------------------------------------------
(* The theorems.                                                            *)

\* The inductive invariant: every count under way is of the state it claims to
\* be of, whoever listens has been told of the last change or will be, and the
\* last publication of the last change has its number (centrifugal.go 90-136,
\* 196-270).
THEOREM Invariant == Spec => []IInv
<1>1. Init => IInv
  BY InitIInv
<1>2. IInv /\ [Next]_vars => IInv'
  BY NextIInv
<1> QED BY <1>1, <1>2, PTL DEF Spec

\* Connections and goroutines are where the code can be, with the user they have
\* there, and no channel holds more than its bound (centrifugal.go 72-136,
\* 196-270).
THEOREM TypeCorrect == Spec => []TypeOK
<1>1. IInv => TypeOK
  BY DEF IInv
<1> QED BY <1>1, Invariant, PTL

\* Once nothing of a user is under way, each of its tabs shows the number of its
\* unread notifications, but for a failure and for two publications of which the
\* older count went out last (centrifugal.go 111-127 against 239-267): reading
\* the number when a tab subscribes and asking who listens before each
\* publication leave no other gap, whatever writes fall between.
THEOREM TabsShowLastCount == Spec => []LastCountHolds
<1>1. IInv => LastCountHolds
  BY IInvLastCount
<1> QED BY <1>1, Invariant, PTL

\* All tabs of a user show the same number once all publications of its channel
\* have been delivered, but for one that failed (centrifugal.go 124, 265).
THEOREM TabsAlwaysAgree == Spec => []TabsAgree
<1>1. IInv => TabsAgree
  BY DEF IInv
<1> QED BY <1>1, Invariant, PTL
=============================================================================
