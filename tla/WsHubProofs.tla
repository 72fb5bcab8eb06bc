----------------------------- MODULE WsHubProofs -----------------------------
(***************************************************************************)
(* What WsHub keeps, for every set of users, connections and queries and   *)
(* every size of the send channels.                                        *)
(***************************************************************************)
EXTENDS WsHub, SequenceTheorems, TLAPS

\* A message put on send channels leaves every channel a channel.
LEMMA PutType ==
    ASSUME TypeOK, NEW msg \in Queries \cup {Event}, NEW to, Put(msg, to)
    PROVE  /\ queue' \in [Conns -> Seq(Queries \cup {Event})]
           /\ \A c \in Conns : Len(queue'[c]) <= sendBuf
<1>1. ASSUME NEW c \in Conns
      PROVE  /\ queue'[c] \in Seq(Queries \cup {Event})
             /\ Len(queue'[c]) <= sendBuf
  <2>1. queue[c] \in Seq(Queries \cup {Event}) /\ Len(queue[c]) <= sendBuf
    BY DEF TypeOK
  <2>2. CASE c \in to /\ Len(queue[c]) < sendBuf
    <3>1. queue'[c] = Append(queue[c], msg)
      BY <2>2 DEF Put
    <3>2. /\ Append(queue[c], msg) \in Seq(Queries \cup {Event})
          /\ Len(Append(queue[c], msg)) = Len(queue[c]) + 1
      BY <2>1
    <3> QED
      BY <2>1, <2>2, <3>1, <3>2, BoundsAssumption
  <2>3. CASE ~(c \in to /\ Len(queue[c]) < sendBuf)
    BY <2>1, <2>3 DEF Put
  <2> QED
    BY <2>2, <2>3
<1> QED
  BY <1>1 DEF Put

\* A message put on send channels is in none but those it is put on.
LEMMA PutContent ==
    ASSUME TypeOK, NEW msg \in Queries \cup {Event}, NEW to, Put(msg, to),
           NEW c \in Conns, NEW i \in DOMAIN queue'[c]
    PROVE  \/ c \in to /\ queue'[c][i] = msg
           \/ i \in DOMAIN queue[c] /\ queue'[c][i] = queue[c][i]
<1>1. queue[c] \in Seq(Queries \cup {Event})
  BY DEF TypeOK
<1>2. CASE c \in to /\ Len(queue[c]) < sendBuf
  <2>1. queue'[c] = Append(queue[c], msg)
    BY <1>2 DEF Put
  <2> QED
    BY <1>1, <1>2, <2>1
<1>3. CASE ~(c \in to /\ Len(queue[c]) < sendBuf)
  BY <1>3 DEF Put
<1> QED
  BY <1>2, <1>3

\* A round trip that goes on, with an outcome or without.
LEMMA TripForms ==
    ASSUME NEW t \in Trips, NEW at \in {"send", "wait", "unregister", "returned"},
           NEW outcome \in Conns \cup {"no editor", "timeout", NoOutcome}
    PROVE  /\ [t EXCEPT !.at = at] \in Trips
           /\ [t EXCEPT !.at = at, !.outcome = outcome] \in Trips
  BY DEF Trips

\* Every variable stays in its type; no send channel holds more than it has room for.
THEOREM TypeCorrect == Spec => []TypeOK
<1>1. Init => TypeOK
  BY BoundsAssumption DEF Init, TypeOK, Trips
<1>2. TypeOK /\ [Next]_vars => TypeOK'
  <2> SUFFICES ASSUME TypeOK, [Next]_vars PROVE TypeOK'
    OBVIOUS
  <2> USE DEF switchVars, connVars, queryVars
  <2>1. CASE Broadcast
    BY <2>1, PutType DEF Broadcast, TypeOK
  <2>2. ASSUME NEW c \in Conns, Enter(c) PROVE TypeOK'
    BY <2>2, PutType DEF Enter, TypeOK
  <2>3. ASSUME NEW c \in Conns, Read(c) PROVE TypeOK'
    <3>1. CASE \E q \in seen[c] \cap pending : Claims(c, q)
      <4>1. PICK q \in seen[c] \cap pending : Claims(c, q)
        BY <3>1
      <4>2. q \in Queries
        BY DEF TypeOK
      <4>3. completing' \in [Conns -> Queries \cup {NoQuery}]
        BY <4>1, <4>2 DEF Claims, TypeOK
      <4> QED
        BY <2>3, <4>1, <4>3 DEF Read, Claims, TypeOK
    <3>2. CASE UNCHANGED <<reader, completing, pending>>
      BY <2>3, <3>2 DEF Read, TypeOK
    <3> QED
      BY <2>3, <3>1, <3>2 DEF Read
  <2>4. ASSUME NEW c \in Conns, Complete(c) PROVE TypeOK'
    <3>1. chan' \in [Queries -> Conns \cup {NoOutcome}]
      BY <2>4 DEF Complete, TypeOK
    <3> QED
      BY <2>4, <3>1 DEF Complete, TypeOK
  <2>5. ASSUME NEW c \in Conns, Leave(c) PROVE TypeOK'
    BY <2>5 DEF Leave, Removes, TypeOK
  <2>6. ASSUME NEW c \in Conns, Release(c) PROVE TypeOK'
    BY <2>6 DEF Release, TypeOK
  <2>7. ASSUME NEW c \in Conns, Write(c) PROVE TypeOK'
    <3>1. queue[c] \in Seq(Queries \cup {Event}) /\ queue[c] # <<>> /\ Len(queue[c]) <= sendBuf
      BY <2>7 DEF Write, TypeOK
    <3>2. /\ Tail(queue[c]) \in Seq(Queries \cup {Event})
          /\ Len(Tail(queue[c])) = Len(queue[c]) - 1
      BY <3>1
    <3>3. /\ queue' \in [Conns -> Seq(Queries \cup {Event})]
          /\ \A d \in Conns : Len(queue'[d]) <= sendBuf
      BY <2>7, <3>1, <3>2, BoundsAssumption DEF Write, TypeOK
    <3>4. seen' \in [Conns -> SUBSET Queries]
      <4>1. \/ seen' = seen
            \/ seen' = [seen EXCEPT ![c] = @ \cup ({Head(queue[c])} \cap Queries)]
        BY <2>7 DEF Write
      <4>2. seen[c] \cup ({Head(queue[c])} \cap Queries) \in SUBSET Queries
        BY DEF TypeOK
      <4> QED
        BY <4>1, <4>2, ZenonT(60) DEF TypeOK
    <3>5. /\ writer' \in [Conns -> {"none", "on", "left"}]
          /\ socket' \in [Conns -> {"none", "open", "dead", "closed"}]
      BY <2>7 DEF Write, TypeOK
    <3> QED
      BY <2>7, <3>3, <3>4, <3>5 DEF Write, TypeOK
  <2>8. ASSUME NEW c \in Conns, WriterLeaves(c) PROVE TypeOK'
    BY <2>8 DEF WriterLeaves, TypeOK
  <2>9. ASSUME NEW c \in Conns, EditorVanishes(c) PROVE TypeOK'
    BY <2>9 DEF EditorVanishes, TypeOK
  <2>10. ASSUME NEW c \in Conns, NEW u \in Users, Authenticate(c, u) PROVE TypeOK'
    BY <2>10 DEF Authenticate, TypeOK
  <2>11. ASSUME NEW q \in Queries, NEW u \in Callers, Ask(q, u) PROVE TypeOK'
    <3>1. u \in Users
      BY UsersAssumption
    <3> QED
      <4>1. [at |-> "send", user |-> u, outcome |-> NoOutcome] \in Trips
        BY <3>1 DEF Trips
      <4>2. query' \in [Queries -> Trips]
        BY <2>11, <4>1 DEF Ask, TypeOK
      <4> QED
        BY <2>11, <4>2 DEF Ask, TypeOK
  <2>12. ASSUME NEW q \in Queries, Send(q) PROVE TypeOK'
    <3>1. query[q] \in Trips
      BY DEF TypeOK
    <3>2. /\ [query[q] EXCEPT !.at = "wait"] \in Trips
          /\ [query[q] EXCEPT !.at = "unregister", !.outcome = "no editor"] \in Trips
      BY <3>1, TripForms
    <3>3. \/ query' = [query EXCEPT ![q] = [query[q] EXCEPT !.at = "wait"]]
          \/ query' = [query EXCEPT ![q] =
                          [query[q] EXCEPT !.at = "unregister", !.outcome = "no editor"]]
      BY <2>12 DEF Send
    <3>4. query' \in [Queries -> Trips]
      BY <3>2, <3>3 DEF TypeOK
    <3> QED
      BY <2>12, <3>4, PutType DEF Send, TypeOK
  <2>13. ASSUME NEW q \in Queries, Receive(q) PROVE TypeOK'
    <3>1. query[q] \in Trips /\ chan[q] \in Conns \cup {NoOutcome}
      BY DEF TypeOK
    <3>2. [query[q] EXCEPT !.at = "unregister", !.outcome = chan[q]] \in Trips
      BY <3>1, TripForms
    <3>3. query' = [query EXCEPT ![q] = [query[q] EXCEPT !.at = "unregister", !.outcome = chan[q]]]
      BY <2>13 DEF Receive
    <3>4. query' \in [Queries -> Trips]
      BY <3>2, <3>3 DEF TypeOK
    <3> QED
      BY <2>13, <3>4 DEF Receive, TypeOK
  <2>14. ASSUME NEW q \in Queries, TimeOut(q) PROVE TypeOK'
    <3>1. query[q] \in Trips /\ chan[q] \in Conns \cup {NoOutcome}
      BY DEF TypeOK
    <3>2. [query[q] EXCEPT !.at = "unregister", !.outcome = "timeout"] \in Trips
      BY <3>1, TripForms
    <3>3. query' = [query EXCEPT ![q] = [query[q] EXCEPT !.at = "unregister", !.outcome = "timeout"]]
      BY <2>14 DEF TimeOut
    <3>4. query' \in [Queries -> Trips]
      BY <3>2, <3>3 DEF TypeOK
    <3> QED
      BY <2>14, <3>4 DEF TimeOut, TypeOK
  <2>15. ASSUME NEW q \in Queries, Unregister(q) PROVE TypeOK'
    <3>1. query[q] \in Trips /\ chan[q] \in Conns \cup {NoOutcome}
      BY DEF TypeOK
    <3>2. [query[q] EXCEPT !.at = "returned"] \in Trips
      BY <3>1, TripForms
    <3>3. query' = [query EXCEPT ![q] = [query[q] EXCEPT !.at = "returned"]]
      BY <2>15 DEF Unregister
    <3>4. query' \in [Queries -> Trips]
      BY <3>2, <3>3 DEF TypeOK
    <3> QED
      BY <2>15, <3>4 DEF Unregister, TypeOK
  <2>16. ASSUME NEW u \in Users, ListConns(u) PROVE TypeOK'
    BY <2>16 DEF ListConns, EditorsOf, TypeOK
  <2>17. ASSUME NEW u \in Users, DisconnectOne(u) PROVE TypeOK'
    <3>1. toClose[u] \in (SUBSET Conns) \cup {{NoUser}}
      BY DEF TypeOK
    <3>2. PICK c \in toClose[u] \cap Conns :
              /\ socket' = [socket EXCEPT ![c] = "closed"]
              /\ toClose' = [toClose EXCEPT ![u] = @ \ {c}]
              /\ seen' = [seen EXCEPT ![c] = {}]
      BY <2>17 DEF DisconnectOne
    <3>3. toClose[u] \in SUBSET Conns
      BY <3>1, NullsAssumption
    <3>4. toClose' \in [Users -> (SUBSET Conns) \cup {{NoUser}}]
      BY <3>2, <3>3 DEF TypeOK
    <3> QED
      BY <2>17, <3>2, <3>4 DEF DisconnectOne, TypeOK
  <2>18. ASSUME NEW u \in Switchers, NEW switch \in {"on", "off"}, SaveSettings(u, switch)
         PROVE  TypeOK'
    <3>1. u \in Users
      BY UsersAssumption
    <3>2. saves' \in 0..MaxSaves
      BY <2>18, BoundsAssumption DEF SaveSettings, TypeOK
    <3>3. /\ enabled' \in [Users -> {"on", "off"}]
          /\ toClose' \in [Users -> (SUBSET Conns) \cup {{NoUser}}]
      BY <2>18, <3>1 DEF SaveSettings, TypeOK
    <3> QED
      BY <2>18, <3>2, <3>3 DEF SaveSettings, TypeOK
  <2>19. CASE UNCHANGED vars
    BY <2>19 DEF vars, TypeOK
  <2> QED
    BY <2>1, <2>2, <2>3, <2>4, <2>5, <2>6, <2>7, <2>8, <2>9, <2>10, <2>11, <2>12, <2>13,
       <2>14, <2>15, <2>16, <2>17, <2>18, <2>19 DEF Next, Reader, Writer, Trip, Disconnect
<1> QED
  BY <1>1, <1>2, PTL DEF Spec

----------------------------------------------------------------------------
(* Membership of the hub.                                                  *)

\* Who is in the hub has a reader that has not left it; a channel is closed by such a
\* reader as it leaves, and a reader begins with its socket.
MembersRead ==
    /\ \A c \in clients : reader[c] \in {"read", "complete"}
    /\ \A c \in sendClosed : reader[c] \in {"release", "left"}
    /\ \A c \in Conns : reader[c] # "none" => socket[c] # "none"

LEMMA MembersReadStep ==
    ASSUME TypeOK, MembersRead, [Next]_vars
    PROVE  MembersRead'
<1> USE DEF switchVars, connVars, queryVars, MembersRead
<1>1. CASE Broadcast
  BY <1>1 DEF Broadcast
<1>2. ASSUME NEW c \in Conns, Enter(c) PROVE MembersRead'
  BY <1>2 DEF Enter, TypeOK
<1>3. ASSUME NEW c \in Conns, Read(c) PROVE MembersRead'
  <2>1. \/ reader' = reader
        \/ reader[c] = "read" /\ reader' = [reader EXCEPT ![c] = "complete"]
    BY <1>3 DEF Read
  <2> QED
    BY <1>3, <2>1 DEF Read, TypeOK
<1>4. ASSUME NEW c \in Conns, Complete(c) PROVE MembersRead'
  BY <1>4 DEF Complete, TypeOK
<1>5. ASSUME NEW c \in Conns, Leave(c) PROVE MembersRead'
  BY <1>5 DEF Leave, Removes, TypeOK
<1>6. ASSUME NEW c \in Conns, Release(c) PROVE MembersRead'
  BY <1>6 DEF Release, TypeOK
<1>7. ASSUME NEW c \in Conns, Write(c) PROVE MembersRead'
  BY <1>7 DEF Write, TypeOK
<1>8. ASSUME NEW c \in Conns, WriterLeaves(c) PROVE MembersRead'
  BY <1>8 DEF WriterLeaves, TypeOK
<1>9. ASSUME NEW c \in Conns, EditorVanishes(c) PROVE MembersRead'
  BY <1>9 DEF EditorVanishes, TypeOK
<1>10. CASE \E c \in Conns, u \in Users : Authenticate(c, u)
  BY <1>10 DEF Authenticate
<1>11. CASE \E q \in Queries : Trip(q) \/ \E u \in Callers : Ask(q, u)
  BY <1>11 DEF Trip, Send, Receive, TimeOut, Unregister, Ask
<1>12. CASE \E u \in Users : ListConns(u)
  BY <1>12 DEF ListConns
<1>13. ASSUME NEW u \in Users, DisconnectOne(u) PROVE MembersRead'
  BY <1>13 DEF DisconnectOne, TypeOK
<1>14. CASE \E u \in Switchers, switch \in {"on", "off"} : SaveSettings(u, switch)
  BY <1>14 DEF SaveSettings
<1>15. CASE UNCHANGED vars
  BY <1>15 DEF vars
<1> QED
  BY <1>1, <1>2, <1>3, <1>4, <1>5, <1>6, <1>7, <1>8, <1>9, <1>10, <1>11, <1>12, <1>13,
     <1>14, <1>15 DEF Next, Reader, Writer, Disconnect

LEMMA MembersReadCorrect == Spec => []MembersRead
<1>1. Init => MembersRead
  BY DEF Init, MembersRead
<1> QED
  BY <1>1, MembersReadStep, TypeCorrect, PTL DEF Spec

\* Nobody ever sends on a closed channel, for any number of connections
\* (hub.go Broadcast, SendToUser, remove).
THEOREM MembersCorrect == Spec => []MembersOpen
<1>1. MembersRead => MembersOpen
  BY DEF MembersRead, MembersOpen
<1> QED
  BY <1>1, MembersReadCorrect, PTL

----------------------------------------------------------------------------
(* Round trips.                                                            *)

\* A query has a user as soon as it is asked, and is registered while it goes on.
TripsKept ==
    /\ \A q \in Queries : query[q].user = NoUser <=> query[q].at = "idle"
    /\ PendingInProgress

LEMMA TripsKeptStep ==
    ASSUME TypeOK, TripsKept, [Next]_vars
    PROVE  TripsKept'
<1> USE DEF switchVars, connVars, queryVars, TripsKept, PendingInProgress
<1>1. ASSUME UNCHANGED query, pending' \subseteq pending PROVE TripsKept'
  BY <1>1
<1>2. CASE Broadcast
  BY <1>1, <1>2 DEF Broadcast
<1>3. ASSUME NEW c \in Conns, Enter(c) \/ Reader(c) \/ Writer(c) \/ EditorVanishes(c)
      PROVE  TripsKept'
  BY <1>1, <1>3 DEF Enter, Reader, Writer, EditorVanishes, Read, Claims, Complete, Leave, Release,
     Write, WriterLeaves
<1>4. CASE \E c \in Conns, u \in Users : Authenticate(c, u)
  BY <1>1, <1>4 DEF Authenticate
<1>5. ASSUME NEW q \in Queries, NEW u \in Callers, Ask(q, u) PROVE TripsKept'
  BY <1>5, UsersAssumption, NullsAssumption DEF Ask, TypeOK
<1>6. ASSUME NEW q \in Queries, Trip(q) PROVE TripsKept'
  <2>1. query[q] \in Trips
    BY DEF TypeOK
  <2>2. CASE Send(q)
    BY <2>1, <2>2 DEF Send, TypeOK, Trips
  <2>3. CASE Receive(q)
    BY <2>1, <2>3 DEF Receive, TypeOK, Trips
  <2>4. CASE TimeOut(q)
    BY <2>1, <2>4 DEF TimeOut, TypeOK, Trips
  <2>5. CASE Unregister(q)
    BY <2>1, <2>5 DEF Unregister, TypeOK, Trips
  <2> QED
    BY <1>6, <2>2, <2>3, <2>4, <2>5 DEF Trip
<1>7. CASE \E u \in Users : Disconnect(u)
  BY <1>1, <1>7 DEF Disconnect, ListConns, DisconnectOne
<1>8. CASE \E u \in Switchers, switch \in {"on", "off"} : SaveSettings(u, switch)
  BY <1>1, <1>8 DEF SaveSettings
<1>9. CASE UNCHANGED vars
  BY <1>1, <1>9 DEF vars
<1> QED
  BY <1>2, <1>3, <1>4, <1>5, <1>6, <1>7, <1>8, <1>9 DEF Next

\* No query stays registered after its round trip (the deferred delete of
\* QueryActiveFlow).
THEOREM PendingCorrect == Spec => []PendingInProgress
<1>1. Init => TripsKept
  BY DEF Init, TripsKept, PendingInProgress
<1>2. TripsKept => PendingInProgress
  BY DEF TripsKept
<1> QED
  BY <1>1, <1>2, TripsKeptStep, TypeCorrect, PTL DEF Spec

\* A connection the query may reach is one of the user asked, and has connected.
Addressed(c, q) ==
    query[q].at # "idle" /\ user[c] = query[q].user /\ socket[c] # "none"

\* The query, or the reply of the connection to it, is on its way.
Reaches(c, q) ==
    \/ \E i \in DOMAIN queue[c] : queue[c][i] = q
    \/ q \in seen[c]
    \/ reader[c] = "complete" /\ completing[c] = q
    \/ chan[q] = c
    \/ query[q].outcome = c

Delivered == \A c \in Conns, q \in Queries : Reaches(c, q) => Addressed(c, q)

\* Once it may, it may for good: neither the user of a query nor that of a connection
\* changes.
LEMMA AddressedStays ==
    ASSUME TypeOK, TripsKept, [Next]_vars, NEW c \in Conns, NEW q \in Queries, Addressed(c, q)
    PROVE  Addressed(c, q)'
<1> USE DEF switchVars, connVars, queryVars, Addressed
<1>1. user[c] # NoUser /\ query[q] \in Trips
  BY DEF TripsKept, TypeOK
<1>2. ASSUME UNCHANGED <<user, query>>, socket' = socket \/ socket'[c] # "none"
      PROVE  Addressed(c, q)'
  BY <1>2
<1>3. CASE Broadcast
  BY <1>2, <1>3 DEF Broadcast
<1>4. ASSUME NEW d \in Conns, Enter(d) \/ Reader(d) \/ Writer(d) \/ EditorVanishes(d)
      PROVE  Addressed(c, q)'
  <2>1. UNCHANGED <<user, query>>
    BY <1>4 DEF Enter, Reader, Writer, EditorVanishes, Read, Complete, Leave, Release, Write,
       WriterLeaves
  <2>2. \/ socket' = socket
        \/ \E s \in {"open", "dead", "closed"} : socket' = [socket EXCEPT ![d] = s]
    BY <1>4 DEF Enter, Reader, Writer, EditorVanishes, Read, Complete, Leave, Release, Write,
       WriterLeaves
  <2> QED
    BY <1>2, <2>1, <2>2 DEF TypeOK
<1>5. ASSUME NEW d \in Conns, NEW u \in Users, Authenticate(d, u) PROVE Addressed(c, q)'
  BY <1>1, <1>5 DEF Authenticate, TypeOK
<1>6. ASSUME NEW r \in Queries, NEW u \in Callers, Ask(r, u) PROVE Addressed(c, q)'
  BY <1>6 DEF Ask, TypeOK
<1>7. ASSUME NEW r \in Queries, Trip(r) PROVE Addressed(c, q)'
  <2>1. query[r] \in Trips
    BY DEF TypeOK
  <2>2. UNCHANGED <<user, socket>>
    BY <1>7 DEF Trip, Send, Receive, TimeOut, Unregister
  <2>3. query'[q].user = query[q].user /\ query'[q].at # "idle"
    <3>1. CASE Send(r)
      BY <1>1, <2>1, <3>1 DEF Send, TypeOK, Trips
    <3>2. CASE Receive(r)
      BY <1>1, <2>1, <3>2 DEF Receive, TypeOK, Trips
    <3>3. CASE TimeOut(r)
      BY <1>1, <2>1, <3>3 DEF TimeOut, TypeOK, Trips
    <3>4. CASE Unregister(r)
      BY <1>1, <2>1, <3>4 DEF Unregister, TypeOK, Trips
    <3> QED
      BY <1>7, <3>1, <3>2, <3>3, <3>4 DEF Trip
  <2> QED
    BY <2>2, <2>3
<1>8. CASE \E u \in Users : ListConns(u)
  BY <1>2, <1>8 DEF ListConns
<1>9. ASSUME NEW u \in Users, DisconnectOne(u) PROVE Addressed(c, q)'
  BY <1>2, <1>9 DEF DisconnectOne, TypeOK
<1>10. CASE \E u \in Switchers, switch \in {"on", "off"} : SaveSettings(u, switch)
  BY <1>2, <1>10 DEF SaveSettings
<1>11. CASE UNCHANGED vars
  BY <1>2, <1>11 DEF vars
<1> QED
  BY <1>3, <1>4, <1>5, <1>6, <1>7, <1>8, <1>9, <1>10, <1>11 DEF Next, Disconnect

\* A query, and a reply, comes only where it was on its way already, or where it may.
LEMMA ReachesOrigin ==
    ASSUME TypeOK, MembersRead, Delivered, TripsKept, [Next]_vars,
           NEW c \in Conns, NEW q \in Queries, Reaches(c, q)'
    PROVE  Reaches(c, q) \/ Addressed(c, q)'
<1> USE DEF switchVars, connVars, queryVars
<1>1. ASSUME \A i \in DOMAIN queue'[c] : queue'[c][i] = q => \E j \in DOMAIN queue[c] : queue[c][j] = q,
             q \in seen'[c] => q \in seen[c],
             reader'[c] = "complete" /\ completing'[c] = q
                 => reader[c] = "complete" /\ completing[c] = q,
             chan'[q] = c => chan[q] = c,
             query'[q].outcome = c => query[q].outcome = c
      PROVE  Reaches(c, q)
  BY <1>1 DEF Reaches
<1>2. q \in Queries \cup {Event} /\ q # Event
  BY EventAssumption DEF Event
<1>3. CASE Broadcast
  <2>1. Put(Event, clients) /\ UNCHANGED <<seen, reader, completing, chan, query>>
    BY <1>3 DEF Broadcast
  <2>2. \A i \in DOMAIN queue'[c] : queue'[c][i] = q => \E j \in DOMAIN queue[c] : queue[c][j] = q
    BY <1>2, <2>1, PutContent
  <2> QED
    BY <1>1, <2>1, <2>2
<1>4. ASSUME NEW d \in Conns, Enter(d) PROVE Reaches(c, q)
  <2>1. /\ Put(Event, {d}) /\ UNCHANGED <<seen, completing, chan, query>>
        /\ reader' = [reader EXCEPT ![d] = "read"]
    BY <1>4 DEF Enter
  <2>2. \A i \in DOMAIN queue'[c] : queue'[c][i] = q => \E j \in DOMAIN queue[c] : queue[c][j] = q
    BY <1>2, <2>1, PutContent
  <2> QED
    BY <1>1, <2>1, <2>2 DEF TypeOK
<1>5. ASSUME NEW d \in Conns, Read(d) PROVE Reaches(c, q)
  <2>1. CASE UNCHANGED <<reader, completing, pending>>
    BY <1>1, <1>5, <2>1 DEF Read
  <2>2. CASE \E r \in seen[d] \cap pending : Claims(d, r)
    <3>1. PICK r \in seen[d] \cap pending : completing' = [completing EXCEPT ![d] = r]
      BY <2>2 DEF Claims
    <3>2. CASE q \in seen[c]
      BY <3>2 DEF Reaches
    <3>3. CASE q \notin seen[c]
      <4>1. completing'[c] = q => c # d
        BY <3>1, <3>3 DEF TypeOK
      <4>2. c # d => completing'[c] = completing[c] /\ reader'[c] = reader[c]
        BY <1>5, <3>1 DEF Read, TypeOK
      <4> QED
        BY <1>1, <1>5, <4>1, <4>2 DEF Read
    <3> QED
      BY <3>2, <3>3
  <2> QED
    BY <1>5, <2>1, <2>2 DEF Read
<1>6. ASSUME NEW d \in Conns, Complete(d) PROVE Reaches(c, q)
  <2>1. /\ chan' = [chan EXCEPT ![completing[d]] = IF @ = NoOutcome THEN d ELSE @]
        /\ completing' = [completing EXCEPT ![d] = NoQuery]
        /\ reader' = [reader EXCEPT ![d] = "read"]
        /\ reader[d] = "complete"
        /\ UNCHANGED <<queue, seen, query>>
    BY <1>6 DEF Complete
  <2>2. chan'[q] = c => chan[q] = c \/ (c = d /\ completing[d] = q)
    BY <2>1 DEF TypeOK
  <2> QED
    BY <1>1, <2>1, <2>2 DEF Reaches, TypeOK
<1>7. ASSUME NEW d \in Conns, Leave(d) \/ Release(d) \/ WriterLeaves(d) \/ EditorVanishes(d)
      PROVE  Reaches(c, q)
  BY <1>1, <1>7 DEF Leave, Release, WriterLeaves, EditorVanishes, TypeOK
<1>8. ASSUME NEW d \in Conns, Write(d) PROVE Reaches(c, q)
  <2>1. queue[d] \in Seq(Queries \cup {Event}) /\ queue[d] # <<>>
    BY <1>8 DEF Write, TypeOK
  <2>2. /\ Tail(queue[d]) = [i \in 1..(Len(queue[d]) - 1) |-> queue[d][i + 1]]
        /\ Head(queue[d]) = queue[d][1]
        /\ DOMAIN queue[d] = 1..Len(queue[d]) /\ Len(queue[d]) \in Nat \ {0}
    BY <2>1
  <2>3. \A i \in DOMAIN Tail(queue[d]) : \E j \in DOMAIN queue[d] : queue[d][j] = Tail(queue[d])[i]
    BY <2>2
  <2>4. /\ queue' = [queue EXCEPT ![d] = Tail(queue[d])]
        /\ seen' = seen \/ seen' = [seen EXCEPT ![d] = @ \cup ({Head(queue[d])} \cap Queries)]
        /\ UNCHANGED <<reader, completing, chan, query>>
    BY <1>8 DEF Write
  <2>5. \A i \in DOMAIN queue'[c] : queue'[c][i] = q => \E j \in DOMAIN queue[c] : queue[c][j] = q
    BY <2>3, <2>4 DEF TypeOK
  <2>6. q \in seen'[c] => q \in seen[c] \/ (c = d /\ q = queue[d][1])
    BY <2>2, <2>4 DEF TypeOK
  <2> QED
    BY <1>1, <2>2, <2>4, <2>5, <2>6 DEF Reaches
<1>9. CASE \E d \in Conns, u \in Users : Authenticate(d, u)
  BY <1>1, <1>9 DEF Authenticate
<1>10. ASSUME NEW r \in Queries, NEW u \in Callers, Ask(r, u) PROVE Reaches(c, q)
  <2>1. c # NoOutcome
    BY OutcomesAssumption
  <2> QED
    BY <1>1, <1>10, <2>1 DEF Ask, TypeOK
<1>11. ASSUME NEW r \in Queries, Send(r) PROVE Reaches(c, q) \/ Addressed(c, q)'
  <2>1. /\ query[r].at = "send" /\ query[r] \in Trips /\ Put(r, EditorsOf(query[r].user))
        /\ UNCHANGED <<user, socket, seen, reader, completing, chan>>
    BY <1>11 DEF Send, TypeOK
  <2>2. c \notin {"no editor", "timeout", NoOutcome}
    BY OutcomesAssumption
  <2>3. query'[q].outcome = c => query[q].outcome = c
    BY <1>11, <2>1, <2>2 DEF Send, TypeOK, Trips
  <2>4. CASE r = q /\ c \in EditorsOf(query[q].user)
    <3>1. user[c] = query[q].user /\ socket[c] # "none"
      BY <2>4 DEF EditorsOf, MembersRead
    <3>2. Addressed(c, q)
      BY <2>1, <2>4, <3>1 DEF Addressed
    <3> QED
      BY <3>2, AddressedStays
  <2>5. CASE ~(r = q /\ c \in EditorsOf(query[q].user))
    <3>1. \A i \in DOMAIN queue'[c] : queue'[c][i] = q => \E j \in DOMAIN queue[c] : queue[c][j] = q
      BY <2>1, <2>5, PutContent
    <3> QED
      BY <1>1, <2>1, <2>3, <3>1
  <2> QED
    BY <2>4, <2>5
<1>12. ASSUME NEW r \in Queries, Receive(r) PROVE Reaches(c, q)
  <2>1. /\ query' = [query EXCEPT ![r] = [query[r] EXCEPT !.at = "unregister", !.outcome = chan[r]]]
        /\ chan' = [chan EXCEPT ![r] = NoOutcome]
        /\ query[r] \in Trips
        /\ UNCHANGED <<queue, seen, reader, completing>>
    BY <1>12 DEF Receive, TypeOK
  <2>2. chan'[q] = c => chan[q] = c
    BY <2>1, OutcomesAssumption DEF TypeOK
  <2>3. query'[q].outcome = c => query[q].outcome = c \/ chan[q] = c
    BY <2>1 DEF TypeOK, Trips
  <2> QED
    BY <1>1, <2>1, <2>2, <2>3 DEF Reaches
<1>13. ASSUME NEW r \in Queries, TimeOut(r) \/ Unregister(r) PROVE Reaches(c, q)
  <2>1. c # "timeout" /\ query[r] \in Trips
    BY OutcomesAssumption DEF TypeOK
  <2>2. query'[q].outcome = c => query[q].outcome = c
    <3>1. CASE TimeOut(r)
      BY <2>1, <3>1 DEF TimeOut, TypeOK, Trips
    <3>2. CASE Unregister(r)
      BY <2>1, <3>2 DEF Unregister, TypeOK, Trips
    <3> QED
      BY <1>13, <3>1, <3>2
  <2> QED
    BY <1>1, <1>13, <2>2 DEF TimeOut, Unregister
<1>14. CASE \E u \in Users : ListConns(u)
  BY <1>1, <1>14 DEF ListConns
<1>15. ASSUME NEW u \in Users, DisconnectOne(u) PROVE Reaches(c, q)
  BY <1>1, <1>15 DEF DisconnectOne, TypeOK
<1>16. CASE \E u \in Switchers, switch \in {"on", "off"} : SaveSettings(u, switch)
  BY <1>1, <1>16 DEF SaveSettings
<1>17. CASE UNCHANGED vars
  BY <1>1, <1>17 DEF vars
<1> QED
  BY <1>3, <1>4, <1>5, <1>6, <1>7, <1>8, <1>9, <1>10, <1>11, <1>12, <1>13, <1>14, <1>15, <1>16,
     <1>17 DEF Next, Reader, Writer, Trip, Disconnect

\* What is on its way is so between the right query and the right connections.
QueriesKept == TypeOK /\ MembersRead /\ TripsKept /\ Delivered

LEMMA QueriesKeptCorrect == Spec => []QueriesKept
<1>1. Init => QueriesKept
  <2>1. Init => TypeOK
    BY BoundsAssumption DEF Init, TypeOK, Trips
  <2>2. Init => MembersRead /\ TripsKept
    BY DEF Init, MembersRead, TripsKept, PendingInProgress
  <2>3. ASSUME Init, NEW c \in Conns, NEW q \in Queries PROVE ~Reaches(c, q)
    <3>1. DOMAIN <<>> = {}
      OBVIOUS
    <3>2. queue[c] = <<>> /\ seen[c] = {} /\ reader[c] = "none"
      BY <2>3 DEF Init
    <3>3. c # NoOutcome /\ chan[q] = NoOutcome /\ query[q].outcome = NoOutcome
      BY <2>3, OutcomesAssumption DEF Init
    <3> QED
      BY <3>1, <3>2, <3>3 DEF Reaches
  <2> QED
    BY <2>1, <2>2, <2>3 DEF QueriesKept, Delivered
<1>2. ASSUME QueriesKept, TypeOK', [Next]_vars PROVE QueriesKept'
  <2>1. MembersRead' /\ TripsKept'
    BY <1>2, MembersReadStep, TripsKeptStep DEF QueriesKept
  <2>2. ASSUME NEW c \in Conns, NEW q \in Queries, Reaches(c, q)' PROVE Addressed(c, q)'
    <3>1. Reaches(c, q) \/ Addressed(c, q)'
      BY <1>2, <2>2, ReachesOrigin DEF QueriesKept
    <3>2. Reaches(c, q) => Addressed(c, q)
      BY <1>2 DEF QueriesKept, Delivered
    <3> QED
      BY <1>2, <3>1, <3>2, AddressedStays DEF QueriesKept
  <2> QED
    BY <1>2, <2>1, <2>2 DEF QueriesKept, Delivered
<1> QED
  BY <1>1, <1>2, TypeCorrect, PTL DEF Spec

----------------------------------------------------------------------------
(* The reply that claims a query.                                          *)

\* A query is claimed by one reader, and its channel is empty until that reader has sent.
Claimed ==
    /\ \A q \in pending : chan[q] = NoOutcome
    /\ \A q \in Queries : query[q].at = "idle" => chan[q] = NoOutcome
    /\ \A c \in Conns : reader[c] = "complete" =>
           /\ completing[c] \in Queries \ pending
           /\ query[completing[c]].at # "idle"
           /\ chan[completing[c]] = NoOutcome
           /\ \A d \in Conns \ {c} :
                  reader[d] = "complete" => completing[d] # completing[c]

LEMMA ClaimedStep ==
    ASSUME QueriesKept, Claimed, [Next]_vars
    PROVE  Claimed'
<1> USE DEF switchVars, connVars, queryVars
<1>1. TypeOK /\ TripsKept /\ PendingInProgress
  BY DEF QueriesKept, TripsKept
<1>2. ASSUME UNCHANGED <<pending, chan, query, completing>>,
             \A c \in Conns : reader'[c] = "complete" => reader[c] = "complete"
      PROVE  Claimed'
  BY <1>2 DEF Claimed
<1>3. CASE Broadcast
  BY <1>2, <1>3 DEF Broadcast
<1>4. ASSUME NEW c \in Conns, Enter(c) PROVE Claimed'
  BY <1>1, <1>2, <1>4 DEF Enter, TypeOK
<1>5. ASSUME NEW c \in Conns, Read(c) PROVE Claimed'
  <2>1. CASE UNCHANGED <<reader, completing, pending>>
    BY <1>2, <1>5, <2>1 DEF Read
  <2>2. ASSUME NEW q \in seen[c] \cap pending, Claims(c, q),
               reader' = [reader EXCEPT ![c] = "complete"]
        PROVE  Claimed'
    <3>1. /\ completing' = [completing EXCEPT ![c] = q]
          /\ pending' = pending \ {q}
          /\ UNCHANGED <<chan, query>>
          /\ q \in Queries
          /\ chan[q] = NoOutcome /\ query[q].at # "idle"
      BY <1>1, <1>5, <2>2 DEF Read, Claims, Claimed, PendingInProgress, TypeOK
    <3>2. \A d \in Conns \ {c} :
              reader'[d] = "complete" => completing'[d] = completing[d] /\ completing[d] # q
      BY <1>1, <2>2, <3>1 DEF Claimed, TypeOK
    <3>3. completing'[c] = q
      BY <1>1, <3>1 DEF TypeOK
    <3>4. \A d \in Conns \ {c} : reader'[d] = reader[d]
      BY <1>1, <2>2 DEF TypeOK
    <3> QED
      BY <3>1, <3>2, <3>3, <3>4 DEF Claimed
  <2> QED
    BY <1>5, <2>1, <2>2 DEF Read
<1>6. ASSUME NEW c \in Conns, Complete(c) PROVE Claimed'
  <2>1. /\ reader[c] = "complete"
        /\ chan' = [chan EXCEPT ![completing[c]] = IF @ = NoOutcome THEN c ELSE @]
        /\ completing' = [completing EXCEPT ![c] = NoQuery]
        /\ reader' = [reader EXCEPT ![c] = "read"]
        /\ UNCHANGED <<pending, query>>
    BY <1>6 DEF Complete
  <2>2. /\ completing[c] \in Queries \ pending
        /\ query[completing[c]].at # "idle"
        /\ \A d \in Conns \ {c} :
               reader[d] = "complete" => completing[d] # completing[c]
    BY <2>1 DEF Claimed
  <2>3. \A q \in Queries \ {completing[c]} : chan'[q] = chan[q]
    BY <1>1, <2>1 DEF TypeOK
  <2>4. /\ \A q \in pending' : chan'[q] = NoOutcome
        /\ \A q \in Queries : query'[q].at = "idle" => chan'[q] = NoOutcome
    BY <1>1, <2>1, <2>2, <2>3 DEF Claimed, TypeOK
  <2>5. \A d \in Conns : reader'[d] = "complete" =>
            d # c /\ reader[d] = "complete" /\ completing'[d] = completing[d]
    BY <1>1, <2>1 DEF TypeOK
  <2>6. \A d \in Conns : reader'[d] = "complete" => completing'[d] \in Queries \ {completing[c]}
    BY <2>2, <2>5 DEF Claimed
  <2> QED
    BY <2>1, <2>3, <2>4, <2>5, <2>6 DEF Claimed
<1>7. ASSUME NEW c \in Conns, Leave(c) \/ Release(c) PROVE Claimed'
  BY <1>1, <1>2, <1>7 DEF Leave, Release, TypeOK
<1>8. CASE \E c \in Conns : Writer(c) \/ EditorVanishes(c)
  BY <1>2, <1>8 DEF Writer, Write, WriterLeaves, EditorVanishes
<1>9. CASE \E c \in Conns, u \in Users : Authenticate(c, u)
  BY <1>2, <1>9 DEF Authenticate
<1>10. ASSUME NEW q \in Queries, NEW u \in Callers, Ask(q, u) PROVE Claimed'
  <2>1. /\ query[q].at = "idle" /\ chan[q] = NoOutcome
        /\ pending' = pending \cup {q}
        /\ UNCHANGED <<chan, reader, completing>>
        /\ \A r \in Queries \ {q} : query'[r] = query[r]
        /\ query'[q].at = "send"
    BY <1>1, <1>10 DEF Ask, Claimed, TypeOK
  <2>2. \A c \in Conns : reader[c] = "complete" => completing[c] # q
    BY <2>1 DEF Claimed
  <2> QED
    BY <2>1, <2>2 DEF Claimed
<1>11. ASSUME NEW q \in Queries, Send(q) \/ TimeOut(q) \/ Unregister(q) PROVE Claimed'
  <2>1. /\ pending' \subseteq pending
        /\ UNCHANGED <<chan, reader, completing>>
    BY <1>11 DEF Send, TimeOut, Unregister
  <2>2. \A r \in Queries : query'[r].at = "idle" <=> query[r].at = "idle"
    <3>1. query[q] \in Trips
      BY <1>1 DEF TypeOK
    <3>2. CASE Send(q)
      BY <1>1, <3>1, <3>2 DEF Send, TypeOK, Trips
    <3>3. CASE TimeOut(q)
      BY <1>1, <3>1, <3>3 DEF TimeOut, TypeOK, Trips
    <3>4. CASE Unregister(q)
      BY <1>1, <3>1, <3>4 DEF Unregister, TypeOK, Trips
    <3> QED
      BY <1>11, <3>2, <3>3, <3>4
  <2> QED
    BY <2>1, <2>2 DEF Claimed
<1>12. ASSUME NEW q \in Queries, Receive(q) PROVE Claimed'
  <2>1. query[q] \in Trips
    BY <1>1 DEF TypeOK
  <2>2. /\ chan' = [chan EXCEPT ![q] = NoOutcome]
        /\ UNCHANGED <<pending, reader, completing>>
        /\ \A r \in Queries : query'[r].at = "idle" <=> query[r].at = "idle"
    BY <1>1, <1>12, <2>1 DEF Receive, TypeOK, Trips
  <2>3. \A r \in Queries : chan'[r] = chan[r] \/ chan'[r] = NoOutcome
    BY <1>1, <2>2 DEF TypeOK
  <2> QED
    BY <1>1, <2>2, <2>3 DEF Claimed, TypeOK
<1>13. CASE \E u \in Users : Disconnect(u)
  BY <1>2, <1>13 DEF Disconnect, ListConns, DisconnectOne
<1>14. CASE \E u \in Switchers, switch \in {"on", "off"} : SaveSettings(u, switch)
  BY <1>2, <1>14 DEF SaveSettings
<1>15. CASE UNCHANGED vars
  BY <1>2, <1>15 DEF vars
<1> QED
  BY <1>3, <1>4, <1>5, <1>6, <1>7, <1>8, <1>9, <1>10, <1>11, <1>12, <1>13, <1>14, <1>15
     DEF Next, Reader, Trip

\* The reply that claims a query finds room in its channel, whatever the number of editors
\* that answer, and it and the reply that lies in a channel come from an editor of the user
\* the query is for (CompleteActiveQuery, SendToUser).
THEOREM RepliesFit == Spec => []ClaimedReplyFits
<1>1. Init => Claimed
  BY DEF Init, Claimed
<1>2. QueriesKept /\ Claimed /\ [Next]_vars => Claimed'
  BY ClaimedStep
<1>3. QueriesKept /\ Claimed => ClaimedReplyFits
  <2> SUFFICES ASSUME QueriesKept, Claimed PROVE ClaimedReplyFits
    OBVIOUS
  <2>1. TypeOK /\ Delivered
    BY DEF QueriesKept
  <2>2. ASSUME NEW c \in Conns, reader[c] = "complete"
        PROVE  chan[completing[c]] = NoOutcome /\ user[c] = query[completing[c]].user
    <3>1. chan[completing[c]] = NoOutcome /\ completing[c] \in Queries
      BY <2>2 DEF Claimed
    <3> QED
      BY <2>1, <2>2, <3>1 DEF Delivered, Reaches, Addressed
  <2>3. ASSUME NEW q \in Queries, chan[q] # NoOutcome
        PROVE  user[chan[q]] = query[q].user
    <3>1. chan[q] \in Conns
      BY <2>1, <2>3 DEF TypeOK
    <3> QED
      BY <2>1, <3>1 DEF Delivered, Reaches, Addressed
  <2> QED
    BY <2>2, <2>3 DEF ClaimedReplyFits
<1> QED
  BY <1>1, <1>2, <1>3, QueriesKeptCorrect, PTL DEF Spec

----------------------------------------------------------------------------
(* The MCP switch.                                                         *)

\* Once DisconnectUser has listed the connections of a user switched off, each of them is
\* still listed or closed, and who was in its handshake is known to have been.
SwitchKept ==
    /\ \A c \in Conns : reader[c] # "none" => user[c] # NoUser
    /\ \A c \in Conns : user[c] # NoUser /\ c \notin overlapped =>
           \/ enabled[user[c]] = "on"
           \/ toClose[user[c]] = {NoUser}
           \/ socket[c] = "closed"
           \/ socket[c] # "none" /\ (c \in toClose[user[c]] \/ c \notin clients)

LEMMA SwitchKeptStep ==
    ASSUME TypeOK, MembersRead, SwitchKept, [Next]_vars
    PROVE  SwitchKept'
<1> USE DEF switchVars, connVars, queryVars
<1>1. ASSUME UNCHANGED <<switchVars, user, overlapped>>, clients' \subseteq clients,
             \A c \in Conns : reader'[c] # "none" => reader[c] # "none",
             \A c \in Conns : socket'[c] = socket[c] \/ (socket[c] # "closed" /\ socket[c] # "none" /\ socket'[c] # "none")
                              \/ socket'[c] = "closed"
      PROVE  SwitchKept'
  BY <1>1 DEF SwitchKept
<1>2. CASE Broadcast
  BY <1>1, <1>2 DEF Broadcast
<1>3. ASSUME NEW c \in Conns, Enter(c) PROVE SwitchKept'
  <2>1. /\ user[c] # NoUser /\ socket[c] = "none"
        /\ socket' = [socket EXCEPT ![c] = "open"]
        /\ reader' = [reader EXCEPT ![c] = "read"]
        /\ clients' = clients \cup {c}
        /\ UNCHANGED <<switchVars, user, overlapped>>
    BY <1>3 DEF Enter
  <2>2. c \notin overlapped => enabled[user[c]] = "on" \/ toClose[user[c]] = {NoUser}
    BY <2>1 DEF SwitchKept
  <2>3. \A d \in Conns \ {c} : socket'[d] = socket[d] /\ reader'[d] = reader[d]
    BY <2>1 DEF TypeOK
  <2> QED
    BY <2>1, <2>2, <2>3 DEF SwitchKept
<1>4. ASSUME NEW c \in Conns, Read(c) PROVE SwitchKept'
  BY <1>1, <1>4 DEF Read, TypeOK
<1>5. ASSUME NEW c \in Conns, Complete(c) PROVE SwitchKept'
  BY <1>1, <1>5 DEF Complete, TypeOK
<1>6. ASSUME NEW c \in Conns, Leave(c) PROVE SwitchKept'
  BY <1>1, <1>6 DEF Leave, Removes, TypeOK
<1>7. ASSUME NEW c \in Conns, Release(c) PROVE SwitchKept'
  BY <1>1, <1>7 DEF Release, TypeOK
<1>8. ASSUME NEW c \in Conns, Writer(c) PROVE SwitchKept'
  BY <1>1, <1>8 DEF Writer, Write, WriterLeaves, TypeOK
<1>9. ASSUME NEW c \in Conns, EditorVanishes(c) PROVE SwitchKept'
  BY <1>1, <1>9 DEF EditorVanishes, TypeOK
<1>10. ASSUME NEW c \in Conns, NEW u \in Users, Authenticate(c, u) PROVE SwitchKept'
  BY <1>10 DEF Authenticate, IsMcpEnabled, SwitchKept, TypeOK
<1>11. CASE \E q \in Queries : Trip(q) \/ \E u \in Callers : Ask(q, u)
  BY <1>1, <1>11 DEF Trip, Send, Receive, TimeOut, Unregister, Ask
<1>12. ASSUME NEW u \in Users, ListConns(u) PROVE SwitchKept'
  <2>1. /\ toClose' = [toClose EXCEPT ![u] = EditorsOf(u)]
        /\ overlapped' = overlapped \cup {c \in Conns : user[c] = u /\ socket[c] = "none"}
        /\ UNCHANGED <<enabled, user, socket, reader, clients>>
    BY <1>12 DEF ListConns
  <2>2. \A v \in Users \ {u} : toClose'[v] = toClose[v]
    BY <2>1 DEF TypeOK
  <2>3. toClose'[u] = {c \in clients : user[c] = u}
    BY <2>1 DEF TypeOK, EditorsOf
  <2>4. ASSUME NEW c \in Conns, user[c] # NoUser, c \notin overlapped'
        PROVE  \/ enabled'[user[c]] = "on"
               \/ toClose'[user[c]] = {NoUser}
               \/ socket[c] = "closed"
               \/ socket[c] # "none" /\ (c \in toClose'[user[c]] \/ c \notin clients)
    <3>1. user[c] \in Users
      BY <2>4 DEF TypeOK
    <3>2. CASE user[c] = u
      BY <2>1, <2>3, <2>4, <3>2
    <3>3. CASE user[c] # u
      BY <2>1, <2>2, <2>4, <3>1, <3>3 DEF SwitchKept
    <3> QED
      BY <3>2, <3>3
  <2> QED
    BY <2>1, <2>4 DEF SwitchKept
<1>13. ASSUME NEW u \in Users, DisconnectOne(u) PROVE SwitchKept'
  <2>1. PICK c \in toClose[u] \cap Conns :
            /\ socket' = [socket EXCEPT ![c] = "closed"]
            /\ toClose' = [toClose EXCEPT ![u] = @ \ {c}]
    BY <1>13 DEF DisconnectOne
  <2>2. UNCHANGED <<enabled, user, reader, clients, overlapped>>
    BY <1>13 DEF DisconnectOne
  <2>3. socket'[c] = "closed" /\ \A d \in Conns \ {c} : socket'[d] = socket[d]
    BY <2>1 DEF TypeOK
  <2>4. \A v \in Users \ {u} : toClose'[v] = toClose[v]
    BY <2>1 DEF TypeOK
  <2>5. toClose'[u] = toClose[u] \ {c} /\ toClose[u] # {NoUser}
    BY <2>1, NullsAssumption DEF TypeOK
  <2>6. ASSUME NEW d \in Conns, user[d] # NoUser, d \notin overlapped
        PROVE  \/ enabled[user[d]] = "on"
               \/ toClose'[user[d]] = {NoUser}
               \/ socket'[d] = "closed"
               \/ socket'[d] # "none" /\ (d \in toClose'[user[d]] \/ d \notin clients)
    <3>1. user[d] \in Users
      BY <2>6 DEF TypeOK
    <3>2. CASE d = c
      BY <2>3, <3>2
    <3>3. CASE d # c /\ user[d] = u
      BY <2>3, <2>5, <2>6, <3>3 DEF SwitchKept
    <3>4. CASE d # c /\ user[d] # u
      BY <2>3, <2>4, <2>6, <3>1, <3>4 DEF SwitchKept
    <3> QED
      BY <3>2, <3>3, <3>4
  <2> QED
    BY <2>2, <2>6 DEF SwitchKept
<1>14. ASSUME NEW u \in Switchers, NEW switch \in {"on", "off"}, SaveSettings(u, switch)
       PROVE  SwitchKept'
  <2>1. /\ u \in Users
        /\ enabled' = [enabled EXCEPT ![u] = switch]
        /\ toClose' = [toClose EXCEPT ![u] = IF switch = "on" THEN {} ELSE {NoUser}]
        /\ UNCHANGED <<user, socket, reader, clients, overlapped>>
    BY <1>14, UsersAssumption DEF SaveSettings
  <2>2. \A v \in Users \ {u} : enabled'[v] = enabled[v] /\ toClose'[v] = toClose[v]
    BY <2>1 DEF TypeOK
  <2>3. enabled'[u] = "on" \/ toClose'[u] = {NoUser}
    BY <2>1 DEF TypeOK
  <2> QED
    BY <2>1, <2>2, <2>3 DEF SwitchKept, TypeOK
<1>15. CASE UNCHANGED vars
  BY <1>1, <1>15 DEF vars
<1> QED
  BY <1>2, <1>3, <1>4, <1>5, <1>6, <1>7, <1>8, <1>9, <1>10, <1>11, <1>12, <1>13, <1>14, <1>15
     DEF Next, Reader, Disconnect

\* A user whose MCP is switched off has no editor connected, except one whose handshake
\* overlapped the disconnection (SaveMcpSettings, DisconnectUser, HandleWS).
THEOREM DisconnectionsCorrect == Spec => []SwitchedOffDisconnected
<1>1. Init => SwitchKept
  BY DEF Init, SwitchKept
<1>2. TypeOK /\ MembersRead /\ SwitchKept => SwitchedOffDisconnected
  <2> SUFFICES ASSUME TypeOK, MembersRead, SwitchKept,
                      NEW c \in clients \ overlapped,
                      enabled[user[c]] = "off", toClose[user[c]] = {}
               PROVE  socket[c] = "closed"
    BY DEF SwitchedOffDisconnected
  <2>1. c \in Conns /\ user[c] # NoUser
    BY DEF TypeOK, MembersRead, SwitchKept
  <2> QED
    BY <2>1 DEF SwitchKept
<1>3. TypeOK /\ MembersRead /\ SwitchKept /\ [Next]_vars => SwitchKept'
  BY SwitchKeptStep
<1> QED
  BY <1>1, <1>2, <1>3, TypeCorrect, MembersReadCorrect, PTL DEF Spec

----------------------------------------------------------------------------
(* The round trip keeps the promise of EditorQuery.                        *)

\* A socket is opened for a user, what is to be closed has been opened, and a round trip
\* that is over has an outcome.
Entered ==
    /\ \A c \in Conns : socket[c] # "none" => user[c] # NoUser
    /\ \A u \in Users : \A c \in toClose[u] \cap Conns : socket[c] # "none"
    /\ \A q \in Queries : query[q].at = "unregister" => query[q].outcome # NoOutcome

LEMMA EnteredStep ==
    ASSUME TypeOK, MembersRead, Entered, [Next]_vars
    PROVE  Entered'
<1> USE DEF switchVars, connVars, queryVars
<1>1. ASSUME UNCHANGED <<toClose, user, query>>,
             \A c \in Conns : socket'[c] # "none" => socket[c] # "none" \/ user[c] # NoUser,
             \A c \in Conns : socket[c] # "none" => socket'[c] # "none"
      PROVE  Entered'
  BY <1>1 DEF Entered
<1>2. CASE Broadcast
  BY <1>1, <1>2 DEF Broadcast
<1>3. ASSUME NEW c \in Conns, Enter(c) PROVE Entered'
  BY <1>1, <1>3 DEF Enter, TypeOK
<1>4. ASSUME NEW c \in Conns, Reader(c) PROVE Entered'
  <2>1. CASE Release(c)
    <3>1. socket[c] # "none" /\ socket' = [socket EXCEPT ![c] = "closed"]
      BY <2>1 DEF Release, MembersRead
    <3> QED
      BY <1>1, <2>1, <3>1 DEF Release, TypeOK
  <2>2. CASE Read(c) \/ Complete(c) \/ Leave(c)
    BY <1>1, <2>2 DEF Read, Complete, Leave, TypeOK
  <2> QED
    BY <1>4, <2>1, <2>2 DEF Reader
<1>5. ASSUME NEW c \in Conns, Writer(c) PROVE Entered'
  <2>1. \/ socket' = socket
        \/ socket[c] # "none" /\ socket' = [socket EXCEPT ![c] = "closed"]
    <3>1. CASE Write(c)
      <4>1. \/ UNCHANGED socket
            \/ /\ socket[c] \in {"dead", "closed"}
               /\ socket' = [socket EXCEPT ![c] = "closed"]
        BY <3>1, Zenon DEF Write
      <4> QED
        BY <4>1
    <3>2. CASE WriterLeaves(c)
      BY <3>2 DEF WriterLeaves, MembersRead
    <3> QED
      BY <1>5, <3>1, <3>2 DEF Writer
  <2>2. UNCHANGED <<toClose, user, query>>
    BY <1>5 DEF Writer, Write, WriterLeaves
  <2> QED
    BY <1>1, <2>1, <2>2 DEF TypeOK
<1>6. ASSUME NEW c \in Conns, EditorVanishes(c) PROVE Entered'
  BY <1>1, <1>6 DEF EditorVanishes, TypeOK
<1>7. ASSUME NEW c \in Conns, NEW u \in Users, Authenticate(c, u) PROVE Entered'
  <2>1. u # NoUser /\ user' = [user EXCEPT ![c] = u]
    BY <1>7, NullsAssumption DEF Authenticate
  <2>2. UNCHANGED <<toClose, socket, query>>
    BY <1>7 DEF Authenticate
  <2> QED
    BY <2>1, <2>2 DEF Entered, TypeOK
<1>8. ASSUME NEW q \in Queries, NEW u \in Callers, Ask(q, u) PROVE Entered'
  BY <1>8 DEF Ask, Entered, TypeOK
<1>9. ASSUME NEW q \in Queries, Trip(q) PROVE Entered'
  <2>1. query[q] \in Trips
    BY DEF TypeOK
  <2>2. UNCHANGED <<toClose, user, socket>>
    BY <1>9 DEF Trip, Send, Receive, TimeOut, Unregister
  <2>3. query'[q].at = "unregister" => query'[q].outcome # NoOutcome
    <3>1. CASE Send(q)
      BY <2>1, <3>1, OutcomesAssumption DEF Send, TypeOK, Trips
    <3>2. CASE Receive(q)
      BY <2>1, <3>2 DEF Receive, TypeOK, Trips
    <3>3. CASE TimeOut(q)
      BY <2>1, <3>3, OutcomesAssumption DEF TimeOut, TypeOK, Trips
    <3>4. CASE Unregister(q)
      BY <2>1, <3>4 DEF Unregister, TypeOK, Trips
    <3> QED
      BY <1>9, <3>1, <3>2, <3>3, <3>4 DEF Trip
  <2>4. \A r \in Queries \ {q} : query'[r] = query[r]
    BY <1>9 DEF Trip, Send, Receive, TimeOut, Unregister, TypeOK
  <2> QED
    BY <2>2, <2>3, <2>4 DEF Entered
<1>10. ASSUME NEW u \in Users, ListConns(u) PROVE Entered'
  <2>1. \A c \in EditorsOf(u) \cap Conns : socket[c] # "none"
    BY DEF EditorsOf, MembersRead
  <2>2. \A v \in Users : toClose'[v] = toClose[v] \/ toClose'[v] = EditorsOf(u)
    BY <1>10 DEF ListConns, TypeOK
  <2>3. UNCHANGED <<user, socket, query>>
    BY <1>10 DEF ListConns
  <2> QED
    BY <2>1, <2>2, <2>3 DEF Entered
<1>11. ASSUME NEW u \in Users, DisconnectOne(u) PROVE Entered'
  <2>1. PICK c \in toClose[u] \cap Conns :
            /\ socket' = [socket EXCEPT ![c] = "closed"]
            /\ toClose' = [toClose EXCEPT ![u] = @ \ {c}]
    BY <1>11 DEF DisconnectOne
  <2>2. UNCHANGED <<user, query>>
    BY <1>11 DEF DisconnectOne
  <2>3. \A v \in Users : toClose'[v] \subseteq toClose[v]
    BY <2>1 DEF TypeOK
  <2> QED
    BY <2>1, <2>2, <2>3 DEF Entered, TypeOK
<1>12. ASSUME NEW u \in Switchers, NEW switch \in {"on", "off"}, SaveSettings(u, switch)
       PROVE  Entered'
  <2>1. UNCHANGED <<user, socket, query>>
    BY <1>12 DEF SaveSettings
  <2>2. \A v \in Users : toClose'[v] \cap Conns \subseteq toClose[v]
    BY <1>12, NullsAssumption DEF SaveSettings, TypeOK
  <2> QED
    BY <2>1, <2>2 DEF Entered
<1>13. CASE UNCHANGED vars
  BY <1>1, <1>13 DEF vars
<1> QED
  BY <1>2, <1>3, <1>4, <1>5, <1>6, <1>7, <1>8, <1>9, <1>10, <1>11, <1>12, <1>13
     DEF Next, Disconnect

LEMMA EnteredCorrect == Spec => []Entered
<1>1. Init => Entered
  BY DEF Init, Entered
<1>2. TypeOK /\ MembersRead /\ Entered /\ [Next]_vars => Entered'
  BY EnteredStep
<1> QED
  BY <1>1, <1>2, TypeCorrect, MembersReadCorrect, PTL DEF Spec

\* The editors that have connected for a user, and the outcome of a round trip, as
\* EditorQuery sees them.
Joined(u) == {c \in Conns : user[c] = u /\ socket[c] # "none"}

Outcome(q) == IF query[q].at = "returned" THEN query[q].outcome ELSE NoOutcome

LEMMA StutterWhenSame ==
    ASSUME \A u \in Users : Joined(u)' = Joined(u),
           \A q \in Queries : query'[q].user = query[q].user /\ Outcome(q)' = Outcome(q)
    PROVE  UNCHANGED RoundTrip!vars
  BY DEF RoundTrip!vars, Joined, Outcome

\* Every step of the hub is a step of EditorQuery or leaves what it sees alone.
LEMMA RoundTripStep ==
    ASSUME TypeOK, MembersRead, TripsKept, Delivered, Entered, Next
    PROVE  [RoundTrip!Next]_(RoundTrip!vars)
<1> USE DEF switchVars, connVars, queryVars
<1>1. ASSUME UNCHANGED <<user, query>>,
             \A c \in Conns : socket[c] = "none" <=> socket'[c] = "none"
      PROVE  UNCHANGED RoundTrip!vars
  BY <1>1, StutterWhenSame DEF Joined, Outcome
<1>2. CASE Broadcast
  BY <1>1, <1>2 DEF Broadcast
<1>3. ASSUME NEW c \in Conns, Enter(c) PROVE RoundTrip!Next
  <2>1. user[c] \in Users /\ socket[c] = "none"
    BY <1>3 DEF Enter, TypeOK
  <2>2. UNCHANGED <<user, query>> /\ socket'[c] # "none"
        /\ \A d \in Conns \ {c} : socket'[d] = socket[d]
    BY <1>3 DEF Enter, TypeOK
  <2>3. \A v \in Users : c \notin Joined(v)
    BY <2>1 DEF Joined
  <2>4. \A v \in Users : Joined(v)' = IF v = user[c] THEN Joined(v) \cup {c} ELSE Joined(v)
    BY <2>2 DEF Joined
  <2>5. [v \in Users |-> Joined(v)]' =
            [[v \in Users |-> Joined(v)] EXCEPT ![user[c]] = @ \cup {c}]
    BY <2>1, <2>4
  <2>6. UNCHANGED <<[q \in Queries |-> query[q].user], [q \in Queries |-> Outcome(q)]>>
    BY <2>2 DEF Outcome
  <2> QED
    BY <2>1, <2>3, <2>5, <2>6 DEF RoundTrip!Next, RoundTrip!Join, Joined, Outcome
<1>4. ASSUME NEW c \in Conns, Reader(c) PROVE UNCHANGED RoundTrip!vars
  <2>1. CASE Release(c)
    BY <1>1, <2>1 DEF Release, MembersRead, TypeOK
  <2>2. CASE Read(c) \/ Complete(c) \/ Leave(c)
    BY <1>1, <2>2 DEF Read, Complete, Leave, TypeOK
  <2> QED
    BY <1>4, <2>1, <2>2 DEF Reader
<1>5. ASSUME NEW c \in Conns, Writer(c) PROVE UNCHANGED RoundTrip!vars
  <2>1. \/ socket' = socket
        \/ socket[c] # "none" /\ socket' = [socket EXCEPT ![c] = "closed"]
    <3>1. CASE Write(c)
      <4>1. \/ UNCHANGED socket
            \/ /\ socket[c] \in {"dead", "closed"}
               /\ socket' = [socket EXCEPT ![c] = "closed"]
        BY <3>1, Zenon DEF Write
      <4> QED
        BY <4>1
    <3>2. CASE WriterLeaves(c)
      BY <3>2 DEF WriterLeaves, MembersRead
    <3> QED
      BY <1>5, <3>1, <3>2 DEF Writer
  <2>2. UNCHANGED <<user, query>>
    BY <1>5 DEF Writer, Write, WriterLeaves
  <2> QED
    BY <1>1, <2>1, <2>2 DEF TypeOK
<1>6. ASSUME NEW c \in Conns, EditorVanishes(c) PROVE UNCHANGED RoundTrip!vars
  BY <1>1, <1>6 DEF EditorVanishes, TypeOK
<1>7. ASSUME NEW c \in Conns, NEW u \in Users, Authenticate(c, u)
      PROVE  UNCHANGED RoundTrip!vars
  <2>1. socket[c] = "none"
    BY <1>7 DEF Authenticate, Entered
  <2>2. UNCHANGED <<socket, query>> /\ \A d \in Conns \ {c} : user'[d] = user[d]
    BY <1>7 DEF Authenticate, TypeOK
  <2>3. \A v \in Users : Joined(v)' = Joined(v)
    BY <2>1, <2>2 DEF Joined
  <2>4. \A q \in Queries : query'[q].user = query[q].user /\ Outcome(q)' = Outcome(q)
    BY <2>2 DEF Outcome
  <2> QED
    BY <2>3, <2>4, StutterWhenSame
<1>8. ASSUME NEW q \in Queries, NEW u \in Callers, Ask(q, u) PROVE RoundTrip!Next
  <2>1. query[q].user = NoUser /\ u \in Users
    BY <1>8, UsersAssumption DEF Ask, TripsKept
  <2>2. /\ UNCHANGED <<user, socket>>
        /\ query' = [query EXCEPT ![q] = [at |-> "send", user |-> u, outcome |-> NoOutcome]]
        /\ query[q].at = "idle"
    BY <1>8 DEF Ask
  <2>3. [r \in Queries |-> query[r].user]' =
            [[r \in Queries |-> query[r].user] EXCEPT ![q] = u]
    BY <2>2 DEF TypeOK
  <2>4. \A r \in Queries : Outcome(r)' = Outcome(r)
    BY <2>2 DEF Outcome, TypeOK
  <2>5. UNCHANGED <<[v \in Users |-> Joined(v)], [r \in Queries |-> Outcome(r)]>>
    BY <2>2, <2>4 DEF Joined
  <2> QED
    BY <2>1, <2>3, <2>5 DEF RoundTrip!Next, RoundTrip!Ask, Joined, Outcome
<1>9. ASSUME NEW q \in Queries, Send(q) \/ Receive(q) \/ TimeOut(q)
      PROVE  UNCHANGED RoundTrip!vars
  <2>1. query[q] \in Trips
    BY DEF TypeOK
  <2>2. UNCHANGED <<user, socket>>
    BY <1>9 DEF Send, Receive, TimeOut
  <2>3. /\ query'[q].user = query[q].user
        /\ query'[q].at # "returned" /\ query[q].at # "returned"
    <3>1. CASE Send(q)
      BY <2>1, <3>1 DEF Send, TypeOK, Trips
    <3>2. CASE Receive(q)
      BY <2>1, <3>2 DEF Receive, TypeOK, Trips
    <3>3. CASE TimeOut(q)
      BY <2>1, <3>3 DEF TimeOut, TypeOK, Trips
    <3> QED
      BY <1>9, <3>1, <3>2, <3>3
  <2>4. \A r \in Queries \ {q} : query'[r] = query[r]
    BY <1>9 DEF Send, Receive, TimeOut, TypeOK
  <2>5. \A r \in Queries : query'[r].user = query[r].user /\ Outcome(r)' = Outcome(r)
    BY <2>3, <2>4 DEF Outcome
  <2>6. \A u \in Users : Joined(u)' = Joined(u)
    BY <2>2 DEF Joined
  <2> QED
    BY <2>5, <2>6, StutterWhenSame
<1>10. ASSUME NEW q \in Queries, Unregister(q) PROVE RoundTrip!Next
  <2>1. /\ query[q] \in Trips /\ query[q].at = "unregister"
        /\ query' = [query EXCEPT ![q] = [query[q] EXCEPT !.at = "returned"]]
        /\ UNCHANGED <<user, socket>>
    BY <1>10 DEF Unregister, TypeOK
  <2>2. /\ query[q].outcome \in Conns \cup {"no editor", "timeout"}
        /\ query[q].user \in Users
    BY <2>1 DEF Entered, TripsKept, Trips
  <2>3. query[q].outcome \in Conns => query[q].outcome \in Joined(query[q].user)
    BY DEF Delivered, Reaches, Addressed, Joined
  <2>4. /\ Outcome(q) = NoOutcome /\ Outcome(q)' = query[q].outcome
        /\ query'[q].user = query[q].user
    BY <2>1 DEF Outcome, TypeOK, Trips
  <2>5. \A r \in Queries \ {q} : Outcome(r)' = Outcome(r) /\ query'[r] = query[r]
    BY <2>1 DEF Outcome, TypeOK
  <2>6. [r \in Queries |-> Outcome(r)]' =
            [[r \in Queries |-> Outcome(r)] EXCEPT ![q] = query[q].outcome]
    BY <2>4, <2>5
  <2>7. UNCHANGED <<[v \in Users |-> Joined(v)], [r \in Queries |-> query[r].user]>>
    BY <2>1, <2>4, <2>5 DEF Joined
  <2>8. query[q].user # NoUser
    BY <2>2, NullsAssumption
  <2> QED
    BY <2>2, <2>3, <2>4, <2>6, <2>7, <2>8
       DEF RoundTrip!Next, RoundTrip!Return, RoundTrip!Failures, Joined, Outcome
<1>11. CASE \E u \in Users : ListConns(u)
  BY <1>1, <1>11 DEF ListConns
<1>12. ASSUME NEW u \in Users, DisconnectOne(u) PROVE UNCHANGED RoundTrip!vars
  <2>1. PICK c \in toClose[u] \cap Conns : socket' = [socket EXCEPT ![c] = "closed"]
    BY <1>12 DEF DisconnectOne
  <2>2. socket[c] # "none" /\ UNCHANGED <<user, query>>
    BY <1>12, <2>1 DEF DisconnectOne, Entered
  <2> QED
    BY <1>1, <2>1, <2>2 DEF TypeOK
<1>13. CASE \E u \in Switchers, switch \in {"on", "off"} : SaveSettings(u, switch)
  BY <1>1, <1>13 DEF SaveSettings
<1> QED
  BY <1>2, <1>3, <1>4, <1>5, <1>6, <1>7, <1>8, <1>9, <1>10, <1>11, <1>12, <1>13
     DEF Next, Trip, Disconnect

\* A round trip asks once, for one user, and returns at most once, with the reply of an
\* editor of that user or with an error: the safety part of RoundTripImplemented, for
\* every number of editors and callers (QueryActiveFlow, CompleteActiveQuery).
THEOREM RoundTripSafe ==
    Spec => RoundTrip!Init /\ [][RoundTrip!Next]_(RoundTrip!vars)
<1>1. Init => RoundTrip!Init
  BY DEF Init, RoundTrip!Init
<1>2. TypeOK /\ QueriesKept /\ Entered /\ [Next]_vars => [RoundTrip!Next]_(RoundTrip!vars)
  <2> SUFFICES ASSUME TypeOK, QueriesKept, Entered, [Next]_vars
               PROVE  [RoundTrip!Next]_(RoundTrip!vars)
    OBVIOUS
  <2>1. CASE Next
    BY <2>1, RoundTripStep DEF QueriesKept
  <2>2. CASE UNCHANGED vars
    BY <2>2, StutterWhenSame DEF vars, connVars, queryVars, Joined, Outcome
  <2> QED
    BY <2>1, <2>2
<1> QED
  BY <1>1, <1>2, TypeCorrect, QueriesKeptCorrect, EnteredCorrect, PTL DEF Spec

=============================================================================
