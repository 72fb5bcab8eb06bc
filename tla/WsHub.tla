------------------------------- MODULE WsHub --------------------------------
(***************************************************************************)
(* The editors' WebSocket hub: internal/ws/{hub,handler,client,            *)
(* active_query,active_patch}.go, and the MCP switch of a user             *)
(* (api/settings_handlers.go).                                             *)
(*                                                                         *)
(* Each connection has a reader and a writer goroutine and a buffered send *)
(* channel; the hub keeps the set of connections under mu.  A round trip   *)
(* (QueryActiveFlow; PatchActiveFlow is the same protocol over a map of    *)
(* its own) registers a channel under query.mu, sends to every editor of   *)
(* the user and waits for the first reply or a timer.  Each lock section   *)
(* is a step.  What the editor at the other end does is not known: it may  *)
(* answer never, late or twice, and it may vanish.                         *)
(***************************************************************************)
EXTENDS Naturals, Sequences, FiniteSets

CONSTANTS
    Users, Conns, Queries,
    Callers,    \* the users whose language-model clients ask
    Switchers,  \* the users who change their MCP switch
    sendBuf,    \* capacity of a send channel
    MaxSaves,   \* bound: changes of MCP switches
    NoUser, NoQuery, NoOutcome

ASSUME BoundsAssumption == sendBuf \in Nat \ {0} /\ MaxSaves \in Nat
ASSUME UsersAssumption == Callers \subseteq Users /\ Switchers \subseteq Users
ASSUME NullsAssumption == NoUser \notin Users \cup Conns /\ NoQuery \notin Queries
ASSUME OutcomesAssumption ==
    Conns \cap {"no editor", "timeout", NoOutcome} = {} /\ NoOutcome \notin {"no editor", "timeout"}
ASSUME EventAssumption == "event" \notin Queries

VARIABLES
    enabled,    \* user -> whether MCP is switched on
    saves,      \* changes of a switch so far
    toClose,    \* user -> connections DisconnectUser has listed and not closed; {NoUser}: not yet listed
    user,       \* connection -> its user, once authenticated
    socket,     \* connection -> "none", "open", "dead" (the peer is gone), "closed"
    reader,     \* connection -> where readPump is
    writer,     \* connection -> whether writePump runs
    clients,    \* Hub.clients
    queue,      \* connection -> its send channel
    sendClosed, \* connections whose send channel is closed
    seen,       \* connection -> queries its editor, while it is there, has received
    completing, \* connection -> the reply its reader has claimed a query for
    holds,      \* connections whose session has flows open in the draft MQTT manager
    pending,    \* queries registered in queryState
    chan,       \* query -> the reply in its channel
    query,      \* query -> its goroutine: [at, user, outcome]
    overlapped  \* history: connections whose handshake overlapped a DisconnectUser

switchVars == <<enabled, saves, toClose>>
connVars == <<user, socket, reader, writer, clients, queue, sendClosed, seen, completing, holds>>
queryVars == <<pending, chan, query>>
vars == <<switchVars, connVars, queryVars, overlapped>>

Event == "event"        \* any broadcast, and the greeting

Trips == [at : {"idle", "send", "wait", "unregister", "returned"}, user : Users \cup {NoUser},
          outcome : Conns \cup {"no editor", "timeout", NoOutcome}]

TypeOK ==
    /\ enabled \in [Users -> {"on", "off"}]
    /\ saves \in 0..MaxSaves
    /\ toClose \in [Users -> (SUBSET Conns) \cup {{NoUser}}]
    /\ user \in [Conns -> Users \cup {NoUser}]
    /\ socket \in [Conns -> {"none", "open", "dead", "closed"}]
    /\ reader \in [Conns -> {"none", "read", "complete", "release", "left"}]
    /\ writer \in [Conns -> {"none", "on", "left"}]
    /\ clients \subseteq Conns
    /\ queue \in [Conns -> Seq(Queries \cup {Event})]
    /\ \A c \in Conns : Len(queue[c]) <= sendBuf
    /\ sendClosed \subseteq Conns
    /\ seen \in [Conns -> SUBSET Queries]
    /\ completing \in [Conns -> Queries \cup {NoQuery}]
    /\ holds \subseteq Conns
    /\ pending \subseteq Queries
    /\ chan \in [Queries -> Conns \cup {NoOutcome}]
    /\ query \in [Queries -> Trips]
    /\ overlapped \subseteq Conns

Init ==
    /\ enabled = [u \in Users |-> "on"]
    /\ saves = 0
    /\ toClose = [u \in Users |-> {}]
    /\ user = [c \in Conns |-> NoUser]
    /\ socket = [c \in Conns |-> "none"]
    /\ reader = [c \in Conns |-> "none"]
    /\ writer = [c \in Conns |-> "none"]
    /\ clients = {}
    /\ queue = [c \in Conns |-> <<>>]
    /\ sendClosed = {}
    /\ seen = [c \in Conns |-> {}]
    /\ completing = [c \in Conns |-> NoQuery]
    /\ holds = {}
    /\ pending = {}
    /\ chan = [q \in Queries |-> NoOutcome]
    /\ query = [q \in Queries |-> [at |-> "idle", user |-> NoUser, outcome |-> NoOutcome]]
    /\ overlapped = {}

----------------------------------------------------------------------------
(* The send channels.                                                      *)

\* A non-blocking send: the message is dropped if the channel is full.
Put(msg, to) ==
    queue' = [c \in Conns |-> IF c \in to /\ Len(queue[c]) < sendBuf
                              THEN Append(queue[c], msg) ELSE queue[c]]

Broadcast ==
    /\ clients # {}
    /\ Put(Event, clients)
    /\ UNCHANGED <<switchVars, user, socket, reader, writer, clients, sendClosed, seen,
                   completing, holds, queryVars, overlapped>>

----------------------------------------------------------------------------
(* The handshake.                                                          *)

\* Slip: the user's switch is not looked at.
Admits(c, u) ==
    /\ user[c] = NoUser
    /\ user' = [user EXCEPT ![c] = u]
    /\ UNCHANGED <<switchVars, socket, reader, writer, clients, queue, sendClosed, seen,
                   completing, holds, queryVars, overlapped>>

IsMcpEnabled(u) == enabled[u] = "on"

\* Authenticated, and MCP is switched on.
Authenticate(c, u) ==
    /\ user[c] = NoUser
    /\ IsMcpEnabled(u)
    /\ user' = [user EXCEPT ![c] = u]
    /\ UNCHANGED <<switchVars, socket, reader, writer, clients, queue, sendClosed, seen,
                   completing, holds, queryVars, overlapped>>

\* Upgrade and Hub.add, the greeting, and the two goroutines.
Enter(c) ==
    /\ user[c] # NoUser
    /\ socket[c] = "none"
    /\ socket' = [socket EXCEPT ![c] = "open"]
    /\ clients' = clients \cup {c}
    /\ Put(Event, {c})
    /\ reader' = [reader EXCEPT ![c] = "read"]
    /\ writer' = [writer EXCEPT ![c] = "on"]
    /\ UNCHANGED <<switchVars, user, sendClosed, seen, completing, holds, queryVars,
                   overlapped>>

----------------------------------------------------------------------------
(* The editor.                                                             *)

\* The peer closes, crashes or is cut off.
EditorVanishes(c) ==
    /\ socket[c] = "open"
    /\ socket' = [socket EXCEPT ![c] = "dead"]
    /\ seen' = [seen EXCEPT ![c] = {}]
    /\ UNCHANGED <<switchVars, user, reader, writer, clients, queue, sendClosed,
                   completing, holds, queryVars, overlapped>>

----------------------------------------------------------------------------
(* readPump.                                                               *)

\* Slip: the query stays registered.
ClaimsAndKeeps(c, q) ==
    /\ completing' = [completing EXCEPT ![c] = q]
    /\ UNCHANGED pending

\* The lock section of CompleteActiveQuery: the first reply takes the channel.
Claims(c, q) ==
    /\ completing' = [completing EXCEPT ![c] = q]
    /\ pending' = pending \ {q}

\* ReadMessage and handleInbound of what the editor sends: its open flows, or a reply to a
\* query it has received, ignored if nobody waits for it.  A message that arrived before the
\* socket closed is read before it closes: the order shows nowhere.
Read(c) ==
    /\ reader[c] = "read"
    /\ socket[c] = "open"
    /\ \/ /\ holds' = holds \cup {c}
          /\ UNCHANGED <<reader, completing, pending>>
       \/ /\ \E q \in seen[c] \cap pending : Claims(c, q)
          /\ reader' = [reader EXCEPT ![c] = "complete"]
          /\ UNCHANGED holds
    /\ UNCHANGED <<switchVars, user, socket, writer, clients, queue, sendClosed, seen, chan,
                   query, overlapped>>

\* ch <- reply, or nothing if the channel is full.
Complete(c) ==
    /\ reader[c] = "complete"
    /\ chan' = [chan EXCEPT ![completing[c]] = IF @ = NoOutcome THEN c ELSE @]
    /\ completing' = [completing EXCEPT ![c] = NoQuery]
    /\ reader' = [reader EXCEPT ![c] = "read"]
    /\ UNCHANGED <<switchVars, user, socket, writer, clients, queue, sendClosed, seen,
                   holds, pending, query, overlapped>>

\* Slip: the channel is closed and the connection stays in the table.
ClosesOnly(c) ==
    /\ sendClosed' = sendClosed \cup {c}
    /\ UNCHANGED clients

\* The lock section of Hub.remove.
Removes(c) ==
    /\ clients' = clients \ {c}
    /\ sendClosed' = IF c \in clients THEN sendClosed \cup {c} ELSE sendClosed

\* ReadMessage fails on a closed socket, and by the deadline when no pong arrives.
ReadFails(c) == socket[c] \in {"dead", "closed"}

Leave(c) ==
    /\ reader[c] = "read"
    /\ ReadFails(c)
    /\ Removes(c)
    /\ reader' = [reader EXCEPT ![c] = "release"]
    /\ UNCHANGED <<switchVars, user, socket, writer, queue, seen, completing, holds,
                   queryVars, overlapped>>

\* Slip: the session of the editor is not released.
ReleasesNothing(c) ==
    /\ reader[c] = "release"
    /\ socket' = [socket EXCEPT ![c] = "closed"]
    /\ reader' = [reader EXCEPT ![c] = "left"]
    /\ UNCHANGED <<switchVars, user, writer, clients, queue, sendClosed, seen, completing, holds,
                   queryVars, overlapped>>

\* hook.ReleaseSession, and conn.Close.
Release(c) ==
    /\ reader[c] = "release"
    /\ holds' = holds \ {c}
    /\ socket' = [socket EXCEPT ![c] = "closed"]
    /\ reader' = [reader EXCEPT ![c] = "left"]
    /\ UNCHANGED <<switchVars, user, writer, clients, queue, sendClosed, seen, completing,
                   queryVars, overlapped>>

----------------------------------------------------------------------------
(* writePump.                                                              *)

\* A queued message goes out; the editor sees it if it is there.
Write(c) ==
    /\ writer[c] = "on"
    /\ queue[c] # <<>>
    /\ queue' = [queue EXCEPT ![c] = Tail(@)]
    /\ \/ /\ socket[c] = "open"
          /\ seen' = [seen EXCEPT ![c] = @ \cup ({Head(queue[c])} \cap Queries)]
          /\ UNCHANGED <<writer, socket>>
       \/ /\ socket[c] \in {"dead", "closed"}
          /\ writer' = [writer EXCEPT ![c] = "left"]
          /\ socket' = [socket EXCEPT ![c] = "closed"]
          /\ UNCHANGED seen
    /\ UNCHANGED <<switchVars, user, reader, clients, sendClosed, completing, holds,
                   queryVars, overlapped>>

\* The channel is drained and closed, or a ping fails.
WriterLeaves(c) ==
    /\ writer[c] = "on"
    /\ \/ c \in sendClosed /\ queue[c] = <<>>
       \/ socket[c] \in {"dead", "closed"}
    /\ writer' = [writer EXCEPT ![c] = "left"]
    /\ socket' = [socket EXCEPT ![c] = "closed"]
    /\ UNCHANGED <<switchVars, user, reader, clients, queue, sendClosed, seen, completing,
                   holds, queryVars, overlapped>>

----------------------------------------------------------------------------
(* A round trip.                                                           *)

\* QueryActiveFlow registers its channel.
Ask(q, u) ==
    /\ query[q].at = "idle"
    /\ query' = [query EXCEPT ![q] = [at |-> "send", user |-> u, outcome |-> NoOutcome]]
    /\ pending' = pending \cup {q}
    /\ UNCHANGED <<switchVars, connVars, chan, overlapped>>

\* Slip: every editor is asked.
Everybody(u) == clients

EditorsOf(u) == {c \in clients : user[c] = u}

\* SendToUser; with nothing delivered there is no editor.
Send(q) ==
    /\ query[q].at = "send"
    /\ Put(q, EditorsOf(query[q].user))
    /\ query' = IF \E c \in EditorsOf(query[q].user) : Len(queue[c]) < sendBuf
                THEN [query EXCEPT ![q].at = "wait"]
                ELSE [query EXCEPT ![q].at = "unregister", ![q].outcome = "no editor"]
    /\ UNCHANGED <<switchVars, user, socket, reader, writer, clients, sendClosed, seen,
                   completing, holds, pending, chan, overlapped>>

\* The select: a reply, or the timer, whichever it takes.
Receive(q) ==
    /\ query[q].at = "wait"
    /\ chan[q] # NoOutcome
    /\ query' = [query EXCEPT ![q].at = "unregister", ![q].outcome = chan[q]]
    /\ chan' = [chan EXCEPT ![q] = NoOutcome]
    /\ UNCHANGED <<switchVars, connVars, pending, overlapped>>

\* Slip: the wait has no timer.
WaitsOn(q) == FALSE /\ UNCHANGED vars

TimeOut(q) ==
    /\ query[q].at = "wait"
    /\ query' = [query EXCEPT ![q].at = "unregister", ![q].outcome = "timeout"]
    /\ UNCHANGED <<switchVars, connVars, pending, chan, overlapped>>

\* Slip: the query is left registered.
ReturnsOnly(q) ==
    /\ query[q].at = "unregister"
    /\ query' = [query EXCEPT ![q].at = "returned"]
    /\ UNCHANGED <<switchVars, connVars, pending, chan, overlapped>>

\* The deferred delete, and the return.
Unregister(q) ==
    /\ query[q].at = "unregister"
    /\ query' = [query EXCEPT ![q].at = "returned"]
    /\ pending' = pending \ {q}
    /\ UNCHANGED <<switchVars, connVars, chan, overlapped>>

----------------------------------------------------------------------------
(* The MCP switch.                                                         *)

\* SaveMcpSettings; switched off, the user's editors are to be disconnected.  A save that
\* leaves the switch on does nothing here.
SaveSettings(u, switch) ==
    /\ switch = "on" => enabled[u] = "off"
    /\ toClose[u] = {}
    /\ saves < MaxSaves
    /\ saves' = saves + 1
    /\ enabled' = [enabled EXCEPT ![u] = switch]
    /\ toClose' = [toClose EXCEPT ![u] = IF switch = "on" THEN {} ELSE {NoUser}]
    /\ UNCHANGED <<connVars, queryVars, overlapped>>

\* DisconnectUser lists the connections of the user; one in its handshake is not among them.
ListConns(u) ==
    /\ toClose[u] = {NoUser}
    /\ toClose' = [toClose EXCEPT ![u] = EditorsOf(u)]
    /\ overlapped' = overlapped \cup {c \in Conns : user[c] = u /\ socket[c] = "none"}
    /\ UNCHANGED <<enabled, saves, connVars, queryVars>>

DisconnectOne(u) ==
    /\ \E c \in toClose[u] \cap Conns :
           /\ socket' = [socket EXCEPT ![c] = "closed"]
           /\ toClose' = [toClose EXCEPT ![u] = @ \ {c}]
           /\ seen' = [seen EXCEPT ![c] = {}]
    /\ UNCHANGED <<enabled, saves, user, reader, writer, clients, queue, sendClosed,
                   completing, holds, queryVars, overlapped>>

----------------------------------------------------------------------------
Reader(c) == Read(c) \/ Complete(c) \/ Leave(c) \/ Release(c)

Writer(c) == Write(c) \/ WriterLeaves(c)

Trip(q) == Send(q) \/ Receive(q) \/ TimeOut(q) \/ Unregister(q)

Disconnect(u) == ListConns(u) \/ DisconnectOne(u)

Next ==
    \/ Broadcast
    \/ \E c \in Conns : Enter(c) \/ Reader(c) \/ Writer(c) \/ EditorVanishes(c)
    \/ \E c \in Conns, u \in Users : Authenticate(c, u)
    \/ \E q \in Queries : Trip(q) \/ \E u \in Callers : Ask(q, u)
    \/ \E u \in Users : Disconnect(u)
    \/ \E u \in Switchers, switch \in {"on", "off"} : SaveSettings(u, switch)

\* Goroutines are scheduled, timers fire, deadlines pass; users and editors owe nothing.
Fairness ==
    /\ \A c \in Conns : WF_vars(Reader(c)) /\ WF_vars(Writer(c))
    /\ \A q \in Queries : WF_vars(Trip(q))
    /\ \A u \in Users : WF_vars(Disconnect(u))

Spec == Init /\ [][Next]_vars /\ Fairness

----------------------------------------------------------------------------
(* Properties.                                                             *)

\* Nobody sends on a closed channel, which would panic: Broadcast and SendToUser go by
\* Hub.clients, and remove takes a connection out in the step that closes its channel.
MembersOpen == clients \cap sendClosed = {}

\* No query stays registered after its round trip, whether it was answered, timed out or
\* found no editor (the deferred delete of QueryActiveFlow).
PendingInProgress == \A q \in pending : query[q].at \in {"send", "wait", "unregister"}

\* The reply that claimed a query finds room in its channel, however many editors answer
\* and however often, and comes from an editor of the user the query is for; so does the
\* reply that lies in a channel (CompleteActiveQuery, SendToUser).
ClaimedReplyFits ==
    /\ \A c \in Conns : reader[c] = "complete" =>
           chan[completing[c]] = NoOutcome /\ user[c] = query[completing[c]].user
    /\ \A q \in Queries : chan[q] # NoOutcome => user[chan[q]] = query[q].user

\* A user whose MCP is switched off has no editor connected, except one whose handshake
\* overlapped the disconnection (settings_handlers.go:53, handler.go:43).
SwitchedOffDisconnected ==
    \A c \in clients \ overlapped :
        enabled[user[c]] = "off" /\ toClose[user[c]] = {} => socket[c] = "closed"

\* An editor that is gone, or was disconnected, leaves the hub and releases its drafts.
EditorsDepart ==
    \A c \in Conns : socket[c] \in {"dead", "closed"} ~>
        c \notin clients /\ c \notin holds /\ socket[c] = "closed"

\* The round trip keeps the promise of EditorQuery: it ends, once, with the reply of an
\* editor of the user asked or with an error.
RoundTrip ==
    INSTANCE EditorQuery WITH
        Editors <- Conns,
        joined <- [u \in Users |-> {c \in Conns : user[c] = u /\ socket[c] # "none"}],
        asked <- [q \in Queries |-> query[q].user],
        outcome <- [q \in Queries |-> IF query[q].at = "returned" THEN query[q].outcome
                                      ELSE NoOutcome]

RoundTripImplemented == RoundTrip!Spec
=============================================================================
