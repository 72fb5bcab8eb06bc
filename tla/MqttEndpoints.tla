--------------------------- MODULE MqttEndpoints ----------------------------
(***************************************************************************)
(* MQTT connections of flows: internal/mqttendpoint/manager.go and         *)
(* draft_session.go.                                                       *)
(*                                                                         *)
(* A flow has two tracks: the published one, mounted by SyncFlow for the   *)
(* publication, and the draft one, mounted by SyncDraft for a flow that is *)
(* not published while some editor session has it open.  The Manager keeps *)
(* a handle per node of a track (byNode) and the list of nodes per track   *)
(* (byFlow) under mu, the open flows of each session and their counts      *)
(* under sessionMu.  Connecting and subscribing to a broker takes seconds  *)
(* and holds neither: each lock section is a step, and jobs interleave     *)
(* between them.  A job is a REST handler (publish, offline, save, purge), *)
(* StartAll, or an editor session whose open flows change or which ends.   *)
(***************************************************************************)
EXTENDS Integers, Sequences, FiniteSets

CONSTANTS
    Flows, Nodes, Sessions, Workers,
    Dsls,       \* the MQTT nodes of a definition: all mqttIn, then all managed mqttOut
    Conns,      \* bound: names of broker connections
    MaxCalls,   \* bound: jobs begun
    NoDsl, NoNode, NoHandle, NoFlow, NoSession, NoJob

Tracks == {"published", "draft"}

\* An mqttIn, which connects in a draft if it responds (connectAndRespond), or a managed
\* mqttOut, persistent or on the connection of an mqttIn (reuseFrom).
MqttNodes == [id : Nodes, kind : {"in"}, responds : BOOLEAN]
             \cup [id : Nodes, kind : {"out"}, from : Nodes \cup {NoNode}]

ASSUME DslsAssumption == Dsls \subseteq Seq(MqttNodes)
ASSUME NullsAssumption == NoDsl \notin Dsls /\ NoNode \notin Nodes /\ NoFlow \notin Flows

VARIABLES
    live, draft,    \* the documents: published and draft definition (no document: NoDsl)
    sessions,       \* session -> flows it has open
    openCount,      \* flow -> number of sessions that have it open
    byNode,         \* track, flow, node -> handle
    byFlow,         \* track, flow -> nodes registered
    connected,      \* the connections that are up, each with its flow
    job,            \* what each goroutine is doing
    calls,          \* jobs begun
    disturbed       \* history: flows on which two jobs have overlapped, or whose HTTP
                    \* sync failed and left the MQTT sync out

docVars == <<live, draft>>
sessionVars == <<sessions, openCount>>
tableVars == <<byNode, byFlow, connected>>
vars == <<live, draft, sessions, openCount, byNode, byFlow, connected, job, calls, disturbed>>

\* clientHandle; only a reusing one does not own its connection.
Handles == [conn : Conns, kind : {"in", "persist", "reuse"}]

ASSUME HandlesAssumption == NoHandle \notin Handles
ASSUME BoundsAssumption == MaxCalls \in Nat /\ IsFiniteSet(Sessions)

Kinds == {"publish", "offline", "save", "purge", "boot", "edit", "leave"}

Places == {"store", "get", "http", "undraft", "unmount", "ifopen", "check", "release",
           "clear", "mount", "register", "undo", "remove", "close", "open", "list",
           "sweep", "drop"}

Jobs == [kind : Kinds, at : Places, flow : Flows \cup {NoFlow},
         live : Dsls \cup {NoDsl}, draft : Dsls \cup {NoDsl},
         track : Tracks, next : Nat, held : Handles \cup {NoHandle},
         session : Sessions \cup {NoSession},
         close : SUBSET Flows, open : SUBSET Flows, todo : SUBSET (Flows \X Dsls)]

ASSUME NoJobAssumption == NoJob \notin Jobs

TypeOK ==
    /\ live \in [Flows -> Dsls \cup {NoDsl}]
    /\ draft \in [Flows -> Dsls \cup {NoDsl}]
    /\ sessions \in [Sessions -> SUBSET Flows]
    /\ openCount \in [Flows -> Nat]
    /\ byNode \in [Tracks \X Flows -> [Nodes -> Handles \cup {NoHandle}]]
    /\ byFlow \in [Tracks \X Flows -> SUBSET Nodes]
    /\ connected \in SUBSET (Conns \X Flows)
    /\ job \in [Workers -> Jobs \cup {NoJob}]
    /\ calls \in 0..MaxCalls
    /\ disturbed \subseteq Flows

Idle(kind, at, f, s) ==
    [kind |-> kind, at |-> at, flow |-> f, live |-> NoDsl, draft |-> NoDsl,
     track |-> "published", next |-> 1, held |-> NoHandle, session |-> s,
     close |-> {}, open |-> {}, todo |-> {}]

\* The records StartAll syncs.
Listed == {p \in Flows \X Dsls : live[p[1]] = p[2]}

\* Documents survive a restart; StartAll is under way in one goroutine.
Init ==
    /\ draft \in [Flows -> Dsls]
    /\ live \in [Flows -> Dsls \cup {NoDsl}]
    /\ sessions = [s \in Sessions |-> {}]
    /\ openCount = [f \in Flows |-> 0]
    /\ byNode = [tf \in Tracks \X Flows |-> [n \in Nodes |-> NoHandle]]
    /\ byFlow = [tf \in Tracks \X Flows |-> {}]
    /\ connected = {}
    /\ \E w \in Workers :
           job = [v \in Workers |->
                     IF v = w
                     THEN [Idle("boot", "open", NoFlow, NoSession) EXCEPT
                              !.todo = Listed]
                     ELSE NoJob]
    /\ calls = 0
    /\ disturbed = {}

----------------------------------------------------------------------------
(* The handles.                                                            *)

IsDraftOpen(f) == openCount[f] > 0

Owned(h) == h.kind # "reuse"

Registered(t, f) == {n \in Nodes : byNode[<<t, f>>][n] # NoHandle}

\* Slip: only the handles that own their connection are forgotten.
DropsOwned(t, f) ==
    LET dropped == {n \in byFlow[<<t, f>>] \cap Registered(t, f) : Owned(byNode[<<t, f>>][n])}
    IN  /\ byNode' = [byNode EXCEPT ![<<t, f>>] =
                         [n \in Nodes |-> IF n \in dropped THEN NoHandle ELSE @[n]]]
        /\ byFlow' = [byFlow EXCEPT ![<<t, f>>] = @ \ dropped]
        /\ connected' = connected \ {<<byNode[<<t, f>>][n].conn, f>> : n \in dropped}

\* Slip: stopLocked leaves the connection of an mqttOut up.
KeepsPersistent(t, f) ==
    LET listed == byFlow[<<t, f>>] \cap Registered(t, f)
    IN  /\ byNode' = [byNode EXCEPT ![<<t, f>>] =
                         [n \in Nodes |-> IF n \in listed THEN NoHandle ELSE @[n]]]
        /\ byFlow' = [byFlow EXCEPT ![<<t, f>>] = {}]
        /\ connected' = connected \
                {<<byNode[<<t, f>>][n].conn, f>> : n \in {l \in listed : byNode[<<t, f>>][l].kind = "in"}}

\* removeTrack: every listed handle goes, with the connection it owns.
RemoveTrack(t, f) ==
    LET listed == byFlow[<<t, f>>] \cap Registered(t, f)
        owners == {n \in listed : Owned(byNode[<<t, f>>][n])}
    IN  /\ byNode' = [byNode EXCEPT ![<<t, f>>] =
                         [n \in Nodes |-> IF n \in listed THEN NoHandle ELSE @[n]]]
        /\ byFlow' = [byFlow EXCEPT ![<<t, f>>] = {}]
        /\ connected' = connected \ {<<byNode[<<t, f>>][n].conn, f>> : n \in owners}

\* Slip: the handle is stored and its key is not.
RegistersUnlisted(t, f, n, h) ==
    /\ byNode' = [byNode EXCEPT ![<<t, f>>][n] = h]
    /\ UNCHANGED byFlow

\* registerLocked overwrites what the node had.
RegisterLocked(t, f, n, h) ==
    /\ byNode' = [byNode EXCEPT ![<<t, f>>][n] = h]
    /\ byFlow' = [byFlow EXCEPT ![<<t, f>>] = @ \cup {n}]

----------------------------------------------------------------------------
(* Jobs.                                                                   *)

Underway == {w \in Workers : job[w] # NoJob}

At(w, place) == w \in Underway /\ job[w].at = place

\* The flows a job is at work on; a sweep only the one it has decided to release.
Touches(j) ==
    IF j = NoJob THEN {}
    ELSE ({j.flow} \ {NoFlow}) \cup (IF j.at \in {"sweep", "drop"} THEN {} ELSE j.close)
         \cup j.open \cup {p[1] : p \in j.todo}

Contended(jobs) ==
    {f \in Flows : \E u, v \in Workers :
                       u # v /\ f \in Touches(jobs[u]) /\ f \in Touches(jobs[v])}

\* The job of w goes on as j, in every step.
Becomes(w, j) ==
    /\ job' = [job EXCEPT ![w] = j]
    /\ disturbed' = disturbed \cup Contended(job')

GoTo(w, place) == Becomes(w, [job[w] EXCEPT !.at = place])

End(w) == Becomes(w, NoJob)

\* A loop over flows has done with one of them.
Loop(w, place) ==
    Becomes(w, [job[w] EXCEPT !.at = place, !.flow = NoFlow, !.live = NoDsl, !.draft = NoDsl])

\* SyncFlow or SyncDraft has returned.
Return(w, ok) ==
    CASE job[w].kind \in {"publish", "save"} -> End(w)
      [] job[w].kind = "offline" ->
             IF job[w].track = "published" /\ ok THEN GoTo(w, "ifopen") ELSE End(w)
      [] job[w].kind \in {"boot", "edit"} -> Loop(w, "open")

Begin(w, j) ==
    /\ job[w] = NoJob
    /\ calls < MaxCalls
    /\ calls' = calls + 1
    /\ Becomes(w, j)

\* A REST handler begins.
Handle(w) ==
    /\ \E f \in Flows, kind \in {"publish", "offline", "save", "purge"} :
           Begin(w, Idle(kind, "store", f, NoSession))
    /\ UNCHANGED <<docVars, sessionVars, tableVars>>

\* The store operation; it refuses a flow that is gone, or is not online.  MCP's
\* save_flow is this step and no more.
Store(w) ==
    LET f == job[w].flow
    IN  /\ At(w, "store")
        /\ \/ /\ job[w].kind = "publish" /\ draft[f] # NoDsl
              /\ live' = [live EXCEPT ![f] = draft[f]]
              /\ UNCHANGED draft
              /\ GoTo(w, "get")
           \/ /\ job[w].kind = "offline" /\ live[f] # NoDsl
              /\ live' = [live EXCEPT ![f] = NoDsl]
              /\ UNCHANGED draft
              /\ GoTo(w, "get")
           \/ /\ job[w].kind = "save"
              /\ \E d \in Dsls : draft' = [draft EXCEPT ![f] = d]
              /\ UNCHANGED live
              /\ GoTo(w, "get") \/ End(w)
           \/ /\ job[w].kind = "purge" /\ draft[f] # NoDsl
              /\ draft' = [draft EXCEPT ![f] = NoDsl]
              /\ live' = [live EXCEPT ![f] = NoDsl]
              /\ GoTo(w, "remove")
           \/ /\ \/ job[w].kind \in {"publish", "purge"} /\ draft[f] = NoDsl
                 \/ job[w].kind = "offline" /\ live[f] = NoDsl
              /\ End(w)
              /\ UNCHANGED docVars
        /\ UNCHANGED <<sessionVars, tableVars, calls>>

\* GetFlow: the record the rest of the handler works with.
Get(w) ==
    LET j == [job[w] EXCEPT !.live = live[job[w].flow], !.draft = draft[job[w].flow]]
    IN  /\ At(w, "get")
        /\ IF j.draft = NoDsl THEN End(w)
           ELSE Becomes(w, [j EXCEPT !.at = IF j.kind = "save" THEN "ifopen" ELSE "http"])
        /\ UNCHANGED <<docVars, sessionVars, tableVars, calls>>

\* Composite.SyncFlow and RemoveFlow: the HTTP routes first; if they fail, or the removal of
\* a route panics, MQTT is left as it was.
HttpSync(w) ==
    /\ At(w, "http") \/ At(w, "remove")
    /\ \/ At(w, "http") /\ GoTo(w, "undraft")
       \/ /\ job' = [job EXCEPT ![w] = NoJob]
          /\ disturbed' = disturbed \cup {job[w].flow}
    /\ UNCHANGED <<docVars, sessionVars, tableVars, calls>>

----------------------------------------------------------------------------
(* SyncFlow and SyncDraft.                                                 *)

\* Slip: SyncFlow leaves the draft connections alone.
KeepsDraft(w) ==
    /\ At(w, "undraft")
    /\ GoTo(w, "unmount")
    /\ UNCHANGED <<docVars, sessionVars, tableVars, calls>>

\* SyncFlow begins with RemoveDraft.
Undraft(w) ==
    /\ At(w, "undraft")
    /\ RemoveTrack("draft", job[w].flow)
    /\ GoTo(w, "unmount")
    /\ UNCHANGED <<docVars, sessionVars, calls>>

\* RemoveFlow; without a publication that is all.
Unmount(w) ==
    /\ At(w, "unmount")
    /\ RemoveTrack("published", job[w].flow)
    /\ IF job[w].live = NoDsl
       THEN Return(w, TRUE)
       ELSE Becomes(w, [job[w] EXCEPT !.at = "mount", !.track = "published", !.next = 1])
    /\ UNCHANGED <<docVars, sessionVars, calls>>

\* SyncDraftIfOpen.
IfOpen(w) ==
    /\ At(w, "ifopen")
    /\ Becomes(w, [job[w] EXCEPT
                      !.at = IF IsDraftOpen(job[w].flow) THEN "check" ELSE "release",
                      !.track = "draft"])
    /\ UNCHANGED <<docVars, sessionVars, tableVars, calls>>

\* Slip: that the flow is published is not looked at.
MayMountOnline(j) == IsDraftOpen(j.flow) /\ j.draft # NoDsl

\* SyncDraft: open in an editor, not published, and there.
MayMountDraft(j) == IsDraftOpen(j.flow) /\ j.live = NoDsl /\ j.draft # NoDsl

Check(w) ==
    /\ At(w, "check")
    /\ Becomes(w, [job[w] EXCEPT !.at = IF MayMountDraft(job[w]) THEN "clear" ELSE "release",
                                 !.track = "draft"])
    /\ UNCHANGED <<docVars, sessionVars, tableVars, calls>>

\* RemoveDraft and no more.
Release(w) ==
    /\ At(w, "release")
    /\ RemoveTrack("draft", job[w].flow)
    /\ Return(w, TRUE)
    /\ UNCHANGED <<docVars, sessionVars, calls>>

\* RemoveDraft, then mount anew.
Clear(w) ==
    /\ At(w, "clear")
    /\ RemoveTrack("draft", job[w].flow)
    /\ Becomes(w, [job[w] EXCEPT !.at = "mount", !.next = 1])
    /\ UNCHANGED <<docVars, sessionVars, calls>>

Dsl(j) == IF j.track = "published" THEN j.live ELSE j.draft

\* Whether the i-th node is mounted: in a draft, an mqttIn that responds, and an mqttOut
\* unless it reuses one that does not.
Mounted(j, i) ==
    LET node == Dsl(j)[i]
    IN  \/ j.track = "published"
        \/ node.kind = "in" /\ node.responds
        \/ node.kind = "out" /\ node.from = NoNode
        \/ /\ node.kind = "out"
           /\ \E k \in DOMAIN Dsl(j) : /\ Dsl(j)[k].id = node.from
                                       /\ Dsl(j)[k].kind = "in" /\ Dsl(j)[k].responds

\* The next node to mount, if there is one.
NextNode(w) ==
    {i \in DOMAIN Dsl(job[w]) : /\ i >= job[w].next /\ Mounted(job[w], i)
                                /\ \A k \in job[w].next..(i - 1) : ~Mounted(job[w], k)}

Holds(w, i, h) == Becomes(w, [job[w] EXCEPT !.at = "register", !.next = i, !.held = h])

\* Connections nobody refers to any more.
Fresh == {c \in Conns : /\ \A f \in Flows : <<c, f>> \notin connected
                        /\ \A tf \in Tracks \X Flows, n \in Nodes :
                               byNode[tf][n] # NoHandle => byNode[tf][n].conn # c
                        /\ \A w \in Underway : job[w].held # NoHandle => job[w].held.conn # c}

\* mqtt.Connect, and Subscribe for an mqttIn, outside the locks.
Connect(w) ==
    /\ At(w, "mount")
    /\ Fresh # {}
    /\ \E i \in NextNode(w) :
           LET node == Dsl(job[w])[i]
               c == CHOOSE new \in Fresh : TRUE
           IN  /\ node.kind = "out" => node.from = NoNode
               /\ connected' = connected \cup {<<c, job[w].flow>>}
               /\ Holds(w, i, [conn |-> c, kind |-> IF node.kind = "in" THEN "in" ELSE "persist"])
    /\ UNCHANGED <<docVars, sessionVars, byNode, byFlow, calls>>

\* addOut with reuseFrom takes the connection of the mqttIn it finds.
Reuse(w) ==
    /\ At(w, "mount")
    /\ \E i \in NextNode(w) :
           LET node == Dsl(job[w])[i]
               in == byNode[<<job[w].track, job[w].flow>>][node.from]
           IN  /\ node.kind = "out"
               /\ node.from # NoNode
               /\ IF in # NoHandle /\ in.kind = "in"
                  THEN Holds(w, i, [conn |-> in.conn, kind |-> "reuse"])
                  ELSE GoTo(w, "undo")
    /\ UNCHANGED <<docVars, sessionVars, tableVars, calls>>

\* A node does not parse, one after the last to be mounted perhaps, or its broker cannot be
\* reached or refuses the topic.
MountFails(w) ==
    /\ At(w, "mount")
    /\ GoTo(w, "undo")
    /\ UNCHANGED <<docVars, sessionVars, tableVars, calls>>

Register(w) ==
    /\ At(w, "register")
    /\ RegisterLocked(job[w].track, job[w].flow, Dsl(job[w])[job[w].next].id, job[w].held)
    /\ Becomes(w, [job[w] EXCEPT !.at = "mount", !.next = @ + 1, !.held = NoHandle])
    /\ UNCHANGED <<docVars, sessionVars, connected, calls>>

\* Slip: what was mounted before the error stays.
UndoesNothing(w) ==
    /\ At(w, "undo")
    /\ Return(w, FALSE)
    /\ UNCHANGED <<docVars, sessionVars, tableVars, calls>>

\* After an error the whole track goes.
Undo(w) ==
    /\ At(w, "undo")
    /\ RemoveTrack(job[w].track, job[w].flow)
    /\ Return(w, FALSE)
    /\ UNCHANGED <<docVars, sessionVars, calls>>

MountEnds(w) ==
    /\ At(w, "mount")
    /\ NextNode(w) = {}
    /\ Return(w, TRUE)
    /\ UNCHANGED <<docVars, sessionVars, tableVars, calls>>

\* Composite.RemoveFlow of a purged flow, past HTTP: the published track, then the draft.
Remove(w) ==
    /\ At(w, "remove")
    /\ RemoveTrack("published", job[w].flow)
    /\ Becomes(w, [job[w] EXCEPT !.at = "drop"])
    /\ UNCHANGED <<docVars, sessionVars, calls>>

----------------------------------------------------------------------------
(* Editor sessions, and StartAll.                                          *)

\* A session is served by one goroutine: it does one thing at a time.
Quiet(s) == \A w \in Underway : job[w].session # s

\* Slip: a flow listed twice is counted twice.
CountsAll(ids, f) == Cardinality({i \in DOMAIN ids : ids[i] = f})

\* uniqueNonEmpty: a flow is wanted or not, however often it is listed.
Wanted(ids, f) == IF \E i \in DOMAIN ids : ids[i] = f THEN 1 ELSE 0

\* One session fewer has the flow open.
Fewer(f) == IF openCount[f] > 1 THEN openCount[f] - 1 ELSE 0

\* diffFlowSets.
Diff(old, wanted) == [added |-> wanted \ old, removed |-> old \ wanted]

\* The lock section of UpdateSessionOpenFlows, for the list the editor sent.
UpdateSessionOpenFlows(w, s) ==
    \E ids \in UNION {[1..n -> Flows] : n \in 0..2} :
        LET wanted == {f \in Flows : Wanted(ids, f) > 0}
            diff == Diff(sessions[s], wanted)
        IN  /\ Quiet(s)
            /\ sessions' = [sessions EXCEPT ![s] = wanted]
            /\ openCount' = [f \in Flows |-> IF f \in diff.added THEN openCount[f] + Wanted(ids, f)
                                             ELSE IF f \in diff.removed THEN Fewer(f)
                                             ELSE openCount[f]]
            /\ Begin(w, [Idle("edit", "close", NoFlow, s) EXCEPT
                            !.close = {f \in diff.removed : openCount'[f] = 0},
                            !.open = {f \in diff.added : openCount'[f] = 1}])
            /\ UNCHANGED <<docVars, tableVars>>

\* That of ReleaseSession.
ReleaseSession(w, s) ==
    /\ Quiet(s)
    /\ sessions' = [sessions EXCEPT ![s] = {}]
    /\ openCount' = [f \in Flows |-> IF f \in sessions[s] THEN Fewer(f) ELSE openCount[f]]
    /\ Begin(w, [Idle("leave", "close", NoFlow, s) EXCEPT
                    !.close = {f \in sessions[s] : openCount'[f] = 0}])
    /\ UNCHANGED <<docVars, tableVars>>

\* RemoveDraft of the flows nobody has open any more, one after the other.
Close(w) ==
    /\ At(w, "close")
    /\ \E f \in job[w].close :
           /\ RemoveTrack("draft", f)
           /\ Becomes(w, [job[w] EXCEPT !.close = @ \ {f}])
    /\ UNCHANGED <<docVars, sessionVars, calls>>

CloseEnds(w) ==
    /\ At(w, "close")
    /\ job[w].close = {}
    /\ GoTo(w, IF job[w].kind = "edit" THEN "open" ELSE "list")
    /\ UNCHANGED <<docVars, sessionVars, tableVars, calls>>

\* syncDraftByID of a flow opened; a flow that is gone is passed over.
Open(w) ==
    /\ At(w, "open")
    /\ \E f \in job[w].open :
           LET j == [job[w] EXCEPT !.open = @ \ {f}]
           IN  IF draft[f] = NoDsl THEN Becomes(w, j)
               ELSE Becomes(w, [j EXCEPT !.at = "check", !.flow = f,
                                         !.live = live[f], !.draft = draft[f]])
    /\ UNCHANGED <<docVars, sessionVars, tableVars, calls>>

\* StartAll: SyncFlow of a record listed at the start.
Boot(w) ==
    /\ At(w, "open")
    /\ \E p \in job[w].todo :
           Becomes(w, [job[w] EXCEPT !.todo = @ \ {p}, !.at = "undraft",
                                     !.flow = p[1], !.live = p[2]])
    /\ UNCHANGED <<docVars, sessionVars, tableVars, calls>>

OpenEnds(w) ==
    /\ At(w, "open")
    /\ job[w].open = {} /\ job[w].todo = {}
    /\ GoTo(w, "list")
    /\ UNCHANGED <<docVars, sessionVars, tableVars, calls>>

\* closeUnopenedDrafts lists the flows with a draft track, then looks at one after the other.
ListDrafts(w) ==
    /\ At(w, "list")
    /\ Becomes(w, [job[w] EXCEPT !.at = "sweep",
                                 !.close = {f \in Flows : byFlow[<<"draft", f>>] # {}}])
    /\ UNCHANGED <<docVars, sessionVars, tableVars, calls>>

Sweep(w) ==
    /\ At(w, "sweep")
    /\ \E f \in job[w].close :
           LET j == [job[w] EXCEPT !.close = @ \ {f}]
           IN  Becomes(w, IF IsDraftOpen(f) THEN j
                          ELSE [j EXCEPT !.at = "drop", !.flow = f])
    /\ UNCHANGED <<docVars, sessionVars, tableVars, calls>>

SweepEnds(w) ==
    /\ At(w, "sweep")
    /\ job[w].close = {}
    /\ End(w)
    /\ UNCHANGED <<docVars, sessionVars, tableVars, calls>>

\* RemoveDraft, last of a purge, or for a flow the sweep found unopened.
Drop(w) ==
    /\ At(w, "drop")
    /\ RemoveTrack("draft", job[w].flow)
    /\ IF job[w].kind = "purge" THEN End(w) ELSE Loop(w, "sweep")
    /\ UNCHANGED <<docVars, sessionVars, calls>>

----------------------------------------------------------------------------
Sync(w) ==
    \/ Undraft(w) \/ Unmount(w) \/ IfOpen(w) \/ Check(w) \/ Release(w) \/ Clear(w)
    \/ Connect(w) \/ Reuse(w) \/ MountFails(w) \/ Register(w) \/ Undo(w) \/ MountEnds(w)

Request(w) == Handle(w) \/ Store(w) \/ Get(w) \/ HttpSync(w) \/ Remove(w)

Session(w) ==
    \/ \E s \in Sessions : UpdateSessionOpenFlows(w, s) \/ ReleaseSession(w, s)
    \/ Close(w) \/ CloseEnds(w) \/ Open(w) \/ Boot(w) \/ OpenEnds(w)
    \/ ListDrafts(w) \/ Sweep(w) \/ SweepEnds(w) \/ Drop(w)

Next == \E w \in Workers : Request(w) \/ Sync(w) \/ Session(w)

Spec == Init /\ [][Next]_vars

----------------------------------------------------------------------------
(* Properties.                                                             *)

Settled(f) == \A w \in Workers : f \notin Touches(job[w])

\* Whatever interleaves, a handle can be found by the removal of its track: removeTrack
\* goes by byFlow, registerLocked fills both tables.
HandlesListed ==
    \A t \in Tracks, f \in Flows : Registered(t, f) = byFlow[<<t, f>>]

\* The reference count of a flow is the number of editor sessions that have it open, however
\* often they list it, repeat themselves or leave.
OpenCountExact ==
    \A f \in Flows : openCount[f] = Cardinality({s \in Sessions : f \in sessions[s]})

\* Unless two jobs have overlapped on the flow, no connection leaks: each one that is up
\* has exactly one handle that will disconnect it, or a job about to register it.
ConnectionsHeld ==
    \A c \in Conns, f \in Flows \ disturbed :
        <<c, f>> \in connected =>
            Cardinality({tn \in Tracks \X Nodes :
                            LET h == byNode[<<tn[1], f>>][tn[2]]
                            IN  h # NoHandle /\ h.conn = c /\ Owned(h)})
            + Cardinality({w \in Underway : /\ job[w].held # NoHandle
                                            /\ job[w].held.conn = c /\ Owned(job[w].held)}) = 1

\* Unless two jobs have overlapped on the flow, Publisher never hands out a connection that
\* was closed: an mqttOut that reuses one goes with the mqttIn that owns it.
HandlesAlive ==
    \A t \in Tracks, f \in Flows \ disturbed, n \in Nodes :
        byNode[<<t, f>>][n] # NoHandle => <<byNode[<<t, f>>][n].conn, f>> \in connected

\* manager.go:112: publication and draft of a flow are never connected at once (unless two
\* jobs have overlapped on the flow).
NoDoubleConnection ==
    \A f \in Flows \ disturbed : byFlow[<<"published", f>>] = {} \/ byFlow[<<"draft", f>>] = {}

\* A flow that nothing is at work on, and on which no two jobs have overlapped, has draft
\* connections only while an editor has it open and it is offline.
DraftFollowsEditor ==
    \A f \in Flows \ disturbed :
        Settled(f) /\ byFlow[<<"draft", f>>] # {} => IsDraftOpen(f) /\ live[f] = NoDsl

\* Such a flow has its publication mounted whole or not at all: SyncFlow leaves no part of a
\* mount that failed, nor of an earlier publication.
PublishedWhole ==
    \A f \in Flows \ disturbed :
        LET mounted == byFlow[<<"published", f>>]
        IN  Settled(f) /\ mounted # {} =>
                live[f] # NoDsl /\ mounted = {live[f][i].id : i \in DOMAIN live[f]}

\* draft_session.go:2-3: draft connections are there only while an editor has the flow open.
DraftOnlyWhileOpen ==
    \A f \in Flows : Settled(f) /\ byFlow[<<"draft", f>>] # {} => IsDraftOpen(f)
=============================================================================
