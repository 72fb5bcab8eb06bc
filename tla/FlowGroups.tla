----------------------------- MODULE FlowGroups -----------------------------
(***************************************************************************)
(* Groups and the trash: internal/store/group.go, flow_trash.go and        *)
(* SetFlowGroup of flow.go, with the handlers of internal/api and the MCP  *)
(* tools that call them and unload what goes offline.                      *)
(*                                                                         *)
(* An operation is a chain of database calls with nothing held across      *)
(* them; each call is a step here, the first one together with the checks  *)
(* that may refuse the request at once.  FindAll followed by UpdateById of *)
(* the document found is one step: the update of a document deleted in     *)
(* between fails as the search would have.  What UnpublishFlow and         *)
(* PublishFlow do between their own two calls is FlowStore's subject, how  *)
(* SyncFlow changes the route table, and that it may panic as it unloads,  *)
(* HttpEndpoints'.  SaveFlow of flow.go looks for the id and inserts in    *)
(* one step too, so that two first saves of one id at once, which would    *)
(* insert it twice, are left out.                                          *)
(*                                                                         *)
(* StartAll runs in a goroutine beside the requests: the HTTP manager      *)
(* lists the flows and synchronizes one after the other, as listed, and    *)
(* then the MQTT manager lists them anew and does the same.                *)
(*                                                                         *)
(* A user who is no admin has a list of flows (user.go), read once as the  *)
(* request is authenticated; HandleSaveFlow adds the flow saved to it.     *)
(***************************************************************************)
EXTENDS Naturals, FiniteSets

CONSTANTS
    Flows, Groups, Workers,
    Users,          \* the users who are no admins
    NoUser,         \* an admin
    NoGroup,        \* groupId = ""
    Trash,          \* TrashGroupID
    NoFlow, NoJob,
    MaxCalls,       \* bound: requests and crashes
    MaxEarly        \* bound: requests under way while StartAll is

ASSUME PlacesAssumption == NoGroup \notin Groups /\ Trash \notin Groups /\ NoGroup # Trash
ASSUME NoFlowAssumption == NoFlow \notin Flows
ASSUME NoUserAssumption == NoUser \notin Users
ASSUME MaxCallsAssumption == MaxCalls \in Nat

VARIABLES
    groups,     \* the groups collection: no id is used twice
    flow,       \* the flows collection
    access,     \* the users collection: flowIDs
    loaded,     \* the flows whose endpoints the endpoint manager serves
    boot,       \* the manager whose StartAll is to list the flows next
    listed,     \* the published flows StartAll has listed and not come to yet
    job,        \* the request each worker is in
    calls,
    raced,      \* history: flows on which two requests have overlapped
    home,       \* history: the group a flow was in when it was last moved to the trash
    doomed,     \* history: groups whose deletion has begun
    afresh,     \* history: flows published while in the trash
    overtaken,  \* history: flows listed by StartAll while a request unloaded them
    mixed       \* history: users whose list two requests have handled at once

history == <<raced, home, doomed, afresh>>
serving == <<loaded, boot, listed, overtaken>>
users == <<access, mixed>>
vars == <<groups, flow, access, loaded, boot, listed, job, calls, raced, home, doomed, afresh,
          overtaken, mixed>>

Ungrouped == Groups \cup {NoGroup}

FlowDocs == [stage : {"absent", "stored"}, group : Ungrouped \cup {Trash},
             previous : Ungrouped, state : {"online", "offline"}, lock : {"locked", "unlocked"}]

\* group: where a move goes to and a restore or a soft delete came from, or the group
\* being deleted; state: what the copy of the record said; todo: the flows still listed;
\* list: what the user could access when the request of a save came.
Jobs == [kind : {"move", "delete", "restore", "publish", "offline", "dissolve", "save", "tool"},
         at : {"group", "unpublish", "update", "purge", "remove", "reread", "sync",
               "list", "clear", "list previous", "clear previous", "get", "save", "grant"},
         flow : Flows \cup {NoFlow}, group : Ungrouped, state : {"online", "offline"},
         todo : SUBSET Flows, user : Users \cup {NoUser}, list : SUBSET Flows]

ASSUME NoJobAssumption == NoJob \notin Jobs

TypeOK ==
    /\ groups \in [Groups -> {"new", "there", "gone"}]
    /\ flow \in [Flows -> FlowDocs]
    /\ access \in [Users -> SUBSET Flows]
    /\ loaded \subseteq Flows /\ listed \subseteq Flows /\ mixed \subseteq Users
    /\ boot \in {"http", "mqtt", "done"}
    /\ job \in [Workers -> Jobs \cup {NoJob}]
    /\ calls \in 0..MaxCalls
    /\ raced \subseteq Flows /\ afresh \subseteq Flows /\ overtaken \subseteq Flows
    /\ home \in [Flows -> Ungrouped]
    /\ doomed \subseteq Groups

Exists(g) == groups[g] = "there"
Stored(f) == flow[f].stage = "stored"
InTrash(f) == Stored(f) /\ flow[f].group = Trash
Unlocked(f) == flow[f].lock = "unlocked"
Online(f) == Stored(f) /\ flow[f].state = "online"

Blank == [stage |-> "absent", group |-> NoGroup, previous |-> NoGroup,
          state |-> "offline", lock |-> "unlocked"]

\* A server that has been in use starts: EnsureTrashGroup has run, flows are in groups, in
\* the trash or not there yet, and requests are served as soon as StartAll runs.
Init ==
    /\ groups \in [Groups -> {"new", "there"}]
    /\ flow \in [Flows -> {Blank}
                    \cup [stage : {"stored"}, group : {g \in Groups : Exists(g)} \cup {NoGroup},
                          previous : {NoGroup}, state : {"online", "offline"}, lock : {"unlocked"}]
                    \cup [stage : {"stored"}, group : {Trash},
                          previous : {g \in Groups : Exists(g)} \cup {NoGroup},
                          state : {"offline"}, lock : {"unlocked"}]]
    /\ access \in [Users -> {{}, {f \in Flows : Stored(f)}}]
    /\ loaded = {} /\ boot = "http" /\ listed = {}
    /\ job = [w \in Workers |-> NoJob]
    /\ calls = 0
    /\ home = [f \in Flows |-> flow[f].previous]
    /\ raced = {} /\ doomed = {} /\ afresh = {} /\ overtaken = {} /\ mixed = {}

----------------------------------------------------------------------------
(* Requests.                                                               *)

Underway == {w \in Workers : job[w] # NoJob}

\* Two requests that may disturb each other on a flow: both are about it, or one is and
\* the other deletes a group it is in, was in or is going to, or still has it listed.  A
\* save is not among them: it leaves all but the DSL of a stored flow alone.
Saves(j) == j.kind \in {"save", "tool"}
Meet(i, j, f) ==
    /\ i.flow = f /\ ~Saves(i) /\ ~Saves(j)
    /\ \/ j.flow = f \/ f \in j.todo
       \/ j.kind = "dissolve" /\ j.group \in {flow[f].group, flow[f].previous, i.group}

\* StartAll has come to its end.
Started == boot = "done" /\ listed = {}

\* A request that unloads its flow, which StartAll may load again.
Unloads(j) == j.kind \in {"delete", "offline"}

Call == calls < MaxCalls /\ calls' = calls + 1

Begin(w, j) ==
    /\ Call
    /\ Started \/ Cardinality(Underway) < MaxEarly
    /\ job[w] = NoJob
    /\ job' = [job EXCEPT ![w] = j]
    /\ raced' = raced \cup {f \in Flows : \E v \in Underway : Meet(job[v], j, f) \/ Meet(j, job[v], f)}
    /\ mixed' = mixed \cup {u \in Users : /\ j.kind = "save" /\ j.user = u
                                        /\ \E v \in Underway : job[v].kind = "save" /\ job[v].user = u}
    /\ doomed' = doomed \cup (IF j.kind = "dissolve" THEN {j.group} ELSE {})
    /\ overtaken' = overtaken \cup {f \in listed : Unloads(j) /\ j.flow = f}
    /\ UNCHANGED <<groups, flow, access, loaded, boot, listed, home, afresh>>

NewJob(kind, at, f, g) ==
    [kind |-> kind, at |-> at, flow |-> f, group |-> g, state |-> "offline", todo |-> {},
     user |-> NoUser, list |-> {}]

End(w) == job' = [job EXCEPT ![w] = NoJob]
GoTo(w, place) == job' = [job EXCEPT ![w].at = place]
At(w, place) == job[w] # NoJob /\ job[w].at = place

\* SetFlowGroup: neither into the trash nor out of it.
SetFlowGroup(w) ==
    \E f \in Flows, g \in Ungrouped :
        /\ Stored(f) /\ ~InTrash(f)
        /\ Begin(w, NewJob("move", IF g = NoGroup THEN "update" ELSE "group", f, g))

\* Slip: a published flow stays online.
KeepsOnline(w) ==
    \E f \in Flows :
        /\ Stored(f) /\ Unlocked(f)
        /\ Begin(w, IF InTrash(f) THEN NewJob("delete", "purge", f, NoGroup)
                    ELSE [NewJob("delete", "update", f, flow[f].group)
                              EXCEPT !.state = flow[f].state])

\* Outside the trash a flow is moved there, inside it is deleted for good.
SoftDeleteOrPurgeFlow(w) ==
    \E f \in Flows :
        /\ Stored(f) /\ Unlocked(f)
        /\ Begin(w, IF InTrash(f) THEN NewJob("delete", "purge", f, NoGroup)
                    ELSE [NewJob("delete", IF Online(f) THEN "unpublish" ELSE "update",
                                 f, flow[f].group) EXCEPT !.state = flow[f].state])

RestoreFlow(w) ==
    \E f \in Flows :
        /\ InTrash(f) /\ Unlocked(f)
        /\ LET g == flow[f].previous
           IN  Begin(w, NewJob("restore", IF g = NoGroup THEN "update" ELSE "group", f, g))

DeleteGroup(w) ==
    \E g \in Groups : Exists(g) /\ Begin(w, NewJob("dissolve", "list", NoFlow, g))

\* PublishFlow, and with it the operations that bring an older publication online, and
\* UnpublishFlow.  No check of the trash.
Publish(w) ==
    \E f \in Flows, kind \in {"publish", "offline"} :
        Stored(f) /\ Unlocked(f) /\ Begin(w, NewJob(kind, "update", f, NoGroup))

\* HandleSaveFlow of a user, and the saves that grant nothing: an admin's, and toolSaveFlow
\* of anyone.  The list is read as the request comes, whether the flow is there or not.
SaveFlow(w) ==
    \E f \in Flows :
        \/ \E u \in Users :
               Begin(w, [NewJob("save", "get", f, NoGroup) EXCEPT !.user = u, !.list = access[u]])
        \/ \E list \in {Flows} \cup {access[u] : u \in Users} :
               Begin(w, [NewJob("tool", "get", f, NoGroup) EXCEPT !.list = list])

\* Requests of one step.
CreateGroup ==
    /\ Call
    /\ \E g \in Groups : groups[g] = "new" /\ groups' = [groups EXCEPT ![g] = "there"]
    /\ UNCHANGED <<flow, serving, job, history, users>>

\* HandleUpdateUserFlows, by an admin.
UpdateUserFlows ==
    /\ Call
    /\ \E u \in Users, list \in SUBSET Flows :
           /\ access[u] # list /\ access' = [access EXCEPT ![u] = list]
           /\ mixed' = mixed \cup (IF \E w \in Underway : job[w].kind = "save" /\ job[w].user = u
                                 THEN {u} ELSE {})
    /\ UNCHANGED <<groups, flow, serving, job, history>>

SetFlowLocked ==
    /\ Call
    /\ \E f \in Flows, l \in {"locked", "unlocked"} :
           Stored(f) /\ flow[f].lock # l /\ flow' = [flow EXCEPT ![f].lock = l]
    /\ UNCHANGED <<groups, serving, job, history, users>>

----------------------------------------------------------------------------
(* The steps of a request on a flow.                                       *)

\* GetGroup: a move is refused without its group, a restore goes to no group instead.
GetGroup(w) ==
    /\ At(w, "group")
    /\ \/ Exists(job[w].group) /\ GoTo(w, "update")
       \/ ~Exists(job[w].group) /\ job[w].kind = "move" /\ End(w)
       \/ /\ ~Exists(job[w].group) /\ job[w].kind = "restore"
          /\ job' = [job EXCEPT ![w].group = NoGroup, ![w].at = "update"]
    /\ UNCHANGED <<groups, flow, serving, calls, history, users>>

\* A flow purged in the meantime, or locked, or not the user's: the request fails.
Refused(w) ==
    /\ \/ job[w] # NoJob /\ job[w].at \in {"unpublish", "update", "purge", "reread"}
          /\ ~Stored(job[w].flow)
       \/ At(w, "unpublish") /\ ~Unlocked(job[w].flow)
       \/ At(w, "update") /\ job[w].kind \in {"publish", "offline"} /\ ~Unlocked(job[w].flow)
       \/ At(w, "update") /\ job[w].kind = "offline" /\ ~Online(job[w].flow)
       \/ At(w, "grant") /\ ~Stored(job[w].flow)
       \/ /\ job[w] # NoJob /\ job[w].at \in {"get", "save"} /\ Stored(job[w].flow)
          /\ (~Unlocked(job[w].flow) \/ (At(w, "get") /\ job[w].flow \notin job[w].list))
    /\ End(w)
    /\ UNCHANGED <<groups, flow, serving, calls, history, users>>

\* UnpublishFlow within SoftDeleteOrPurgeFlow; ErrNoPublished is no error there.
Unpublish(w) ==
    /\ At(w, "unpublish")
    /\ LET f == job[w].flow
       IN  /\ Stored(f) /\ Unlocked(f)
           /\ flow' = [flow EXCEPT ![f].state = "offline"]
           /\ afresh' = afresh \ {f}
    /\ GoTo(w, "update")
    /\ UNCHANGED <<groups, serving, calls, raced, home, doomed, users>>

\* Slip: previousGroupId is read from the document once it is in the trash.
TrashedFromTrash(d, g) == [d EXCEPT !.group = Trash, !.previous = NoGroup]

TrashedFrom(d, g) == [d EXCEPT !.group = Trash, !.previous = g]

\* UpdateById of the fields an operation writes.
Update(w) ==
    /\ At(w, "update")
    /\ Stored(job[w].flow)
    /\ LET j == job[w]
           f == j.flow
       IN  \/ /\ j.kind = "move"
              /\ flow' = [flow EXCEPT ![f].group = j.group]
              /\ End(w)
              /\ UNCHANGED <<home, afresh>>
           \/ /\ j.kind = "restore"
              /\ flow' = [flow EXCEPT ![f].group = j.group, ![f].previous = NoGroup]
              /\ End(w)
              /\ afresh' = afresh \ {f}
              /\ UNCHANGED home
           \/ /\ j.kind = "delete"
              /\ flow' = [flow EXCEPT ![f] = TrashedFrom(@, j.group)]
              /\ home' = [home EXCEPT ![f] = j.group]
              /\ IF j.state = "online" THEN GoTo(w, "reread") ELSE End(w)
              /\ UNCHANGED afresh
           \/ /\ j.kind = "publish" /\ Unlocked(f)
              /\ flow' = [flow EXCEPT ![f].state = "online"]
              /\ afresh' = afresh \cup (IF InTrash(f) THEN {f} ELSE {})
              /\ GoTo(w, "reread")
              /\ UNCHANGED home
           \/ /\ j.kind = "offline" /\ Unlocked(f) /\ Online(f)
              /\ flow' = [flow EXCEPT ![f].state = "offline"]
              /\ afresh' = afresh \ {f}
              /\ GoTo(w, "reread")
              /\ UNCHANGED home
    /\ UNCHANGED <<groups, serving, calls, raced, doomed, users>>

\* purgeFlowUnlocked: no second look at the group or the lock.
Purge(w) ==
    /\ At(w, "purge")
    /\ Stored(job[w].flow)
    /\ flow' = [flow EXCEPT ![job[w].flow] = Blank]
    /\ GoTo(w, "remove")
    /\ afresh' = afresh \ {job[w].flow}
    /\ UNCHANGED <<groups, serving, calls, raced, home, doomed, users>>

\* Slip: nothing is removed of a flow that was in the trash.
KeepsEndpoints(w) ==
    /\ At(w, "remove")
    /\ End(w)
    /\ UNCHANGED <<groups, flow, serving, calls, history, users>>

\* What is served of a flow is now what the request says, unless StartAll is still to come.
Overrides(f) == overtaken' = IF f \in listed THEN overtaken ELSE overtaken \ {f}

RemoveEndpoints(w) ==
    /\ At(w, "remove")
    /\ loaded' = loaded \ {job[w].flow}
    /\ Overrides(job[w].flow)
    /\ End(w)
    /\ UNCHANGED <<groups, flow, boot, listed, calls, history, users>>

\* GetFlow after the update, the record SyncFlow will get.
Reread(w) ==
    /\ At(w, "reread")
    /\ Stored(job[w].flow)
    /\ job' = [job EXCEPT ![w].state = flow[job[w].flow].state, ![w].at = "sync"]
    /\ UNCHANGED <<groups, flow, serving, calls, history, users>>

\* afterOffline and afterPublish: SyncFlow loads a publication, unless it fails.
Sync(w) ==
    /\ At(w, "sync")
    /\ \/ loaded' = loaded \ {job[w].flow}
       \/ job[w].state = "online" /\ loaded' = loaded \cup {job[w].flow}
    /\ Overrides(job[w].flow)
    /\ End(w)
    /\ UNCHANGED <<groups, flow, boot, listed, calls, history, users>>

\* GetFlow before a save: a flow that is there must be the user's, and unlocked.
GetFlow(w) ==
    /\ At(w, "get")
    /\ LET f == job[w].flow IN Stored(f) => f \in job[w].list /\ Unlocked(f)
    /\ GoTo(w, "save")
    /\ UNCHANGED <<groups, flow, serving, calls, history, users>>

\* SaveFlow of flow.go, which inserts a flow an editor still had after it was purged, too.
Save(w) ==
    /\ At(w, "save")
    /\ LET j == job[w]
           f == j.flow
       IN  /\ Stored(f) => Unlocked(f)
           /\ flow' = [flow EXCEPT ![f].stage = "stored"]
           /\ IF j.kind = "save" /\ f \notin j.list THEN GoTo(w, "grant") ELSE End(w)
    /\ UNCHANGED <<groups, serving, calls, history, users>>

\* Slip: the flow saved alone.
GrantsOnly(w) ==
    /\ At(w, "grant")
    /\ access' = [access EXCEPT ![job[w].user] = {job[w].flow}]
    /\ End(w)
    /\ UNCHANGED <<groups, flow, serving, calls, history, mixed>>

\* The list of the request, and the flow, replace the list stored.
Grant(w) ==
    /\ At(w, "grant")
    /\ access' = [access EXCEPT ![job[w].user] = job[w].list \cup {job[w].flow}]
    /\ End(w)
    /\ UNCHANGED <<groups, flow, serving, calls, history, mixed>>

----------------------------------------------------------------------------
(* The steps of DeleteGroup.                                               *)

\* ClearFlowsGroup and clearPreviousGroupRefs list the flows first.
ListFlows(w) ==
    /\ \/ /\ At(w, "list")
          /\ job' = [job EXCEPT ![w].todo = {f \in Flows : Stored(f) /\ flow[f].group = job[w].group},
                                ![w].at = "clear"]
       \/ /\ At(w, "list previous")
          /\ job' = [job EXCEPT ![w].todo = {f \in Flows : Stored(f) /\ flow[f].previous = job[w].group},
                                ![w].at = "clear previous"]
    /\ UNCHANGED <<groups, flow, serving, calls, history, users>>

\* Then each is updated, by its id; if it was purged the deletion of the group fails.
ClearFlow(w) ==
    /\ job[w] # NoJob
    /\ \E f \in job[w].todo :
           \/ ~Stored(f) /\ End(w) /\ UNCHANGED flow
           \/ /\ Stored(f)
              /\ job' = [job EXCEPT ![w].todo = @ \ {f}]
              /\ flow' = IF job[w].at = "clear" THEN [flow EXCEPT ![f].group = NoGroup]
                         ELSE [flow EXCEPT ![f].previous = NoGroup]
    /\ UNCHANGED <<groups, serving, calls, history, users>>

\* Slip: the group goes first.
DropsFirst(w) ==
    \/ /\ At(w, "list") /\ Exists(job[w].group)
       /\ groups' = [groups EXCEPT ![job[w].group] = "gone"]
       /\ UNCHANGED <<flow, serving, job, calls, history, users>>
    \/ /\ At(w, "clear") /\ job[w].todo = {}
       /\ GoTo(w, "list previous")
       /\ UNCHANGED <<groups, flow, serving, calls, history, users>>
    \/ /\ At(w, "clear previous") /\ job[w].todo = {}
       /\ End(w)
       /\ UNCHANGED <<groups, flow, serving, calls, history, users>>

\* Flows first, references from the trash next, the group last.
Cleared(w) ==
    \/ /\ At(w, "clear") /\ job[w].todo = {}
       /\ GoTo(w, "list previous")
       /\ UNCHANGED <<groups, flow, serving, calls, history, users>>
    \/ /\ At(w, "clear previous") /\ job[w].todo = {}
       /\ groups' = [groups EXCEPT ![job[w].group] = "gone"]
       /\ End(w)
       /\ UNCHANGED <<flow, serving, calls, history, users>>

----------------------------------------------------------------------------
(* StartAll and restarts.                                                  *)

\* StartAll of the HTTP manager and then of the MQTT manager: ListFlows, or its failure.
StartAllLists ==
    /\ listed = {}
    /\ \/ boot = "http" /\ boot' = "mqtt"
       \/ boot = "mqtt" /\ boot' = "done"
    /\ listed' \in {{f \in Flows : Online(f)}, {}}
    /\ overtaken' = overtaken \cup {f \in listed' : \E w \in Underway : Unloads(job[w]) /\ job[w].flow = f}
    /\ UNCHANGED <<groups, flow, loaded, job, calls, history, users>>

\* SyncFlow of one of the records listed, whatever became of its flow since.
StartAllSyncs ==
    /\ \E f \in listed :
           /\ loaded' \in {loaded \ {f}, loaded \cup {f}}
           /\ listed' = listed \ {f}
    /\ UNCHANGED <<groups, flow, boot, overtaken, job, calls, history, users>>

\* The process ends and starts again.
Restart ==
    /\ Call
    /\ job' = [w \in Workers |-> NoJob]
    /\ loaded' = {} /\ boot' = "http" /\ listed' = {} /\ overtaken' = {}
    /\ UNCHANGED <<groups, flow, history, users>>

\* The requests on a flow, and on a group.
OnFlow(w) ==
    \/ SetFlowGroup(w) \/ SoftDeleteOrPurgeFlow(w) \/ RestoreFlow(w) \/ Publish(w)
    \/ GetGroup(w) \/ Refused(w) \/ Unpublish(w) \/ Update(w) \/ Purge(w)
    \/ RemoveEndpoints(w) \/ Reread(w) \/ Sync(w)

OnList(w) == SaveFlow(w) \/ GetFlow(w) \/ Save(w) \/ Grant(w)

OnGroup(w) == DeleteGroup(w) \/ ListFlows(w) \/ ClearFlow(w) \/ Cleared(w)

Next ==
    \/ CreateGroup \/ UpdateUserFlows \/ SetFlowLocked
    \/ StartAllLists \/ StartAllSyncs \/ Restart
    \/ \E w \in Workers : OnFlow(w) \/ OnList(w) \/ OnGroup(w)

Spec == Init /\ [][Next]_vars

----------------------------------------------------------------------------

\* No request is working on the flow.
Idle(f) == \A w \in Underway : job[w].flow = f => Saves(job[w])

\* A flow is in a group that exists, and remembers one that exists: deleting a group,
\* finished, failed or cut off by a crash, leaves no reference to it, as long as no
\* request on the flow overlaps the deletion (group.go DeleteGroup).
GroupsExist ==
    \A f \in Flows \ raced :
        Stored(f) => /\ flow[f].group \in Groups => Exists(flow[f].group)
                     /\ flow[f].previous \in Groups => Exists(flow[f].previous)

\* What is in the trash is offline, in the store and on the listeners, unless it was
\* published there; a crash in the middle of a soft delete does not bring a published
\* flow into the trash (flow_trash.go SoftDeleteOrPurgeFlow).  StartAll, which may still
\* come with the record it listed before, is the one that may load it again.
TrashedOffline ==
    \A f \in Flows \ (raced \cup afresh) :
        InTrash(f) => ~Online(f) /\ (Idle(f) /\ f \notin overtaken => f \notin loaded)

\* Once the requests on a flow have ended nothing of it is served that is not published:
\* neither after a soft delete nor after a purge, in the trash or not, while StartAll is
\* coming to the other flows or has come to this one before the request
\* (flow_handlers.go HandleDeleteFlow; manager.go StartAll).
ServedIsPublished ==
    \A f \in Flows \ (raced \cup overtaken) : Idle(f) /\ f \in loaded => Online(f)

\* The trash is the only way out of the store, and out of the trash a flow returns to
\* the group it was deleted from, or to none if the deletion of that group has begun
\* (flow_trash.go RestoreFlow, purgeFlowUnlocked; flow.go SetFlowGroup).
ThroughTrash ==
    [][\A f \in Flows \ raced' :
           /\ Stored(f) /\ ~Stored(f)' => InTrash(f)
           /\ InTrash(f) /\ Stored(f)' /\ ~InTrash(f)' =>
                  \/ flow'[f].group = home[f]
                  \/ flow'[f].group = NoGroup /\ home[f] \in doomed]_vars


\* A save never takes a flow out of its user's list, unless the list is changed by another
\* request between the authentication and the end of the save: only an admin's change
\* does (flow_handlers.go HandleSaveFlow).
ListOnlyGrows ==
    [][\A u \in Users \ mixed' : access[u] \subseteq access'[u] \/ UNCHANGED job]_vars

=============================================================================
