--------------------------- MODULE FlowPublishing ---------------------------
(***************************************************************************)
(* Publishing, from the request to the route table: the REST handlers of   *)
(* internal/api/flow_publish.go and the MCP tools that do the same, over   *)
(* the store (FlowRecord) and the endpoint manager (HttpEndpoints), with   *)
(* StartAll, which rebuilds the table beside them after a restart, and the *)
(* composite of internal/endpoint/composite.go, which gives the MQTT       *)
(* manager what the HTTP manager could mount.                              *)
(*                                                                         *)
(* A handler reads the flow, asks CheckHTTPRoutes about the definition it  *)
(* is about to put online, lets the store read and update the record,      *)
(* reads the record again and gives it to SyncFlow.  Nothing spans two of  *)
(* these steps.  A crash loses the table and keeps the documents.  Locks   *)
(* and documents of the old format are FlowStore's subject: flows here are *)
(* unlocked and migrated.  How the MQTT manager mounts the nodes of a      *)
(* definition is MqttEndpoints' subject: here it does so in one step, or   *)
(* fails and leaves none.                                                  *)
(***************************************************************************)
EXTENDS HttpEndpoints

CONSTANTS
    MaxHistory,
    MaxCalls,       \* bound: requests and crashes
    Databases,      \* what the process may find at its start: flow -> its document
    NoJob, NoRecord

INSTANCE FlowRecord

ASSUME MaxCallsAssumption == MaxCalls \in Nat
ASSUME DatabasesAssumption ==
    \A db \in Databases : /\ db \in [Flows -> FlowRecords]
                         /\ \A f \in Flows : Unlocked(db[f]) /\ db[f].version # Unset
ASSUME RecordAssumption == MaxHistory \in Nat \ {0} /\ NoRecord \notin FlowRecords

VARIABLES
    doc,        \* the flows collection
    mqtt,       \* flow -> the definition whose MQTT nodes are mounted, or NoDsl
    job,        \* the handler, or StartAll, each worker is in
    boot,       \* "due" until StartAll has listed the flows
    calls,      \* requests and crashes so far
    served,     \* history: flows whose last SyncFlow ran without another job on them
                \* and succeeded, with none begun since
    followed    \* history: the same of the MQTT manager's SyncFlow, succeeded or not

storeVars == <<doc, mqtt, job, boot, calls, served, followed>>
allVars == <<server, routes, refCount, mux, byFlow, task, history,
             doc, mqtt, job, boot, calls, served, followed>>

Kinds == {"publish", "offline", "online", "rollback"}

Jobs == [kind : Kinds \cup {"boot"},
         at : {"get", "check", "read", "write", "sync", "syncing", "mqtt"},
         flow : Flows \cup {NoFlow}, version : Nat, dsl : Dsls \cup {NoDsl},
         seen : FlowRecords \cup {NoRecord}, todo : SUBSET (Flows \X Dsls),
         marks : SUBSET {"alone", "quiet"}]

ASSUME NoJobAssumption == NoJob \notin Jobs

PublishingTypeOK ==
    /\ TypeOK
    /\ doc \in [Flows -> FlowRecords]
    /\ mqtt \in [Flows -> Dsls \cup {NoDsl}]
    /\ job \in [Workers -> Jobs \cup {NoJob}]
    /\ boot \in {"due", "begun"}
    /\ calls \in 0..MaxCalls
    /\ served \subseteq Flows /\ followed \subseteq Flows
    /\ \A w \in Busy : job[w] # NoJob /\ job[w].at = "syncing" /\ job[w].flow = task[w].flow

PublishingInit ==
    /\ Init
    /\ doc \in Databases
    /\ mqtt = [f \in Flows |-> NoDsl]
    /\ job = [w \in Workers |-> NoJob]
    /\ boot = "due"
    /\ calls = 0
    /\ served = {} /\ followed = {}

----------------------------------------------------------------------------
(* Beginning and ending a job.                                             *)

Underway == {w \in Workers : job[w] # NoJob}

\* A job works on its flow, StartAll on every flow it has left.
On(j, f) == j.flow = f \/ \E p \in j.todo : p[1] = f

Overlap(i, j) == \E f \in Flows : On(i, f) /\ On(j, f)

Begin(w, j) ==
    /\ job[w] = NoJob
    /\ job' = [v \in Workers |->
                 IF v = w
                 THEN [j EXCEPT !.marks = {m \in {"alone", "quiet"} :
                          \/ m = "alone" /\ \A u \in Underway : ~Overlap(job[u], j)
                          \/ m = "quiet" /\ Underway = {}}]
                 ELSE IF v \in Underway
                 THEN [job[v] EXCEPT !.marks =
                          @ \ (IF Overlap(job[v], j) THEN {"alone", "quiet"} ELSE {"quiet"})]
                 ELSE NoJob]
    /\ served' = {f \in served : ~On(j, f)}
    /\ followed' = {f \in followed : ~On(j, f)}

End(w) == job' = [job EXCEPT ![w] = NoJob]

GoTo(w, place) == job' = [job EXCEPT ![w].at = place]

At(w, place) == job[w] # NoJob /\ job[w].at = place

NewJob(kind, f, v) == [kind |-> kind, at |-> "get", flow |-> f, version |-> v, dsl |-> NoDsl,
                       seen |-> NoRecord, todo |-> {}, marks |-> {}]

\* A request arrives; the version of a rollback is the client's.
Request(w) ==
    /\ calls < MaxCalls
    /\ calls' = calls + 1
    /\ \E f \in Flows :
           \/ \E kind \in Kinds \ {"rollback"} : Begin(w, NewJob(kind, f, 0))
           \/ \E v \in 1..MaxCalls : Begin(w, NewJob("rollback", f, v))
    /\ UNCHANGED <<tableVars, task, doc, mqtt, boot>>

\* PUT /api/flows, here one step: SaveFlow writes nothing but the draft.
SaveDraft ==
    \E f \in Flows, d \in Dsls :
        /\ calls < MaxCalls
        /\ calls' = calls + 1
        /\ doc[f].draft # d
        /\ doc' = [doc EXCEPT ![f] = Saved(@, d)]
        /\ job' = [w \in Workers |-> IF w \in Underway /\ job[w].flow = f
                                     THEN [job[w] EXCEPT !.marks = @ \ {"quiet"}]
                                     ELSE job[w]]
        /\ UNCHANGED <<tableVars, task, mqtt, boot, served, followed>>

----------------------------------------------------------------------------
(* The handlers.                                                           *)

\* What ListPublishHistory shows first under a version: the live publication, then
\* the newest entry.
Listed(r, v) ==
    IF r.live # NoDsl /\ Version(r) = v THEN {r.live}
    ELSE {r.past[i].dsl : i \in {k \in Holding(r, v) : \A j \in Holding(r, v) : j <= k}}

\* The definition the handler means to put online.
Candidates(j, r) ==
    CASE j.kind = "publish" -> {r.draft}
      [] j.kind = "online" -> IF r.live = NoDsl /\ r.past # <<>>
                              THEN {r.past[Len(r.past)].dsl} ELSE {}
      [] j.kind = "rollback" -> Listed(r, j.version)

\* GetFlow, and PeekLatestPublishDSL or ListPublishHistory: two reads, of which the second
\* alone decides, so that they are one step here.
HandlerGet(w) ==
    /\ At(w, "get")
    /\ LET r == doc[job[w].flow]
       IN  IF job[w].kind = "offline" THEN GoTo(w, "read")
           ELSE IF Candidates(job[w], r) = {} THEN End(w)
           ELSE \E d \in Candidates(job[w], r) :
                    job' = [job EXCEPT ![w].at = "check", ![w].dsl = d]
    /\ UNCHANGED <<tableVars, task, doc, mqtt, boot, calls, served, followed>>

\* Slip: the result of the check is not looked at.
HandlerUnchecked(w) ==
    /\ At(w, "check")
    /\ GoTo(w, "read")
    /\ UNCHANGED <<tableVars, task, doc, mqtt, boot, calls, served, followed>>

HandlerCheck(w) ==
    /\ At(w, "check")
    /\ IF CheckHTTPRoutes(job[w].flow, job[w].dsl) THEN GoTo(w, "read") ELSE End(w)
    /\ UNCHANGED <<tableVars, task, doc, mqtt, boot, calls, served, followed>>

Refused(j, r) ==
    \/ j.kind = "offline" /\ ~CanUnpublish(r)
    \/ j.kind = "online" /\ ~CanGoOnline(r)
    \/ j.kind = "rollback" /\ j.version # Version(r) /\ ~CanRollback(r, j.version)

\* The store's FindAll.  A rollback to the live version returns at once.
StoreRead(w) ==
    /\ At(w, "read")
    /\ LET r == doc[job[w].flow]
       IN  IF Refused(job[w], r) THEN End(w)
           ELSE IF job[w].kind = "rollback" /\ job[w].version = Version(r) THEN GoTo(w, "sync")
           ELSE job' = [job EXCEPT ![w].at = "write", ![w].seen = r]
    /\ UNCHANGED <<tableVars, task, doc, mqtt, boot, calls, served, followed>>

Updates(j, now) ==
    CASE j.kind = "publish" -> {Published(now, j.seen)}
      [] j.kind = "offline" -> {Unpublished(now, j.seen)}
      [] j.kind = "online" -> {Online(now, j.seen)}
      [] j.kind = "rollback" -> {RolledBack(now, j.seen, e) : e \in Oldest(j.seen, j.version)}

\* Its UpdateById.
StoreWrite(w) ==
    /\ At(w, "write")
    /\ \E r \in Updates(job[w], doc[job[w].flow]) : doc' = [doc EXCEPT ![job[w].flow] = r]
    /\ GoTo(w, "sync")
    /\ UNCHANGED <<tableVars, task, mqtt, boot, calls, served, followed>>

\* Slip: SyncFlow is given the record from before the update.
SyncOldRecord(w) ==
    /\ At(w, "sync")
    /\ job[w].kind # "boot"
    /\ SyncBegin(w, job[w].flow, IF job[w].seen = NoRecord THEN NoDsl ELSE job[w].seen.live)
    /\ GoTo(w, "syncing")
    /\ UNCHANGED <<doc, mqtt, boot, calls, served, followed>>

\* GetFlow again, and SyncFlow of what it returns.
HandlerSync(w) ==
    /\ At(w, "sync")
    /\ job[w].kind # "boot"
    /\ SyncBegin(w, job[w].flow, doc[job[w].flow].live)
    /\ job' = [job EXCEPT ![w].at = "syncing", ![w].dsl = doc[job[w].flow].live]
    /\ UNCHANGED <<doc, mqtt, boot, calls, served, followed>>

Syncing(w) == SyncStep(w) /\ UNCHANGED storeVars

Alone(w, f) == IF "alone" \in job[w].marks THEN {f} ELSE {}

Succeeded(w) == IF task[w].pc = "ok" THEN Alone(w, job[w].flow) ELSE {}

\* The HTTP manager's SyncFlow is over: MQTT is next, unless it failed or panicked, which
\* ends the handler.
HandlerReturn(w) ==
    /\ At(w, "syncing")
    /\ job[w].kind # "boot"
    /\ w \notin Busy
    /\ served' = served \cup Succeeded(w)
    /\ IF task[w].pc = "ok" THEN GoTo(w, "mqtt") ELSE End(w)
    /\ UNCHANGED <<tableVars, task, doc, mqtt, boot, calls, followed>>

\* The MQTT manager's SyncFlow: the nodes there were go, those of the definition come or
\* cannot connect.
MountsMqtt(w, f, d) ==
    /\ \E result \in {d, NoDsl} : mqtt' = [mqtt EXCEPT ![f] = result]
    /\ followed' = followed \cup Alone(w, f)

\* Slip: a record without a publication is nothing to synchronise.
MqttSkipsOffline(w) ==
    /\ At(w, "mqtt")
    /\ job[w].kind # "boot"
    /\ IF job[w].dsl = NoDsl THEN UNCHANGED mqtt /\ followed' = followed \cup Alone(w, job[w].flow)
       ELSE MountsMqtt(w, job[w].flow, job[w].dsl)
    /\ End(w)
    /\ UNCHANGED <<tableVars, task, doc, boot, calls, served>>

HandlerMqtt(w) ==
    /\ At(w, "mqtt")
    /\ job[w].kind # "boot"
    /\ MountsMqtt(w, job[w].flow, job[w].dsl)
    /\ End(w)
    /\ UNCHANGED <<tableVars, task, doc, boot, calls, served>>

----------------------------------------------------------------------------
(* StartAll and restarts.                                                  *)

\* A panic in the goroutine of StartAll, which nothing recovers, ends the process.
Dead == \E w \in Workers : At(w, "syncing") /\ job[w].kind = "boot" /\ task[w].pc = "panic"

\* ListFlows; the flows without a publication are passed over.
Listing == {p \in Flows \X Dsls : doc[p[1]].live = p[2]}

\* StartAll of the HTTP manager.
BootBegin(w) ==
    /\ boot = "due"
    /\ boot' = "begun"
    /\ Begin(w, [NewJob("boot", NoFlow, 0) EXCEPT !.at = "sync", !.todo = Listing])
    /\ UNCHANGED <<tableVars, task, doc, mqtt, calls>>

\* SyncFlow of one of the records listed, whatever became of its flow since.
BootSync(w) ==
    /\ At(w, "sync")
    /\ job[w].kind = "boot"
    /\ \E p \in job[w].todo :
           /\ SyncBegin(w, p[1], p[2])
           /\ job' = [job EXCEPT ![w].at = "syncing", ![w].flow = p[1], ![w].todo = @ \ {p}]
    /\ UNCHANGED <<doc, mqtt, boot, calls, served, followed>>

\* An error is logged, and the next record is next.
BootNext(w) ==
    /\ At(w, "syncing")
    /\ job[w].kind = "boot"
    /\ w \notin Busy
    /\ task[w].pc # "panic"
    /\ served' = served \cup Succeeded(w)
    /\ job' = [job EXCEPT ![w].at = "sync", ![w].flow = NoFlow]
    /\ UNCHANGED <<tableVars, task, doc, mqtt, boot, calls, followed>>

\* StartAll of the MQTT manager lists the flows anew, mountable by HTTP or not.
BootMqtt(w) ==
    /\ At(w, "sync")
    /\ job[w].kind = "boot"
    /\ job[w].todo = {}
    /\ LET listed == [job[w] EXCEPT !.at = "mqtt", !.todo = Listing]
           met == {v \in Underway \ {w} : Overlap(job[v], listed)}
       IN  job' = [v \in Workers |->
                     IF v = w THEN [listed EXCEPT !.marks = IF met = {} THEN {"alone"} ELSE {}]
                     ELSE IF v \in met THEN [job[v] EXCEPT !.marks = {}] ELSE job[v]]
    /\ UNCHANGED <<tableVars, task, doc, mqtt, boot, calls, served, followed>>

BootMqttSync(w) ==
    /\ At(w, "mqtt")
    /\ job[w].kind = "boot"
    /\ \E p \in job[w].todo :
           /\ MountsMqtt(w, p[1], p[2])
           /\ job' = [job EXCEPT ![w].todo = @ \ {p}]
    /\ UNCHANGED <<tableVars, task, doc, boot, calls, served>>

BootEnd(w) ==
    /\ At(w, "mqtt")
    /\ job[w].kind = "boot"
    /\ job[w].todo = {}
    /\ End(w)
    /\ UNCHANGED <<tableVars, task, doc, mqtt, boot, calls, served, followed>>

\* The process starts again over its documents: after a crash, or StartAll's panic.
Restart ==
    /\ \/ Dead /\ UNCHANGED calls
       \/ ~Dead /\ calls < MaxCalls /\ calls' = calls + 1
    /\ server' = [a \in Addrs |-> NoServer]
    /\ routes' = [a \in Addrs |-> NoRoutes]
    /\ refCount' = [a \in Addrs |-> 0]
    /\ mux' = [a \in Addrs |-> {}]
    /\ byFlow' = [f \in Flows |-> <<>>]
    /\ task' = [w \in Workers |-> Over("ok")]
    /\ history' = "clean"
    /\ mqtt' = [f \in Flows |-> NoDsl]
    /\ job' = [w \in Workers |-> NoJob]
    /\ boot' = "due"
    /\ served' = {} /\ followed' = {}
    /\ UNCHANGED doc

----------------------------------------------------------------------------

\* A REST handler or MCP tool.
Handler(w) ==
    \/ Request(w)
    \/ HandlerGet(w)
    \/ HandlerCheck(w)
    \/ StoreRead(w)
    \/ StoreWrite(w)
    \/ HandlerSync(w)
    \/ HandlerReturn(w)
    \/ HandlerMqtt(w)

StartAll(w) ==
    \/ BootBegin(w)
    \/ BootSync(w)
    \/ BootNext(w)
    \/ BootMqtt(w)
    \/ BootMqttSync(w)
    \/ BootEnd(w)

PublishingNext ==
    \/ ~Dead /\ \E w \in Workers : Handler(w) \/ StartAll(w) \/ Syncing(w)
    \/ ~Dead /\ SaveDraft
    \/ Restart

PublishingSpec == PublishingInit /\ [][PublishingNext]_allVars

----------------------------------------------------------------------------
(* Properties.                                                             *)

\* The routes of a flow are those of the definition that is published.
Agrees(f) ==
    LET d == doc[f].live
    IN  /\ Owned(f) = IF d = NoDsl THEN {} ELSE {<<d[i].addr, d[i].pattern>> : i \in DOMAIN d}
        /\ \A ap \in Owned(f) : routes[ap[1]][ap[2]].dsl = d

\* A flow whose last publish, offline, online, rollback or start-up sync had the flow
\* to itself and succeeded answers with exactly what its document says is published,
\* whatever other flows, drafts and crashes do around it.
ServedAsPublished ==
    history = "clean" => \A f \in served : Agrees(f)

\* A flow whose last job had it to itself, and got as far as MQTT, answers there with what
\* its document says is published, or not at all if the broker was not reached: never with
\* the definition before, whatever start-up and other flows do (composite.go SyncFlow,
\* StartAll).
MqttAsPublished == \A f \in followed : mqtt[f] \in {NoDsl, doc[f].live}

\* A handler that nothing overlapped installs what it checked, so its SyncFlow meets
\* no mode mismatch and no route of another flow; a rollback only while its version
\* names one entry.
QuietHandlerNotRefused ==
    \A w \in Busy :
        /\ history = "clean"
        /\ job[w].kind # "boot"
        /\ "quiet" \in job[w].marks
        /\ job[w].kind = "rollback" /\ job[w].seen # NoRecord =>
               \A i, j \in Holding(job[w].seen, job[w].version) : i = j
        /\ Adding(w)
        => ~TlsMismatch(w) /\ ~RouteConflict(w)

\* middleware.go:45 says that the routes are checked before they are stored, and not
\* stored in conflict: the handler that nothing overlaps stores, as published, the
\* very definition it checked.
StoresWhatItChecked ==
    [][\A w \in Workers :
           At(w, "write") /\ At(w, "sync")' /\ "quiet" \in job[w].marks /\ job[w].kind # "offline"
           => doc'[job[w].flow].live = job[w].dsl]_allVars

----------------------------------------------------------------------------
(* What publishing promises of a flow.                                     *)

\* The jobs that may yet change what is published or mounted of a flow.
AtWork(f) == {w \in Underway : On(job[w], f) /\ job[w].at # "mqtt"}

\* How far a job has got with a flow.
Progress(w, f) ==
    LET here == job[w].at = "syncing" /\ job[w].flow = f
    IN  CASE job[w].at \in {"get", "check", "read", "write"} -> "begun"
          [] here /\ task[w].pc \in {"add", "ok"} -> "mounting"
          [] here /\ task[w].pc \in {"cleanup", "err"} -> "failed"
          [] OTHER -> "stored"

Phase(f) ==
    IF history # "clean" THEN "broken"
    ELSE IF AtWork(f) = {} THEN IF f \in served THEN "kept" ELSE "idle"
    ELSE IF \E w \in AtWork(f) : "alone" \notin job[w].marks THEN "shared"
    ELSE Progress(CHOOSE w \in AtWork(f) : TRUE, f)

Answers(f) == {<<ap[1], ap[2], routes[ap[1]][ap[2]].dsl>> : ap \in Owned(f)}

RoutesOf(d) == IF d = NoDsl THEN {} ELSE {<<d[i].addr, d[i].pattern, d>> : i \in DOMAIN d}

Promise == INSTANCE PublishedFlows WITH
    Definitions <- Dsls, None <- NoDsl,
    Routes <- [d \in Dsls \cup {NoDsl} |-> RoutesOf(d)],
    live <- [f \in Flows |-> doc[f].live],
    answers <- [f \in Flows |-> Answers(f)],
    phase <- [f \in Flows |-> Phase(f)]

\* Every flow keeps the promise of PublishedFlows, whatever requests, start-up, failures,
\* panics and crashes there are: the old routes go before the new ones come, nothing is
\* mounted but what is stored, and what was mounted whole stays so until somebody is at
\* work on the flow again.
PublishingImplemented == Promise!Spec
============================================================================
