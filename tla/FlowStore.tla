----------------------------- MODULE FlowStore ------------------------------
(***************************************************************************)
(* The operations of the store on one flow, called by goroutines at once:  *)
(* internal/store/flow.go, flow_publish.go, flow_online.go.                *)
(*                                                                         *)
(* An operation is two steps, as in the code: FindAll, with every check on *)
(* the document it returned, and UpdateById of the fields it computed.     *)
(* Nothing is held in between.  An operation whose check fails changes     *)
(* nothing and is not begun here; GetFlow is an operation only when it     *)
(* migrates.  Database errors end an operation between its steps, as a     *)
(* crash of the process does (Crash): the document is all that persists.   *)
(***************************************************************************)
EXTENDS FlowRecord

CONSTANTS
    Workers,        \* goroutines serving REST and MCP requests
    MaxVersion,     \* bound: publications stop at this number
    NoCall

ASSUME MaxVersionAssumption == MaxVersion \in Nat \ {0}

VARIABLES
    flow,           \* the document
    call,           \* what each worker has read and is about to write
    writes          \* history: "fresh", then "renumbered" once a publication got number
                    \* 1 with older ones in the history, and "stale" once an update of
                    \* the publication was computed from one no longer stored

vars == <<flow, call, writes>>

\* Requests; the version is the client's.
Requests == [op : {"get", "save", "discard", "publish", "unpublish", "online"}]
            \cup [op : {"rollback", "delete"}, version : 1..MaxVersion]

Calls == [request : Requests, seen : FlowRecords]

ASSUME NoCallAssumption == NoCall \notin Calls

TypeOK ==
    /\ flow \in FlowRecords
    /\ call \in [Workers -> Calls \cup {NoCall}]
    /\ writes \in {"fresh", "renumbered", "stale"}

Init ==
    /\ flow \in {Inserted(d) : d \in Dsls} \cup {Legacy(d) : d \in Dsls}
    /\ call = [w \in Workers |-> NoCall]
    /\ writes = "fresh"

----------------------------------------------------------------------------

\* The checks each operation makes on the document it has read.
Accepts(r, seen) ==
    \/ r.op = "get" /\ NeedsMigration(seen)
    \/ r.op = "save" /\ Unlocked(seen)
    \/ r.op = "discard" /\ CanDiscard(seen)
    \/ r.op = "publish" /\ Unlocked(seen) /\ Version(seen) < MaxVersion
    \/ r.op = "unpublish" /\ CanUnpublish(seen)
    \/ r.op = "online" /\ CanGoOnline(seen)
    \/ r.op = "rollback" /\ CanRollback(seen, r.version) /\ Version(seen) < MaxVersion
    \/ r.op = "delete" /\ CanDeleteVersion(seen, r.version)

\* FindAll.
Read(w) ==
    /\ call[w] = NoCall
    /\ \E r \in Requests :
           /\ Accepts(r, flow)
           /\ call' = [call EXCEPT ![w] = [request |-> r, seen |-> flow]]
    /\ UNCHANGED <<flow, writes>>

Publication(r) == <<r.live, r.version, r.past>>

Writing(w, op) == call[w] # NoCall /\ call[w].request.op = op

\* UpdateById with the fields of an operation, which then returns.
Write(w, updated) ==
    /\ flow' = updated
    /\ call' = [call EXCEPT ![w] = NoCall]

\* An update that writes the draft only.
WriteAside(w, updated) == Write(w, updated) /\ UNCHANGED writes

\* An update that writes the publication.
WritePublication(w, updated) ==
    /\ Write(w, updated)
    /\ writes' = IF Publication(call[w].seen) # Publication(flow) THEN "stale"
                 ELSE IF writes = "fresh" /\ updated.version = 1 /\ updated.past # <<>>
                         /\ flow.live = NoDsl
                      THEN "renumbered" ELSE writes

GetFlow(w) == /\ Writing(w, "get")
              /\ WritePublication(w, Migrated(flow, call[w].seen))

SaveFlow(w) == /\ Writing(w, "save")
               /\ \E d \in Dsls : WriteAside(w, Saved(flow, d))

\* One step: of what it reads SetFlowLocked uses the password only, taken to match.
SetFlowLocked == /\ \E l \in {"locked", "unlocked"} : flow' = [flow EXCEPT !.lock = l]
                 /\ UNCHANGED <<call, writes>>

DiscardDraft(w) == /\ Writing(w, "discard")
                   /\ WriteAside(w, Discarded(flow, call[w].seen))

PublishFlow(w) == /\ Writing(w, "publish")
                  /\ WritePublication(w, Published(flow, call[w].seen))

UnpublishFlow(w) == /\ Writing(w, "unpublish")
                    /\ WritePublication(w, Unpublished(flow, call[w].seen))

GoOnlineFromLatest(w) == /\ Writing(w, "online")
                         /\ WritePublication(w, Online(flow, call[w].seen))

RollbackPublish(w) ==
    /\ Writing(w, "rollback")
    /\ \E e \in Oldest(call[w].seen, call[w].request.version) :
           WritePublication(w, RolledBack(flow, call[w].seen, e))

DeletePublishHistory(w) ==
    /\ Writing(w, "delete")
    /\ \E r \in VersionDeleted(flow, call[w].seen, call[w].request.version) :
           WritePublication(w, r)

\* The process stops, or the database refuses an update: what was only read is lost.
Crash(w) ==
    /\ call[w] # NoCall
    /\ call' = [call EXCEPT ![w] = NoCall]
    /\ UNCHANGED <<flow, writes>>

Next ==
    \/ SetFlowLocked
    \/ \E w \in Workers :
           \/ Read(w)
           \/ GetFlow(w)
           \/ SaveFlow(w)
           \/ DiscardDraft(w)
           \/ PublishFlow(w)
           \/ UnpublishFlow(w)
           \/ GoOnlineFromLatest(w)
           \/ RollbackPublish(w)
           \/ DeletePublishHistory(w)
           \/ Crash(w)

Spec == Init /\ [][Next]_vars

----------------------------------------------------------------------------
(* Properties.                                                             *)

\* A flow is online exactly while its publication has a number, its history holds
\* nothing unnumbered, and never more than the limit: under every interleaving of
\* the operations, two migrations and stale updates included.
PublicationWellFormed ==
    /\ flow.live # NoDsl <=> flow.version \notin {0, Unset}
    /\ Len(flow.past) <= MaxHistory
    /\ \A i \in DOMAIN flow.past : flow.past[i].version # 0

\* Every publication that can still be reached, by its number and definition.
Kept(r) == {r.past[i] : i \in DOMAIN r.past} \cup
           (IF r.live = NoDsl THEN {} ELSE {[version |-> r.version, dsl |-> r.live]})

\* No publication vanishes: it stays live or in the history until it is the oldest
\* of a full history or a client deletes its version, as long as no two updates of
\* the publication overlap.
NothingLost ==
    [][writes' # "stale" => \A e \in Kept(flow) :
           \/ e \in Kept(flow')
           \/ Len(flow.past) = MaxHistory /\ e = Head(flow.past)
           \/ \E w \in Workers : /\ Writing(w, "delete") /\ call'[w] = NoCall
                                 /\ call[w].request.version = e.version]_vars

\* While updates do not overlap and no numbering restarts after an offline period,
\* the history ascends and ends below the live number: a version names one
\* publication, so a rollback or deletion by version is unambiguous.
NumbersAscend ==
    writes = "fresh" =>
        /\ \A i, j \in DOMAIN flow.past : i < j => flow.past[i].version < flow.past[j].version
        /\ flow.live # NoDsl =>
               \A i \in DOMAIN flow.past : flow.past[i].version < flow.version

\* A different definition never goes online under the number of the one it replaces.
NewLiveNewNumber ==
    [][writes' # "stale" /\ flow.live # NoDsl /\ flow'.live \notin {NoDsl, flow.live} =>
           flow'.version > flow.version]_vars

\* flow.go:25 says that a locked flow can be neither saved nor published: while the
\* lock stays on, neither its draft nor its publication changes (records of the old
\* format, which a mere read migrates, aside).
LockedUnchanged ==
    [][flow.lock = "locked" /\ flow'.lock = "locked" /\ flow.version # Unset =>
           flow'.draft = flow.draft /\ Publication(flow') = Publication(flow)]_vars
============================================================================
