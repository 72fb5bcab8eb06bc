------------------------ MODULE FlowPublishingProofs ------------------------
(***************************************************************************)
(* Proofs about FlowPublishing, for every set of flows, definitions and    *)
(* goroutines.  Its steps are steps of HttpEndpoints, leave the route      *)
(* table alone or, at a restart, empty it, so what holds of the table      *)
(* there holds here.  What is served follows from an invariant of the jobs *)
(* that had their flow to themselves.                                      *)
(***************************************************************************)
EXTENDS FlowPublishing, HttpEndpointsProofs

----------------------------------------------------------------------------
(* The invariants.                                                         *)

\* A handler has a flow, StartAll one while it synchronises it, and an update goes with a
\* copy that allows it.
JobOK(j) ==
    /\ j \in Jobs
    /\ j.kind # "boot" => j.flow \in Flows /\ j.todo = {}
    /\ j.kind = "boot" => /\ j.at \in {"sync", "syncing", "mqtt"}
                          /\ j.at = "syncing" <=> j.flow \in Flows
    /\ j.at = "write" => /\ j.seen \in FlowRecords
                         /\ ~Refused(j, j.seen)
                         /\ j.kind = "rollback" => j.version # Version(j.seen)

JobsOK ==
    /\ doc \in [Flows -> FlowRecords]
    /\ mqtt \in [Flows -> Dsls \cup {NoDsl}]
    /\ boot \in {"due", "begun"}
    /\ calls \in 0..MaxCalls
    /\ served \subseteq Flows /\ followed \subseteq Flows
    /\ job \in [Workers -> Jobs \cup {NoJob}]
    /\ \A w \in Underway : JobOK(job[w])
    /\ \A w \in Busy : job[w] # NoJob /\ job[w].at = "syncing" /\ job[w].flow = task[w].flow

\* Nobody is beside a job that is alone.
AloneExact ==
    \A w \in Underway : "alone" \in job[w].marks =>
        \A u \in Underway \ {w} : ~Overlap(job[u], job[w])

\* A job alone on its flow works with what the document says is published.
HoldsLive ==
    \A w \in Underway : "alone" \in job[w].marks =>
        /\ job[w].kind # "boot" /\ job[w].at \in {"syncing", "mqtt"} =>
               job[w].dsl = doc[job[w].flow].live
        /\ \A p \in job[w].todo : doc[p[1]].live = p[2]

\* The SyncFlow of a job alone on its flow is solo and mounts what is published, and has
\* mounted it if it ends well.
Synced ==
    \A w \in Underway : "alone" \in job[w].marks /\ job[w].at = "syncing" =>
        /\ w \in Busy => "solo" \in task[w].marks /\ task[w].dsl = doc[job[w].flow].live
        /\ task[w].pc = "ok" /\ history = "clean" => Agrees(job[w].flow)

\* A call has no more routers behind it than its definition has.
NextBounded ==
    \A w \in Workers : task[w].pc = "add" => task[w].next <= Len(task[w].dsl) + 1

\* Nobody is about to write or synchronise a flow that is served.
Served ==
    \A f \in served :
        /\ \A u \in Underway : On(job[u], f) => job[u].at = "mqtt"
        /\ history = "clean" => Agrees(f)

\* A flow that is followed has no job but, perhaps, StartAll's for MQTT, which has it with
\* what is published.
Followed ==
    \A f \in followed :
        /\ mqtt[f] \in {NoDsl, doc[f].live}
        /\ \A u \in Underway : On(job[u], f) =>
               /\ job[u].kind = "boot" /\ job[u].at = "mqtt"
               /\ \A p \in job[u].todo : p[1] = f => p[2] = doc[f].live

\* The version of a rollback names one entry of the history it decided on.
Unambiguous(j) ==
    j.kind = "rollback" /\ j.seen # NoRecord =>
        \A i, k \in Holding(j.seen, j.version) : i = k

\* What a handler that nothing overlaps knows of the definition it is to put online.
Knows(w) ==
    LET j == job[w]
        r == doc[j.flow]
    IN  /\ j.at \in {"check", "read", "write"} /\ j.kind # "offline" => j.dsl \in Candidates(j, r)
        /\ j.at \in {"read", "write"} /\ j.kind # "offline" => CheckHTTPRoutes(j.flow, j.dsl)
        /\ j.at = "write" => j.seen = r
        /\ j.at = "sync" /\ Unambiguous(j) => CheckHTTPRoutes(j.flow, r.live)
        /\ w \in Busy /\ Unambiguous(j) => {"checked", "quiet"} \subseteq task[w].marks

QuietKnows ==
    \A w \in Underway : "quiet" \in job[w].marks =>
        /\ Underway = {w}
        /\ job[w].kind # "boot" => Knows(w)

\* StartAll has every flow once in its list, and not the one it is at.
TodoOnce ==
    \A w \in Underway : \A p \in job[w].todo :
        /\ p[1] # job[w].flow
        /\ \A q \in job[w].todo : p[1] = q[1] => p = q

TableInv == /\ TypeOK /\ ListenerInUse /\ TlsUniform /\ IndexExact /\ MuxExact
            /\ Marks /\ SoloSyncExact /\ CheckedReady /\ NextBounded

----------------------------------------------------------------------------
(* The documents.                                                          *)

LEMMA ArchivedType ==
    ASSUME NEW r \in FlowRecords, r.live # NoDsl
    PROVE  Archived(r) \in Seq(Entries)
  <1> DEFINE s == Append(r.past, [version |-> Version(r), dsl |-> r.live])
  <1>1. s \in Seq(Entries)
    <2>1. [version |-> Version(r), dsl |-> r.live] \in Entries
      BY DEF FlowRecords, Entries, Version, Unset
    <2>2. r.past \in Seq(Entries)
      BY DEF FlowRecords
    <2> QED BY <2>1, <2>2
  <1>2. Archived(r) = Newest(s)
    BY DEF Archived
  <1> HIDE DEF s
  <1>3. CASE Len(s) > MaxHistory
    <2>1. Newest(s) = SubSeq(s, Len(s) - MaxHistory + 1, Len(s))
      BY <1>3 DEF Newest
    <2>2. PICK k \in Nat : k = Len(s) - MaxHistory + 1
      BY <1>1, <1>3, RecordAssumption
    <2>3. k \in 1..Len(s) /\ Len(s) \in Nat
      BY <1>1, <1>3, <2>2, RecordAssumption
    <2>4. SubSeq(s, k, Len(s)) \in Seq(Entries)
      BY <1>1, <2>3
    <2> QED BY <1>2, <2>1, <2>2, <2>4
  <1>4. CASE ~(Len(s) > MaxHistory)
    BY <1>1, <1>2, <1>4 DEF Newest
  <1> QED BY <1>3, <1>4

\* An update of the publication.
Wrote(now, d, n, past) == [now EXCEPT !.live = d, !.version = n, !.past = past]

LEMMA WrittenType ==
    ASSUME NEW now \in FlowRecords, NEW d \in Dsls \cup {NoDsl}, NEW n \in Nat \cup {Unset},
           NEW past \in Seq(Entries)
    PROVE  Wrote(now, d, n, past) \in FlowRecords /\ Wrote(now, d, n, past).live = d
  BY DEF Wrote, FlowRecords

\* A definition that the handler decided on by its copy goes online.
Installs(j, r) ==
    \/ j.kind = "publish" /\ r.live = j.seen.draft
    \/ j.kind = "offline" /\ r.live = NoDsl
    \/ j.kind = "online" /\ r.live = j.seen.past[Len(j.seen.past)].dsl
    \/ j.kind = "rollback" /\ \E e \in Oldest(j.seen, j.version) : r.live = e.dsl

LEMMA UpdatedType ==
    ASSUME NEW j, JobOK(j), j.at = "write", NEW now \in FlowRecords, NEW r \in Updates(j, now)
    PROVE  r \in FlowRecords /\ Installs(j, r)
  <1> DEFINE seen == j.seen
             kept == IF seen.live = NoDsl THEN seen.past ELSE Archived(seen)
             kept0 == IF seen.live = NoDsl \/ Version(seen) = 0 THEN seen.past ELSE Archived(seen)
  <1>1. /\ seen \in FlowRecords /\ ~Refused(j, seen) /\ j \in Jobs /\ j.kind # "boot"
        /\ seen.past \in Seq(Entries) /\ seen.draft \in Dsls /\ Version(seen) + 1 \in Nat
    BY DEF JobOK, FlowRecords, Version, Unset
  <1>2. kept \in Seq(Entries) /\ kept0 \in Seq(Entries)
    BY <1>1, ArchivedType
  <1>3. j.kind \in Kinds
    BY <1>1 DEF Jobs
  <1>8. PICK n \in Nat : n = Version(seen) + 1
    BY <1>1
  <1> HIDE DEF kept, kept0
  <1>4. CASE j.kind = "publish"
    <2>1. r = Wrote(now, seen.draft, n, kept)
      BY <1>4, <1>8 DEF Updates, Published, kept, Wrote
    <2>2. r \in FlowRecords /\ r.live = seen.draft
      <3>1. seen.draft \in Dsls \cup {NoDsl} /\ n \in Nat \cup {Unset} /\ kept \in Seq(Entries)
        BY <1>1, <1>2
      <3> HIDE DEF seen
      <3>2. Wrote(now, seen.draft, n, kept) \in FlowRecords
        BY <3>1, WrittenType
      <3>3. Wrote(now, seen.draft, n, kept).live = seen.draft
        BY <3>1, WrittenType
      <3> QED BY <2>1, <3>2, <3>3
    <2> QED BY <1>4, <2>2 DEF Installs
  <1>5. CASE j.kind = "offline"
    <2>1. r = Wrote(now, NoDsl, 0, Archived(seen))
      BY <1>5 DEF Updates, Unpublished, Wrote
    <2>2. Archived(seen) \in Seq(Entries)
      BY <1>1, <1>5, ArchivedType DEF Refused, CanUnpublish
    <2>3. r \in FlowRecords /\ r.live = NoDsl
      BY <2>1, <2>2, WrittenType
    <2> QED BY <1>5, <2>3 DEF Installs
  <1>6. CASE j.kind = "online"
    <2> DEFINE last == seen.past[Len(seen.past)]
               rest == SubSeq(seen.past, 1, Len(seen.past) - 1)
    <2>1. r = Wrote(now, last.dsl, last.version, rest)
      BY <1>6 DEF Updates, Online, Wrote
    <2>2. seen.past # <<>>
      BY <1>1, <1>6 DEF Refused, CanGoOnline
    <2>3. last \in Entries /\ rest \in Seq(Entries)
      BY <1>1, <2>2
    <2>4. last.dsl \in Dsls /\ last.version \in Nat
      BY <2>3 DEF Entries
    <2>5. Installs(j, r) <=> r.live = last.dsl
      BY <1>6 DEF Installs
    <2> HIDE DEF last, rest
    <2>6. r \in FlowRecords /\ r.live = last.dsl
      BY <2>1, <2>3, <2>4, WrittenType
    <2> QED BY <2>5, <2>6
  <1>7. CASE j.kind = "rollback"
    <2>1. PICK e \in Oldest(seen, j.version) : r = RolledBack(now, seen, e)
      BY <1>7 DEF Updates
    <2>2. r = Wrote(now, e.dsl, n, kept0)
      BY <1>8, <2>1 DEF RolledBack, kept0, Wrote
    <2>3. e \in Entries
      BY <1>1, <2>1 DEF Oldest, Holding
    <2>5. e.dsl \in Dsls
      BY <2>3 DEF Entries
    <2>4. r \in FlowRecords /\ r.live = e.dsl
      <3>1. e.dsl \in Dsls \cup {NoDsl} /\ n \in Nat \cup {Unset} /\ kept0 \in Seq(Entries)
        BY <1>1, <1>2, <2>5
      <3>2. Wrote(now, e.dsl, n, kept0) \in FlowRecords
        BY <3>1, WrittenType
      <3>3. Wrote(now, e.dsl, n, kept0).live = e.dsl
        BY <3>1, WrittenType
      <3> QED BY <2>2, <3>2, <3>3
    <2> QED BY <1>7, <2>1, <2>4 DEF Installs
  <1> QED BY <1>3, <1>4, <1>5, <1>6, <1>7 DEF Kinds

LEMMA CandidateType ==
    ASSUME NEW j, NEW r \in FlowRecords, NEW d \in Candidates(j, r),
           j.kind \in {"publish", "online", "rollback"}
    PROVE  d \in Dsls
  <1>1. r.draft \in Dsls /\ r.live \in Dsls \cup {NoDsl} /\ r.past \in Seq(Entries)
    BY DEF FlowRecords
  <1>2. \A i \in DOMAIN r.past : r.past[i].dsl \in Dsls
    <2>1. \A i \in DOMAIN r.past : r.past[i] \in Entries
      BY <1>1
    <2> QED BY <2>1 DEF Entries
  <1>3. CASE j.kind = "publish"
    BY <1>1, <1>3 DEF Candidates
  <1>4. CASE j.kind = "online"
    <2>1. r.past # <<>> /\ d = r.past[Len(r.past)].dsl
      BY <1>4 DEF Candidates
    <2>2. Len(r.past) \in DOMAIN r.past
      BY <1>1, <2>1
    <2> QED BY <1>2, <2>1, <2>2
  <1>5. CASE j.kind = "rollback"
    BY <1>1, <1>2, <1>5 DEF Candidates, Listed, Holding
  <1> QED BY <1>3, <1>4, <1>5

----------------------------------------------------------------------------
(* The steps of a job.                                                     *)

Others(w) == \A v \in Workers \ {w} : job'[v] = job[v]

Ends(w) == /\ job' \in [Workers -> Jobs \cup {NoJob}]
           /\ Others(w)
           /\ job'[w] = NoJob

\* The job of w goes on, at x, with these values.
Becomes(w, x, f, d, r, t) ==
    /\ job' \in [Workers -> Jobs \cup {NoJob}]
    /\ Others(w)
    /\ job'[w] \in Jobs
    /\ job'[w].kind = job[w].kind /\ job'[w].version = job[w].version
    /\ job'[w].marks = job[w].marks
    /\ job'[w].at = x /\ job'[w].flow = f /\ job'[w].dsl = d /\ job'[w].seen = r
    /\ job'[w].todo = t

GoesTo(w, x) == Becomes(w, x, job[w].flow, job[w].dsl, job[w].seen, job[w].todo)

Places == {"get", "check", "read", "write", "sync", "syncing", "mqtt"}

LEMMA JobType ==
    ASSUME JobsOK, NEW w \in Workers, job[w] # NoJob
    PROVE  job[w] \in Jobs /\ w \in Underway /\ JobOK(job[w])
  BY DEF JobsOK, Underway

LEMMA EndForm ==
    ASSUME JobsOK, NEW w \in Workers, End(w)
    PROVE  Ends(w)
  BY DEF JobsOK, End, Ends, Others

LEMMA GoToForm ==
    ASSUME JobsOK, NEW w \in Workers, job[w] # NoJob, NEW x \in Places, GoTo(w, x)
    PROVE  GoesTo(w, x)
  <1>1. job \in [Workers -> Jobs \cup {NoJob}] /\ job[w] \in Jobs
    BY JobType DEF JobsOK
  <1>2. job' = [job EXCEPT ![w] = [job[w] EXCEPT !.at = x]]
    BY <1>1 DEF GoTo
  <1> DEFINE j == [job[w] EXCEPT !.at = x]
  <1>3. /\ j \in Jobs /\ j.kind = job[w].kind /\ j.version = job[w].version
        /\ j.marks = job[w].marks /\ j.at = x /\ j.flow = job[w].flow /\ j.dsl = job[w].dsl
        /\ j.seen = job[w].seen /\ j.todo = job[w].todo
    BY <1>1 DEF Jobs, Places
  <1> HIDE DEF j
  <1>4. job' = [job EXCEPT ![w] = j]
    BY <1>2 DEF j
  <1> QED BY <1>1, <1>3, <1>4 DEF GoesTo, Becomes, Others

LEMMA GetForm ==
    ASSUME JobsOK, NEW w \in Workers, HandlerGet(w)
    PROVE  /\ job[w] # NoJob /\ job[w].at = "get"
           /\ \/ Ends(w)
              \/ job[w].kind = "offline" /\ GoesTo(w, "read")
              \/ /\ job[w].kind # "offline"
                 /\ \E d \in Candidates(job[w], doc[job[w].flow]) :
                        d \in Dsls /\ Becomes(w, "check", job[w].flow, d, job[w].seen, job[w].todo)
  <1>1. /\ job \in [Workers -> Jobs \cup {NoJob}] /\ job[w] # NoJob /\ job[w].at = "get"
        /\ job[w] \in Jobs /\ JobOK(job[w])
    BY JobType DEF HandlerGet, At, JobsOK
  <1>2. job[w].kind \in Kinds /\ doc[job[w].flow] \in FlowRecords
    BY <1>1 DEF JobOK, Jobs, JobsOK
  <1>3. CASE job[w].kind = "offline"
    BY <1>1, <1>3, GoToForm DEF HandlerGet, Places
  <1>4. CASE job[w].kind # "offline" /\ Candidates(job[w], doc[job[w].flow]) = {}
    BY <1>1, <1>4, EndForm DEF HandlerGet
  <1>5. CASE job[w].kind # "offline" /\ Candidates(job[w], doc[job[w].flow]) # {}
    <2>1. PICK d \in Candidates(job[w], doc[job[w].flow]) :
              job' = [job EXCEPT ![w].at = "check", ![w].dsl = d]
      BY <1>5 DEF HandlerGet
    <2>2. d \in Dsls
      BY <1>2, <1>5, CandidateType DEF Kinds
    <2> DEFINE j == [job[w] EXCEPT !.at = "check", !.dsl = d]
    <2>3. job' = [job EXCEPT ![w] = j]
      BY <1>1, <2>1
    <2>4. /\ j \in Jobs /\ j.kind = job[w].kind /\ j.version = job[w].version
          /\ j.marks = job[w].marks /\ j.at = "check" /\ j.flow = job[w].flow /\ j.dsl = d
          /\ j.seen = job[w].seen /\ j.todo = job[w].todo
      BY <1>1, <2>2 DEF Jobs
    <2> HIDE DEF j
    <2>5. Becomes(w, "check", job[w].flow, d, job[w].seen, job[w].todo)
      BY <1>1, <2>3, <2>4 DEF Becomes, Others
    <2> QED BY <1>1, <1>5, <2>2, <2>5
  <1> QED BY <1>1, <1>3, <1>4, <1>5

LEMMA CheckForm ==
    ASSUME JobsOK, NEW w \in Workers, HandlerCheck(w)
    PROVE  /\ job[w] # NoJob /\ job[w].at = "check"
           /\ \/ Ends(w)
              \/ CheckHTTPRoutes(job[w].flow, job[w].dsl) /\ GoesTo(w, "read")
  BY EndForm, GoToForm DEF HandlerCheck, At, Places

LEMMA ReadForm ==
    ASSUME JobsOK, NEW w \in Workers, StoreRead(w)
    PROVE  /\ job[w] # NoJob /\ job[w].at = "read"
           /\ \/ Ends(w)
              \/ /\ job[w].kind = "rollback" /\ job[w].version = Version(doc[job[w].flow])
                 /\ GoesTo(w, "sync")
              \/ /\ ~Refused(job[w], doc[job[w].flow])
                 /\ job[w].kind = "rollback" => job[w].version # Version(doc[job[w].flow])
                 /\ doc[job[w].flow] \in FlowRecords
                 /\ Becomes(w, "write", job[w].flow, job[w].dsl, doc[job[w].flow], job[w].todo)
  <1> DEFINE r == doc[job[w].flow]
  <1>1. /\ job \in [Workers -> Jobs \cup {NoJob}] /\ job[w] # NoJob /\ job[w].at = "read"
        /\ job[w] \in Jobs /\ JobOK(job[w])
    BY JobType DEF StoreRead, At, JobsOK
  <1>2. r \in FlowRecords
    BY <1>1 DEF JobOK, JobsOK
  <1>3. CASE Refused(job[w], r)
    BY <1>1, <1>3, EndForm DEF StoreRead
  <1>4. CASE ~Refused(job[w], r) /\ job[w].kind = "rollback" /\ job[w].version = Version(r)
    BY <1>1, <1>4, GoToForm DEF StoreRead, Places
  <1>5. CASE ~Refused(job[w], r) /\ ~(job[w].kind = "rollback" /\ job[w].version = Version(r))
    <2>1. job' = [job EXCEPT ![w].at = "write", ![w].seen = r]
      BY <1>5 DEF StoreRead
    <2> HIDE DEF r
    <2> DEFINE j == [job[w] EXCEPT !.at = "write", !.seen = r]
    <2>3. job' = [job EXCEPT ![w] = j]
      BY <1>1, <2>1
    <2>4. /\ j \in Jobs /\ j.kind = job[w].kind /\ j.version = job[w].version
          /\ j.marks = job[w].marks /\ j.at = "write" /\ j.flow = job[w].flow
          /\ j.dsl = job[w].dsl /\ j.seen = r /\ j.todo = job[w].todo
      BY <1>1, <1>2 DEF Jobs
    <2> HIDE DEF j
    <2>5. Becomes(w, "write", job[w].flow, job[w].dsl, r, job[w].todo)
      BY <1>1, <2>3, <2>4 DEF Becomes, Others
    <2> QED BY <1>1, <1>2, <1>5, <2>5 DEF r
  <1> QED BY <1>3, <1>4, <1>5

LEMMA WriteForm ==
    ASSUME JobsOK, NEW w \in Workers, StoreWrite(w)
    PROVE  /\ job[w] # NoJob /\ job[w].at = "write" /\ job[w].kind # "boot"
           /\ job[w].flow \in Flows
           /\ GoesTo(w, "sync")
           /\ doc' \in [Flows -> FlowRecords]
           /\ \A f \in Flows \ {job[w].flow} : doc'[f] = doc[f]
           /\ Installs(job[w], doc'[job[w].flow])
  <1>1. job[w] # NoJob /\ job[w].at = "write" /\ job[w] \in Jobs /\ JobOK(job[w])
    BY JobType DEF StoreWrite, At
  <1>2. job[w].kind # "boot" /\ job[w].flow \in Flows
    BY <1>1 DEF JobOK
  <1>3. GoesTo(w, "sync")
    BY <1>1, GoToForm DEF StoreWrite, Places
  <1>4. PICK r \in Updates(job[w], doc[job[w].flow]) : doc' = [doc EXCEPT ![job[w].flow] = r]
    BY DEF StoreWrite
  <1>5. doc \in [Flows -> FlowRecords]
    BY DEF JobsOK
  <1>6. r \in FlowRecords /\ Installs(job[w], r)
    BY <1>1, <1>2, <1>5, UpdatedType
  <1> QED BY <1>1, <1>2, <1>3, <1>4, <1>5, <1>6

LEMMA SyncForm ==
    ASSUME JobsOK, NEW w \in Workers, HandlerSync(w)
    PROVE  /\ job[w] # NoJob /\ job[w].at = "sync" /\ job[w].kind # "boot"
           /\ job[w].flow \in Flows
           /\ doc[job[w].flow].live \in Dsls \cup {NoDsl}
           /\ SyncBegin(w, job[w].flow, doc[job[w].flow].live)
           /\ Becomes(w, "syncing", job[w].flow, doc[job[w].flow].live, job[w].seen, job[w].todo)
  <1> DEFINE d == doc[job[w].flow].live
  <1>1. /\ job \in [Workers -> Jobs \cup {NoJob}] /\ job[w] # NoJob /\ job[w].at = "sync"
        /\ job[w] \in Jobs /\ JobOK(job[w]) /\ job[w].kind # "boot"
    BY JobType DEF HandlerSync, At, JobsOK
  <1>2. job[w].flow \in Flows /\ d \in Dsls \cup {NoDsl}
    BY <1>1 DEF JobOK, JobsOK, FlowRecords
  <1>3. job' = [job EXCEPT ![w].at = "syncing", ![w].dsl = d] /\ SyncBegin(w, job[w].flow, d)
    BY DEF HandlerSync
  <1> HIDE DEF d
  <1> DEFINE j == [job[w] EXCEPT !.at = "syncing", !.dsl = d]
  <1>4. job' = [job EXCEPT ![w] = j]
    BY <1>1, <1>3
  <1>5. /\ j \in Jobs /\ j.kind = job[w].kind /\ j.version = job[w].version
        /\ j.marks = job[w].marks /\ j.at = "syncing" /\ j.flow = job[w].flow
        /\ j.dsl = d /\ j.seen = job[w].seen /\ j.todo = job[w].todo
    BY <1>1, <1>2 DEF Jobs
  <1> HIDE DEF j
  <1>6. Becomes(w, "syncing", job[w].flow, d, job[w].seen, job[w].todo)
    BY <1>1, <1>4, <1>5 DEF Becomes, Others
  <1> QED BY <1>1, <1>2, <1>3, <1>6 DEF d

LEMMA ReturnForm ==
    ASSUME JobsOK, NEW w \in Workers, HandlerReturn(w)
    PROVE  /\ job[w] # NoJob /\ job[w].at = "syncing" /\ job[w].kind # "boot" /\ w \notin Busy
           /\ job[w].flow \in Flows
           /\ \/ Ends(w)
              \/ GoesTo(w, "mqtt")
  BY JobType, EndForm, GoToForm DEF HandlerReturn, At, Places, JobOK

LEMMA MqttForm ==
    ASSUME JobsOK, NEW w \in Workers, HandlerMqtt(w)
    PROVE  /\ job[w] # NoJob /\ job[w].at = "mqtt" /\ job[w].kind # "boot"
           /\ job[w].flow \in Flows /\ job[w].dsl \in Dsls \cup {NoDsl}
           /\ Ends(w)
  BY JobType, EndForm DEF HandlerMqtt, At, JobOK, Jobs

\* The job of v goes on as it was, but for marks it may lose.
Like(k, j) ==
    /\ k \in Jobs
    /\ k.kind = j.kind /\ k.at = j.at /\ k.flow = j.flow /\ k.version = j.version
    /\ k.dsl = j.dsl /\ k.seen = j.seen /\ k.todo = j.todo

Stays(v) == Like(job'[v], job[v]) /\ job'[v].marks \subseteq job[v].marks

\* The job of w is j from here, and it and those it meets are not alone.
Opens(w, j) ==
    /\ job' \in [Workers -> Jobs \cup {NoJob}]
    /\ Like(job'[w], j)
    /\ "alone" \in job'[w].marks => \A u \in Underway \ {w} : ~Overlap(job[u], j)
    /\ "quiet" \in job'[w].marks => Underway = {}
    /\ \A v \in Underway \ {w} :
           Stays(v) /\ (Overlap(job[v], j) => "alone" \notin job'[v].marks)
    /\ \A v \in Workers \ (Underway \cup {w}) : job'[v] = NoJob

LEMMA BeginForm ==
    ASSUME JobsOK, NEW w \in Workers, NEW j \in Jobs, Begin(w, j)
    PROVE  /\ job[w] = NoJob /\ Opens(w, j)
           /\ \A v \in Underway : "quiet" \notin job'[v].marks
           /\ served' = {f \in served : ~On(j, f)}
           /\ followed' = {f \in followed : ~On(j, f)}
  <1> DEFINE marks == {m \in {"alone", "quiet"} :
                          \/ m = "alone" /\ \A u \in Underway : ~Overlap(job[u], j)
                          \/ m = "quiet" /\ Underway = {}}
             lost(v) == IF Overlap(job[v], j) THEN {"alone", "quiet"} ELSE {"quiet"}
             new == [j EXCEPT !.marks = marks]
             old(v) == [job[v] EXCEPT !.marks = @ \ lost(v)]
  <1>1. /\ job' = [v \in Workers |-> IF v = w THEN new
                                     ELSE IF v \in Underway THEN old(v) ELSE NoJob]
        /\ job[w] = NoJob
        /\ served' = {f \in served : ~On(j, f)}
        /\ followed' = {f \in followed : ~On(j, f)}
    BY DEF Begin
  <1>2. /\ marks \subseteq {"alone", "quiet"}
        /\ "alone" \in marks => \A u \in Underway : ~Overlap(job[u], j)
        /\ "quiet" \in marks => Underway = {}
    OBVIOUS
  <1>3. \A v \in Underway : /\ "quiet" \in lost(v)
                            /\ Overlap(job[v], j) => "alone" \in lost(v)
    OBVIOUS
  <1> HIDE DEF marks, lost
  <1>4. Like(new, j) /\ new.marks = marks
    BY <1>2 DEF Like, Jobs
  <1>5. ASSUME NEW v \in Underway
        PROVE  Like(old(v), job[v]) /\ old(v).marks = job[v].marks \ lost(v)
    <2>1. job[v] \in Jobs
      BY JobType DEF Underway
    <2> QED BY <2>1 DEF Like, Jobs
  <1> HIDE DEF new, old
  <1>6. /\ w \notin Underway /\ Underway \subseteq Workers
        /\ new \in Jobs /\ \A v \in Underway : old(v) \in Jobs
    BY <1>1, <1>4, <1>5 DEF Underway, Like
  <1>7. job' \in [Workers -> Jobs \cup {NoJob}]
    BY <1>1, <1>6
  <1>8. /\ job'[w] = new
        /\ \A v \in Underway : job'[v] = old(v)
        /\ \A v \in Workers \ (Underway \cup {w}) : job'[v] = NoJob
    BY <1>1, <1>6
  <1>9. \A v \in Underway : Stays(v) /\ "quiet" \notin job'[v].marks
                            /\ (Overlap(job[v], j) => "alone" \notin job'[v].marks)
    BY <1>3, <1>5, <1>8 DEF Stays
  <1>10. Opens(w, j)
    BY <1>2, <1>4, <1>7, <1>8, <1>9 DEF Opens
  <1> QED BY <1>1, <1>9, <1>10

LEMMA RequestForm ==
    ASSUME JobsOK, NEW w \in Workers, Request(w)
    PROVE  /\ calls' \in 0..MaxCalls
           /\ \E j \in Jobs : /\ j.kind \in Kinds /\ j.at = "get" /\ j.flow \in Flows
                              /\ j.todo = {}
                              /\ Begin(w, j)
  <1>1. calls' \in 0..MaxCalls
    BY MaxCallsAssumption DEF Request, JobsOK
  <1>2. ASSUME NEW kind \in Kinds, NEW f \in Flows, NEW v \in Nat
        PROVE  /\ NewJob(kind, f, v) \in Jobs
               /\ NewJob(kind, f, v).kind = kind /\ NewJob(kind, f, v).at = "get"
               /\ NewJob(kind, f, v).flow = f /\ NewJob(kind, f, v).todo = {}
    BY DEF NewJob, Jobs
  <1>3. PICK kind \in Kinds, f \in Flows, v \in Nat : Begin(w, NewJob(kind, f, v))
    <2>1. "rollback" \in Kinds /\ 0 \in Nat /\ 1..MaxCalls \subseteq Nat
      BY MaxCallsAssumption DEF Kinds
    <2> QED BY <2>1 DEF Request
  <1> QED BY <1>1, <1>2, <1>3

LEMMA ListingType ==
    ASSUME JobsOK
    PROVE  /\ Listing \in SUBSET (Flows \X Dsls)
           /\ \A p \in Listing : doc[p[1]].live = p[2]
  BY DEF Listing

LEMMA BootBeginForm ==
    ASSUME JobsOK, NEW w \in Workers, BootBegin(w)
    PROVE  \E j \in Jobs : /\ j.kind = "boot" /\ j.at = "sync" /\ j.flow = NoFlow
                           /\ j.todo = Listing
                           /\ Begin(w, j)
  <1> DEFINE j == [NewJob("boot", NoFlow, 0) EXCEPT !.at = "sync", !.todo = Listing]
  <1>1. Begin(w, j)
    BY DEF BootBegin
  <1>2. j \in Jobs /\ j.kind = "boot" /\ j.at = "sync" /\ j.flow = NoFlow /\ j.todo = Listing
    BY ListingType DEF NewJob, Jobs
  <1> HIDE DEF j
  <1> QED BY <1>1, <1>2

LEMMA BootSyncForm ==
    ASSUME JobsOK, NEW w \in Workers, BootSync(w)
    PROVE  /\ job[w] # NoJob /\ job[w].at = "sync" /\ job[w].kind = "boot"
           /\ job[w].todo \subseteq Flows \X Dsls
           /\ \E p \in job[w].todo :
                  /\ SyncBegin(w, p[1], p[2])
                  /\ Becomes(w, "syncing", p[1], job[w].dsl, job[w].seen, job[w].todo \ {p})
  <1>1. /\ job \in [Workers -> Jobs \cup {NoJob}] /\ job[w] # NoJob /\ job[w].at = "sync"
        /\ job[w] \in Jobs /\ job[w].kind = "boot"
    BY JobType DEF BootSync, At, JobsOK
  <1>2. job[w].todo \subseteq Flows \X Dsls
    BY <1>1 DEF Jobs
  <1>3. PICK p \in job[w].todo :
            /\ SyncBegin(w, p[1], p[2])
            /\ job' = [job EXCEPT ![w].at = "syncing", ![w].flow = p[1], ![w].todo = @ \ {p}]
    BY DEF BootSync
  <1>4. p[1] \in Flows
    BY <1>2, <1>3
  <1> DEFINE f == p[1]
             t == job[w].todo \ {p}
             j == [job[w] EXCEPT !.at = "syncing", !.flow = f, !.todo = t]
  <1>5. f \in Flows /\ t \in SUBSET (Flows \X Dsls)
    BY <1>2, <1>4
  <1>6. job' = [job EXCEPT ![w].at = "syncing", ![w].flow = f, ![w].todo = t]
    BY <1>1, <1>3 DEF Jobs
  <1> HIDE DEF f, t
  <1>7. job' = [job EXCEPT ![w] = j]
    BY <1>1, <1>6
  <1>8. /\ j \in Jobs /\ j.kind = job[w].kind /\ j.version = job[w].version
        /\ j.marks = job[w].marks /\ j.at = "syncing" /\ j.flow = f
        /\ j.dsl = job[w].dsl /\ j.seen = job[w].seen /\ j.todo = t
    BY <1>1, <1>5 DEF Jobs
  <1> HIDE DEF j
  <1>9. Becomes(w, "syncing", f, job[w].dsl, job[w].seen, t)
    BY <1>1, <1>7, <1>8 DEF Becomes, Others
  <1> QED BY <1>1, <1>2, <1>3, <1>9 DEF f, t

LEMMA BootNextForm ==
    ASSUME JobsOK, NEW w \in Workers, BootNext(w)
    PROVE  /\ job[w] # NoJob /\ job[w].at = "syncing" /\ job[w].kind = "boot" /\ w \notin Busy
           /\ job[w].flow \in Flows
           /\ Becomes(w, "sync", NoFlow, job[w].dsl, job[w].seen, job[w].todo)
  <1>1. /\ job \in [Workers -> Jobs \cup {NoJob}] /\ job[w] # NoJob /\ job[w].at = "syncing"
        /\ job[w] \in Jobs /\ job[w].kind = "boot" /\ w \notin Busy /\ job[w].flow \in Flows
    BY JobType DEF BootNext, At, JobsOK, JobOK
  <1>2. job' = [job EXCEPT ![w].at = "sync", ![w].flow = NoFlow]
    BY DEF BootNext
  <1> DEFINE j == [job[w] EXCEPT !.at = "sync", !.flow = NoFlow]
  <1>3. job' = [job EXCEPT ![w] = j]
    BY <1>1, <1>2
  <1>4. /\ j \in Jobs /\ j.kind = job[w].kind /\ j.version = job[w].version
        /\ j.marks = job[w].marks /\ j.at = "sync" /\ j.flow = NoFlow
        /\ j.dsl = job[w].dsl /\ j.seen = job[w].seen /\ j.todo = job[w].todo
    BY <1>1 DEF Jobs
  <1> HIDE DEF j
  <1>5. Becomes(w, "sync", NoFlow, job[w].dsl, job[w].seen, job[w].todo)
    BY <1>1, <1>3, <1>4 DEF Becomes, Others
  <1> QED BY <1>1, <1>5

LEMMA BootMqttForm ==
    ASSUME JobsOK, NEW w \in Workers, BootMqtt(w)
    PROVE  /\ job[w] # NoJob /\ job[w].at = "sync" /\ job[w].kind = "boot" /\ job[w].todo = {}
           /\ \E j \in Jobs : /\ j.kind = "boot" /\ j.at = "mqtt" /\ j.flow = job[w].flow
                              /\ j.todo = Listing
                              /\ Opens(w, j)
  <1>1. /\ job \in [Workers -> Jobs \cup {NoJob}] /\ job[w] # NoJob /\ job[w].at = "sync"
        /\ job[w] \in Jobs /\ job[w].kind = "boot" /\ job[w].todo = {} /\ w \in Underway
    BY JobType DEF BootMqtt, At, JobsOK
  <1> DEFINE j == [job[w] EXCEPT !.at = "mqtt", !.todo = Listing]
             met == {v \in Underway \ {w} : Overlap(job[v], j)}
             new == [j EXCEPT !.marks = IF met = {} THEN {"alone"} ELSE {}]
             old(v) == [job[v] EXCEPT !.marks = {}]
  <1>2. job' = [v \in Workers |-> IF v = w THEN new ELSE IF v \in met THEN old(v) ELSE job[v]]
    BY DEF BootMqtt
  <1>3. /\ j \in Jobs /\ j.kind = "boot" /\ j.at = "mqtt" /\ j.flow = job[w].flow
        /\ j.todo = Listing
    BY <1>1, ListingType DEF Jobs
  <1>4. \A v \in Underway \ {w} : v \in met <=> Overlap(job[v], j)
    OBVIOUS
  <1>5. met \subseteq Underway /\ Underway \subseteq Workers
    BY DEF Underway
  <1> HIDE DEF j, met
  <1>6. /\ Like(new, j)
        /\ "alone" \in new.marks => met = {}
        /\ "quiet" \notin new.marks
    BY <1>3 DEF Like, Jobs
  <1>7. ASSUME NEW v \in Underway PROVE Like(old(v), job[v]) /\ old(v).marks = {}
    <2>1. job[v] \in Jobs
      BY JobType DEF Underway
    <2> QED BY <2>1 DEF Like, Jobs
  <1>8. \A v \in Underway : Like(job[v], job[v])
    BY JobType DEF Like, Underway
  <1> HIDE DEF new, old
  <1>9. new \in Jobs /\ \A v \in Underway : old(v) \in Jobs
    BY <1>6, <1>7 DEF Like
  <1>10. job' \in [Workers -> Jobs \cup {NoJob}]
    BY <1>1, <1>2, <1>5, <1>9
  <1>11. job'[w] = new /\ \A v \in Workers \ {w} : job'[v] = IF v \in met THEN old(v) ELSE job[v]
    BY <1>2
  <1>12. \A v \in Underway \ {w} :
             Stays(v) /\ (Overlap(job[v], j) => "alone" \notin job'[v].marks)
    BY <1>4, <1>5, <1>7, <1>8, <1>11 DEF Stays
  <1>13. \A v \in Workers \ (Underway \cup {w}) : job'[v] = NoJob
    BY <1>5, <1>11 DEF Underway
  <1>14. "alone" \in job'[w].marks => \A u \in Underway \ {w} : ~Overlap(job[u], j)
    BY <1>4, <1>6, <1>11
  <1>15. Opens(w, j)
    BY <1>6, <1>10, <1>11, <1>12, <1>13, <1>14 DEF Opens
  <1> QED BY <1>1, <1>3, <1>15

LEMMA BootMqttSyncForm ==
    ASSUME JobsOK, NEW w \in Workers, BootMqttSync(w)
    PROVE  /\ job[w] # NoJob /\ job[w].at = "mqtt" /\ job[w].kind = "boot"
           /\ job[w].todo \subseteq Flows \X Dsls
           /\ \E p \in job[w].todo :
                  /\ MountsMqtt(w, p[1], p[2])
                  /\ Becomes(w, "mqtt", job[w].flow, job[w].dsl, job[w].seen, job[w].todo \ {p})
  <1>1. /\ job \in [Workers -> Jobs \cup {NoJob}] /\ job[w] # NoJob /\ job[w].at = "mqtt"
        /\ job[w] \in Jobs /\ job[w].kind = "boot"
    BY JobType DEF BootMqttSync, At, JobsOK
  <1>2. job[w].todo \subseteq Flows \X Dsls
    BY <1>1 DEF Jobs
  <1>3. PICK p \in job[w].todo :
            MountsMqtt(w, p[1], p[2]) /\ job' = [job EXCEPT ![w].todo = @ \ {p}]
    BY DEF BootMqttSync
  <1> DEFINE t == job[w].todo \ {p}
             j == [job[w] EXCEPT !.todo = t]
  <1>4. t \in SUBSET (Flows \X Dsls)
    BY <1>2
  <1>5. job' = [job EXCEPT ![w] = j]
    BY <1>1, <1>3
  <1> HIDE DEF t
  <1>6. /\ j \in Jobs /\ j.kind = job[w].kind /\ j.version = job[w].version
        /\ j.marks = job[w].marks /\ j.at = "mqtt" /\ j.flow = job[w].flow
        /\ j.dsl = job[w].dsl /\ j.seen = job[w].seen /\ j.todo = t
    BY <1>1, <1>4 DEF Jobs
  <1> HIDE DEF j
  <1>7. Becomes(w, "mqtt", job[w].flow, job[w].dsl, job[w].seen, t)
    BY <1>1, <1>5, <1>6 DEF Becomes, Others
  <1> QED BY <1>1, <1>2, <1>3, <1>7 DEF t

LEMMA BootEndForm ==
    ASSUME JobsOK, NEW w \in Workers, BootEnd(w)
    PROVE  /\ job[w] # NoJob /\ job[w].at = "mqtt" /\ job[w].kind = "boot"
           /\ job[w].todo = {}
           /\ Ends(w)
  BY EndForm DEF BootEnd, At

LEMMA DraftForm ==
    ASSUME JobsOK, SaveDraft
    PROVE  /\ calls' \in 0..MaxCalls
           /\ doc' \in [Flows -> FlowRecords]
           /\ \A f \in Flows : doc'[f].live = doc[f].live
           /\ job' \in [Workers -> Jobs \cup {NoJob}]
           /\ \A v \in Underway :
                  /\ Stays(v)
                  /\ "quiet" \in job'[v].marks /\ job[v].flow \in Flows =>
                         doc'[job[v].flow] = doc[job[v].flow]
           /\ \A v \in Workers \ Underway : job'[v] = NoJob
  <1>1. PICK f \in Flows, d \in Dsls :
            /\ calls < MaxCalls /\ calls' = calls + 1
            /\ doc' = [doc EXCEPT ![f] = Saved(@, d)]
            /\ job' = [w \in Workers |-> IF w \in Underway /\ job[w].flow = f
                                         THEN [job[w] EXCEPT !.marks = @ \ {"quiet"}]
                                         ELSE job[w]]
    BY DEF SaveDraft
  <1>2. calls' \in 0..MaxCalls
    BY <1>1, MaxCallsAssumption DEF JobsOK
  <1>3. doc \in [Flows -> FlowRecords]
    BY DEF JobsOK
  <1>4. Saved(doc[f], d) \in FlowRecords /\ Saved(doc[f], d).live = doc[f].live
    BY <1>3 DEF Saved, FlowRecords
  <1>5. /\ doc' \in [Flows -> FlowRecords]
        /\ \A g \in Flows : doc'[g].live = doc[g].live
        /\ \A g \in Flows \ {f} : doc'[g] = doc[g]
    BY <1>1, <1>3, <1>4
  <1> DEFINE old(v) == [job[v] EXCEPT !.marks = @ \ {"quiet"}]
  <1>6. ASSUME NEW v \in Underway
        PROVE  /\ Like(old(v), job[v]) /\ old(v).marks = job[v].marks \ {"quiet"}
               /\ Like(job[v], job[v])
    <2>1. job[v] \in Jobs
      BY JobType DEF Underway
    <2> QED BY <2>1 DEF Like, Jobs
  <1> HIDE DEF old
  <1>7. \A v \in Workers : job'[v] = IF v \in Underway /\ job[v].flow = f THEN old(v) ELSE job[v]
    BY <1>1 DEF old
  <1>8. Underway \subseteq Workers /\ job \in [Workers -> Jobs \cup {NoJob}]
    BY DEF Underway, JobsOK
  <1>9. job' \in [Workers -> Jobs \cup {NoJob}]
    <2>1. \A v \in Workers : job'[v] \in Jobs \cup {NoJob}
      BY <1>6, <1>7, <1>8 DEF Like
    <2>2. job' = [v \in Workers |-> job'[v]]
      BY <1>1
    <2> QED BY <2>1, <2>2
  <1>10. ASSUME NEW v \in Underway
         PROVE  /\ Stays(v)
                /\ "quiet" \in job'[v].marks /\ job[v].flow \in Flows =>
                       doc'[job[v].flow] = doc[job[v].flow]
    <2>1. CASE job[v].flow = f
      BY <1>6, <1>7, <1>8, <2>1 DEF Stays
    <2>2. CASE job[v].flow # f
      BY <1>5, <1>6, <1>7, <1>8, <2>2 DEF Stays
    <2> QED BY <2>1, <2>2
  <1>11. \A v \in Workers \ Underway : job'[v] = NoJob
    BY <1>7 DEF Underway
  <1> QED BY <1>2, <1>5, <1>9, <1>10, <1>11

\* What a step of w leaves of the other jobs.
Sides(w) ==
    \A v \in Workers \ {w} :
        /\ v \in Underway => job'[v] # NoJob /\ Stays(v)
        /\ v \notin Underway => job'[v] = NoJob

LEMMA JobNotNull == \A j \in Jobs : j # NoJob
  BY NoJobAssumption

LEMMA EndSides ==
    ASSUME JobsOK, NEW w \in Workers, Ends(w)
    PROVE  Sides(w) /\ Underway' = Underway \ {w}
  <1>1. \A v \in Underway : job[v] \in Jobs /\ Like(job[v], job[v])
    BY JobType DEF Underway, Like
  <1> QED BY <1>1, JobNotNull DEF Ends, Others, Sides, Stays, Underway

LEMMA BecomeSides ==
    ASSUME JobsOK, NEW w \in Workers, NEW x, NEW f, NEW d, NEW r, NEW t, job[w] # NoJob,
           Becomes(w, x, f, d, r, t)
    PROVE  Sides(w) /\ Underway' = Underway /\ w \in Underway
  <1>1. \A v \in Underway : job[v] \in Jobs /\ Like(job[v], job[v])
    BY JobType DEF Underway, Like
  <1>2. Sides(w)
    BY <1>1, JobNotNull DEF Becomes, Others, Sides, Stays, Underway
  <1>3. job'[w] # NoJob
    BY JobNotNull DEF Becomes
  <1> QED BY <1>2, <1>3 DEF Underway, Sides, Stays

LEMMA OpenSides ==
    ASSUME JobsOK, NEW w \in Workers, NEW j, Opens(w, j)
    PROVE  Sides(w) /\ Underway' = Underway \cup {w}
  <1>1. Sides(w)
    BY JobNotNull DEF Opens, Sides, Stays, Like
  <1>2. job'[w] # NoJob
    BY JobNotNull DEF Opens, Like
  <1> QED BY <1>1, <1>2 DEF Sides, Underway

LEMMA LikeOK ==
    ASSUME NEW j, NEW k, JobOK(j), Like(k, j)
    PROVE  JobOK(k)
  <1>1. \A r : Refused(k, r) <=> Refused(j, r)
    BY DEF Refused, Like
  <1> QED BY <1>1 DEF JobOK, Like

\* The jobs are well formed after a step of w if that of w is.
LEMMA JobsSides ==
    ASSUME JobsOK, NEW w \in Workers, Sides(w), job'[w] # NoJob => JobOK(job'[w])
    PROVE  \A v \in Underway' : JobOK(job'[v])
  <1> SUFFICES ASSUME NEW v \in Workers, job'[v] # NoJob PROVE JobOK(job'[v])
    BY DEF Underway
  <1>1. CASE v = w
    BY <1>1
  <1>2. CASE v # w
    <2>1. v \in Underway /\ Like(job'[v], job[v])
      BY <1>2 DEF Sides, Stays
    <2> QED BY <2>1, LikeOK DEF JobsOK
  <1> QED BY <1>1, <1>2

\* A goroutine in SyncFlow has a job that waits for it.
BusyWaits ==
    \A w \in Busy : job[w] # NoJob /\ job[w].at = "syncing" /\ job[w].flow = task[w].flow

\* Who is not in SyncFlow may take any step that leaves the calls of the others alone.
LEMMA BusySides ==
    ASSUME JobsOK, NEW w \in Workers, Sides(w), w \notin Busy, UNCHANGED task
    PROVE  BusyWaits'
  <1>1. Busy' = Busy
    BY DEF Busy
  <1> SUFFICES ASSUME NEW v \in Busy
               PROVE  job'[v] # NoJob /\ job'[v].at = "syncing" /\ job'[v].flow = task'[v].flow
    BY <1>1 DEF BusyWaits
  <1>2. v \in Workers \ {w} /\ v \in Underway /\ job[v].at = "syncing"
        /\ job[v].flow = task[v].flow
    BY DEF JobsOK, Busy, Underway
  <1> QED BY <1>2 DEF Sides, Stays, Like

LEMMA BusySync ==
    ASSUME TypeOK, JobsOK, NEW w \in Workers, Sides(w), NEW f \in Flows, NEW d \in Dsls \cup {NoDsl},
           SyncBegin(w, f, d), job'[w] # NoJob, job'[w].at = "syncing", job'[w].flow = f
    PROVE  BusyWaits' /\ Busy' = Busy \cup {w}
  <1>1. Busy' = Busy \cup {w} /\ task'[w].flow = f
    BY BeginTask DEF Busy, Outcomes
  <1>2. ASSUME NEW v \in Busy, v # w
        PROVE  job'[v] # NoJob /\ job'[v].at = "syncing" /\ job'[v].flow = task'[v].flow
    <2>1. v \in Workers \ {w} /\ v \in Underway /\ job[v].at = "syncing"
          /\ job[v].flow = task[v].flow
      BY <1>2 DEF JobsOK, Busy, Underway
    <2>2. task'[v].flow = task[v].flow
      BY <2>1, BeginTask
    <2> QED BY <2>1, <2>2 DEF Sides, Stays, Like
  <1> QED BY <1>1, <1>2 DEF BusyWaits

\* The parts of JobsOK that are not of the jobs.
StoreOK ==
    /\ doc \in [Flows -> FlowRecords]
    /\ mqtt \in [Flows -> Dsls \cup {NoDsl}]
    /\ boot \in {"due", "begun"}
    /\ calls \in 0..MaxCalls
    /\ served \subseteq Flows /\ followed \subseteq Flows

LEMMA JobsParts ==
    ASSUME StoreOK', BusyWaits', job' \in [Workers -> Jobs \cup {NoJob}],
           \A v \in Underway' : JobOK(job'[v])
    PROVE  JobsOK'
  BY DEF StoreOK, BusyWaits, JobsOK

LEMMA MountType ==
    ASSUME JobsOK, NEW w \in Workers, NEW f \in Flows, NEW d \in Dsls \cup {NoDsl},
           MountsMqtt(w, f, d)
    PROVE  /\ mqtt' \in [Flows -> Dsls \cup {NoDsl}]
           /\ followed' \subseteq Flows
           /\ \A g \in Flows \ {f} : mqtt'[g] = mqtt[g]
           /\ mqtt'[f] \in {NoDsl, d}
           /\ followed' = followed \cup (IF "alone" \in job[w].marks THEN {f} ELSE {})
  BY DEF MountsMqtt, JobsOK, Alone

LEMMA JobsByEnd ==
    ASSUME JobsOK, NEW w \in Workers, Ends(w), w \notin Busy, UNCHANGED task, StoreOK'
    PROVE  JobsOK'
  BY EndSides, JobsSides, BusySides, JobsParts DEF Ends

LEMMA JobsByBecome ==
    ASSUME JobsOK, NEW w \in Workers, NEW x, NEW f, NEW d, NEW r, NEW t, job[w] # NoJob,
           Becomes(w, x, f, d, r, t), JobOK(job'[w]), w \notin Busy, UNCHANGED task, StoreOK'
    PROVE  JobsOK'
  BY BecomeSides, JobsSides, BusySides, JobsParts DEF Becomes

LEMMA HandlerJobs ==
    ASSUME TypeOK, JobsOK, NEW w \in Workers, Handler(w)
    PROVE  JobsOK'
  <1>1. CASE Request(w)
    <2>1. PICK j \in Jobs : /\ j.kind \in Kinds /\ j.at = "get" /\ j.flow \in Flows
                            /\ j.todo = {}
                            /\ Begin(w, j)
      BY <1>1, RequestForm
    <2>2. Opens(w, j) /\ job[w] = NoJob /\ served' \subseteq served /\ followed' \subseteq followed
      BY <2>1, BeginForm
    <2>3. JobOK(j)
      BY <2>1 DEF JobOK, Kinds
    <2>4. JobOK(job'[w]) /\ Sides(w)
      BY <2>2, <2>3, LikeOK, OpenSides DEF Opens
    <2>5. w \notin Busy /\ UNCHANGED task
      BY <1>1, <2>2 DEF JobsOK, Request
    <2>6. StoreOK'
      BY <1>1, <2>2, RequestForm DEF Request, StoreOK, JobsOK
    <2> QED BY <2>2, <2>4, <2>5, <2>6, JobsSides, BusySides, JobsParts DEF Opens
  <1>2. CASE HandlerGet(w)
    <2>1. JobOK(job[w]) /\ job[w] # NoJob /\ job[w].at = "get" /\ w \notin Busy
      BY <1>2, GetForm, JobType DEF JobsOK
    <2>2. UNCHANGED task /\ StoreOK'
      BY <1>2 DEF HandlerGet, StoreOK, JobsOK
    <2>3. CASE Ends(w)
      BY <2>1, <2>2, <2>3, JobsByEnd
    <2>4. CASE job[w].kind = "offline" /\ GoesTo(w, "read")
      BY <2>1, <2>2, <2>4, JobsByBecome DEF JobOK, GoesTo, Becomes
    <2>5. CASE \E d \in Candidates(job[w], doc[job[w].flow]) :
                   d \in Dsls /\ Becomes(w, "check", job[w].flow, d, job[w].seen, job[w].todo)
      BY <2>1, <2>2, <2>5, JobsByBecome DEF JobOK, Becomes
    <2> QED BY <1>2, <2>3, <2>4, <2>5, GetForm
  <1>3. CASE HandlerCheck(w)
    <2>1. JobOK(job[w]) /\ job[w] # NoJob /\ job[w].at = "check" /\ w \notin Busy
      BY <1>3, CheckForm, JobType DEF JobsOK
    <2>2. UNCHANGED task /\ StoreOK'
      BY <1>3 DEF HandlerCheck, StoreOK, JobsOK
    <2>3. CASE Ends(w)
      BY <2>1, <2>2, <2>3, JobsByEnd
    <2>4. CASE GoesTo(w, "read")
      BY <2>1, <2>2, <2>4, JobsByBecome DEF JobOK, GoesTo, Becomes
    <2> QED BY <1>3, <2>3, <2>4, CheckForm
  <1>4. CASE StoreRead(w)
    <2>1. JobOK(job[w]) /\ job[w] # NoJob /\ job[w].at = "read" /\ w \notin Busy
      BY <1>4, ReadForm, JobType DEF JobsOK
    <2>2. UNCHANGED task /\ StoreOK'
      BY <1>4 DEF StoreRead, StoreOK, JobsOK
    <2>3. CASE Ends(w)
      BY <2>1, <2>2, <2>3, JobsByEnd
    <2>4. CASE GoesTo(w, "sync")
      BY <2>1, <2>2, <2>4, JobsByBecome DEF JobOK, GoesTo, Becomes
    <2>5. CASE /\ ~Refused(job[w], doc[job[w].flow])
               /\ job[w].kind = "rollback" => job[w].version # Version(doc[job[w].flow])
               /\ doc[job[w].flow] \in FlowRecords
               /\ Becomes(w, "write", job[w].flow, job[w].dsl, doc[job[w].flow], job[w].todo)
      <3>1. ~Refused(job'[w], doc[job[w].flow])
        BY <2>5 DEF Becomes, Refused
      <3>2. JobOK(job'[w])
        BY <2>1, <2>5, <3>1 DEF JobOK, Becomes
      <3> QED BY <2>1, <2>2, <2>5, <3>2, JobsByBecome
    <2> QED BY <1>4, <2>3, <2>4, <2>5, ReadForm
  <1>5. CASE StoreWrite(w)
    <2>1. JobOK(job[w]) /\ job[w] # NoJob /\ job[w].at = "write" /\ w \notin Busy
          /\ GoesTo(w, "sync") /\ doc' \in [Flows -> FlowRecords]
      BY <1>5, WriteForm, JobType DEF JobsOK
    <2>2. UNCHANGED task /\ StoreOK'
      BY <1>5, <2>1 DEF StoreWrite, StoreOK, JobsOK
    <2> QED BY <2>1, <2>2, JobsByBecome DEF JobOK, GoesTo, Becomes
  <1>6. CASE HandlerSync(w)
    <2> DEFINE f == job[w].flow
               d == doc[f].live
    <2>1. /\ JobOK(job[w]) /\ job[w] # NoJob /\ job[w].kind # "boot"
          /\ f \in Flows /\ d \in Dsls \cup {NoDsl} /\ SyncBegin(w, f, d)
          /\ Becomes(w, "syncing", f, d, job[w].seen, job[w].todo)
      BY <1>6, SyncForm, JobType
    <2>2. StoreOK'
      BY <1>6 DEF HandlerSync, StoreOK, JobsOK
    <2>3. Sides(w) /\ JobOK(job'[w])
      BY <2>1, BecomeSides DEF JobOK, Becomes
    <2>4. /\ job'[w] # NoJob /\ job'[w].at = "syncing" /\ job'[w].flow = f
          /\ job' \in [Workers -> Jobs \cup {NoJob}]
      BY <2>1, JobNotNull DEF Becomes
    <2> HIDE DEF f, d
    <2> QED BY <2>1, <2>2, <2>3, <2>4, JobsSides, BusySync, JobsParts
  <1>7. CASE HandlerReturn(w)
    <2>1. JobOK(job[w]) /\ job[w] # NoJob /\ w \notin Busy /\ job[w].kind # "boot"
          /\ job[w].flow \in Flows
      BY <1>7, ReturnForm, JobType DEF JobsOK
    <2>2. UNCHANGED task /\ StoreOK'
      BY <1>7, <2>1 DEF HandlerReturn, StoreOK, JobsOK, Succeeded, Alone
    <2>3. CASE Ends(w)
      BY <2>1, <2>2, <2>3, JobsByEnd
    <2>4. CASE GoesTo(w, "mqtt")
      BY <2>1, <2>2, <2>4, JobsByBecome DEF JobOK, GoesTo, Becomes
    <2> QED BY <1>7, <2>3, <2>4, ReturnForm
  <1>8. CASE HandlerMqtt(w)
    <2>1. JobOK(job[w]) /\ job[w] # NoJob /\ job[w].at = "mqtt" /\ w \notin Busy
          /\ job[w].flow \in Flows /\ job[w].dsl \in Dsls \cup {NoDsl} /\ Ends(w)
      BY <1>8, MqttForm, JobType DEF JobsOK
    <2>2. UNCHANGED task /\ StoreOK'
      BY <1>8, <2>1, MountType DEF HandlerMqtt, StoreOK, JobsOK
    <2> QED BY <2>1, <2>2, JobsByEnd
  <1> QED BY <1>1, <1>2, <1>3, <1>4, <1>5, <1>6, <1>7, <1>8 DEF Handler

LEMMA BootJobs ==
    ASSUME TypeOK, JobsOK, NEW w \in Workers, StartAll(w)
    PROVE  JobsOK'
  <1>0. NoFlow \notin Flows
    BY NullsAssumption
  <1>1. CASE BootBegin(w)
    <2>1. PICK j \in Jobs : /\ j.kind = "boot" /\ j.at = "sync" /\ j.flow = NoFlow
                            /\ Begin(w, j)
      BY <1>1, BootBeginForm
    <2>2. Opens(w, j) /\ job[w] = NoJob /\ served' \subseteq served /\ followed' \subseteq followed
      BY <2>1, BeginForm
    <2>3. JobOK(j)
      BY <1>0, <2>1 DEF JobOK
    <2>4. JobOK(job'[w]) /\ Sides(w)
      BY <2>2, <2>3, LikeOK, OpenSides DEF Opens
    <2>5. w \notin Busy /\ UNCHANGED task
      BY <1>1, <2>2 DEF JobsOK, BootBegin
    <2>6. StoreOK'
      BY <1>1, <2>2 DEF BootBegin, StoreOK, JobsOK
    <2> QED BY <2>2, <2>4, <2>5, <2>6, JobsSides, BusySides, JobsParts DEF Opens
  <1>2. CASE BootSync(w)
    <2>1. /\ JobOK(job[w]) /\ job[w] # NoJob /\ job[w].kind = "boot"
          /\ job[w].todo \subseteq Flows \X Dsls
      BY <1>2, BootSyncForm, JobType
    <2>2. PICK p \in job[w].todo :
              /\ SyncBegin(w, p[1], p[2])
              /\ Becomes(w, "syncing", p[1], job[w].dsl, job[w].seen, job[w].todo \ {p})
      BY <1>2, BootSyncForm
    <2>3. p[1] \in Flows /\ p[2] \in Dsls \cup {NoDsl}
      BY <2>1, <2>2
    <2>4. StoreOK'
      BY <1>2 DEF BootSync, StoreOK, JobsOK
    <2>5. Sides(w) /\ JobOK(job'[w])
      BY <2>1, <2>2, <2>3, BecomeSides DEF JobOK, Becomes
    <2>6. /\ job'[w] # NoJob /\ job'[w].at = "syncing" /\ job'[w].flow = p[1]
          /\ job' \in [Workers -> Jobs \cup {NoJob}]
      BY <2>2, JobNotNull DEF Becomes
    <2> QED BY <2>2, <2>3, <2>4, <2>5, <2>6, JobsSides, BusySync, JobsParts
  <1>3. CASE BootNext(w)
    <2>1. JobOK(job[w]) /\ job[w] # NoJob /\ w \notin Busy /\ job[w].kind = "boot"
          /\ Becomes(w, "sync", NoFlow, job[w].dsl, job[w].seen, job[w].todo)
          /\ job[w].flow \in Flows
      BY <1>3, BootNextForm, JobType
    <2>2. UNCHANGED task /\ StoreOK'
      BY <1>3, <2>1 DEF BootNext, StoreOK, JobsOK, Succeeded, Alone
    <2> QED BY <1>0, <2>1, <2>2, JobsByBecome DEF JobOK, Becomes
  <1>4. CASE BootMqtt(w)
    <2>1. /\ JobOK(job[w]) /\ job[w] # NoJob /\ job[w].at = "sync" /\ job[w].kind = "boot"
          /\ w \notin Busy
      BY <1>4, BootMqttForm, JobType DEF JobsOK
    <2>2. PICK j \in Jobs : /\ j.kind = "boot" /\ j.at = "mqtt" /\ j.flow = job[w].flow
                            /\ Opens(w, j)
      BY <1>4, BootMqttForm
    <2>3. JobOK(j)
      BY <2>1, <2>2 DEF JobOK
    <2>4. JobOK(job'[w]) /\ Sides(w)
      BY <2>2, <2>3, LikeOK, OpenSides DEF Opens
    <2>5. UNCHANGED task /\ StoreOK'
      BY <1>4 DEF BootMqtt, StoreOK, JobsOK
    <2> QED BY <2>1, <2>2, <2>4, <2>5, JobsSides, BusySides, JobsParts DEF Opens
  <1>5. CASE BootMqttSync(w)
    <2>1. /\ JobOK(job[w]) /\ job[w] # NoJob /\ job[w].at = "mqtt" /\ job[w].kind = "boot"
          /\ job[w].todo \subseteq Flows \X Dsls /\ w \notin Busy
      BY <1>5, BootMqttSyncForm, JobType DEF JobsOK
    <2>2. PICK p \in job[w].todo :
              /\ MountsMqtt(w, p[1], p[2])
              /\ Becomes(w, "mqtt", job[w].flow, job[w].dsl, job[w].seen, job[w].todo \ {p})
      BY <1>5, BootMqttSyncForm
    <2>3. p[1] \in Flows /\ p[2] \in Dsls \cup {NoDsl}
      BY <2>1, <2>2
    <2>4. UNCHANGED task /\ StoreOK'
      BY <1>5, <2>2, <2>3, MountType DEF BootMqttSync, StoreOK, JobsOK
    <2> QED BY <2>1, <2>2, <2>4, JobsByBecome DEF JobOK, Becomes
  <1>6. CASE BootEnd(w)
    <2>1. JobOK(job[w]) /\ job[w] # NoJob /\ job[w].at = "mqtt" /\ w \notin Busy /\ Ends(w)
      BY <1>6, BootEndForm, JobType DEF JobsOK
    <2>2. UNCHANGED task /\ StoreOK'
      BY <1>6 DEF BootEnd, StoreOK, JobsOK
    <2> QED BY <2>1, <2>2, JobsByEnd
  <1> QED BY <1>1, <1>2, <1>3, <1>4, <1>5, <1>6 DEF StartAll

LEMMA SyncingJobs ==
    ASSUME TypeOK, JobsOK, NEW w \in Workers, Syncing(w)
    PROVE  JobsOK' /\ Busy' \subseteq Busy /\ UNCHANGED storeVars
  <1>1. /\ w \in Busy
        /\ \A u \in Workers \ {w} : task'[u] = task[u]
        /\ \/ task'[w].pc \in Outcomes
           \/ GoesOn(w)
    BY StepTask DEF Syncing
  <1>2. Busy' \subseteq Busy /\ \A u \in Busy' : task'[u].flow = task[u].flow
    BY <1>1 DEF Busy, GoesOn
  <1> QED BY <1>2 DEF Syncing, storeVars, JobsOK, Underway

LEMMA DraftJobs ==
    ASSUME TypeOK, JobsOK, SaveDraft
    PROVE  JobsOK'
  <1>1. StoreOK' /\ UNCHANGED task
    BY DraftForm DEF SaveDraft, StoreOK, JobsOK
  <1>2. \A v \in Underway' : v \in Underway /\ JobOK(job'[v])
    BY DraftForm, LikeOK DEF Underway, Stays, JobsOK
  <1>3. BusyWaits'
    BY <1>1, DraftForm, JobNotNull DEF BusyWaits, Busy, JobsOK, Stays, Like, Underway
  <1> QED BY <1>1, <1>2, <1>3, DraftForm, JobsParts

LEMMA RestartJobs ==
    ASSUME JobsOK, Restart
    PROVE  /\ JobsOK' /\ Init'
           /\ Underway' = {} /\ served' = {} /\ followed' = {}
  <1>1. Init'
    BY DEF Restart, Init
  <1>2. Underway' = {} /\ served' = {} /\ followed' = {}
    BY DEF Restart, Underway
  <1>3. StoreOK'
    BY MaxCallsAssumption DEF Restart, StoreOK, JobsOK
  <1>4. Busy' = {}
    BY DEF Restart, Busy, Over, Outcomes
  <1>5. job' \in [Workers -> Jobs \cup {NoJob}]
    BY DEF Restart
  <1> QED BY <1>1, <1>2, <1>3, <1>4, <1>5, JobsParts DEF BusyWaits

LEMMA JobsKept == TypeOK /\ JobsOK /\ [PublishingNext]_allVars => JobsOK'
  <1>1. CASE UNCHANGED allVars
    BY <1>1 DEF allVars, JobsOK, Underway, Busy
  <1> QED BY <1>1, HandlerJobs, BootJobs, SyncingJobs, DraftJobs, RestartJobs DEF PublishingNext

LEMMA JobsStart == PublishingInit => JobsOK
  <1> SUFFICES ASSUME PublishingInit PROVE JobsOK
    OBVIOUS
  <1>1. doc \in [Flows -> FlowRecords]
    BY DatabasesAssumption DEF PublishingInit
  <1>2. Busy = {} /\ Underway = {}
    BY DEF PublishingInit, Init, Busy, Underway, Over, Outcomes
  <1> QED BY <1>1, <1>2, MaxCallsAssumption DEF PublishingInit, JobsOK

----------------------------------------------------------------------------
(* The route table: its invariants carry over.                             *)

LEMMA NextKept == TypeOK /\ Marks /\ NextBounded /\ [Next]_vars => NextBounded'
  <1> SUFFICES ASSUME TypeOK, Marks, NextBounded, [Next]_vars,
                      NEW v \in Workers, task'[v].pc = "add"
               PROVE  task'[v].next <= Len(task'[v].dsl) + 1
    BY DEF NextBounded
  <1>1. CASE task'[v] = task[v]
    BY <1>1 DEF NextBounded
  <1>2. ASSUME NEW w \in Workers, NEW f \in Flows, NEW d \in Dsls \cup {NoDsl}, SyncBegin(w, f, d)
        PROVE  task'[v].next <= Len(task'[v].dsl) + 1
    BY <1>2, BeginTask DEF NextBounded
  <1>3. ASSUME SyncStep(v) PROVE task'[v].next <= Len(task'[v].dsl) + 1
    <2>1. GoesOn(v)
      BY <1>3, StepTask DEF Outcomes
    <2>2. /\ task[v].next \in Nat /\ task'[v].dsl = task[v].dsl
          /\ task[v].pc = "remove" => task[v].next = 1
      BY <2>1 DEF TypeOK, Tasks, GoesOn, Marks
    <2>3. ~IdleStep(v)
      BY <1>3, StepTask
    <2>4. CASE RemoveStep(v)
      <3>1. task[v].pc = "remove" /\ task'[v].next = task[v].next
        BY <1>3, <2>4, StepTask
      <3>2. task[v].dsl \in Dsls
        <4>1. task'[v].pc # "add" \/ task[v].dsl # NoDsl
          BY <2>4, <3>1 DEF RemoveStep, SyncRemove, SyncCleanup, SyncRemovePanics, Finish, Over,
                            TypeOK
        <4> QED BY <4>1 DEF TypeOK, Tasks
      <3>3. Len(task[v].dsl) \in Nat
        BY <3>2, RoutersAssumption
      <3> QED BY <2>2, <3>1, <3>3
    <2>5. CASE MountStep(v)
      <3>1. /\ task[v].next \in DOMAIN task[v].dsl /\ task[v].dsl \in Dsls
            /\ task'[v].next = task[v].next + 1
        <4>1. Adding(v)
          BY <2>5 DEF MountStep, Rebind, AddRoute
        <4>2. task' = [task EXCEPT ![v].next = @ + 1]
          BY <2>5 DEF MountStep, Rebind, AddRoute, Finish, Over, TypeOK
        <4> QED BY <4>1, <4>2, RouterType DEF TypeOK, Tasks
      <3>2. task[v].next \in 1..Len(task[v].dsl) /\ Len(task[v].dsl) \in Nat
        BY <3>1, RoutersAssumption
      <3> QED BY <2>2, <3>1, <3>2
    <2> QED BY <1>3, <2>3, <2>4, <2>5 DEF SyncStep, IdleStep, RemoveStep, MountStep
  <1>4. ASSUME NEW w \in Workers \ {v}, SyncStep(w) PROVE task'[v] = task[v]
    BY <1>4, StepTask
  <1> QED BY <1>1, <1>2, <1>3, <1>4 DEF Next, vars

LEMMA TableStart == Init => TableInv
  <1>1. Init => NextBounded
    BY DEF Init, NextBounded, Over
  <1> QED BY <1>1, TypeStart, ListenersStart, TlsStart, IndexStart, MuxStart, MarksStart,
             SoloStart, ReadyStart DEF TableInv

LEMMA TableKept == TableInv /\ [Next]_vars => TableInv'
  <1>1. TableInv /\ [Next]_vars => TypeOK' /\ ListenerInUse'
    BY TypeKept, ListenersKept DEF TableInv
  <1> QED BY <1>1, TlsKept, IndexKept, MuxKept, MarksKept, SoloKept, ReadyKept, NextKept
          DEF TableInv

LEMMA TableSteps ==
    ASSUME JobsOK, [PublishingNext]_allVars
    PROVE  [Next]_vars \/ Restart
  <1>1. ASSUME NEW w \in Workers, Handler(w) PROVE [Next]_vars
    <2>1. CASE HandlerSync(w)
      BY <2>1, SyncForm DEF Next
    <2> QED BY <1>1, <2>1 DEF Handler, Request, HandlerGet, HandlerCheck, StoreRead, StoreWrite,
                              HandlerReturn, HandlerMqtt, vars, tableVars
  <1>2. ASSUME NEW w \in Workers, StartAll(w) PROVE [Next]_vars
    <2>1. CASE BootSync(w)
      <3>1. PICK p \in job[w].todo : SyncBegin(w, p[1], p[2])
        BY <2>1, BootSyncForm
      <3>2. p[1] \in Flows /\ p[2] \in Dsls \cup {NoDsl}
        BY <2>1, <3>1, BootSyncForm
      <3> QED BY <3>1, <3>2 DEF Next
    <2> QED BY <1>2, <2>1 DEF StartAll, BootBegin, BootNext, BootMqtt, BootMqttSync, BootEnd,
                              vars, tableVars
  <1>3. ASSUME NEW w \in Workers, Syncing(w) PROVE [Next]_vars
    BY <1>3 DEF Syncing, Next
  <1>4. CASE SaveDraft \/ UNCHANGED allVars
    BY <1>4 DEF SaveDraft, allVars, vars, tableVars
  <1> QED BY <1>1, <1>2, <1>3, <1>4 DEF PublishingNext

\* The invariants of the table and of the jobs together.
CoreInv == TableInv /\ JobsOK

LEMMA CoreStart == PublishingInit => CoreInv
  BY TableStart, JobsStart DEF PublishingInit, CoreInv

LEMMA CoreKept == CoreInv /\ [PublishingNext]_allVars => CoreInv'
  <1>1. CoreInv /\ [PublishingNext]_allVars => JobsOK' /\ ([Next]_vars \/ (Restart /\ Init'))
    BY JobsKept, TableSteps, RestartJobs DEF CoreInv, TableInv
  <1>2. Init' => TableInv'
    BY TableStart, PTL
  <1> QED BY <1>1, <1>2, TableKept DEF CoreInv

\* Every job is one the code can be in, and a goroutine inside SyncFlow has one that waits.
THEOREM PublishingTypeCorrect == PublishingSpec => []PublishingTypeOK
  <1>1. CoreInv => PublishingTypeOK
    BY DEF CoreInv, TableInv, JobsOK, PublishingTypeOK
  <1> QED BY <1>1, CoreStart, CoreKept, PTL DEF PublishingSpec

\* Publishing leaves every invariant of the route table in place, across crashes too.
THEOREM TableCarried == PublishingSpec => []TableInv
  <1>1. CoreInv => TableInv
    BY DEF CoreInv
  <1> QED BY <1>1, CoreStart, CoreKept, PTL DEF PublishingSpec

----------------------------------------------------------------------------
(* Jobs that have their flows to themselves.                               *)

\* A job goes on, or ends, on no flow it was not on.
Narrows(w) ==
    /\ w \in Underway
    /\ Others(w)
    /\ job'[w] # NoJob => /\ job'[w].marks = job[w].marks
                          /\ \A f \in Flows : On(job'[w], f) => On(job[w], f)

LEMMA EndNarrows ==
    ASSUME NEW w \in Workers, job[w] # NoJob, Ends(w)
    PROVE  Narrows(w)
  BY DEF Ends, Narrows, Underway

LEMMA BecomeNarrows ==
    ASSUME NEW w \in Workers, NEW x, NEW f, NEW d, NEW r, NEW t, job[w] # NoJob,
           Becomes(w, x, f, d, r, t), t \subseteq job[w].todo,
           f \in Flows => On(job[w], f)
    PROVE  Narrows(w)
  BY DEF Becomes, Narrows, Underway, On

LEMMA GoesNarrows ==
    ASSUME NEW w \in Workers, NEW x, job[w] # NoJob, GoesTo(w, x)
    PROVE  Narrows(w)
  BY BecomeNarrows DEF GoesTo, On

\* A step of a handler or of StartAll opens a job or narrows one.
LEMMA WorkerSteps ==
    ASSUME JobsOK, NEW w \in Workers, Handler(w) \/ StartAll(w)
    PROVE  Narrows(w) \/ \E j : Opens(w, j)
  <1>0. NoFlow \notin Flows
    BY NullsAssumption
  <1>1. CASE Request(w)
    BY <1>1, RequestForm, BeginForm
  <1>2. CASE HandlerGet(w)
    <2>1. job[w] # NoJob
      BY <1>2, GetForm
    <2>2. CASE \E d \in Candidates(job[w], doc[job[w].flow]) :
                   Becomes(w, "check", job[w].flow, d, job[w].seen, job[w].todo)
      BY <2>1, <2>2, BecomeNarrows DEF On
    <2> QED BY <1>2, <2>1, <2>2, GetForm, EndNarrows, GoesNarrows
  <1>3. CASE HandlerCheck(w)
    BY <1>3, CheckForm, EndNarrows, GoesNarrows
  <1>4. CASE StoreRead(w)
    <2>1. job[w] # NoJob
      BY <1>4, ReadForm
    <2>2. CASE Becomes(w, "write", job[w].flow, job[w].dsl, doc[job[w].flow], job[w].todo)
      BY <2>1, <2>2, BecomeNarrows DEF On
    <2> QED BY <1>4, <2>1, <2>2, ReadForm, EndNarrows, GoesNarrows
  <1>5. CASE StoreWrite(w)
    BY <1>5, WriteForm, GoesNarrows
  <1>6. CASE HandlerSync(w)
    <2>1. /\ job[w] # NoJob
          /\ Becomes(w, "syncing", job[w].flow, doc[job[w].flow].live, job[w].seen, job[w].todo)
      BY <1>6, SyncForm
    <2> QED BY <2>1, BecomeNarrows DEF On
  <1>7. CASE HandlerReturn(w)
    BY <1>7, ReturnForm, EndNarrows, GoesNarrows
  <1>8. CASE HandlerMqtt(w)
    BY <1>8, MqttForm, EndNarrows
  <1>9. CASE BootBegin(w)
    BY <1>9, BootBeginForm, BeginForm
  <1>10. CASE BootSync(w)
    <2>1. PICK p \in job[w].todo :
              Becomes(w, "syncing", p[1], job[w].dsl, job[w].seen, job[w].todo \ {p})
      BY <1>10, BootSyncForm
    <2>2. job[w] # NoJob /\ On(job[w], p[1])
      BY <1>10, <2>1, BootSyncForm DEF On
    <2> QED BY <2>1, <2>2, BecomeNarrows
  <1>11. CASE BootNext(w)
    <2>1. job[w] # NoJob /\ Becomes(w, "sync", NoFlow, job[w].dsl, job[w].seen, job[w].todo)
      BY <1>11, BootNextForm
    <2> QED BY <1>0, <2>1, BecomeNarrows
  <1>12. CASE BootMqtt(w)
    BY <1>12, BootMqttForm
  <1>13. CASE BootMqttSync(w)
    <2>1. PICK p \in job[w].todo :
              Becomes(w, "mqtt", job[w].flow, job[w].dsl, job[w].seen, job[w].todo \ {p})
      BY <1>13, BootMqttSyncForm
    <2>2. job[w] # NoJob
      BY <1>13, BootMqttSyncForm
    <2> QED BY <2>1, <2>2, BecomeNarrows DEF On
  <1>14. CASE BootEnd(w)
    BY <1>14, BootEndForm, EndNarrows
  <1> QED BY <1>1, <1>2, <1>3, <1>4, <1>5, <1>6, <1>7, <1>8, <1>9, <1>10, <1>11, <1>12, <1>13,
             <1>14 DEF Handler, StartAll

LEMMA LikeOn ==
    ASSUME NEW j, NEW k, Like(k, j)
    PROVE  \A f : On(k, f) <=> On(j, f)
  BY DEF Like, On

\* The other jobs go on as they were.
LEMMA WorkerSides ==
    ASSUME JobsOK, NEW w \in Workers, Handler(w) \/ StartAll(w),
           NEW v \in Workers \ {w}, job'[v] # NoJob
    PROVE  v \in Underway /\ Stays(v) /\ Like(job'[v], job[v])
  <1>1. CASE Narrows(w)
    <2>1. job'[v] = job[v] /\ v \in Underway
      BY <1>1 DEF Narrows, Others, Underway
    <2> QED BY <2>1, JobType DEF Stays, Like, Underway
  <1>2. CASE \E j : Opens(w, j)
    BY <1>2 DEF Opens, Stays
  <1> QED BY <1>1, <1>2, WorkerSteps

\* The steps that open no job and narrow none leave every job on its flows.
LEMMA RestSteps ==
    ASSUME JobsOK, SaveDraft \/ (\E w \in Workers : Syncing(w)) \/ UNCHANGED allVars
    PROVE  Underway' = Underway /\ \A v \in Underway : Stays(v)
  <1>1. CASE SaveDraft
    BY <1>1, DraftForm, JobNotNull DEF Underway, Stays, Like
  <1>2. CASE UNCHANGED job
    BY <1>2, JobType DEF Underway, Stays, Like
  <1> QED BY <1>1, <1>2 DEF Syncing, storeVars, allVars

LEMMA AloneStays ==
    ASSUME AloneExact, Underway' \subseteq Underway,
           \A v \in Underway' : /\ job'[v].marks \subseteq job[v].marks
                                /\ \A f \in Flows : On(job'[v], f) => On(job[v], f)
    PROVE  AloneExact'
  <1> SUFFICES ASSUME NEW w \in Underway', "alone" \in job'[w].marks,
                      NEW u \in Underway' \ {w}, NEW f \in Flows, On(job'[u], f), On(job'[w], f)
               PROVE  FALSE
    BY DEF AloneExact, Overlap
  <1>1. "alone" \in job[w].marks /\ On(job[u], f) /\ On(job[w], f)
    OBVIOUS
  <1> QED BY <1>1 DEF AloneExact, Overlap

LEMMA AloneOpens ==
    ASSUME JobsOK, AloneExact, NEW w \in Workers, NEW j, Opens(w, j)
    PROVE  AloneExact'
  <1> SUFFICES ASSUME NEW v \in Underway', "alone" \in job'[v].marks,
                      NEW u \in Underway' \ {v}, NEW f \in Flows, On(job'[u], f), On(job'[v], f)
               PROVE  FALSE
    BY DEF AloneExact, Overlap
  <1>1. Underway' = Underway \cup {w} /\ Like(job'[w], j)
        /\ \A x \in Underway \ {w} : Stays(x)
    BY OpenSides DEF Opens
  <1>2. \A x \in Underway \ {w} : On(job'[x], f) <=> On(job[x], f)
    BY <1>1, LikeOn DEF Stays
  <1>3. On(job'[w], f) <=> On(j, f)
    BY <1>1, LikeOn
  <1>4. CASE v = w
    <2>1. u \in Underway \ {w} /\ ~Overlap(job[u], j)
      BY <1>1, <1>4 DEF Opens
    <2> QED BY <1>2, <1>3, <1>4, <2>1 DEF Overlap
  <1>5. CASE u = w
    <2>1. v \in Underway \ {w} /\ ~Overlap(job[v], j)
      BY <1>1, <1>5 DEF Opens
    <2> QED BY <1>2, <1>3, <1>5, <2>1 DEF Overlap
  <1>6. CASE u # w /\ v # w
    <2>1. v \in Underway \ {w} /\ u \in Underway \ {w} /\ "alone" \in job[v].marks
      BY <1>1, <1>6 DEF Stays
    <2> QED BY <1>2, <2>1 DEF AloneExact, Overlap
  <1> QED BY <1>4, <1>5, <1>6

LEMMA AloneKept == JobsOK /\ AloneExact /\ [PublishingNext]_allVars => AloneExact'
  <1> SUFFICES ASSUME JobsOK, AloneExact, [PublishingNext]_allVars PROVE AloneExact'
    OBVIOUS
  <1>1. ASSUME NEW w \in Workers, Handler(w) \/ StartAll(w) PROVE AloneExact'
    <2>1. CASE Narrows(w)
      BY <2>1, AloneStays DEF Narrows, Others, Underway
    <2> QED BY <1>1, <2>1, WorkerSteps, AloneOpens
  <1>2. CASE SaveDraft \/ (\E w \in Workers : Syncing(w)) \/ UNCHANGED allVars
    <2>1. Underway' = Underway /\ \A v \in Underway : Stays(v)
      BY <1>2, RestSteps
    <2> QED BY <2>1, LikeOn, AloneStays DEF Stays
  <1>3. CASE Restart
    BY <1>3, RestartJobs DEF AloneExact
  <1> QED BY <1>1, <1>2, <1>3 DEF PublishingNext

\* A flow that a job has to itself keeps its publication, but for the job's own update.
LEMMA AloneLive ==
    ASSUME JobsOK, AloneExact, [PublishingNext]_allVars,
           NEW u \in Underway, "alone" \in job[u].marks, ~StoreWrite(u),
           NEW f \in Flows, On(job[u], f)
    PROVE  doc'[f].live = doc[f].live
  <1>1. CASE UNCHANGED doc
    BY <1>1
  <1>2. ASSUME NEW w \in Workers, StoreWrite(w) PROVE doc'[f].live = doc[f].live
    <2>1. w \in Underway \ {u} /\ job[w].flow \in Flows /\ On(job[w], job[w].flow)
      BY <1>2, WriteForm DEF Underway, On
    <2>2. f # job[w].flow
      BY <2>1 DEF AloneExact, Overlap
    <2> QED BY <1>2, <2>2, WriteForm
  <1>3. CASE SaveDraft
    BY <1>3, DraftForm
  <1> QED BY <1>1, <1>2, <1>3 DEF PublishingNext, Handler, StartAll, Request, HandlerGet,
          HandlerCheck, StoreRead, HandlerSync, HandlerReturn, HandlerMqtt, BootBegin, BootSync,
          BootNext, BootMqtt, BootMqttSync, BootEnd, Syncing, storeVars, Restart, allVars

\* Listings have every flow once.
LEMMA OnceKept == TypeOK /\ JobsOK /\ TodoOnce /\ [PublishingNext]_allVars => TodoOnce'
  <1> DEFINE Once(j) == \A p \in j.todo : /\ p[1] # j.flow
                                          /\ \A q \in j.todo : p[1] = q[1] => p = q
  <1> SUFFICES ASSUME TypeOK, JobsOK, TodoOnce, [PublishingNext]_allVars,
                      NEW v \in Workers, job'[v] # NoJob
               PROVE  Once(job'[v])
    BY DEF TodoOnce, Underway
  <1>0. NoFlow \notin Flows
    BY NullsAssumption
  <1>1. /\ v \in Underway => Once(job[v])
        /\ \A u \in Underway : job[u].todo \subseteq Flows \X Dsls
    BY JobType DEF TodoOnce, Jobs, Underway
  <1>2. \A j, k : Like(k, j) /\ Once(j) => Once(k)
    BY DEF Like
  <1>3. \A j : j.todo = {} => Once(j)
    OBVIOUS
  <1>4. \A j : j.todo = Listing /\ j.flow \notin Flows => Once(j)
    BY DEF Listing
  <1> HIDE DEF Once
  <1>5. CASE v \in Underway /\ Like(job'[v], job[v])
    BY <1>1, <1>2, <1>5
  <1>6. ASSUME Handler(v) PROVE Once(job'[v])
    <2>1. JobOK(job'[v]) /\ job'[v].kind # "boot"
      <3>1. JobsOK'
        BY JobsKept
      <3>2. JobOK(job'[v])
        BY <3>1 DEF JobsOK, Underway
      <3>3. job'[v].kind # "boot"
        <4>1. CASE Request(v)
          BY <4>1, RequestForm, BeginForm DEF Opens, Like, Kinds
        <4>2. CASE StoreWrite(v)
          BY <4>2, WriteForm DEF GoesTo, Becomes
        <4>3. CASE HandlerSync(v)
          BY <4>3, SyncForm DEF GoesTo, Becomes
        <4>4. CASE HandlerReturn(v) \/ HandlerMqtt(v)
          BY <4>4, ReturnForm, MqttForm DEF GoesTo, Becomes, Ends
        <4>5. CASE HandlerGet(v) \/ HandlerCheck(v) \/ StoreRead(v)
          <5>1. job[v].kind # "boot"
            BY <4>5, GetForm, CheckForm, ReadForm, JobType DEF JobOK
          <5>2. job'[v].kind = job[v].kind
            BY <4>5, GetForm, CheckForm, ReadForm DEF GoesTo, Becomes, Ends
          <5> QED BY <5>1, <5>2
        <4> QED BY <1>6, <4>1, <4>2, <4>3, <4>4, <4>5 DEF Handler
      <3> QED BY <3>2, <3>3
    <2>2. job'[v].todo = {}
      BY <2>1 DEF JobOK
    <2> QED BY <1>3, <2>2
  <1>7. ASSUME StartAll(v) PROVE Once(job'[v])
    <2>1. CASE BootBegin(v)
      <3>1. PICK j \in Jobs : j.flow = NoFlow /\ j.todo = Listing /\ Begin(v, j)
        BY <2>1, BootBeginForm
      <3>2. Like(job'[v], j)
        BY <3>1, BeginForm DEF Opens
      <3> QED BY <1>0, <1>2, <1>4, <3>1, <3>2
    <2>2. CASE BootSync(v)
      <3>1. v \in Underway
        BY <2>2, BootSyncForm DEF Underway
      <3>2. PICK p \in job[v].todo :
                Becomes(v, "syncing", p[1], job[v].dsl, job[v].seen, job[v].todo \ {p})
        BY <2>2, BootSyncForm
      <3>3. job'[v].flow = p[1] /\ job'[v].todo = job[v].todo \ {p}
        BY <3>2 DEF Becomes
      <3> QED BY <1>1, <3>1, <3>2, <3>3 DEF Once
    <2>3. CASE BootNext(v)
      <3>1. v \in Underway /\ job'[v].flow = NoFlow /\ job'[v].todo = job[v].todo
        BY <2>3, BootNextForm DEF Underway, Becomes
      <3> QED BY <1>0, <1>1, <3>1 DEF Once
    <2>4. CASE BootMqtt(v)
      <3>1. PICK j \in Jobs : j.flow = job[v].flow /\ j.todo = Listing /\ Opens(v, j)
        BY <2>4, BootMqttForm
      <3>2. job[v].flow \notin Flows
        BY <2>4, BootMqttForm, JobType DEF JobOK
      <3> QED BY <1>2, <1>4, <3>1, <3>2 DEF Opens
    <2>5. CASE BootMqttSync(v)
      <3>1. v \in Underway
        BY <2>5, BootMqttSyncForm DEF Underway
      <3>2. PICK p \in job[v].todo :
                Becomes(v, "mqtt", job[v].flow, job[v].dsl, job[v].seen, job[v].todo \ {p})
        BY <2>5, BootMqttSyncForm
      <3>3. job'[v].flow = job[v].flow /\ job'[v].todo = job[v].todo \ {p}
        BY <3>2 DEF Becomes
      <3> QED BY <1>1, <3>1, <3>3 DEF Once
    <2>6. CASE BootEnd(v)
      BY <2>6, BootEndForm DEF Ends
    <2> QED BY <1>7, <2>1, <2>2, <2>3, <2>4, <2>5, <2>6 DEF StartAll
  <1>8. ASSUME NEW w \in Workers \ {v}, Handler(w) \/ StartAll(w)
        PROVE  v \in Underway /\ Like(job'[v], job[v])
    BY <1>8, WorkerSides
  <1>9. CASE SaveDraft \/ (\E w \in Workers : Syncing(w)) \/ UNCHANGED allVars
    BY <1>5, <1>9, RestSteps DEF Stays, Underway
  <1>10. CASE Restart
    BY <1>10, RestartJobs DEF Underway
  <1> QED BY <1>5, <1>6, <1>7, <1>8, <1>9, <1>10 DEF PublishingNext

LEMMA HoldsKept ==
    TypeOK /\ JobsOK /\ AloneExact /\ HoldsLive /\ [PublishingNext]_allVars => HoldsLive'
  <1> SUFFICES ASSUME TypeOK, JobsOK, AloneExact, HoldsLive, [PublishingNext]_allVars,
                      NEW v \in Workers, job'[v] # NoJob, "alone" \in job'[v].marks
               PROVE  /\ job'[v].kind # "boot" /\ job'[v].at \in {"syncing", "mqtt"} =>
                             job'[v].dsl = doc'[job'[v].flow].live
                      /\ \A p \in job'[v].todo : doc'[p[1]].live = p[2]
    BY DEF HoldsLive, Underway
  <1>1. ASSUME v \in Underway, "alone" \in job[v].marks, ~StoreWrite(v)
        PROVE  /\ job[v].kind # "boot" /\ job[v].at \in {"syncing", "mqtt"} =>
                      job[v].dsl = doc'[job[v].flow].live
               /\ \A p \in job[v].todo : doc'[p[1]].live = p[2]
    <2>1. /\ job[v].kind # "boot" => job[v].flow \in Flows
          /\ job[v].todo \subseteq Flows \X Dsls
      BY <1>1, JobType DEF JobOK, Jobs, Underway
    <2>2. \A f \in Flows : On(job[v], f) => doc'[f].live = doc[f].live
      BY <1>1, AloneLive
    <2>3. On(job[v], job[v].flow) /\ \A p \in job[v].todo : On(job[v], p[1])
      BY DEF On
    <2> QED BY <1>1, <2>1, <2>2, <2>3 DEF HoldsLive
  <1>2. ASSUME v \in Underway, Stays(v), ~StoreWrite(v)
        PROVE  /\ job'[v].kind # "boot" /\ job'[v].at \in {"syncing", "mqtt"} =>
                      job'[v].dsl = doc'[job'[v].flow].live
               /\ \A p \in job'[v].todo : doc'[p[1]].live = p[2]
    BY <1>1, <1>2 DEF Stays, Like
  <1>3. JobOK(job'[v])
    <2>1. JobsOK'
      BY JobsKept
    <2> QED BY <2>1 DEF JobsOK, Underway
  <1>4. ASSUME job'[v].kind # "boot", job'[v].at \notin {"syncing", "mqtt"}
        PROVE  /\ job'[v].kind # "boot" /\ job'[v].at \in {"syncing", "mqtt"} =>
                      job'[v].dsl = doc'[job'[v].flow].live
               /\ \A p \in job'[v].todo : doc'[p[1]].live = p[2]
    BY <1>3, <1>4 DEF JobOK
  <1>5. ASSUME job'[v].kind = "boot", \A p \in job'[v].todo : doc'[p[1]].live = p[2]
        PROVE  /\ job'[v].kind # "boot" /\ job'[v].at \in {"syncing", "mqtt"} =>
                      job'[v].dsl = doc'[job'[v].flow].live
               /\ \A p \in job'[v].todo : doc'[p[1]].live = p[2]
    BY <1>5
  <1>6. CASE Request(v)
    BY <1>4, <1>6, RequestForm, BeginForm DEF Opens, Like, Kinds
  <1>7. CASE HandlerGet(v)
    <2>1. job'[v].at \in {"check", "read"} /\ job'[v].kind = job[v].kind
      BY <1>7, GetForm DEF GoesTo, Becomes, Ends
    <2>2. job[v].kind # "boot"
      BY <1>7, GetForm, JobType DEF JobOK
    <2> QED BY <1>4, <2>1, <2>2
  <1>8. CASE HandlerCheck(v)
    <2>1. job'[v].at = "read" /\ job'[v].kind = job[v].kind
      BY <1>8, CheckForm DEF GoesTo, Becomes, Ends
    <2>2. job[v].kind # "boot"
      BY <1>8, CheckForm, JobType DEF JobOK
    <2> QED BY <1>4, <2>1, <2>2
  <1>9. CASE StoreRead(v)
    <2>1. job'[v].at \in {"sync", "write"} /\ job'[v].kind = job[v].kind
      BY <1>9, ReadForm DEF GoesTo, Becomes, Ends
    <2>2. job[v].kind # "boot"
      BY <1>9, ReadForm, JobType DEF JobOK
    <2> QED BY <1>4, <2>1, <2>2
  <1>10. CASE StoreWrite(v)
    <2>1. job'[v].at = "sync" /\ job'[v].kind # "boot"
      BY <1>10, WriteForm DEF GoesTo, Becomes
    <2> QED BY <1>4, <2>1
  <1>11. CASE HandlerSync(v)
    <2>1. /\ job'[v].flow = job[v].flow /\ job'[v].dsl = doc[job[v].flow].live
          /\ job'[v].kind # "boot"
      BY <1>11, SyncForm DEF Becomes
    <2>2. UNCHANGED doc
      BY <1>11 DEF HandlerSync
    <2>3. job'[v].todo = {}
      BY <1>3, <2>1 DEF JobOK
    <2> QED BY <2>1, <2>2, <2>3
  <1>12. CASE HandlerReturn(v)
    <2>1. /\ GoesTo(v, "mqtt") /\ v \in Underway /\ job[v].at = "syncing" /\ job[v].kind # "boot"
      BY <1>12, ReturnForm DEF Ends, Underway
    <2>2. /\ job'[v].kind # "boot" /\ job'[v].dsl = job[v].dsl /\ job'[v].flow = job[v].flow
          /\ "alone" \in job[v].marks
      BY <2>1 DEF GoesTo, Becomes
    <2>3. UNCHANGED doc
      BY <1>12 DEF HandlerReturn
    <2>4. job'[v].todo = {}
      BY <1>3, <2>2 DEF JobOK
    <2> QED BY <2>1, <2>2, <2>3, <2>4 DEF HoldsLive
  <1>13. CASE HandlerMqtt(v) \/ BootEnd(v)
    BY <1>13, MqttForm, BootEndForm DEF Ends
  <1>14. CASE BootBegin(v)
    <2>1. PICK j \in Jobs : j.kind = "boot" /\ j.todo = Listing /\ Begin(v, j)
      BY <1>14, BootBeginForm
    <2>2. Like(job'[v], j)
      BY <2>1, BeginForm DEF Opens
    <2>3. job'[v].kind = "boot" /\ job'[v].todo = Listing /\ UNCHANGED doc
      BY <1>14, <2>1, <2>2 DEF Like, BootBegin
    <2> QED BY <1>5, <2>3, ListingType
  <1>15. CASE BootSync(v)
    <2>1. PICK p \in job[v].todo :
              Becomes(v, "syncing", p[1], job[v].dsl, job[v].seen, job[v].todo \ {p})
      BY <1>15, BootSyncForm
    <2>2. v \in Underway /\ job[v].kind = "boot"
      BY <1>15, BootSyncForm DEF Underway
    <2>3. /\ job'[v].kind = "boot" /\ job'[v].todo \subseteq job[v].todo
          /\ "alone" \in job[v].marks /\ UNCHANGED doc
      BY <1>15, <2>1, <2>2 DEF Becomes, BootSync
    <2> QED BY <1>5, <2>2, <2>3 DEF HoldsLive
  <1>16. CASE BootNext(v)
    <2>1. v \in Underway /\ job[v].kind = "boot"
          /\ Becomes(v, "sync", NoFlow, job[v].dsl, job[v].seen, job[v].todo)
      BY <1>16, BootNextForm DEF Underway
    <2>2. /\ job'[v].kind = "boot" /\ job'[v].todo = job[v].todo
          /\ "alone" \in job[v].marks /\ UNCHANGED doc
      BY <1>16, <2>1 DEF Becomes, BootNext
    <2> QED BY <1>5, <2>1, <2>2 DEF HoldsLive
  <1>17. CASE BootMqtt(v)
    <2>1. PICK j \in Jobs : j.kind = "boot" /\ j.todo = Listing /\ Opens(v, j)
      BY <1>17, BootMqttForm
    <2>2. job'[v].kind = "boot" /\ job'[v].todo = Listing /\ UNCHANGED doc
      BY <1>17, <2>1 DEF Opens, Like, BootMqtt
    <2> QED BY <1>5, <2>2, ListingType
  <1>18. CASE BootMqttSync(v)
    <2>1. PICK p \in job[v].todo :
              Becomes(v, "mqtt", job[v].flow, job[v].dsl, job[v].seen, job[v].todo \ {p})
      BY <1>18, BootMqttSyncForm
    <2>2. v \in Underway /\ job[v].kind = "boot"
      BY <1>18, BootMqttSyncForm DEF Underway
    <2>3. /\ job'[v].kind = "boot" /\ job'[v].todo \subseteq job[v].todo
          /\ "alone" \in job[v].marks /\ UNCHANGED doc
      BY <1>18, <2>1, <2>2 DEF Becomes, BootMqttSync
    <2> QED BY <1>5, <2>2, <2>3 DEF HoldsLive
  <1>19. ASSUME NEW w \in Workers \ {v}, Handler(w) \/ StartAll(w)
         PROVE  v \in Underway /\ Stays(v)
    BY <1>19, WorkerSides
  <1>20. ASSUME SaveDraft \/ (\E w \in Workers : Syncing(w)) \/ UNCHANGED allVars
         PROVE  v \in Underway /\ Stays(v)
    BY <1>20, RestSteps DEF Underway
  <1>21. CASE Restart
    BY <1>21, RestartJobs DEF Underway
  <1> QED
    <2>1. CASE v \in Underway /\ Stays(v)
      BY <1>2, <1>10, <2>1
    <2> QED BY <1>6, <1>7, <1>8, <1>9, <1>10, <1>11, <1>12, <1>13, <1>14, <1>15, <1>16, <1>17,
               <1>18, <1>19, <1>20, <1>21, <2>1 DEF PublishingNext, Handler, StartAll

----------------------------------------------------------------------------
(* What a SyncFlow mounts.                                                 *)

LEMMA AgreesStays ==
    ASSUME NEW f \in Flows, Agrees(f), SameRoutes(f), doc'[f].live = doc[f].live
    PROVE  Agrees(f)'
  <1>1. Owned(f)' = Owned(f)
    BY DEF Owned, SameRoutes
  <1>2. \A ap \in Owned(f) : routes'[ap[1]][ap[2]] = routes[ap[1]][ap[2]]
    BY DEF Owned, SameRoutes
  <1> QED BY <1>1, <1>2 DEF Agrees

LEMMA AgreesUnchanged ==
    ASSUME NEW f \in Flows, Agrees(f), UNCHANGED tableVars, doc'[f].live = doc[f].live
    PROVE  Agrees(f)'
  <1>1. SameRoutes(f)
    BY DEF SameRoutes, Owns, tableVars
  <1> QED BY <1>1, AgreesStays

\* A call leaves the routes of other flows.
LEMMA OthersRoutes ==
    ASSUME TypeOK, ListenerInUse, IndexExact, NEW w \in Workers, SyncStep(w), history' = "clean",
           NEW g \in Flows, g # task[w].flow
    PROVE  SameRoutes(g) /\ history = "clean"
  <1>1. CASE RemoveStep(w)
    <2>1. task[w].flow \in Flows /\ RemoveFlow(task[w].flow) /\ history = "clean"
      BY <1>1, CleanRemoves
    <2> QED BY <2>1, RemovesOwn
  <1>2. CASE MountStep(w)
    <2>1. history = "clean"
      BY <1>2 DEF MountStep, Rebind, AddRoute
    <2> QED BY <1>2, <2>1, MountsOwn
  <1>3. CASE IdleStep(w)
    BY <1>3 DEF IdleStep, ParseFails, ListenFails, CertInvalid, RefuseRoute, AddFails, SyncReturn,
                tableVars, SameRoutes, Owns
  <1> QED BY <1>1, <1>2, <1>3 DEF SyncStep, RemoveStep, MountStep, IdleStep

\* A solo call that ends well has mounted its definition, and nothing else.
LEMMA SoloEnds ==
    ASSUME TableInv, NEW w \in Workers, SyncStep(w), task'[w].pc = "ok", history' = "clean",
           "solo" \in task[w].marks, NEW f \in Flows, task[w].flow = f, UNCHANGED doc,
           task[w].dsl = doc[f].live
    PROVE  Agrees(f)'
  <1>1. task \in [Workers -> Tasks]
    BY DEF TableInv, TypeOK
  <1>d. PICK d : d = task[w].dsl
    OBVIOUS
  <1>2. CASE SyncReturn(w)
    <2>1. /\ task[w].pc = "add" /\ task[w].next > Len(d) /\ UNCHANGED tableVars
      BY <1>2, <1>d DEF SyncReturn
    <2>2. history = "clean"
      BY <2>1 DEF tableVars
    <2>3. Installed(w)
      BY <1>d, <2>1, <2>2 DEF TableInv, SoloSyncExact, Installed
    <2>4. d \in Dsls /\ task[w].next \in Nat
      BY <1>1, <1>d, <2>1 DEF TableInv, TypeOK, Outcomes, Tasks
    <2>5. Len(d) \in Nat /\ DOMAIN d = 1..Len(d)
      BY <2>4, RoutersAssumption
    <2>6. task[w].next <= Len(d) + 1
      BY <1>d, <2>1 DEF TableInv, NextBounded
    <2>7. task[w].next - 1 = Len(d)
      BY <2>1, <2>4, <2>5, <2>6
    <2>8. 1..(task[w].next - 1) = DOMAIN d
      BY <2>5, <2>7
    <2>9. d # NoDsl /\ doc[f].live = d
      BY <1>d, <2>4, NullsAssumption
    <2>10. Agrees(f)
      BY <1>d, <2>3, <2>8, <2>9 DEF Agrees, Installed
    <2> QED BY <2>1, <2>10, AgreesUnchanged
  <1>3. CASE SyncRemove(w) /\ d = NoDsl
    <2>1. RemoveFlow(f) /\ history = "clean"
      BY <1>3, CleanRemoves DEF RemoveStep, TableInv
    <2>2. Owned(f)' = {}
      BY <2>1, RemovesOwn DEF TableInv
    <2>3. doc'[f].live = NoDsl
      BY <1>3, <1>d
    <2> QED BY <2>2, <2>3 DEF Agrees
  <1>4. SyncReturn(w) \/ (SyncRemove(w) /\ d = NoDsl)
    BY <1>1, <1>d DEF SyncStep, SyncRemove, SyncCleanup, SyncRemovePanics, ParseFails, ListenFails,
               CertInvalid, RefuseRoute, AddFails, Rebind, AddRoute, Adding, Finish, Over, Tasks
  <1> QED BY <1>2, <1>3, <1>4

\* The call of a job that has its flow to itself.
SyncedAt(w) ==
    /\ w \in Busy => "solo" \in task[w].marks /\ task[w].dsl = doc[job[w].flow].live
    /\ task[w].pc = "ok" /\ history = "clean" => Agrees(job[w].flow)

\* A call begins.
LEMMA SyncedBegin ==
    ASSUME TypeOK, JobsOK, AloneExact, NEW w \in Workers, w \in Underway, "alone" \in job[w].marks,
           NEW f \in Flows, On(job[w], f), NEW d \in Dsls \cup {NoDsl}, SyncBegin(w, f, d),
           UNCHANGED doc, d = doc[f].live, job'[w].flow = f
    PROVE  SyncedAt(w)'
  <1>1. \A u \in Busy : task[u].flow # f
    <2> SUFFICES ASSUME NEW u \in Busy, task[u].flow = f PROVE FALSE
      OBVIOUS
    <2>1. u # w /\ u \in Underway /\ On(job[u], f)
      BY BeginTask DEF JobsOK, Busy, Underway, On
    <2> QED BY <2>1 DEF AloneExact, Overlap
  <1>2. "solo" \in task'[w].marks /\ task'[w].dsl = d /\ task'[w].pc = "remove"
    BY <1>1, BeginTask
  <1> QED BY <1>2 DEF SyncedAt

\* Another begins.
LEMMA SyncedBeside ==
    ASSUME TypeOK, JobsOK, AloneExact, NEW v \in Underway, "alone" \in job[v].marks,
           job[v].flow \in Flows, SyncedAt(v),
           NEW w \in Workers \ {v}, w \in Underway,
           NEW f \in Flows, On(job[w], f), NEW d \in Dsls \cup {NoDsl}, SyncBegin(w, f, d),
           UNCHANGED doc, job'[v].flow = job[v].flow
    PROVE  SyncedAt(v)'
  <1>1. v \in Workers /\ job[v].flow # f
    BY DEF AloneExact, Overlap, On, Underway
  <1>2. /\ task'[v].pc = task[v].pc /\ task'[v].dsl = task[v].dsl
        /\ v \in Busy /\ task[v].flow # f /\ "solo" \in task[v].marks =>
               "solo" \in task'[v].marks
        /\ UNCHANGED tableVars
    BY <1>1, BeginTask
  <1>3. v \in Busy' <=> v \in Busy
    BY <1>1, <1>2 DEF Busy
  <1>4. v \in Busy => task[v].flow = job[v].flow
    BY DEF JobsOK
  <1>5. v \in Busy' => "solo" \in task'[v].marks /\ task'[v].dsl = doc'[job'[v].flow].live
    BY <1>1, <1>2, <1>3, <1>4 DEF SyncedAt
  <1>6. Agrees(job[v].flow) => Agrees(job[v].flow)'
    BY <1>2, AgreesUnchanged
  <1>7. history' = history
    BY <1>2 DEF tableVars
  <1> QED BY <1>2, <1>5, <1>6, <1>7 DEF SyncedAt, Agrees

\* The steps of a worker that call no SyncFlow.
LEMMA PlainSteps ==
    ASSUME JobsOK, NEW w \in Workers, Handler(w) \/ StartAll(w), ~HandlerSync(w), ~BootSync(w)
    PROVE  /\ UNCHANGED tableVars /\ UNCHANGED task
           /\ job'[w] # NoJob => job'[w].at # "syncing"
  <1>1. UNCHANGED tableVars /\ UNCHANGED task
    BY DEF Handler, StartAll, Request, HandlerGet, HandlerCheck, StoreRead, StoreWrite,
           HandlerReturn, HandlerMqtt, BootBegin, BootNext, BootMqtt, BootMqttSync, BootEnd
  <1>2. CASE Request(w) \/ BootBegin(w)
    BY <1>1, <1>2, RequestForm, BootBeginForm, BeginForm DEF Opens, Like
  <1>3. CASE HandlerGet(w) \/ HandlerCheck(w) \/ StoreRead(w) \/ StoreWrite(w)
    BY <1>1, <1>3, GetForm, CheckForm, ReadForm, WriteForm DEF Ends, GoesTo, Becomes
  <1>4. CASE HandlerReturn(w) \/ HandlerMqtt(w) \/ BootNext(w) \/ BootEnd(w)
    BY <1>1, <1>4, ReturnForm, MqttForm, BootNextForm, BootEndForm DEF Ends, GoesTo, Becomes
  <1>5. CASE BootMqtt(w) \/ BootMqttSync(w)
    BY <1>1, <1>5, BootMqttForm, BootMqttSyncForm DEF Opens, Like, Becomes
  <1> QED BY <1>1, <1>2, <1>3, <1>4, <1>5 DEF Handler, StartAll

\* A worker that calls SyncFlow.
LEMMA SyncSteps ==
    ASSUME JobsOK, NEW w \in Workers, HandlerSync(w) \/ BootSync(w)
    PROVE  /\ w \in Underway /\ UNCHANGED doc
           /\ \E f \in Flows, d \in Dsls \cup {NoDsl} :
                  /\ On(job[w], f) /\ SyncBegin(w, f, d) /\ job'[w].flow = f
                  /\ HoldsLive /\ "alone" \in job[w].marks => d = doc[f].live
           /\ job'[w].marks = job[w].marks
  <1>1. CASE HandlerSync(w)
    <2>1. /\ w \in Underway /\ job[w].flow \in Flows /\ doc[job[w].flow].live \in Dsls \cup {NoDsl}
          /\ SyncBegin(w, job[w].flow, doc[job[w].flow].live)
          /\ job'[w].flow = job[w].flow /\ job'[w].marks = job[w].marks
      BY <1>1, SyncForm DEF Underway, Becomes
    <2> QED BY <1>1, <2>1 DEF On, HandlerSync
  <1>2. CASE BootSync(w)
    <2>1. PICK p \in job[w].todo :
              /\ SyncBegin(w, p[1], p[2])
              /\ Becomes(w, "syncing", p[1], job[w].dsl, job[w].seen, job[w].todo \ {p})
      BY <1>2, BootSyncForm
    <2>2. p[1] \in Flows /\ p[2] \in Dsls \cup {NoDsl} /\ w \in Underway
      BY <1>2, <2>1, BootSyncForm DEF Underway
    <2>3. job'[w].flow = p[1] /\ job'[w].marks = job[w].marks
      BY <2>1 DEF Becomes
    <2>4. HoldsLive /\ "alone" \in job[w].marks => p[2] = doc[p[1]].live
      BY <2>1, <2>2 DEF HoldsLive
    <2> QED BY <1>2, <2>1, <2>2, <2>3, <2>4 DEF On, BootSync
  <1> QED BY <1>1, <1>2

\* A step of SyncFlow.
LEMMA SyncedStep ==
    ASSUME TableInv, JobsOK, AloneExact, NEW w \in Workers, Syncing(w),
           NEW v \in Underway, "alone" \in job[v].marks, job[v].flow \in Flows, SyncedAt(v)
    PROVE  SyncedAt(v)'
  <1>1. /\ w \in Busy /\ SyncStep(w) /\ UNCHANGED <<doc, job>> /\ v \in Workers
        /\ \A u \in Workers \ {w} : task'[u] = task[u]
        /\ w \in Underway /\ task[w].flow = job[w].flow
    BY StepTask DEF Syncing, storeVars, TableInv, JobsOK, Underway, Busy
  <1>2. CASE v = w
    <2>1. PICK f \in Flows : f = job[w].flow
      BY <1>2
    <2>2. "solo" \in task[w].marks /\ task[w].dsl = doc[f].live /\ task[w].flow = f
      BY <1>1, <1>2, <2>1 DEF SyncedAt
    <2>3. w \in Busy' => GoesOn(w)
      BY <1>1, StepTask DEF TableInv, Busy
    <2>4. w \in Busy' => "solo" \in task'[w].marks /\ task'[w].dsl = doc'[f].live
      BY <1>1, <2>2, <2>3 DEF GoesOn
    <2>5. task'[w].pc = "ok" /\ history' = "clean" => Agrees(f)'
      BY <1>1, <2>2, SoloEnds
    <2>6. job'[w].flow = f
      BY <1>1, <2>1
    <2> QED BY <1>2, <2>4, <2>5, <2>6 DEF SyncedAt, Agrees
  <1>3. CASE v # w
    <2>1. PICK f \in Flows : f = job[v].flow
      OBVIOUS
    <2>2. f # task[w].flow
      <3>1. job[w].flow # f
        BY <1>1, <1>3, <2>1 DEF AloneExact, Overlap, On
      <3> QED BY <1>1, <3>1
    <2>3. task'[v] = task[v] /\ (v \in Busy' <=> v \in Busy)
      BY <1>1, <1>3 DEF Busy
    <2>4. history' = "clean" => SameRoutes(f) /\ history = "clean"
      BY <1>1, <2>2, OthersRoutes DEF TableInv
    <2>5. task'[v].pc = "ok" /\ history' = "clean" => Agrees(f)'
      BY <1>1, <2>1, <2>3, <2>4, AgreesStays DEF SyncedAt
    <2>6. job'[v].flow = f
      BY <1>1, <2>1
    <2>7. v \in Busy' => "solo" \in task'[v].marks /\ task'[v].dsl = doc'[f].live
      BY <1>1, <2>1, <2>3 DEF SyncedAt
    <2> QED BY <2>5, <2>6, <2>7 DEF SyncedAt, Agrees
  <1> QED BY <1>2, <1>3

LEMMA SyncedKept ==
    CoreInv /\ AloneExact /\ HoldsLive /\ Synced /\ [PublishingNext]_allVars => Synced'
  <1> SUFFICES ASSUME CoreInv, AloneExact, HoldsLive, Synced, [PublishingNext]_allVars,
                      NEW v \in Workers, job'[v] # NoJob,
                      "alone" \in job'[v].marks, job'[v].at = "syncing"
               PROVE  SyncedAt(v)'
    BY DEF Synced, SyncedAt, Underway
  <1>1. TypeOK /\ TableInv /\ JobsOK
    BY DEF CoreInv, TableInv
  <1>2. ASSUME v \in Underway, Stays(v)
        PROVE  /\ "alone" \in job[v].marks /\ job[v].at = "syncing" /\ job[v].flow \in Flows
               /\ job'[v].flow = job[v].flow /\ SyncedAt(v)
    <2>1. "alone" \in job[v].marks /\ job[v].at = "syncing" /\ job'[v].flow = job[v].flow
      BY <1>2 DEF Stays, Like
    <2>2. job[v].flow \in Flows
      BY <1>1, <1>2, <2>1, JobType DEF JobOK, Underway
    <2> QED BY <1>2, <2>1, <2>2 DEF Synced, SyncedAt
  <1>3. ASSUME v \in Underway, Stays(v), UNCHANGED tableVars, UNCHANGED task
        PROVE  SyncedAt(v)'
    <2>1. PICK f \in Flows : f = job[v].flow
      BY <1>2, <1>3
    <2>2. ~StoreWrite(v)
      BY <1>1, <1>2, <1>3, WriteForm
    <2>3. doc'[f].live = doc[f].live
      BY <1>1, <1>2, <1>3, <2>1, <2>2, AloneLive DEF On
    <2>4. Agrees(f) => Agrees(f)'
      BY <1>3, <2>3, AgreesUnchanged
    <2>5. job'[v].flow = f /\ history' = history /\ Busy' = Busy
      BY <1>2, <1>3, <2>1 DEF tableVars, Busy
    <2> QED BY <1>2, <1>3, <2>1, <2>3, <2>4, <2>5 DEF SyncedAt, Agrees
  <1>4. ASSUME NEW w \in Workers, Handler(w) \/ StartAll(w), ~HandlerSync(w), ~BootSync(w)
        PROVE  SyncedAt(v)'
    BY <1>1, <1>3, <1>4, PlainSteps, WorkerSides
  <1>5. ASSUME NEW w \in Workers, HandlerSync(w) \/ BootSync(w)
        PROVE  SyncedAt(v)'
    <2>1. PICK f \in Flows, d \in Dsls \cup {NoDsl} :
              /\ On(job[w], f) /\ SyncBegin(w, f, d) /\ job'[w].flow = f
              /\ "alone" \in job[w].marks => d = doc[f].live
      BY <1>1, <1>5, SyncSteps
    <2>2. w \in Underway /\ UNCHANGED doc /\ job'[w].marks = job[w].marks
      BY <1>1, <1>5, SyncSteps
    <2>3. CASE v = w
      BY <1>1, <2>1, <2>2, <2>3, SyncedBegin
    <2>4. CASE v # w
      <3>1. v \in Underway /\ Stays(v)
        BY <1>1, <1>5, <2>4, WorkerSides DEF Handler, StartAll
      <3> QED BY <1>1, <1>2, <2>1, <2>2, <2>4, <3>1, SyncedBeside
    <2> QED BY <2>3, <2>4
  <1>6. ASSUME NEW w \in Workers, Syncing(w) PROVE SyncedAt(v)'
    <2>1. v \in Underway /\ Stays(v)
      BY <1>1, <1>6, RestSteps DEF Underway
    <2> QED BY <1>1, <1>2, <1>6, <2>1, SyncedStep
  <1>7. CASE SaveDraft \/ UNCHANGED allVars
    <2>1. v \in Underway /\ Stays(v)
      BY <1>1, <1>7, RestSteps DEF Underway
    <2> QED BY <1>3, <1>7, <2>1 DEF SaveDraft, allVars, tableVars
  <1>8. CASE Restart
    BY <1>1, <1>8, RestartJobs DEF Underway
  <1> QED BY <1>4, <1>5, <1>6, <1>7, <1>8 DEF PublishingNext

----------------------------------------------------------------------------
(* What is served.                                                         *)

LEMMA WorkerTable ==
    ASSUME TypeOK, JobsOK, NEW w \in Workers, Handler(w) \/ StartAll(w)
    PROVE  UNCHANGED tableVars
  <1>1. ASSUME NEW f \in Flows, NEW d \in Dsls \cup {NoDsl}, SyncBegin(w, f, d)
        PROVE  UNCHANGED tableVars
    BY <1>1, BeginTask
  <1> QED BY <1>1, SyncSteps, PlainSteps

\* A job whose flow becomes served has it to itself, and its SyncFlow ended well.
LEMMA NewlyServed ==
    ASSUME JobsOK, NEW w \in Workers, Handler(w) \/ StartAll(w), NEW f \in served', f \notin served
    PROVE  /\ HandlerReturn(w) \/ BootNext(w)
           /\ f = job[w].flow /\ "alone" \in job[w].marks /\ task[w].pc = "ok"
           /\ w \in Underway /\ job[w].at = "syncing" /\ UNCHANGED doc
  <1>1. HandlerReturn(w) \/ BootNext(w)
    <2>1. CASE Request(w) \/ BootBegin(w)
      BY <2>1, RequestForm, BootBeginForm, BeginForm
    <2> QED BY <2>1 DEF Handler, StartAll, HandlerGet, HandlerCheck, StoreRead, StoreWrite,
                        HandlerSync, HandlerMqtt, BootSync, BootMqtt, BootMqttSync, BootEnd
  <1>2. f \in Succeeded(w) /\ UNCHANGED doc
    BY <1>1 DEF HandlerReturn, BootNext
  <1>3. f = job[w].flow /\ "alone" \in job[w].marks /\ task[w].pc = "ok"
    BY <1>2 DEF Succeeded, Alone
  <1>4. w \in Underway /\ job[w].at = "syncing"
    BY <1>1, ReturnForm, BootNextForm DEF Underway
  <1> QED BY <1>1, <1>2, <1>3, <1>4

\* Where the job of the step is afterwards, if it is on a flow that is served.
LEMMA ServedHere ==
    ASSUME JobsOK, TodoOnce, Served, NEW w \in Workers, Handler(w) \/ StartAll(w),
           NEW f \in served', f \in Flows, job'[w] # NoJob, On(job'[w], f)
    PROVE  job'[w].at = "mqtt"
  <1>1. CASE Request(w) \/ BootBegin(w)
    <2>1. PICK j \in Jobs : Begin(w, j)
      BY <1>1, RequestForm, BootBeginForm
    <2>2. Like(job'[w], j) /\ ~On(j, f)
      BY <2>1, BeginForm DEF Opens
    <2> QED BY <2>2, LikeOn
  <1>2. CASE BootMqtt(w)
    BY <1>2, BootMqttForm DEF Opens, Like
  <1>3. CASE HandlerMqtt(w) \/ BootMqttSync(w) \/ BootEnd(w)
    BY <1>3, MqttForm, BootMqttSyncForm, BootEndForm DEF Ends, Becomes
  <1>4. CASE HandlerReturn(w)
    BY <1>4, ReturnForm DEF Ends, GoesTo, Becomes
  <1>5. CASE BootNext(w)
    <2>1. w \in Underway /\ job[w].at = "syncing" /\ job[w].todo \subseteq Flows \X Dsls
      BY <1>5, BootNextForm, JobType DEF Underway, Jobs
    <2>2. job'[w].flow = NoFlow /\ job'[w].todo = job[w].todo
      BY <1>5, BootNextForm DEF Becomes
    <2>3. PICK p \in job[w].todo : p[1] = f
      BY <2>2, NullsAssumption DEF On
    <2>4. f \notin served
      BY <2>1, <2>3 DEF Served, On
    <2>5. f = job[w].flow
      BY <1>5, <2>4, NewlyServed DEF StartAll
    <2> QED BY <2>1, <2>3, <2>5 DEF TodoOnce
  <1>6. CASE HandlerGet(w) \/ HandlerCheck(w) \/ StoreRead(w) \/ StoreWrite(w) \/ HandlerSync(w)
             \/ BootSync(w)
    <2>1. job[w] # NoJob /\ job[w].at # "mqtt"
      BY <1>6, GetForm, CheckForm, ReadForm, WriteForm, SyncForm, BootSyncForm
    <2>2. f \in served
      BY <1>6 DEF HandlerGet, HandlerCheck, StoreRead, StoreWrite, HandlerSync, BootSync
    <2>3. On(job[w], f)
      BY <1>6, GetForm, CheckForm, ReadForm, WriteForm, SyncForm, BootSyncForm
      DEF Ends, GoesTo, Becomes, On
    <2> QED BY <2>1, <2>2, <2>3 DEF Served, Underway
  <1> QED BY <1>1, <1>2, <1>3, <1>4, <1>5, <1>6 DEF Handler, StartAll

LEMMA ServedKept ==
    CoreInv /\ AloneExact /\ TodoOnce /\ Synced /\ Served /\ [PublishingNext]_allVars => Served'
  <1> SUFFICES ASSUME CoreInv, AloneExact, TodoOnce, Synced, Served, [PublishingNext]_allVars,
                      NEW f \in served'
               PROVE  /\ \A u \in Underway' : On(job'[u], f) => job'[u].at = "mqtt"
                      /\ history' = "clean" => Agrees(f)'
    BY DEF Served, Agrees
  <1>1. TypeOK /\ TableInv /\ JobsOK /\ f \in Flows
    <2>1. JobsOK'
      BY CoreKept DEF CoreInv
    <2> QED BY <2>1 DEF CoreInv, TableInv, JobsOK
  <1>2. ASSUME NEW w \in Workers, Handler(w) \/ StartAll(w)
        PROVE  /\ \A u \in Underway' : On(job'[u], f) => job'[u].at = "mqtt"
               /\ history' = "clean" => Agrees(f)'
    <2>1. ASSUME NEW u \in Underway', On(job'[u], f) PROVE job'[u].at = "mqtt"
      <3>1. u \in Workers /\ job'[u] # NoJob
        BY DEF Underway
      <3>2. CASE u = w
        BY <1>1, <1>2, <2>1, <3>1, <3>2, ServedHere
      <3>3. CASE u # w
        <4>1. u \in Underway /\ Like(job'[u], job[u])
          BY <1>1, <1>2, <3>1, <3>3, WorkerSides
        <4>2. On(job[u], f) /\ job'[u].at = job[u].at
          BY <2>1, <4>1, LikeOn DEF Like
        <4>3. f \in served
          <5>1. CASE f \notin served
            <6>1. f = job[w].flow /\ "alone" \in job[w].marks /\ w \in Underway
              BY <1>1, <1>2, <5>1, NewlyServed
            <6>2. On(job[w], f)
              BY <6>1 DEF On
            <6> QED BY <1>1, <3>3, <4>1, <4>2, <6>1, <6>2 DEF AloneExact, Overlap
          <5> QED BY <5>1
        <4> QED BY <4>1, <4>2, <4>3 DEF Served
      <3> QED BY <3>2, <3>3
    <2>2. UNCHANGED tableVars /\ history' = history
      <3>1. UNCHANGED tableVars
        BY <1>1, <1>2, WorkerTable
      <3> QED BY <3>1 DEF tableVars
    <2>3. CASE f \in served
      <3>1. doc'[f].live = doc[f].live
        <4>1. CASE StoreWrite(w)
          <5>1. w \in Underway /\ job[w].at = "write"
            BY <1>1, <4>1, WriteForm DEF Underway
          <5>2. f # job[w].flow
            BY <2>3, <5>1 DEF Served, On
          <5> QED BY <1>1, <4>1, <5>2, WriteForm
        <4>2. CASE ~StoreWrite(w)
          BY <1>2, <4>2 DEF Handler, StartAll, Request, HandlerGet, HandlerCheck, StoreRead,
             HandlerSync, HandlerReturn, HandlerMqtt, BootBegin, BootSync, BootNext, BootMqtt,
             BootMqttSync, BootEnd
        <4> QED BY <4>1, <4>2
      <3>2. history = "clean" => Agrees(f)
        BY <2>3 DEF Served
      <3> QED BY <1>1, <2>1, <2>2, <3>1, <3>2, AgreesUnchanged
    <2>4. CASE f \notin served
      <3>1. /\ f = job[w].flow /\ "alone" \in job[w].marks /\ task[w].pc = "ok"
            /\ w \in Underway /\ job[w].at = "syncing" /\ UNCHANGED doc
        BY <1>1, <1>2, <2>4, NewlyServed
      <3>2. history = "clean" => Agrees(f)
        BY <3>1 DEF Synced
      <3> QED BY <1>1, <2>1, <2>2, <3>1, <3>2, AgreesUnchanged
    <2> QED BY <2>3, <2>4
  <1>3. ASSUME SaveDraft \/ (\E w \in Workers : Syncing(w)) \/ UNCHANGED allVars
        PROVE  /\ \A u \in Underway' : On(job'[u], f) => job'[u].at = "mqtt"
               /\ history' = "clean" => Agrees(f)'
    <2>1. f \in served /\ doc'[f].live = doc[f].live
      BY <1>1, <1>3, DraftForm DEF SaveDraft, Syncing, storeVars, allVars
    <2>2. \A u \in Underway' : u \in Underway /\ Like(job'[u], job[u])
      BY <1>1, <1>3, RestSteps DEF Stays
    <2>3. \A u \in Underway' : On(job'[u], f) => job'[u].at = "mqtt"
      <3> SUFFICES ASSUME NEW u \in Underway', On(job'[u], f) PROVE job'[u].at = "mqtt"
        OBVIOUS
      <3>1. u \in Underway /\ Like(job'[u], job[u])
        BY <2>2
      <3>2. On(job[u], f)
        BY <3>1, LikeOn
      <3> QED BY <2>1, <3>1, <3>2 DEF Served, Like
    <2>4. CASE UNCHANGED tableVars
      <3>1. history' = history
        BY <2>4 DEF tableVars
      <3> QED BY <1>1, <2>1, <2>3, <2>4, <3>1, AgreesUnchanged DEF Served
    <2>5. ASSUME NEW w \in Workers, Syncing(w)
          PROVE  history' = "clean" => Agrees(f)'
      <3>1. SyncStep(w) /\ w \in Busy
        BY <1>1, <2>5, StepTask DEF Syncing
      <3>2. w \in Underway /\ job[w].at = "syncing" /\ job[w].flow = task[w].flow
        BY <1>1, <3>1 DEF JobsOK, Underway, Busy
      <3>3. f # task[w].flow
        BY <2>1, <3>2 DEF Served, On
      <3>4. history' = "clean" => SameRoutes(f) /\ history = "clean"
        BY <1>1, <3>1, <3>3, OthersRoutes DEF TableInv
      <3> QED BY <1>1, <2>1, <3>4, AgreesStays DEF Served
    <2> QED BY <1>3, <2>3, <2>4, <2>5 DEF SaveDraft, allVars, tableVars
  <1>4. CASE Restart
    BY <1>1, <1>4, RestartJobs
  <1> QED BY <1>2, <1>3, <1>4 DEF PublishingNext

----------------------------------------------------------------------------
(* What is mounted for MQTT.                                               *)

\* StartAll's job for MQTT, with what is published for f.
OnlyBoot(j, f, d) ==
    /\ j.kind = "boot" /\ j.at = "mqtt"
    /\ \A p \in j.todo : p[1] = f => p[2] = d

\* A job whose flow becomes followed has it to itself.
LEMMA NewlyFollowed ==
    ASSUME JobsOK, NEW w \in Workers, Handler(w) \/ StartAll(w), NEW f \in followed',
           f \notin followed
    PROVE  /\ HandlerMqtt(w) \/ BootMqttSync(w)
           /\ On(job[w], f) /\ "alone" \in job[w].marks /\ w \in Underway
           /\ HandlerMqtt(w) => f = job[w].flow
  <1>1. HandlerMqtt(w) \/ BootMqttSync(w)
    <2>1. CASE Request(w) \/ BootBegin(w)
      BY <2>1, RequestForm, BootBeginForm, BeginForm
    <2> QED BY <2>1 DEF Handler, StartAll, HandlerGet, HandlerCheck, StoreRead, StoreWrite,
                        HandlerSync, HandlerReturn, BootSync, BootNext, BootMqtt, BootEnd
  <1>2. CASE HandlerMqtt(w)
    <2>1. f \in Alone(w, job[w].flow)
      BY <1>2 DEF HandlerMqtt, MountsMqtt
    <2> QED BY <1>1, <1>2, <2>1, MqttForm DEF Alone, On, Underway
  <1>3. CASE BootMqttSync(w) /\ ~HandlerMqtt(w)
    <2>1. PICK p \in job[w].todo : f \in Alone(w, p[1])
      BY <1>3 DEF BootMqttSync, MountsMqtt
    <2> QED BY <1>1, <1>3, <2>1, BootMqttSyncForm DEF Alone, On, Underway
  <1> QED BY <1>1, <1>2, <1>3

\* The job of the step, if it is on a flow that is followed.
LEMMA FollowedHere ==
    ASSUME JobsOK, HoldsLive, Followed, NEW w \in Workers, Handler(w) \/ StartAll(w),
           NEW f \in followed', f \in Flows, job'[w] # NoJob, On(job'[w], f)
    PROVE  OnlyBoot(job'[w], f, doc[f].live)
  <1>1. CASE Request(w) \/ BootBegin(w)
    <2>1. PICK j \in Jobs : Begin(w, j)
      BY <1>1, RequestForm, BootBeginForm
    <2>2. Like(job'[w], j) /\ ~On(j, f)
      BY <2>1, BeginForm DEF Opens
    <2> QED BY <2>2, LikeOn
  <1>2. CASE BootMqtt(w)
    <2>1. PICK j \in Jobs : j.kind = "boot" /\ j.at = "mqtt" /\ j.todo = Listing /\ Opens(w, j)
      BY <1>2, BootMqttForm
    <2>2. job'[w].kind = "boot" /\ job'[w].at = "mqtt" /\ job'[w].todo = Listing
      BY <2>1 DEF Opens, Like
    <2> QED BY <2>2, ListingType DEF OnlyBoot
  <1>3. CASE HandlerMqtt(w) \/ BootEnd(w)
    BY <1>3, MqttForm, BootEndForm DEF Ends
  <1>4. CASE BootMqttSync(w)
    <2>1. /\ w \in Underway /\ job[w].kind = "boot" /\ job[w].at = "mqtt"
      BY <1>4, BootMqttSyncForm DEF Underway
    <2>2. /\ job'[w].kind = "boot" /\ job'[w].at = "mqtt" /\ job'[w].todo \subseteq job[w].todo
          /\ job'[w].flow = job[w].flow
      BY <1>4, <2>1, BootMqttSyncForm DEF Becomes
    <2>3. \A p \in job[w].todo : p[1] = f => p[2] = doc[f].live
      <3>1. CASE f \in followed
        BY <2>1, <2>2, <3>1 DEF Followed, On
      <3>2. CASE f \notin followed
        <4>1. "alone" \in job[w].marks
          BY <1>4, <3>2, NewlyFollowed DEF StartAll
        <4> QED BY <2>1, <4>1 DEF HoldsLive
      <3> QED BY <3>1, <3>2
    <2> QED BY <2>2, <2>3 DEF OnlyBoot
  <1>5. CASE HandlerGet(w) \/ HandlerCheck(w) \/ StoreRead(w) \/ StoreWrite(w) \/ HandlerSync(w)
             \/ HandlerReturn(w) \/ BootSync(w) \/ BootNext(w)
    <2>1. job[w] # NoJob /\ job[w].at # "mqtt"
      BY <1>5, GetForm, CheckForm, ReadForm, WriteForm, SyncForm, ReturnForm, BootSyncForm,
         BootNextForm
    <2>2. f \in followed
      BY <1>5 DEF HandlerGet, HandlerCheck, StoreRead, StoreWrite, HandlerSync, HandlerReturn,
                  BootSync, BootNext
    <2>3. On(job[w], f)
      BY <1>5, NullsAssumption, GetForm, CheckForm, ReadForm, WriteForm, SyncForm, ReturnForm,
         BootSyncForm, BootNextForm
      DEF Ends, GoesTo, Becomes, On
    <2> QED BY <2>1, <2>2, <2>3 DEF Followed, Underway
  <1> QED BY <1>1, <1>2, <1>3, <1>4, <1>5 DEF Handler, StartAll

\* What the step mounts.
LEMMA FollowedMqtt ==
    ASSUME JobsOK, HoldsLive, Followed, NEW w \in Workers, Handler(w) \/ StartAll(w),
           NEW f \in followed', f \in Flows
    PROVE  mqtt'[f] \in {NoDsl, doc[f].live}
  <1>1. CASE HandlerMqtt(w)
    <2>1. /\ w \in Underway /\ job[w].at = "mqtt" /\ job[w].kind # "boot"
          /\ job[w].flow \in Flows /\ job[w].dsl \in Dsls \cup {NoDsl}
          /\ MountsMqtt(w, job[w].flow, job[w].dsl)
      BY <1>1, MqttForm DEF HandlerMqtt, Underway
    <2>2. CASE f = job[w].flow
      <3>1. f \notin followed
        BY <2>1, <2>2 DEF Followed, On
      <3>2. "alone" \in job[w].marks
        BY <1>1, <3>1, NewlyFollowed DEF Handler
      <3> QED BY <2>1, <2>2, <3>2, MountType DEF HoldsLive
    <2>3. CASE f # job[w].flow
      <3>1. f \in followed
        BY <1>1, <2>3, NewlyFollowed DEF Handler
      <3> QED BY <2>1, <2>3, <3>1, MountType DEF Followed
    <2> QED BY <2>2, <2>3
  <1>2. CASE BootMqttSync(w)
    <2>1. /\ w \in Underway /\ job[w].at = "mqtt" /\ job[w].kind = "boot"
          /\ job[w].todo \subseteq Flows \X Dsls
      BY <1>2, BootMqttSyncForm DEF Underway
    <2>2. PICK p \in job[w].todo : MountsMqtt(w, p[1], p[2])
      BY <1>2, BootMqttSyncForm
    <2>3. p[1] \in Flows /\ p[2] \in Dsls \cup {NoDsl}
      BY <2>1, <2>2
    <2>4. CASE f = p[1]
      <3>1. CASE f \in followed
        <4>1. p[2] = doc[f].live
          BY <2>1, <2>2, <2>4, <3>1 DEF Followed, On
        <4> QED BY <2>2, <2>3, <2>4, <4>1, MountType
      <3>2. CASE f \notin followed
        <4>1. "alone" \in job[w].marks
          BY <1>2, <3>2, NewlyFollowed DEF StartAll
        <4> QED BY <2>1, <2>2, <2>3, <2>4, <4>1, MountType DEF HoldsLive
      <3> QED BY <3>1, <3>2
    <2>5. CASE f # p[1]
      <3>1. f \in followed
        BY <2>2, <2>3, <2>5, MountType
      <3> QED BY <2>2, <2>3, <2>5, <3>1, MountType DEF Followed
    <2> QED BY <2>4, <2>5
  <1>3. CASE ~HandlerMqtt(w) /\ ~BootMqttSync(w)
    <2>1. f \in followed
      BY <1>3, NewlyFollowed
    <2>2. UNCHANGED mqtt
      BY <1>3 DEF Handler, StartAll, Request, HandlerGet, HandlerCheck, StoreRead, StoreWrite,
         HandlerSync, HandlerReturn, BootBegin, BootSync, BootNext, BootMqtt, BootEnd
    <2> QED BY <2>1, <2>2 DEF Followed
  <1> QED BY <1>1, <1>2, <1>3

LEMMA FollowedKept ==
    CoreInv /\ AloneExact /\ HoldsLive /\ Followed /\ [PublishingNext]_allVars => Followed'
  <1> SUFFICES ASSUME CoreInv, AloneExact, HoldsLive, Followed, [PublishingNext]_allVars,
                      NEW f \in followed'
               PROVE  /\ mqtt'[f] \in {NoDsl, doc'[f].live}
                      /\ \A u \in Underway' : On(job'[u], f) => OnlyBoot(job'[u], f, doc'[f].live)
    BY DEF Followed, OnlyBoot
  <1>1. TypeOK /\ JobsOK /\ f \in Flows
    <2>1. JobsOK'
      BY CoreKept DEF CoreInv
    <2> QED BY <2>1 DEF CoreInv, TableInv, JobsOK
  <1>2. ASSUME NEW w \in Workers, Handler(w) \/ StartAll(w)
        PROVE  /\ mqtt'[f] \in {NoDsl, doc'[f].live}
               /\ \A u \in Underway' : On(job'[u], f) => OnlyBoot(job'[u], f, doc'[f].live)
    <2>1. doc'[f].live = doc[f].live
      <3>1. CASE StoreWrite(w)
        <4>1. w \in Underway /\ job[w].kind # "boot" /\ job[w].flow \in Flows
          BY <1>1, <3>1, WriteForm DEF Underway
        <4>2. f \in followed
          BY <3>1 DEF StoreWrite
        <4>3. f # job[w].flow
          BY <4>1, <4>2 DEF Followed, On
        <4> QED BY <1>1, <3>1, <4>3, WriteForm
      <3>2. CASE ~StoreWrite(w)
        BY <1>2, <3>2 DEF Handler, StartAll, Request, HandlerGet, HandlerCheck, StoreRead,
           HandlerSync, HandlerReturn, HandlerMqtt, BootBegin, BootSync, BootNext, BootMqtt,
           BootMqttSync, BootEnd
      <3> QED BY <3>1, <3>2
    <2>2. mqtt'[f] \in {NoDsl, doc[f].live}
      BY <1>1, <1>2, FollowedMqtt
    <2>3. ASSUME NEW u \in Underway', On(job'[u], f) PROVE OnlyBoot(job'[u], f, doc[f].live)
      <3>1. u \in Workers /\ job'[u] # NoJob
        BY DEF Underway
      <3>2. CASE u = w
        BY <1>1, <1>2, <2>3, <3>1, <3>2, FollowedHere
      <3>3. CASE u # w
        <4>1. u \in Underway /\ Like(job'[u], job[u])
          BY <1>1, <1>2, <3>1, <3>3, WorkerSides
        <4>2. On(job[u], f)
          BY <2>3, <4>1, LikeOn
        <4>3. f \in followed
          <5>1. CASE f \notin followed
            <6>1. On(job[w], f) /\ "alone" \in job[w].marks /\ w \in Underway
              BY <1>1, <1>2, <5>1, NewlyFollowed
            <6> QED BY <1>1, <3>3, <4>1, <4>2, <6>1 DEF AloneExact, Overlap
          <5> QED BY <5>1
        <4> QED BY <4>1, <4>2, <4>3 DEF Followed, OnlyBoot, Like
      <3> QED BY <3>2, <3>3
    <2> QED BY <2>1, <2>2, <2>3
  <1>3. ASSUME SaveDraft \/ (\E w \in Workers : Syncing(w)) \/ UNCHANGED allVars
        PROVE  /\ mqtt'[f] \in {NoDsl, doc'[f].live}
               /\ \A u \in Underway' : On(job'[u], f) => OnlyBoot(job'[u], f, doc'[f].live)
    <2>1. f \in followed /\ doc'[f].live = doc[f].live /\ UNCHANGED mqtt
      BY <1>1, <1>3, DraftForm DEF SaveDraft, Syncing, storeVars, allVars
    <2>2. ASSUME NEW u \in Underway', On(job'[u], f) PROVE OnlyBoot(job'[u], f, doc[f].live)
      <3>1. u \in Underway /\ Like(job'[u], job[u])
        BY <1>1, <1>3, RestSteps DEF Stays
      <3>2. On(job[u], f)
        BY <2>2, <3>1, LikeOn
      <3> QED BY <2>1, <3>1, <3>2 DEF Followed, OnlyBoot, Like
    <2> QED BY <2>1, <2>2 DEF Followed
  <1>4. CASE Restart
    BY <1>1, <1>4, RestartJobs
  <1> QED BY <1>2, <1>3, <1>4 DEF PublishingNext

----------------------------------------------------------------------------
(* What a handler that nothing overlaps knows.                             *)

\* The definition that an update installs is the one the handler decided on.
LEMMA InstallsCandidate ==
    ASSUME NEW j, JobOK(j), j.at = "write", NEW r, Installs(j, r), Unambiguous(j),
           j.kind # "offline" => j.dsl \in Candidates(j, j.seen)
    PROVE  r.live = NoDsl \/ (j.kind # "offline" /\ r.live = j.dsl)
  <1>1. CASE j.kind = "publish" \/ j.kind = "online" \/ j.kind = "offline"
    BY <1>1 DEF Installs, Candidates
  <1>2. CASE j.kind = "rollback"
    <2>1. j.seen # NoRecord /\ j.version # Version(j.seen)
      BY <1>2, RecordAssumption DEF JobOK
    <2>2. PICK e \in Oldest(j.seen, j.version) : r.live = e.dsl
      BY <1>2 DEF Installs
    <2>3. PICK k \in Holding(j.seen, j.version) : e = j.seen.past[k]
      BY <2>2 DEF Oldest
    <2>4. PICK i \in Holding(j.seen, j.version) : j.dsl = j.seen.past[i].dsl
      BY <1>2, <2>1 DEF Candidates, Listed
    <2>5. i = k
      BY <1>2, <2>1 DEF Unambiguous
    <2> QED BY <1>2, <2>2, <2>3, <2>4, <2>5
  <1>3. j.kind \in Kinds
    BY DEF JobOK, Jobs
  <1> QED BY <1>1, <1>2, <1>3 DEF Kinds

LEMMA CheckUnpublished == \A f : CheckHTTPRoutes(f, NoDsl)
  BY DEF CheckHTTPRoutes

LEMMA CheckStays ==
    ASSUME UNCHANGED tableVars, NEW f, NEW d, CheckHTTPRoutes(f, d)
    PROVE  CheckHTTPRoutes(f, d)'
  BY DEF CheckHTTPRoutes, Live, Owns, tableVars

LEMMA SameKnowledge ==
    ASSUME NEW j, NEW k, k.kind = j.kind, k.version = j.version, k.seen = j.seen
    PROVE  /\ Unambiguous(k) <=> Unambiguous(j)
           /\ \A r : Candidates(k, r) = Candidates(j, r)
  BY DEF Unambiguous, Candidates

LEMMA HandlerKind ==
    ASSUME JobsOK, NEW w \in Workers, Handler(w), w \in Underway
    PROVE  job[w].kind # "boot"
  <1>1. CASE HandlerGet(w) \/ HandlerCheck(w) \/ StoreRead(w) \/ StoreWrite(w)
    BY <1>1, GetForm, CheckForm, ReadForm, WriteForm, JobType DEF JobOK
  <1>2. CASE HandlerSync(w) \/ HandlerReturn(w) \/ HandlerMqtt(w)
    BY <1>2, SyncForm, ReturnForm, MqttForm
  <1>3. CASE Request(w)
    BY <1>3, RequestForm, BeginForm DEF Underway
  <1> QED BY <1>1, <1>2, <1>3 DEF Handler

\* A handler on its way.
LEMMA KnowsHandler ==
    ASSUME TypeOK, JobsOK, NEW w \in Workers, Handler(w), job'[w] # NoJob,
           w \in Underway => Underway = {w} /\ Knows(w)
    PROVE  Knows(w)'
  <1> DEFINE f == job[w].flow
             r == doc[f]
             j == job[w]
             k == job'[w]
  <1>0. CASE Request(w)
    <2>1. PICK i \in Jobs : i.at = "get" /\ Begin(w, i)
      BY <1>0, RequestForm
    <2>2. job[w] = NoJob /\ job'[w].at = "get"
      BY <2>1, BeginForm DEF Opens, Like
    <2>3. w \notin Busy /\ Busy' = Busy
      BY <1>0, <2>2 DEF Request, Busy, JobsOK
    <2> QED BY <2>2, <2>3 DEF Knows
  <1>1. CASE HandlerGet(w)
    <2>1. w \notin Busy /\ Busy' = Busy /\ UNCHANGED doc
      BY <1>1, GetForm DEF HandlerGet, Busy, JobsOK
    <2>2. CASE k.at = "read" /\ k.kind = "offline"
      BY <2>1, <2>2 DEF Knows
    <2>3. CASE \E d \in Candidates(j, r) : Becomes(w, "check", f, d, j.seen, j.todo)
      <3>1. /\ k.at = "check" /\ k.dsl \in Candidates(j, r) /\ k.flow = f
            /\ k.kind = j.kind /\ k.version = j.version /\ k.seen = j.seen
        BY <2>3 DEF Becomes
      <3>2. k.dsl \in Candidates(k, doc'[k.flow])
        BY <2>1, <3>1, SameKnowledge
      <3> QED BY <2>1, <3>1, <3>2 DEF Knows
    <2> QED BY <1>1, <2>2, <2>3, GetForm DEF Ends, GoesTo, Becomes
  <1>2. CASE HandlerCheck(w)
    <2>1. w \notin Busy /\ Busy' = Busy /\ UNCHANGED doc /\ UNCHANGED tableVars /\ w \in Underway
      BY <1>2, CheckForm DEF HandlerCheck, Busy, JobsOK, Underway
    <2>2. /\ j.at = "check" /\ CheckHTTPRoutes(f, j.dsl) /\ k.at = "read" /\ k.dsl = j.dsl
          /\ k.flow = f /\ k.kind = j.kind /\ k.version = j.version /\ k.seen = j.seen
      BY <1>2, CheckForm DEF Ends, GoesTo, Becomes
    <2>3. k.kind # "offline" => k.dsl \in Candidates(k, doc'[k.flow])
      BY <2>1, <2>2, SameKnowledge DEF Knows
    <2>4. CheckHTTPRoutes(f, j.dsl)'
      BY <2>1, <2>2, CheckStays
    <2> QED BY <2>1, <2>2, <2>3, <2>4 DEF Knows
  <1>3. CASE StoreRead(w)
    <2>1. w \notin Busy /\ Busy' = Busy /\ UNCHANGED doc /\ UNCHANGED tableVars /\ w \in Underway
      BY <1>3, ReadForm DEF StoreRead, Busy, JobsOK, Underway
    <2>2. j.at = "read" /\ Knows(w) /\ f \in Flows
      BY <1>3, <2>1, ReadForm, JobType DEF JobOK
    <2>3. CASE j.kind = "rollback" /\ j.version = Version(r) /\ GoesTo(w, "sync")
      <3>1. k.at = "sync" /\ k.flow = f
        BY <2>3 DEF GoesTo, Becomes
      <3>2. j.dsl \in Listed(r, j.version) /\ CheckHTTPRoutes(f, j.dsl)
        BY <2>2, <2>3 DEF Knows, Candidates
      <3>3. r.live = NoDsl \/ r.live = j.dsl
        BY <2>3, <3>2 DEF Listed
      <3>4. CheckHTTPRoutes(f, r.live)
        BY <3>2, <3>3, CheckUnpublished
      <3>5. CheckHTTPRoutes(f, r.live)'
        BY <2>1, <3>1, <3>4, CheckStays
      <3> QED BY <2>1, <3>1, <3>5 DEF Knows
    <2>4. CASE Becomes(w, "write", f, j.dsl, r, j.todo)
      <3>1. /\ k.at = "write" /\ k.dsl = j.dsl /\ k.flow = f /\ k.kind = j.kind
            /\ k.version = j.version /\ k.seen = r
        BY <2>4 DEF Becomes
      <3>2. k.kind # "offline" => k.dsl \in Candidates(k, doc'[k.flow])
        <4>1. Candidates(k, r) = Candidates(j, r)
          BY <3>1 DEF Candidates
        <4> QED BY <2>1, <2>2, <3>1, <4>1 DEF Knows
      <3>3. k.kind # "offline" => CheckHTTPRoutes(f, j.dsl)'
        BY <2>1, <2>2, <3>1, CheckStays DEF Knows
      <3> QED BY <2>1, <3>1, <3>2, <3>3 DEF Knows
    <2> QED BY <1>3, <2>3, <2>4, ReadForm DEF Ends
  <1>4. CASE StoreWrite(w)
    <2>1. /\ w \notin Busy /\ Busy' = Busy /\ UNCHANGED tableVars /\ w \in Underway
          /\ j.at = "write" /\ JobOK(j) /\ Knows(w) /\ Installs(j, doc'[f])
      BY <1>4, WriteForm, JobType DEF StoreWrite, Busy, JobsOK, Underway
    <2>2. /\ k.at = "sync" /\ k.flow = f
          /\ k.kind = j.kind /\ k.version = j.version /\ k.seen = j.seen
      BY <1>4, WriteForm DEF GoesTo, Becomes
    <2>3. ASSUME Unambiguous(k) PROVE CheckHTTPRoutes(f, doc'[f].live)
      <3>1. Unambiguous(j)
        BY <2>2, <2>3, SameKnowledge
      <3>2. j.kind # "offline" => j.dsl \in Candidates(j, j.seen) /\ CheckHTTPRoutes(f, j.dsl)
        BY <2>1 DEF Knows
      <3>3. doc'[f].live = NoDsl \/ (j.kind # "offline" /\ doc'[f].live = j.dsl)
        BY <2>1, <3>1, <3>2, InstallsCandidate
      <3> QED BY <3>2, <3>3, CheckUnpublished
    <2>4. PICK d : d = doc'[f].live
      OBVIOUS
    <2>5. Unambiguous(k) => CheckHTTPRoutes(f, d)'
      BY <2>1, <2>2, <2>3, <2>4, CheckStays
    <2>6. d = doc'[k.flow].live
      BY <2>2, <2>4
    <2> QED BY <2>1, <2>2, <2>5, <2>6 DEF Knows
  <1>5. CASE HandlerSync(w)
    <2>1. /\ w \in Underway /\ j.at = "sync" /\ f \in Flows /\ r.live \in Dsls \cup {NoDsl}
          /\ SyncBegin(w, f, r.live) /\ Knows(w) /\ Underway = {w}
      BY <1>5, SyncForm DEF Underway
    <2>2. /\ k.at = "syncing" /\ k.kind = j.kind /\ k.version = j.version /\ k.seen = j.seen
      BY <1>5, SyncForm DEF Becomes
    <2>3. Busy = {}
      BY <2>1, BeginTask DEF JobsOK, Busy, Underway
    <2>4. Unambiguous(j) => {"checked", "quiet"} \subseteq task'[w].marks
      BY <2>1, <2>3, BeginTask DEF Knows
    <2> QED BY <2>2, <2>4, SameKnowledge DEF Knows
  <1>6. CASE HandlerReturn(w)
    <2>1. k.at = "mqtt" /\ w \notin Busy /\ Busy' = Busy
      BY <1>6, ReturnForm DEF Ends, GoesTo, Becomes, HandlerReturn, Busy
    <2> QED BY <2>1 DEF Knows
  <1>7. CASE HandlerMqtt(w)
    BY <1>7, MqttForm DEF Ends
  <1> QED BY <1>0, <1>1, <1>2, <1>3, <1>4, <1>5, <1>6, <1>7 DEF Handler

LEMMA QuietKept ==
    TypeOK /\ JobsOK /\ QuietKnows /\ [PublishingNext]_allVars => QuietKnows'
  <1> SUFFICES ASSUME TypeOK, JobsOK, QuietKnows, [PublishingNext]_allVars,
                      NEW v \in Workers, job'[v] # NoJob, "quiet" \in job'[v].marks
               PROVE  Underway' = {v} /\ (job'[v].kind # "boot" => Knows(v)')
    BY DEF QuietKnows, Underway
  <1>1. ASSUME v \in Underway, "quiet" \in job[v].marks
        PROVE  Underway = {v} /\ (job[v].kind # "boot" => Knows(v))
    BY <1>1 DEF QuietKnows
  <1>2. ASSUME Handler(v) \/ StartAll(v)
        PROVE  Underway' = {v} /\ (job'[v].kind # "boot" => Knows(v)')
    <2>1. CASE Narrows(v)
      <3>1. v \in Underway /\ "quiet" \in job[v].marks
        BY <2>1 DEF Narrows
      <3>2. Underway = {v}
        BY <1>1, <3>1
      <3>3. Underway' = {v}
        BY <2>1, <3>2 DEF Narrows, Others, Underway
      <3>4. job[v].kind # "boot" => Knows(v)
        BY <1>1, <3>1
      <3>5. CASE Handler(v)
        <4>1. job[v].kind # "boot"
          BY <3>1, <3>5, HandlerKind
        <4> QED BY <3>2, <3>3, <3>4, <3>5, <4>1, KnowsHandler
      <3>6. CASE StartAll(v)
        <4>1. job'[v].kind = "boot"
          BY <3>6, BootBeginForm, BeginForm, BootSyncForm, BootNextForm, BootMqttForm,
             BootMqttSyncForm, BootEndForm
          DEF StartAll, Becomes, Ends, Opens, Like
        <4> QED BY <3>3, <4>1
      <3> QED BY <1>2, <3>5, <3>6
    <2>2. CASE \E j : Opens(v, j)
      <3>1. Underway = {} /\ Underway' = {v}
        BY <2>2, OpenSides DEF Opens
      <3>2. CASE Handler(v)
        BY <3>1, <3>2, KnowsHandler
      <3>3. CASE StartAll(v)
        <4>1. job'[v].kind = "boot"
          BY <3>3, BootBeginForm, BeginForm, BootSyncForm, BootNextForm, BootMqttForm,
             BootMqttSyncForm, BootEndForm
          DEF StartAll, Becomes, Ends, Opens, Like
        <4> QED BY <3>1, <4>1
      <3> QED BY <1>2, <3>2, <3>3
    <2> QED BY <1>2, <2>1, <2>2, WorkerSteps
  <1>3. ASSUME NEW w \in Workers \ {v}, Handler(w) \/ StartAll(w) PROVE FALSE
    <2>1. v \in Underway /\ Stays(v)
      BY <1>3, WorkerSides
    <2>2. w \notin Underway
      BY <1>1, <2>1 DEF Stays
    <2>3. Request(w) \/ BootBegin(w)
      BY <1>3, <2>2, GetForm, CheckForm, ReadForm, WriteForm, SyncForm, ReturnForm, MqttForm,
         BootSyncForm, BootNextForm, BootMqttForm, BootMqttSyncForm, BootEndForm
      DEF Handler, StartAll, Underway
    <2> QED BY <1>3, <2>1, <2>3, RequestForm, BootBeginForm, BeginForm
  <1>4. CASE SaveDraft \/ UNCHANGED allVars
    <2>1. v \in Underway /\ Stays(v) /\ Underway' = Underway
      BY <1>4, RestSteps DEF Underway
    <2>2. UNCHANGED tableVars /\ UNCHANGED task /\ Busy' = Busy
      BY <1>4 DEF SaveDraft, allVars, tableVars, Busy
    <2>3. Underway = {v} /\ Like(job'[v], job[v]) /\ (job[v].kind # "boot" => Knows(v))
      BY <1>1, <2>1 DEF Stays
    <2>4. ASSUME job[v].kind # "boot" PROVE doc'[job[v].flow] = doc[job[v].flow]
      <3>1. job[v].flow \in Flows
        BY <2>1, <2>4, JobType DEF JobOK, Underway
      <3> QED BY <1>4, <2>1, <3>1, DraftForm DEF allVars
    <2>5. ASSUME job[v].kind # "boot" PROVE Knows(v)'
      <3> DEFINE j == job[v]
                 k == job'[v]
      <3>1. /\ k.at = j.at /\ k.kind = j.kind /\ k.dsl = j.dsl /\ k.flow = j.flow
            /\ k.seen = j.seen /\ k.version = j.version
        BY <2>3 DEF Like
      <3>2. doc'[k.flow] = doc[j.flow]
        BY <2>4, <2>5, <3>1
      <3>3. Candidates(k, doc[j.flow]) = Candidates(j, doc[j.flow])
            /\ (Unambiguous(k) <=> Unambiguous(j))
        BY <3>1, SameKnowledge
      <3>4. \A d : CheckHTTPRoutes(j.flow, d) => CheckHTTPRoutes(j.flow, d)'
        BY <2>2, <3>1, CheckStays
      <3> QED BY <2>2, <2>3, <2>5, <3>1, <3>2, <3>3, <3>4 DEF Knows
    <2> QED BY <2>1, <2>3, <2>5 DEF Like
  <1>5. ASSUME NEW w \in Workers, Syncing(w)
        PROVE  Underway' = {v} /\ (job'[v].kind # "boot" => Knows(v)')
    <2>1. v \in Underway /\ Stays(v) /\ Underway' = Underway /\ UNCHANGED <<job, doc>>
      BY <1>5, RestSteps DEF Underway, Syncing, storeVars
    <2>2. Underway = {v} /\ (job[v].kind # "boot" => Knows(v)) /\ w \in Busy
      BY <1>1, <1>5, <2>1, StepTask DEF Stays, Syncing
    <2>3. v = w /\ job[v].at = "syncing"
      BY <2>2 DEF JobsOK, Busy, Underway
    <2>4. v \in Busy' => task'[v].marks = task[v].marks
      BY <1>5, <2>3, StepTask DEF Syncing, Busy, GoesOn
    <2>5. job[v].kind # "boot" => Knows(v)'
      BY <2>1, <2>2, <2>3, <2>4 DEF Knows, Unambiguous
    <2> QED BY <2>1, <2>2, <2>5
  <1>6. CASE Restart
    BY <1>6, RestartJobs DEF Underway
  <1> QED BY <1>2, <1>3, <1>4, <1>5, <1>6 DEF PublishingNext

----------------------------------------------------------------------------
(* The theorems.                                                           *)

PublishingInv == /\ CoreInv /\ AloneExact /\ TodoOnce /\ HoldsLive /\ Synced
                 /\ Served /\ Followed /\ QuietKnows

LEMMA PublishingStart == PublishingInit => PublishingInv
  <1>1. PublishingInit => Underway = {} /\ served = {} /\ followed = {}
    BY DEF PublishingInit, Underway
  <1> QED BY <1>1, CoreStart DEF PublishingInv, AloneExact, TodoOnce, HoldsLive, Synced, Served,
             Followed, QuietKnows

LEMMA PublishingKept == PublishingInv /\ [PublishingNext]_allVars => PublishingInv'
  <1>1. PublishingInv => TypeOK /\ JobsOK
    BY DEF PublishingInv, CoreInv, TableInv
  <1> QED BY <1>1, CoreKept, AloneKept, OnceKept, HoldsKept, SyncedKept, ServedKept, FollowedKept,
             QuietKept DEF PublishingInv

LEMMA PublishingInvariant == PublishingSpec => []PublishingInv
  BY PublishingStart, PublishingKept, PTL DEF PublishingSpec

\* What a flow answers with, once its last job had it to itself and succeeded, is what its
\* document says is published.
THEOREM ServedCorrect == PublishingSpec => []ServedAsPublished
  <1>1. PublishingInv => ServedAsPublished
    BY DEF PublishingInv, Served, ServedAsPublished
  <1> QED BY <1>1, PublishingInvariant, PTL

\* A flow whose last job had it to itself is never left with the MQTT nodes of an earlier
\* publication.
THEOREM MqttCorrect == PublishingSpec => []MqttAsPublished
  <1>1. PublishingInv => MqttAsPublished
    BY DEF PublishingInv, Followed, MqttAsPublished
  <1> QED BY <1>1, PublishingInvariant, PTL

\* A handler that nothing overlaps can mount what it checked.
THEOREM QuietCorrect == PublishingSpec => []QuietHandlerNotRefused
  <1>1. PublishingInv => QuietHandlerNotRefused
    <2> SUFFICES ASSUME PublishingInv, NEW w \in Busy, history = "clean", job[w].kind # "boot",
                        "quiet" \in job[w].marks, Adding(w), Unambiguous(job[w])
                 PROVE  ~TlsMismatch(w) /\ ~RouteConflict(w)
      BY DEF QuietHandlerNotRefused, Unambiguous
    <2>1. w \in Underway /\ w \in Workers
      BY DEF PublishingInv, CoreInv, JobsOK, Busy, Underway
    <2>2. {"checked", "quiet"} \subseteq task[w].marks
      BY <2>1 DEF PublishingInv, QuietKnows, Knows
    <2>3. CheckedSyncNotRefused
      BY ReadyNotRefused DEF PublishingInv, CoreInv, TableInv
    <2> QED BY <2>1, <2>2, <2>3 DEF CheckedSyncNotRefused
  <1> QED BY <1>1, PublishingInvariant, PTL

----------------------------------------------------------------------------
(* Publishing keeps the promise of PublishedFlows.                         *)

\* Where the phase of a flow comes from.
PhaseForm(f) ==
    /\ history # "clean" => Phase(f) = "broken"
    /\ history = "clean" /\ AtWork(f) = {} /\ f \in served => Phase(f) = "kept"
    /\ history = "clean" /\ AtWork(f) = {} /\ f \notin served => Phase(f) = "idle"
    /\ history = "clean" => \A w \in AtWork(f) :
           /\ "alone" \notin job[w].marks => Phase(f) = "shared"
           /\ "alone" \in job[w].marks => AtWork(f) = {w} /\ Phase(f) = Progress(w, f)

LEMMA ProgressRange ==
    \A w, f : Progress(w, f) \in {"begun", "stored", "mounting", "failed"}
  BY DEF Progress

LEMMA PhaseHolds == AloneExact => \A f \in Flows : PhaseForm(f)
  <1> SUFFICES ASSUME AloneExact, NEW f \in Flows PROVE PhaseForm(f)
    OBVIOUS
  <1>1. ASSUME NEW w \in AtWork(f), "alone" \in job[w].marks PROVE AtWork(f) = {w}
    BY <1>1 DEF AtWork, AloneExact, Overlap
  <1>2. ASSUME history = "clean", NEW w \in AtWork(f)
        PROVE  /\ "alone" \notin job[w].marks => Phase(f) = "shared"
               /\ "alone" \in job[w].marks => AtWork(f) = {w} /\ Phase(f) = Progress(w, f)
    <2>1. CASE "alone" \notin job[w].marks
      BY <1>2, <2>1 DEF Phase
    <2>2. CASE "alone" \in job[w].marks
      <3>1. AtWork(f) = {w}
        BY <1>1, <1>2, <2>2
      <3>2. (CHOOSE v \in AtWork(f) : TRUE) = w
        BY <3>1
      <3> QED BY <1>2, <2>2, <3>1, <3>2 DEF Phase
    <2> QED BY <2>1, <2>2
  <1> QED BY <1>2 DEF PhaseForm, Phase

LEMMA PhaseNext == AloneExact' => \A f \in Flows : PhaseForm(f)'
  <1>1. (AloneExact => \A f \in Flows : PhaseForm(f))'
    BY PhaseHolds, PTL
  <1> QED BY <1>1

LEMMA PhaseRange ==
    ASSUME AloneExact, NEW f \in Flows
    PROVE  /\ Phase(f) \in Promise!Phases
           /\ history = "clean" => Phase(f) # "broken"
  <1>1. PhaseForm(f)
    BY PhaseHolds
  <1>2. CASE history = "clean" /\ AtWork(f) # {}
    <2>1. PICK w : w \in AtWork(f)
      BY <1>2
    <2>2. Phase(f) \in {"shared", "begun", "stored", "mounting", "failed"}
      BY <1>1, <1>2, <2>1, ProgressRange DEF PhaseForm
    <2> QED BY <2>2 DEF Promise!Phases
  <1> QED BY <1>1, <1>2 DEF PhaseForm, Promise!Phases

\* The routes that answer are routes of definitions.
LEMMA AnswersRange ==
    TypeOK /\ TlsUniform => \A f \in Flows : Answers(f) \subseteq Promise!AllRoutes
  <1> SUFFICES ASSUME TypeOK, TlsUniform, NEW f \in Flows, NEW ap \in Owned(f)
               PROVE  <<ap[1], ap[2], routes[ap[1]][ap[2]].dsl>> \in Promise!AllRoutes
    BY DEF Answers
  <1> DEFINE t == routes[ap[1]][ap[2]]
             d == t.dsl
  <1>1. ap[1] \in Addrs /\ ap[2] \in Live(ap[1]) /\ t \in Targets
    BY DEF Owned, Owns, Live, TypeOK
  <1>2. d \in Dsls
    BY <1>1 DEF Targets
  <1>3. t.router \in DOMAIN d /\ d[t.router].addr = ap[1] /\ d[t.router].pattern = ap[2]
    BY <1>1 DEF TlsUniform
  <1> HIDE DEF t, d
  <1>4. d # NoDsl
    BY <1>2, NullsAssumption
  <1>5. <<ap[1], ap[2], d>> \in RoutesOf(d)
    BY <1>3, <1>4 DEF RoutesOf
  <1>6. d \in Dsls \cup {NoDsl} /\ [e \in Dsls \cup {NoDsl} |-> RoutesOf(e)][d] = RoutesOf(d)
    BY <1>2
  <1> QED BY <1>5, <1>6 DEF Promise!AllRoutes, Promise!Published, d, t

\* What a step does to a flow, in the words of PublishedFlows.
Moves(f, from, to) == Phase(f) \in from /\ Phase(f)' \in to

Keeping(f) == doc'[f].live = doc[f].live /\ Answers(f)' = Answers(f)

LEMMA GoesForm ==
    ASSUME NEW f \in Flows, NEW x, NEW y, Moves(f, x, y)
    PROVE  Promise!Goes(f, x, y)
  BY DEF Promise!Goes, Moves

LEMMA KeepsForm ==
    ASSUME NEW f \in Flows, Keeping(f)
    PROVE  Promise!Keeps(f)
  BY DEF Promise!Keeps, Keeping

LEMMA KeepingSteps ==
    ASSUME NEW f \in Flows, Keeping(f),
           \/ Phase(f)' = Phase(f)
           \/ Moves(f, {"idle", "kept"}, {"begun", "stored"})
           \/ Moves(f, {"begun"}, {"idle"})
           \/ Moves(f, {"mounting"}, {"failed"})
           \/ Moves(f, {"failed"}, {"idle"})
           \/ Moves(f, Promise!Phases \ {"broken"}, {"shared"})
    PROVE  Promise!Step(f)
  <1>1. Promise!Keeps(f)
    BY KeepsForm
  <1>2. CASE Phase(f)' = Phase(f)
    BY <1>1, <1>2 DEF Promise!Rests, Promise!Step
  <1>3. CASE Moves(f, {"idle", "kept"}, {"begun", "stored"})
    BY <1>1, <1>3, GoesForm DEF Promise!Begin, Promise!Step
  <1>4. CASE Moves(f, {"begun"}, {"idle"})
    BY <1>1, <1>4, GoesForm DEF Promise!Refuse, Promise!Step
  <1>5. CASE Moves(f, {"mounting"}, {"failed"})
    BY <1>1, <1>5, GoesForm DEF Promise!Fail, Promise!Step
  <1>6. CASE Moves(f, {"failed"}, {"idle"})
    BY <1>1, <1>6, GoesForm DEF Promise!GiveUp, Promise!Step
  <1>7. CASE Moves(f, Promise!Phases \ {"broken"}, {"shared"})
    BY <1>1, <1>7, GoesForm DEF Promise!Join, Promise!Step
  <1> QED BY <1>2, <1>3, <1>4, <1>5, <1>6, <1>7

\* A step that leaves a flow its jobs, where they were, changes nothing of it, or takes
\* from a job that had it to itself the mark that says so.
LEMMA Bystanders ==
    ASSUME AloneExact, AloneExact', NEW f \in Flows, Keeping(f),
           history = "clean", history' = "clean", f \in served' <=> f \in served,
           AtWork(f)' = AtWork(f),
           \A v \in AtWork(f) : job'[v].marks \subseteq job[v].marks,
           \A v \in AtWork(f) : Progress(v, f)' = Progress(v, f)
    PROVE  Promise!Step(f)
  <1>1. PhaseForm(f)
    BY PhaseHolds
  <1>2. PhaseForm(f)'
    BY PhaseNext
  <1>3. Phase(f) \in Promise!Phases \ {"broken"}
    BY PhaseRange
  <1>4. CASE AtWork(f) = {}
    <2>1. Phase(f)' = Phase(f)
      BY <1>1, <1>2, <1>4 DEF PhaseForm
    <2> QED BY <2>1, KeepingSteps
  <1>5. ASSUME NEW v \in AtWork(f) PROVE Promise!Step(f)
    <2>1. v \in AtWork(f)'
      BY <1>5
    <2>2. CASE "alone" \notin job'[v].marks
      <3>1. Phase(f)' = "shared"
        BY <1>2, <2>1, <2>2 DEF PhaseForm
      <3>2. Moves(f, Promise!Phases \ {"broken"}, {"shared"})
        BY <1>3, <3>1 DEF Moves
      <3> QED BY <3>2, KeepingSteps
    <2>3. CASE "alone" \in job'[v].marks
      <3>1. Phase(f)' = Progress(v, f)'
        BY <1>2, <2>1, <2>3 DEF PhaseForm
      <3>2. Phase(f) = Progress(v, f)
        BY <1>1, <1>5, <2>3 DEF PhaseForm
      <3> QED BY <1>5, <3>1, <3>2, KeepingSteps
    <2> QED BY <2>2, <2>3
  <1> QED BY <1>4, <1>5

LEMMA SameAnswers ==
    ASSUME NEW f \in Flows, SameRoutes(f)
    PROVE  Answers(f)' = Answers(f)
  <1>1. Owned(f)' = Owned(f)
    BY DEF Owned, SameRoutes
  <1>2. \A ap \in Owned(f) : routes'[ap[1]][ap[2]].dsl = routes[ap[1]][ap[2]].dsl
    BY DEF Owned, SameRoutes
  <1> QED BY <1>1, <1>2 DEF Answers

LEMMA SameTable ==
    ASSUME NEW f \in Flows, UNCHANGED tableVars
    PROVE  Answers(f)' = Answers(f)
  BY DEF Answers, Owned, Owns, tableVars

\* A call leaves the routes of other flows, even if it panics.
LEMMA OthersStay ==
    ASSUME TypeOK, ListenerInUse, NEW w \in Workers, SyncStep(w),
           NEW g \in Flows, g # task[w].flow
    PROVE  SameRoutes(g)
  <1>1. CASE RemoveStep(w)
    <2>1. PICK n \in Nat : task[w].flow \in Flows /\ Unload(task[w].flow, n)
      BY <1>1, StepUnloads DEF RemoveStep
    <2>2. ASSUME NEW a \in Addrs, NEW p \in Patterns, Owns(g, a, p)
          PROVE  p \notin Dropped(task[w].flow, n, a)
      BY <2>2 DEF Dropped, Owns
    <2>3. \A a \in Addrs, p \in Patterns :
              routes'[a][p] = IF p \in Dropped(task[w].flow, n, a) THEN NoTarget ELSE routes[a][p]
      BY <2>1, UnloadRoutes
    <2> QED BY <2>2, <2>3 DEF SameRoutes, Owns
  <1>2. CASE MountStep(w)
    BY <1>2, MountsOwn
  <1>3. CASE IdleStep(w)
    BY <1>3 DEF IdleStep, ParseFails, ListenFails, CertInvalid, RefuseRoute, AddFails, SyncReturn,
                tableVars, SameRoutes, Owns
  <1> QED BY <1>1, <1>2, <1>3 DEF SyncStep, RemoveStep, MountStep, IdleStep

\* The call of a goroutine whose job is elsewhere says nothing of a flow.
LEMMA SameProgress ==
    ASSUME NEW v, NEW f, job'[v].at = job[v].at, job'[v].flow = job[v].flow,
           job[v].at = "syncing" /\ job[v].flow = f => task'[v].pc = task[v].pc
    PROVE  Progress(v, f)' = Progress(v, f)
  BY DEF Progress

\* A call whose registration panicked has marked the history.
PanicDirty == \A w \in Workers : task[w].pc = "panic" => history # "clean"

LEMMA PanicKept == TypeOK /\ PanicDirty /\ [Next]_vars => PanicDirty'
  <1> SUFFICES ASSUME TypeOK, PanicDirty, [Next]_vars, NEW v \in Workers, task'[v].pc = "panic"
               PROVE  history' # "clean"
    BY DEF PanicDirty
  <1>0. task \in [Workers -> Tasks]
    BY DEF TypeOK
  <1>1. ASSUME NEW w \in Workers, SyncStep(w), v # w PROVE history' # "clean"
    <2>1. task[v].pc = "panic"
      BY <1>1, StepTask
    <2>2. history' = history \/ history' = "panicked"
      BY <1>1 DEF SyncStep, SyncRemove, SyncCleanup, SyncRemovePanics, RemoveFlow,
         RemoveFlowPanics, ParseFails, ListenFails, CertInvalid, RefuseRoute, AddFails, Rebind,
         AddRoute, SyncReturn, tableVars
    <2> QED BY <2>1, <2>2 DEF PanicDirty
  <1>2. ASSUME SyncStep(v) PROVE history' # "clean"
    BY <1>0, <1>2 DEF SyncStep, SyncRemove, SyncCleanup, SyncRemovePanics, RemoveFlowPanics,
       ParseFails, ListenFails, CertInvalid, RefuseRoute, AddFails, Rebind, AddRoute, SyncReturn,
       Finish, Over, Tasks, Adding
  <1>3. ASSUME NEW w \in Workers, NEW f \in Flows, NEW d \in Dsls \cup {NoDsl}, SyncBegin(w, f, d)
        PROVE  history' # "clean"
    <2>1. task[v].pc = "panic" /\ UNCHANGED tableVars
      BY <1>3, BeginTask
    <2> QED BY <2>1 DEF PanicDirty, tableVars
  <1>4. CASE UNCHANGED vars
    BY <1>4 DEF vars, PanicDirty
  <1> QED BY <1>1, <1>2, <1>3, <1>4 DEF Next

LEMMA PanicStart == Init => PanicDirty
  BY DEF Init, PanicDirty, Over

LEMMA LiveNext ==
    ASSUME JobsOK', NEW f \in Flows
    PROVE  doc'[f].live \in Promise!Published
  BY DEF JobsOK, FlowRecords, Promise!Published

LEMMA AnswersNext == TypeOK' /\ TlsUniform' => \A f \in Flows : Answers(f)' \subseteq Promise!AllRoutes
  <1>1. (TypeOK /\ TlsUniform => \A f \in Flows : Answers(f) \subseteq Promise!AllRoutes)'
    BY AnswersRange, PTL
  <1> QED BY <1>1

LEMMA ContendStep ==
    ASSUME JobsOK', TypeOK', TlsUniform', NEW f \in Flows, Moves(f, {"shared"}, {"shared", "idle"})
    PROVE  Promise!Step(f)
  <1>1. Promise!Goes(f, {"shared"}, {"shared", "idle"})
    BY GoesForm
  <1>2. doc'[f].live \in Promise!Published /\ Answers(f)' \subseteq Promise!AllRoutes
    BY LiveNext, AnswersNext
  <1>3. Promise!Contend(f)
    BY <1>1, <1>2 DEF Promise!Contend
  <1> QED BY <1>3 DEF Promise!Step

LEMMA BrokenStep ==
    ASSUME JobsOK', TypeOK', TlsUniform', NEW f \in Flows, history # "clean", history' # "clean"
    PROVE  Promise!Step(f)
  <1>1. Moves(f, {"broken"}, {"broken"})
    BY DEF Moves, Phase
  <1>2. Promise!Goes(f, {"broken"}, {"broken"})
    BY <1>1, GoesForm
  <1>3. doc'[f].live \in Promise!Published /\ Answers(f)' \subseteq Promise!AllRoutes
    BY LiveNext, AnswersNext
  <1>4. Promise!Broken(f)
    BY <1>2, <1>3 DEF Promise!Broken
  <1> QED BY <1>4 DEF Promise!Step

LEMMA RestartStep ==
    ASSUME JobsOK, Restart, NEW f \in Flows
    PROVE  Promise!Step(f)
  <1>1. Init' /\ Underway' = {} /\ served' = {}
    BY RestartJobs
  <1>2. AtWork(f)' = {} /\ history' = "clean"
    BY <1>1 DEF AtWork, Init
  <1>3. Phase(f)' = "idle"
    BY <1>1, <1>2 DEF Phase
  <1>4. Answers(f)' = {}
    <2>1. \A a \in Addrs, p \in Patterns : routes'[a][p] = NoTarget
      BY <1>1 DEF Init, NoRoutes
    <2>2. Owned(f)' = {}
      BY <2>1 DEF Owned, Owns
    <2> QED BY <2>2 DEF Answers
  <1>5. doc'[f].live = doc[f].live
    BY DEF Restart
  <1>6. Promise!Restart(f)
    BY <1>3, <1>4, <1>5 DEF Promise!Restart
  <1> QED BY <1>6 DEF Promise!Step

\* Where a job alone on its flow is in SyncFlow.
LEMMA SyncProgress ==
    ASSUME TypeOK, JobsOK, NEW w \in Workers, SyncStep(w)
    PROVE  /\ w \in AtWork(task[w].flow) /\ job[w].at = "syncing" /\ task[w].flow = job[w].flow
           /\ task[w].flow \in Flows /\ w \in Underway
           /\ Progress(w, task[w].flow) = IF task[w].pc = "remove" THEN "stored"
                                          ELSE IF task[w].pc = "add" THEN "mounting" ELSE "failed"
  <1>1. w \in Busy
    BY StepTask
  <1>2. job[w] # NoJob /\ job[w].at = "syncing" /\ job[w].flow = task[w].flow
    BY <1>1 DEF JobsOK
  <1>3. task[w].flow \in Flows /\ task[w].pc \in {"remove", "add", "cleanup"}
    BY <1>1 DEF TypeOK, Busy, Tasks, Outcomes
  <1>4. w \in AtWork(task[w].flow) /\ w \in Underway
    BY <1>2 DEF AtWork, Underway, On
  <1> QED BY <1>2, <1>3, <1>4 DEF Progress

\* A panic takes the routes of no flow but the one that is being synchronised.
LEMMA BreakStep ==
    ASSUME TableInv, JobsOK, AloneExact, JobsOK', TypeOK', TlsUniform', NEW f \in Flows,
           NEW w \in Workers, Syncing(w), history = "clean", history' # "clean"
    PROVE  Promise!Step(f)
  <1>1. SyncStep(w) /\ doc'[f].live = doc[f].live /\ TypeOK /\ ListenerInUse
    BY DEF Syncing, storeVars, TableInv
  <1>2. Phase(f) \in Promise!Phases \ {"broken"} /\ Phase(f)' = "broken"
    BY PhaseRange DEF Phase
  <1>3. Promise!Goes(f, Promise!Phases \ {"broken"}, {"broken"})
    BY <1>2, GoesForm DEF Moves
  <1>4. Phase(f) \in {"idle", "kept", "begun"} => Answers(f)' = Answers(f)
    <2>1. CASE f # task[w].flow
      BY <1>1, <2>1, OthersStay, SameAnswers
    <2>2. CASE f = task[w].flow
      <3>1. w \in AtWork(f) /\ Progress(w, f) \in {"stored", "mounting", "failed"}
        BY <1>1, <2>2, SyncProgress
      <3>2. PhaseForm(f)
        BY PhaseHolds
      <3>3. Phase(f) \in {"shared", "stored", "mounting", "failed"}
        BY <3>1, <3>2 DEF PhaseForm
      <3> QED BY <3>3
    <2> QED BY <2>1, <2>2
  <1>5. Answers(f)' \subseteq Promise!AllRoutes
    BY AnswersNext
  <1>6. Promise!Break(f)
    BY <1>1, <1>3, <1>4, <1>5 DEF Promise!Break
  <1> QED BY <1>6 DEF Promise!Step

\* A router that is mounted answers, beside those before it.
LEMMA MountAnswers ==
    ASSUME TypeOK, NEW w \in Workers, MountStep(w), history' = "clean", Installed(w),
           SyncStep(w), NEW f, f = task[w].flow, NEW d, d = task[w].dsl
    PROVE  \E r \in RoutesOf(d) : Answers(f)' = Answers(f) \cup {r}
  <1> DEFINE b == Router(w).addr
             q == Router(w).pattern
             r == <<b, q, d>>
             k == task[w].next
  <1>1. /\ Adding(w) /\ task'[w].pc = "add" /\ task'[w].next = task[w].next + 1
        /\ task'[w].flow = f /\ task'[w].dsl = d
    BY StepTask DEF GoesOn, Outcomes
  <1>2. Installed(w)'
    BY <1>1, MountInstalls
  <1>3. /\ b \in Addrs /\ q \in Patterns /\ k \in DOMAIN d
        /\ f \in Flows /\ NewTarget(w) # NoTarget /\ NewTarget(w).flow = f
        /\ \A a \in Addrs, p \in Patterns :
               routes'[a][p] = IF a = b /\ p = q THEN NewTarget(w) ELSE routes[a][p]
    BY MountRoutes DEF MountStep
  <1>4. d \in Dsls /\ d # NoDsl
    BY <1>1, NullsAssumption DEF TypeOK, Adding, Outcomes
  <1>5. d[k].addr = b /\ d[k].pattern = q
    BY DEF Router
  <1> HIDE DEF b, q, k
  <1>6. r \in RoutesOf(d)
    BY <1>3, <1>4, <1>5 DEF RoutesOf
  <1>7. Owned(f)' = Owned(f) \cup {<<b, q>>}
    BY <1>3 DEF Owned, Owns
  <1>8. /\ \A ap \in Owned(f) : routes[ap[1]][ap[2]].dsl = d
        /\ \A ap \in Owned(f)' : routes'[ap[1]][ap[2]].dsl = d
    BY <1>1, <1>2 DEF Installed
  <1> DEFINE F(ap) == <<ap[1], ap[2], d>>
  <1>9. Answers(f) = {F(ap) : ap \in Owned(f)}
    BY <1>8 DEF Answers
  <1>10. Answers(f)' = {F(ap) : ap \in Owned(f)'}
    BY <1>8 DEF Answers
  <1>11. F(<<b, q>>) = r
    OBVIOUS
  <1> HIDE DEF F
  <1>12. Answers(f)' = Answers(f) \cup {r}
    BY <1>7, <1>9, <1>10, <1>11
  <1> QED BY <1>6, <1>12

\* A step of SyncFlow by a job that has its flow to itself.
LEMMA OwnSyncing ==
    ASSUME TableInv, JobsOK, AloneExact, AloneExact', Synced, NEW w \in Workers, Syncing(w),
           history = "clean", history' = "clean", NEW f \in Flows, f = task[w].flow,
           "alone" \in job[w].marks
    PROVE  Promise!Step(f)
  <1> DEFINE d == task[w].dsl
             before == Progress(w, f)
             after == IF task'[w].pc \in {"add", "ok"} THEN "mounting"
                      ELSE IF task'[w].pc \in {"cleanup", "err"} THEN "failed" ELSE "stored"
  <1>1. /\ SyncStep(w) /\ UNCHANGED <<doc, job>> /\ TypeOK /\ ListenerInUse /\ IndexExact
        /\ task \in [Workers -> Tasks] /\ task[w] \in Tasks
    BY DEF Syncing, storeVars, TableInv, TypeOK
  <1>2. /\ w \in AtWork(f) /\ job[w].at = "syncing" /\ job[w].flow = f /\ w \in Underway
        /\ before = IF task[w].pc = "remove" THEN "stored"
                    ELSE IF task[w].pc = "add" THEN "mounting" ELSE "failed"
    BY <1>1, SyncProgress
  <1>3. w \in Busy /\ "solo" \in task[w].marks /\ d = doc[f].live
    BY <1>1, <1>2, StepTask DEF Synced
  <1>4. Phase(f) = before
    BY <1>2, PhaseHolds DEF PhaseForm
  <1>5. Phase(f)' = after
    <2>1. PhaseForm(f)'
      BY PhaseNext
    <2>2. w \in AtWork(f)' /\ job'[w] = job[w]
      BY <1>1, <1>2 DEF AtWork, Underway
    <2>3. Phase(f)' = Progress(w, f)'
      BY <2>1, <2>2 DEF PhaseForm
    <2> QED BY <1>2, <2>2, <2>3 DEF Progress
  <1>6. doc'[f].live = doc[f].live
    BY <1>1
  <1> HIDE DEF before
  <1>7. CASE SyncRemove(w) \/ SyncCleanup(w)
    <2>1. RemoveFlow(f)
      BY <1>7 DEF SyncRemove, SyncCleanup
    <2>2. Owned(f)' = {}
      BY <1>1, <2>1, RemovesOwn
    <2>3. Answers(f)' = {}
      BY <2>2 DEF Answers
    <2>4. CASE SyncRemove(w)
      <3>1. before = "stored"
        BY <1>2, <2>4 DEF SyncRemove
      <3>2. task'[w].pc \in {"add", "ok"}
        BY <1>1, <2>4 DEF SyncRemove, Finish, Over, Tasks
      <3>3. Promise!Goes(f, {"stored"}, {"mounting"})
        BY <1>4, <1>5, <3>1, <3>2, GoesForm DEF Moves
      <3>4. Promise!Unload(f)
        BY <1>6, <2>3, <3>3 DEF Promise!Unload
      <3> QED BY <3>4 DEF Promise!Step
    <2>5. CASE SyncCleanup(w)
      <3>1. before = "failed"
        BY <1>2, <2>5 DEF SyncCleanup
      <3>2. task'[w].pc = "err"
        BY <1>1, <2>5 DEF SyncCleanup, Finish, Over
      <3>3. Promise!Goes(f, {"failed"}, {"failed"})
        BY <1>4, <1>5, <3>1, <3>2, GoesForm DEF Moves
      <3>4. Promise!Withdraw(f)
        BY <1>6, <2>3, <3>3 DEF Promise!Withdraw
      <3> QED BY <3>4 DEF Promise!Step
    <2> QED BY <1>7, <2>4, <2>5
  <1>8. CASE IdleStep(w)
    <2>1. UNCHANGED tableVars /\ task[w].pc = "add"
      BY <1>8 DEF IdleStep, ParseFails, ListenFails, CertInvalid, RefuseRoute, AddFails,
                  SyncReturn, Adding
    <2>2. Keeping(f)
      BY <1>6, <2>1, SameTable DEF Keeping
    <2>3. task'[w].pc \in {"ok", "err", "cleanup"}
      BY <1>1, <1>8 DEF IdleStep, ParseFails, ListenFails, CertInvalid, RefuseRoute, AddFails,
                        SyncReturn, Finish, Over, Tasks
    <2>4. Phase(f)' = Phase(f) \/ Moves(f, {"mounting"}, {"failed"})
      BY <1>2, <1>4, <1>5, <2>1, <2>3 DEF Moves
    <2> QED BY <2>2, <2>4, KeepingSteps
  <1>9. CASE MountStep(w)
    <2>1. Adding(w) /\ task'[w].pc = "add"
      BY <1>1, <1>9, StepTask
    <2>2. Installed(w)
      BY <1>3, <2>1 DEF TableInv, SoloSyncExact, Installed, Adding
    <2>3. PICK r \in RoutesOf(d) : Answers(f)' = Answers(f) \cup {r}
      BY <1>1, <1>9, <2>2, MountAnswers
    <2>4. d \in Dsls \cup {NoDsl}
      BY <1>1 DEF Tasks
    <2>5. Promise!Goes(f, {"mounting"}, {"mounting"})
      BY <1>2, <1>4, <1>5, <2>1, GoesForm DEF Moves, Adding
    <2>6. [e \in Dsls \cup {NoDsl} |-> RoutesOf(e)][doc[f].live] = RoutesOf(d)
      BY <1>3, <2>4
    <2>7. Promise!Mount(f)
      BY <1>6, <2>3, <2>5, <2>6 DEF Promise!Mount
    <2> QED BY <2>7 DEF Promise!Step
  <1>10. ~SyncRemovePanics(w)
    BY DEF SyncRemovePanics, RemoveFlowPanics
  <1> QED BY <1>1, <1>7, <1>8, <1>9, <1>10 DEF SyncStep, IdleStep, MountStep

\* A step of SyncFlow.
LEMMA SyncingFlow ==
    ASSUME TableInv, JobsOK, AloneExact, Synced, TypeOK', TlsUniform', JobsOK', AloneExact',
           NEW w \in Workers, Syncing(w), history = "clean", history' = "clean", NEW f \in Flows
    PROVE  Promise!Step(f)
  <1>1. /\ SyncStep(w) /\ UNCHANGED <<doc, job, served>> /\ TypeOK /\ ListenerInUse
    BY DEF Syncing, storeVars, TableInv
  <1>2. AtWork(f)' = AtWork(f)
    BY <1>1 DEF AtWork, Underway
  <1>3. CASE f # task[w].flow
    <2>1. Keeping(f)
      BY <1>1, <1>3, OthersStay, SameAnswers DEF Keeping
    <2>2. ASSUME NEW v \in AtWork(f)
          PROVE  job'[v].marks \subseteq job[v].marks /\ Progress(v, f)' = Progress(v, f)
      <3>1. v \in Workers /\ job'[v] = job[v]
        BY <1>1 DEF AtWork, Underway
      <3>2. job[v].at = "syncing" /\ job[v].flow = f => task'[v].pc = task[v].pc
        BY <1>1, <1>3, <3>1, SyncProgress, StepTask
      <3> QED BY <3>1, <3>2, SameProgress
    <2> QED BY <1>1, <1>2, <2>1, <2>2, Bystanders
  <1>4. CASE f = task[w].flow /\ "alone" \in job[w].marks
    BY <1>4, OwnSyncing
  <1>5. CASE f = task[w].flow /\ "alone" \notin job[w].marks
    <2>1. w \in AtWork(f) /\ w \in AtWork(f)' /\ "alone" \notin job'[w].marks
      BY <1>1, <1>2, <1>5, SyncProgress
    <2>2. PhaseForm(f) /\ PhaseForm(f)'
      BY PhaseHolds, PhaseNext
    <2>3. Moves(f, {"shared"}, {"shared", "idle"})
      BY <1>5, <2>1, <2>2 DEF PhaseForm, Moves
    <2> QED BY <2>3, ContendStep
  <1> QED BY <1>3, <1>4, <1>5

\* What a step of a worker leaves of the others at work on a flow.
LEMMA Besides ==
    ASSUME TypeOK, JobsOK, NEW w \in Workers, Handler(w) \/ StartAll(w), NEW f \in Flows,
           NEW v \in Workers \ {w}
    PROVE  /\ v \in AtWork(f)' <=> v \in AtWork(f)
           /\ v \in AtWork(f) => /\ job'[v].marks \subseteq job[v].marks
                                 /\ Progress(v, f)' = Progress(v, f)
  <1>1. v \in Underway => job'[v] # NoJob
    <2>1. CASE Narrows(w)
      BY <2>1 DEF Narrows, Others, Underway
    <2>2. CASE \E j : Opens(w, j)
      BY <2>2, JobNotNull DEF Opens, Stays, Like
    <2> QED BY <2>1, <2>2, WorkerSteps
  <1>2. job'[v] # NoJob => v \in Underway /\ Stays(v) /\ Like(job'[v], job[v])
    BY WorkerSides
  <1>3. task'[v].pc = task[v].pc
    <2>1. CASE HandlerSync(w) \/ BootSync(w)
      BY <2>1, SyncSteps, BeginTask
    <2>2. CASE ~HandlerSync(w) /\ ~BootSync(w)
      BY <2>2, PlainSteps
    <2> QED BY <2>1, <2>2
  <1>4. v \in AtWork(f)' <=> v \in AtWork(f)
    BY <1>1, <1>2, LikeOn DEF AtWork, Underway, Like
  <1>5. ASSUME v \in AtWork(f)
        PROVE  job'[v].marks \subseteq job[v].marks /\ Progress(v, f)' = Progress(v, f)
    <2>1. Stays(v) /\ Like(job'[v], job[v])
      BY <1>1, <1>2, <1>5 DEF AtWork
    <2>2. job'[v].at = job[v].at /\ job'[v].flow = job[v].flow
      BY <2>1 DEF Like
    <2>3. Progress(v, f)' = Progress(v, f)
      BY <1>3, <2>2, SameProgress
    <2> QED BY <2>1, <2>3 DEF Stays
  <1> QED BY <1>4, <1>5

\* A worker is at work on a flow because it was, or because its job begins.
LEMMA OldJob ==
    ASSUME JobsOK, NEW w \in Workers, Handler(w) \/ StartAll(w), ~Request(w), ~BootBegin(w),
           job'[w] # NoJob, job'[w].at # "mqtt", NEW f \in Flows, On(job'[w], f)
    PROVE  /\ w \in Underway /\ job[w].at # "mqtt" /\ On(job[w], f)
           /\ job'[w].marks = job[w].marks
  <1>0. NoFlow \notin Flows
    BY NullsAssumption
  <1>1. CASE HandlerGet(w) \/ HandlerCheck(w) \/ StoreRead(w) \/ StoreWrite(w)
    <2>1. job[w] # NoJob /\ job[w].at # "mqtt"
      BY <1>1, GetForm, CheckForm, ReadForm, WriteForm
    <2>2. \E x, d, r : Becomes(w, x, job[w].flow, d, r, job[w].todo)
      BY <1>1, GetForm, CheckForm, ReadForm, WriteForm DEF Ends, GoesTo
    <2> QED BY <2>1, <2>2 DEF Becomes, On, Underway
  <1>2. CASE HandlerSync(w)
    BY <1>2, SyncForm DEF Becomes, On, Underway
  <1>3. CASE HandlerReturn(w) \/ HandlerMqtt(w) \/ BootMqtt(w) \/ BootMqttSync(w) \/ BootEnd(w)
    BY <1>3, ReturnForm, MqttForm, BootMqttForm, BootMqttSyncForm, BootEndForm
    DEF Ends, GoesTo, Becomes, Opens, Like
  <1>4. CASE BootSync(w)
    BY <1>4, BootSyncForm DEF Becomes, On, Underway
  <1>5. CASE BootNext(w)
    BY <1>0, <1>5, BootNextForm DEF Becomes, On, Underway
  <1> QED BY <1>1, <1>2, <1>3, <1>4, <1>5 DEF Handler, StartAll

LEMMA Newcomer ==
    ASSUME JobsOK, NEW w \in Workers, Handler(w) \/ StartAll(w), NEW f \in Flows,
           w \notin AtWork(f), w \in AtWork(f)'
    PROVE  /\ Request(w) \/ BootBegin(w)
           /\ UNCHANGED doc /\ f \notin served' /\ job'[w].at \in {"get", "sync"}
           /\ \A v \in Underway \ {w} : On(job[v], f) => "alone" \notin job'[v].marks
           /\ Progress(w, f)' \in {"begun", "stored"}
  <1>1. job'[w] # NoJob /\ job'[w].at # "mqtt" /\ On(job'[w], f)
    BY DEF AtWork, Underway
  <1>2. Request(w) \/ BootBegin(w)
    <2> SUFFICES ASSUME ~Request(w), ~BootBegin(w) PROVE FALSE
      OBVIOUS
    <2>1. w \in Underway /\ job[w].at # "mqtt" /\ On(job[w], f)
      BY <1>1, OldJob
    <2> QED BY <2>1 DEF AtWork
  <1>3. PICK j \in Jobs : j.at \in {"get", "sync"} /\ Begin(w, j)
    BY <1>2, RequestForm, BootBeginForm
  <1>4. Opens(w, j) /\ served' = {g \in served : ~On(j, g)}
    BY <1>3, BeginForm
  <1>5. Like(job'[w], j)
    BY <1>4 DEF Opens
  <1>6. On(j, f) /\ job'[w].at \in {"get", "sync"}
    BY <1>1, <1>3, <1>5, LikeOn DEF Like
  <1>7. f \notin served'
    BY <1>4, <1>6
  <1>8. \A v \in Underway \ {w} : On(job[v], f) => "alone" \notin job'[v].marks
    BY <1>4, <1>6 DEF Opens, Overlap
  <1>9. Progress(w, f)' \in {"begun", "stored"}
    BY <1>6 DEF Progress
  <1>10. UNCHANGED doc
    BY <1>2 DEF Request, BootBegin
  <1> QED BY <1>2, <1>6, <1>7, <1>8, <1>9, <1>10

LEMMA Leaver ==
    ASSUME JobsOK, NEW w \in Workers, Handler(w) \/ StartAll(w), NEW f \in Flows,
           w \in AtWork(f), w \notin AtWork(f)'
    PROVE  /\ UNCHANGED doc
           /\ \/ job[w].at \in {"get", "check", "read"}
              \/ /\ HandlerReturn(w) \/ BootNext(w)
                 /\ job[w].at = "syncing" /\ job[w].flow = f
  <1>1. w \in Underway /\ job[w] # NoJob /\ job[w].at # "mqtt" /\ On(job[w], f)
        /\ JobOK(job[w])
    BY JobType DEF AtWork, Underway
  <1>2. job'[w] = NoJob \/ job'[w].at = "mqtt" \/ ~On(job'[w], f)
    BY DEF AtWork, Underway
  <1>3. CASE HandlerGet(w) \/ HandlerCheck(w) \/ StoreRead(w)
    BY <1>3, GetForm, CheckForm, ReadForm DEF HandlerGet, HandlerCheck, StoreRead
  <1>4. ~Request(w) /\ ~BootBegin(w)
    BY <1>1, RequestForm, BootBeginForm, BeginForm
  <1>5. ~StoreWrite(w)
    <2> SUFFICES ASSUME StoreWrite(w) PROVE FALSE
      OBVIOUS
    <2>1. GoesTo(w, "sync")
      BY WriteForm
    <2> QED BY <1>1, <1>2, <2>1, JobNotNull DEF GoesTo, Becomes, On
  <1>6. ~HandlerSync(w)
    <2> SUFFICES ASSUME HandlerSync(w) PROVE FALSE
      OBVIOUS
    <2>1. Becomes(w, "syncing", job[w].flow, doc[job[w].flow].live, job[w].seen, job[w].todo)
      BY SyncForm
    <2> QED BY <1>1, <1>2, <2>1, JobNotNull DEF Becomes, On
  <1>7. ~BootSync(w)
    <2> SUFFICES ASSUME BootSync(w) PROVE FALSE
      OBVIOUS
    <2>1. PICK p \in job[w].todo :
              Becomes(w, "syncing", p[1], job[w].dsl, job[w].seen, job[w].todo \ {p})
      BY BootSyncForm
    <2>2. job[w].flow \notin Flows
      BY <1>1, BootSyncForm DEF JobOK
    <2>3. PICK q \in job[w].todo : q[1] = f
      BY <1>1, <2>2 DEF On
    <2> QED BY <1>2, <2>1, <2>3, JobNotNull DEF Becomes, On
  <1>8. ~BootMqtt(w)
    <2> SUFFICES ASSUME BootMqtt(w) PROVE FALSE
      OBVIOUS
    <2>1. job[w].todo = {} /\ job[w].flow \notin Flows
      BY <1>1, BootMqttForm DEF JobOK
    <2> QED BY <1>1, <2>1 DEF On
  <1>9. ~HandlerMqtt(w) /\ ~BootMqttSync(w) /\ ~BootEnd(w)
    BY <1>1, MqttForm, BootMqttSyncForm, BootEndForm
  <1>10. CASE HandlerReturn(w)
    BY <1>1, <1>10, ReturnForm DEF HandlerReturn, On, JobOK
  <1>11. CASE BootNext(w)
    <2>1. /\ job[w].at = "syncing" /\ UNCHANGED doc
          /\ Becomes(w, "sync", NoFlow, job[w].dsl, job[w].seen, job[w].todo)
      BY <1>11, BootNextForm DEF BootNext
    <2>2. ~On(job'[w], f)
      BY <1>2, <2>1, JobNotNull DEF Becomes
    <2>3. job[w].flow = f
      BY <1>1, <2>1, <2>2 DEF Becomes, On
    <2> QED BY <1>11, <2>1, <2>3
  <1> QED BY <1>3, <1>4, <1>5, <1>6, <1>7, <1>8, <1>9, <1>10, <1>11 DEF Handler, StartAll

\* A flow's publication changes only by an update.
LEMMA LiveStays ==
    ASSUME JobsOK, NEW w \in Workers, Handler(w) \/ StartAll(w), NEW f \in Flows,
           ~(StoreWrite(w) /\ job[w].flow = f)
    PROVE  doc'[f].live = doc[f].live
  <1>1. CASE StoreWrite(w)
    BY <1>1, WriteForm
  <1>2. CASE ~StoreWrite(w)
    BY <1>2 DEF Handler, StartAll, Request, HandlerGet, HandlerCheck, StoreRead, HandlerSync,
       HandlerReturn, HandlerMqtt, BootBegin, BootSync, BootNext, BootMqtt, BootMqttSync, BootEnd
  <1> QED BY <1>1, <1>2

LEMMA Goer ==
    ASSUME TypeOK, JobsOK, TodoOnce, NEW w \in Workers, Handler(w) \/ StartAll(w),
           NEW f \in Flows, w \in AtWork(f), w \in AtWork(f)'
    PROVE  /\ job'[w].marks = job[w].marks
           /\ \/ Progress(w, f) = "begun" /\ Progress(w, f)' = "stored"
              \/ Progress(w, f)' = Progress(w, f) /\ doc'[f].live = doc[f].live
  <1>1. w \in Underway /\ job[w] # NoJob /\ job[w].at # "mqtt" /\ On(job[w], f)
        /\ JobOK(job[w])
    BY JobType DEF AtWork, Underway
  <1>2. job'[w] # NoJob /\ job'[w].at # "mqtt" /\ On(job'[w], f)
    BY DEF AtWork, Underway
  <1>3. ~Request(w) /\ ~BootBegin(w)
    BY <1>1, RequestForm, BootBeginForm, BeginForm
  <1>4. job'[w].marks = job[w].marks
    BY <1>2, <1>3, OldJob
  <1>5. CASE HandlerGet(w) \/ HandlerCheck(w) \/ StoreRead(w)
    <2>1. job[w].at \in {"get", "check", "read"} /\ UNCHANGED doc
      BY <1>5, GetForm, CheckForm, ReadForm DEF HandlerGet, HandlerCheck, StoreRead
    <2>2. job'[w].at \in {"check", "read", "write", "sync"}
      BY <1>2, <1>5, GetForm, CheckForm, ReadForm DEF Ends, GoesTo, Becomes
    <2> QED BY <1>4, <2>1, <2>2 DEF Progress
  <1>6. CASE StoreWrite(w)
    <2>1. job[w].at = "write" /\ job'[w].at = "sync"
      BY <1>6, WriteForm DEF GoesTo, Becomes
    <2> QED BY <1>4, <2>1 DEF Progress
  <1>7. CASE HandlerSync(w) \/ BootSync(w)
    <2>1. job[w].at = "sync" /\ job'[w].at = "syncing" /\ UNCHANGED doc
      BY <1>7, SyncForm, BootSyncForm DEF Becomes, HandlerSync, BootSync
    <2>2. task'[w].pc = "remove"
      BY <1>7, SyncSteps, BeginTask
    <2> QED BY <1>4, <2>1, <2>2 DEF Progress
  <1>8. CASE BootNext(w)
    <2>1. /\ job[w].at = "syncing" /\ UNCHANGED doc
          /\ Becomes(w, "sync", NoFlow, job[w].dsl, job[w].seen, job[w].todo)
      BY <1>8, BootNextForm DEF BootNext
    <2>2. job[w].flow # f
      <3>1. job'[w].flow = NoFlow /\ job'[w].todo = job[w].todo
        BY <2>1 DEF Becomes
      <3>2. PICK p \in job[w].todo : p[1] = f
        BY <1>2, <3>1, NullsAssumption DEF On
      <3> QED BY <1>1, <3>2 DEF TodoOnce
    <2>3. job'[w].at = "sync"
      BY <2>1 DEF Becomes
    <2> QED BY <1>4, <2>1, <2>2, <2>3 DEF Progress
  <1>9. CASE HandlerReturn(w) \/ HandlerMqtt(w) \/ BootMqtt(w) \/ BootMqttSync(w) \/ BootEnd(w)
    BY <1>2, <1>9, ReturnForm, MqttForm, BootMqttForm, BootMqttSyncForm, BootEndForm
    DEF Ends, GoesTo, Becomes, Opens, Like
  <1> QED BY <1>3, <1>5, <1>6, <1>7, <1>8, <1>9 DEF Handler, StartAll

\* The job of the step goes on with the flow, or stays away from it.
LEMMA SameWork ==
    ASSUME TypeOK, JobsOK, NEW w \in Workers, Handler(w) \/ StartAll(w), NEW f \in Flows
    PROVE  \A v : v # w => (v \in AtWork(f)' <=> v \in AtWork(f))
  <1> SUFFICES ASSUME NEW v, v # w PROVE v \in AtWork(f)' <=> v \in AtWork(f)
    OBVIOUS
  <1>1. CASE v \in Workers
    BY <1>1, Besides
  <1>2. CASE v \notin Workers
    BY <1>2 DEF AtWork, Underway
  <1> QED BY <1>1, <1>2

\* A step of a worker that is not at work on the flow.
LEMMA AwayFlow ==
    ASSUME CoreInv, AloneExact, AloneExact', Served, NEW w \in Workers, Handler(w) \/ StartAll(w),
           history = "clean", history' = "clean", NEW f \in Flows, w \notin AtWork(f)
    PROVE  Promise!Step(f)
  <1>1. TypeOK /\ JobsOK
    BY DEF CoreInv, TableInv
  <1>2. Answers(f)' = Answers(f)
    BY <1>1, WorkerTable, SameTable
  <1>3. PhaseForm(f) /\ PhaseForm(f)'
    BY PhaseHolds, PhaseNext
  <1>4. doc'[f].live = doc[f].live
    <2>1. StoreWrite(w) => w \in Underway /\ job[w].at # "mqtt" /\ On(job[w], job[w].flow)
      BY <1>1, WriteForm DEF Underway, On
    <2>2. ~(StoreWrite(w) /\ job[w].flow = f)
      BY <2>1 DEF AtWork
    <2> QED BY <1>1, <2>2, LiveStays
  <1>5. Keeping(f)
    BY <1>2, <1>4 DEF Keeping
  <1>6. CASE w \notin AtWork(f)'
    <2>1. AtWork(f)' = AtWork(f)
      BY <1>1, <1>6, SameWork
    <2>2. ASSUME NEW v \in AtWork(f)
          PROVE  job'[v].marks \subseteq job[v].marks /\ Progress(v, f)' = Progress(v, f)
      <3>1. v \in Workers \ {w}
        BY DEF AtWork, Underway
      <3> QED BY <1>1, <3>1, Besides
    <2>3. f \in served' => f \in served
      <3> SUFFICES ASSUME f \in served', f \notin served PROVE FALSE
        OBVIOUS
      <3>1. f = job[w].flow /\ w \in Underway /\ job[w].at = "syncing"
        BY <1>1, NewlyServed
      <3> QED BY <3>1 DEF AtWork, On
    <2>4. f \in served => f \in served'
      <3> SUFFICES ASSUME f \in served, f \notin served' PROVE FALSE
        OBVIOUS
      <3>1. Request(w) \/ BootBegin(w)
        BY DEF Handler, StartAll, HandlerGet, HandlerCheck, StoreRead, StoreWrite, HandlerSync,
               HandlerReturn, HandlerMqtt, BootSync, BootNext, BootMqtt, BootMqttSync, BootEnd
      <3>2. PICK j \in Jobs : j.at \in {"get", "sync"} /\ Begin(w, j)
        BY <1>1, <3>1, RequestForm, BootBeginForm
      <3>3. Opens(w, j) /\ served' = {g \in served : ~On(j, g)}
        BY <1>1, <3>2, BeginForm
      <3>4. On(j, f) /\ Like(job'[w], j)
        BY <3>3 DEF Opens
      <3>5. On(job'[w], f) /\ job'[w].at # "mqtt" /\ job'[w] # NoJob
        BY <3>2, <3>4, LikeOn, JobNotNull DEF Like
      <3> QED BY <1>6, <3>5 DEF AtWork, Underway
    <2> QED BY <1>5, <2>1, <2>2, <2>3, <2>4, Bystanders
  <1>7. CASE w \in AtWork(f)'
    <2>1. /\ f \notin served'
          /\ \A v \in Underway \ {w} : On(job[v], f) => "alone" \notin job'[v].marks
          /\ Progress(w, f)' \in {"begun", "stored"}
      BY <1>1, <1>7, Newcomer
    <2>2. CASE AtWork(f) = {}
      <3>1. Phase(f) \in {"idle", "kept"}
        BY <1>3, <2>2 DEF PhaseForm
      <3>2. CASE "alone" \in job'[w].marks
        <4>1. Moves(f, {"idle", "kept"}, {"begun", "stored"})
          BY <1>3, <1>7, <2>1, <3>1, <3>2 DEF PhaseForm, Moves
        <4> QED BY <1>5, <4>1, KeepingSteps
      <3>3. CASE "alone" \notin job'[w].marks
        <4>1. Phase(f)' = "shared"
          BY <1>3, <1>7, <3>3 DEF PhaseForm
        <4>2. Moves(f, Promise!Phases \ {"broken"}, {"shared"})
          BY <3>1, <4>1 DEF Moves, Promise!Phases
        <4> QED BY <1>5, <4>2, KeepingSteps
      <3> QED BY <3>2, <3>3
    <2>3. ASSUME NEW v \in AtWork(f) PROVE Promise!Step(f)
      <3>1. v \in Underway \ {w} /\ On(job[v], f) /\ v \in AtWork(f)'
        BY <1>1, <2>3, SameWork DEF AtWork
      <3>2. "alone" \notin job'[v].marks
        BY <2>1, <3>1
      <3>3. Phase(f)' = "shared"
        BY <1>3, <3>1, <3>2 DEF PhaseForm
      <3>4. Moves(f, Promise!Phases \ {"broken"}, {"shared"})
        BY <3>3, PhaseRange DEF Moves
      <3> QED BY <1>5, <3>4, KeepingSteps
    <2> QED BY <2>2, <2>3
  <1> QED BY <1>6, <1>7

\* The routes of a flow that agrees with its publication are those of the definition.
LEMMA AgreesAnswers ==
    ASSUME NEW f \in Flows, Agrees(f)
    PROVE  Answers(f) = RoutesOf(doc[f].live)
  <1>1. PICK d : d = doc[f].live
    OBVIOUS
  <1>2. \A ap \in Owned(f) : routes[ap[1]][ap[2]].dsl = d
    BY <1>1 DEF Agrees
  <1>3. Answers(f) = {<<ap[1], ap[2], d>> : ap \in Owned(f)}
    BY <1>2 DEF Answers
  <1>4. CASE d = NoDsl
    BY <1>1, <1>3, <1>4 DEF Agrees, RoutesOf
  <1>5. CASE d # NoDsl
    <2> DEFINE F(ap) == <<ap[1], ap[2], d>>
               here(i) == <<d[i].addr, d[i].pattern>>
               route(i) == <<d[i].addr, d[i].pattern, d>>
    <2>1. Owned(f) = {here(i) : i \in DOMAIN d} /\ Answers(f) = {F(ap) : ap \in Owned(f)}
      BY <1>1, <1>3, <1>5 DEF Agrees
    <2>2. \A i : F(here(i)) = route(i)
      OBVIOUS
    <2>3. RoutesOf(d) = {route(i) : i \in DOMAIN d}
      BY <1>5 DEF RoutesOf
    <2> HIDE DEF F, here, route
    <2>4. Answers(f) = {route(i) : i \in DOMAIN d}
      BY <2>1, <2>2
    <2> QED BY <1>1, <2>3, <2>4
  <1> QED BY <1>4, <1>5

\* A step of a worker that leaves the flow.
LEMMA LeaveFlow ==
    ASSUME CoreInv, AloneExact, AloneExact', Served, Synced, PanicDirty, JobsOK', TypeOK', TlsUniform',
           NEW w \in Workers, Handler(w) \/ StartAll(w), history = "clean", history' = "clean",
           NEW f \in Flows, w \in AtWork(f), w \notin AtWork(f)'
    PROVE  Promise!Step(f)
  <1>1. TypeOK /\ JobsOK /\ w \in Underway /\ On(job[w], f) /\ job[w].at # "mqtt"
    BY DEF CoreInv, TableInv, AtWork
  <1>2. /\ UNCHANGED doc
        /\ \/ job[w].at \in {"get", "check", "read"}
           \/ /\ HandlerReturn(w) \/ BootNext(w)
              /\ job[w].at = "syncing" /\ job[w].flow = f
    BY <1>1, Leaver
  <1>3. Keeping(f)
    BY <1>1, <1>2, WorkerTable, SameTable DEF Keeping
  <1>4. PhaseForm(f) /\ PhaseForm(f)'
    BY PhaseHolds, PhaseNext
  <1>5. f \notin served
    BY <1>1 DEF Served
  <1>6. f \in served' => /\ HandlerReturn(w) \/ BootNext(w)
                         /\ "alone" \in job[w].marks /\ task[w].pc = "ok"
                         /\ job[w].at = "syncing"
    BY <1>1, <1>5, NewlyServed
  <1>7. CASE "alone" \notin job[w].marks
    <2>1. Phase(f) = "shared"
      BY <1>4, <1>7 DEF PhaseForm
    <2>2. ASSUME NEW v \in AtWork(f)' PROVE Phase(f)' = "shared"
      <3>1. v \in AtWork(f) /\ v \in Workers \ {w}
        BY <1>1, SameWork DEF AtWork, Underway
      <3>2. "alone" \notin job[v].marks
        BY <1>4, <3>1 DEF PhaseForm
      <3>3. "alone" \notin job'[v].marks
        BY <1>1, <3>1, <3>2, Besides
      <3> QED BY <1>4, <2>2, <3>3 DEF PhaseForm
    <2>3. AtWork(f)' = {} => Phase(f)' = "idle"
      BY <1>4, <1>6, <1>7 DEF PhaseForm
    <2>4. Moves(f, {"shared"}, {"shared", "idle"})
      BY <2>1, <2>2, <2>3 DEF Moves
    <2> QED BY <2>4, ContendStep
  <1>8. CASE "alone" \in job[w].marks
    <2>1. AtWork(f) = {w} /\ Phase(f) = Progress(w, f)
      BY <1>4, <1>8 DEF PhaseForm
    <2>2. AtWork(f)' = {}
      <3> SUFFICES ASSUME NEW v \in AtWork(f)' PROVE FALSE
        OBVIOUS
      <3> QED BY <1>1, <2>1, SameWork
    <2>3. CASE f \notin served' /\ (job[w].at \in {"get", "check", "read"} \/ task[w].pc = "err")
      <3>1. Phase(f)' = "idle"
        BY <1>4, <2>2, <2>3 DEF PhaseForm
      <3>2. Progress(w, f) \in {"begun", "failed"}
        BY <1>2, <2>3 DEF Progress
      <3>3. Moves(f, {"begun"}, {"idle"}) \/ Moves(f, {"failed"}, {"idle"})
        BY <2>1, <3>1, <3>2 DEF Moves
      <3> QED BY <1>3, <3>3, KeepingSteps
    <2>4. CASE (HandlerReturn(w) \/ BootNext(w)) /\ job[w].at = "syncing" /\ job[w].flow = f
               /\ task[w].pc = "ok"
      <3>1. f \in served'
        BY <1>8, <2>4 DEF HandlerReturn, BootNext, Succeeded, Alone
      <3>2. Phase(f)' = "kept"
        BY <1>4, <2>2, <3>1 DEF PhaseForm
      <3>3. Phase(f) = "mounting"
        BY <2>1, <2>4 DEF Progress
      <3>4. Agrees(f)
        BY <1>1, <1>8, <2>4 DEF Synced
      <3>5. Answers(f) = RoutesOf(doc[f].live) /\ doc[f].live \in Dsls \cup {NoDsl}
        BY <1>1, <3>4, AgreesAnswers DEF JobsOK, FlowRecords
      <3>6. Promise!Goes(f, {"mounting"}, {"kept"}) /\ Promise!Keeps(f)
        BY <1>3, <3>2, <3>3, GoesForm, KeepsForm DEF Moves
      <3>7. Answers(f) = [e \in Dsls \cup {NoDsl} |-> RoutesOf(e)][doc[f].live]
        BY <3>5
      <3>8. Promise!Settle(f)
        BY <3>6, <3>7 DEF Promise!Settle
      <3> QED BY <3>8 DEF Promise!Step
    <2>5. ASSUME HandlerReturn(w) \/ BootNext(w) PROVE task[w].pc \in {"ok", "err"}
      <3>1. w \notin Busy
        BY <2>5 DEF HandlerReturn, BootNext
      <3> QED BY <3>1 DEF PanicDirty, Busy, Outcomes
    <2> QED BY <1>2, <1>6, <2>3, <2>4, <2>5
  <1> QED BY <1>7, <1>8

\* A step of a worker that stays at work on the flow.
LEMMA WorkFlow ==
    ASSUME CoreInv, AloneExact, AloneExact', TodoOnce, JobsOK', TypeOK', TlsUniform',
           NEW w \in Workers, Handler(w) \/ StartAll(w), history = "clean", history' = "clean",
           NEW f \in Flows, w \in AtWork(f), w \in AtWork(f)'
    PROVE  Promise!Step(f)
  <1>1. TypeOK /\ JobsOK
    BY DEF CoreInv, TableInv
  <1>2. /\ job'[w].marks = job[w].marks
        /\ \/ Progress(w, f) = "begun" /\ Progress(w, f)' = "stored"
           \/ Progress(w, f)' = Progress(w, f) /\ doc'[f].live = doc[f].live
    BY <1>1, Goer
  <1>3. PhaseForm(f) /\ PhaseForm(f)'
    BY PhaseHolds, PhaseNext
  <1>4. Answers(f)' = Answers(f)
    BY <1>1, WorkerTable, SameTable
  <1>5. CASE "alone" \notin job[w].marks
    <2>1. Moves(f, {"shared"}, {"shared", "idle"})
      BY <1>2, <1>3, <1>5 DEF PhaseForm, Moves
    <2> QED BY <2>1, ContendStep
  <1>6. CASE "alone" \in job[w].marks
    <2>1. Phase(f) = Progress(w, f) /\ Phase(f)' = Progress(w, f)'
      BY <1>2, <1>3, <1>6 DEF PhaseForm
    <2>2. CASE Progress(w, f)' = Progress(w, f) /\ doc'[f].live = doc[f].live
      BY <1>4, <2>1, <2>2, KeepingSteps DEF Keeping
    <2>3. CASE Progress(w, f) = "begun" /\ Progress(w, f)' = "stored"
      <3>1. Promise!Goes(f, {"begun"}, {"stored"})
        BY <2>1, <2>3, GoesForm DEF Moves
      <3>2. Promise!Store(f)
        BY <1>4, <3>1, LiveNext DEF Promise!Store
      <3> QED BY <3>2 DEF Promise!Step
    <2> QED BY <1>2, <2>2, <2>3
  <1> QED BY <1>5, <1>6

\* A save of a draft, or nothing.
LEMMA RestFlow ==
    ASSUME CoreInv, AloneExact, AloneExact', SaveDraft \/ UNCHANGED allVars,
           history = "clean", NEW f \in Flows
    PROVE  Promise!Step(f)
  <1>1. JobsOK /\ Underway' = Underway /\ \A v \in Underway : Stays(v)
    BY RestSteps DEF CoreInv
  <1>2. UNCHANGED <<tableVars, task, served>> /\ doc'[f].live = doc[f].live
    BY <1>1, DraftForm DEF SaveDraft, allVars, tableVars
  <1>3. Keeping(f) /\ history' = "clean"
    BY <1>2, SameTable DEF Keeping, tableVars
  <1>4. AtWork(f)' = AtWork(f)
    BY <1>1, LikeOn DEF AtWork, Stays, Like
  <1>5. ASSUME NEW v \in AtWork(f)
        PROVE  job'[v].marks \subseteq job[v].marks /\ Progress(v, f)' = Progress(v, f)
    <2>1. Stays(v)
      BY <1>1 DEF AtWork
    <2>2. job'[v].at = job[v].at /\ job'[v].flow = job[v].flow /\ task'[v].pc = task[v].pc
      BY <1>2, <2>1 DEF Stays, Like
    <2>3. Progress(v, f)' = Progress(v, f)
      BY <2>2, SameProgress
    <2> QED BY <2>1, <2>3 DEF Stays
  <1> QED BY <1>2, <1>3, <1>4, <1>5, Bystanders

LEMMA HistoryKept ==
    ASSUME TypeOK, JobsOK, PublishingNext \/ UNCHANGED allVars, history # "clean", ~Restart
    PROVE  history' # "clean"
  <1>1. ASSUME NEW w \in Workers, Syncing(w) PROVE history' # "clean"
    <2>1. history' = history \/ history' = "panicked"
      BY <1>1 DEF Syncing, SyncStep, SyncRemove, SyncCleanup, SyncRemovePanics, RemoveFlow,
         RemoveFlowPanics, ParseFails, ListenFails, CertInvalid, RefuseRoute, AddFails, Rebind,
         AddRoute, SyncReturn, tableVars
    <2> QED BY <2>1
  <1>2. ASSUME NEW w \in Workers, Handler(w) \/ StartAll(w) PROVE history' # "clean"
    BY <1>2, WorkerTable DEF tableVars
  <1>3. CASE SaveDraft \/ UNCHANGED allVars
    BY <1>3 DEF SaveDraft, allVars, tableVars
  <1> QED BY <1>1, <1>2, <1>3 DEF PublishingNext

PromiseInv == PublishingInv /\ PanicDirty

LEMMA PromiseStart == PublishingInit => PromiseInv
  BY PublishingStart, PanicStart DEF PromiseInv, PublishingInit

LEMMA PromiseKept == PromiseInv /\ [PublishingNext]_allVars => PromiseInv'
  <1>1. PromiseInv => TypeOK /\ JobsOK
    BY DEF PromiseInv, PublishingInv, CoreInv, TableInv
  <1>2. Init' => PanicDirty'
    BY PanicStart, PTL
  <1>3. PromiseInv /\ [PublishingNext]_allVars => PanicDirty'
    BY <1>1, <1>2, TableSteps, RestartJobs, PanicKept DEF PromiseInv
  <1> QED BY <1>3, PublishingKept DEF PromiseInv

LEMMA PromiseStep ==
    ASSUME PromiseInv, PromiseInv', [PublishingNext]_allVars, NEW f \in Flows
    PROVE  Promise!Step(f)
  <1>1. CoreInv /\ TableInv /\ TypeOK /\ JobsOK /\ AloneExact /\ TodoOnce /\ Synced /\ Served /\ PanicDirty
    BY DEF PromiseInv, PublishingInv, CoreInv, TableInv
  <1>2. JobsOK' /\ TypeOK' /\ TlsUniform' /\ AloneExact'
    BY DEF PromiseInv, PublishingInv, CoreInv, TableInv
  <1>3. CASE Restart
    BY <1>1, <1>3, RestartStep
  <1>4. CASE history # "clean" /\ ~Restart
    <2>1. history' # "clean"
      BY <1>1, <1>4, HistoryKept
    <2> QED BY <1>2, <1>4, <2>1, BrokenStep
  <1>5. ASSUME history = "clean", NEW w \in Workers, Handler(w) \/ StartAll(w)
        PROVE  Promise!Step(f)
    <2>1. history' = "clean"
      BY <1>1, <1>5, WorkerTable DEF tableVars
    <2>2. CASE w \notin AtWork(f)
      BY <1>1, <1>2, <1>5, <2>1, <2>2, AwayFlow
    <2>3. CASE w \in AtWork(f) /\ w \notin AtWork(f)'
      BY <1>1, <1>2, <1>5, <2>1, <2>3, LeaveFlow
    <2>4. CASE w \in AtWork(f) /\ w \in AtWork(f)'
      BY <1>1, <1>2, <1>5, <2>1, <2>4, WorkFlow
    <2> QED BY <2>2, <2>3, <2>4
  <1>6. ASSUME history = "clean", NEW w \in Workers, Syncing(w)
        PROVE  Promise!Step(f)
    <2>1. CASE history' = "clean"
      BY <1>1, <1>2, <1>6, <2>1, SyncingFlow
    <2>2. CASE history' # "clean"
      BY <1>1, <1>2, <1>6, <2>2, BreakStep
    <2> QED BY <2>1, <2>2
  <1>7. CASE history = "clean" /\ (SaveDraft \/ UNCHANGED allVars)
    BY <1>1, <1>2, <1>7, RestFlow
  <1> QED BY <1>3, <1>4, <1>5, <1>6, <1>7 DEF PublishingNext

LEMMA PromiseBegins == PublishingInit => Promise!Init
  <1> SUFFICES ASSUME PublishingInit PROVE Promise!Init
    OBVIOUS
  <1>1. PublishingInv
    BY PublishingStart
  <1>2. ASSUME NEW f \in Flows
        PROVE  doc[f].live \in Promise!Published /\ Answers(f) = {} /\ Phase(f) = "idle"
    <2>1. doc[f].live \in Dsls \cup {NoDsl}
      BY <1>1 DEF PublishingInv, CoreInv, JobsOK, FlowRecords
    <2>2. Owned(f) = {}
      BY DEF PublishingInit, Init, NoRoutes, Owned, Owns
    <2>3. history = "clean" /\ AtWork(f) = {} /\ f \notin served
      BY DEF PublishingInit, Init, AtWork, Underway
    <2> QED BY <2>1, <2>2, <2>3 DEF Promise!Published, Answers, Phase
  <1> QED BY <1>2 DEF Promise!Init

\* Publishing keeps the promise of PublishedFlows for every flow, whatever requests, start-up,
\* failures, panics and restarts there are: a job that has a flow to itself takes its old
\* routes away before the first new one answers, mounts nothing but what the document says is
\* published, and leaves the whole of it there if it ends well; and what is there stays until
\* somebody is at work on the flow again.
THEOREM PromiseCorrect == PublishingSpec => PublishingImplemented
  <1>1. PromiseInv /\ PromiseInv' /\ [PublishingNext]_allVars => Promise!Next
    BY PromiseStep DEF Promise!Next
  <1> QED BY <1>1, PromiseStart, PromiseKept, PromiseBegins, PTL
          DEF PublishingSpec, PublishingImplemented, Promise!Spec

\* The promise is worth having: from its steps alone, and so of publishing too, a flow that
\* was mounted whole and is left alone answers with its whole publication and nothing else.
THEOREM WholeCorrect == PublishingSpec => []Promise!KeptAnswersWhole
  <1>1. Promise!Init => Promise!KeptAnswersWhole
    BY DEF Promise!Init, Promise!KeptAnswersWhole
  <1>2. Promise!KeptAnswersWhole /\ Promise!Next => Promise!KeptAnswersWhole'
    BY DEF Promise!KeptAnswersWhole, Promise!Next, Promise!Step, Promise!Rests, Promise!Begin,
       Promise!Refuse, Promise!Store, Promise!Unload, Promise!Mount, Promise!Settle,
       Promise!Fail, Promise!Withdraw, Promise!GiveUp, Promise!Join, Promise!Contend,
       Promise!Break, Promise!Broken, Promise!Restart, Promise!Goes, Promise!Keeps
  <1>3. Promise!KeptAnswersWhole /\ UNCHANGED Promise!vars => Promise!KeptAnswersWhole'
    BY DEF Promise!KeptAnswersWhole, Promise!vars
  <1> QED BY <1>1, <1>2, <1>3, PromiseCorrect, PTL DEF PublishingImplemented, Promise!Spec
=============================================================================
