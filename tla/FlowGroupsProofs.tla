-------------------------- MODULE FlowGroupsProofs --------------------------
(***************************************************************************)
(* What FlowGroups keeps, for every set of flows, groups, users and        *)
(* workers, any number of requests and any crash.                          *)
(***************************************************************************)
EXTENDS FlowGroups, TLAPS

----------------------------------------------------------------------------
(* Types, and the shape of the requests.                                   *)

Places == {"group", "unpublish", "update", "purge", "remove", "reread", "sync",
           "list", "clear", "list previous", "clear previous", "get", "save", "grant"}

\* What a request carries at each of its places.
Fit(j) ==
    \/ /\ j.kind = "dissolve" /\ j.group \in Groups /\ j.flow = NoFlow
       /\ j.at \in {"list", "clear", "list previous", "clear previous"}
       /\ j.at \in {"list", "list previous"} => j.todo = {}
    \/ /\ j.flow \in Flows /\ j.todo = {}
       /\ \/ j.kind \in {"move", "restore"} /\ j.at \in {"group", "update"}
          \/ /\ j.kind = "delete"
             /\ j.at \in {"unpublish", "update", "purge", "remove", "reread", "sync"}
          \/ /\ j.kind \in {"publish", "offline"} /\ j.group = NoGroup
             /\ j.at \in {"update", "reread", "sync"}
          \/ j.kind = "save" /\ j.at \in {"get", "save", "grant"} /\ j.user \in Users
          \/ j.kind = "tool" /\ j.at \in {"get", "save"}

JobsFit == \A w \in Workers : job[w] # NoJob => Fit(job[w])

\* A worker that goes on, begins or ends.
LEMMA JobStep ==
    ASSUME TypeOK, JobsFit, NEW w \in Workers, NEW j \in Jobs \cup {NoJob},
           j # NoJob => Fit(j), job' = [job EXCEPT ![w] = j]
    PROVE  job' \in [Workers -> Jobs \cup {NoJob}] /\ JobsFit'
  BY DEF TypeOK, JobsFit

LEMMA EndStep ==
    ASSUME TypeOK, JobsFit, NEW w \in Workers, End(w)
    PROVE  job' \in [Workers -> Jobs \cup {NoJob}] /\ JobsFit'
  BY JobStep DEF End

\* The record of a request that moves on.
LEMMA JobForms ==
    ASSUME NEW j \in Jobs, NEW at \in Places, NEW g \in Ungrouped,
           NEW s \in {"online", "offline"}, NEW t \in SUBSET Flows
    PROVE  /\ [j EXCEPT !.at = at] \in Jobs
           /\ [j EXCEPT !.group = g, !.at = at] \in Jobs
           /\ [j EXCEPT !.state = s, !.at = at] \in Jobs
           /\ [j EXCEPT !.todo = t, !.at = at] \in Jobs
           /\ [j EXCEPT !.todo = t] \in Jobs
<1>1. [j EXCEPT !.at = at] \in Jobs
  BY DEF Jobs, Places
<1>2. [j EXCEPT !.group = g, !.at = at] \in Jobs
  BY DEF Jobs, Places
<1>3. [j EXCEPT !.state = s, !.at = at] \in Jobs
  BY DEF Jobs, Places
<1>4. [j EXCEPT !.todo = t, !.at = at] \in Jobs
  BY DEF Jobs, Places
<1>5. [j EXCEPT !.todo = t] \in Jobs
  BY DEF Jobs, Places
<1> QED
  BY <1>1, <1>2, <1>3, <1>4, <1>5

\* A request at a place is one that has begun.
LEMMA JobAt ==
    ASSUME TypeOK, JobsFit, NEW w \in Workers, job[w] # NoJob
    PROVE  job[w] \in Jobs /\ Fit(job[w])
  BY DEF TypeOK, JobsFit

\* The request of a worker that goes to another place, and nothing else of it changes.
LEMMA GoToStep ==
    ASSUME TypeOK, JobsFit, NEW w \in Workers, NEW at \in Places, job[w] # NoJob,
           GoTo(w, at), Fit([job[w] EXCEPT !.at = at])
    PROVE  job' \in [Workers -> Jobs \cup {NoJob}] /\ JobsFit'
<1>1. job[w] \in Jobs
  BY JobAt
<1>2. [job[w] EXCEPT !.at = at] \in Jobs
  BY <1>1 DEF Jobs, Places
<1>3. job' = [job EXCEPT ![w] = [job[w] EXCEPT !.at = at]]
  BY DEF GoTo
<1> QED
  BY <1>2, <1>3, JobStep

LEMMA NewJobType ==
    ASSUME NEW kind \in {"move", "delete", "restore", "publish", "offline", "dissolve", "save", "tool"},
           NEW at \in Places, NEW f \in Flows \cup {NoFlow}, NEW g \in Ungrouped,
           NEW s \in {"online", "offline"}, NEW u \in Users \cup {NoUser}, NEW l \in SUBSET Flows
    PROVE  /\ NewJob(kind, at, f, g) \in Jobs
           /\ [NewJob(kind, at, f, g) EXCEPT !.state = s] \in Jobs
           /\ [NewJob(kind, at, f, g) EXCEPT !.user = u, !.list = l] \in Jobs
           /\ [NewJob(kind, at, f, g) EXCEPT !.list = l] \in Jobs
<1>1. NewJob(kind, at, f, g) \in Jobs
  BY DEF NewJob, Jobs, Places
<1>2. [NewJob(kind, at, f, g) EXCEPT !.state = s] \in Jobs
  BY <1>1 DEF Jobs
<1>3. [NewJob(kind, at, f, g) EXCEPT !.user = u, !.list = l] \in Jobs
  BY <1>1 DEF Jobs
<1>4. [NewJob(kind, at, f, g) EXCEPT !.list = l] \in Jobs
  BY <1>1 DEF Jobs
<1> QED
  BY <1>1, <1>2, <1>3, <1>4

LEMMA BeginStep ==
    ASSUME TypeOK, JobsFit, NEW w \in Workers, NEW j \in Jobs, Fit(j), Begin(w, j)
    PROVE  TypeOK' /\ JobsFit'
<1>1. job' \in [Workers -> Jobs \cup {NoJob}] /\ JobsFit'
  BY JobStep DEF Begin
<1>2. calls' \in 0..MaxCalls
  BY MaxCallsAssumption DEF Begin, Call, TypeOK
<1>3. /\ raced' \subseteq Flows /\ mixed' \subseteq Users /\ doomed' \subseteq Groups
      /\ overtaken' \subseteq Flows
  BY DEF Begin, TypeOK, Fit
<1> QED
  BY <1>1, <1>2, <1>3 DEF Begin, TypeOK

\* The document of a flow when a field of it is written.
LEMMA DocForms ==
    ASSUME NEW d \in FlowDocs, NEW g \in Ungrouped \cup {Trash}, NEW p \in Ungrouped,
           NEW s \in {"online", "offline"}, NEW l \in {"locked", "unlocked"}
    PROVE  /\ [d EXCEPT !.group = g] \in FlowDocs
           /\ [d EXCEPT !.group = g, !.previous = p] \in FlowDocs
           /\ [d EXCEPT !.previous = p] \in FlowDocs
           /\ [d EXCEPT !.state = s] \in FlowDocs
           /\ [d EXCEPT !.lock = l] \in FlowDocs
           /\ [d EXCEPT !.stage = "stored"] \in FlowDocs
           /\ Blank \in FlowDocs
<1>1. [d EXCEPT !.group = g] \in FlowDocs
  BY DEF FlowDocs
<1>2. [d EXCEPT !.group = g, !.previous = p] \in FlowDocs
  BY DEF FlowDocs
<1>3. [d EXCEPT !.previous = p] \in FlowDocs
  BY DEF FlowDocs
<1>4. [d EXCEPT !.state = s] \in FlowDocs /\ [d EXCEPT !.lock = l] \in FlowDocs
  BY DEF FlowDocs
<1>5. [d EXCEPT !.stage = "stored"] \in FlowDocs
  BY DEF FlowDocs
<1>6. Blank \in FlowDocs
  BY DEF FlowDocs, Blank, Ungrouped
<1> QED
  BY <1>1, <1>2, <1>3, <1>4, <1>5, <1>6

\* The requests of workers that begin.
LEMMA RequestsStep ==
    ASSUME TypeOK, JobsFit, NEW w \in Workers,
           \/ SetFlowGroup(w) \/ SoftDeleteOrPurgeFlow(w) \/ RestoreFlow(w) \/ DeleteGroup(w)
           \/ Publish(w) \/ SaveFlow(w)
    PROVE  TypeOK' /\ JobsFit'
<1>0. NoGroup \in Ungrouped /\ {} \in SUBSET Flows /\ \A f \in Flows : flow[f] \in FlowDocs
  BY DEF Ungrouped, TypeOK
<1>1. CASE SetFlowGroup(w)
  <2>1. PICK f \in Flows, g \in Ungrouped, at \in {"group", "update"} :
            Begin(w, NewJob("move", at, f, g))
    BY <1>1 DEF SetFlowGroup
  <2>2. NewJob("move", at, f, g) \in Jobs
    BY <1>0, NewJobType DEF Places
  <2>3. Fit(NewJob("move", at, f, g))
    BY DEF Fit, NewJob
  <2> QED
    BY <2>1, <2>2, <2>3, BeginStep
<1>2. CASE SoftDeleteOrPurgeFlow(w)
  <2>1. PICK f \in Flows :
            Begin(w, IF InTrash(f) THEN NewJob("delete", "purge", f, NoGroup)
                     ELSE [NewJob("delete", IF Online(f) THEN "unpublish" ELSE "update",
                                  f, flow[f].group) EXCEPT !.state = flow[f].state])
            /\ Stored(f)
    BY <1>2 DEF SoftDeleteOrPurgeFlow
  <2>2. CASE InTrash(f)
    <3>1. NewJob("delete", "purge", f, NoGroup) \in Jobs
      BY <1>0, NewJobType DEF Places
    <3>2. Fit(NewJob("delete", "purge", f, NoGroup))
      BY DEF Fit, NewJob
    <3> QED
      BY <2>1, <2>2, <3>1, <3>2, BeginStep
  <2>3. CASE ~InTrash(f)
    <3> DEFINE at == IF Online(f) THEN "unpublish" ELSE "update"
               j == [NewJob("delete", at, f, flow[f].group) EXCEPT !.state = flow[f].state]
    <3>1. flow[f].group \in Ungrouped /\ flow[f].state \in {"online", "offline"}
      BY <1>0, <2>1, <2>3 DEF FlowDocs, InTrash
    <3>2. Begin(w, j) /\ at \in {"unpublish", "update"}
      BY <2>1, <2>3
    <3> HIDE DEF at
    <3>3. j \in Jobs
      <4>1. NewJob("delete", at, f, flow[f].group) \in Jobs
        BY <1>0, <3>1, <3>2, NewJobType DEF Places
      <4> QED
        BY <3>1, <4>1 DEF Jobs
    <3>4. Fit(j)
      BY <3>2 DEF Fit, NewJob
    <3> HIDE DEF j
    <3> QED
      BY <3>2, <3>3, <3>4, BeginStep
  <2> QED
    BY <2>2, <2>3
<1>3. CASE RestoreFlow(w)
  <2>1. PICK f \in Flows, at \in {"group", "update"} :
            Begin(w, NewJob("restore", at, f, flow[f].previous))
    BY <1>3 DEF RestoreFlow
  <2>2. flow[f].previous \in Ungrouped
    BY <1>0 DEF FlowDocs
  <2>3. NewJob("restore", at, f, flow[f].previous) \in Jobs
    BY <1>0, <2>2, NewJobType DEF Places
  <2>4. Fit(NewJob("restore", at, f, flow[f].previous))
    BY DEF Fit, NewJob
  <2> QED
    BY <2>1, <2>3, <2>4, BeginStep
<1>4. CASE DeleteGroup(w)
  <2>1. PICK g \in Groups : Begin(w, NewJob("dissolve", "list", NoFlow, g))
    BY <1>4 DEF DeleteGroup
  <2>2. g \in Ungrouped /\ NoFlow \in Flows \cup {NoFlow}
    BY DEF Ungrouped
  <2>3. NewJob("dissolve", "list", NoFlow, g) \in Jobs
    BY <1>0, <2>2, NewJobType DEF Places
  <2>4. Fit(NewJob("dissolve", "list", NoFlow, g))
    BY DEF Fit, NewJob
  <2> QED
    BY <2>1, <2>3, <2>4, BeginStep
<1>5. CASE Publish(w)
  <2>1. PICK f \in Flows, kind \in {"publish", "offline"} :
            Begin(w, NewJob(kind, "update", f, NoGroup))
    BY <1>5 DEF Publish
  <2>2. NewJob(kind, "update", f, NoGroup) \in Jobs
    BY <1>0, NewJobType DEF Places
  <2>3. Fit(NewJob(kind, "update", f, NoGroup))
    BY DEF Fit, NewJob
  <2> QED
    BY <2>1, <2>2, <2>3, BeginStep
<1>6. CASE SaveFlow(w)
  <2>1. PICK f \in Flows :
        \/ \E u \in Users :
               Begin(w, [NewJob("save", "get", f, NoGroup) EXCEPT !.user = u, !.list = access[u]])
        \/ \E list \in {Flows} \cup {access[u] : u \in Users} :
               Begin(w, [NewJob("tool", "get", f, NoGroup) EXCEPT !.list = list])
    BY <1>6 DEF SaveFlow
  <2>2. ASSUME NEW u \in Users,
               Begin(w, [NewJob("save", "get", f, NoGroup) EXCEPT !.user = u, !.list = access[u]])
        PROVE  TypeOK' /\ JobsFit'
    <3>1. access[u] \in SUBSET Flows
      BY DEF TypeOK
    <3>2. [NewJob("save", "get", f, NoGroup) EXCEPT !.user = u, !.list = access[u]] \in Jobs
      BY <1>0, <3>1, NewJobType DEF Places
    <3>3. Fit([NewJob("save", "get", f, NoGroup) EXCEPT !.user = u, !.list = access[u]])
      BY DEF Fit, NewJob
    <3> QED
      BY <2>2, <3>2, <3>3, BeginStep
  <2>3. ASSUME NEW list \in {Flows} \cup {access[u] : u \in Users},
               Begin(w, [NewJob("tool", "get", f, NoGroup) EXCEPT !.list = list])
        PROVE  TypeOK' /\ JobsFit'
    <3>1. list \in SUBSET Flows
      BY DEF TypeOK
    <3>2. [NewJob("tool", "get", f, NoGroup) EXCEPT !.list = list] \in Jobs
      BY <1>0, <3>1, NewJobType DEF Places
    <3>3. Fit([NewJob("tool", "get", f, NoGroup) EXCEPT !.list = list])
      BY DEF Fit, NewJob
    <3> QED
      BY <2>3, <3>2, <3>3, BeginStep
  <2> QED
    BY <2>1, <2>2, <2>3
<1> QED
  BY <1>1, <1>2, <1>3, <1>4, <1>5, <1>6

\* The steps of the requests on a flow and on the list of a user.
LEMMA FlowStepsType ==
    ASSUME TypeOK, JobsFit, NEW w \in Workers,
           \/ GetGroup(w) \/ Refused(w) \/ Unpublish(w) \/ Update(w) \/ Purge(w)
           \/ RemoveEndpoints(w) \/ Reread(w) \/ Sync(w)
           \/ GetFlow(w) \/ Save(w) \/ Grant(w)
    PROVE  TypeOK' /\ JobsFit'
<1> USE DEF history, users, serving
<1>1. job[w] # NoJob
  BY DEF GetGroup, Refused, Unpublish, Update, Purge, RemoveEndpoints, Reread, Sync, GetFlow,
     Save, Grant, At
<1>2. job[w] \in Jobs /\ Fit(job[w])
  BY <1>1, JobAt
<1>3. ASSUME End(w),
             flow' \in [Flows -> FlowDocs], access' \in [Users -> SUBSET Flows],
             loaded' \subseteq Flows, overtaken' \subseteq Flows, afresh' \subseteq Flows,
             home' \in [Flows -> Ungrouped],
             UNCHANGED <<groups, boot, listed, calls, raced, doomed, mixed>>
      PROVE  TypeOK' /\ JobsFit'
  BY <1>3, EndStep DEF TypeOK
<1>4. ASSUME NEW at \in Places, GoTo(w, at), Fit([job[w] EXCEPT !.at = at]),
             flow' \in [Flows -> FlowDocs], access' \in [Users -> SUBSET Flows],
             loaded' \subseteq Flows, overtaken' \subseteq Flows, afresh' \subseteq Flows,
             home' \in [Flows -> Ungrouped],
             UNCHANGED <<groups, boot, listed, calls, raced, doomed, mixed>>
      PROVE  TypeOK' /\ JobsFit'
  BY <1>1, <1>4, GoToStep DEF TypeOK
<1>5. CASE GetGroup(w)
  <2>1. UNCHANGED <<groups, flow, serving, calls, history, users>> /\ job[w].at = "group"
    BY <1>5 DEF GetGroup, At
  <2>2. job[w].kind \in {"move", "restore"}
    BY <1>2, <2>1 DEF Fit
  <2>3. CASE GoTo(w, "update")
    <3>1. Fit([job[w] EXCEPT !.at = "update"])
      BY <1>2, <2>1, <2>2 DEF Fit, Jobs
    <3> QED
      BY <1>4, <2>1, <2>3, <3>1 DEF TypeOK, Places
  <2>4. CASE End(w)
    BY <1>3, <2>1, <2>4 DEF TypeOK
  <2>5. CASE job' = [job EXCEPT ![w].group = NoGroup, ![w].at = "update"]
    <3>1. [job[w] EXCEPT !.group = NoGroup, !.at = "update"] \in Jobs
      BY <1>2, JobForms DEF Places, Ungrouped
    <3>2. Fit([job[w] EXCEPT !.group = NoGroup, !.at = "update"])
      BY <1>2, <2>1, <2>2 DEF Fit, Jobs
    <3>3. job' = [job EXCEPT ![w] = [job[w] EXCEPT !.group = NoGroup, !.at = "update"]]
      BY <2>5
    <3>4. job' \in [Workers -> Jobs \cup {NoJob}] /\ JobsFit'
      BY <3>1, <3>2, <3>3, JobStep
    <3> QED
      BY <2>1, <3>4 DEF TypeOK
  <2> QED
    BY <1>5, <2>3, <2>4, <2>5 DEF GetGroup
<1>6. CASE Refused(w)
  BY <1>3, <1>6 DEF Refused, TypeOK
<1>7. CASE Unpublish(w)
  <2>1. job[w].at = "unpublish" /\ job[w].flow \in Flows
    BY <1>2, <1>7 DEF Unpublish, At, Fit
  <2>2. [flow[job[w].flow] EXCEPT !.state = "offline"] \in FlowDocs
    BY <2>1, DocForms DEF TypeOK, Ungrouped
  <2>3. Fit([job[w] EXCEPT !.at = "update"])
    BY <1>2, <2>1 DEF Fit, Jobs
  <2>4. flow' = [flow EXCEPT ![job[w].flow] = [flow[job[w].flow] EXCEPT !.state = "offline"]]
    BY <1>7 DEF Unpublish
  <2>5. GoTo(w, "update") /\ afresh' = afresh \ {job[w].flow}
        /\ UNCHANGED <<groups, serving, calls, raced, home, doomed, users>>
    BY <1>7 DEF Unpublish
  <2> QED
    BY <1>4, <2>2, <2>3, <2>4, <2>5 DEF TypeOK, Places
<1>8. CASE Update(w)
  <2> DEFINE f == job[w].flow
  <2>1. job[w].at = "update" /\ f \in Flows /\ flow[f] \in FlowDocs
        /\ UNCHANGED <<groups, serving, calls, raced, doomed, users>>
    BY <1>2, <1>8 DEF Update, At, Fit, TypeOK
  <2>2. job[w].group \in Ungrouped
    BY <1>2 DEF Jobs
  <2>3. CASE job[w].kind = "move"
    <3>1. flow' = [flow EXCEPT ![f] = [flow[f] EXCEPT !.group = job[w].group]]
          /\ End(w) /\ UNCHANGED <<home, afresh>>
      BY <1>8, <2>3 DEF Update
    <3>2. [flow[f] EXCEPT !.group = job[w].group] \in FlowDocs
      BY <2>1, <2>2, DocForms
    <3> QED
      BY <1>3, <2>1, <3>1, <3>2 DEF TypeOK
  <2>4. CASE job[w].kind = "restore"
    <3>1. flow' = [flow EXCEPT ![f] = [flow[f] EXCEPT !.group = job[w].group, !.previous = NoGroup]]
          /\ End(w) /\ afresh' = afresh \ {f} /\ UNCHANGED home
      BY <1>8, <2>4 DEF Update
    <3>2. [flow[f] EXCEPT !.group = job[w].group, !.previous = NoGroup] \in FlowDocs
      BY <2>1, <2>2, DocForms DEF Ungrouped
    <3> QED
      BY <1>3, <2>1, <3>1, <3>2 DEF TypeOK
  <2>5. CASE job[w].kind = "delete"
    <3>1. /\ flow' = [flow EXCEPT ![f] = [flow[f] EXCEPT !.group = Trash, !.previous = job[w].group]]
          /\ home' = [home EXCEPT ![f] = job[w].group]
          /\ GoTo(w, "reread") \/ End(w)
          /\ UNCHANGED afresh
      BY <1>8, <2>5 DEF Update, TrashedFrom
    <3>2. [flow[f] EXCEPT !.group = Trash, !.previous = job[w].group] \in FlowDocs
      BY <2>1, <2>2, DocForms
    <3>3. Fit([job[w] EXCEPT !.at = "reread"])
      BY <1>2, <2>1, <2>5 DEF Fit, Jobs
    <3>4. flow' \in [Flows -> FlowDocs] /\ home' \in [Flows -> Ungrouped]
      BY <2>1, <2>2, <3>1, <3>2 DEF TypeOK
    <3>5. CASE GoTo(w, "reread")
      BY <1>4, <2>1, <3>1, <3>3, <3>4, <3>5 DEF TypeOK, Places
    <3>6. CASE End(w)
      BY <1>3, <2>1, <3>1, <3>4, <3>6 DEF TypeOK
    <3> QED
      BY <3>1, <3>5, <3>6
  <2>6. CASE job[w].kind \in {"publish", "offline"}
    <3>1. PICK s \in {"online", "offline"} :
              flow' = [flow EXCEPT ![f] = [flow[f] EXCEPT !.state = s]]
      BY <1>8, <2>6 DEF Update
    <3>2. GoTo(w, "reread") /\ UNCHANGED home /\ afresh' \subseteq afresh \cup {f}
      BY <1>8, <2>6 DEF Update
    <3>3. [flow[f] EXCEPT !.state = s] \in FlowDocs
      BY <2>1, <2>2, DocForms
    <3>4. Fit([job[w] EXCEPT !.at = "reread"])
      BY <1>2, <2>1, <2>6 DEF Fit, Jobs
    <3> QED
      BY <1>4, <2>1, <3>1, <3>2, <3>3, <3>4 DEF TypeOK, Places
  <2> QED
    BY <1>8, <2>3, <2>4, <2>5, <2>6 DEF Update
<1>9. CASE Purge(w)
  <2>1. job[w].at = "purge" /\ Blank \in FlowDocs
    BY <1>9, DocForms, <1>2 DEF Purge, At, FlowDocs, Blank, Ungrouped
  <2>2. Fit([job[w] EXCEPT !.at = "remove"])
    BY <1>2, <2>1 DEF Fit, Jobs
  <2>3. flow' \in [Flows -> FlowDocs] /\ afresh' \subseteq Flows /\ GoTo(w, "remove")
    BY <1>9, <2>1 DEF Purge, TypeOK
  <2> QED
    BY <1>4, <1>9, <2>2, <2>3 DEF Purge, TypeOK, Places
<1>10. CASE RemoveEndpoints(w)
  BY <1>3, <1>10 DEF RemoveEndpoints, Overrides, TypeOK
<1>11. CASE Reread(w)
  <2>1. job[w].at = "reread" /\ job[w].flow \in Flows
    BY <1>2, <1>11 DEF Reread, At, Fit
  <2>2. flow[job[w].flow].state \in {"online", "offline"}
    BY <2>1 DEF TypeOK, FlowDocs
  <2> DEFINE j == [job[w] EXCEPT !.state = flow[job[w].flow].state, !.at = "sync"]
  <2>3. j \in Jobs
    BY <1>2, <2>2, JobForms DEF Places, Ungrouped
  <2>4. Fit(j)
    BY <1>2, <2>1 DEF Fit, Jobs
  <2>5. job' = [job EXCEPT ![w] = j]
    BY <1>11 DEF Reread
  <2> HIDE DEF j
  <2>6. job' \in [Workers -> Jobs \cup {NoJob}] /\ JobsFit'
    BY <2>3, <2>4, <2>5, JobStep
  <2> QED
    BY <1>11, <2>6 DEF Reread, TypeOK
<1>12. CASE Sync(w)
  <2>1. job[w].flow \in Flows
    BY <1>2, <1>12 DEF Sync, At, Fit
  <2>2. loaded' \subseteq Flows /\ overtaken' \subseteq Flows
    BY <1>12, <2>1 DEF Sync, Overrides, TypeOK
  <2> QED
    BY <1>3, <1>12, <2>2 DEF Sync, TypeOK
<1>13. CASE GetFlow(w)
  <2>1. job[w].at = "get" /\ GoTo(w, "save")
        /\ UNCHANGED <<groups, flow, serving, calls, history, users>>
    BY <1>13 DEF GetFlow, At
  <2>2. Fit([job[w] EXCEPT !.at = "save"])
    BY <1>2, <2>1 DEF Fit, Jobs
  <2> QED
    BY <1>4, <2>1, <2>2 DEF TypeOK, Places
<1>14. CASE Save(w)
  <2> DEFINE f == job[w].flow
  <2>1. job[w].at = "save" /\ f \in Flows /\ flow[f] \in FlowDocs
    BY <1>2, <1>14 DEF Save, At, Fit, TypeOK
  <2>2. /\ flow' = [flow EXCEPT ![f] = [flow[f] EXCEPT !.stage = "stored"]]
        /\ UNCHANGED <<groups, serving, calls, history, users>>
        /\ \/ End(w)
           \/ GoTo(w, "grant") /\ job[w].kind = "save"
    BY <1>14 DEF Save
  <2>3. [flow[f] EXCEPT !.stage = "stored"] \in FlowDocs
    BY <2>1 DEF FlowDocs
  <2>4. flow' \in [Flows -> FlowDocs]
    BY <2>2, <2>3 DEF TypeOK
  <2>5. CASE End(w)
    BY <1>3, <2>2, <2>4, <2>5 DEF TypeOK
  <2>6. CASE GoTo(w, "grant") /\ job[w].kind = "save"
    <3>1. Fit([job[w] EXCEPT !.at = "grant"])
      BY <1>2, <2>6 DEF Fit, Jobs
    <3> QED
      BY <1>4, <2>2, <2>4, <2>6, <3>1 DEF TypeOK, Places
  <2> QED
    BY <2>2, <2>5, <2>6
<1>15. CASE Grant(w)
  <2>1. job[w].list \cup {job[w].flow} \in SUBSET Flows
    BY <1>2, <1>15 DEF Grant, At, Fit, Jobs
  <2>2. access' \in [Users -> SUBSET Flows]
    BY <1>15, <2>1 DEF Grant, TypeOK
  <2> QED
    BY <1>3, <1>15, <2>2 DEF Grant, TypeOK
<1> QED
  BY <1>5, <1>6, <1>7, <1>8, <1>9, <1>10, <1>11, <1>12, <1>13, <1>14, <1>15

\* The steps of the deletion of a group.
LEMMA GroupStepsType ==
    ASSUME TypeOK, JobsFit, NEW w \in Workers, ListFlows(w) \/ ClearFlow(w) \/ Cleared(w)
    PROVE  TypeOK' /\ JobsFit'
<1> USE DEF history, users, serving
<1>1. job[w] # NoJob
  BY DEF ListFlows, ClearFlow, Cleared, At
<1>2. job[w] \in Jobs /\ Fit(job[w])
  BY <1>1, JobAt
<1>3. CASE ListFlows(w)
  <2>1. PICK todo \in SUBSET Flows, at \in {"clear", "clear previous"} :
            /\ job' = [job EXCEPT ![w] = [job[w] EXCEPT !.todo = todo, !.at = at]]
            /\ job[w].at \in {"list", "list previous"}
    <3>1. CASE At(w, "list")
      BY <1>3, <3>1 DEF ListFlows, At
    <3>2. CASE At(w, "list previous")
      BY <1>3, <3>2 DEF ListFlows, At
    <3> QED
      BY <1>3, <3>1, <3>2 DEF ListFlows
  <2>2. [job[w] EXCEPT !.todo = todo, !.at = at] \in Jobs
    BY <1>2, JobForms DEF Places, Ungrouped
  <2>3. Fit([job[w] EXCEPT !.todo = todo, !.at = at])
    BY <1>2, <2>1 DEF Fit, Jobs
  <2>4. job' \in [Workers -> Jobs \cup {NoJob}] /\ JobsFit'
    BY <2>1, <2>2, <2>3, JobStep
  <2> QED
    BY <1>3, <2>4 DEF ListFlows, TypeOK
<1>4. CASE ClearFlow(w)
  <2>1. UNCHANGED <<groups, serving, calls, history, users>>
    BY <1>4 DEF ClearFlow
  <2>2. CASE End(w) /\ UNCHANGED flow
    BY <2>1, <2>2, EndStep DEF TypeOK
  <2>3. CASE ~(End(w) /\ UNCHANGED flow)
    <3>1. PICK f \in job[w].todo :
              /\ job' = [job EXCEPT ![w] = [job[w] EXCEPT !.todo = job[w].todo \ {f}]]
              /\ \/ flow' = [flow EXCEPT ![f] = [flow[f] EXCEPT !.group = NoGroup]]
                 \/ flow' = [flow EXCEPT ![f] = [flow[f] EXCEPT !.previous = NoGroup]]
      BY <1>4, <2>3 DEF ClearFlow
    <3>2. f \in Flows /\ job[w].todo \ {f} \in SUBSET Flows
      BY <1>2 DEF Jobs
    <3>3. [job[w] EXCEPT !.todo = job[w].todo \ {f}] \in Jobs
      BY <1>2, <3>2 DEF Jobs
    <3>4. Fit([job[w] EXCEPT !.todo = job[w].todo \ {f}])
      BY <1>2 DEF Fit, Jobs
    <3>5. job' \in [Workers -> Jobs \cup {NoJob}] /\ JobsFit'
      BY <3>1, <3>3, <3>4, JobStep
    <3>6. /\ [flow[f] EXCEPT !.group = NoGroup] \in FlowDocs
          /\ [flow[f] EXCEPT !.previous = NoGroup] \in FlowDocs
      BY <3>2, DocForms DEF TypeOK, Ungrouped
    <3>7. flow' \in [Flows -> FlowDocs]
      BY <3>1, <3>6 DEF TypeOK
    <3> QED
      BY <2>1, <3>5, <3>7 DEF TypeOK
  <2> QED
    BY <2>2, <2>3
<1>5. CASE Cleared(w)
  <2>1. CASE At(w, "clear")
    <3>1. job[w].at = "clear" /\ job[w].todo = {} /\ GoTo(w, "list previous")
      BY <1>5, <2>1 DEF Cleared, At
    <3>2. Fit([job[w] EXCEPT !.at = "list previous"])
      BY <1>2, <3>1 DEF Fit, Jobs
    <3>3. job' \in [Workers -> Jobs \cup {NoJob}] /\ JobsFit'
      BY <1>1, <3>1, <3>2, GoToStep DEF Places
    <3>4. UNCHANGED <<groups, flow, serving, calls, history, users>>
      BY <1>5, <2>1 DEF Cleared, At
    <3> QED
      BY <3>3, <3>4 DEF TypeOK
  <2>2. CASE At(w, "clear previous")
    <3>1. /\ groups' = [groups EXCEPT ![job[w].group] = "gone"]
          /\ End(w)
          /\ UNCHANGED <<flow, serving, calls, history, users>>
      BY <1>5, <2>2 DEF Cleared, At
    <3> QED
      BY <3>1, EndStep DEF TypeOK
  <2> QED
    BY <1>5, <2>1, <2>2 DEF Cleared
<1> QED
  BY <1>3, <1>4, <1>5

Typed == TypeOK /\ JobsFit

LEMMA TypedStep ==
    ASSUME TypeOK, JobsFit, [Next]_vars
    PROVE  TypeOK' /\ JobsFit'
<1> USE DEF history, users, serving
<1>1. CASE CreateGroup \/ UpdateUserFlows \/ SetFlowLocked
  <2>1. calls' \in 0..MaxCalls /\ UNCHANGED job
    BY <1>1, MaxCallsAssumption DEF CreateGroup, UpdateUserFlows, SetFlowLocked, Call, TypeOK
  <2>2. JobsFit'
    BY <2>1 DEF JobsFit
  <2>3. CASE CreateGroup
    BY <2>1, <2>2, <2>3 DEF CreateGroup, TypeOK
  <2>4. CASE UpdateUserFlows
    BY <2>1, <2>2, <2>4 DEF UpdateUserFlows, TypeOK
  <2>5. CASE SetFlowLocked
    <3>1. PICK f \in Flows, l \in {"locked", "unlocked"} :
              flow' = [flow EXCEPT ![f] = [flow[f] EXCEPT !.lock = l]]
      BY <2>5 DEF SetFlowLocked
    <3>2. [flow[f] EXCEPT !.lock = l] \in FlowDocs
      BY DEF TypeOK, FlowDocs
    <3> QED
      BY <2>1, <2>2, <2>5, <3>1, <3>2 DEF SetFlowLocked, TypeOK
  <2> QED
    BY <1>1, <2>3, <2>4, <2>5
<1>2. CASE Restart
  <2>1. calls' \in 0..MaxCalls
    BY <1>2, MaxCallsAssumption DEF Restart, Call, TypeOK
  <2>2. /\ loaded' = {} /\ boot' = "http" /\ listed' = {} /\ overtaken' = {}
        /\ job' = [w \in Workers |-> NoJob]
        /\ UNCHANGED <<groups, flow, history, users>>
    BY <1>2 DEF Restart
  <2> QED
    BY <2>1, <2>2 DEF TypeOK, JobsFit
<1>3. CASE \E w \in Workers : OnFlow(w) \/ OnList(w) \/ OnGroup(w)
  BY <1>3, RequestsStep, FlowStepsType, GroupStepsType DEF OnFlow, OnList, OnGroup
<1>4. CASE UNCHANGED vars
  BY <1>4 DEF vars, TypeOK, JobsFit
<1>5. CASE StartAllLists
  BY <1>5 DEF StartAllLists, TypeOK, JobsFit
<1>6. CASE StartAllSyncs
  <2>1. loaded' \subseteq Flows /\ listed' \subseteq Flows
    BY <1>6 DEF StartAllSyncs, TypeOK
  <2> QED
    BY <1>6, <2>1 DEF StartAllSyncs, TypeOK, JobsFit
<1> QED
  BY <1>1, <1>2, <1>3, <1>4, <1>5, <1>6 DEF Next

LEMMA TypedCorrect == Spec => []Typed
<1>1. Init => Typed
  <2> SUFFICES ASSUME Init PROVE Typed
    OBVIOUS
  <2>1. flow \in [Flows -> FlowDocs]
    BY DEF Init, FlowDocs, Blank, Ungrouped
  <2>2. home \in [Flows -> Ungrouped]
    BY <2>1 DEF Init, FlowDocs
  <2>3. access \in [Users -> SUBSET Flows]
    BY DEF Init
  <2> QED
    BY <2>1, <2>2, <2>3, MaxCallsAssumption DEF Init, Typed, TypeOK, JobsFit
<1>2. Typed /\ [Next]_vars => Typed'
  BY TypedStep DEF Typed
<1> QED
  BY <1>1, <1>2, PTL DEF Spec

\* Every variable stays in its type, and nothing is served that is no flow.
THEOREM TypeCorrect == Spec => []TypeOK
  BY TypedCorrect, PTL DEF Typed

----------------------------------------------------------------------------
(* The lists of the users.                                                 *)

Starts(w) ==
    SetFlowGroup(w) \/ SoftDeleteOrPurgeFlow(w) \/ RestoreFlow(w) \/ DeleteGroup(w) \/ Publish(w)

GoesOn(w) ==
    \/ GetGroup(w) \/ Refused(w) \/ Unpublish(w) \/ Update(w) \/ Purge(w)
    \/ RemoveEndpoints(w) \/ Reread(w) \/ Sync(w) \/ GetFlow(w) \/ Save(w) \/ Grant(w)
    \/ ListFlows(w) \/ ClearFlow(w) \/ Cleared(w)

\* A worker that is in a request leaves the others alone, and ends it or keeps what the
\* request is about.
LEMMA OneGoesOn ==
    ASSUME TypeOK, JobsFit, NEW w \in Workers, GoesOn(w)
    PROVE  /\ \A v \in Workers \ {w} : job'[v] = job[v]
           /\ job[w] # NoJob
           /\ \/ job'[w] = NoJob
              \/ /\ job'[w].kind = job[w].kind /\ job'[w].flow = job[w].flow
                 /\ job'[w].user = job[w].user /\ job'[w].list = job[w].list
<1>1. job[w] # NoJob
  BY DEF GoesOn, GetGroup, Refused, Unpublish, Update, Purge, RemoveEndpoints, Reread, Sync,
     GetFlow, Save, Grant, ListFlows, ClearFlow, Cleared, At
<1>2. job[w] \in Jobs
  BY <1>1, JobAt
<1>3. \/ End(w)
      \/ \E at \in Places : GoTo(w, at)
      \/ job' = [job EXCEPT ![w].group = NoGroup, ![w].at = "update"]
      \/ job' = [job EXCEPT ![w].state = flow[job[w].flow].state, ![w].at = "sync"]
      \/ \E t, at : job' = [job EXCEPT ![w].todo = t, ![w].at = at]
      \/ \E t : job' = [job EXCEPT ![w].todo = t]
  <2>1. CASE GetGroup(w)
    BY <2>1 DEF GetGroup, Places
  <2>2. CASE Refused(w) \/ RemoveEndpoints(w) \/ Sync(w) \/ Grant(w)
    BY <2>2 DEF Refused, RemoveEndpoints, Sync, Grant
  <2>3. CASE Unpublish(w) \/ Purge(w) \/ GetFlow(w)
    BY <2>3 DEF Unpublish, Purge, GetFlow, Places
  <2>4. CASE Save(w)
    BY <2>4 DEF Save, Places
  <2>5. CASE Update(w)
    BY <2>5 DEF Update, Places
  <2>6. CASE Reread(w)
    BY <2>6 DEF Reread
  <2>7. CASE ListFlows(w)
    BY <2>7 DEF ListFlows
  <2>8. CASE ClearFlow(w)
    BY <2>8 DEF ClearFlow
  <2>9. CASE Cleared(w)
    BY <2>9 DEF Cleared, Places
  <2> QED
    BY <2>1, <2>2, <2>3, <2>4, <2>5, <2>6, <2>7, <2>8, <2>9 DEF GoesOn
<1>4. CASE End(w)
  BY <1>1, <1>4 DEF End, TypeOK
<1>5. ASSUME NEW j, j.kind = job[w].kind, j.flow = job[w].flow, j.user = job[w].user,
             j.list = job[w].list, job' = [job EXCEPT ![w] = j]
      PROVE  /\ \A v \in Workers \ {w} : job'[v] = job[v]
             /\ job'[w].kind = job[w].kind /\ job'[w].flow = job[w].flow
             /\ job'[w].user = job[w].user /\ job'[w].list = job[w].list
  BY <1>5 DEF TypeOK
<1>6. CASE \E at \in Places : GoTo(w, at)
  <2>1. PICK at \in Places : job' = [job EXCEPT ![w] = [job[w] EXCEPT !.at = at]]
    BY <1>6 DEF GoTo
  <2> QED
    BY <1>1, <1>2, <1>5, <2>1 DEF Jobs
<1>7. CASE job' = [job EXCEPT ![w].group = NoGroup, ![w].at = "update"]
  <2>1. job' = [job EXCEPT ![w] = [job[w] EXCEPT !.group = NoGroup, !.at = "update"]]
    BY <1>7
  <2> QED
    BY <1>1, <1>2, <1>5, <2>1 DEF Jobs
<1>8. CASE job' = [job EXCEPT ![w].state = flow[job[w].flow].state, ![w].at = "sync"]
  <2>1. job' = [job EXCEPT ![w] = [job[w] EXCEPT !.state = flow[job[w].flow].state, !.at = "sync"]]
    BY <1>8
  <2> QED
    BY <1>1, <1>2, <1>5, <2>1 DEF Jobs
<1>9. CASE \E t, at : job' = [job EXCEPT ![w].todo = t, ![w].at = at]
  <2>1. PICK t, at : job' = [job EXCEPT ![w] = [job[w] EXCEPT !.todo = t, !.at = at]]
    BY <1>9, ZenonT(60)
  <2> QED
    BY <1>1, <1>2, <1>5, <2>1 DEF Jobs
<1>10. CASE \E t : job' = [job EXCEPT ![w].todo = t]
  <2>1. PICK t : job' = [job EXCEPT ![w] = [job[w] EXCEPT !.todo = t]]
    BY <1>10
  <2> QED
    BY <1>1, <1>2, <1>5, <2>1 DEF Jobs
<1> QED
  BY <1>1, <1>3, <1>4, <1>6, <1>7, <1>8, <1>9, <1>10 DEF End, TypeOK

Steps(w) == Starts(w) \/ SaveFlow(w) \/ GoesOn(w)

LEMMA NextSteps ==
    Next <=> \/ CreateGroup \/ UpdateUserFlows \/ SetFlowLocked
             \/ StartAllLists \/ StartAllSyncs \/ Restart
             \/ \E w \in Workers : Steps(w)
  BY DEF Next, Steps, Starts, GoesOn, OnFlow, OnList, OnGroup

\* A request that starts begins with its first call.
LEMMA RequestBegins ==
    ASSUME NEW w \in Workers, Starts(w) \/ SaveFlow(w)
    PROVE  \E j : Begin(w, j)
<1>1. CASE SetFlowGroup(w)
  BY <1>1 DEF SetFlowGroup
<1>2. CASE SoftDeleteOrPurgeFlow(w)
  BY <1>2 DEF SoftDeleteOrPurgeFlow
<1>3. CASE RestoreFlow(w)
  BY <1>3 DEF RestoreFlow
<1>4. CASE DeleteGroup(w) \/ Publish(w)
  BY <1>4 DEF DeleteGroup, Publish
<1>5. CASE SaveFlow(w)
  BY <1>5 DEF SaveFlow
<1> QED
  BY <1>1, <1>2, <1>3, <1>4, <1>5 DEF Starts

\* What has overlapped has, and a group whose deletion has begun is doomed.
LEMMA HistoryGrows ==
    ASSUME [Next]_vars
    PROVE  raced \subseteq raced' /\ mixed \subseteq mixed' /\ doomed \subseteq doomed'
<1> USE DEF history, users, serving
<1>1. CASE CreateGroup \/ SetFlowLocked \/ StartAllLists \/ StartAllSyncs \/ Restart \/ UNCHANGED vars
  BY <1>1 DEF CreateGroup, SetFlowLocked, StartAllLists, StartAllSyncs, Restart, vars
<1>2. CASE UpdateUserFlows
  BY <1>2 DEF UpdateUserFlows
<1>3. ASSUME NEW w \in Workers, NEW j, Begin(w, j)
      PROVE  raced \subseteq raced' /\ mixed \subseteq mixed' /\ doomed \subseteq doomed'
  BY <1>3 DEF Begin
<1>4. ASSUME NEW w \in Workers, GoesOn(w)
      PROVE  UNCHANGED <<raced, mixed, doomed>>
  <2>1. CASE GetGroup(w) \/ Refused(w) \/ Unpublish(w) \/ Purge(w) \/ RemoveEndpoints(w)
    BY <2>1 DEF GetGroup, Refused, Unpublish, Purge, RemoveEndpoints
  <2>2. CASE Update(w)
    BY <2>2 DEF Update
  <2>3. CASE Reread(w) \/ Sync(w) \/ GetFlow(w) \/ Save(w) \/ Grant(w)
    BY <2>3 DEF Reread, Sync, GetFlow, Save, Grant
  <2>4. CASE ListFlows(w) \/ ClearFlow(w)
    BY <2>4 DEF ListFlows, ClearFlow
  <2>5. CASE Cleared(w)
    BY <2>5 DEF Cleared
  <2> QED
    BY <1>4, <2>1, <2>2, <2>3, <2>4, <2>5 DEF GoesOn
<1> QED
  BY <1>1, <1>2, <1>3, <1>4, RequestBegins, NextSteps DEF Steps

\* The worker handles a save that a user made over HTTP.
SavesFor(w, u) == job[w] # NoJob /\ job[w].kind = "save" /\ job[w].user = u

\* The user's list is the one such a save knows, or has lost something since, and the save
\* is alone.
ListKept(u) ==
    \A v \in Workers : SavesFor(v, u) =>
        access[u] \subseteq job[v].list /\ \A w \in Workers : SavesFor(w, u) => v = w

LEMMA ListKeptStep ==
    ASSUME TypeOK, JobsFit, NEW u \in Users, u \notin mixed', ListKept(u), [Next]_vars
    PROVE  ListKept(u)' /\ (access[u] \subseteq access'[u] \/ UNCHANGED job)
<1> USE DEF history, users, serving
<1>1. CASE CreateGroup \/ SetFlowLocked \/ StartAllLists \/ StartAllSyncs \/ UNCHANGED vars
  <2>1. UNCHANGED <<job, access>>
    BY <1>1 DEF CreateGroup, SetFlowLocked, StartAllLists, StartAllSyncs, vars
  <2> QED
    BY <2>1 DEF ListKept, SavesFor
<1>2. CASE UpdateUserFlows
  <2>1. PICK v \in Users, list \in SUBSET Flows :
            /\ access' = [access EXCEPT ![v] = list]
            /\ mixed' = mixed \cup (IF \E w \in Underway : job[w].kind = "save" /\ job[w].user = v
                                    THEN {v} ELSE {})
    BY <1>2 DEF UpdateUserFlows
  <2>2. UNCHANGED job
    BY <1>2 DEF UpdateUserFlows
  <2>3. CASE v = u
    <3>1. \A w \in Workers : ~SavesFor(w, u)
      BY <2>1, <2>3 DEF SavesFor, Underway
    <3> QED
      BY <2>2, <3>1 DEF ListKept, SavesFor
  <2>4. CASE v # u
    BY <2>1, <2>2, <2>4 DEF ListKept, SavesFor, TypeOK
  <2> QED
    BY <2>3, <2>4
<1>3. CASE Restart
  <2>1. job' = [w \in Workers |-> NoJob] /\ UNCHANGED access
    BY <1>3 DEF Restart
  <2> QED
    BY <2>1 DEF ListKept, SavesFor
<1>4. ASSUME NEW w \in Workers, NEW j \in Jobs, Begin(w, j), j.kind # "save" \/ j.list = access[j.user]
      PROVE  ListKept(u)' /\ access[u] \subseteq access'[u]
  <2>1. /\ job' = [job EXCEPT ![w] = j] /\ job[w] = NoJob
        /\ UNCHANGED access
        /\ mixed' = mixed \cup {x \in Users : /\ j.kind = "save" /\ j.user = x
                                              /\ \E v \in Underway : job[v].kind = "save" /\ job[v].user = x}
    BY <1>4 DEF Begin
  <2>2. \A v \in Workers : v # w => job'[v] = job[v]
    BY <2>1 DEF TypeOK
  <2>3. job'[w] = j
    BY <2>1 DEF TypeOK
  <2>4. j # NoJob
    BY NoJobAssumption
  <2>5. CASE j.kind = "save" /\ j.user = u
    <3>1. \A v \in Workers : ~SavesFor(v, u)
      BY <2>1, <2>5 DEF SavesFor, Underway
    <3>2. \A v \in Workers : SavesFor(v, u)' => v = w
      BY <2>2, <3>1 DEF SavesFor
    <3> QED
      BY <1>4, <2>1, <2>3, <2>5, <3>2 DEF ListKept
  <2>6. CASE ~(j.kind = "save" /\ j.user = u)
    <3>1. ~SavesFor(w, u)'
      BY <2>3, <2>6 DEF SavesFor
    <3>2. \A v \in Workers : SavesFor(v, u)' => SavesFor(v, u) /\ job'[v] = job[v]
      BY <2>2, <3>1 DEF SavesFor
    <3> QED
      BY <2>1, <3>2 DEF ListKept
  <2> QED
    BY <2>5, <2>6
<1>5. ASSUME NEW w \in Workers, Starts(w) PROVE ListKept(u)' /\ access[u] \subseteq access'[u]
  <2>1. UNCHANGED <<access, mixed>> /\ \A v \in Workers : SavesFor(v, u)' => SavesFor(v, u) /\ job'[v] = job[v]
    <3>1. PICK j : Begin(w, j) /\ j.kind # "save"
      <4>1. CASE SetFlowGroup(w)
        <5>1. PICK f \in Flows, g \in Ungrouped, at \in {"group", "update"} :
                  Begin(w, NewJob("move", at, f, g))
          BY <4>1 DEF SetFlowGroup
        <5> QED
          BY <5>1 DEF NewJob
      <4>2. CASE SoftDeleteOrPurgeFlow(w)
        BY <4>2 DEF SoftDeleteOrPurgeFlow, NewJob
      <4>3. CASE RestoreFlow(w)
        BY <4>3 DEF RestoreFlow, NewJob
      <4>4. CASE DeleteGroup(w)
        BY <4>4 DEF DeleteGroup, NewJob
      <4>5. CASE Publish(w)
        BY <4>5 DEF Publish, NewJob
      <4> QED
        BY <1>5, <4>1, <4>2, <4>3, <4>4, <4>5 DEF Starts
    <3> QED
      BY <3>1 DEF Begin, SavesFor, TypeOK
  <2> QED
    BY <2>1 DEF ListKept
<1>6. ASSUME NEW w \in Workers, SaveFlow(w) PROVE ListKept(u)' /\ access[u] \subseteq access'[u]
  <2>0. NoGroup \in Ungrouped /\ {} \in SUBSET Flows
    BY DEF Ungrouped
  <2>1. PICK f \in Flows :
        \/ \E v \in Users :
               Begin(w, [NewJob("save", "get", f, NoGroup) EXCEPT !.user = v, !.list = access[v]])
        \/ \E list \in {Flows} \cup {access[v] : v \in Users} :
               Begin(w, [NewJob("tool", "get", f, NoGroup) EXCEPT !.list = list])
    BY <1>6 DEF SaveFlow
  <2>2. ASSUME NEW v \in Users, NEW j, j = [NewJob("save", "get", f, NoGroup) EXCEPT !.user = v, !.list = access[v]],
               Begin(w, j)
        PROVE  ListKept(u)' /\ access[u] \subseteq access'[u]
    <3>1. access[v] \in SUBSET Flows
      BY DEF TypeOK
    <3>2. j \in Jobs
      BY <2>0, <2>2, <3>1, NewJobType DEF Places
    <3>3. j.list = access[j.user]
      BY <2>2 DEF NewJob
    <3> QED
      BY <1>4, <2>2, <3>2, <3>3
  <2>3. ASSUME NEW list \in {Flows} \cup {access[v] : v \in Users}, NEW j,
               j = [NewJob("tool", "get", f, NoGroup) EXCEPT !.list = list], Begin(w, j)
        PROVE  ListKept(u)' /\ access[u] \subseteq access'[u]
    <3>1. list \in SUBSET Flows
      BY DEF TypeOK
    <3>2. j \in Jobs
      BY <2>0, <2>3, <3>1, NewJobType DEF Places
    <3>3. j.kind # "save"
      BY <2>3 DEF NewJob
    <3> QED
      BY <1>4, <2>3, <3>2, <3>3
  <2> QED
    BY <2>1, <2>2, <2>3
<1>7. ASSUME NEW w \in Workers, GoesOn(w) PROVE ListKept(u)' /\ access[u] \subseteq access'[u]
  <2>1. \A v \in Workers : SavesFor(v, u)' => SavesFor(v, u) /\ job'[v].list = job[v].list
    BY <1>7, OneGoesOn DEF SavesFor
  <2>2. CASE UNCHANGED access
    BY <2>1, <2>2 DEF ListKept
  <2>3. CASE Grant(w)
    <3>1. /\ access' = [access EXCEPT ![job[w].user] = job[w].list \cup {job[w].flow}]
          /\ job[w] # NoJob /\ job[w].at = "grant" /\ End(w)
      BY <2>3 DEF Grant, At
    <3>2. job[w].kind = "save"
      BY <3>1, JobAt DEF Fit
    <3>3. CASE job[w].user = u
      <4>1. SavesFor(w, u) /\ job'[w] = NoJob
        BY <3>1, <3>2, <3>3 DEF SavesFor, End, TypeOK
      <4>2. \A v \in Workers : ~SavesFor(v, u)'
        BY <2>1, <4>1 DEF ListKept, SavesFor
      <4>3. access[u] \subseteq job[w].list
        BY <4>1 DEF ListKept
      <4>4. access'[u] = job[w].list \cup {job[w].flow}
        BY <3>1, <3>3 DEF TypeOK
      <4> QED
        BY <4>2, <4>3, <4>4 DEF ListKept
    <3>4. CASE job[w].user # u
      <4>1. access'[u] = access[u]
        BY <3>1, <3>4 DEF TypeOK
      <4> QED
        BY <2>1, <4>1 DEF ListKept
    <3> QED
      BY <3>3, <3>4
  <2> QED
    BY <1>7, <2>2, <2>3 DEF GoesOn, GetGroup, Refused, Unpublish, Update, Purge,
       RemoveEndpoints, Reread, Sync, GetFlow, Save, ListFlows, ClearFlow, Cleared
<1> QED
  BY <1>1, <1>2, <1>3, <1>5, <1>6, <1>7, NextSteps DEF Steps

ListsKept == \A u \in Users \ mixed : ListKept(u)

\* A save never takes a flow out of its user's list, unless the list is changed between
\* the authentication and the end of the save, for any number of users, flows and saves
\* at once (flow_handlers.go HandleSaveFlow).
THEOREM ListsOnlyGrow == Spec => ListOnlyGrows
<1>1. Init => ListsKept
  BY DEF Init, ListsKept, ListKept, SavesFor
<1>2. [Next]_vars => mixed \subseteq mixed'
  BY HistoryGrows
<1>3. Typed /\ ListsKept /\ [Next]_vars => ListsKept'
  BY <1>2, ListKeptStep DEF Typed, ListsKept
<1>4. Typed /\ ListsKept /\ [Next]_vars
          => [\A u \in Users \ mixed' : access[u] \subseteq access'[u] \/ UNCHANGED job]_vars
  BY <1>2, ListKeptStep DEF Typed, ListsKept
<1> QED
  BY <1>1, <1>3, <1>4, TypedCorrect, PTL DEF Spec, ListOnlyGrows

----------------------------------------------------------------------------
(* Flows, groups and the trash.                                            *)

\* The workers that handle a request, other than a save, on the flow; that delete a group.
Working(f) == {v \in Workers : job[v] # NoJob /\ job[v].flow = f /\ ~Saves(job[v])}
Dissolving == {w \in Workers : job[w] # NoJob /\ job[w].kind = "dissolve"}

\* The flow is served, and StartAll has not loaded it again behind a request.
Fair(f) == f \in loaded /\ f \notin overtaken

\* What holds of a flow at every moment.
Kept(f) ==
    /\ ~Stored(f) => /\ flow[f].group = NoGroup /\ flow[f].previous = NoGroup
                     /\ flow[f].state = "offline"
    /\ flow[f].group \in Groups => Exists(flow[f].group)
    /\ flow[f].previous \in Groups => Exists(flow[f].previous)
    /\ InTrash(f) => \/ flow[f].previous = home[f]
                     \/ flow[f].previous = NoGroup /\ home[f] \in doomed
    /\ InTrash(f) /\ f \notin afresh => flow[f].state = "offline"
    /\ (\A v \in Workers : v \notin Working(f)) /\ Fair(f) => flow[f].state = "online"

\* A flow nobody races for has one request on it, and no deletion of a group that the
\* flow or the request has to do with goes on meanwhile.
Apart(f) ==
    \A v, w \in Workers : v \in Working(f) =>
        /\ w \in Working(f) => v = w
        /\ w \in Dissolving => /\ f \notin job[w].todo
                               /\ job[w].group # flow[f].group
                               /\ job[w].group # flow[f].previous
                               /\ job[w].group # job[v].group

\* What the request knows of the flow is still so.
Sound(j, f) ==
    /\ j.at # "remove" => Stored(f)
    /\ j.at = "group" => j.group \in Groups
    /\ j.at = "unpublish" => j.state = "online"
    /\ j.at \in {"group", "unpublish", "update"} /\ j.group \in Groups
           => Exists(j.group) \/ (j.kind = "move" /\ j.at = "group")
    /\ j.at = "purge" => InTrash(f)
    /\ j.kind = "move" => ~InTrash(f)
    /\ j.kind = "restore" => j.group = home[f] \/ (j.group = NoGroup /\ home[f] \in doomed)
    /\ j.kind = "delete" /\ j.at \in {"update", "reread"} => flow[f].state = "offline"
    /\ j.at = "sync" => j.state = flow[f].state
    /\ \/ j.at \in {"group", "unpublish"}
       \/ j.at = "update" /\ (j.kind = "delete" => j.state = "offline")
       => (Fair(f) => flow[f].state = "online")

Worked(f) == \A v \in Workers : v \in Working(f) => Sound(job[v], f)

\* What the deletion of a group has done with the flow so far.
Off(j, f) ==
    /\ j.group \in doomed
    /\ j.at = "clear" => /\ flow[f].group = j.group => f \in j.todo
                         /\ f \in j.todo => flow[f].group # Trash
    /\ j.at \in {"list previous", "clear previous"} => flow[f].group # j.group
    /\ j.at = "clear previous" =>
           /\ flow[f].previous = j.group => f \in j.todo
           /\ f \in j.todo => flow[f].previous \in {j.group, NoGroup}

Listed(f) == \A w \in Workers : w \in Dissolving => Off(job[w], f)

FlowKept(f) == Kept(f) /\ Apart(f) /\ Worked(f) /\ Listed(f)

\* What a step may do to a flow: the step of ThroughTrash.
Through(f) ==
    /\ Stored(f) /\ ~Stored(f)' => InTrash(f)
    /\ InTrash(f) /\ Stored(f)' /\ ~InTrash(f)' =>
           \/ flow'[f].group = home[f]
           \/ flow'[f].group = NoGroup /\ home[f] \in doomed

\* A step that has to do with other flows, or with the place of none.
LEMMA FrameStep ==
    ASSUME TypeOK, JobsFit, NEW f \in Flows, FlowKept(f),
           flow'[f].group = flow[f].group, flow'[f].previous = flow[f].previous,
           flow'[f].state = flow[f].state,
           Stored(f) => Stored(f)',
           Fair(f)' => Fair(f) \/ flow[f].state = "online", f \in afresh' <=> f \in afresh,
           home'[f] = home[f], doomed \subseteq doomed',
           \A g \in Groups : Exists(g) => Exists(g)',
           \A v \in Workers : v \in Working(f)' <=> v \in Working(f),
           \A v \in Workers : v \in Working(f)' \/ v \in Dissolving' => job[v] # NoJob /\ job'[v] = job[v]
    PROVE  FlowKept(f)' /\ Through(f)
<1>1. InTrash(f)' <=> InTrash(f)
  BY PlacesAssumption DEF FlowKept, Kept, InTrash
<1>2. Kept(f)' /\ Through(f)
  BY <1>1 DEF FlowKept, Kept, Through
<1>3. Apart(f)'
  BY DEF FlowKept, Apart, Working, Dissolving
<1>4. ASSUME NEW v \in Workers, v \in Working(f)' PROVE Sound(job[v], f)'
  <2>1. Sound(job[v], f) /\ job'[v] = job[v]
    BY <1>4 DEF FlowKept, Worked
  <2>2. job'[v].at # "remove" => Stored(f)'
    BY <2>1 DEF Sound
  <2>3. job[v].group \in Groups /\ Exists(job[v].group) => Exists(job[v].group)'
    BY <2>1 DEF Exists
  <2> QED
    BY <1>1, <2>1, <2>2, <2>3 DEF Sound
<1>5. ASSUME NEW w \in Workers, w \in Dissolving' PROVE Off(job[w], f)'
  <2>1. w \in Dissolving /\ job'[w] = job[w]
    BY <1>5 DEF Dissolving
  <2>2. Off(job[w], f)
    BY <2>1 DEF FlowKept, Listed
  <2> QED
    BY <2>1, <2>2 DEF Off
<1> QED
  BY <1>2, <1>3, <1>4, <1>5 DEF FlowKept, Worked, Listed

\* A request that begins and races for the flow with none.
LEMMA BeginKept ==
    ASSUME TypeOK, JobsFit, NEW f \in Flows, FlowKept(f), f \notin raced',
           NEW w \in Workers, NEW j \in Jobs, Fit(j), Begin(w, j),
           j.kind = "dissolve" => j.at = "list",
           j.flow = f /\ ~Saves(j) /\ (\A v \in Workers : v \notin Working(f)) => Sound(j, f)
    PROVE  FlowKept(f)' /\ Through(f)
<1>1. /\ job[w] = NoJob /\ job' = [job EXCEPT ![w] = j]
      /\ UNCHANGED <<groups, flow, loaded, home, afresh>> /\ overtaken \subseteq overtaken'
      /\ doomed' = doomed \cup (IF j.kind = "dissolve" THEN {j.group} ELSE {})
  BY DEF Begin
<1>2. \A v \in Workers : job[v] # NoJob => ~Meet(job[v], j, f) /\ ~Meet(j, job[v], f)
  BY DEF Begin, Underway
<1>3. job'[w] = j /\ j # NoJob /\ \A v \in Workers \ {w} : job'[v] = job[v]
  BY <1>1, NoJobAssumption DEF TypeOK
<1>4. \A v \in Workers \ {w} : /\ v \in Working(f)' <=> v \in Working(f)
                               /\ v \in Dissolving' <=> v \in Dissolving
  BY <1>3 DEF Working, Dissolving
<1>5. w \notin Working(f) /\ (w \in Working(f)' <=> j.flow = f /\ ~Saves(j))
      /\ (w \in Dissolving' <=> j.kind = "dissolve")
  BY <1>1, <1>3 DEF Working, Dissolving
<1>6. Kept(f)'
  <2>1. (\A v \in Workers : v \notin Working(f)') => (\A v \in Workers : v \notin Working(f))
    BY <1>4, <1>5
  <2> QED
    BY <1>1, <2>1 DEF FlowKept, Kept, Fair, Stored, InTrash, Exists
<1>7. Through(f)
  BY <1>1 DEF Through, Stored, InTrash
<1>8. ASSUME w \in Working(f)' PROVE \A v \in Workers : v \notin Working(f)
  BY <1>2, <1>5, <1>8 DEF Meet, Working
<1>9. ASSUME NEW v \in Workers, NEW x \in Workers, v \in Working(f)'
      PROVE  /\ x \in Working(f)' => v = x
             /\ x \in Dissolving' => /\ f \notin job'[x].todo
                                     /\ job'[x].group # flow[f].group
                                     /\ job'[x].group # flow[f].previous
                                     /\ job'[x].group # job'[v].group
  <2>1. CASE v # w /\ x # w
    BY <1>3, <1>4, <1>9, <2>1 DEF FlowKept, Apart
  <2>2. CASE v # w /\ x = w
    <3>1. v \in Working(f) /\ job'[v] = job[v] /\ job'[x] = j
      BY <1>3, <1>4, <1>9, <2>2
    <3>2. x \notin Working(f)'
      BY <1>8, <2>2, <3>1
    <3>3. ~Meet(job[v], j, f) /\ job[v].flow = f /\ ~Saves(job[v])
      BY <1>2, <3>1 DEF Working
    <3>4. j.kind = "dissolve" => ~Saves(j)
      BY DEF Saves
    <3> QED
      BY <1>5, <2>2, <3>1, <3>2, <3>3, <3>4 DEF Meet
  <2>3. CASE v = w /\ x # w
    <3>1. job'[x] = job[x] /\ job'[v] = j /\ x \notin Working(f) /\ j.flow = f /\ ~Saves(j)
      BY <1>3, <1>5, <1>8, <1>9, <2>3
    <3>2. x \in Dissolving' => job[x] # NoJob /\ job[x].kind = "dissolve"
      BY <1>4, <2>3 DEF Dissolving
    <3>3. job[x].kind = "dissolve" => ~Saves(job[x])
      BY DEF Saves
    <3>4. x \notin Working(f)'
      BY <1>4, <2>3, <3>1
    <3>5. job[x] # NoJob => ~Meet(j, job[x], f)
      BY <1>2
    <3> QED
      BY <3>1, <3>2, <3>3, <3>4, <3>5 DEF Meet
  <2>4. CASE v = w /\ x = w
    <3>1. j.flow = f
      BY <1>5, <1>9, <2>4
    <3>2. j.kind # "dissolve"
      BY <3>1, NoFlowAssumption DEF Fit
    <3> QED
      BY <1>5, <2>4, <3>2
  <2> QED
    BY <2>1, <2>2, <2>3, <2>4
<1>10. Apart(f)'
  BY <1>1, <1>9 DEF Apart
<1>11. ASSUME NEW v \in Workers, v \in Working(f)' PROVE Sound(job[v], f)'
  <2>1. Sound(job'[v], f)
    BY <1>3, <1>4, <1>5, <1>8, <1>11 DEF FlowKept, Worked
  <2> QED
    BY <1>1, <2>1 DEF Sound, Fair, Stored, InTrash, Exists
<1>12. ASSUME NEW v \in Workers, v \in Dissolving' PROVE Off(job[v], f)'
  <2>1. CASE v = w
    <3>1. j.kind = "dissolve" /\ job'[v] = j
      BY <1>3, <1>5, <1>12, <2>1
    <3>2. j.group \in doomed' /\ j.at = "list"
      BY <1>1, <3>1
    <3> QED
      BY <3>1, <3>2 DEF Off
  <2>2. CASE v # w
    <3>1. v \in Dissolving /\ job'[v] = job[v]
      BY <1>3, <1>4, <1>12, <2>2
    <3>2. Off(job[v], f)
      BY <3>1 DEF FlowKept, Listed
    <3>3. doomed \subseteq doomed' /\ UNCHANGED flow
      BY <1>1
    <3> QED
      BY <3>1, <3>2, <3>3 DEF Off
  <2> QED
    BY <2>1, <2>2
<1> QED
  BY <1>6, <1>7, <1>10, <1>11, <1>12 DEF FlowKept, Worked, Listed

\* The deletion of a group goes on.
LEMMA GroupStepsKept ==
    ASSUME TypeOK, JobsFit, NEW f \in Flows, FlowKept(f), NEW w \in Workers,
           ListFlows(w) \/ ClearFlow(w) \/ Cleared(w)
    PROVE  FlowKept(f)' /\ Through(f)
<1> USE DEF history, users, serving, Fair
<1>1. job[w] # NoJob
  BY DEF ListFlows, ClearFlow, Cleared, At
<1>2. job[w] \in Jobs /\ Fit(job[w])
  BY <1>1, JobAt
<1>3. /\ job[w].kind = "dissolve" /\ job[w].group \in Groups
      /\ job[w].at \in {"list", "clear", "list previous", "clear previous"}
  <2>1. CASE ListFlows(w) \/ Cleared(w)
    BY <1>2, <2>1 DEF ListFlows, Cleared, At, Fit
  <2>2. CASE ClearFlow(w)
    BY <1>2, <2>2 DEF ClearFlow, Fit
  <2> QED
    BY <2>1, <2>2
<1>4. w \in Dissolving /\ Off(job[w], f) /\ \A v \in Workers : v \in Working(f) => v # w
  BY <1>1, <1>2, <1>3, NoFlowAssumption DEF Dissolving, FlowKept, Listed, Working, Fit
<1>5. /\ \A v \in Workers \ {w} : job'[v] = job[v]
      /\ job'[w] = NoJob \/ (job'[w].kind = "dissolve" /\ job'[w].flow = job[w].flow)
  BY <1>3, OneGoesOn DEF GoesOn
<1>6. \A v \in Workers : v \in Working(f)' <=> v \in Working(f)
  <2>1. w \notin Working(f) /\ w \notin Working(f)'
    BY <1>2, <1>3, <1>5, NoFlowAssumption DEF Working, Fit
  <2> QED
    BY <1>5, <2>1 DEF Working
<1>7. \A v \in Workers : v \in Working(f)' => v # w /\ job'[v] = job[v]
  BY <1>4, <1>5, <1>6
<1>8. CASE ListFlows(w)
  <2>1. UNCHANGED <<groups, flow, serving, calls, history, users>>
    BY <1>8 DEF ListFlows
  <2>2. PICK todo \in SUBSET Flows, at \in {"clear", "clear previous"} :
            /\ job' = [job EXCEPT ![w] = [job[w] EXCEPT !.todo = todo, !.at = at]]
            /\ at = "clear" => todo = {x \in Flows : Stored(x) /\ flow[x].group = job[w].group}
            /\ at = "clear previous" =>
                  /\ todo = {x \in Flows : Stored(x) /\ flow[x].previous = job[w].group}
                  /\ job[w].at = "list previous"
    <3>1. CASE At(w, "list")
      BY <1>8, <3>1 DEF ListFlows, At
    <3>2. CASE At(w, "list previous")
      BY <1>8, <3>2 DEF ListFlows, At
    <3> QED
      BY <1>8, <3>1, <3>2 DEF ListFlows
  <2>3. /\ job'[w].todo = todo /\ job'[w].at = at /\ job'[w].group = job[w].group
    BY <1>2, <2>2 DEF TypeOK, Jobs
  <2>4. job[w].group # NoGroup /\ job[w].group # Trash
    BY <1>3, PlacesAssumption
  <2>5. Off(job[w], f)'
    <3>1. job[w].group \in doomed
          /\ (job[w].at = "list previous" => flow[f].group # job[w].group)
      BY <1>4 DEF Off
    <3>2. /\ flow[f].group = job[w].group => Stored(f)
          /\ flow[f].previous = job[w].group => Stored(f)
      BY <2>4 DEF FlowKept, Kept
    <3>3. CASE at = "clear"
      <4>1. f \in todo <=> Stored(f) /\ flow[f].group = job[w].group
        BY <2>2, <3>3
      <4> QED
        BY <2>1, <2>3, <2>4, <3>1, <3>2, <3>3, <4>1 DEF Off
    <3>4. CASE at = "clear previous"
      <4>1. f \in todo <=> Stored(f) /\ flow[f].previous = job[w].group
        BY <2>2, <3>4
      <4>2. flow[f].group # job[w].group
        BY <2>2, <3>1, <3>4
      <4> QED
        BY <2>1, <2>3, <2>4, <3>1, <3>2, <3>4, <4>1, <4>2 DEF Off
    <3> QED
      BY <3>3, <3>4
  <2>6. Kept(f)' /\ Through(f)
    BY <1>6, <2>1 DEF FlowKept, Kept, Through, Stored, InTrash, Exists
  <2>7. Apart(f)'
    <3>1. ASSUME NEW v \in Workers, v \in Working(f)' PROVE f \notin job'[w].todo
      BY <1>4, <1>6, <2>2, <2>3, <3>1 DEF FlowKept, Apart
    <3> QED
      <4>1. ASSUME NEW v \in Workers, NEW y \in Workers, v \in Working(f)'
            PROVE  /\ y \in Working(f)' => v = y
                   /\ y \in Dissolving' => /\ f \notin job'[y].todo
                                           /\ job'[y].group # flow[f].group
                                           /\ job'[y].group # flow[f].previous
                                           /\ job'[y].group # job'[v].group
        <5>1. v \in Working(f) /\ job'[v] = job[v]
          BY <1>6, <1>7, <4>1
        <5>2. y \in Dissolving' => y \in Dissolving /\ job'[y].group = job[y].group
          BY <1>4, <1>5, <2>3 DEF Dissolving
        <5>3. y \in Dissolving' => f \notin job'[y].todo
          BY <1>5, <3>1, <4>1, <5>1, <5>2 DEF FlowKept, Apart
        <5> QED
          BY <1>6, <5>1, <5>2, <5>3 DEF FlowKept, Apart
      <4> QED
        BY <2>1, <4>1 DEF Apart
  <2>8. ASSUME NEW v \in Workers, v \in Working(f)' PROVE Sound(job[v], f)'
    <3>1. Sound(job[v], f) /\ job'[v] = job[v]
      BY <1>6, <1>7, <2>8 DEF FlowKept, Worked
    <3>2. /\ \A g \in Groups : Exists(g)' <=> Exists(g)
          /\ Stored(f)' <=> Stored(f)
          /\ InTrash(f)' <=> InTrash(f)
      BY <2>1 DEF Stored, InTrash, Exists
    <3> QED
      BY <2>1, <3>1, <3>2 DEF Sound
  <2>9. ASSUME NEW v \in Workers \ {w}, v \in Dissolving' PROVE Off(job[v], f)'
    BY <1>5, <2>1, <2>9 DEF FlowKept, Listed, Off, Dissolving
  <2> QED
    BY <2>5, <2>6, <2>7, <2>8, <2>9 DEF FlowKept, Worked, Listed
<1>9. CASE ClearFlow(w)
  <2>1. UNCHANGED <<groups, serving, calls, history, users>>
    BY <1>9 DEF ClearFlow
  <2>2. CASE End(w) /\ UNCHANGED flow
    <3>1. job'[w] = NoJob
      BY <2>2 DEF End, TypeOK
    <3>2. \A v \in Workers : v \in Working(f)' \/ v \in Dissolving' => job[v] # NoJob /\ job'[v] = job[v]
      BY <1>5, <3>1 DEF Working, Dissolving
    <3>3. \A g \in Groups : Exists(g) => Exists(g)'
      BY <2>1 DEF Exists
    <3>4. Stored(f) => Stored(f)'
      BY <2>2 DEF Stored
    <3> QED
      BY <1>6, <2>1, <2>2, <3>2, <3>3, <3>4, FrameStep
  <2>3. CASE ~(End(w) /\ UNCHANGED flow)
    <3>1. PICK x \in job[w].todo :
              /\ Stored(x)
              /\ job' = [job EXCEPT ![w] = [job[w] EXCEPT !.todo = job[w].todo \ {x}]]
              /\ IF job[w].at = "clear"
                 THEN flow' = [flow EXCEPT ![x] = [flow[x] EXCEPT !.group = NoGroup]]
                 ELSE flow' = [flow EXCEPT ![x] = [flow[x] EXCEPT !.previous = NoGroup]]
      BY <1>9, <2>3 DEF ClearFlow
    <3>2. x \in Flows /\ job[w].at \in {"clear", "clear previous"}
      BY <1>2, <1>3, <3>1 DEF Jobs, Fit
    <3>3. /\ job'[w].todo = job[w].todo \ {x} /\ job'[w].at = job[w].at
          /\ job'[w].group = job[w].group
      BY <1>2, <3>1 DEF TypeOK, Jobs
    <3>4. flow[f] \in FlowDocs
      BY DEF TypeOK
    <3>5. /\ flow'[f].stage = flow[f].stage /\ flow'[f].state = flow[f].state
          /\ \/ /\ flow'[f].group = flow[f].group /\ flow'[f].previous = flow[f].previous
                /\ f # x
             \/ /\ f = x /\ job[w].at = "clear"
                /\ flow'[f].group = NoGroup /\ flow'[f].previous = flow[f].previous
             \/ /\ f = x /\ job[w].at = "clear previous"
                /\ flow'[f].group = flow[f].group /\ flow'[f].previous = NoGroup
      <4>1. CASE f # x
        BY <3>1, <3>2, <4>1 DEF TypeOK
      <4>2. CASE f = x /\ job[w].at = "clear"
        BY <3>1, <3>4, <4>2 DEF TypeOK, FlowDocs
      <4>3. CASE f = x /\ job[w].at = "clear previous"
        <5>1. flow' = [flow EXCEPT ![f] = [flow[f] EXCEPT !.previous = NoGroup]]
          BY <3>1, <4>3
        <5>2. flow'[f] = [flow[f] EXCEPT !.previous = NoGroup]
          BY <5>1 DEF TypeOK
        <5> QED
          BY <3>4, <4>3, <5>2 DEF FlowDocs
      <4> QED
        BY <3>2, <4>1, <4>2, <4>3
    <3>6. f = x => \A v \in Workers : v \notin Working(f)
      BY <1>4, <3>1 DEF FlowKept, Apart
    <3>7. /\ f = x /\ job[w].at = "clear" => flow[f].group # Trash
          /\ f = x /\ job[w].at = "clear previous" =>
                flow[f].previous \in {job[w].group, NoGroup} /\ job[w].group \in doomed
      BY <1>4, <3>1 DEF Off
    <3>8. Kept(f)' /\ Through(f)
      <4>1. f = x => Stored(f)
        BY <3>1
      <4> QED
        BY <1>6, <2>1, <3>5, <3>7, <4>1, PlacesAssumption
           DEF FlowKept, Kept, Through, Stored, InTrash, Exists
    <3>9. Apart(f)'
      <4>1. ASSUME NEW v \in Workers, v \in Working(f)' PROVE f # x
        BY <1>6, <3>6, <4>1
      <4>2. ASSUME NEW v \in Workers, NEW y \in Workers, v \in Working(f)'
            PROVE  /\ y \in Working(f)' => v = y
                   /\ y \in Dissolving' => /\ f \notin job'[y].todo
                                           /\ job'[y].group # flow'[f].group
                                           /\ job'[y].group # flow'[f].previous
                                           /\ job'[y].group # job'[v].group
        <5>1. /\ flow'[f].group = flow[f].group /\ flow'[f].previous = flow[f].previous
              /\ v \in Working(f) /\ job'[v] = job[v]
          BY <1>6, <1>7, <3>5, <4>1, <4>2
        <5>2. y \in Dissolving' => y \in Dissolving /\ job'[y].group = job[y].group /\ job'[y].todo \subseteq job[y].todo
          BY <1>4, <1>5, <3>3 DEF Dissolving
        <5> QED
          BY <1>6, <5>1, <5>2 DEF FlowKept, Apart
      <4> QED
        BY <4>2 DEF Apart
    <3>10. ASSUME NEW v \in Workers, v \in Working(f)' PROVE Sound(job[v], f)'
      <4>1. f # x /\ Sound(job[v], f) /\ job'[v] = job[v]
        BY <1>6, <1>7, <3>6, <3>10 DEF FlowKept, Worked
      <4>2. /\ Stored(f)' <=> Stored(f)
            /\ InTrash(f)' <=> InTrash(f)
            /\ flow'[f].state = flow[f].state
        BY <3>5, <4>1 DEF Stored, InTrash
      <4> QED
        BY <2>1, <4>1, <4>2 DEF Sound, Exists
    <3>11. ASSUME NEW v \in Workers, v \in Dissolving' PROVE Off(job[v], f)'
      <4>1. /\ v \in Dissolving /\ Off(job[v], f)
            /\ job'[v].group = job[v].group /\ job'[v].at = job[v].at
            /\ v # w => job'[v].todo = job[v].todo
        BY <1>4, <1>5, <3>3, <3>11 DEF FlowKept, Listed, Dissolving
      <4>2. job[v].group \in Groups
        BY <4>1, JobAt DEF Dissolving, Fit
      <4>3. job[v].group # NoGroup /\ NoGroup # Trash
        BY <4>2, PlacesAssumption
      <4>4. CASE v # w
        BY <2>1, <3>5, <4>1, <4>3, <4>4 DEF Off
      <4>5. CASE v = w
        BY <2>1, <3>3, <3>5, <4>1, <4>3, <4>5 DEF Off
      <4> QED
        BY <4>4, <4>5
    <3> QED
      BY <3>8, <3>9, <3>10, <3>11 DEF FlowKept, Worked, Listed
  <2> QED
    BY <2>2, <2>3
<1>10. CASE Cleared(w)
  <2>1. UNCHANGED <<flow, serving, calls, history, users>>
    BY <1>10 DEF Cleared
  <2>2. ASSUME NEW v \in Workers \ {w}, v \in Dissolving' PROVE Off(job[v], f)'
    BY <1>5, <2>1, <2>2 DEF FlowKept, Listed, Off, Dissolving
  <2>3. CASE At(w, "clear")
    <3>1. /\ job[w].at = "clear" /\ job[w].todo = {} /\ GoTo(w, "list previous")
          /\ UNCHANGED groups
      BY <1>10, <2>3 DEF Cleared, At
    <3>2. /\ job'[w].at = "list previous" /\ job'[w].group = job[w].group
          /\ job'[w].todo = {}
      BY <1>2, <3>1 DEF GoTo, TypeOK, Jobs
    <3>3. Off(job[w], f)'
      BY <1>4, <2>1, <3>1, <3>2 DEF Off
    <3>4. Kept(f)' /\ Through(f)
      BY <1>6, <2>1, <3>1 DEF FlowKept, Kept, Through, Stored, InTrash, Exists
    <3>5. Apart(f)'
      <4>1. ASSUME NEW v \in Workers, NEW y \in Workers, v \in Working(f)'
            PROVE  /\ y \in Working(f)' => v = y
                   /\ y \in Dissolving' => /\ f \notin job'[y].todo
                                           /\ job'[y].group # flow[f].group
                                           /\ job'[y].group # flow[f].previous
                                           /\ job'[y].group # job'[v].group
        <5>1. v \in Working(f) /\ job'[v] = job[v]
          BY <1>6, <1>7, <4>1
        <5>2. y \in Dissolving' => y \in Dissolving /\ job'[y].group = job[y].group
          BY <1>4, <1>5, <3>2 DEF Dissolving
        <5>3. y \in Dissolving' => f \notin job'[y].todo
          BY <1>5, <3>2, <5>1, <5>2 DEF FlowKept, Apart
        <5> QED
          BY <1>6, <5>1, <5>2, <5>3 DEF FlowKept, Apart
      <4> QED
        BY <2>1, <4>1 DEF Apart
    <3>6. ASSUME NEW v \in Workers, v \in Working(f)' PROVE Sound(job[v], f)'
      <4>1. Sound(job[v], f) /\ job'[v] = job[v]
        BY <1>6, <1>7, <3>6 DEF FlowKept, Worked
      <4>2. /\ \A g \in Groups : Exists(g)' <=> Exists(g)
            /\ Stored(f)' <=> Stored(f)
            /\ InTrash(f)' <=> InTrash(f)
        BY <2>1, <3>1 DEF Stored, InTrash, Exists
      <4> QED
        BY <2>1, <4>1, <4>2 DEF Sound
    <3> QED
      BY <2>2, <3>3, <3>4, <3>5, <3>6 DEF FlowKept, Worked, Listed
  <2>4. CASE At(w, "clear previous")
    <3>1. /\ job[w].at = "clear previous" /\ job[w].todo = {} /\ End(w)
          /\ groups' = [groups EXCEPT ![job[w].group] = "gone"]
      BY <1>10, <2>4 DEF Cleared, At
    <3>2. job'[w] = NoJob
      BY <3>1 DEF End, TypeOK
    <3>3. flow[f].group # job[w].group /\ flow[f].previous # job[w].group
      BY <1>4, <3>1 DEF Off
    <3>4. \A g \in Groups : g # job[w].group /\ Exists(g) => Exists(g)'
      BY <3>1 DEF Exists, TypeOK
    <3>5. Kept(f)' /\ Through(f)
      BY <1>6, <2>1, <3>3, <3>4 DEF FlowKept, Kept, Through, Stored, InTrash
    <3>6. Apart(f)'
      BY <1>5, <1>6, <1>7, <2>1, <3>2 DEF FlowKept, Apart, Dissolving
    <3>7. ASSUME NEW v \in Workers, v \in Working(f)' PROVE Sound(job[v], f)'
      <4>1. /\ Sound(job[v], f) /\ job'[v] = job[v]
            /\ job[v].group # job[w].group
        BY <1>4, <1>6, <1>7, <3>7 DEF FlowKept, Worked, Apart
      <4>2. job[v].group \in Groups /\ Exists(job[v].group) => Exists(job[v].group)'
        BY <3>1, <4>1 DEF Exists, TypeOK
      <4> QED
        BY <2>1, <4>1, <4>2 DEF Sound, Stored, InTrash
    <3> QED
      BY <2>2, <3>2, <3>5, <3>6, <3>7 DEF FlowKept, Worked, Listed, Dissolving
  <2> QED
    BY <1>10, <2>3, <2>4 DEF Cleared
<1> QED
  BY <1>8, <1>9, <1>10

\* A request on the flow goes on or ends: only what it does to the flow, and what it then
\* knows of it, is to be looked at.
LEMMA OwnStep ==
    ASSUME TypeOK, JobsFit, NEW f \in Flows, FlowKept(f), NEW w \in Working(f),
           \A v \in Workers \ {w} : job'[v] = job[v],
           UNCHANGED <<groups, doomed>>,
           flow'[f].group \in {flow[f].group, job[w].group, NoGroup, Trash},
           flow'[f].previous \in {flow[f].previous, job[w].group, NoGroup},
           job'[w] # NoJob => /\ job'[w].kind = job[w].kind /\ job'[w].flow = f
                              /\ job'[w].group \in {job[w].group, NoGroup}
                              /\ Sound(job[w], f)',
           Kept(f)'
    PROVE  FlowKept(f)'
<1>1. w \in Workers /\ job[w] # NoJob /\ job[w].flow = f /\ ~Saves(job[w])
  BY DEF Working
<1>2. \A v \in Workers : v \in Working(f) => v = w
  BY <1>1 DEF FlowKept, Apart
<1>3. \A v \in Workers : v \in Working(f)' => v = w
  BY <1>2 DEF Working
<1>4. job[w].kind # "dissolve"
  BY <1>1, JobAt, NoFlowAssumption DEF Fit
<1>5. \A v \in Workers : v \in Dissolving' => v \in Dissolving /\ v # w /\ job'[v] = job[v]
  <2>1. job'[w] # NoJob => job'[w].kind # "dissolve"
    BY <1>4
  <2>2. w \notin Dissolving'
    BY <2>1 DEF Dissolving
  <2> QED
    BY <2>2 DEF Dissolving
<1>6. \A v \in Dissolving : job[v].group # NoGroup /\ job[v].group # Trash
  BY JobAt, PlacesAssumption, NoFlowAssumption DEF Dissolving, Fit
<1>7. \A v \in Dissolving : /\ f \notin job[v].todo
                            /\ job[v].group # flow[f].group
                            /\ job[v].group # flow[f].previous
                            /\ job[v].group # job[w].group
  BY <1>1 DEF FlowKept, Apart, Dissolving
<1>8. ASSUME NEW v \in Workers, NEW y \in Workers, v \in Working(f)'
      PROVE  /\ y \in Working(f)' => v = y
             /\ y \in Dissolving' => /\ f \notin job'[y].todo
                                     /\ job'[y].group # flow'[f].group
                                     /\ job'[y].group # flow'[f].previous
                                     /\ job'[y].group # job'[v].group
  <2>1. v = w /\ job'[w] # NoJob
    <3>1. v = w
      BY <1>3, <1>8
    <3> QED
      BY <1>8, <3>1 DEF Working
  <2>2. y \in Working(f)' => v = y
    BY <1>3, <2>1
  <2>3. ASSUME y \in Dissolving'
        PROVE  /\ f \notin job'[y].todo
               /\ job'[y].group # flow'[f].group
               /\ job'[y].group # flow'[f].previous
               /\ job'[y].group # job'[v].group
    <3>1. y \in Dissolving /\ job'[y] = job[y]
      BY <1>5, <2>3
    <3>2. job'[v].group \in {job[w].group, NoGroup}
      BY <2>1
    <3> QED
      BY <1>6, <1>7, <3>1, <3>2
  <2> QED
    BY <2>2, <2>3
<1>9. Apart(f)'
  BY <1>8 DEF Apart
<1>10. ASSUME NEW v \in Workers, v \in Working(f)' PROVE Sound(job[v], f)'
  <2>1. v = w
    BY <1>3, <1>10
  <2>2. job'[w] # NoJob
    BY <1>10, <2>1 DEF Working
  <2> QED
    BY <2>1, <2>2
<1>11. ASSUME NEW v \in Workers, v \in Dissolving' PROVE Off(job[v], f)'
  <2>1. v \in Dissolving /\ job'[v] = job[v]
    BY <1>5, <1>11
  <2>2. Off(job[v], f)
    BY <2>1 DEF FlowKept, Listed, Dissolving
  <2>3. f \notin job[v].todo
    BY <1>7, <2>1
  <2>4. job[v].group # flow'[f].group /\ job[v].group # flow'[f].previous
    BY <1>6, <1>7, <2>1
  <2> QED
    BY <2>1, <2>2, <2>3, <2>4 DEF Off
<1> QED
  BY <1>9, <1>10, <1>11 DEF FlowKept, Worked, Listed

\* The record of a request that moves on, as the request's worker sees it.
LEMMA MovedOn ==
    ASSUME TypeOK, JobsFit, NEW w \in Workers, job[w] # NoJob, NEW at \in Places, GoTo(w, at)
    PROVE  /\ job'[w] # NoJob /\ job'[w].at = at
           /\ job'[w].kind = job[w].kind /\ job'[w].flow = job[w].flow
           /\ job'[w].group = job[w].group /\ job'[w].state = job[w].state
<1>1. job[w] \in Jobs
  BY JobAt
<1>2. [job[w] EXCEPT !.at = at] \in Jobs
  BY <1>1 DEF Jobs, Places
<1>3. job'[w] = [job[w] EXCEPT !.at = at]
  BY DEF GoTo, TypeOK
<1>4. job'[w] # NoJob
  BY <1>2, <1>3, NoJobAssumption
<1> QED
  BY <1>1, <1>3, <1>4 DEF Jobs

LEMMA OwnStepsKept ==
    ASSUME TypeOK, JobsFit, NEW f \in Flows, FlowKept(f), NEW w \in Working(f), GoesOn(w)
    PROVE  FlowKept(f)' /\ Through(f)
<1> USE DEF history, users, serving, Fair
<1>1. w \in Workers /\ job[w] # NoJob /\ job[w].flow = f /\ ~Saves(job[w])
  BY DEF Working
<1>2. job[w] \in Jobs /\ Fit(job[w]) /\ Sound(job[w], f) /\ Kept(f)
  BY <1>1, JobAt DEF FlowKept, Worked
<1>3. /\ \A v \in Workers \ {w} : job'[v] = job[v]
      /\ job[w].group \in Ungrouped
  BY <1>1, <1>2, OneGoesOn DEF Jobs
<1>4. flow[f] \in FlowDocs /\ job[w].kind # "dissolve"
  BY <1>1, <1>2, NoFlowAssumption DEF TypeOK, Fit
<1>5. ASSUME job'[w] # NoJob PROVE job'[w].flow = f /\ w \in Working(f)'
  <2>1. job'[w].flow = f /\ job'[w].kind = job[w].kind
    BY <1>1, <1>5, OneGoesOn
  <2> QED
    BY <1>1, <1>5, <2>1 DEF Working, Saves
\* The request ends, and nothing has changed.
<1>6. ASSUME End(w), UNCHANGED <<groups, flow, serving, doomed, home, afresh>>,
             Fair(f) => flow[f].state = "online"
      PROVE  FlowKept(f)' /\ Through(f)
  <2>1. job'[w] = NoJob
    BY <1>1, <1>6 DEF End, TypeOK
  <2>2. Kept(f)' /\ Through(f)
    BY <1>2, <1>6 DEF Kept, Through, Stored, InTrash, Exists
  <2> QED
    BY <1>3, <1>6, <2>1, <2>2, OwnStep
\* It goes on, and nothing has changed.
<1>7. ASSUME UNCHANGED <<groups, flow, serving, doomed, home, afresh>>,
             job'[w] # NoJob, job'[w].group \in {job[w].group, NoGroup}, Sound(job[w], f)'
      PROVE  FlowKept(f)' /\ Through(f)
  <2>1. job'[w].kind = job[w].kind
    BY <1>1, <1>7, OneGoesOn
  <2>2. Kept(f)' /\ Through(f)
    <3>1. ~(\A v \in Workers : v \notin Working(f)')
      BY <1>1, <1>5, <1>7
    <3> QED
      BY <1>2, <1>7, <3>1 DEF Kept, Through, Stored, InTrash, Exists
  <2> QED
    BY <1>3, <1>5, <1>7, <2>1, <2>2, OwnStep
<1>8. CASE GetGroup(w)
  <2>1. job[w].at = "group" /\ UNCHANGED <<groups, flow, serving, calls, history, users>>
    BY <1>8 DEF GetGroup, At
  <2>2. job[w].group \in Groups /\ (Fair(f) => flow[f].state = "online")
    BY <1>2, <2>1 DEF Sound
  <2>3. CASE GoTo(w, "update") /\ Exists(job[w].group)
    <3>1. /\ job'[w] # NoJob /\ job'[w].at = "update" /\ job'[w].kind = job[w].kind
          /\ job'[w].group = job[w].group /\ job'[w].state = job[w].state
      BY <1>1, <2>3, MovedOn DEF Places
    <3>2. job[w].kind \in {"move", "restore"}
      BY <1>2, <2>1 DEF Fit
    <3>3. Sound(job[w], f)'
      BY <1>2, <2>1, <2>2, <2>3, <3>1, <3>2 DEF Sound, Stored, InTrash, Exists
    <3> QED
      BY <1>7, <2>1, <3>1, <3>3
  <2>4. CASE End(w)
    BY <1>6, <2>1, <2>2, <2>4
  <2>5. CASE ~Exists(job[w].group) /\ job[w].kind = "restore"
    BY <1>2, <2>1, <2>2, <2>5 DEF Sound
  <2> QED
    BY <1>8, <2>3, <2>4, <2>5 DEF GetGroup
<1>9. CASE Refused(w)
  <2>1. End(w) /\ UNCHANGED <<groups, flow, serving, calls, history, users>>
    BY <1>9 DEF Refused
  <2>2. job[w].at \in {"unpublish", "update"} /\ (job[w].kind \in {"publish", "offline"} \/ job[w].at = "unpublish")
    <3>1. job[w].at \in {"unpublish", "update", "purge", "reread"} => Stored(f)
      BY <1>2 DEF Sound
    <3>2. job[w].at \notin {"get", "save", "grant"}
      BY <1>1, <1>2 DEF Fit, Saves
    <3> QED
      BY <1>1, <1>9, <3>1, <3>2 DEF Refused, At
  <2>3. Fair(f) => flow[f].state = "online"
    BY <1>2, <2>2 DEF Sound
  <2> QED
    BY <1>6, <2>1, <2>3
<1>10. CASE Unpublish(w)
  <2>1. /\ job[w].at = "unpublish" /\ Stored(f)
        /\ flow' = [flow EXCEPT ![f] = [flow[f] EXCEPT !.state = "offline"]]
        /\ afresh' = afresh \ {f} /\ GoTo(w, "update")
        /\ UNCHANGED <<groups, serving, home, doomed>>
    BY <1>1, <1>10 DEF Unpublish, At
  <2>2. flow'[f] = [flow[f] EXCEPT !.state = "offline"]
    BY <2>1 DEF TypeOK
  <2>3. /\ flow'[f].stage = flow[f].stage /\ flow'[f].group = flow[f].group
        /\ flow'[f].previous = flow[f].previous /\ flow'[f].state = "offline"
    BY <1>4, <2>2 DEF FlowDocs
  <2>4. /\ job'[w] # NoJob /\ job'[w].at = "update" /\ job'[w].kind = job[w].kind
        /\ job'[w].group = job[w].group /\ job'[w].state = job[w].state
    BY <1>1, <2>1, MovedOn DEF Places
  <2>5. job[w].kind = "delete" /\ job[w].state \in {"online", "offline"}
    BY <1>2, <2>1 DEF Fit, Jobs
  <2>6. ~(\A v \in Workers : v \notin Working(f)')
    BY <1>1, <1>5, <2>4
  <2>7. Kept(f)' /\ Through(f)
    BY <1>2, <2>1, <2>3, <2>6 DEF Kept, Through, Stored, InTrash, Exists
  <2>8. Sound(job[w], f)'
    <3>1. job[w].state = "online"
      BY <1>2, <2>1 DEF Sound
    <3> QED
      BY <1>2, <2>1, <2>3, <2>4, <2>5, <3>1 DEF Sound, Stored, InTrash, Exists
  <2> QED
    BY <1>3, <1>5, <2>1, <2>3, <2>4, <2>7, <2>8, OwnStep
<1>11. CASE Update(w)
  <2>1. /\ job[w].at = "update" /\ Stored(f)
        /\ UNCHANGED <<groups, serving, calls, raced, doomed, users>>
    BY <1>1, <1>11 DEF Update, At
  <2>2. job[w].group \in Groups => Exists(job[w].group)
    BY <1>2, <2>1 DEF Sound
  <2>3. NoGroup \notin Groups /\ Trash \notin Groups /\ NoGroup # Trash /\ job[w].group # Trash
    BY <1>3, PlacesAssumption DEF Ungrouped
  <2>4. CASE job[w].kind = "move"
    <3>1. /\ flow' = [flow EXCEPT ![f] = [flow[f] EXCEPT !.group = job[w].group]]
          /\ End(w) /\ UNCHANGED <<home, afresh>>
      BY <1>1, <1>11, <2>4 DEF Update
    <3>2. flow'[f] = [flow[f] EXCEPT !.group = job[w].group] /\ job'[w] = NoJob
      BY <1>1, <3>1 DEF TypeOK, End
    <3>3. /\ flow'[f].stage = flow[f].stage /\ flow'[f].group = job[w].group
          /\ flow'[f].previous = flow[f].previous /\ flow'[f].state = flow[f].state
      BY <1>4, <3>2 DEF FlowDocs
    <3>4. ~InTrash(f) /\ (Fair(f) => flow[f].state = "online")
      BY <1>2, <2>1, <2>4 DEF Sound
    <3>5. Kept(f)' /\ Through(f)
      BY <1>2, <2>1, <2>2, <2>3, <3>1, <3>3, <3>4 DEF Kept, Through, Stored, InTrash, Exists
    <3> QED
      BY <1>3, <2>1, <3>2, <3>3, <3>5, OwnStep
  <2>5. CASE job[w].kind = "restore"
    <3>1. /\ flow' = [flow EXCEPT ![f] = [flow[f] EXCEPT !.group = job[w].group, !.previous = NoGroup]]
          /\ End(w) /\ afresh' = afresh \ {f} /\ UNCHANGED home
      BY <1>1, <1>11, <2>5 DEF Update
    <3>2. flow'[f] = [flow[f] EXCEPT !.group = job[w].group, !.previous = NoGroup] /\ job'[w] = NoJob
      BY <1>1, <3>1 DEF TypeOK, End
    <3>3. /\ flow'[f].stage = flow[f].stage /\ flow'[f].group = job[w].group
          /\ flow'[f].previous = NoGroup /\ flow'[f].state = flow[f].state
      BY <1>4, <3>2 DEF FlowDocs
    <3>4. /\ job[w].group = home[f] \/ (job[w].group = NoGroup /\ home[f] \in doomed)
          /\ Fair(f) => flow[f].state = "online"
      BY <1>2, <2>1, <2>5 DEF Sound
    <3>5. Kept(f)' /\ Through(f)
      BY <1>2, <2>1, <2>2, <2>3, <3>1, <3>3, <3>4 DEF Kept, Through, Stored, InTrash, Exists
    <3> QED
      BY <1>3, <2>1, <3>2, <3>3, <3>5, OwnStep
  <2>6. CASE job[w].kind = "delete"
    <3>1. /\ flow' = [flow EXCEPT ![f] = [flow[f] EXCEPT !.group = Trash, !.previous = job[w].group]]
          /\ home' = [home EXCEPT ![f] = job[w].group]
          /\ IF job[w].state = "online" THEN GoTo(w, "reread") ELSE End(w)
          /\ UNCHANGED afresh
      BY <1>1, <1>11, <2>6 DEF Update, TrashedFrom
    <3>2. /\ flow'[f] = [flow[f] EXCEPT !.group = Trash, !.previous = job[w].group]
          /\ home'[f] = job[w].group
      BY <3>1 DEF TypeOK
    <3>3. /\ flow'[f].stage = flow[f].stage /\ flow'[f].group = Trash
          /\ flow'[f].previous = job[w].group /\ flow'[f].state = flow[f].state
      BY <1>4, <3>2 DEF FlowDocs
    <3>4. flow[f].state = "offline"
      BY <1>2, <2>1, <2>6 DEF Sound
    <3>5. CASE job[w].state = "online"
      <4>1. /\ job'[w] # NoJob /\ job'[w].at = "reread" /\ job'[w].kind = job[w].kind
            /\ job'[w].group = job[w].group
        BY <1>1, <3>1, <3>5, MovedOn DEF Places
      <4>2. ~(\A v \in Workers : v \notin Working(f)')
        BY <1>1, <1>5, <4>1
      <4>3. Kept(f)' /\ Through(f)
        BY <1>2, <2>1, <2>2, <2>3, <3>1, <3>2, <3>3, <3>4, <4>2 DEF Kept, Through, Stored, InTrash, Exists
      <4>4. Sound(job[w], f)'
        BY <2>1, <2>6, <3>3, <3>4, <4>1 DEF Sound, Stored
      <4> QED
        BY <1>3, <1>5, <2>1, <3>3, <4>1, <4>3, <4>4, OwnStep
    <3>6. CASE job[w].state # "online"
      <4>1. job'[w] = NoJob
        BY <1>1, <3>1, <3>6 DEF End, TypeOK
      <4>2. job[w].state = "offline"
        BY <1>2, <3>6 DEF Jobs
      <4>3. ~Fair(f)
        BY <1>2, <2>1, <3>4, <4>2 DEF Sound
      <4>4. Kept(f)' /\ Through(f)
        BY <1>2, <2>1, <2>2, <2>3, <3>1, <3>2, <3>3, <3>4, <4>3 DEF Kept, Through, Stored, InTrash, Exists
      <4> QED
        BY <1>3, <2>1, <3>3, <4>1, <4>4, OwnStep
    <3> QED
      BY <3>5, <3>6
  <2>7. ASSUME NEW s \in {"online", "offline"}, GoTo(w, "reread"), UNCHANGED home,
               job[w].kind \in {"publish", "offline"},
               flow' = [flow EXCEPT ![f] = [flow[f] EXCEPT !.state = s]],
               IF s = "online" THEN afresh' = afresh \cup (IF InTrash(f) THEN {f} ELSE {})
               ELSE afresh' = afresh \ {f}
        PROVE  FlowKept(f)' /\ Through(f)
    <3>1. flow'[f] = [flow[f] EXCEPT !.state = s]
      BY <2>7 DEF TypeOK
    <3>2. /\ flow'[f].stage = flow[f].stage /\ flow'[f].group = flow[f].group
          /\ flow'[f].previous = flow[f].previous /\ flow'[f].state = s
      BY <1>4, <3>1 DEF FlowDocs
    <3>3. /\ job'[w] # NoJob /\ job'[w].at = "reread" /\ job'[w].kind = job[w].kind
          /\ job'[w].group = job[w].group
      BY <1>1, <2>7, MovedOn DEF Places
    <3>4. ~(\A v \in Workers : v \notin Working(f)')
      BY <1>1, <1>5, <3>3
    <3>5. InTrash(f)' /\ f \notin afresh' => s = "offline"
      BY <2>7, <3>2 DEF InTrash, Stored
    <3>6. Kept(f)' /\ Through(f)
      BY <1>2, <2>1, <2>7, <3>2, <3>4, <3>5 DEF Kept, Through, Stored, InTrash, Exists
    <3>7. Sound(job[w], f)'
      BY <2>1, <2>7, <3>2, <3>3 DEF Sound, Stored
    <3> QED
      BY <1>3, <1>5, <2>1, <3>2, <3>3, <3>6, <3>7, OwnStep
  <2>8. CASE job[w].kind = "publish"
    <3>1. /\ flow' = [flow EXCEPT ![f] = [flow[f] EXCEPT !.state = "online"]]
          /\ afresh' = afresh \cup (IF InTrash(f) THEN {f} ELSE {})
          /\ GoTo(w, "reread") /\ UNCHANGED home
      BY <1>1, <1>11, <2>8 DEF Update
    <3> QED
      BY <2>7, <2>8, <3>1
  <2>9. CASE job[w].kind = "offline"
    <3>1. /\ flow' = [flow EXCEPT ![f] = [flow[f] EXCEPT !.state = "offline"]]
          /\ afresh' = afresh \ {f}
          /\ GoTo(w, "reread") /\ UNCHANGED home
      BY <1>1, <1>11, <2>9 DEF Update
    <3> QED
      BY <2>7, <2>9, <3>1
  <2> QED
    BY <1>11, <2>4, <2>5, <2>6, <2>8, <2>9 DEF Update
<1>12. CASE Purge(w)
  <2>1. /\ job[w].at = "purge"
        /\ flow' = [flow EXCEPT ![f] = Blank] /\ GoTo(w, "remove")
        /\ afresh' = afresh \ {f}
        /\ UNCHANGED <<groups, serving, home, doomed>>
    BY <1>1, <1>12 DEF Purge, At
  <2>2. InTrash(f)
    BY <1>2, <2>1 DEF Sound
  <2>3. /\ flow'[f].stage = "absent" /\ flow'[f].group = NoGroup
        /\ flow'[f].previous = NoGroup /\ flow'[f].state = "offline"
    BY <2>1 DEF TypeOK, Blank
  <2>4. /\ job'[w] # NoJob /\ job'[w].at = "remove" /\ job'[w].kind = job[w].kind
        /\ job'[w].group = job[w].group
    BY <1>1, <2>1, MovedOn DEF Places
  <2>5. job[w].kind = "delete"
    BY <1>2, <2>1 DEF Fit
  <2>6. ~(\A v \in Workers : v \notin Working(f)')
    BY <1>1, <1>5, <2>4
  <2>7. Kept(f)' /\ Through(f)
    BY <2>1, <2>2, <2>3, <2>6, PlacesAssumption DEF Kept, Through, Stored, InTrash
  <2>8. Sound(job[w], f)'
    BY <2>4, <2>5 DEF Sound
  <2> QED
    BY <1>3, <1>5, <2>1, <2>3, <2>4, <2>7, <2>8, OwnStep
<1>13. ASSUME End(w), UNCHANGED <<groups, flow, doomed, home, afresh>>,
              Fair(f)' => flow[f].state = "online"
       PROVE  FlowKept(f)' /\ Through(f)
  <2>1. job'[w] = NoJob
    BY <1>1, <1>13 DEF End, TypeOK
  <2>2. Kept(f)' /\ Through(f)
    BY <1>2, <1>13 DEF Kept, Through, Stored, InTrash, Exists
  <2> QED
    BY <1>3, <1>13, <2>1, <2>2, OwnStep
<1>14. CASE RemoveEndpoints(w)
  BY <1>1, <1>13, <1>14 DEF RemoveEndpoints
<1>15. CASE Reread(w)
  <2>1. /\ job' = [job EXCEPT ![w] = [job[w] EXCEPT !.state = flow[f].state, !.at = "sync"]]
        /\ UNCHANGED <<groups, flow, serving, calls, history, users>>
        /\ Stored(f) /\ job[w].at = "reread"
    BY <1>1, <1>15 DEF Reread, At
  <2>2. [job[w] EXCEPT !.state = flow[f].state, !.at = "sync"] \in Jobs
    BY <1>2, <1>4, JobForms DEF Places, Ungrouped, FlowDocs
  <2>3. job'[w] = [job[w] EXCEPT !.state = flow[f].state, !.at = "sync"]
    BY <1>1, <2>1 DEF TypeOK
  <2>4. /\ job'[w] # NoJob /\ job'[w].at = "sync" /\ job'[w].kind = job[w].kind
        /\ job'[w].group = job[w].group /\ job'[w].state = flow[f].state
    <3>1. job'[w] # NoJob
      BY <2>2, <2>3, NoJobAssumption
    <3> QED
      BY <1>2, <2>3, <3>1 DEF Jobs
  <2>5. job[w].kind \in {"delete", "publish", "offline"}
    BY <1>2, <2>1 DEF Fit
  <2>6. Sound(job[w], f)'
    BY <2>1, <2>4, <2>5 DEF Sound, Stored
  <2> QED
    BY <1>7, <2>1, <2>4, <2>6
<1>16. CASE Sync(w)
  <2>1. /\ job[w].at = "sync" /\ End(w)
        /\ UNCHANGED <<groups, flow, calls, history, users>>
        /\ Fair(f)' => job[w].state = "online"
    BY <1>1, <1>16 DEF Sync, At
  <2>2. job[w].state = flow[f].state
    BY <1>2, <2>1 DEF Sound
  <2> QED
    BY <1>13, <2>1, <2>2
<1>17. CASE GetFlow(w) \/ Save(w) \/ Grant(w)
  BY <1>1, <1>2, <1>17 DEF GetFlow, Save, Grant, At, Fit, Saves
<1>18. CASE ListFlows(w) \/ ClearFlow(w) \/ Cleared(w)
  BY <1>1, <1>18, GroupStepsKept
<1> QED
  BY <1>8, <1>9, <1>10, <1>11, <1>12, <1>14, <1>15, <1>16, <1>17, <1>18 DEF GoesOn

\* A request that has to do with another flow, and a save.
LEMMA OthersKept ==
    ASSUME TypeOK, JobsFit, NEW f \in Flows, FlowKept(f), NEW w \in Workers,
           w \notin Working(f), GoesOn(w)
    PROVE  FlowKept(f)' /\ Through(f)
<1> USE DEF history, users, serving, Fair
<1>1. /\ \A v \in Workers \ {w} : job'[v] = job[v]
      /\ job[w] # NoJob
      /\ \/ job'[w] = NoJob
         \/ job'[w].kind = job[w].kind /\ job'[w].flow = job[w].flow
  BY OneGoesOn
<1>2. job[w] \in Jobs /\ Fit(job[w])
  BY <1>1, JobAt
<1>3. CASE ListFlows(w) \/ ClearFlow(w) \/ Cleared(w)
  BY <1>3, GroupStepsKept
<1>4. CASE ~(ListFlows(w) \/ ClearFlow(w) \/ Cleared(w))
  <2> DEFINE x == job[w].flow
  <2>1. GetGroup(w) \/ Refused(w) \/ Unpublish(w) \/ Update(w) \/ Purge(w) \/ RemoveEndpoints(w)
        \/ Reread(w) \/ Sync(w) \/ GetFlow(w) \/ Save(w) \/ Grant(w)
    BY <1>4 DEF GoesOn
  <2>2. job[w].kind # "dissolve"
    <3>1. job[w].at \in {"list", "clear", "list previous", "clear previous"}
             => ~(GetGroup(w) \/ Refused(w) \/ Unpublish(w) \/ Update(w) \/ Purge(w) \/ RemoveEndpoints(w)
                  \/ Reread(w) \/ Sync(w) \/ GetFlow(w) \/ Save(w) \/ Grant(w))
      BY DEF GetGroup, Refused, Unpublish, Update, Purge, RemoveEndpoints, Reread, Sync, GetFlow,
         Save, Grant, At
    <3>2. job[w].at \notin {"list", "clear", "list previous", "clear previous"}
      BY <2>1, <3>1
    <3> QED
      BY <1>2, <3>2 DEF Fit
  <2>3. \A v \in Workers : v \in Working(f)' <=> v \in Working(f)
    <3>1. w \notin Working(f)'
      BY <1>1 DEF Working, Saves
    <3> QED
      BY <1>1, <3>1 DEF Working
  <2>4. \A v \in Workers : v \in Working(f)' \/ v \in Dissolving' => job[v] # NoJob /\ job'[v] = job[v]
    <3>1. w \notin Working(f)' /\ w \notin Dissolving'
      BY <1>1, <2>2, <2>3 DEF Dissolving
    <3> QED
      BY <1>1, <3>1 DEF Working, Dissolving
  <2>5. UNCHANGED <<groups, doomed>>
    <3>1. CASE GetGroup(w) \/ Refused(w) \/ Unpublish(w) \/ Purge(w) \/ RemoveEndpoints(w)
      BY <3>1 DEF GetGroup, Refused, Unpublish, Purge, RemoveEndpoints
    <3>2. CASE Update(w)
      BY <3>2 DEF Update
    <3>3. CASE Reread(w) \/ Sync(w) \/ GetFlow(w) \/ Save(w) \/ Grant(w)
      BY <3>3 DEF Reread, Sync, GetFlow, Save, Grant
    <3> QED
      BY <2>1, <3>1, <3>2, <3>3
  <2>6. \A g \in Groups : Exists(g) => Exists(g)'
    BY <2>5 DEF Exists
  <2>7. ASSUME flow'[f] = flow[f], Fair(f)' => Fair(f) \/ flow[f].state = "online", f \in afresh' <=> f \in afresh,
               home'[f] = home[f]
        PROVE  FlowKept(f)' /\ Through(f)
    BY <2>3, <2>4, <2>5, <2>6, <2>7, FrameStep DEF Stored
  <2>8. CASE GetGroup(w) \/ Refused(w) \/ Reread(w) \/ GetFlow(w) \/ Grant(w)
    BY <2>7, <2>8 DEF GetGroup, Refused, Reread, GetFlow, Grant
  <2>9. CASE Save(w)
    <3>1. /\ flow' = [flow EXCEPT ![x] = [flow[x] EXCEPT !.stage = "stored"]]
          /\ UNCHANGED <<groups, serving, calls, history, users>>
      BY <2>9 DEF Save
    <3>2. CASE x # f
      BY <2>7, <3>1, <3>2 DEF TypeOK
    <3>3. CASE x = f
      <4>1. flow[f] \in FlowDocs /\ flow'[f] = [flow[f] EXCEPT !.stage = "stored"]
        BY <3>1, <3>3 DEF TypeOK
      <4>2. /\ flow'[f].group = flow[f].group /\ flow'[f].previous = flow[f].previous
            /\ flow'[f].state = flow[f].state /\ flow'[f].stage = "stored"
        BY <4>1 DEF FlowDocs
      <4>3. Stored(f) => Stored(f)'
        BY <4>2 DEF Stored
      <4> QED
        BY <2>3, <2>4, <2>5, <2>6, <3>1, <4>2, <4>3, FrameStep
    <3> QED
      BY <3>2, <3>3
  <2>10. CASE Unpublish(w) \/ Update(w) \/ Purge(w) \/ RemoveEndpoints(w) \/ Sync(w)
    <3>1. ~Saves(job[w])
      BY <1>2, <2>10 DEF Unpublish, Update, Purge, RemoveEndpoints, Sync, At, Fit, Saves
    <3>2. x # f
      BY <1>1, <3>1 DEF Working
    <3>3. CASE Unpublish(w)
      <4>1. /\ flow' = [flow EXCEPT ![x] = [flow[x] EXCEPT !.state = "offline"]]
            /\ afresh' = afresh \ {x} /\ UNCHANGED <<serving, home>>
        BY <3>3 DEF Unpublish
      <4> QED
        BY <2>7, <3>2, <4>1 DEF TypeOK
    <3>4. CASE Update(w)
      <4>1. UNCHANGED serving /\ (home' = home \/ home' = [home EXCEPT ![x] = job[w].group])
            /\ afresh' \in {afresh, afresh \ {x}, afresh \cup {x}}
        BY <3>4 DEF Update
      <4>2. \E d : flow' = [flow EXCEPT ![x] = d]
        BY <3>4 DEF Update
      <4> QED
        BY <2>7, <3>2, <4>1, <4>2 DEF TypeOK
    <3>5. CASE Purge(w)
      BY <2>7, <3>2, <3>5 DEF Purge, TypeOK
    <3>6. CASE RemoveEndpoints(w) \/ Sync(w)
      BY <2>7, <3>2, <3>6 DEF RemoveEndpoints, Sync, Overrides
    <3> QED
      BY <2>10, <3>3, <3>4, <3>5, <3>6
  <2> QED
    BY <2>1, <2>8, <2>9, <2>10
<1> QED
  BY <1>3, <1>4

\* The requests that begin know of the flow what is so.
LEMMA StartsKept ==
    ASSUME TypeOK, JobsFit, NEW f \in Flows, FlowKept(f), f \notin raced', NEW w \in Workers,
           Starts(w) \/ SaveFlow(w)
    PROVE  FlowKept(f)' /\ Through(f)
<1>0. /\ NoGroup \in Ungrouped /\ {} \in SUBSET Flows /\ \A x \in Flows : flow[x] \in FlowDocs
      /\ NoGroup \notin Groups /\ Kept(f)
  BY PlacesAssumption DEF Ungrouped, TypeOK, FlowKept
<1>1. CASE SetFlowGroup(w)
  <2>1. PICK x \in Flows, g \in Ungrouped, at \in {"group", "update"} :
            /\ Begin(w, NewJob("move", at, x, g)) /\ Stored(x) /\ ~InTrash(x)
            /\ at = (IF g = NoGroup THEN "update" ELSE "group")
    BY <1>1 DEF SetFlowGroup
  <2>2. NewJob("move", at, x, g) \in Jobs
    BY <1>0, NewJobType DEF Places
  <2>3. Fit(NewJob("move", at, x, g))
    BY DEF Fit, NewJob
  <2>4. x = f /\ (\A v \in Workers : v \notin Working(f)) => Sound(NewJob("move", at, x, g), f)
    BY <1>0, <2>1 DEF Kept, Sound, NewJob, Ungrouped
  <2>5. NewJob("move", at, x, g).kind # "dissolve" /\ NewJob("move", at, x, g).flow = x
    BY DEF NewJob
  <2> QED
    BY <2>1, <2>2, <2>3, <2>4, <2>5, BeginKept
<1>2. CASE SoftDeleteOrPurgeFlow(w)
  <2>1. PICK x \in Flows :
            /\ Begin(w, IF InTrash(x) THEN NewJob("delete", "purge", x, NoGroup)
                        ELSE [NewJob("delete", IF Online(x) THEN "unpublish" ELSE "update",
                                     x, flow[x].group) EXCEPT !.state = flow[x].state])
            /\ Stored(x)
    BY <1>2 DEF SoftDeleteOrPurgeFlow
  <2>2. CASE InTrash(x)
    <3>1. NewJob("delete", "purge", x, NoGroup) \in Jobs
      BY <1>0, NewJobType DEF Places
    <3>2. Fit(NewJob("delete", "purge", x, NoGroup))
      BY DEF Fit, NewJob
    <3>3. x = f => Sound(NewJob("delete", "purge", x, NoGroup), f)
      BY <2>1, <2>2 DEF Sound, NewJob
    <3>4. /\ NewJob("delete", "purge", x, NoGroup).kind # "dissolve"
          /\ NewJob("delete", "purge", x, NoGroup).flow = x
      BY DEF NewJob
    <3> QED
      BY <2>1, <2>2, <3>1, <3>2, <3>3, <3>4, BeginKept
  <2>3. CASE ~InTrash(x)
    <3> DEFINE at == IF Online(x) THEN "unpublish" ELSE "update"
               j == [NewJob("delete", at, x, flow[x].group) EXCEPT !.state = flow[x].state]
    <3>1. flow[x].group \in Ungrouped /\ flow[x].state \in {"online", "offline"}
      BY <1>0, <2>1, <2>3 DEF FlowDocs, InTrash
    <3>2. /\ Begin(w, j) /\ at \in {"unpublish", "update"}
          /\ at = "unpublish" <=> flow[x].state = "online"
      BY <2>1, <2>3 DEF Online
    <3> HIDE DEF at
    <3>3. j \in Jobs
      <4>1. NewJob("delete", at, x, flow[x].group) \in Jobs
        BY <1>0, <3>1, <3>2, NewJobType, ZenonT(60) DEF Places
      <4> QED
        BY <3>1, <4>1 DEF Jobs
    <3>4. /\ j.kind = "delete" /\ j.at = at /\ j.flow = x /\ j.group = flow[x].group
          /\ j.state = flow[x].state /\ j.todo = {}
      BY DEF NewJob
    <3>5. Fit(j)
      BY <3>2, <3>4 DEF Fit
    <3> HIDE DEF j
    <3>6. x = f /\ (\A v \in Workers : v \notin Working(f)) => Sound(j, f)
      BY <1>0, <2>1, <3>1, <3>2, <3>4 DEF Sound, Kept
    <3> QED
      BY <3>2, <3>3, <3>4, <3>5, <3>6, BeginKept
  <2> QED
    BY <2>2, <2>3
<1>3. CASE RestoreFlow(w)
  <2>1. PICK x \in Flows, at \in {"group", "update"} :
            /\ Begin(w, NewJob("restore", at, x, flow[x].previous)) /\ InTrash(x)
            /\ at = (IF flow[x].previous = NoGroup THEN "update" ELSE "group")
    BY <1>3 DEF RestoreFlow
  <2> DEFINE j == NewJob("restore", at, x, flow[x].previous)
  <2>2. flow[x].previous \in Ungrouped
    BY <1>0 DEF FlowDocs
  <2>3. j \in Jobs
    BY <1>0, <2>2, NewJobType DEF Places
  <2>4. Fit(j)
    BY DEF Fit, NewJob
  <2>5. j.kind = "restore" /\ j.at = at /\ j.flow = x /\ j.group = flow[x].previous
    BY DEF NewJob
  <2> HIDE DEF j
  <2>6. x = f /\ (\A v \in Workers : v \notin Working(f)) => Sound(j, f)
    BY <1>0, <2>1, <2>2, <2>5 DEF Sound, Kept, InTrash, Ungrouped
  <2> QED
    BY <2>1, <2>3, <2>4, <2>5, <2>6, BeginKept DEF j
<1>4. CASE DeleteGroup(w)
  <2>1. PICK g \in Groups : Begin(w, NewJob("dissolve", "list", NoFlow, g))
    BY <1>4 DEF DeleteGroup
  <2> DEFINE j == NewJob("dissolve", "list", NoFlow, g)
  <2>2. g \in Ungrouped /\ NoFlow \in Flows \cup {NoFlow}
    BY DEF Ungrouped
  <2>3. j \in Jobs
    BY <1>0, <2>2, NewJobType DEF Places
  <2>4. Fit(j)
    BY DEF Fit, NewJob
  <2>5. j.at = "list" /\ j.flow # f
    BY NoFlowAssumption DEF NewJob
  <2>6. Begin(w, j)
    BY <2>1
  <2> HIDE DEF j
  <2> QED
    BY <2>3, <2>4, <2>5, <2>6, BeginKept
<1>5. CASE Publish(w)
  <2>1. PICK x \in Flows, kind \in {"publish", "offline"} :
            Begin(w, NewJob(kind, "update", x, NoGroup)) /\ Stored(x)
    BY <1>5 DEF Publish
  <2> DEFINE j == NewJob(kind, "update", x, NoGroup)
  <2>2. j \in Jobs
    BY <1>0, NewJobType DEF Places
  <2>3. Fit(j)
    BY DEF Fit, NewJob
  <2>4. j.kind = kind /\ j.at = "update" /\ j.flow = x /\ j.group = NoGroup
    BY DEF NewJob
  <2>5. Begin(w, j)
    BY <2>1
  <2> HIDE DEF j
  <2>6. x = f /\ (\A v \in Workers : v \notin Working(f)) => Sound(j, f)
    BY <1>0, <2>1, <2>4 DEF Sound, Kept
  <2> QED
    BY <2>2, <2>3, <2>4, <2>5, <2>6, BeginKept
<1>6. CASE SaveFlow(w)
  <2>1. PICK j \in Jobs : Begin(w, j) /\ Fit(j) /\ Saves(j)
    <3>1. PICK x \in Flows :
        \/ \E u \in Users :
               Begin(w, [NewJob("save", "get", x, NoGroup) EXCEPT !.user = u, !.list = access[u]])
        \/ \E list \in {Flows} \cup {access[u] : u \in Users} :
               Begin(w, [NewJob("tool", "get", x, NoGroup) EXCEPT !.list = list])
      BY <1>6 DEF SaveFlow
    <3>2. ASSUME NEW u \in Users, NEW j, j = [NewJob("save", "get", x, NoGroup) EXCEPT !.user = u, !.list = access[u]]
          PROVE  j \in Jobs /\ Fit(j) /\ Saves(j)
      <4>1. access[u] \in SUBSET Flows
        BY DEF TypeOK
      <4>2. j \in Jobs
        BY <1>0, <3>2, <4>1, NewJobType DEF Places
      <4>3. Fit(j) /\ Saves(j)
        BY <3>2 DEF Fit, NewJob, Saves
      <4> QED
        BY <4>2, <4>3
    <3>3. ASSUME NEW list \in {Flows} \cup {access[u] : u \in Users}, NEW j,
                 j = [NewJob("tool", "get", x, NoGroup) EXCEPT !.list = list]
          PROVE  j \in Jobs /\ Fit(j) /\ Saves(j)
      <4>1. list \in SUBSET Flows
        BY DEF TypeOK
      <4>2. j \in Jobs
        BY <1>0, <3>3, <4>1, NewJobType, ZenonT(60) DEF Places
      <4>3. Fit(j) /\ Saves(j)
        BY <3>3 DEF Fit, NewJob, Saves
      <4> QED
        BY <4>2, <4>3
    <3> QED
      BY <3>1, <3>2, <3>3
  <2>2. j.kind # "dissolve"
    BY <2>1 DEF Saves
  <2> QED
    BY <2>1, <2>2, BeginKept
<1> QED
  BY <1>1, <1>2, <1>3, <1>4, <1>5, <1>6 DEF Starts

\* A flow StartAll has listed and is still to come to is published, and no request is about
\* to unload it, unless one has overlapped.
Awaited(f) ==
    f \in listed /\ f \notin overtaken =>
        Online(f) /\ \A v \in Workers : job[v] # NoJob /\ job[v].flow = f => ~Unloads(job[v])

LEMMA AwaitedStep ==
    ASSUME TypeOK, JobsFit, NEW f \in Flows, Awaited(f), [Next]_vars
    PROVE  Awaited(f)'
<1> USE DEF history, users, serving
\* A step that leaves the listing alone, and no request begins.
<1>1. ASSUME listed' \subseteq listed, f \in listed' /\ f \notin overtaken' => f \notin overtaken,
             f \in listed /\ f \notin overtaken => Online(f)',
             \A v \in Workers : job'[v] # NoJob =>
                 /\ job[v] # NoJob
                 /\ job'[v].kind = job[v].kind /\ job'[v].flow = job[v].flow
      PROVE  Awaited(f)'
  BY <1>1 DEF Awaited, Unloads
<1>2. CASE CreateGroup \/ UpdateUserFlows \/ UNCHANGED vars
  BY <1>1, <1>2 DEF CreateGroup, UpdateUserFlows, vars, Awaited, Online, Stored
<1>3. CASE SetFlowLocked
  <2>1. PICK x \in Flows, l \in {"locked", "unlocked"} :
            flow' = [flow EXCEPT ![x] = [flow[x] EXCEPT !.lock = l]]
    BY <1>3 DEF SetFlowLocked
  <2>2. flow[f] \in FlowDocs /\ flow'[f] \in {flow[f], [flow[f] EXCEPT !.lock = l]}
    BY <2>1 DEF TypeOK
  <2>3. flow'[f].stage = flow[f].stage /\ flow'[f].state = flow[f].state
    BY <2>2 DEF FlowDocs
  <2> QED
    BY <1>1, <1>3, <2>3 DEF SetFlowLocked, Awaited, Online, Stored
<1>4. CASE Restart
  BY <1>4 DEF Restart, Awaited
<1>5. CASE StartAllLists
  <2>1. /\ f \in listed' => Online(f)
        /\ overtaken' = overtaken \cup {x \in listed' : \E w \in Underway : Unloads(job[w]) /\ job[w].flow = x}
        /\ UNCHANGED <<flow, job>>
    BY <1>5 DEF StartAllLists
  <2>2. f \in listed' => Online(f)'
    BY <2>1 DEF Online, Stored
  <2> QED
    BY <2>1, <2>2 DEF Awaited, Underway, Unloads
<1>6. CASE StartAllSyncs
  BY <1>1, <1>6 DEF StartAllSyncs, Awaited, Online, Stored
<1>7. ASSUME NEW w \in Workers, NEW j, Begin(w, j) PROVE Awaited(f)'
  <2>1. /\ job' = [job EXCEPT ![w] = j]
        /\ overtaken' = overtaken \cup {x \in listed : Unloads(j) /\ j.flow = x}
        /\ UNCHANGED <<flow, listed>>
    BY <1>7 DEF Begin
  <2>2. \A v \in Workers : job'[v] = IF v = w THEN j ELSE job[v]
    BY <2>1 DEF TypeOK
  <2>3. Online(f) => Online(f)'
    BY <2>1 DEF Online, Stored
  <2> QED
    BY <2>1, <2>2, <2>3 DEF Awaited, Unloads
<1>8. ASSUME NEW w \in Workers, GoesOn(w) PROVE Awaited(f)'
  <2>1. /\ \A v \in Workers \ {w} : job'[v] = job[v]
        /\ job[w] # NoJob
        /\ job'[w] = NoJob \/ (job'[w].kind = job[w].kind /\ job'[w].flow = job[w].flow)
    BY <1>8, OneGoesOn
  <2>2. listed' = listed /\ (f \in listed' /\ f \notin overtaken' => f \notin overtaken)
    <3>1. CASE GetGroup(w) \/ Refused(w) \/ Unpublish(w) \/ Purge(w)
      BY <3>1 DEF GetGroup, Refused, Unpublish, Purge
    <3>2. CASE Update(w)
      BY <3>2 DEF Update
    <3>3. CASE RemoveEndpoints(w) \/ Sync(w)
      BY <3>3 DEF RemoveEndpoints, Sync, Overrides
    <3>4. CASE Reread(w) \/ GetFlow(w) \/ Save(w) \/ Grant(w)
      BY <3>4 DEF Reread, GetFlow, Save, Grant
    <3>5. CASE ListFlows(w) \/ ClearFlow(w)
      BY <3>5 DEF ListFlows, ClearFlow
    <3>6. CASE Cleared(w)
      BY <3>6 DEF Cleared
    <3> QED
      BY <1>8, <3>1, <3>2, <3>3, <3>4, <3>5, <3>6 DEF GoesOn
  <2>3. ASSUME f \in listed, f \notin overtaken PROVE Online(f)'
    <3>1. /\ Online(f)
          /\ job[w].flow = f => ~Unloads(job[w])
          /\ job[w] \in Jobs /\ Fit(job[w]) /\ flow[f] \in FlowDocs
      BY <2>1, <2>3, JobAt DEF Awaited, TypeOK
    <3> DEFINE x == job[w].flow
    <3>2. ASSUME NEW d, flow' = [flow EXCEPT ![x] = d],
                 x = f => d.stage = "stored" /\ d.state = "online"
          PROVE  Online(f)'
      BY <3>1, <3>2 DEF Online, Stored, TypeOK
    <3>3. CASE UNCHANGED flow
      BY <3>1, <3>3 DEF Online, Stored
    <3>4. CASE GetGroup(w) \/ Refused(w) \/ RemoveEndpoints(w) \/ Sync(w) \/ Reread(w)
               \/ GetFlow(w) \/ Grant(w) \/ ListFlows(w) \/ Cleared(w)
      BY <3>3, <3>4 DEF GetGroup, Refused, RemoveEndpoints, Sync, Reread, GetFlow, Grant,
         ListFlows, Cleared
    <3>5. CASE Unpublish(w) \/ Purge(w)
      <4>1. x # f
        <5>1. job[w].kind = "delete"
          BY <3>1, <3>5 DEF Unpublish, Purge, At, Fit
        <5> QED
          BY <3>1, <5>1 DEF Unloads
      <4>2. \E d : flow' = [flow EXCEPT ![x] = d]
        BY <3>5 DEF Unpublish, Purge
      <4> QED
        BY <3>2, <4>1, <4>2
    <3>6. CASE Save(w)
      <4>1. flow' = [flow EXCEPT ![x] = [flow[x] EXCEPT !.stage = "stored"]]
        BY <3>6 DEF Save
      <4>2. x = f => [flow[x] EXCEPT !.stage = "stored"].stage = "stored"
                     /\ [flow[x] EXCEPT !.stage = "stored"].state = "online"
        BY <3>1 DEF FlowDocs, Online
      <4> QED
        BY <3>2, <4>1, <4>2
    <3>7. CASE ClearFlow(w)
      <4>1. PICK y \in job[w].todo :
                \/ UNCHANGED flow
                \/ flow' = [flow EXCEPT ![y] = [flow[y] EXCEPT !.group = NoGroup]]
                \/ flow' = [flow EXCEPT ![y] = [flow[y] EXCEPT !.previous = NoGroup]]
        BY <3>7 DEF ClearFlow
      <4>2. flow'[f] \in {flow[f], [flow[f] EXCEPT !.group = NoGroup], [flow[f] EXCEPT !.previous = NoGroup]}
        BY <4>1 DEF TypeOK
      <4>3. flow'[f].stage = flow[f].stage /\ flow'[f].state = flow[f].state
        BY <3>1, <4>2 DEF FlowDocs
      <4> QED
        BY <3>1, <4>3 DEF Online, Stored
    <3>8. CASE Update(w)
      <4>1. PICK d : flow' = [flow EXCEPT ![x] = d]
                     /\ \/ d = [flow[x] EXCEPT !.group = job[w].group]
                        \/ d = [flow[x] EXCEPT !.group = job[w].group, !.previous = NoGroup]
                        \/ d = [flow[x] EXCEPT !.state = "online"]
                        \/ job[w].kind \in {"delete", "offline"}
        BY <3>8 DEF Update
      <4>2. x = f => d.stage = "stored" /\ d.state = "online"
        BY <3>1, <4>1 DEF FlowDocs, Online, Stored, Unloads
      <4> QED
        BY <3>2, <4>1, <4>2
    <3> QED
      BY <1>8, <3>4, <3>5, <3>6, <3>7, <3>8 DEF GoesOn
  <2> QED
    BY <1>1, <2>1, <2>2, <2>3
<1> QED
  BY <1>2, <1>3, <1>4, <1>5, <1>6, <1>7, <1>8, RequestBegins, NextSteps DEF Steps

\* Every step keeps a flow nobody races for, and takes it through the trash.
LEMMA FlowKeptStep ==
    ASSUME TypeOK, JobsFit, NEW f \in Flows, FlowKept(f), Awaited(f), f \notin raced', [Next]_vars
    PROVE  FlowKept(f)' /\ Through(f)
<1> USE DEF history, users, serving, Fair
<1>1. CASE CreateGroup \/ UpdateUserFlows \/ SetFlowLocked \/ UNCHANGED vars
  <2>1. UNCHANGED <<job, serving, home, doomed, afresh>>
    BY <1>1 DEF CreateGroup, UpdateUserFlows, SetFlowLocked, vars
  <2>2. \A g \in Groups : Exists(g) => Exists(g)'
    BY <1>1 DEF CreateGroup, UpdateUserFlows, SetFlowLocked, vars, Exists, TypeOK
  <2>3. /\ flow'[f].group = flow[f].group /\ flow'[f].previous = flow[f].previous
        /\ flow'[f].state = flow[f].state /\ flow'[f].stage = flow[f].stage
    <3>1. CASE UNCHANGED flow
      BY <3>1
    <3>2. CASE SetFlowLocked
      <4>1. PICK x \in Flows, l \in {"locked", "unlocked"} :
                flow' = [flow EXCEPT ![x] = [flow[x] EXCEPT !.lock = l]]
        BY <3>2 DEF SetFlowLocked
      <4>2. flow[f] \in FlowDocs /\ flow'[f] \in {flow[f], [flow[f] EXCEPT !.lock = l]}
        BY <4>1 DEF TypeOK
      <4> QED
        BY <4>2 DEF FlowDocs
    <3> QED
      BY <1>1, <3>1, <3>2 DEF CreateGroup, UpdateUserFlows, vars
  <2>4. /\ \A v \in Workers : v \in Working(f)' <=> v \in Working(f)
        /\ \A v \in Workers : v \in Working(f)' \/ v \in Dissolving' => job[v] # NoJob /\ job'[v] = job[v]
    BY <2>1 DEF Working, Dissolving
  <2>5. Stored(f) => Stored(f)'
    BY <2>3 DEF Stored
  <2> QED
    BY <2>1, <2>2, <2>3, <2>4, <2>5, FrameStep
<1>2. CASE Restart
  <2>1. /\ job' = [w \in Workers |-> NoJob]
        /\ loaded' = {}
        /\ UNCHANGED <<groups, flow, history, users>>
    BY <1>2 DEF Restart
  <2>2. Working(f)' = {} /\ Dissolving' = {}
    BY <2>1 DEF Working, Dissolving
  <2>3. Fair(f)' => flow[f].state = "online"
    BY <2>1
  <2>4. Kept(f)' /\ Through(f)
    BY <2>1, <2>3 DEF FlowKept, Kept, Through, Stored, InTrash, Exists
  <2> QED
    BY <2>2, <2>4 DEF FlowKept, Apart, Worked, Listed
<1>3. ASSUME NEW w \in Workers, Steps(w) PROVE FlowKept(f)' /\ Through(f)
  <2>1. CASE Starts(w) \/ SaveFlow(w)
    BY <2>1, StartsKept
  <2>2. CASE GoesOn(w) /\ w \in Working(f)
    BY <2>2, OwnStepsKept
  <2>3. CASE GoesOn(w) /\ w \notin Working(f)
    BY <2>3, OthersKept
  <2> QED
    BY <1>3, <2>1, <2>2, <2>3 DEF Steps
<1>4. CASE StartAllLists \/ StartAllSyncs
  <2>1. UNCHANGED <<groups, flow, job, home, doomed, afresh>>
    BY <1>4 DEF StartAllLists, StartAllSyncs
  <2>2. Fair(f)' => Fair(f) \/ flow[f].state = "online"
    BY <1>4 DEF StartAllLists, StartAllSyncs, Awaited, Online
  <2>3. \A v \in Workers : v \in Working(f)' <=> v \in Working(f)
    BY <2>1 DEF Working
  <2>4. \A v \in Workers : v \in Working(f)' \/ v \in Dissolving' => job[v] # NoJob /\ job'[v] = job[v]
    BY <2>1 DEF Working, Dissolving
  <2>5. (Stored(f) => Stored(f)') /\ \A g \in Groups : Exists(g) => Exists(g)'
    BY <2>1 DEF Stored, Exists
  <2> QED
    BY <2>1, <2>2, <2>3, <2>4, <2>5, FrameStep
<1> QED
  BY <1>1, <1>2, <1>3, <1>4, NextSteps

AllAwaited == \A f \in Flows : Awaited(f)

LEMMA AwaitedCorrect == Spec => []AllAwaited
<1>1. Init => AllAwaited
  BY DEF Init, AllAwaited, Awaited
<1>2. Typed /\ AllAwaited /\ [Next]_vars => AllAwaited'
  BY AwaitedStep DEF Typed, AllAwaited
<1> QED
  BY <1>1, <1>2, TypedCorrect, PTL DEF Spec

FlowsKept == \A f \in Flows \ raced : FlowKept(f)

LEMMA FlowsKeptCorrect == Spec => []FlowsKept
<1>1. Init => FlowsKept
  <2> SUFFICES ASSUME Init, NEW f \in Flows PROVE FlowKept(f)
    BY DEF FlowsKept
  <2>1. /\ job = [w \in Workers |-> NoJob]
        /\ loaded = {}
        /\ home[f] = flow[f].previous
    BY DEF Init
  <2>2. Working(f) = {} /\ Dissolving = {}
    BY <2>1 DEF Working, Dissolving
  <2>3. \/ flow[f] = Blank
        \/ /\ flow[f].stage = "stored" /\ flow[f].previous = NoGroup
           /\ flow[f].group \in {g \in Groups : Exists(g)} \cup {NoGroup}
        \/ /\ flow[f].stage = "stored" /\ flow[f].group = Trash /\ flow[f].state = "offline"
           /\ flow[f].previous \in {g \in Groups : Exists(g)} \cup {NoGroup}
    BY DEF Init
  <2>4. Fair(f) => flow[f].state = "online"
    BY <2>1 DEF Fair
  <2>5. Kept(f)
    BY <2>1, <2>3, <2>4, PlacesAssumption DEF Kept, Blank, Stored, InTrash
  <2> QED
    BY <2>2, <2>5 DEF FlowKept, Apart, Worked, Listed
<1>2. Typed /\ AllAwaited /\ FlowsKept /\ [Next]_vars => FlowsKept'
  BY HistoryGrows, FlowKeptStep DEF Typed, AllAwaited, FlowsKept
<1> QED
  BY <1>1, <1>2, TypedCorrect, AwaitedCorrect, PTL DEF Spec

\* A flow is in a group that exists, and remembers one that exists, whatever deletions of
\* groups have failed, crashed or run side by side (group.go DeleteGroup).
THEOREM GroupsCorrect == Spec => []GroupsExist
<1>1. FlowsKept => GroupsExist
  BY DEF FlowsKept, FlowKept, Kept, GroupsExist
<1> QED
  BY <1>1, FlowsKeptCorrect, PTL

LEMMA IdleWorks == ASSUME NEW f \in Flows, Idle(f) PROVE \A v \in Workers : v \notin Working(f)
  BY DEF Idle, Underway, Working

\* Once the requests on a flow have ended nothing of it is served that is not published
\* (flow_handlers.go HandleDeleteFlow).
THEOREM ServedCorrect == Spec => []ServedIsPublished
<1>1. FlowsKept => ServedIsPublished
  <2> SUFFICES ASSUME FlowsKept, NEW f \in Flows \ raced, Idle(f), Fair(f) PROVE Online(f)
    BY DEF ServedIsPublished, Fair
  <2>1. Kept(f) /\ flow[f].state = "online"
    BY IdleWorks DEF FlowsKept, FlowKept, Kept
  <2> QED
    BY <2>1 DEF Kept, Online
<1> QED
  BY <1>1, FlowsKeptCorrect, PTL

\* What is in the trash is offline, in the store and on the listeners, unless it was
\* published there, a crash in the middle of a soft delete included
\* (flow_trash.go SoftDeleteOrPurgeFlow).
THEOREM TrashCorrect == Spec => []TrashedOffline
<1>1. FlowsKept => TrashedOffline
  <2> SUFFICES ASSUME FlowsKept, NEW f \in Flows \ (raced \cup afresh), InTrash(f)
               PROVE  ~Online(f) /\ (Idle(f) => ~Fair(f))
    BY DEF TrashedOffline, Fair
  <2>1. Kept(f) /\ flow[f].state = "offline"
    BY DEF FlowsKept, FlowKept, Kept
  <2>2. Idle(f) => ~Fair(f)
    BY <2>1, IdleWorks DEF Kept
  <2> QED
    BY <2>1, <2>2 DEF Online
<1> QED
  BY <1>1, FlowsKeptCorrect, PTL

\* The trash is the only way out of the store, and a flow leaves it for the group it came
\* from, or for none if that group's deletion has begun (flow_trash.go RestoreFlow,
\* purgeFlowUnlocked; flow.go SetFlowGroup).
THEOREM TrashIsTheWay == Spec => ThroughTrash
<1>1. Typed /\ AllAwaited /\ FlowsKept /\ [Next]_vars
          => [\A f \in Flows \ raced' :
                  /\ Stored(f) /\ ~Stored(f)' => InTrash(f)
                  /\ InTrash(f) /\ Stored(f)' /\ ~InTrash(f)' =>
                         \/ flow'[f].group = home[f]
                         \/ flow'[f].group = NoGroup /\ home[f] \in doomed]_vars
  <2> SUFFICES ASSUME Typed, AllAwaited, FlowsKept, [Next]_vars, NEW f \in Flows \ raced'
               PROVE  Through(f)
    BY DEF Through
  <2>1. FlowKept(f) /\ Awaited(f)
    BY HistoryGrows DEF FlowsKept, AllAwaited
  <2> QED
    BY <2>1, FlowKeptStep DEF Typed
<1> QED
  BY <1>1, TypedCorrect, AwaitedCorrect, FlowsKeptCorrect, PTL DEF Spec, ThroughTrash

=============================================================================
