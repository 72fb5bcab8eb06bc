------------------------ MODULE MqttEndpointsProofs -------------------------
(***************************************************************************)
(* What the connections of MqttEndpoints keep, for every set of flows,     *)
(* nodes, editor sessions and goroutines, and every set of definitions.    *)
(***************************************************************************)
EXTENDS MqttEndpoints, FiniteSetTheorems, TLAPS

\* Places at which a job has a flow, and those from which it returns to its caller.
OnFlow == {"store", "get", "http", "undraft", "unmount", "ifopen", "check", "release",
           "clear", "mount", "register", "undo", "remove", "drop"}

Syncing == {"get", "http", "undraft", "unmount", "ifopen", "check", "release", "clear",
            "mount", "register", "undo"}

\* What a job knows where it is.
Fits(j) ==
    /\ j.at \in OnFlow => j.flow \in Flows
    /\ j.at \in Syncing => j.kind \in {"publish", "offline", "save", "boot", "edit"}
    /\ j.at = "open" => j.kind \in {"boot", "edit"}
    /\ j.at = "clear" => j.track = "draft" /\ j.draft # NoDsl
    /\ j.at \in {"mount", "register"} => Dsl(j) # NoDsl
    /\ j.at = "register" => j.next \in DOMAIN Dsl(j) /\ j.held # NoHandle

Good == {j \in Jobs : Fits(j)}

Typed == TypeOK /\ job \in [Workers -> Good \cup {NoJob}]

----------------------------------------------------------------------------
(* Jobs.                                                                   *)

\* A record of a job with fields replaced by others of their types.
LEMMA JobForms ==
    ASSUME NEW j \in Jobs, NEW at \in Places
    PROVE  /\ [j EXCEPT !.at = at] \in Jobs
           /\ \A t \in Tracks : [j EXCEPT !.at = at, !.track = t] \in Jobs
           /\ \A t \in Tracks, n \in Nat : [j EXCEPT !.at = at, !.track = t, !.next = n] \in Jobs
           /\ \A n \in Nat : [j EXCEPT !.at = at, !.next = n] \in Jobs
           /\ \A n \in Nat, h \in Handles \cup {NoHandle} :
                  [j EXCEPT !.at = at, !.next = n, !.held = h] \in Jobs
  BY ZenonT(60) DEF Jobs

LEMMA IdleForms ==
    ASSUME NEW kind \in Kinds, NEW at \in Places, NEW f \in Flows \cup {NoFlow},
           NEW s \in Sessions \cup {NoSession}
    PROVE  /\ Idle(kind, at, f, s) \in Jobs
           /\ \A c \in SUBSET Flows, o \in SUBSET Flows :
                  [Idle(kind, at, f, s) EXCEPT !.close = c, !.open = o] \in Jobs
           /\ \A c \in SUBSET Flows : [Idle(kind, at, f, s) EXCEPT !.close = c] \in Jobs
           /\ \A t \in SUBSET (Flows \X Dsls) : [Idle(kind, at, f, s) EXCEPT !.todo = t] \in Jobs
  BY DEF Idle, Jobs, Tracks

LEMMA LoopForms ==
    ASSUME NEW j \in Jobs, NEW at \in Places
    PROVE  [j EXCEPT !.at = at, !.flow = NoFlow, !.live = NoDsl, !.draft = NoDsl] \in Jobs
  BY DEF Jobs

LEMMA ReadForms ==
    ASSUME NEW j \in Jobs, NEW at \in Places,
           NEW l \in Dsls \cup {NoDsl}, NEW d \in Dsls \cup {NoDsl}
    PROVE  [j EXCEPT !.live = l, !.draft = d, !.at = at] \in Jobs
  BY DEF Jobs

LEMMA FlowForms ==
    ASSUME NEW j \in Jobs, NEW at \in Places, NEW f \in Flows
    PROVE  [j EXCEPT !.at = at, !.flow = f] \in Jobs
  BY DEF Jobs

\* A definition is a sequence of nodes, and a node has an id.
LEMMA DslNodes ==
    ASSUME NEW d \in Dsls, NEW i \in DOMAIN d
    PROVE  i \in Nat /\ d[i].id \in Nodes
<1>1. d \in Seq(MqttNodes)
  BY DslsAssumption
<1>2. i \in Nat /\ d[i] \in MqttNodes
  BY <1>1
<1> QED
  BY <1>2 DEF MqttNodes

\* The definition of a job that mounts is one.
LEMMA DslOfMount ==
    ASSUME NEW j \in Good, j.at \in {"mount", "register"}
    PROVE  Dsl(j) \in Dsls /\ j.flow \in Flows
  BY DEF Good, Fits, Jobs, Dsl, OnFlow

LEMMA NextNodeType ==
    ASSUME NEW w \in Workers, job[w] \in Good, job[w].at = "mount", NEW i \in NextNode(w)
    PROVE  i \in DOMAIN Dsl(job[w]) /\ i \in Nat
<1>1. i \in DOMAIN Dsl(job[w])
  BY DEF NextNode
<1>2. Dsl(job[w]) \in Dsls
  BY DslOfMount
<1> QED
  BY <1>1, <1>2, DslNodes

\* A step that gives a worker a job that fits, or none, leaves all of them so.
LEMMA Becoming ==
    ASSUME Typed, NEW w \in Workers, NEW j \in Good \cup {NoJob}, Becomes(w, j)
    PROVE  job' \in [Workers -> Good \cup {NoJob}] /\ disturbed' \subseteq Flows
  BY DEF Becomes, Contended, Typed, TypeOK

LEMMA Going ==
    ASSUME Typed, NEW w \in Workers, job[w] \in Good,
           NEW at \in Places \ {"clear", "check", "mount", "register", "open"},
           at \in OnFlow => job[w].flow \in Flows,
           at \in Syncing => job[w].kind \in {"publish", "offline", "save", "boot", "edit"},
           GoTo(w, at)
    PROVE  job' \in [Workers -> Good \cup {NoJob}] /\ disturbed' \subseteq Flows
<1>1. [job[w] EXCEPT !.at = at] \in Jobs
  BY JobForms DEF Good
<1>2. [job[w] EXCEPT !.at = at] \in Good
  BY <1>1 DEF Good, Fits, Jobs
<1> QED
  BY <1>2, Becoming DEF GoTo

LEMMA Ending ==
    ASSUME Typed, NEW w \in Workers, End(w)
    PROVE  job' \in [Workers -> Good \cup {NoJob}] /\ disturbed' \subseteq Flows
  BY Becoming DEF End

LEMMA Looping ==
    ASSUME Typed, NEW w \in Workers, job[w] \in Good, NEW at \in {"open", "sweep"},
           at = "open" => job[w].kind \in {"boot", "edit"}, Loop(w, at)
    PROVE  job' \in [Workers -> Good \cup {NoJob}] /\ disturbed' \subseteq Flows
<1> DEFINE j == [job[w] EXCEPT !.at = at, !.flow = NoFlow, !.live = NoDsl, !.draft = NoDsl]
<1>1. j \in Jobs
  BY LoopForms DEF Good, Places
<1>2. j.at = at /\ j.kind = job[w].kind
  BY DEF Good, Jobs
<1>3. j \in Good
  BY <1>1, <1>2 DEF Good, Fits, OnFlow, Syncing
<1> QED
  BY <1>3, Becoming DEF Loop

LEMMA Returning ==
    ASSUME Typed, NEW w \in Workers, job[w] \in Good, job[w].at \in Syncing,
           NEW ok \in BOOLEAN, Return(w, ok)
    PROVE  job' \in [Workers -> Good \cup {NoJob}] /\ disturbed' \subseteq Flows
<1>1. job[w].kind \in {"publish", "offline", "save", "boot", "edit"} /\ job[w].flow \in Flows
  BY DEF Good, Fits, Syncing, OnFlow
<1>2. CASE job[w].kind \in {"publish", "save"}
  BY <1>2, Ending DEF Return
<1>3. CASE job[w].kind = "offline"
  <2>1. End(w) \/ GoTo(w, "ifopen")
    BY <1>3 DEF Return
  <2>2. "ifopen" \in Places \ {"clear", "check", "mount", "register", "open"}
    BY DEF Places
  <2> QED
    BY <1>1, <2>1, <2>2, Ending, Going
<1>4. CASE job[w].kind \in {"boot", "edit"}
  BY <1>4, Looping DEF Return
<1> QED
  BY <1>1, <1>2, <1>3, <1>4

\* A worker at a place has a job that fits.
LEMMA AtPlace ==
    ASSUME Typed, NEW w \in Workers, NEW place, At(w, place)
    PROVE  job[w] \in Good /\ job[w] \in Jobs /\ job[w].at = place /\ Fits(job[w])
  BY DEF Typed, At, Underway, Good

\* Every step of a request leaves the jobs fitting.
LEMMA RequestJobs ==
    ASSUME Typed, NEW w \in Workers, Request(w)
    PROVE  job' \in [Workers -> Good \cup {NoJob}] /\ disturbed' \subseteq Flows
<1> DEFINE Goal == job' \in [Workers -> Good \cup {NoJob}] /\ disturbed' \subseteq Flows
<1>1. ASSUME Handle(w) PROVE Goal
  <2>1. PICK f \in Flows, kind \in {"publish", "offline", "save", "purge"} :
            Becomes(w, Idle(kind, "store", f, NoSession))
    BY <1>1 DEF Handle, Begin
  <2>2. Idle(kind, "store", f, NoSession) \in Jobs
    BY IdleForms DEF Kinds, Places
  <2>3. Idle(kind, "store", f, NoSession) \in Good
    BY <2>2 DEF Good, Fits, Syncing, Idle
  <2> QED
    BY <2>1, <2>3, Becoming
<1>2. ASSUME Store(w) PROVE Goal
  <2>1. At(w, "store")
    BY <1>2 DEF Store
  <2>2. job[w] \in Good /\ job[w].flow \in Flows
    BY <2>1, AtPlace DEF Fits, OnFlow
  <2>3. \/ job[w].kind \in {"publish", "offline", "save"} /\ GoTo(w, "get")
        \/ GoTo(w, "remove")
        \/ End(w)
    BY <1>2 DEF Store
  <2>4. {"get", "remove"} \subseteq Places \ {"clear", "check", "mount", "register", "open"}
    BY DEF Places
  <2>5. "remove" \notin Syncing
    BY DEF Syncing
  <2> QED
    BY <2>2, <2>3, <2>4, <2>5, Ending, Going
<1>3. ASSUME Get(w) PROVE Goal
  <2> DEFINE j == [job[w] EXCEPT !.live = live[job[w].flow], !.draft = draft[job[w].flow]]
             place == IF j.kind = "save" THEN "ifopen" ELSE "http"
             k == [j EXCEPT !.at = place]
  <2>1. At(w, "get")
    BY <1>3 DEF Get
  <2>2. /\ job[w] \in Jobs /\ job[w].flow \in Flows
        /\ job[w].kind \in {"publish", "offline", "save", "boot", "edit"}
    BY <2>1, AtPlace DEF Fits, OnFlow, Syncing
  <2>3. live[job[w].flow] \in Dsls \cup {NoDsl} /\ draft[job[w].flow] \in Dsls \cup {NoDsl}
    BY <2>2 DEF Typed, TypeOK
  <2>4. j \in Jobs /\ j.kind = job[w].kind /\ j.flow = job[w].flow
    BY <2>2, <2>3 DEF Jobs
  <2>5. k \in Jobs /\ k.at \in {"ifopen", "http"} /\ k.kind = job[w].kind /\ k.flow = job[w].flow
    <3>1. place \in Places /\ place \in {"ifopen", "http"}
      BY DEF Places
    <3> HIDE DEF j, place
    <3>2. k \in Jobs
      BY <2>4, <3>1, JobForms
    <3>3. k.at = place /\ k.kind = j.kind /\ k.flow = j.flow
      BY <2>4 DEF Jobs
    <3> QED
      BY <2>4, <3>1, <3>2, <3>3
  <2>6. k \in Good
    BY <2>2, <2>5 DEF Good, Fits
  <2>7. End(w) \/ Becomes(w, k)
    BY <1>3 DEF Get
  <2> QED
    BY <2>6, <2>7, Ending, Becoming
<1>4. ASSUME HttpSync(w) PROVE Goal
  <2>1. At(w, "http") \/ At(w, "remove")
    BY <1>4 DEF HttpSync
  <2>2. job[w] \in Good /\ job[w].flow \in Flows
    BY <2>1, AtPlace DEF Fits, OnFlow
  <2>3. CASE At(w, "http") /\ GoTo(w, "undraft")
    <3>1. "undraft" \in Places \ {"clear", "check", "mount", "register", "open"}
      BY DEF Places
    <3>2. job[w].kind \in {"publish", "offline", "save", "boot", "edit"}
      BY <2>3, AtPlace DEF Fits, OnFlow, Syncing
    <3> QED
      BY <2>2, <2>3, <3>1, <3>2, Going
  <2>4. CASE job' = [job EXCEPT ![w] = NoJob] /\ disturbed' = disturbed \cup {job[w].flow}
    BY <2>2, <2>4 DEF Typed, TypeOK
  <2> QED
    BY <1>4, <2>3, <2>4 DEF HttpSync
<1>5. ASSUME Remove(w) PROVE Goal
  <2>1. At(w, "remove") /\ Becomes(w, [job[w] EXCEPT !.at = "drop"])
    BY <1>5 DEF Remove
  <2>2. job[w] \in Good /\ job[w].flow \in Flows
    BY <2>1, AtPlace DEF Fits, OnFlow
  <2>3. "drop" \in Places \ {"clear", "check", "mount", "register", "open"} /\ "drop" \notin Syncing
    BY DEF Places, Syncing
  <2>4. GoTo(w, "drop")
    BY <2>1 DEF GoTo
  <2> QED
    BY <2>2, <2>3, <2>4, Going
<1> QED
  BY <1>1, <1>2, <1>3, <1>4, <1>5 DEF Request

\* So does every step of a synchronisation.
LEMMA SyncJobs ==
    ASSUME Typed, NEW w \in Workers, Sync(w)
    PROVE  job' \in [Workers -> Good \cup {NoJob}] /\ disturbed' \subseteq Flows
<1> DEFINE Goal == job' \in [Workers -> Good \cup {NoJob}] /\ disturbed' \subseteq Flows
<1>1. ASSUME NEW place \in Syncing, At(w, place)
      PROVE  /\ job[w] \in Good /\ job[w] \in Jobs /\ job[w].flow \in Flows
             /\ job[w].at = place
             /\ job[w].kind \in {"publish", "offline", "save", "boot", "edit"}
  <2>1. place \in OnFlow
    BY DEF Syncing, OnFlow
  <2> QED
    BY <1>1, <2>1, AtPlace DEF Fits
<1>2. {"undraft", "unmount", "ifopen", "check", "release", "clear", "mount", "register", "undo"}
          \subseteq Syncing
  BY DEF Syncing
<1>3. ASSUME Undraft(w) PROVE Goal
  <2>1. At(w, "undraft") /\ GoTo(w, "unmount")
    BY <1>3 DEF Undraft
  <2>2. "unmount" \in Places \ {"clear", "check", "mount", "register", "open"}
    BY DEF Places
  <2> QED
    BY <1>1, <1>2, <2>1, <2>2, Going
<1>4. ASSUME Unmount(w) PROVE Goal
  <2>1. At(w, "unmount")
    BY <1>4 DEF Unmount
  <2>2. CASE job[w].live = NoDsl
    BY <1>1, <1>2, <1>4, <2>1, <2>2, Returning DEF Unmount
  <2>3. CASE job[w].live # NoDsl
    <3> DEFINE j == [job[w] EXCEPT !.at = "mount", !.track = "published", !.next = 1]
    <3>1. j \in Jobs
      BY <1>1, <1>2, <2>1, JobForms DEF Places, Tracks
    <3>2. /\ j.at = "mount" /\ j.track = "published" /\ j.live # NoDsl
          /\ j.flow = job[w].flow /\ j.kind = job[w].kind
      BY <1>1, <1>2, <2>1, <2>3 DEF Jobs
    <3>3. j \in Good
      BY <1>1, <1>2, <2>1, <3>1, <3>2 DEF Good, Fits, Dsl
    <3> QED
      BY <1>4, <2>3, <3>3, Becoming DEF Unmount
  <2> QED
    BY <2>2, <2>3
<1>5. ASSUME IfOpen(w) PROVE Goal
  <2> DEFINE place == IF IsDraftOpen(job[w].flow) THEN "check" ELSE "release"
             j == [job[w] EXCEPT !.at = place, !.track = "draft"]
  <2>1. At(w, "ifopen") /\ Becomes(w, j)
    BY <1>5 DEF IfOpen
  <2>2. place \in {"check", "release"} /\ place \in Places
    BY DEF Places
  <2> HIDE DEF place
  <2>3. j \in Jobs
    BY <1>1, <1>2, <2>1, <2>2, JobForms DEF Tracks
  <2>4. /\ j.at = place /\ j.track = "draft"
        /\ j.flow = job[w].flow /\ j.kind = job[w].kind
    BY <1>1, <1>2, <2>1 DEF Jobs
  <2>5. j \in Good
    BY <1>1, <1>2, <2>1, <2>2, <2>3, <2>4 DEF Good, Fits
  <2> QED
    BY <2>1, <2>5, Becoming
<1>6. ASSUME Check(w) PROVE Goal
  <2> DEFINE place == IF MayMountDraft(job[w]) THEN "clear" ELSE "release"
             j == [job[w] EXCEPT !.at = place, !.track = "draft"]
  <2>1. At(w, "check") /\ Becomes(w, j)
    BY <1>6 DEF Check
  <2>2. /\ place \in {"clear", "release"} /\ place \in Places
        /\ place = "clear" => job[w].draft # NoDsl
    BY DEF Places, MayMountDraft
  <2> HIDE DEF place
  <2>3. j \in Jobs
    BY <1>1, <1>2, <2>1, <2>2, JobForms DEF Tracks
  <2>4. /\ j.at = place /\ j.track = "draft" /\ j.draft = job[w].draft
        /\ j.flow = job[w].flow /\ j.kind = job[w].kind
    BY <1>1, <1>2, <2>1 DEF Jobs
  <2>5. j \in Good
    BY <1>1, <1>2, <2>1, <2>2, <2>3, <2>4 DEF Good, Fits
  <2> QED
    BY <2>1, <2>5, Becoming
<1>7. ASSUME Release(w) PROVE Goal
  <2>1. At(w, "release") /\ Return(w, TRUE)
    BY <1>7 DEF Release
  <2> QED
    BY <1>1, <1>2, <2>1, Returning
<1>8. ASSUME Clear(w) PROVE Goal
  <2> DEFINE j == [job[w] EXCEPT !.at = "mount", !.next = 1]
  <2>1. At(w, "clear") /\ Becomes(w, j)
    BY <1>8 DEF Clear
  <2>2. job[w].track = "draft" /\ job[w].draft # NoDsl
    BY <2>1, AtPlace DEF Fits
  <2>3. j \in Jobs
    BY <1>1, <1>2, <2>1, JobForms DEF Places
  <2>4. /\ j.at = "mount" /\ j.track = "draft" /\ j.draft # NoDsl
        /\ j.flow = job[w].flow /\ j.kind = job[w].kind
    BY <1>1, <1>2, <2>1, <2>2 DEF Jobs
  <2>5. j \in Good
    BY <1>1, <1>2, <2>1, <2>3, <2>4 DEF Good, Fits, Dsl
  <2> QED
    BY <2>1, <2>5, Becoming
<1>9. ASSUME NEW i \in NextNode(w), NEW h \in Handles, At(w, "mount"), Holds(w, i, h) PROVE Goal
  <2> DEFINE j == [job[w] EXCEPT !.at = "register", !.next = i, !.held = h]
  <2>1. i \in DOMAIN Dsl(job[w]) /\ i \in Nat
    BY <1>1, <1>2, <1>9, NextNodeType
  <2>2. j \in Jobs
    BY <1>1, <1>2, <1>9, <2>1, JobForms DEF Places
  <2>3. /\ j.at = "register" /\ j.next = i /\ j.held = h /\ Dsl(j) = Dsl(job[w])
        /\ j.flow = job[w].flow /\ j.kind = job[w].kind
    BY <1>1, <1>2, <1>9 DEF Jobs, Dsl
  <2>4. Dsl(job[w]) # NoDsl
    BY <1>9, AtPlace DEF Fits
  <2>5. j \in Good
    BY <1>1, <1>2, <1>9, <2>1, <2>2, <2>3, <2>4, HandlesAssumption DEF Good, Fits
  <2> QED
    BY <1>9, <2>5, Becoming DEF Holds
<1>10. ASSUME Connect(w) PROVE Goal
  <2>1. At(w, "mount") /\ Fresh # {}
    BY <1>10 DEF Connect
  <2>2. Fresh \subseteq Conns
    BY DEF Fresh
  <2>3. (CHOOSE new \in Fresh : TRUE) \in Conns
    BY <2>1, <2>2
  <2>4. PICK i \in NextNode(w) :
            Holds(w, i, [conn |-> CHOOSE new \in Fresh : TRUE,
                         kind |-> IF Dsl(job[w])[i].kind = "in" THEN "in" ELSE "persist"])
    BY <1>10 DEF Connect
  <2>5. [conn |-> CHOOSE new \in Fresh : TRUE,
         kind |-> IF Dsl(job[w])[i].kind = "in" THEN "in" ELSE "persist"] \in Handles
    BY <2>3 DEF Handles
  <2> QED
    BY <1>9, <2>1, <2>4, <2>5
<1>11. "undo" \in Places \ {"clear", "check", "mount", "register", "open"}
  BY DEF Places
<1>12. ASSUME Reuse(w) PROVE Goal
  <2>1. At(w, "mount")
    BY <1>12 DEF Reuse
  <2>2. PICK i \in NextNode(w) :
            LET in == byNode[<<job[w].track, job[w].flow>>][Dsl(job[w])[i].from]
            IN  /\ Dsl(job[w])[i].kind = "out" /\ Dsl(job[w])[i].from # NoNode
                /\ IF in # NoHandle /\ in.kind = "in"
                   THEN Holds(w, i, [conn |-> in.conn, kind |-> "reuse"])
                   ELSE GoTo(w, "undo")
    BY <1>12 DEF Reuse
  <2>3. CASE GoTo(w, "undo")
    BY <1>1, <1>2, <1>11, <2>1, <2>3, Going
  <2>4. CASE ~GoTo(w, "undo")
    <3> DEFINE in == byNode[<<job[w].track, job[w].flow>>][Dsl(job[w])[i].from]
    <3>1. in # NoHandle /\ Holds(w, i, [conn |-> in.conn, kind |-> "reuse"])
      BY <2>2, <2>4
    <3>2. job[w].track \in Tracks /\ job[w].flow \in Flows /\ Dsl(job[w]) \in Dsls
      BY <1>1, <1>2, <2>1, DslOfMount DEF Jobs
    <3>3. Dsl(job[w])[i].from \in Nodes
      <4>1. i \in DOMAIN Dsl(job[w])
        BY <1>1, <1>2, <2>1, NextNodeType
      <4>2. Dsl(job[w]) \in Seq(MqttNodes)
        BY <3>2, DslsAssumption
      <4>3. Dsl(job[w])[i] \in MqttNodes
        BY <4>1, <4>2
      <4> QED
        BY <2>2, <4>3 DEF MqttNodes
    <3>4. in \in Handles
      BY <3>1, <3>2, <3>3 DEF Typed, TypeOK
    <3>5. [conn |-> in.conn, kind |-> "reuse"] \in Handles
      BY <3>4 DEF Handles
    <3> QED
      BY <1>9, <2>1, <3>1, <3>5
  <2> QED
    BY <2>3, <2>4
<1>13. ASSUME MountFails(w) PROVE Goal
  <2>1. At(w, "mount") /\ GoTo(w, "undo")
    BY <1>13 DEF MountFails
  <2> QED
    BY <1>1, <1>2, <1>11, <2>1, Going
<1>14. ASSUME Register(w) PROVE Goal
  <2> DEFINE j == [job[w] EXCEPT !.at = "mount", !.next = @ + 1, !.held = NoHandle]
  <2>1. At(w, "register") /\ Becomes(w, j)
    BY <1>14 DEF Register
  <2>2. job[w].next + 1 \in Nat
    BY <1>1, <1>2, <2>1 DEF Jobs
  <2>3. j \in Jobs
    BY <1>1, <1>2, <2>1, <2>2, JobForms DEF Places
  <2>4. /\ j.at = "mount" /\ Dsl(j) = Dsl(job[w])
        /\ j.flow = job[w].flow /\ j.kind = job[w].kind
    BY <1>1, <1>2, <2>1 DEF Jobs, Dsl
  <2>5. Dsl(job[w]) # NoDsl
    BY <2>1, AtPlace DEF Fits
  <2>6. j \in Good
    BY <1>1, <1>2, <2>1, <2>3, <2>4, <2>5 DEF Good, Fits
  <2> QED
    BY <2>1, <2>6, Becoming
<1>15. ASSUME Undo(w) PROVE Goal
  <2>1. At(w, "undo") /\ Return(w, FALSE)
    BY <1>15 DEF Undo
  <2> QED
    BY <1>1, <1>2, <2>1, Returning
<1>16. ASSUME MountEnds(w) PROVE Goal
  <2>1. At(w, "mount") /\ Return(w, TRUE)
    BY <1>16 DEF MountEnds
  <2> QED
    BY <1>1, <1>2, <2>1, Returning
<1> QED
  BY <1>3, <1>4, <1>5, <1>6, <1>7, <1>8, <1>10, <1>12, <1>13, <1>14, <1>15, <1>16 DEF Sync

\* So does every step of an editor session, and of StartAll.
LEMMA SessionJobs ==
    ASSUME Typed, NEW w \in Workers, Session(w)
    PROVE  job' \in [Workers -> Good \cup {NoJob}] /\ disturbed' \subseteq Flows
<1> DEFINE Goal == job' \in [Workers -> Good \cup {NoJob}] /\ disturbed' \subseteq Flows
<1>1. ASSUME NEW s \in Sessions, UpdateSessionOpenFlows(w, s) PROVE Goal
  <2>1. PICK c \in SUBSET Flows, o \in SUBSET Flows :
            Becomes(w, [Idle("edit", "close", NoFlow, s) EXCEPT !.close = c, !.open = o])
    <3>1. PICK ids \in UNION {[1..n -> Flows] : n \in 0..2} :
              LET wanted == {f \in Flows : Wanted(ids, f) > 0}
                  diff == Diff(sessions[s], wanted)
              IN  Becomes(w, [Idle("edit", "close", NoFlow, s) EXCEPT
                                 !.close = {f \in diff.removed : openCount'[f] = 0},
                                 !.open = {f \in diff.added : openCount'[f] = 1}])
      BY <1>1 DEF UpdateSessionOpenFlows, Begin
    <3> DEFINE wanted == {f \in Flows : Wanted(ids, f) > 0}
               diff == Diff(sessions[s], wanted)
    <3>2. diff.removed \subseteq Flows /\ diff.added \subseteq Flows
      BY DEF Diff, Typed, TypeOK
    <3>3. /\ {f \in diff.removed : openCount'[f] = 0} \in SUBSET Flows
          /\ {f \in diff.added : openCount'[f] = 1} \in SUBSET Flows
      BY <3>2
    <3> QED
      BY <3>1, <3>3
  <2>2. [Idle("edit", "close", NoFlow, s) EXCEPT !.close = c, !.open = o] \in Good
    <3> DEFINE j == [Idle("edit", "close", NoFlow, s) EXCEPT !.close = c, !.open = o]
    <3>1. j \in Jobs
      BY IdleForms DEF Kinds, Places
    <3>2. j.at = "close"
      BY DEF Idle
    <3> QED
      BY <3>1, <3>2 DEF Good, Fits, OnFlow, Syncing
  <2> QED
    BY <2>1, <2>2, Becoming
<1>2. ASSUME NEW s \in Sessions, ReleaseSession(w, s) PROVE Goal
  <2> DEFINE c == {f \in sessions[s] : openCount'[f] = 0}
             j == [Idle("leave", "close", NoFlow, s) EXCEPT !.close = c]
  <2>1. Becomes(w, j)
    BY <1>2 DEF ReleaseSession, Begin
  <2>2. c \in SUBSET Flows
    BY DEF Typed, TypeOK
  <2>3. j \in Jobs
    BY <2>2, IdleForms DEF Kinds, Places
  <2>4. j.at = "close"
    BY DEF Idle
  <2>5. j \in Good
    BY <2>3, <2>4 DEF Good, Fits, OnFlow, Syncing
  <2> QED
    BY <2>1, <2>5, Becoming
<1>3. ASSUME Close(w) PROVE Goal
  <2>1. At(w, "close")
    BY <1>3 DEF Close
  <2>2. job[w] \in Jobs /\ job[w].at = "close"
    BY <2>1, AtPlace
  <2>3. PICK f \in job[w].close : Becomes(w, [job[w] EXCEPT !.close = @ \ {f}])
    BY <1>3 DEF Close
  <2>4. [job[w] EXCEPT !.close = @ \ {f}] \in Jobs
    BY <2>2 DEF Jobs
  <2>5. [job[w] EXCEPT !.close = @ \ {f}].at = "close"
    BY <2>2 DEF Jobs
  <2>6. [job[w] EXCEPT !.close = @ \ {f}] \in Good
    BY <2>4, <2>5 DEF Good, Fits, OnFlow, Syncing
  <2> QED
    BY <2>3, <2>6, Becoming
<1>4. ASSUME CloseEnds(w) PROVE Goal
  <2>1. At(w, "close")
    BY <1>4 DEF CloseEnds
  <2>2. job[w] \in Good /\ job[w] \in Jobs
    BY <2>1, AtPlace
  <2>3. CASE job[w].kind = "edit"
    <3>1. Becomes(w, [job[w] EXCEPT !.at = "open"])
      BY <1>4, <2>3 DEF CloseEnds, GoTo
    <3>2. [job[w] EXCEPT !.at = "open"] \in Jobs
      BY <2>2, JobForms DEF Places
    <3>3. [job[w] EXCEPT !.at = "open"] \in Good
      BY <2>2, <2>3, <3>2 DEF Good, Fits, OnFlow, Syncing, Jobs
    <3> QED
      BY <3>1, <3>3, Becoming
  <2>4. CASE job[w].kind # "edit"
    <3>1. GoTo(w, "list")
      BY <1>4, <2>4 DEF CloseEnds
    <3>2. /\ "list" \in Places \ {"clear", "check", "mount", "register", "open"}
          /\ "list" \notin Syncing /\ "list" \notin OnFlow
      BY DEF Places, Syncing, OnFlow
    <3> QED
      BY <2>2, <3>1, <3>2, Going
  <2> QED
    BY <2>3, <2>4
<1>5. ASSUME Open(w) PROVE Goal
  <2>1. At(w, "open")
    BY <1>5 DEF Open
  <2>2. /\ job[w] \in Good /\ job[w] \in Jobs /\ job[w].at = "open"
        /\ job[w].kind \in {"boot", "edit"}
    BY <2>1, AtPlace DEF Fits
  <2>3. PICK f \in job[w].open :
            LET j == [job[w] EXCEPT !.open = @ \ {f}]
            IN  IF draft[f] = NoDsl THEN Becomes(w, j)
                ELSE Becomes(w, [j EXCEPT !.at = "check", !.flow = f,
                                          !.live = live[f], !.draft = draft[f]])
    BY <1>5 DEF Open
  <2> DEFINE j == [job[w] EXCEPT !.open = @ \ {f}]
             k == [j EXCEPT !.at = "check", !.flow = f, !.live = live[f], !.draft = draft[f]]
  <2>4. f \in Flows
    BY <2>2 DEF Jobs
  <2>5. j \in Jobs /\ j.at = "open" /\ j.kind = job[w].kind
    BY <2>2 DEF Jobs
  <2>6. j \in Good
    BY <2>2, <2>5 DEF Good, Fits, OnFlow, Syncing
  <2>7. live[f] \in Dsls \cup {NoDsl} /\ draft[f] \in Dsls \cup {NoDsl}
    BY <2>4 DEF Typed, TypeOK
  <2>8. CASE draft[f] = NoDsl
    BY <2>3, <2>6, <2>8, Becoming
  <2>9. CASE draft[f] # NoDsl
    <3>1. k \in Jobs
      <4> HIDE DEF j
      <4> QED
        BY <2>4, <2>5, <2>7 DEF Jobs, Places
    <3>2. k.at = "check" /\ k.flow = f /\ k.kind = job[w].kind
      <4> HIDE DEF j
      <4> QED
        BY <2>5 DEF Jobs
    <3>3. k \in Good
      BY <2>2, <2>4, <3>1, <3>2 DEF Good, Fits
    <3>4. Becomes(w, k)
      BY <2>3, <2>9
    <3> QED
      BY <3>3, <3>4, Becoming
  <2> QED
    BY <2>8, <2>9
<1>6. ASSUME Boot(w) PROVE Goal
  <2>1. At(w, "open")
    BY <1>6 DEF Boot
  <2>2. /\ job[w] \in Good /\ job[w] \in Jobs /\ job[w].kind \in {"boot", "edit"}
    BY <2>1, AtPlace DEF Fits
  <2>3. PICK p \in job[w].todo :
            Becomes(w, [job[w] EXCEPT !.todo = @ \ {p}, !.at = "undraft",
                                      !.flow = p[1], !.live = p[2]])
    BY <1>6 DEF Boot
  <2> DEFINE j == [job[w] EXCEPT !.todo = @ \ {p}, !.at = "undraft", !.flow = p[1], !.live = p[2]]
  <2>4. p \in Flows \X Dsls
    BY <2>2 DEF Jobs
  <2>5. p[1] \in Flows /\ p[2] \in Dsls
    BY <2>4
  <2>6. j \in Jobs
    BY <2>2, <2>5 DEF Jobs, Places
  <2>7. j.at = "undraft" /\ j.flow = p[1] /\ j.kind = job[w].kind
    BY <2>2 DEF Jobs
  <2>8. j \in Good
    BY <2>2, <2>5, <2>6, <2>7 DEF Good, Fits
  <2> QED
    BY <2>3, <2>8, Becoming
<1>7. ASSUME OpenEnds(w) PROVE Goal
  <2>1. At(w, "open") /\ GoTo(w, "list")
    BY <1>7 DEF OpenEnds
  <2>2. /\ "list" \in Places \ {"clear", "check", "mount", "register", "open"}
        /\ "list" \notin Syncing /\ "list" \notin OnFlow
    BY DEF Places, Syncing, OnFlow
  <2> QED
    BY <2>1, <2>2, AtPlace, Going
<1>8. ASSUME ListDrafts(w) PROVE Goal
  <2> DEFINE c == {f \in Flows : byFlow[<<"draft", f>>] # {}}
             j == [job[w] EXCEPT !.at = "sweep", !.close = c]
  <2>1. At(w, "list") /\ Becomes(w, j)
    BY <1>8 DEF ListDrafts
  <2>2. job[w] \in Jobs /\ c \in SUBSET Flows
    BY <2>1, AtPlace
  <2> HIDE DEF c
  <2>3. j \in Jobs
    BY <2>2 DEF Jobs, Places
  <2>4. j.at = "sweep"
    BY <2>2 DEF Jobs
  <2>5. j \in Good
    BY <2>3, <2>4 DEF Good, Fits, OnFlow, Syncing
  <2> QED
    BY <2>1, <2>5, Becoming
<1>9. ASSUME Sweep(w) PROVE Goal
  <2>1. At(w, "sweep")
    BY <1>9 DEF Sweep
  <2>2. job[w] \in Jobs /\ job[w].at = "sweep"
    BY <2>1, AtPlace
  <2>3. PICK f \in job[w].close :
            LET j == [job[w] EXCEPT !.close = @ \ {f}]
            IN  Becomes(w, IF IsDraftOpen(f) THEN j ELSE [j EXCEPT !.at = "drop", !.flow = f])
    BY <1>9 DEF Sweep
  <2> DEFINE j == [job[w] EXCEPT !.close = @ \ {f}]
             k == [j EXCEPT !.at = "drop", !.flow = f]
  <2>4. f \in Flows /\ j \in Jobs /\ j.at = "sweep"
    BY <2>2 DEF Jobs
  <2>5. j \in Good
    BY <2>4 DEF Good, Fits, OnFlow, Syncing
  <2>6. k \in Jobs /\ k.at = "drop" /\ k.flow = f
    <3> HIDE DEF j
    <3> QED
      BY <2>4 DEF Jobs, Places
  <2>7. k \in Good
    BY <2>4, <2>6 DEF Good, Fits, Syncing
  <2> QED
    BY <2>3, <2>5, <2>7, Becoming
<1>10. ASSUME SweepEnds(w) PROVE Goal
  BY <1>10, Ending DEF SweepEnds
<1>11. ASSUME Drop(w) PROVE Goal
  <2>1. At(w, "drop") /\ (End(w) \/ Loop(w, "sweep"))
    BY <1>11 DEF Drop
  <2> QED
    BY <2>1, AtPlace, Ending, Looping
<1> QED
  BY <1>1, <1>2, <1>3, <1>4, <1>5, <1>6, <1>7, <1>8, <1>9, <1>10, <1>11 DEF Session

----------------------------------------------------------------------------
(* Types.                                                                  *)

\* Forgetting a track leaves both tables and the connections what they are.
LEMMA RemoveTrackTypes ==
    ASSUME Typed, NEW t \in Tracks, NEW f \in Flows, RemoveTrack(t, f)
    PROVE  /\ byNode' \in [Tracks \X Flows -> [Nodes -> Handles \cup {NoHandle}]]
           /\ byFlow' \in [Tracks \X Flows -> SUBSET Nodes]
           /\ connected' \in SUBSET (Conns \X Flows)
<1> DEFINE listed == byFlow[<<t, f>>] \cap Registered(t, f)
           after == [n \in Nodes |-> IF n \in listed THEN NoHandle ELSE byNode[<<t, f>>][n]]
<1>1. <<t, f>> \in Tracks \X Flows
  OBVIOUS
<1>2. byNode[<<t, f>>] \in [Nodes -> Handles \cup {NoHandle}]
  BY <1>1 DEF Typed, TypeOK
<1>3. after \in [Nodes -> Handles \cup {NoHandle}]
  BY <1>2
<1>4. byNode' = [byNode EXCEPT ![<<t, f>>] = after]
  BY <1>1 DEF RemoveTrack, Typed, TypeOK
<1> HIDE DEF after
<1>5. byNode' \in [Tracks \X Flows -> [Nodes -> Handles \cup {NoHandle}]]
  BY <1>1, <1>3, <1>4 DEF Typed, TypeOK
<1>6. byFlow' \in [Tracks \X Flows -> SUBSET Nodes]
  BY <1>1 DEF RemoveTrack, Typed, TypeOK
<1>7. connected' \in SUBSET (Conns \X Flows)
  BY DEF RemoveTrack, Typed, TypeOK
<1> QED
  BY <1>5, <1>6, <1>7

LEMMA RegisterTypes ==
    ASSUME Typed, NEW w \in Workers, Register(w)
    PROVE  /\ job[w].track \in Tracks /\ job[w].flow \in Flows /\ job[w].held \in Handles
           /\ Dsl(job[w])[job[w].next].id \in Nodes
           /\ byNode' \in [Tracks \X Flows -> [Nodes -> Handles \cup {NoHandle}]]
           /\ byFlow' \in [Tracks \X Flows -> SUBSET Nodes]
<1>1. At(w, "register")
  BY DEF Register
<1>2. /\ job[w].track \in Tracks /\ job[w].flow \in Flows /\ job[w].held \in Handles
      /\ job[w].next \in DOMAIN Dsl(job[w])
  BY <1>1, AtPlace DEF Fits, Jobs, OnFlow
<1>3. Dsl(job[w])[job[w].next].id \in Nodes
  BY <1>1, <1>2, AtPlace, DslOfMount, DslNodes
<1> DEFINE tf == <<job[w].track, job[w].flow>>
           n == Dsl(job[w])[job[w].next].id
<1>4. tf \in Tracks \X Flows
  BY <1>2
<1>5. /\ byNode' = [byNode EXCEPT ![tf][n] = job[w].held]
      /\ byFlow' = [byFlow EXCEPT ![tf] = @ \cup {n}]
  BY DEF Register, RegisterLocked
<1> HIDE DEF tf, n
<1>6. n \in Nodes
  BY <1>3 DEF n
<1> QED
  BY <1>2, <1>3, <1>4, <1>5, <1>6 DEF Typed, TypeOK

\* The tables and the connections keep their types.
LEMMA TableTypes ==
    ASSUME Typed, [Next]_vars
    PROVE  /\ byNode' \in [Tracks \X Flows -> [Nodes -> Handles \cup {NoHandle}]]
           /\ byFlow' \in [Tracks \X Flows -> SUBSET Nodes]
           /\ connected' \in SUBSET (Conns \X Flows)
<1> DEFINE Goal == /\ byNode' \in [Tracks \X Flows -> [Nodes -> Handles \cup {NoHandle}]]
                   /\ byFlow' \in [Tracks \X Flows -> SUBSET Nodes]
                   /\ connected' \in SUBSET (Conns \X Flows)
<1>1. ASSUME UNCHANGED tableVars PROVE Goal
  BY <1>1 DEF tableVars, Typed, TypeOK
<1>2. ASSUME NEW w \in Workers, NEW place \in OnFlow, At(w, place),
             NEW t \in Tracks, RemoveTrack(t, job[w].flow)
      PROVE  Goal
  <2>1. job[w].flow \in Flows
    BY <1>2, AtPlace DEF Fits
  <2> QED
    BY <1>2, <2>1, RemoveTrackTypes
<1>3. ASSUME NEW w \in Workers, Connect(w) PROVE Goal
  <2>1. At(w, "mount") /\ Fresh # {} /\ Fresh \subseteq Conns
    BY <1>3 DEF Connect, Fresh
  <2> DEFINE c == CHOOSE new \in Fresh : TRUE
  <2>2. /\ connected' = connected \cup {<<c, job[w].flow>>}
        /\ byNode' = byNode /\ byFlow' = byFlow
    BY <1>3 DEF Connect
  <2>3. job[w].flow \in Flows /\ c \in Conns
    BY <2>1, AtPlace DEF Fits, OnFlow
  <2> HIDE DEF c
  <2>4. <<c, job[w].flow>> \in Conns \X Flows
    BY <2>3
  <2>5. connected \in SUBSET (Conns \X Flows)
    BY DEF Typed, TypeOK
  <2>6. connected' \in SUBSET (Conns \X Flows)
    BY <2>2, <2>4, <2>5
  <2> QED
    BY <2>2, <2>6 DEF Typed, TypeOK
<1>4. ASSUME NEW w \in Workers, Register(w) PROVE Goal
  BY <1>4, RegisterTypes DEF Register, Typed, TypeOK
<1>5. Tracks = {"published", "draft"}
  BY DEF Tracks
<1>6. ASSUME NEW w \in Workers, Close(w) PROVE Goal
  <2>1. At(w, "close")
    BY <1>6 DEF Close
  <2>2. PICK f \in job[w].close : RemoveTrack("draft", f)
    BY <1>6 DEF Close
  <2>3. f \in Flows
    BY <2>1, AtPlace DEF Jobs
  <2> QED
    BY <1>5, <2>2, <2>3, RemoveTrackTypes
<1>7. ASSUME NEW w \in Workers, Undo(w) PROVE Goal
  <2>1. At(w, "undo") /\ RemoveTrack(job[w].track, job[w].flow)
    BY <1>7 DEF Undo
  <2>2. job[w].track \in Tracks
    BY <2>1, AtPlace DEF Jobs
  <2> QED
    BY <1>2, <2>1, <2>2 DEF OnFlow
<1>8. ASSUME NEW w \in Workers,
             Undraft(w) \/ Unmount(w) \/ Release(w) \/ Clear(w) \/ Remove(w) \/ Drop(w)
      PROVE  Goal
  <2>1. \E place \in OnFlow, t \in Tracks : At(w, place) /\ RemoveTrack(t, job[w].flow)
    BY <1>5, <1>8 DEF Undraft, Unmount, Release, Clear, Remove, Drop, OnFlow
  <2> QED
    BY <1>2, <2>1
<1>9. ASSUME NEW w \in Workers,
             \/ Handle(w) \/ Store(w) \/ Get(w) \/ HttpSync(w)
             \/ IfOpen(w) \/ Check(w) \/ Reuse(w) \/ MountFails(w) \/ MountEnds(w)
             \/ \E s \in Sessions : UpdateSessionOpenFlows(w, s) \/ ReleaseSession(w, s)
             \/ CloseEnds(w) \/ Open(w) \/ Boot(w) \/ OpenEnds(w)
             \/ ListDrafts(w) \/ Sweep(w) \/ SweepEnds(w)
      PROVE  UNCHANGED tableVars
  BY <1>9 DEF Handle, Store, Get, HttpSync, IfOpen, Check, Reuse, MountFails, MountEnds,
              UpdateSessionOpenFlows, ReleaseSession, CloseEnds, Open, Boot, OpenEnds,
              ListDrafts, Sweep, SweepEnds
<1>10. CASE UNCHANGED vars
  BY <1>1, <1>10 DEF vars, tableVars
<1> QED
  BY <1>1, <1>3, <1>4, <1>6, <1>7, <1>8, <1>9, <1>10 DEF Next, Request, Sync, Session

\* So do the documents, the sessions and their counts.
LEMMA OtherTypes ==
    ASSUME Typed, [Next]_vars
    PROVE  /\ live' \in [Flows -> Dsls \cup {NoDsl}]
           /\ draft' \in [Flows -> Dsls \cup {NoDsl}]
           /\ sessions' \in [Sessions -> SUBSET Flows]
           /\ openCount' \in [Flows -> Nat]
           /\ calls' \in 0..MaxCalls
<1> DEFINE Goal == /\ live' \in [Flows -> Dsls \cup {NoDsl}]
                   /\ draft' \in [Flows -> Dsls \cup {NoDsl}]
                   /\ sessions' \in [Sessions -> SUBSET Flows]
                   /\ openCount' \in [Flows -> Nat]
                   /\ calls' \in 0..MaxCalls
<1> USE DEF docVars, sessionVars, tableVars
<1>1. ASSUME UNCHANGED <<docVars, sessionVars>>, calls' = calls PROVE Goal
  BY <1>1 DEF Typed, TypeOK
<1>2. ASSUME calls < MaxCalls, calls' = calls + 1 PROVE calls' \in 0..MaxCalls
  BY <1>2, BoundsAssumption DEF Typed, TypeOK
<1>3. ASSUME NEW w \in Workers, Handle(w) PROVE Goal
  BY <1>2, <1>3 DEF Handle, Begin, Typed, TypeOK
<1>4. ASSUME NEW w \in Workers, Store(w) PROVE Goal
  <2>1. job[w].flow \in Flows
    BY <1>4, AtPlace DEF Store, Fits, OnFlow
  <2>2. /\ \/ live' = live
           \/ \E d \in Dsls \cup {NoDsl} : live' = [live EXCEPT ![job[w].flow] = d]
        /\ \/ draft' = draft
           \/ \E d \in Dsls \cup {NoDsl} : draft' = [draft EXCEPT ![job[w].flow] = d]
    BY <1>4, <2>1 DEF Store, Typed, TypeOK
  <2>3. UNCHANGED <<sessionVars, calls>>
    BY <1>4 DEF Store
  <2> QED
    BY <2>1, <2>2, <2>3, SMTT(30) DEF Typed, TypeOK
<1>5. ASSUME NEW f \in Flows PROVE Fewer(f) \in Nat
  BY DEF Fewer, Typed, TypeOK
<1>6. ASSUME NEW w \in Workers, NEW s \in Sessions, UpdateSessionOpenFlows(w, s) PROVE Goal
  <2>1. PICK ids \in UNION {[1..n -> Flows] : n \in 0..2} :
            LET wanted == {f \in Flows : Wanted(ids, f) > 0}
                diff == Diff(sessions[s], wanted)
            IN  /\ sessions' = [sessions EXCEPT ![s] = wanted]
                /\ openCount' = [f \in Flows |->
                                    IF f \in diff.added THEN openCount[f] + Wanted(ids, f)
                                    ELSE IF f \in diff.removed THEN Fewer(f)
                                    ELSE openCount[f]]
    BY <1>6 DEF UpdateSessionOpenFlows
  <2>2. \A f \in Flows : Wanted(ids, f) \in Nat
    BY DEF Wanted
  <2>3. openCount' \in [Flows -> Nat]
    BY <1>5, <2>1, <2>2 DEF Typed, TypeOK
  <2>4. sessions' \in [Sessions -> SUBSET Flows]
    BY <2>1 DEF Typed, TypeOK
  <2> QED
    BY <1>2, <1>6, <2>3, <2>4 DEF UpdateSessionOpenFlows, Begin, Typed, TypeOK
<1>7. ASSUME NEW w \in Workers, NEW s \in Sessions, ReleaseSession(w, s) PROVE Goal
  <2>1. openCount' \in [Flows -> Nat]
    BY <1>5, <1>7 DEF ReleaseSession, Typed, TypeOK
  <2> QED
    BY <1>2, <1>7, <2>1 DEF ReleaseSession, Begin, Typed, TypeOK
<1>8. ASSUME NEW w \in Workers, Sync(w) PROVE Goal
  BY <1>1, <1>8 DEF Sync, Undraft, Unmount, IfOpen, Check, Release, Clear, Connect, Reuse,
                    MountFails, Register, Undo, MountEnds
<1>9. ASSUME NEW w \in Workers, Get(w) \/ HttpSync(w) \/ Remove(w) PROVE Goal
  BY <1>1, <1>9 DEF Get, HttpSync, Remove
<1>10. ASSUME NEW w \in Workers,
              \/ Close(w) \/ CloseEnds(w) \/ Open(w) \/ Boot(w) \/ OpenEnds(w)
              \/ ListDrafts(w) \/ Sweep(w) \/ SweepEnds(w) \/ Drop(w)
       PROVE  Goal
  BY <1>1, <1>10 DEF Close, CloseEnds, Open, Boot, OpenEnds, ListDrafts, Sweep, SweepEnds, Drop
<1>11. CASE UNCHANGED vars
  BY <1>1, <1>11 DEF vars
<1> QED
  BY <1>3, <1>4, <1>6, <1>7, <1>8, <1>9, <1>10, <1>11 DEF Next, Request, Session

LEMMA TypedStep == Typed /\ [Next]_vars => Typed'
<1> SUFFICES ASSUME Typed, [Next]_vars PROVE Typed'
  OBVIOUS
<1>1. job' \in [Workers -> Good \cup {NoJob}] /\ disturbed' \subseteq Flows
  BY RequestJobs, SyncJobs, SessionJobs DEF Next, vars, Typed, TypeOK
<1>2. job' \in [Workers -> Jobs \cup {NoJob}]
  BY <1>1 DEF Good
<1> QED
  BY <1>1, <1>2, TableTypes, OtherTypes DEF Typed, TypeOK

LEMMA TypedInit == Init => Typed
<1> SUFFICES ASSUME Init PROVE Typed
  OBVIOUS
<1>1. Listed \in SUBSET (Flows \X Dsls)
  BY DEF Listed
<1>2. [Idle("boot", "open", NoFlow, NoSession) EXCEPT !.todo = Listed] \in Jobs
  BY <1>1, IdleForms DEF Kinds, Places
<1>3. [Idle("boot", "open", NoFlow, NoSession) EXCEPT !.todo = Listed] \in Good
  BY <1>2 DEF Good, Fits, Idle, OnFlow, Syncing
<1>4. job \in [Workers -> Good \cup {NoJob}]
  BY <1>3 DEF Init
<1>5. job \in [Workers -> Jobs \cup {NoJob}]
  BY <1>4 DEF Good
<1>6. /\ byNode \in [Tracks \X Flows -> [Nodes -> Handles \cup {NoHandle}]]
      /\ byFlow \in [Tracks \X Flows -> SUBSET Nodes]
      /\ connected \in SUBSET (Conns \X Flows)
  BY DEF Init
<1>7. /\ live \in [Flows -> Dsls \cup {NoDsl}] /\ draft \in [Flows -> Dsls \cup {NoDsl}]
      /\ sessions \in [Sessions -> SUBSET Flows] /\ openCount \in [Flows -> Nat]
      /\ calls \in 0..MaxCalls /\ disturbed \subseteq Flows
  BY BoundsAssumption DEF Init
<1> QED
  BY <1>4, <1>5, <1>6, <1>7 DEF Typed, TypeOK

LEMMA TypedCorrect == Spec => []Typed
<1> QED
  BY TypedInit, TypedStep, PTL DEF Spec

\* Documents, tables, connections, sessions and jobs keep their types.
THEOREM TypeCorrect == Spec => []TypeOK
<1>1. Typed => TypeOK
  BY DEF Typed
<1> QED
  BY <1>1, TypedCorrect, PTL

----------------------------------------------------------------------------
(* The index of the handles.                                               *)

\* Where a track is forgotten, what is registered and what is listed stay the same set.
LEMMA RemoveTrackLists ==
    ASSUME Typed, HandlesListed, NEW t \in Tracks, NEW f \in Flows, RemoveTrack(t, f)
    PROVE  HandlesListed'
<1>1. SUFFICES ASSUME NEW u \in Tracks, NEW g \in Flows
               PROVE  Registered(u, g)' = byFlow'[<<u, g>>]
  BY DEF HandlesListed
<1>2. /\ <<t, f>> \in Tracks \X Flows /\ <<u, g>> \in Tracks \X Flows
      /\ Registered(u, g) = byFlow[<<u, g>>] /\ Registered(t, f) = byFlow[<<t, f>>]
  BY DEF HandlesListed
<1>3. CASE <<u, g>> = <<t, f>>
  <2>1. byFlow'[<<t, f>>] = {}
    BY <1>2 DEF RemoveTrack, Typed, TypeOK
  <2>2. \A n \in Nodes : byNode'[<<t, f>>][n] = IF n \in byFlow[<<t, f>>] \cap Registered(t, f)
                                               THEN NoHandle ELSE byNode[<<t, f>>][n]
    BY <1>2 DEF RemoveTrack, Typed, TypeOK
  <2>3. \A n \in Nodes : byNode'[<<t, f>>][n] = NoHandle
    BY <1>2, <2>2 DEF Registered
  <2> QED
    BY <1>3, <2>1, <2>3 DEF Registered
<1>4. CASE <<u, g>> # <<t, f>>
  <2>1. byFlow'[<<u, g>>] = byFlow[<<u, g>>] /\ byNode'[<<u, g>>] = byNode[<<u, g>>]
    BY <1>2, <1>4 DEF RemoveTrack, Typed, TypeOK
  <2> QED
    BY <1>2, <2>1 DEF Registered
<1> QED
  BY <1>3, <1>4

LEMMA RegisterLists ==
    ASSUME Typed, HandlesListed, NEW w \in Workers, Register(w)
    PROVE  HandlesListed'
<1> DEFINE t == job[w].track
           f == job[w].flow
           n == Dsl(job[w])[job[w].next].id
           h == job[w].held
<1>1. t \in Tracks /\ f \in Flows /\ n \in Nodes /\ h \in Handles
  BY RegisterTypes
<1>2. /\ byNode' = [byNode EXCEPT ![<<t, f>>][n] = h]
      /\ byFlow' = [byFlow EXCEPT ![<<t, f>>] = @ \cup {n}]
  BY DEF Register, RegisterLocked
<1> HIDE DEF t, f, n, h
<1>3. SUFFICES ASSUME NEW u \in Tracks, NEW g \in Flows
               PROVE  Registered(u, g)' = byFlow'[<<u, g>>]
  BY DEF HandlesListed
<1>4. /\ <<t, f>> \in Tracks \X Flows /\ <<u, g>> \in Tracks \X Flows
      /\ Registered(u, g) = byFlow[<<u, g>>]
  BY <1>1 DEF HandlesListed
<1>5. byNode[<<u, g>>] \in [Nodes -> Handles \cup {NoHandle}]
  BY <1>4 DEF Typed, TypeOK
<1>6. CASE <<u, g>> = <<t, f>>
  <2>1. byFlow'[<<u, g>>] = byFlow[<<u, g>>] \cup {n}
    BY <1>2, <1>4, <1>6 DEF Typed, TypeOK
  <2>2. byNode'[<<u, g>>] = [byNode[<<u, g>>] EXCEPT ![n] = h]
    BY <1>2, <1>4, <1>6 DEF Typed, TypeOK
  <2>3. \A m \in Nodes : byNode'[<<u, g>>][m] = IF m = n THEN h ELSE byNode[<<u, g>>][m]
    BY <1>5, <2>2
  <2> QED
    BY <1>1, <1>4, <2>1, <2>3, HandlesAssumption DEF Registered
<1>7. CASE <<u, g>> # <<t, f>>
  <2>1. byFlow'[<<u, g>>] = byFlow[<<u, g>>] /\ byNode'[<<u, g>>] = byNode[<<u, g>>]
    BY <1>2, <1>4, <1>7 DEF Typed, TypeOK
  <2> QED
    BY <1>4, <2>1 DEF Registered
<1> QED
  BY <1>6, <1>7

\* What a step does to the tables, by the step.
LEMMA TableMoves ==
    ASSUME Typed, [Next]_vars
    PROVE  \/ UNCHANGED <<byNode, byFlow>>
           \/ \E t \in Tracks, f \in Flows : RemoveTrack(t, f)
           \/ \E w \in Workers : Register(w)
<1>1. Tracks = {"published", "draft"}
  BY DEF Tracks
<1>2. ASSUME NEW w \in Workers, NEW place \in OnFlow, At(w, place) PROVE job[w].flow \in Flows
  BY <1>2, AtPlace DEF Fits
<1>3. ASSUME NEW w \in Workers, Undo(w) PROVE \E t \in Tracks, f \in Flows : RemoveTrack(t, f)
  <2>1. At(w, "undo") /\ RemoveTrack(job[w].track, job[w].flow)
    BY <1>3 DEF Undo
  <2>2. job[w].track \in Tracks /\ job[w].flow \in Flows
    BY <1>2, <2>1, AtPlace DEF Jobs, OnFlow
  <2> QED
    BY <2>1, <2>2
<1>4. ASSUME NEW w \in Workers, Close(w) PROVE \E t \in Tracks, f \in Flows : RemoveTrack(t, f)
  <2>1. At(w, "close")
    BY <1>4 DEF Close
  <2>2. PICK f \in job[w].close : RemoveTrack("draft", f)
    BY <1>4 DEF Close
  <2>3. f \in Flows
    BY <2>1, AtPlace DEF Jobs
  <2> QED
    BY <1>1, <2>2, <2>3
<1>5. ASSUME NEW w \in Workers,
             Undraft(w) \/ Unmount(w) \/ Release(w) \/ Clear(w) \/ Remove(w) \/ Drop(w)
      PROVE  \E t \in Tracks, f \in Flows : RemoveTrack(t, f)
  <2>1. \E place \in OnFlow, t \in Tracks : At(w, place) /\ RemoveTrack(t, job[w].flow)
    BY <1>1, <1>5 DEF Undraft, Unmount, Release, Clear, Remove, Drop, OnFlow
  <2> QED
    BY <1>2, <2>1
<1>6. ASSUME NEW w \in Workers,
             \/ Handle(w) \/ Store(w) \/ Get(w) \/ HttpSync(w) \/ Connect(w)
             \/ IfOpen(w) \/ Check(w) \/ Reuse(w) \/ MountFails(w) \/ MountEnds(w)
             \/ \E s \in Sessions : UpdateSessionOpenFlows(w, s) \/ ReleaseSession(w, s)
             \/ CloseEnds(w) \/ Open(w) \/ Boot(w) \/ OpenEnds(w)
             \/ ListDrafts(w) \/ Sweep(w) \/ SweepEnds(w)
      PROVE  UNCHANGED <<byNode, byFlow>>
  BY <1>6 DEF Handle, Store, Get, HttpSync, IfOpen, Check, Reuse, MountFails, MountEnds, Connect,
              UpdateSessionOpenFlows, ReleaseSession, CloseEnds, Open, Boot, OpenEnds,
              ListDrafts, Sweep, SweepEnds, tableVars
<1>7. CASE UNCHANGED vars
  BY <1>7 DEF vars
<1> QED
  BY <1>3, <1>4, <1>5, <1>6, <1>7 DEF Next, Request, Sync, Session

\* A handle can always be found by the removal of its track.
THEOREM HandlesCorrect == Spec => []HandlesListed
<1>1. Init => HandlesListed
  BY DEF Init, HandlesListed, Registered
<1>2. Typed /\ HandlesListed /\ [Next]_vars => HandlesListed'
  <2> SUFFICES ASSUME Typed, HandlesListed, [Next]_vars PROVE HandlesListed'
    OBVIOUS
  <2>1. CASE UNCHANGED <<byNode, byFlow>>
    BY <2>1 DEF HandlesListed, Registered
  <2> QED
    BY <2>1, TableMoves, RemoveTrackLists, RegisterLists
<1> QED
  BY <1>1, <1>2, TypedCorrect, PTL DEF Spec

----------------------------------------------------------------------------
(* The reference counts.                                                   *)

Openers(f) == {s \in Sessions : f \in sessions[s]}

LEMMA OpenersFinite ==
    ASSUME NEW f \in Flows
    PROVE  IsFiniteSet(Openers(f)) /\ Cardinality(Openers(f)) \in Nat
<1>1. Openers(f) \subseteq Sessions
  BY DEF Openers
<1>2. IsFiniteSet(Openers(f))
  BY <1>1, BoundsAssumption, FS_Subset
<1> QED
  BY <1>2, FS_CardinalityType

\* One session more, or one fewer, has a flow open.
LEMMA OneMore ==
    ASSUME NEW f \in Flows, NEW s \in Sessions, s \notin Openers(f)
    PROVE  Cardinality(Openers(f) \cup {s}) = Cardinality(Openers(f)) + 1
  BY OpenersFinite, FS_AddElement

LEMMA OneFewer ==
    ASSUME NEW f \in Flows, NEW s \in Openers(f)
    PROVE  /\ Cardinality(Openers(f) \ {s}) = Cardinality(Openers(f)) - 1
           /\ Cardinality(Openers(f)) # 0
<1>1. Cardinality(Openers(f) \ {s}) = Cardinality(Openers(f)) - 1
  BY OpenersFinite, FS_RemoveElement
<1>2. Cardinality(Openers(f)) # 0
  BY OpenersFinite, FS_EmptySet
<1> QED
  BY <1>1, <1>2

\* A session replaces its set of flows, and the counts follow.
LEMMA CountsFollow ==
    ASSUME Typed, OpenCountExact, NEW s \in Sessions, NEW wanted \in SUBSET Flows,
           sessions' = [sessions EXCEPT ![s] = wanted],
           openCount' = [f \in Flows |-> IF f \in wanted \ sessions[s] THEN openCount[f] + 1
                                         ELSE IF f \in sessions[s] \ wanted THEN Fewer(f)
                                         ELSE openCount[f]]
    PROVE  OpenCountExact'
<1>1. SUFFICES ASSUME NEW f \in Flows
               PROVE  openCount'[f] = Cardinality(Openers(f)')
  BY DEF OpenCountExact, Openers
<1>2. openCount[f] = Cardinality(Openers(f)) /\ Cardinality(Openers(f)) \in Nat
  BY OpenersFinite DEF OpenCountExact, Openers
<1>3. \A v \in Sessions : sessions'[v] = IF v = s THEN wanted ELSE sessions[v]
  BY DEF Typed, TypeOK
<1>4. CASE f \in wanted \ sessions[s]
  <2>1. s \notin Openers(f) /\ Openers(f)' = Openers(f) \cup {s}
    BY <1>3, <1>4 DEF Openers
  <2> QED
    BY <1>2, <1>4, <2>1, OneMore
<1>5. CASE f \in sessions[s] \ wanted
  <2>1. s \in Openers(f) /\ Openers(f)' = Openers(f) \ {s}
    BY <1>3, <1>5 DEF Openers
  <2>2. openCount'[f] = Fewer(f)
    BY <1>5
  <2> QED
    BY <1>2, <2>1, <2>2, OneFewer DEF Fewer
<1>6. CASE f \notin wanted \ sessions[s] /\ f \notin sessions[s] \ wanted
  <2>1. Openers(f)' = Openers(f)
    BY <1>3, <1>6 DEF Openers
  <2> QED
    BY <1>2, <1>6, <2>1
<1> QED
  BY <1>4, <1>5, <1>6

\* The count of a flow is the number of sessions that have it open, for every finite set of
\* sessions and whatever lists they send.
THEOREM OpenCountCorrect == Spec => []OpenCountExact
<1>1. Init => OpenCountExact
  <2> SUFFICES ASSUME Init, NEW f \in Flows
               PROVE  openCount[f] = Cardinality({s \in Sessions : f \in sessions[s]})
    BY DEF OpenCountExact
  <2>1. {s \in Sessions : f \in sessions[s]} = {}
    BY DEF Init
  <2> QED
    BY <2>1, FS_EmptySet DEF Init
<1>2. Typed /\ OpenCountExact /\ [Next]_vars => OpenCountExact'
  <2> SUFFICES ASSUME Typed, OpenCountExact, [Next]_vars PROVE OpenCountExact'
    OBVIOUS
  <2>1. ASSUME UNCHANGED sessionVars PROVE OpenCountExact'
    BY <2>1 DEF sessionVars, OpenCountExact
  <2>2. ASSUME NEW w \in Workers, NEW s \in Sessions, UpdateSessionOpenFlows(w, s)
        PROVE  OpenCountExact'
    <3>1. PICK ids \in UNION {[1..n -> Flows] : n \in 0..2} :
              LET wanted == {f \in Flows : Wanted(ids, f) > 0}
                  diff == Diff(sessions[s], wanted)
              IN  /\ sessions' = [sessions EXCEPT ![s] = wanted]
                  /\ openCount' = [f \in Flows |->
                                      IF f \in diff.added THEN openCount[f] + Wanted(ids, f)
                                      ELSE IF f \in diff.removed THEN Fewer(f)
                                      ELSE openCount[f]]
      BY <2>2 DEF UpdateSessionOpenFlows
    <3> DEFINE wanted == {f \in Flows : Wanted(ids, f) > 0}
    <3>2. \A f \in wanted : Wanted(ids, f) = 1
      BY DEF Wanted
    <3>3. openCount' = [f \in Flows |-> IF f \in wanted \ sessions[s] THEN openCount[f] + 1
                                        ELSE IF f \in sessions[s] \ wanted THEN Fewer(f)
                                        ELSE openCount[f]]
      BY <3>1, <3>2 DEF Diff
    <3>4. wanted \in SUBSET Flows /\ sessions' = [sessions EXCEPT ![s] = wanted]
      BY <3>1
    <3> HIDE DEF wanted
    <3> QED
      BY <3>3, <3>4, CountsFollow
  <2>3. ASSUME NEW w \in Workers, NEW s \in Sessions, ReleaseSession(w, s)
        PROVE  OpenCountExact'
    <3>1. /\ sessions' = [sessions EXCEPT ![s] = {}]
          /\ openCount' = [f \in Flows |-> IF f \in {} \ sessions[s] THEN openCount[f] + 1
                                           ELSE IF f \in sessions[s] \ {} THEN Fewer(f)
                                           ELSE openCount[f]]
      BY <2>3 DEF ReleaseSession
    <3> QED
      BY <3>1, CountsFollow, ZenonT(60)
  <2>4. ASSUME NEW w \in Workers, Sync(w) PROVE UNCHANGED sessionVars
    BY <2>4 DEF Sync, Undraft, Unmount, IfOpen, Check, Release, Clear, Connect, Reuse,
                MountFails, Register, Undo, MountEnds
  <2>5. ASSUME NEW w \in Workers, Request(w) PROVE UNCHANGED sessionVars
    BY <2>5 DEF Request, Handle, Store, Get, HttpSync, Remove
  <2>6. ASSUME NEW w \in Workers,
               \/ Close(w) \/ CloseEnds(w) \/ Open(w) \/ Boot(w) \/ OpenEnds(w)
               \/ ListDrafts(w) \/ Sweep(w) \/ SweepEnds(w) \/ Drop(w)
        PROVE  UNCHANGED sessionVars
    BY <2>6 DEF Close, CloseEnds, Open, Boot, OpenEnds, ListDrafts, Sweep, SweepEnds, Drop
  <2>7. CASE UNCHANGED vars
    BY <2>1, <2>7 DEF vars, sessionVars
  <2> QED
    BY <2>1, <2>2, <2>3, <2>4, <2>5, <2>6, <2>7 DEF Next, Session
<1> QED
  BY <1>1, <1>2, TypedCorrect, PTL DEF Spec

----------------------------------------------------------------------------
(* The jobs and their flows.                                               *)

\* What a job has left to do, by where it is: it is at one flow at a time, and keeps a handle
\* only on the way from the connection to the registration.
Shape(j) ==
    /\ j.at \notin OnFlow => j.flow = NoFlow
    /\ j.close # {} => j.at \in {"close", "sweep", "drop"}
    /\ j.at = "close" => j.kind \in {"edit", "leave"}
    /\ j.at = "remove" => j.kind = "purge"
    /\ j.kind \in {"leave", "purge"} \/ j.at \in {"list", "sweep", "drop"} =>
           j.open = {} /\ j.todo = {}
    /\ j.flow \notin j.open /\ (j.open = {} \/ j.todo = {})
    /\ \A p \in j.todo : p[1] # j.flow
    /\ \A p, q \in j.todo : p[1] = q[1] => p = q
    /\ j.held # NoHandle => j.at = "register"

Shaped == \A w \in Underway : Shape(job[w])

\* The job j goes on as k, at its flow or done with it.
Follows(j, k) ==
    /\ k \in Jobs
    /\ k.kind = j.kind /\ k.open = j.open /\ k.todo = j.todo /\ k.close = j.close
    /\ \/ k.flow = j.flow /\ k.at \in OnFlow /\ (k.at \in {"remove", "drop"} => k.kind = "purge")
       \/ k.flow = NoFlow /\ k.at = "open"
    /\ k.held # NoHandle => k.at = "register"

\* It goes on at its flow with the definitions it has.
Moved(j, k, at) ==
    /\ k \in Jobs
    /\ k.kind = j.kind /\ k.open = j.open /\ k.todo = j.todo /\ k.close = j.close
    /\ k.flow = j.flow /\ k.live = j.live /\ k.draft = j.draft /\ k.at = at

\* A worker has turned to another job.
Turns(w, k) ==
    /\ job' = [job EXCEPT ![w] = k]
    /\ disturbed \subseteq disturbed'
    /\ k # NoJob => Contended(job') \subseteq disturbed'

LEMMA BecomesTurns ==
    ASSUME NEW w, NEW k, Becomes(w, k)
    PROVE  Turns(w, k)
  BY DEF Becomes, Turns

\* A worker that is at a place is under way, with a job of the right shape.
LEMMA ShapeAt ==
    ASSUME Typed, Shaped, NEW w \in Workers, NEW place, At(w, place)
    PROVE  /\ w \in Underway /\ job[w] \in Jobs /\ job[w] # NoJob
           /\ job[w].at = place /\ Shape(job[w])
  BY AtPlace DEF At, Shaped, Underway

LEMMA ShapeTurns ==
    ASSUME Typed, Shaped, NEW w \in Workers, NEW k, Turns(w, k), k = NoJob \/ Shape(k)
    PROVE  Shaped'
  BY DEF Typed, TypeOK, Shaped, Underway, Turns

LEMMA ShapeFollows ==
    ASSUME NEW j \in Jobs, NEW k, Shape(j), j.at \in OnFlow \ {"drop"}, Follows(j, k)
    PROVE  Shape(k)
<1>1. NoFlow \notin k.open /\ \A p \in k.todo : p[1] # NoFlow
  BY NullsAssumption DEF Follows, Jobs
<1> QED
  BY <1>1 DEF Shape, Follows, OnFlow

LEMMA MovedFollows ==
    ASSUME NEW j, NEW k, NEW at \in OnFlow, Moved(j, k, at),
           at \in {"remove", "drop"} => j.kind = "purge",
           k.held # NoHandle => at = "register"
    PROVE  Follows(j, k)
  BY DEF Moved, Follows

LEMMA LoopFollows ==
    ASSUME NEW j \in Jobs, Shape(j), j.at \in OnFlow \ {"drop", "register"}
    PROVE  Follows(j, [j EXCEPT !.at = "open", !.flow = NoFlow, !.live = NoDsl, !.draft = NoDsl])
<1>1. "open" \in Places /\ j.held = NoHandle
  BY DEF Places, OnFlow, Shape
<1>2. PICK k : k = [j EXCEPT !.at = "open", !.flow = NoFlow, !.live = NoDsl, !.draft = NoDsl]
  OBVIOUS
<1>3. k \in Jobs
  BY <1>1, <1>2, LoopForms
<1>4. /\ k.kind = j.kind /\ k.open = j.open /\ k.todo = j.todo /\ k.close = j.close
      /\ k.flow = NoFlow /\ k.at = "open" /\ k.held = j.held
  BY <1>2, SMTT(30) DEF Jobs
<1>5. Follows(j, k)
  BY <1>1, <1>3, <1>4 DEF Follows
<1> QED
  BY <1>2, <1>5

----------------------------------------------------------------------------
(* A flow that one job at most is at work on.                              *)

Pub(f) == byFlow[<<"published", f>>]

Dra(f) == byFlow[<<"draft", f>>]

\* The publication is mounted whole or not at all, and the draft only while it may be.
Whole(f) == Pub(f) # {} => live[f] # NoDsl /\ Pub(f) = {live[f][i].id : i \in DOMAIN live[f]}

Wanting(f) == Dra(f) # {} => IsDraftOpen(f) /\ live[f] = NoDsl

Calm(f) == Whole(f) /\ Wanting(f)

Single(f) == Pub(f) = {} \/ Dra(f) = {}

\* The nodes a job has mounted.
MountedUpTo(j) == {Dsl(j)[k].id : k \in {i \in DOMAIN Dsl(j) : i < j.next /\ Mounted(j, i)}}

\* What a job knows at its flow, when no other works there.
Work(j, f) ==
    /\ j.at = "store" \/ (j.at = "get" /\ j.kind = "save") => Calm(f)
    /\ j.at = "get" => draft[f] # NoDsl
    /\ j.at \in {"http", "undraft", "unmount", "ifopen", "check", "release", "clear", "mount",
                 "register"} => j.live = live[f]
    /\ j.at = "unmount" => Dra(f) = {}
    /\ j.at \in {"ifopen", "check", "release", "clear", "drop"} => Whole(f)
    /\ j.at = "clear" \/ (j.at \in {"mount", "register"} /\ j.track = "draft") =>
           live[f] = NoDsl /\ IsDraftOpen(f)
    /\ j.at \in {"mount", "register", "undo"} =>
           IF j.track = "published" THEN Dra(f) = {} ELSE Pub(f) = {}
    /\ j.at \in {"mount", "register"} => byFlow[<<j.track, f>>] = MountedUpTo(j)
    /\ j.at = "mount" => j.next >= 1
    /\ j.at = "register" => Mounted(j, j.next)

\* What is published has a document.
DocsExist == \A f \in Flows : live[f] # NoDsl => draft[f] # NoDsl

\* A step of the job j at its flow f, to k, leaves the flow to k as it takes it to be, or calm.
Fares(j, k, f) ==
    f \notin disturbed' /\ Single(f) /\ Work(j, f) =>
        /\ Single(f)'
        /\ IF k # NoJob /\ k.flow = f THEN Work(k, f)' ELSE Calm(f)'

Steps(w) ==
    \E j, k, f : /\ j = job[w] /\ f = j.flow
                 /\ Turns(w, k) /\ (k = NoJob \/ Follows(j, k)) /\ Fares(j, k, f)

Retracked(j, at, t) == [j EXCEPT !.at = at, !.track = t]

Remounted(j, at, t, n) == [j EXCEPT !.at = at, !.track = t, !.next = n]

Renewed(j, at, n) == [j EXCEPT !.at = at, !.next = n]

Holding(j, i, h) == [j EXCEPT !.at = "register", !.next = i, !.held = h]

Advanced(j) == [j EXCEPT !.at = "mount", !.next = j.next + 1, !.held = NoHandle]

Read(j, l, d, at) == [j EXCEPT !.live = l, !.draft = d, !.at = at]

Goes(w, k, at) == Turns(w, k) /\ Moved(job[w], k, at) /\ Follows(job[w], k)

\* A worker at a place of a flow.
LEMMA FlowAt ==
    ASSUME Typed, Shaped, NEW w \in Workers, NEW place \in OnFlow, At(w, place)
    PROVE  /\ job[w] \in Jobs /\ job[w].at = place /\ Shape(job[w]) /\ Fits(job[w])
           /\ job[w].flow \in Flows /\ job[w].flow # NoFlow
           /\ w \in Underway /\ job[w] # NoJob
           /\ place # "register" => job[w].held = NoHandle
  BY ShapeAt, AtPlace, NullsAssumption DEF Fits, Shape

LEMMA GoingOn ==
    ASSUME Typed, Shaped, NEW w \in Workers, NEW place \in OnFlow \ {"register"}, At(w, place),
           NEW at \in OnFlow, at \in {"remove", "drop"} => job[w].kind = "purge"
    PROVE  /\ GoTo(w, at) =>
                  \E k : /\ Goes(w, k, at) /\ k.held = NoHandle
                         /\ k.track = job[w].track /\ k.next = job[w].next
           /\ \A t \in Tracks : Becomes(w, Retracked(job[w], at, t)) =>
                  \E k : Goes(w, k, at) /\ k.held = NoHandle /\ k.track = t /\ k.next = job[w].next
           /\ \A t \in Tracks, n \in Nat :
                  Becomes(w, Remounted(job[w], at, t, n)) =>
                      \E k : Goes(w, k, at) /\ k.held = NoHandle /\ k.track = t /\ k.next = n
           /\ \A n \in Nat : Becomes(w, Renewed(job[w], at, n)) =>
                  \E k : Goes(w, k, at) /\ k.held = NoHandle /\ k.track = job[w].track /\ k.next = n
<1> DEFINE j == job[w]
<1>1. j \in Jobs /\ at \in Places /\ j.held = NoHandle
  BY FlowAt DEF OnFlow, Places
<1>2. ASSUME NEW k, Becomes(w, k), Moved(j, k, at), k.held = NoHandle PROVE Goes(w, k, at)
  BY <1>2, BecomesTurns, MovedFollows DEF Goes
<1>3. ASSUME GoTo(w, at)
      PROVE  \E k : Goes(w, k, at) /\ k.held = NoHandle /\ k.track = j.track /\ k.next = j.next
  <2> DEFINE k == [j EXCEPT !.at = at]
  <2>1. Becomes(w, k)
    BY <1>3 DEF GoTo
  <2>2. k \in Jobs
    BY <1>1, <1>3, JobForms
  <2>3. /\ k.kind = j.kind /\ k.open = j.open /\ k.todo = j.todo /\ k.close = j.close
        /\ k.flow = j.flow /\ k.live = j.live /\ k.draft = j.draft /\ k.at = at
        /\ k.held = j.held /\ k.track = j.track /\ k.next = j.next
    BY <1>1 DEF Jobs
  <2> HIDE DEF k
  <2> QED
    BY <1>1, <1>2, <2>1, <2>2, <2>3 DEF Moved
<1>4. ASSUME NEW t \in Tracks, Becomes(w, Retracked(job[w], at, t))
      PROVE  \E k : Goes(w, k, at) /\ k.held = NoHandle /\ k.track = t /\ k.next = j.next
  <2> DEFINE k == [j EXCEPT !.at = at, !.track = t]
  <2>1. Becomes(w, k)
    BY <1>4 DEF Retracked
  <2>2. k \in Jobs
    BY <1>1, <1>4, JobForms
  <2>3. /\ k.kind = j.kind /\ k.open = j.open /\ k.todo = j.todo /\ k.close = j.close
        /\ k.flow = j.flow /\ k.live = j.live /\ k.draft = j.draft /\ k.at = at
        /\ k.held = j.held /\ k.track = t /\ k.next = j.next
    BY <1>1 DEF Jobs
  <2> HIDE DEF k
  <2> QED
    BY <1>1, <1>2, <2>1, <2>2, <2>3 DEF Moved
<1>5. ASSUME NEW t \in Tracks, NEW n \in Nat, Becomes(w, Remounted(job[w], at, t, n))
      PROVE  \E k : Goes(w, k, at) /\ k.held = NoHandle /\ k.track = t /\ k.next = n
  <2> DEFINE k == [j EXCEPT !.at = at, !.track = t, !.next = n]
  <2>1. Becomes(w, k)
    BY <1>5 DEF Remounted
  <2>2. k \in Jobs
    BY <1>1, <1>5, JobForms
  <2>3. /\ k.kind = j.kind /\ k.open = j.open /\ k.todo = j.todo /\ k.close = j.close
        /\ k.flow = j.flow /\ k.live = j.live /\ k.draft = j.draft /\ k.at = at
        /\ k.held = j.held /\ k.track = t /\ k.next = n
    BY <1>1 DEF Jobs
  <2> HIDE DEF k
  <2> QED
    BY <1>1, <1>2, <2>1, <2>2, <2>3 DEF Moved
<1>6. ASSUME NEW n \in Nat, Becomes(w, Renewed(job[w], at, n))
      PROVE  \E k : Goes(w, k, at) /\ k.held = NoHandle /\ k.track = j.track /\ k.next = n
  <2> DEFINE k == [j EXCEPT !.at = at, !.next = n]
  <2>1. Becomes(w, k)
    BY <1>6 DEF Renewed
  <2>2. k \in Jobs
    BY <1>1, <1>6, JobForms
  <2>3. /\ k.kind = j.kind /\ k.open = j.open /\ k.todo = j.todo /\ k.close = j.close
        /\ k.flow = j.flow /\ k.live = j.live /\ k.draft = j.draft /\ k.at = at
        /\ k.held = j.held /\ k.track = j.track /\ k.next = n
    BY <1>1 DEF Jobs
  <2> HIDE DEF k
  <2> QED
    BY <1>1, <1>2, <2>1, <2>2, <2>3 DEF Moved
<1> QED
  BY <1>3, <1>4, <1>5, <1>6

\* Where SyncFlow and SyncDraft return to.
LEMMA Returns ==
    ASSUME Typed, Shaped, NEW w \in Workers, NEW place \in Syncing \ {"register"}, At(w, place),
           NEW ok \in BOOLEAN, Return(w, ok), NEW j, NEW f, j = job[w], f = j.flow,
           f \notin disturbed' /\ Single(f) /\ Work(j, f) =>
               /\ Single(f)' /\ Calm(f)'
               /\ ok /\ j.track = "published" => j.live = live'[f]
    PROVE  Steps(w)
<1>1. place \in OnFlow \ {"drop", "register"}
  BY DEF OnFlow, Syncing
<1>2. /\ j \in Jobs /\ Shape(j) /\ j.at = place /\ j.flow # NoFlow
      /\ j.kind \in {"publish", "offline", "save", "boot", "edit"}
  BY <1>1, FlowAt DEF Fits
<1>3. CASE End(w)
  BY <1>2, <1>3, BecomesTurns DEF End, Steps, Fares
<1>4. CASE GoTo(w, "ifopen") /\ ok /\ j.track = "published"
  <2>1. PICK k : Goes(w, k, "ifopen")
    BY <1>1, <1>4, GoingOn DEF OnFlow
  <2>2. Fares(j, k, f)
    BY <1>4, <2>1 DEF Fares, Work, Calm, Goes, Moved
  <2> QED
    BY <2>1, <2>2 DEF Steps, Goes
<1>5. CASE Loop(w, "open")
  <2> DEFINE k == [j EXCEPT !.at = "open", !.flow = NoFlow, !.live = NoDsl, !.draft = NoDsl]
  <2>1. Follows(j, k) /\ Turns(w, k)
    BY <1>1, <1>2, <1>5, LoopFollows, BecomesTurns DEF Loop
  <2>2. k.flow = NoFlow
    BY <1>2 DEF Jobs
  <2> HIDE DEF k
  <2> QED
    BY <1>2, <2>1, <2>2 DEF Steps, Fares
<1> QED
  BY <1>2, <1>3, <1>4, <1>5 DEF Return

\* A track that is forgotten is empty, and the others are as they were.
LEMMA RemoveForm ==
    ASSUME Typed, HandlesListed, NEW t \in Tracks, NEW f \in Flows, RemoveTrack(t, f)
    PROVE  /\ byFlow'[<<t, f>>] = {} /\ \A n \in Nodes : byNode'[<<t, f>>][n] = NoHandle
           /\ \A u \in Tracks, g \in Flows : u # t \/ g # f =>
                  byFlow'[<<u, g>>] = byFlow[<<u, g>>] /\ byNode'[<<u, g>>] = byNode[<<u, g>>]
           /\ \A c \in Conns, g \in Flows : g # f => (<<c, g>> \in connected' <=> <<c, g>> \in connected)
<1>1. <<t, f>> \in Tracks \X Flows /\ Registered(t, f) = byFlow[<<t, f>>]
  BY DEF HandlesListed
<1>2. byFlow' = [byFlow EXCEPT ![<<t, f>>] = {}]
  BY DEF RemoveTrack
<1>3. \A n \in Nodes : byNode'[<<t, f>>][n] = IF n \in byFlow[<<t, f>>] \cap Registered(t, f)
                                              THEN NoHandle ELSE byNode[<<t, f>>][n]
  BY <1>1 DEF RemoveTrack, Typed, TypeOK
<1>4. \A n \in Nodes : byNode'[<<t, f>>][n] = NoHandle
  BY <1>1, <1>3 DEF Registered
<1>5. ASSUME NEW u \in Tracks, NEW g \in Flows, u # t \/ g # f
      PROVE  byFlow'[<<u, g>>] = byFlow[<<u, g>>] /\ byNode'[<<u, g>>] = byNode[<<u, g>>]
  <2>1. <<u, g>> \in Tracks \X Flows /\ <<u, g>> # <<t, f>>
    BY <1>5
  <2> QED
    BY <2>1 DEF RemoveTrack, Typed, TypeOK
<1>6. ASSUME NEW c \in Conns, NEW g \in Flows, g # f
      PROVE  <<c, g>> \in connected' <=> <<c, g>> \in connected
  BY <1>6 DEF RemoveTrack
<1> QED
  BY <1>1, <1>2, <1>4, <1>5, <1>6 DEF Typed, TypeOK

\* A removal of one track of a flow, while the other is empty or stays.
LEMMA RemoveParts ==
    ASSUME Typed, HandlesListed, NEW f \in Flows
    PROVE  /\ RemoveTrack("draft", f) => Dra(f)' = {} /\ Pub(f)' = Pub(f)
           /\ RemoveTrack("published", f) => Pub(f)' = {} /\ Dra(f)' = Dra(f)
<1>1. "draft" \in Tracks /\ "published" \in Tracks
  BY DEF Tracks
<1>2. ASSUME RemoveTrack("draft", f)
      PROVE  Dra(f)' = {} /\ Pub(f)' = Pub(f)
  <2>1. byFlow' = [byFlow EXCEPT ![<<"draft", f>>] = {}]
    BY <1>2 DEF RemoveTrack
  <2>2. DOMAIN byFlow = Tracks \X Flows
    BY DEF Typed, TypeOK
  <2>3. <<"draft", f>> \in Tracks \X Flows /\ <<"published", f>> \in Tracks \X Flows
    BY <1>1
  <2>4. byFlow'[<<"draft", f>>] = {}
    BY <2>1, <2>2, <2>3
  <2>5. byFlow'[<<"published", f>>] = byFlow[<<"published", f>>]
    BY <2>1, <2>2, <2>3
  <2> QED
    BY <2>4, <2>5 DEF Pub, Dra
<1>3. ASSUME RemoveTrack("published", f)
      PROVE  Pub(f)' = {} /\ Dra(f)' = Dra(f)
  <2>1. byFlow' = [byFlow EXCEPT ![<<"published", f>>] = {}]
    BY <1>3 DEF RemoveTrack
  <2>2. DOMAIN byFlow = Tracks \X Flows
    BY DEF Typed, TypeOK
  <2>3. <<"draft", f>> \in Tracks \X Flows /\ <<"published", f>> \in Tracks \X Flows
    BY <1>1
  <2>4. byFlow'[<<"published", f>>] = {}
    BY <2>1, <2>2, <2>3
  <2>5. byFlow'[<<"draft", f>>] = byFlow[<<"draft", f>>]
    BY <2>1, <2>2, <2>3
  <2> QED
    BY <2>4, <2>5 DEF Pub, Dra
<1> QED
  BY <1>2, <1>3

LEMMA UndraftStep ==
    ASSUME Typed, Shaped, HandlesListed, NEW w \in Workers, Undraft(w)
    PROVE  Steps(w)
<1>1. PICK j, f : j = job[w] /\ f = j.flow
  OBVIOUS
<1>2. At(w, "undraft") /\ GoTo(w, "unmount") /\ RemoveTrack("draft", f) /\ live' = live
  BY <1>1 DEF Undraft, docVars
<1>3. f \in Flows /\ j.at = "undraft" /\ f # NoFlow
  BY <1>1, <1>2, FlowAt DEF OnFlow
<1>4. PICK k : Goes(w, k, "unmount")
  BY <1>2, GoingOn DEF OnFlow
<1>5. Fares(j, k, f)
  <2>1. ASSUME Work(j, f), Single(f) PROVE Single(f)' /\ Work(k, f)'
    BY <1>1, <1>2, <1>3, <1>4, <2>1, RemoveParts DEF Work, Single, Goes, Moved
  <2> QED
    BY <1>1, <1>4, <2>1, NoJobAssumption DEF Fares, Goes, Moved
<1> QED
  BY <1>1, <1>4, <1>5 DEF Steps, Goes

LEMMA UnmountStep ==
    ASSUME Typed, Shaped, HandlesListed, NEW w \in Workers, Unmount(w)
    PROVE  Steps(w)
<1>1. PICK j, f : j = job[w] /\ f = j.flow
  OBVIOUS
<1>2. At(w, "unmount") /\ RemoveTrack("published", f) /\ live' = live /\ openCount' = openCount
  BY <1>1 DEF Unmount, docVars, sessionVars
<1>3. f \in Flows /\ j.at = "unmount" /\ f # NoFlow /\ j \in Jobs
  BY <1>1, <1>2, FlowAt DEF OnFlow
<1>4. Pub(f)' = {} /\ Dra(f)' = Dra(f)
  BY <1>2, <1>3, RemoveParts
<1>5. CASE j.live = NoDsl
  <2>1. Return(w, TRUE)
    BY <1>1, <1>5, Unmount(w) DEF Unmount
  <2>2. Work(j, f) => Single(f)' /\ Calm(f)' /\ j.live = live'[f]
    BY <1>2, <1>3, <1>4 DEF Work, Single, Calm, Whole, Wanting
  <2> QED
    BY <1>1, <1>2, <2>1, <2>2, Returns DEF Syncing
<1>6. CASE j.live # NoDsl
  <2>1. Becomes(w, Remounted(job[w], "mount", "published", 1))
    BY <1>1, <1>6 DEF Unmount, Remounted
  <2>2. PICK k : Goes(w, k, "mount") /\ k.held = NoHandle /\ k.track = "published" /\ k.next = 1
    BY <1>2, <2>1, GoingOn DEF OnFlow, Tracks
  <2>3. j.live \in Dsls /\ Dsl(k) = j.live
    BY <1>1, <1>3, <1>6, <2>2 DEF Jobs, Goes, Moved, Dsl
  <2>4. MountedUpTo(k) = {}
    <3>1. \A i \in DOMAIN Dsl(k) : i \in Nat /\ i >= 1
      BY <2>3, DslsAssumption
    <3> QED
      BY <2>2, <3>1 DEF MountedUpTo
  <2>5. ASSUME Work(j, f), Single(f) PROVE Single(f)' /\ Work(k, f)'
    <3>1. MountedUpTo(k)' = MountedUpTo(k)
      BY DEF MountedUpTo, Dsl, Mounted
    <3> QED
      BY <1>1, <1>2, <1>3, <1>4, <2>2, <2>4, <2>5, <3>1 DEF Work, Single, Goes, Moved, Pub
  <2>6. Fares(j, k, f)
    BY <1>1, <2>2, <2>5, NoJobAssumption DEF Fares, Goes, Moved
  <2> QED
    BY <1>1, <2>2, <2>6 DEF Steps, Goes
<1> QED
  BY <1>5, <1>6

LEMMA IfOpenStep ==
    ASSUME Typed, Shaped, NEW w \in Workers, IfOpen(w)
    PROVE  Steps(w)
<1>1. PICK j, f : j = job[w] /\ f = j.flow
  OBVIOUS
<1>2. At(w, "ifopen") /\ UNCHANGED <<docVars, sessionVars, tableVars>>
  BY DEF IfOpen
<1>3. f \in Flows /\ j.at = "ifopen" /\ f # NoFlow
  BY <1>1, <1>2, FlowAt DEF OnFlow
<1>4. PICK at \in {"check", "release"} : Becomes(w, Retracked(job[w], at, "draft"))
  BY DEF IfOpen, Retracked
<1>5. PICK k : Goes(w, k, at)
  BY <1>2, <1>4, GoingOn DEF OnFlow, Tracks
<1>6. Fares(j, k, f)
  <2>1. ASSUME Work(j, f), Single(f) PROVE Single(f)' /\ Work(k, f)'
    BY <1>1, <1>2, <1>3, <1>4, <1>5, <2>1
       DEF Work, Single, Goes, Moved, docVars, sessionVars, tableVars, Whole, Pub, Dra
  <2> QED
    BY <1>1, <1>5, <2>1, NoJobAssumption DEF Fares, Goes, Moved
<1> QED
  BY <1>1, <1>5, <1>6 DEF Steps, Goes

LEMMA CheckStep ==
    ASSUME Typed, Shaped, NEW w \in Workers, Check(w)
    PROVE  Steps(w)
<1>1. PICK j, f : j = job[w] /\ f = j.flow
  OBVIOUS
<1>2. At(w, "check") /\ UNCHANGED <<docVars, sessionVars, tableVars>>
  BY DEF Check
<1>3. f \in Flows /\ j.at = "check" /\ f # NoFlow
  BY <1>1, <1>2, FlowAt DEF OnFlow
<1>4. PICK at \in {"clear", "release"} :
          /\ at = "clear" => IsDraftOpen(f) /\ j.live = NoDsl
          /\ Becomes(w, Retracked(job[w], at, "draft"))
  BY <1>1 DEF Check, MayMountDraft, Retracked
<1>5. PICK k : Goes(w, k, at)
  BY <1>2, <1>4, GoingOn DEF OnFlow, Tracks
<1>6. Fares(j, k, f)
  <2>1. ASSUME Work(j, f), Single(f) PROVE Single(f)' /\ Work(k, f)'
    BY <1>1, <1>2, <1>3, <1>4, <1>5, <2>1
       DEF Work, Single, Goes, Moved, docVars, sessionVars, tableVars, Whole, Pub, Dra, IsDraftOpen
  <2> QED
    BY <1>1, <1>5, <2>1, NoJobAssumption DEF Fares, Goes, Moved
<1> QED
  BY <1>1, <1>5, <1>6 DEF Steps, Goes

LEMMA ReleaseStep ==
    ASSUME Typed, Shaped, HandlesListed, NEW w \in Workers, Release(w)
    PROVE  Steps(w)
<1>1. PICK j, f : j = job[w] /\ f = j.flow
  OBVIOUS
<1>2. /\ At(w, "release") /\ RemoveTrack("draft", f) /\ live' = live /\ Return(w, TRUE)
  BY <1>1 DEF Release, docVars
<1>3. f \in Flows /\ j.at = "release"
  BY <1>1, <1>2, FlowAt DEF OnFlow
<1>4. Work(j, f) => Single(f)' /\ Calm(f)' /\ j.live = live'[f]
  BY <1>2, <1>3, RemoveParts DEF Work, Single, Calm, Whole, Wanting
<1> QED
  BY <1>1, <1>2, <1>4, Returns DEF Syncing

LEMMA ClearStep ==
    ASSUME Typed, Shaped, HandlesListed, NEW w \in Workers, Clear(w)
    PROVE  Steps(w)
<1>1. PICK j, f : j = job[w] /\ f = j.flow
  OBVIOUS
<1>2. /\ At(w, "clear") /\ RemoveTrack("draft", f) /\ live' = live /\ openCount' = openCount
      /\ Becomes(w, Renewed(job[w], "mount", 1))
  BY <1>1 DEF Clear, docVars, sessionVars, Renewed
<1>3. /\ f \in Flows /\ j.at = "clear" /\ f # NoFlow /\ j \in Jobs
      /\ j.track = "draft" /\ j.draft \in Dsls
  BY <1>1, <1>2, FlowAt DEF OnFlow, Fits, Jobs
<1>4. PICK k : Goes(w, k, "mount") /\ k.held = NoHandle /\ k.track = "draft" /\ k.next = 1
  BY <1>1, <1>2, <1>3, GoingOn DEF OnFlow
<1>5. Dsl(k) = j.draft
  BY <1>1, <1>4 DEF Goes, Moved, Dsl
<1>6. MountedUpTo(k) = {}
  <2>1. \A i \in DOMAIN Dsl(k) : i \in Nat /\ i >= 1
    BY <1>3, <1>5, DslsAssumption
  <2> QED
    BY <1>4, <2>1 DEF MountedUpTo
<1>7. Fares(j, k, f)
  <2>1. ASSUME Work(j, f), Single(f) PROVE Single(f)' /\ Work(k, f)'
    <3>1. MountedUpTo(k)' = MountedUpTo(k)
      BY DEF MountedUpTo, Dsl, Mounted
    <3>2. Dra(f)' = {} /\ Pub(f)' = Pub(f)
      BY <1>2, <1>3, RemoveParts
    <3>3. Pub(f) = {}
      BY <1>3, <2>1 DEF Work, Whole
    <3> QED
      BY <1>1, <1>2, <1>3, <1>4, <1>6, <2>1, <3>1, <3>2, <3>3
         DEF Work, Single, Goes, Moved, Pub, Dra, IsDraftOpen
  <2> QED
    BY <1>1, <1>4, <2>1, NoJobAssumption DEF Fares, Goes, Moved
<1> QED
  BY <1>1, <1>4, <1>7 DEF Steps, Goes

LEMMA HoldStep ==
    ASSUME Typed, Shaped, NEW w \in Workers, At(w, "mount"), NEW i \in NextNode(w),
           NEW h \in Handles, Holds(w, i, h), UNCHANGED <<docVars, sessionVars, byFlow>>
    PROVE  Steps(w)
<1>1. PICK j, f : j = job[w] /\ f = j.flow
  OBVIOUS
<1>2. /\ f \in Flows /\ j \in Jobs /\ Shape(j) /\ j.at = "mount" /\ f # NoFlow
      /\ Dsl(j) \in Dsls /\ j.next \in Nat /\ i \in DOMAIN Dsl(j) /\ i \in Nat
  BY <1>1, FlowAt, AtPlace, DslOfMount, NextNodeType DEF OnFlow, Jobs
<1>3. PICK k : k = Holding(j, i, h) /\ Becomes(w, k)
  BY <1>1 DEF Holds, Holding
<1>4. /\ Moved(j, k, "register") /\ k.track = j.track /\ k.next = i /\ k.held = h
  <2>1. k \in Jobs
    BY <1>2, <1>3, JobForms DEF Places, Holding
  <2>2. /\ k.kind = j.kind /\ k.open = j.open /\ k.todo = j.todo /\ k.close = j.close
        /\ k.flow = j.flow /\ k.live = j.live /\ k.draft = j.draft /\ k.at = "register"
        /\ k.track = j.track /\ k.next = i /\ k.held = h
    BY <1>2, <1>3 DEF Jobs, Holding
  <2> QED
    BY <2>1, <2>2 DEF Moved
<1>5. Follows(j, k)
  BY <1>4, MovedFollows DEF OnFlow
<1>6. Dsl(k) = Dsl(j) /\ \A x : Mounted(k, x) <=> Mounted(j, x)
  BY <1>4 DEF Dsl, Mounted, Moved
<1>7. Mounted(j, i) /\ i >= j.next /\ \A x \in j.next..(i - 1) : ~Mounted(j, x)
  BY <1>1 DEF NextNode
<1>8. MountedUpTo(k) = MountedUpTo(j)
  <2>1. \A x \in DOMAIN Dsl(j) : x \in Nat
    BY <1>2, DslNodes
  <2>2. \A x \in DOMAIN Dsl(j) : x < i /\ Mounted(j, x) <=> x < j.next /\ Mounted(j, x)
    BY <1>2, <1>7, <2>1
  <2>3. {x \in DOMAIN Dsl(k) : x < k.next /\ Mounted(k, x)}
            = {x \in DOMAIN Dsl(j) : x < j.next /\ Mounted(j, x)}
    BY <1>4, <1>6, <2>2
  <2> QED
    BY <1>6, <2>3 DEF MountedUpTo
<1>9. Fares(j, k, f)
  <2>1. ASSUME Work(j, f), Single(f) PROVE Single(f)' /\ Work(k, f)'
    <3>1. MountedUpTo(k)' = MountedUpTo(k) /\ Mounted(k, k.next)' = Mounted(k, k.next)
      BY DEF MountedUpTo, Dsl, Mounted
    <3> QED
      BY <1>1, <1>2, <1>4, <1>6, <1>7, <1>8, <2>1, <3>1
         DEF Work, Single, Moved, Pub, Dra, docVars, sessionVars, IsDraftOpen
  <2> QED
    BY <1>1, <1>4, <2>1, NoJobAssumption DEF Fares, Moved
<1> QED
  BY <1>1, <1>3, <1>5, <1>9, BecomesTurns DEF Steps

LEMMA UndoneStep ==
    ASSUME Typed, Shaped, NEW w \in Workers, At(w, "mount"), GoTo(w, "undo"),
           UNCHANGED <<docVars, sessionVars, byFlow>>
    PROVE  Steps(w)
<1>1. PICK j, f : j = job[w] /\ f = j.flow
  OBVIOUS
<1>2. f \in Flows /\ j.at = "mount" /\ f # NoFlow
  BY <1>1, FlowAt DEF OnFlow
<1>3. PICK k : Goes(w, k, "undo") /\ k.track = j.track
  BY <1>1, GoingOn DEF OnFlow
<1>4. Fares(j, k, f)
  <2>1. ASSUME Work(j, f), Single(f) PROVE Single(f)' /\ Work(k, f)'
    BY <1>1, <1>2, <1>3, <2>1 DEF Work, Single, Goes, Moved, Pub, Dra
  <2> QED
    BY <1>1, <1>3, <2>1, NoJobAssumption DEF Fares, Goes, Moved
<1> QED
  BY <1>1, <1>3, <1>4 DEF Steps, Goes

\* What a worker mounting a node takes it up with.
LEMMA ConnectHolds ==
    ASSUME Typed, Shaped, NEW w \in Workers, Connect(w)
    PROVE  /\ At(w, "mount") /\ UNCHANGED <<docVars, sessionVars, byNode, byFlow>>
           /\ \E c \in Fresh, i \in NextNode(w), h \in Handles :
                  /\ h.conn = c /\ h.kind # "reuse" /\ Holds(w, i, h)
                  /\ connected' = connected \cup {<<c, job[w].flow>>}
<1> DEFINE c == CHOOSE new \in Fresh : TRUE
<1>1. At(w, "mount") /\ Fresh # {} /\ UNCHANGED <<docVars, sessionVars, byNode, byFlow>>
  BY DEF Connect
<1>2. c \in Fresh /\ Fresh \subseteq Conns
  BY <1>1 DEF Fresh
<1>3. /\ connected' = connected \cup {<<c, job[w].flow>>}
      /\ \E i \in NextNode(w) :
             Holds(w, i, [conn |-> c,
                          kind |-> IF Dsl(job[w])[i].kind = "in" THEN "in" ELSE "persist"])
  BY DEF Connect
<1> HIDE DEF c
<1>4. PICK i \in NextNode(w) :
          \E h : /\ Holds(w, i, h)
                /\ h = [conn |-> c, kind |-> IF Dsl(job[w])[i].kind = "in" THEN "in" ELSE "persist"]
  BY <1>3
<1>6. PICK h : /\ Holds(w, i, h)
               /\ h = [conn |-> c, kind |-> IF Dsl(job[w])[i].kind = "in" THEN "in" ELSE "persist"]
  BY <1>4
<1>5. h \in Handles /\ h.conn = c /\ h.kind # "reuse"
  BY <1>2, <1>6 DEF Handles
<1> QED
  BY <1>1, <1>2, <1>3, <1>4, <1>5, <1>6

LEMMA ReuseHolds ==
    ASSUME Typed, Shaped, NEW w \in Workers, Reuse(w)
    PROVE  /\ At(w, "mount") /\ UNCHANGED <<docVars, sessionVars, tableVars>>
           /\ \/ GoTo(w, "undo")
              \/ \E i \in NextNode(w), h \in Handles, n \in Nodes :
                     LET in == byNode[<<job[w].track, job[w].flow>>][n]
                     IN  /\ in # NoHandle /\ h.conn = in.conn /\ h.kind = "reuse"
                         /\ Holds(w, i, h)
<1>1. At(w, "mount") /\ UNCHANGED <<docVars, sessionVars, tableVars>>
  BY DEF Reuse
<1>2. PICK i \in NextNode(w) :
          LET in == byNode[<<job[w].track, job[w].flow>>][Dsl(job[w])[i].from]
          IN  /\ Dsl(job[w])[i].kind = "out" /\ Dsl(job[w])[i].from # NoNode
              /\ IF in # NoHandle /\ in.kind = "in"
                 THEN Holds(w, i, [conn |-> in.conn, kind |-> "reuse"])
                 ELSE GoTo(w, "undo")
  BY DEF Reuse
<1>3. CASE ~GoTo(w, "undo")
  <2> DEFINE n == Dsl(job[w])[i].from
             in == byNode[<<job[w].track, job[w].flow>>][n]
             h == [conn |-> in.conn, kind |-> "reuse"]
  <2>1. in # NoHandle /\ Holds(w, i, h)
    BY <1>2, <1>3
  <2>2. /\ job[w].track \in Tracks /\ job[w].flow \in Flows /\ Dsl(job[w]) \in Dsls
        /\ i \in DOMAIN Dsl(job[w])
    BY <1>1, AtPlace, DslOfMount, NextNodeType DEF Jobs
  <2>3. n \in Nodes
    <3>1. Dsl(job[w]) \in Seq(MqttNodes)
      BY <2>2, DslsAssumption
    <3>2. Dsl(job[w])[i] \in MqttNodes
      BY <2>2, <3>1
    <3> QED
      BY <1>2, <3>2 DEF MqttNodes
  <2>4. in \in Handles
    BY <2>1, <2>2, <2>3 DEF Typed, TypeOK
  <2>5. h \in Handles /\ h.conn = in.conn /\ h.kind = "reuse"
    BY <2>4 DEF Handles
  <2> QED
    BY <1>1, <2>1, <2>3, <2>5
<1> QED
  BY <1>1, <1>3

LEMMA MountStep ==
    ASSUME Typed, Shaped, NEW w \in Workers, Connect(w) \/ Reuse(w) \/ MountFails(w)
    PROVE  Steps(w)
<1>1. CASE Connect(w)
  BY <1>1, ConnectHolds, HoldStep
<1>2. CASE Reuse(w)
  BY <1>2, ReuseHolds, HoldStep, UndoneStep DEF tableVars
<1>3. CASE MountFails(w)
  BY <1>3, UndoneStep DEF MountFails, tableVars
<1> QED
  BY <1>1, <1>2, <1>3

\* The node is registered, and the job goes on to the next.
LEMMA RegisterMoves ==
    ASSUME Typed, Shaped, NEW w \in Workers, Register(w), NEW j, j = job[w]
    PROVE  \E k : /\ Turns(w, k) /\ Moved(j, k, "mount") /\ Follows(j, k)
                  /\ k.track = j.track /\ k.next = j.next + 1 /\ k.held = NoHandle
<1>1. At(w, "register")
  BY DEF Register
<1>2. j \in Jobs /\ j.next \in Nat /\ j.next + 1 \in Nat
  BY <1>1, FlowAt DEF OnFlow, Jobs
<1>3. PICK k : k = Advanced(j) /\ Becomes(w, k)
  BY DEF Register, Advanced
<1>4. k \in Jobs
  <2>1. "mount" \in Places /\ NoHandle \in Handles \cup {NoHandle}
    BY DEF Places
  <2> QED
    BY <1>2, <1>3, <2>1, JobForms DEF Advanced
<1>5. /\ k.kind = j.kind /\ k.open = j.open /\ k.todo = j.todo /\ k.close = j.close
      /\ k.flow = j.flow /\ k.live = j.live /\ k.draft = j.draft /\ k.at = "mount"
      /\ k.track = j.track /\ k.next = j.next + 1 /\ k.held = NoHandle
  BY <1>2, <1>3 DEF Jobs, Advanced
<1>6. Moved(j, k, "mount")
  BY <1>4, <1>5 DEF Moved
<1> QED
  BY <1>3, <1>5, <1>6, BecomesTurns, MovedFollows DEF OnFlow

LEMMA RegisterStep ==
    ASSUME Typed, Shaped, NEW w \in Workers, Register(w)
    PROVE  Steps(w)
<1>1. PICK j, f : j = job[w] /\ f = j.flow
  OBVIOUS
<1>2. At(w, "register") /\ UNCHANGED <<docVars, sessionVars>>
  BY DEF Register
<1>3. /\ j \in Jobs /\ j.at = "register" /\ f \in Flows /\ f # NoFlow /\ j.track \in Tracks
      /\ Dsl(j) \in Dsls /\ j.next \in DOMAIN Dsl(j)
  BY <1>1, <1>2, FlowAt, AtPlace, DslOfMount DEF OnFlow, Jobs, Fits
<1>4. PICK k : /\ Turns(w, k) /\ Moved(j, k, "mount") /\ Follows(j, k)
               /\ k.track = j.track /\ k.next = j.next + 1
  BY <1>1, RegisterMoves
<1>5. Dsl(k) = Dsl(j) /\ \A x : Mounted(k, x) <=> Mounted(j, x)
  BY <1>4 DEF Dsl, Mounted, Moved
<1>6. byFlow' = [byFlow EXCEPT ![<<j.track, f>>] = @ \cup {Dsl(j)[j.next].id}]
  BY <1>1 DEF Register, RegisterLocked
<1>7. /\ byFlow'[<<j.track, f>>] = byFlow[<<j.track, f>>] \cup {Dsl(j)[j.next].id}
      /\ \A t \in Tracks : t # j.track => byFlow'[<<t, f>>] = byFlow[<<t, f>>]
  <2>1. <<j.track, f>> \in Tracks \X Flows
    BY <1>3
  <2>2. ASSUME NEW t \in Tracks, t # j.track PROVE byFlow'[<<t, f>>] = byFlow[<<t, f>>]
    <3>1. <<t, f>> \in Tracks \X Flows /\ <<t, f>> # <<j.track, f>>
      BY <1>3, <2>2
    <3> QED
      BY <1>6, <3>1 DEF Typed, TypeOK
  <2> QED
    BY <1>6, <2>1, <2>2 DEF Typed, TypeOK
<1>8. Mounted(j, j.next) => MountedUpTo(k) = MountedUpTo(j) \cup {Dsl(j)[j.next].id}
  <2> SUFFICES ASSUME Mounted(j, j.next)
               PROVE  MountedUpTo(k) = MountedUpTo(j) \cup {Dsl(j)[j.next].id}
    OBVIOUS
  <2>1. \A x \in DOMAIN Dsl(j) : x \in Nat
    BY <1>3, DslNodes
  <2>2. {x \in DOMAIN Dsl(k) : x < k.next /\ Mounted(k, x)}
            = {x \in DOMAIN Dsl(j) : x < j.next /\ Mounted(j, x)} \cup {j.next}
    BY <1>3, <1>4, <1>5, <2>1
  <2> QED
    BY <1>5, <2>2 DEF MountedUpTo
<1>9. Fares(j, k, f)
  <2>1. ASSUME Work(j, f), Single(f) PROVE Single(f)' /\ Work(k, f)'
    <3>1. MountedUpTo(k)' = MountedUpTo(k)
      BY DEF MountedUpTo, Dsl, Mounted
    <3>2. byFlow[<<j.track, f>>] = MountedUpTo(j) /\ Mounted(j, j.next)
      BY <1>3, <2>1 DEF Work
    <3>3. byFlow'[<<k.track, f>>] = MountedUpTo(k)
      BY <1>4, <1>7, <1>8, <3>2
    <3>4. IF k.track = "published" THEN Dra(f)' = {} ELSE Pub(f)' = {}
      BY <1>3, <1>4, <1>7, <2>1 DEF Work, Pub, Dra, Tracks
    <3>5. k.next >= 1
      BY <1>3, <1>4 DEF Jobs
    <3> QED
      BY <1>1, <1>2, <1>3, <1>4, <2>1, <3>1, <3>3, <3>4, <3>5
         DEF Work, Single, Moved, docVars, sessionVars, IsDraftOpen
  <2> QED
    BY <1>1, <1>4, <2>1, NoJobAssumption DEF Fares, Moved
<1> QED
  BY <1>1, <1>4, <1>9 DEF Steps

LEMMA UndoStep ==
    ASSUME Typed, Shaped, HandlesListed, NEW w \in Workers, Undo(w)
    PROVE  Steps(w)
<1>1. PICK j, f : j = job[w] /\ f = j.flow
  OBVIOUS
<1>2. At(w, "undo") /\ RemoveTrack(j.track, f) /\ Return(w, FALSE)
  BY <1>1 DEF Undo
<1>3. /\ f \in Flows /\ j.at = "undo"
      /\ j.track = "published" \/ j.track = "draft"
  BY <1>1, <1>2, FlowAt DEF OnFlow, Jobs, Tracks
<1>4. Work(j, f) => Single(f)' /\ Calm(f)'
  <2>1. CASE j.track = "published"
    BY <1>2, <1>3, <2>1, RemoveParts DEF Work, Single, Calm, Whole, Wanting
  <2>2. CASE j.track = "draft"
    BY <1>2, <1>3, <2>2, RemoveParts DEF Work, Single, Calm, Whole, Wanting
  <2> QED
    BY <1>3, <2>1, <2>2
<1> QED
  BY <1>1, <1>2, <1>4, Returns DEF Syncing

\* A definition that is mounted to its end is mounted whole, if it is the publication.
LEMMA MountEndsStep ==
    ASSUME Typed, Shaped, NEW w \in Workers, MountEnds(w)
    PROVE  Steps(w)
<1>1. PICK j, f : j = job[w] /\ f = j.flow
  OBVIOUS
<1>2. /\ At(w, "mount") /\ NextNode(w) = {} /\ Return(w, TRUE)
      /\ UNCHANGED <<docVars, sessionVars, tableVars>>
  BY DEF MountEnds
<1>3. f \in Flows /\ j.at = "mount" /\ j \in Jobs /\ Dsl(j) \in Dsls /\ j.track \in Tracks
  BY <1>1, <1>2, FlowAt, AtPlace, DslOfMount DEF OnFlow, Jobs
<1>4. ASSUME Work(j, f), Single(f)
      PROVE  Single(f)' /\ Calm(f)' /\ (j.track = "published" => j.live = live'[f])
  <2>1. CASE j.track = "published"
    <3>1. Dsl(j) = j.live /\ j.live = live[f] /\ Dra(f) = {} /\ Pub(f) = MountedUpTo(j)
      BY <1>3, <1>4, <2>1 DEF Dsl, Work, Pub
    <3>2. \A i \in DOMAIN Dsl(j) : i < j.next /\ Mounted(j, i)
      <4>1. \A x : Mounted(j, x)
        BY <2>1 DEF Mounted
      <4>2. Dsl(j) \in Seq(MqttNodes) /\ j.next \in Nat /\ j.next >= 1
        BY <1>3, <1>4, DslsAssumption DEF Work, Jobs
      <4>3. j.next \notin DOMAIN Dsl(j)
        BY <1>1, <1>2, <4>1, <4>2 DEF NextNode
      <4> QED
        BY <4>1, <4>2, <4>3
    <3>3. Pub(f) = {live[f][i].id : i \in DOMAIN live[f]}
      <4>1. {i \in DOMAIN Dsl(j) : i < j.next /\ Mounted(j, i)} = DOMAIN Dsl(j)
        BY <3>2
      <4> QED
        BY <3>1, <4>1 DEF MountedUpTo
    <3>4. live[f] # NoDsl
      BY <1>3, <3>1, NullsAssumption
    <3> QED
      BY <1>2, <3>1, <3>3, <3>4
         DEF Single, Calm, Whole, Wanting, Pub, Dra, docVars, sessionVars, tableVars
  <2>2. CASE j.track = "draft"
    BY <1>2, <1>3, <1>4, <2>2
       DEF Work, Single, Calm, Whole, Wanting, Pub, Dra, docVars, sessionVars, tableVars, IsDraftOpen
  <2> QED
    BY <1>3, <2>1, <2>2 DEF Tracks
<1> QED
  BY <1>1, <1>2, <1>4, Returns DEF Syncing

LEMMA StoreStep ==
    ASSUME Typed, Shaped, DocsExist, NEW w \in Workers, Store(w)
    PROVE  Steps(w)
<1>1. PICK j, f : j = job[w] /\ f = j.flow
  OBVIOUS
<1>2. At(w, "store") /\ UNCHANGED <<sessionVars, tableVars>>
  BY DEF Store
<1>3. /\ f \in Flows /\ j.at = "store" /\ j \in Jobs /\ f # NoFlow
      /\ Pub(f)' = Pub(f) /\ Dra(f)' = Dra(f) /\ openCount' = openCount
  BY <1>1, <1>2, FlowAt DEF OnFlow, Pub, Dra, sessionVars, tableVars
<1>4. ASSUME End(w), live' = live PROVE Steps(w)
  <2>1. Fares(j, NoJob, f)
    BY <1>3, <1>4 DEF Fares, Work, Calm, Whole, Wanting, Single, IsDraftOpen
  <2> QED
    BY <1>1, <1>4, <2>1, BecomesTurns DEF Steps, End
<1>5. ASSUME NEW at \in {"get", "remove"}, GoTo(w, at),
             at = "remove" => j.kind = "purge",
             at = "get" => /\ draft'[f] # NoDsl
                           /\ j.kind = "save" => live' = live
      PROVE  Steps(w)
  <2>1. PICK k : Goes(w, k, at)
    BY <1>1, <1>2, <1>5, GoingOn DEF OnFlow
  <2>2. Fares(j, k, f)
    <3>1. ASSUME Work(j, f), Single(f) PROVE Single(f)' /\ Work(k, f)'
      BY <1>1, <1>3, <1>5, <2>1, <3>1
         DEF Work, Calm, Whole, Wanting, Single, Goes, Moved, IsDraftOpen
    <3> QED
      BY <1>1, <2>1, <3>1, NoJobAssumption DEF Fares, Goes, Moved
  <2> QED
    BY <1>1, <2>1, <2>2 DEF Steps, Goes
<1>6. ASSUME NEW d \in Dsls, draft' = [draft EXCEPT ![f] = d] PROVE draft'[f] # NoDsl
  BY <1>3, <1>6, NullsAssumption DEF Typed, TypeOK
<1>7. CASE j.kind = "publish" /\ draft[f] # NoDsl /\ draft' = draft /\ GoTo(w, "get")
  BY <1>5, <1>7
<1>8. CASE j.kind = "offline" /\ live[f] # NoDsl /\ draft' = draft /\ GoTo(w, "get")
  BY <1>3, <1>5, <1>8 DEF DocsExist
<1>9. CASE /\ j.kind = "save" /\ live' = live /\ (GoTo(w, "get") \/ End(w))
           /\ \E d \in Dsls : draft' = [draft EXCEPT ![f] = d]
  BY <1>4, <1>5, <1>6, <1>9
<1>10. CASE j.kind = "purge" /\ GoTo(w, "remove")
  BY <1>5, <1>10
<1>11. CASE End(w) /\ live' = live
  BY <1>4, <1>11
<1> QED
  BY <1>1, <1>7, <1>8, <1>9, <1>10, <1>11 DEF Store, docVars

LEMMA GetStep ==
    ASSUME Typed, Shaped, NEW w \in Workers, Get(w)
    PROVE  Steps(w)
<1>1. PICK j, f : j = job[w] /\ f = j.flow
  OBVIOUS
<1>2. At(w, "get") /\ UNCHANGED <<docVars, sessionVars, tableVars>>
  BY DEF Get
<1>3. f \in Flows /\ j.at = "get" /\ j \in Jobs /\ Shape(j) /\ f # NoFlow /\ j.held = NoHandle
  BY <1>1, <1>2, FlowAt DEF OnFlow
<1>4. CASE draft[f] = NoDsl
  <2>1. End(w)
    <3>1. [j EXCEPT !.live = live[f], !.draft = draft[f]].draft = draft[f]
      BY <1>3 DEF Jobs
    <3> QED
      BY <1>1, <1>4, <3>1 DEF Get
  <2>2. Fares(j, NoJob, f)
    BY <1>3, <1>4 DEF Fares, Work
  <2> QED
    BY <1>1, <2>1, <2>2, BecomesTurns DEF Steps, End
<1>5. CASE draft[f] # NoDsl
  <2> DEFINE r == [j EXCEPT !.live = live[f], !.draft = draft[f]]
  <2>1. r.draft = draft[f] /\ r.kind = j.kind
    BY <1>3 DEF Jobs
  <2>2. Becomes(w, [r EXCEPT !.at = IF r.kind = "save" THEN "ifopen" ELSE "http"])
    BY <1>1, <1>5, <2>1 DEF Get
  <2>3. PICK at, k : /\ at = IF j.kind = "save" THEN "ifopen" ELSE "http"
                     /\ k = Read(j, live[f], draft[f], at) /\ Becomes(w, k)
    BY <2>1, <2>2 DEF Read
  <2>4. at \in Places /\ at \in OnFlow /\ at \notin {"remove", "drop"} /\ at \in {"ifopen", "http"}
    BY <2>3 DEF Places, OnFlow
  <2>5. live[f] \in Dsls \cup {NoDsl} /\ draft[f] \in Dsls \cup {NoDsl}
    BY <1>3 DEF Typed, TypeOK
  <2>6. /\ k \in Jobs /\ k.kind = j.kind /\ k.open = j.open /\ k.todo = j.todo
        /\ k.close = j.close /\ k.flow = j.flow /\ k.live = live[f] /\ k.at = at
        /\ k.held = NoHandle
    <3>1. j \in Jobs /\ j.held = NoHandle
      BY <1>3
    <3>2. k = [j EXCEPT !.live = live[f], !.draft = draft[f], !.at = at]
      BY <2>3 DEF Read
    <3>3. k \in Jobs
      BY <2>4, <2>5, <3>1, <3>2, ReadForms
    <3>4. /\ k.kind = j.kind /\ k.open = j.open /\ k.todo = j.todo /\ k.close = j.close
          /\ k.flow = j.flow /\ k.live = live[f] /\ k.at = at /\ k.held = j.held
      BY <3>1, <3>2 DEF Jobs
    <3> QED
      BY <3>1, <3>3, <3>4
  <2>7. Follows(j, k)
    BY <2>4, <2>6 DEF Follows
  <2>8. Fares(j, k, f)
    <3>1. ASSUME Work(j, f), Single(f) PROVE Single(f)' /\ Work(k, f)'
      BY <1>2, <1>3, <2>3, <2>4, <2>6, <3>1
         DEF Work, Calm, Whole, Single, Pub, Dra, docVars, tableVars
    <3> QED
      BY <1>1, <2>6, <3>1, NoJobAssumption DEF Fares
  <2> QED
    BY <1>1, <2>3, <2>7, <2>8, BecomesTurns DEF Steps
<1> QED
  BY <1>4, <1>5

LEMMA HttpSyncStep ==
    ASSUME Typed, Shaped, NEW w \in Workers, HttpSync(w)
    PROVE  Steps(w)
<1>1. PICK j, f : j = job[w] /\ f = j.flow
  OBVIOUS
<1>2. UNCHANGED <<docVars, sessionVars, tableVars>>
  BY DEF HttpSync
<1>3. f \in Flows /\ f # NoFlow
  <2>1. At(w, "http") \/ At(w, "remove")
    BY DEF HttpSync
  <2> QED
    BY <1>1, <2>1, FlowAt DEF OnFlow
<1>4. CASE At(w, "http") /\ GoTo(w, "undraft")
  <2>1. PICK k : Goes(w, k, "undraft")
    BY <1>4, GoingOn DEF OnFlow
  <2>2. Fares(j, k, f)
    <3>1. j.at = "http"
      BY <1>1, <1>4 DEF At
    <3>2. ASSUME Work(j, f), Single(f) PROVE Single(f)' /\ Work(k, f)'
      BY <1>1, <1>2, <1>3, <2>1, <3>1, <3>2
         DEF Work, Single, Goes, Moved, Pub, Dra, docVars, tableVars
    <3> QED
      BY <1>1, <2>1, <3>2, NoJobAssumption DEF Fares, Goes, Moved
  <2> QED
    BY <1>1, <2>1, <2>2 DEF Steps, Goes
<1>5. CASE ~(At(w, "http") /\ GoTo(w, "undraft"))
  <2>1. job' = [job EXCEPT ![w] = NoJob] /\ disturbed' = disturbed \cup {f}
    BY <1>1, <1>5 DEF HttpSync
  <2>2. Turns(w, NoJob) /\ Fares(j, NoJob, f)
    BY <2>1 DEF Turns, Fares
  <2> QED
    BY <1>1, <2>2 DEF Steps
<1> QED
  BY <1>4, <1>5

LEMMA RemoveStep ==
    ASSUME Typed, Shaped, HandlesListed, NEW w \in Workers, Remove(w)
    PROVE  Steps(w)
<1>1. PICK j, f : j = job[w] /\ f = j.flow
  OBVIOUS
<1>2. At(w, "remove") /\ RemoveTrack("published", f) /\ GoTo(w, "drop")
  BY <1>1 DEF Remove, GoTo
<1>3. f \in Flows /\ f # NoFlow /\ j.kind = "purge"
  BY <1>1, <1>2, FlowAt DEF OnFlow, Shape
<1>4. PICK k : Goes(w, k, "drop")
  BY <1>1, <1>2, <1>3, GoingOn DEF OnFlow
<1>5. Fares(j, k, f)
  <2>1. Single(f)' /\ Work(k, f)'
    BY <1>1, <1>2, <1>3, <1>4, RemoveParts DEF Work, Single, Whole, Goes, Moved
  <2> QED
    BY <1>1, <1>4, <2>1, NoJobAssumption DEF Fares, Goes, Moved
<1> QED
  BY <1>1, <1>4, <1>5 DEF Steps, Goes

\* The steps of a job at its flow.
AtFlow(w) == Sync(w) \/ Store(w) \/ Get(w) \/ HttpSync(w) \/ Remove(w)

LEMMA AtFlowSteps ==
    ASSUME Typed, Shaped, HandlesListed, DocsExist, NEW w \in Workers, AtFlow(w)
    PROVE  Steps(w)
  BY UndraftStep, UnmountStep, IfOpenStep, CheckStep, ReleaseStep, ClearStep, MountStep,
     RegisterStep, UndoStep, MountEndsStep, StoreStep, GetStep, HttpSyncStep, RemoveStep
     DEF AtFlow, Sync

\* A step that leaves a flow alone.
Kept(f) ==
    /\ live'[f] = live[f] /\ draft'[f] = draft[f]
    /\ IsDraftOpen(f)' <=> IsDraftOpen(f)
    /\ \A t \in Tracks : /\ byFlow'[<<t, f>>] = byFlow[<<t, f>>]
                         /\ byNode'[<<t, f>>] = byNode[<<t, f>>]
    /\ \A c \in Conns : <<c, f>> \in connected' <=> <<c, f>> \in connected

LEMMA KeptParts ==
    ASSUME NEW f, Kept(f)
    PROVE  /\ Pub(f)' = Pub(f) /\ Dra(f)' = Dra(f)
           /\ Single(f)' <=> Single(f)
           /\ Whole(f)' <=> Whole(f)
           /\ Calm(f)' <=> Calm(f)
<1>1. Pub(f)' = Pub(f) /\ Dra(f)' = Dra(f)
  BY DEF Kept, Pub, Dra, Tracks
<1> QED
  BY <1>1 DEF Kept, Single, Whole, Wanting, Calm

LEMMA WorkKept ==
    ASSUME NEW f, Kept(f), NEW j \in Jobs
    PROVE  Work(j, f) => Work(j, f)'
<1>1. MountedUpTo(j)' = MountedUpTo(j) /\ Mounted(j, j.next)' = Mounted(j, j.next)
  BY DEF MountedUpTo, Dsl, Mounted
<1>2. byFlow'[<<j.track, f>>] = byFlow[<<j.track, f>>]
  BY DEF Kept, Jobs
<1> QED
  BY <1>1, <1>2, KeptParts DEF Work, Kept

LEMMA RemoveKeeps ==
    ASSUME Typed, HandlesListed, NEW t \in Tracks, NEW g \in Flows, RemoveTrack(t, g),
           UNCHANGED <<docVars, sessionVars>>, NEW f \in Flows, f # g
    PROVE  Kept(f)
<1>1. ASSUME NEW u \in Tracks
      PROVE  byFlow'[<<u, f>>] = byFlow[<<u, f>>] /\ byNode'[<<u, f>>] = byNode[<<u, f>>]
  <2>1. <<u, f>> \in Tracks \X Flows /\ <<u, f>> # <<t, g>>
    OBVIOUS
  <2> QED
    BY <2>1 DEF RemoveTrack, Typed, TypeOK
<1>2. \A c \in Conns : <<c, f>> \in connected' <=> <<c, f>> \in connected
  BY RemoveForm
<1> QED
  BY <1>1, <1>2 DEF Kept, docVars, sessionVars, IsDraftOpen

LEMMA StillKept ==
    ASSUME UNCHANGED <<docVars, sessionVars, tableVars>>, NEW f
    PROVE  Kept(f)
  BY DEF Kept, docVars, sessionVars, tableVars, IsDraftOpen

\* The flow of a worker is the only one it changes anything about.
LEMMA AtFlowKeeps ==
    ASSUME Typed, Shaped, HandlesListed, NEW w \in Workers, AtFlow(w),
           NEW f \in Flows, f # job[w].flow
    PROVE  Kept(f)
<1>1. ASSUME NEW place \in OnFlow, At(w, place), NEW t \in Tracks, RemoveTrack(t, job[w].flow),
             UNCHANGED <<docVars, sessionVars>>
      PROVE  Kept(f)
  BY <1>1, FlowAt, RemoveKeeps
<1>2. Tracks = {"published", "draft"}
  BY DEF Tracks
<1>3. CASE \/ Undraft(w) \/ Unmount(w) \/ Release(w) \/ Clear(w) \/ Remove(w)
  <2>1. \E place \in OnFlow, t \in Tracks : At(w, place) /\ RemoveTrack(t, job[w].flow)
    BY <1>2, <1>3 DEF Undraft, Unmount, Release, Clear, Remove, OnFlow
  <2>2. UNCHANGED <<docVars, sessionVars>>
    BY <1>3 DEF Undraft, Unmount, Release, Clear, Remove
  <2> QED
    BY <1>1, <2>1, <2>2
<1>4. CASE Undo(w)
  <2>1. job[w].track \in Tracks
    BY <1>4, FlowAt DEF Undo, OnFlow, Jobs
  <2> QED
    BY <1>1, <1>4, <2>1 DEF Undo, OnFlow
<1>5. CASE \/ IfOpen(w) \/ Check(w) \/ Reuse(w) \/ MountFails(w) \/ MountEnds(w)
           \/ Get(w) \/ HttpSync(w)
  BY <1>5, StillKept DEF IfOpen, Check, Reuse, MountFails, MountEnds, Get, HttpSync
<1>6. CASE Connect(w)
  <2>1. PICK c : connected' = connected \cup {<<c, job[w].flow>>}
    BY <1>6, ConnectHolds
  <2>2. UNCHANGED <<docVars, sessionVars, byNode, byFlow>>
    BY <1>6, ConnectHolds
  <2> QED
    BY <2>1, <2>2 DEF Kept, docVars, sessionVars, IsDraftOpen
<1>7. CASE Register(w)
  <2>1. /\ job[w].track \in Tracks /\ job[w].flow \in Flows
        /\ UNCHANGED <<docVars, sessionVars, connected>>
    BY <1>7, RegisterTypes DEF Register
  <2>2. ASSUME NEW t \in Tracks
        PROVE  byFlow'[<<t, f>>] = byFlow[<<t, f>>] /\ byNode'[<<t, f>>] = byNode[<<t, f>>]
    <3>1. <<t, f>> \in Tracks \X Flows /\ <<t, f>> # <<job[w].track, job[w].flow>>
      OBVIOUS
    <3> QED
      BY <1>7, <3>1 DEF Register, RegisterLocked, Typed, TypeOK
  <2> QED
    BY <2>1, <2>2 DEF Kept, docVars, sessionVars, IsDraftOpen
<1>8. CASE Store(w)
  <2>1. job[w].flow \in Flows /\ UNCHANGED <<sessionVars, tableVars>>
    BY <1>8, FlowAt DEF Store, OnFlow
  <2>2. /\ live' = live \/ \E d : live' = [live EXCEPT ![job[w].flow] = d]
        /\ draft' = draft \/ \E d : draft' = [draft EXCEPT ![job[w].flow] = d]
    BY <1>8 DEF Store, docVars
  <2>3. live'[f] = live[f] /\ draft'[f] = draft[f]
    BY <2>2 DEF Typed, TypeOK
  <2> QED
    BY <2>1, <2>3 DEF Kept, sessionVars, tableVars, IsDraftOpen
<1> QED
  BY <1>3, <1>4, <1>5, <1>6, <1>7, <1>8 DEF AtFlow, Sync

\* What a job knows of the flows it is at work on.
Knows(j, f) ==
    /\ j.flow = f => Work(j, f)
    /\ j.at = "close" /\ f \in j.close => Whole(f)
    /\ f \in j.open => Calm(f)
    /\ \A p \in j.todo : p[1] = f => Calm(f) /\ p[2] = live[f]

\* One job at most is at work on the flow, and it knows how it stands.
Undisturbed(f) ==
    /\ Single(f)
    /\ \A u, v \in Workers : f \in Touches(job[u]) /\ f \in Touches(job[v]) => u = v
    /\ Settled(f) => Calm(f)
    /\ \A w \in Underway, j \in Jobs : j = job[w] /\ f \in Touches(j) => Knows(j, f)

FlowsKept == \A f \in Flows \ disturbed : Undisturbed(f)

\* How a step from the job j to the job k leaves a flow.
Outcome(j, k, f) ==
    /\ Single(f)'
    /\ f \in Touches(k) => Knows(k, f)'
    /\ f \notin Touches(k) /\ f \in Touches(j) => Calm(f)'
    /\ f \notin Touches(k) /\ f \notin Touches(j) => Kept(f)

Result(w) ==
    \E j, k : /\ j = job[w] /\ Turns(w, k)
              /\ k = NoJob \/ (k \in Jobs /\ Shape(k))
              /\ \A f \in Flows : f \notin disturbed' /\ Undisturbed(f) => Outcome(j, k, f)

LEMMA KnowsKept ==
    ASSUME NEW f, Kept(f), NEW j \in Jobs, Knows(j, f)
    PROVE  Knows(j, f)'
  BY KeptParts, WorkKept DEF Knows, Kept

\* A worker that takes up a flow finds it settled.
LEMMA TakesUp ==
    ASSUME Typed, NEW w \in Workers, NEW k \in Jobs, Turns(w, k), NEW f \in Flows,
           f \notin disturbed', f \in Touches(k), f \notin Touches(job[w])
    PROVE  Settled(f)
<1>1. ASSUME NEW v \in Workers, f \in Touches(job[v]) PROVE FALSE
  <2>1. v # w /\ job'[v] = job[v] /\ job'[w] = k
    BY <1>1 DEF Turns, Typed, TypeOK
  <2>2. f \in Contended(job')
    BY <1>1, <2>1 DEF Contended
  <2> QED
    BY <2>2, NoJobAssumption DEF Turns
<1> QED
  BY <1>1 DEF Settled

LEMMA FlowsFollow ==
    ASSUME Typed, FlowsKept, NEW w \in Workers, Result(w)
    PROVE  FlowsKept'
<1>1. SUFFICES ASSUME NEW f \in Flows, f \notin disturbed' PROVE Undisturbed(f)'
  BY DEF FlowsKept
<1>2. PICK j, k : /\ j = job[w] /\ Turns(w, k) /\ (k = NoJob \/ k \in Jobs)
                  /\ Undisturbed(f) => Outcome(j, k, f)
  BY <1>1 DEF Result
<1>3. Undisturbed(f) /\ Outcome(j, k, f)
  BY <1>1, <1>2 DEF FlowsKept, Turns
<1>4. /\ job'[w] = k /\ job[w] = j
      /\ \A v \in Workers \ {w} : job'[v] = job[v]
  BY <1>2 DEF Turns, Typed, TypeOK
<1>5. ASSUME NEW u \in Workers, NEW v \in Workers, f \in Touches(job'[u]), f \in Touches(job'[v])
      PROVE  u = v
  <2>1. CASE k = NoJob
    <3>1. f \notin Touches(k)
      BY <2>1 DEF Touches
    <3> QED
      BY <1>3, <1>4, <1>5, <3>1 DEF Undisturbed
  <2>2. CASE k # NoJob
    <3>1. f \notin Contended(job')
      BY <1>1, <1>2, <2>2 DEF Turns
    <3> QED
      BY <1>1, <1>5, <3>1 DEF Contended
  <2> QED
    BY <2>1, <2>2
<1>6. ASSUME NEW v \in Workers \ {w}, NEW i \in Jobs, i = job[v], f \in Touches(i)
      PROVE  Kept(f) /\ Knows(i, f)
  <2>1. f \notin Touches(j)
    BY <1>3, <1>4, <1>6 DEF Undisturbed
  <2>2. f \notin Touches(k)
    BY <1>4, <1>5, <1>6
  <2>3. v \in Underway
    BY <1>6 DEF Touches, Underway
  <2> QED
    BY <1>3, <1>6, <2>1, <2>2, <2>3 DEF Outcome, Undisturbed
<1>7. ASSUME NEW v \in Workers, NEW i \in Jobs, i = job'[v], f \in Touches(i)
      PROVE  Knows(i, f)'
  <2>1. CASE v = w
    BY <1>3, <1>4, <1>7, <2>1 DEF Outcome
  <2>2. CASE v # w
    BY <1>4, <1>6, <1>7, <2>2, KnowsKept
  <2> QED
    BY <2>1, <2>2
<1>8. Settled(f)' => Calm(f)'
  <2> SUFFICES ASSUME Settled(f)' PROVE Calm(f)'
    OBVIOUS
  <2>1. \A v \in Workers : f \notin Touches(job'[v])
    BY DEF Settled, Touches
  <2>2. f \notin Touches(k)
    BY <1>4, <2>1
  <2>3. CASE f \in Touches(j)
    BY <1>3, <2>2, <2>3 DEF Outcome
  <2>4. CASE f \notin Touches(j)
    <3>1. Settled(f)
      BY <1>4, <2>1, <2>4 DEF Settled
    <3> QED
      BY <1>3, <2>2, <2>4, <3>1, KeptParts DEF Outcome, Undisturbed
  <2> QED
    BY <2>3, <2>4
<1>9. Single(f)'
  BY <1>3 DEF Outcome
<1> QED
  BY <1>5, <1>7, <1>8, <1>9 DEF Undisturbed, Underway, Touches

----------------------------------------------------------------------------
(* What a step makes of every flow.                                        *)

\* What a job at its flow has to do with the others.
LEMMA FollowsTouches ==
    ASSUME NEW j \in Jobs, Shape(j), j.at \in OnFlow \ {"drop"}, NEW k, Follows(j, k),
           NEW f \in Flows
    PROVE  /\ j.close = {} /\ j # NoJob /\ k # NoJob
           /\ f \in Touches(j) <=> f = j.flow \/ f \in j.open \/ \E p \in j.todo : p[1] = f
           /\ f \in Touches(k) <=> f = k.flow \/ f \in j.open \/ \E p \in j.todo : p[1] = f
           /\ f = j.flow => f \notin j.open /\ \A p \in j.todo : p[1] # f
           /\ f = k.flow => f = j.flow
<1>1. f # NoFlow
  BY NullsAssumption
<1>2. j.close = {} /\ j # NoJob /\ k # NoJob
  BY NoJobAssumption DEF Follows, Shape, OnFlow
<1> QED
  BY <1>1, <1>2 DEF Touches, Follows, Shape

LEMMA AtFlowPlace ==
    ASSUME NEW w \in Workers, AtFlow(w)
    PROVE  \E place \in OnFlow \ {"drop"} : At(w, place)
  BY DEF AtFlow, Sync, Undraft, Unmount, IfOpen, Check, Release, Clear, Connect, Reuse,
         MountFails, Register, Undo, MountEnds, Store, Get, HttpSync, Remove, OnFlow

LEMMA EndTouches ==
    ASSUME NEW j \in Jobs, Shape(j), j.at \in OnFlow \ {"drop"}, NEW f \in Flows
    PROVE  /\ f \notin Touches(NoJob) /\ j.close = {}
           /\ f \in Touches(j) <=> f = j.flow \/ f \in j.open \/ \E p \in j.todo : p[1] = f
<1>1. f # NoFlow
  BY NullsAssumption
<1>2. j.close = {} /\ j # NoJob
  BY NoJobAssumption DEF Shape, OnFlow
<1> QED
  BY <1>1, <1>2 DEF Touches

LEMMA AtFlowResult ==
    ASSUME Typed, Shaped, HandlesListed, DocsExist, NEW w \in Workers, AtFlow(w)
    PROVE  Result(w)
<1>1. PICK place \in OnFlow \ {"drop"} : At(w, place)
  BY AtFlowPlace
<1>2. PICK j, k, g : /\ j = job[w] /\ g = j.flow /\ Turns(w, k)
                     /\ k = NoJob \/ Follows(j, k)
                     /\ Fares(j, k, g)
  BY AtFlowSteps DEF Steps
<1>3. j \in Jobs /\ Shape(j) /\ j.at = place /\ w \in Underway /\ g \in Flows
  BY <1>1, <1>2, FlowAt
<1>4. k = NoJob \/ (k \in Jobs /\ Shape(k))
  BY <1>1, <1>2, <1>3, ShapeFollows DEF Follows
<1>5. ASSUME NEW f \in Flows, f \notin disturbed', Undisturbed(f) PROVE Outcome(j, k, f)
  <2>1. f \in Touches(j) => Knows(j, f)
    BY <1>2, <1>3, <1>5 DEF Undisturbed
  <2>2. Single(f)
    BY <1>5 DEF Undisturbed
  <2>3. CASE f = g
    <3>1. f \in Touches(j)
      BY <1>1, <1>2, <1>3, <2>3, EndTouches
    <3>2. Work(j, f)
      BY <1>2, <2>1, <2>3, <3>1 DEF Knows
    <3>3. Single(f)' /\ IF k # NoJob /\ k.flow = f THEN Work(k, f)' ELSE Calm(f)'
      BY <1>5, <1>2, <2>2, <2>3, <3>2 DEF Fares
    <3>4. CASE k = NoJob
      BY <1>1, <1>3, <3>1, <3>3, <3>4, EndTouches DEF Outcome
    <3>5. CASE Follows(j, k)
      <4>1. /\ k # NoJob /\ k.close = {} /\ f \notin k.open /\ \A p \in k.todo : p[1] # f
            /\ f \in Touches(k) <=> f = k.flow
        BY <1>1, <1>2, <1>3, <2>3, <3>5, FollowsTouches DEF Follows
      <4>2. k.flow = f => Knows(k, f)'
        BY <3>3, <4>1 DEF Knows
      <4> QED
        BY <3>1, <3>3, <4>1, <4>2 DEF Outcome
    <3> QED
      BY <1>2, <3>4, <3>5
  <2>4. CASE f # g
    <3>1. Kept(f)
      BY <1>2, <2>4, AtFlowKeeps
    <3>2. Single(f)'
      BY <2>2, <3>1, KeptParts
    <3>3. f \in Touches(j) => Calm(f)'
      BY <1>1, <1>2, <1>3, <2>1, <2>4, <3>1, EndTouches, KeptParts DEF Knows
    <3>4. CASE k = NoJob
      BY <1>1, <1>3, <3>1, <3>2, <3>3, <3>4, EndTouches DEF Outcome
    <3>5. CASE Follows(j, k)
      <4>1. /\ f # k.flow /\ k.close = {} /\ (f \in Touches(k) <=> f \in Touches(j))
        BY <1>1, <1>2, <1>3, <2>4, <3>5, FollowsTouches DEF Follows
      <4>2. k.open = j.open /\ k.todo = j.todo /\ k \in Jobs
        BY <3>5 DEF Follows
      <4>3. f \in Touches(j) => Knows(k, f)
        BY <2>1, <4>1, <4>2 DEF Knows
      <4>4. f \in Touches(k) => Knows(k, f)'
        BY <3>1, <4>1, <4>2, <4>3, KnowsKept
      <4> QED
        BY <3>1, <3>2, <3>3, <4>4 DEF Outcome
    <3> QED
      BY <1>2, <3>4, <3>5
  <2> QED
    BY <2>3, <2>4
<1> QED
  BY <1>2, <1>4, <1>5 DEF Result

\* A worker that takes up a flow finds it calm.
LEMMA TakesUpCalm ==
    ASSUME Typed, NEW w \in Workers, NEW k \in Jobs, Turns(w, k), NEW f \in Flows,
           f \notin disturbed', Undisturbed(f), f \in Touches(k), f \notin Touches(job[w])
    PROVE  Calm(f)
  BY TakesUp DEF Undisturbed

\* A step of an editor session that changes neither documents nor counts nor tables.
LEMMA QuietResult ==
    ASSUME Typed, NEW w \in Workers, NEW j, j = job[w], NEW k, Turns(w, k),
           k = NoJob \/ (k \in Jobs /\ Shape(k)),
           UNCHANGED <<docVars, sessionVars, tableVars>>,
           \A f \in Flows :
               f \notin disturbed' /\ Undisturbed(f) =>
                   /\ f \in Touches(k) => Knows(k, f)
                   /\ f \notin Touches(k) /\ f \in Touches(j) => Calm(f)
    PROVE  Result(w)
<1>1. ASSUME NEW f \in Flows, f \notin disturbed', Undisturbed(f) PROVE Outcome(j, k, f)
  <2>1. Kept(f)
    BY StillKept
  <2>2. Single(f)'
    BY <1>1, <2>1, KeptParts DEF Undisturbed
  <2>3. ASSUME f \in Touches(k) PROVE Knows(k, f)'
    <3>1. k \in Jobs
      BY <2>3 DEF Touches
    <3> QED
      BY <1>1, <2>1, <2>3, <3>1, KnowsKept
  <2>4. f \notin Touches(k) /\ f \in Touches(j) => Calm(f)'
    BY <1>1, <2>1, KeptParts
  <2> QED
    BY <2>1, <2>2, <2>3, <2>4 DEF Outcome
<1> QED
  BY <1>1 DEF Result

\* A worker at a place of a session.
LEMMA SessionAt ==
    ASSUME Typed, Shaped, NEW w \in Workers, NEW place \in {"close", "open", "list", "sweep"},
           At(w, place)
    PROVE  /\ job[w] \in Jobs /\ job[w].at = place /\ Shape(job[w]) /\ w \in Underway
           /\ job[w] # NoJob /\ job[w].flow = NoFlow /\ job[w].held = NoHandle
           /\ \A f \in Flows : f # NoFlow
  BY ShapeAt, NullsAssumption DEF Shape, OnFlow

LEMMA HandleResult ==
    ASSUME Typed, NEW w \in Workers, Handle(w)
    PROVE  Result(w)
<1>1. PICK g \in Flows, kind \in {"publish", "offline", "save", "purge"} :
          Begin(w, Idle(kind, "store", g, NoSession))
  BY DEF Handle
<1> DEFINE k == Idle(kind, "store", g, NoSession)
<1>2. k \in Jobs
  BY IdleForms DEF Kinds, Places
<1>3. /\ k.kind = kind /\ k.at = "store" /\ k.flow = g /\ k.close = {} /\ k.open = {}
      /\ k.todo = {} /\ k.held = NoHandle
  BY DEF Idle
<1>4. Becomes(w, k) /\ job[w] = NoJob /\ UNCHANGED <<docVars, sessionVars, tableVars>>
  BY <1>1 DEF Begin, Handle
<1> HIDE DEF k
<1>5. Turns(w, k)
  BY <1>4, BecomesTurns
<1>6. Shape(k)
  BY <1>3 DEF Shape, OnFlow
<1>7. ASSUME NEW f \in Flows, f \notin disturbed', Undisturbed(f), f \in Touches(k)
      PROVE  Knows(k, f)
  <2>1. f \notin Touches(job[w])
    BY <1>4 DEF Touches
  <2>2. Calm(f)
    BY <1>2, <1>5, <1>7, <2>1, TakesUpCalm
  <2>3. Work(k, f)
    BY <1>3, <2>2 DEF Work
  <2> QED
    BY <1>3, <2>3 DEF Knows
<1>8. \A f \in Flows : f \notin Touches(job[w])
  BY <1>4 DEF Touches
<1> QED
  BY <1>2, <1>4, <1>5, <1>6, <1>7, <1>8, QuietResult

LEMMA CloseEndsResult ==
    ASSUME Typed, Shaped, NEW w \in Workers, CloseEnds(w)
    PROVE  Result(w)
<1>1. PICK j : j = job[w]
  OBVIOUS
<1>2. PICK at \in {"open", "list"} : GoTo(w, at) /\ (at = "list" <=> j.kind # "edit")
  BY <1>1 DEF CloseEnds
<1>3. /\ At(w, "close") /\ j.close = {} /\ UNCHANGED <<docVars, sessionVars, tableVars>>
  BY <1>1 DEF CloseEnds
<1>4. j \in Jobs /\ j.at = "close" /\ Shape(j) /\ w \in Underway /\ j # NoJob
  BY <1>1, <1>3, SessionAt
<1>5. \A f \in Flows : f # NoFlow
  BY NullsAssumption
<1> DEFINE k == [j EXCEPT !.at = at]
<1>6. k \in Jobs
  BY <1>4, JobForms DEF Places
<1>7. /\ k.kind = j.kind /\ k.at = at /\ k.flow = j.flow /\ k.close = {} /\ k.open = j.open
      /\ k.todo = j.todo /\ k.held = j.held
  BY <1>3, <1>4 DEF Jobs
<1>8. Becomes(w, k)
  BY <1>1, <1>2 DEF GoTo
<1> HIDE DEF k
<1>9. Turns(w, k)
  BY <1>8, BecomesTurns
<1>10. j.flow = NoFlow /\ j.held = NoHandle
  BY <1>4 DEF Shape, OnFlow
<1>11. Shape(k)
  BY <1>2, <1>4, <1>7, <1>10 DEF Shape, OnFlow
<1>12. \A f \in Flows : f \in Touches(k) <=> f \in Touches(j)
  BY <1>2, <1>3, <1>4, <1>6, <1>7, NoJobAssumption DEF Touches
<1>13. ASSUME NEW f \in Flows, Undisturbed(f), f \in Touches(k) PROVE Knows(k, f)
  <2>1. Knows(j, f)
    BY <1>1, <1>4, <1>12, <1>13 DEF Undisturbed
  <2> QED
    BY <1>5, <1>7, <1>10, <2>1 DEF Knows
<1> QED
  BY <1>1, <1>3, <1>6, <1>9, <1>11, <1>12, <1>13, QuietResult

LEMMA OpenEndsResult ==
    ASSUME Typed, Shaped, NEW w \in Workers, OpenEnds(w)
    PROVE  Result(w)
<1>1. PICK j : j = job[w]
  OBVIOUS
<1>2. /\ At(w, "open") /\ j.open = {} /\ j.todo = {} /\ GoTo(w, "list")
      /\ UNCHANGED <<docVars, sessionVars, tableVars>>
  BY <1>1 DEF OpenEnds
<1>3. /\ j \in Jobs /\ j.at = "open" /\ Shape(j) /\ j # NoJob /\ j.flow = NoFlow
      /\ j.held = NoHandle /\ \A f \in Flows : f # NoFlow
  BY <1>1, <1>2, SessionAt
<1> DEFINE k == [j EXCEPT !.at = "list"]
<1>4. k \in Jobs
  BY <1>3, JobForms DEF Places
<1>5. /\ k.kind = j.kind /\ k.at = "list" /\ k.flow = NoFlow /\ k.close = j.close /\ k.open = {}
      /\ k.todo = {} /\ k.held = NoHandle
  BY <1>2, <1>3 DEF Jobs
<1>6. Becomes(w, k)
  BY <1>1, <1>2 DEF GoTo
<1> HIDE DEF k
<1>7. Turns(w, k)
  BY <1>6, BecomesTurns
<1>8. j.close = {}
  BY <1>3 DEF Shape
<1>9. Shape(k)
  BY <1>5, <1>8 DEF Shape, OnFlow
<1>10. \A f \in Flows : f \notin Touches(k) /\ f \notin Touches(j)
  BY <1>2, <1>3, <1>5, <1>8 DEF Touches
<1> QED
  BY <1>1, <1>2, <1>4, <1>7, <1>9, <1>10, QuietResult

LEMMA ListDraftsResult ==
    ASSUME Typed, Shaped, NEW w \in Workers, ListDrafts(w)
    PROVE  Result(w)
<1>1. PICK j : j = job[w]
  OBVIOUS
<1>0. PICK drafts : drafts = {f \in Flows : byFlow[<<"draft", f>>] # {}}
  OBVIOUS
<1> DEFINE k == [j EXCEPT !.at = "sweep", !.close = drafts]
<1>2. /\ At(w, "list") /\ Becomes(w, k) /\ UNCHANGED <<docVars, sessionVars, tableVars>>
  BY <1>0, <1>1 DEF ListDrafts
<1>3. /\ j \in Jobs /\ j.at = "list" /\ Shape(j) /\ j # NoJob /\ j.flow = NoFlow
      /\ j.held = NoHandle /\ \A f \in Flows : f # NoFlow
  BY <1>1, <1>2, SessionAt
<1>4. k \in Jobs
  <2>1. "sweep" \in Places
    BY DEF Places
  <2>2. drafts \in SUBSET Flows
    BY <1>0
  <2>3. j \in Jobs
    BY <1>3
  <2> QED
    BY <2>1, <2>2, <2>3 DEF Jobs
<1>5. /\ k.kind = j.kind /\ k.at = "sweep" /\ k.flow = NoFlow /\ k.open = j.open
      /\ k.todo = j.todo /\ k.held = NoHandle
  BY <1>3 DEF Jobs
<1> HIDE DEF k
<1>6. Turns(w, k)
  BY <1>2, BecomesTurns
<1>7. j.open = {} /\ j.todo = {} /\ j.close = {}
  BY <1>3 DEF Shape
<1>8. Shape(k)
  BY <1>5, <1>7 DEF Shape, OnFlow
<1>9. \A f \in Flows : f \notin Touches(k) /\ f \notin Touches(j)
  BY <1>3, <1>5, <1>7 DEF Touches
<1> QED
  BY <1>1, <1>2, <1>4, <1>6, <1>8, <1>9, QuietResult

LEMMA SweepEndsResult ==
    ASSUME Typed, Shaped, NEW w \in Workers, SweepEnds(w)
    PROVE  Result(w)
<1>1. PICK j : j = job[w]
  OBVIOUS
<1>2. /\ At(w, "sweep") /\ Becomes(w, NoJob) /\ UNCHANGED <<docVars, sessionVars, tableVars>>
  BY DEF SweepEnds, End
<1>3. /\ j \in Jobs /\ j.at = "sweep" /\ Shape(j) /\ j # NoJob /\ j.flow = NoFlow
      /\ \A f \in Flows : f # NoFlow
  BY <1>1, <1>2, SessionAt
<1>4. \A f \in Flows : f \notin Touches(NoJob) /\ f \notin Touches(j)
  BY <1>3 DEF Touches, Shape
<1>5. Turns(w, NoJob)
  BY <1>2, BecomesTurns
<1> QED
  BY <1>1, <1>2, <1>4, <1>5, QuietResult

LEMMA SweepResult ==
    ASSUME Typed, Shaped, NEW w \in Workers, Sweep(w)
    PROVE  Result(w)
<1>1. PICK j : j = job[w]
  OBVIOUS
<1>2. PICK g \in j.close :
          Becomes(w, IF IsDraftOpen(g) THEN [j EXCEPT !.close = @ \ {g}]
                     ELSE [[j EXCEPT !.close = @ \ {g}] EXCEPT !.at = "drop", !.flow = g])
  BY <1>1 DEF Sweep
<1>3. At(w, "sweep") /\ UNCHANGED <<docVars, sessionVars, tableVars>>
  BY DEF Sweep
<1>4. /\ j \in Jobs /\ j.at = "sweep" /\ Shape(j) /\ j # NoJob /\ j.flow = NoFlow
      /\ j.held = NoHandle /\ \A f \in Flows : f # NoFlow
  BY <1>1, <1>3, SessionAt
<1>5. g \in Flows /\ j.open = {} /\ j.todo = {}
  BY <1>2, <1>4 DEF Jobs, Shape
<1>6. \A f \in Flows : f \notin Touches(j)
  BY <1>4, <1>5 DEF Touches
<1> DEFINE k == [j EXCEPT !.close = @ \ {g}]
           l == [k EXCEPT !.at = "drop", !.flow = g]
<1>7. /\ k \in Jobs /\ k.kind = j.kind /\ k.at = "sweep" /\ k.flow = NoFlow /\ k.open = {}
      /\ k.todo = {} /\ k.held = NoHandle
  BY <1>4, <1>5 DEF Jobs
<1>8. CASE IsDraftOpen(g)
  <2>1. Becomes(w, k)
    BY <1>2, <1>8
  <2> HIDE DEF k
  <2>2. Turns(w, k)
    BY <2>1, BecomesTurns
  <2>3. Shape(k)
    BY <1>7 DEF Shape, OnFlow
  <2>4. \A f \in Flows : f \notin Touches(k)
    BY <1>4, <1>7 DEF Touches
  <2> QED
    BY <1>1, <1>3, <1>6, <1>7, <2>2, <2>3, <2>4, QuietResult
<1>9. CASE ~IsDraftOpen(g)
  <2>1. Becomes(w, l)
    BY <1>2, <1>9
  <2> HIDE DEF k
  <2>2. /\ l \in Jobs /\ l.kind = j.kind /\ l.at = "drop" /\ l.flow = g /\ l.open = {}
        /\ l.todo = {} /\ l.held = NoHandle
    <3>1. "drop" \in Places
      BY DEF Places
    <3>2. l \in Jobs
      BY <1>5, <1>7, <3>1, FlowForms
    <3>3. /\ l.kind = k.kind /\ l.at = "drop" /\ l.flow = g /\ l.open = k.open
          /\ l.todo = k.todo /\ l.held = k.held
      BY <1>7 DEF Jobs
    <3> QED
      BY <1>7, <3>2, <3>3
  <2> HIDE DEF l
  <2>3. Turns(w, l)
    BY <2>1, BecomesTurns
  <2>4. Shape(l)
    BY <1>5, <2>2 DEF Shape, OnFlow
  <2>5. ASSUME NEW f \in Flows, f \notin disturbed', Undisturbed(f), f \in Touches(l)
        PROVE  Knows(l, f)
    <3>1. Calm(f)
      BY <1>1, <1>6, <2>2, <2>3, <2>5, TakesUpCalm
    <3>2. Work(l, f)
      BY <2>2, <3>1 DEF Work, Calm
    <3> QED
      BY <2>2, <3>2 DEF Knows
  <2> QED
    BY <1>1, <1>3, <1>6, <2>2, <2>3, <2>4, <2>5, QuietResult
<1> QED
  BY <1>8, <1>9

LEMMA BootResult ==
    ASSUME Typed, Shaped, NEW w \in Workers, Boot(w)
    PROVE  Result(w)
<1>1. PICK j : j = job[w]
  OBVIOUS
<1>2. PICK p \in j.todo :
          Becomes(w, [j EXCEPT !.todo = @ \ {p}, !.at = "undraft", !.flow = p[1], !.live = p[2]])
  BY <1>1 DEF Boot
<1>3. At(w, "open") /\ UNCHANGED <<docVars, sessionVars, tableVars>>
  BY DEF Boot
<1>4. /\ j \in Jobs /\ j.at = "open" /\ Shape(j) /\ j # NoJob /\ j.flow = NoFlow
      /\ j.held = NoHandle /\ w \in Underway /\ \A f \in Flows : f # NoFlow
  BY <1>1, <1>3, SessionAt
<1>5. /\ j.open = {} /\ j.close = {} /\ p \in Flows \X Dsls /\ p[1] \in Flows /\ p[2] \in Dsls
      /\ j.kind \notin {"leave", "purge"}
  BY <1>2, <1>4 DEF Jobs, Shape
<1> DEFINE k == [j EXCEPT !.todo = @ \ {p}, !.at = "undraft", !.flow = p[1], !.live = p[2]]
<1>6. k \in Jobs
  BY <1>4, <1>5 DEF Jobs, Places
<1>7. /\ k.kind = j.kind /\ k.at = "undraft" /\ k.flow = p[1] /\ k.open = {} /\ k.close = {}
      /\ k.todo = j.todo \ {p} /\ k.held = NoHandle /\ k.live = p[2]
  BY <1>4, <1>5 DEF Jobs
<1>8. Becomes(w, k)
  BY <1>2
<1> HIDE DEF k
<1>9. Turns(w, k)
  BY <1>8, BecomesTurns
<1>10. \A q \in k.todo : q[1] # p[1]
  BY <1>2, <1>4, <1>7 DEF Shape
<1>11. Shape(k)
  BY <1>4, <1>5, <1>7, <1>10 DEF Shape, OnFlow
<1>12. \A f \in Flows : f \in Touches(k) <=> f \in Touches(j)
  BY <1>2, <1>4, <1>5, <1>6, <1>7, NoJobAssumption DEF Touches
<1>13. ASSUME NEW f \in Flows, Undisturbed(f), f \in Touches(k) PROVE Knows(k, f)
  <2>1. Knows(j, f)
    BY <1>1, <1>4, <1>12, <1>13 DEF Undisturbed
  <2>2. f = p[1] => Calm(f) /\ p[2] = live[f]
    BY <1>2, <2>1 DEF Knows
  <2>3. k.flow = f => Work(k, f)
    BY <1>7, <2>2 DEF Work
  <2> QED
    BY <1>7, <2>1, <2>3 DEF Knows
<1> QED
  BY <1>1, <1>3, <1>6, <1>9, <1>11, <1>12, <1>13, QuietResult

LEMMA OpenResult ==
    ASSUME Typed, Shaped, NEW w \in Workers, Open(w)
    PROVE  Result(w)
<1>1. PICK j : j = job[w]
  OBVIOUS
<1> DEFINE k(g) == [j EXCEPT !.open = @ \ {g}]
           l(g) == [k(g) EXCEPT !.at = "check", !.flow = g, !.live = live[g], !.draft = draft[g]]
<1>2. PICK g \in j.open : Becomes(w, IF draft[g] = NoDsl THEN k(g) ELSE l(g))
  BY <1>1, Zenon DEF Open
<1>3. At(w, "open") /\ UNCHANGED <<docVars, sessionVars, tableVars>>
  BY DEF Open
<1>4. /\ j \in Jobs /\ j.at = "open" /\ Shape(j) /\ j # NoJob /\ j.flow = NoFlow
      /\ j.held = NoHandle /\ w \in Underway /\ \A f \in Flows : f # NoFlow
  BY <1>1, <1>3, SessionAt
<1>5. /\ j.todo = {} /\ j.close = {} /\ g \in Flows /\ j.kind \notin {"leave", "purge"}
  BY <1>2, <1>4 DEF Jobs, Shape
<1>6. \A f \in Flows : f \in Touches(j) <=> f \in j.open
  BY <1>4, <1>5 DEF Touches
<1>7. \A f \in Flows : Undisturbed(f) /\ f \in j.open => Calm(f)
  BY <1>1, <1>4, <1>6 DEF Undisturbed, Knows
<1>8. /\ k(g) \in Jobs /\ k(g).kind = j.kind /\ k(g).at = "open" /\ k(g).flow = NoFlow
      /\ k(g).open = j.open \ {g} /\ k(g).todo = {} /\ k(g).close = {} /\ k(g).held = NoHandle
  BY <1>4, <1>5 DEF Jobs
<1>9. CASE draft[g] = NoDsl
  <2>1. PICK i : i = k(g)
    OBVIOUS
  <2>2. Turns(w, i)
    BY <1>2, <1>9, <2>1, BecomesTurns
  <2>3. i \in Jobs /\ Shape(i)
    BY <1>4, <1>5, <1>8, <2>1 DEF Shape, OnFlow
  <2> HIDE DEF k
  <2>4. \A f \in Flows : f \in Touches(i) <=> f \in j.open \ {g}
    BY <1>4, <1>8, <2>1, <2>3, NoJobAssumption DEF Touches
  <2>5. \A f \in Flows : Undisturbed(f) /\ f \in j.open \ {g} => Knows(i, f)
    BY <1>4, <1>7, <1>8, <2>1 DEF Knows
  <2> QED
    BY <1>1, <1>3, <1>6, <1>7, <2>2, <2>3, <2>4, <2>5, QuietResult
<1>10. CASE draft[g] # NoDsl
  <2>1. PICK i : i = l(g)
    OBVIOUS
  <2>2. Turns(w, i)
    BY <1>2, <1>10, <2>1, BecomesTurns
  <2>3. live[g] \in Dsls \cup {NoDsl} /\ draft[g] \in Dsls \cup {NoDsl}
    BY <1>5 DEF Typed, TypeOK
  <2>4. /\ i \in Jobs /\ i.kind = j.kind /\ i.at = "check" /\ i.flow = g
        /\ i.open = j.open \ {g} /\ i.todo = {} /\ i.close = {} /\ i.held = NoHandle
        /\ i.live = live[g]
    <3> HIDE DEF k
    <3> QED
      BY <1>5, <1>8, <2>1, <2>3 DEF Jobs, Places
  <2>5. Shape(i)
    BY <1>4, <1>5, <2>4 DEF Shape, OnFlow
  <2> HIDE DEF k, l
  <2>6. \A f \in Flows : f \in Touches(i) <=> f \in j.open
    BY <1>2, <1>4, <2>4, NoJobAssumption DEF Touches
  <2>7. ASSUME NEW f \in Flows, Undisturbed(f), f \in j.open PROVE Knows(i, f)
    <3>1. Calm(f)
      BY <1>7, <2>7
    <3>2. f = g => Work(i, f)
      BY <2>4, <3>1 DEF Work, Calm
    <3> QED
      BY <2>4, <3>1, <3>2 DEF Knows
  <2> QED
    BY <1>1, <1>3, <1>6, <1>7, <2>2, <2>4, <2>5, <2>6, <2>7, QuietResult
<1> QED
  BY <1>9, <1>10

\* The draft connections of a flow whose publication is whole go: the flow is calm.
LEMMA UndraftedCalm ==
    ASSUME Typed, HandlesListed, NEW f \in Flows, RemoveTrack("draft", f),
           UNCHANGED <<docVars, sessionVars>>
    PROVE  Single(f)' /\ (Whole(f) => Calm(f)')
<1>1. Dra(f)' = {} /\ Pub(f)' = Pub(f) /\ live' = live
  BY RemoveParts DEF docVars
<1> QED
  BY <1>1 DEF Single, Calm, Whole, Wanting

LEMMA DropResult ==
    ASSUME Typed, Shaped, HandlesListed, NEW w \in Workers, Drop(w)
    PROVE  Result(w)
<1>1. PICK j : j = job[w]
  OBVIOUS
<1>2. PICK g : g = j.flow
  OBVIOUS
<1>3. /\ At(w, "drop") /\ RemoveTrack("draft", g) /\ UNCHANGED <<docVars, sessionVars>>
      /\ \/ Becomes(w, NoJob)
         \/ Becomes(w, [j EXCEPT !.at = "sweep", !.flow = NoFlow, !.live = NoDsl, !.draft = NoDsl])
  BY <1>1, <1>2 DEF Drop, End, Loop
<1>4. j \in Jobs /\ j.at = "drop" /\ Shape(j) /\ g \in Flows /\ w \in Underway /\ j # NoJob
  BY <1>1, <1>2, <1>3, FlowAt DEF OnFlow
<1>5. \A f \in Flows : f # NoFlow
  BY NullsAssumption
<1>6. j.open = {} /\ j.todo = {} /\ j.held = NoHandle
  BY <1>4 DEF Shape
<1>7. \A f \in Flows : f \in Touches(j) <=> f = g
  BY <1>2, <1>4, <1>5, <1>6 DEF Touches
<1>8. PICK k : /\ Turns(w, k)
               /\ k = NoJob \/ (k \in Jobs /\ Shape(k))
               /\ \A f \in Flows : f \notin Touches(k)
  <2> DEFINE l == [j EXCEPT !.at = "sweep", !.flow = NoFlow, !.live = NoDsl, !.draft = NoDsl]
  <2>1. CASE Becomes(w, NoJob)
    BY <2>1, BecomesTurns DEF Touches
  <2>2. CASE Becomes(w, l)
    <3>1. l \in Jobs
      BY <1>4, LoopForms DEF Places
    <3>2. /\ l.kind = j.kind /\ l.at = "sweep" /\ l.flow = NoFlow /\ l.open = {} /\ l.todo = {}
          /\ l.held = NoHandle
      BY <1>4, <1>6 DEF Jobs
    <3> HIDE DEF l
    <3>3. Shape(l)
      BY <3>2 DEF Shape, OnFlow
    <3>4. \A f \in Flows : f \notin Touches(l)
      BY <1>5, <3>2 DEF Touches
    <3> QED
      BY <2>2, <3>1, <3>3, <3>4, BecomesTurns
  <2> QED
    BY <1>3, <2>1, <2>2
<1>9. ASSUME NEW f \in Flows, Undisturbed(f) PROVE Outcome(j, k, f)
  <2>1. CASE f = g
    <3>1. Whole(f)
      BY <1>1, <1>2, <1>4, <1>7, <1>9, <2>1 DEF Undisturbed, Knows, Work
    <3>2. Single(f)' /\ Calm(f)'
      BY <1>3, <2>1, <3>1, UndraftedCalm
    <3> QED
      BY <1>7, <1>8, <2>1, <3>2 DEF Outcome
  <2>2. CASE f # g
    <3>1. Kept(f)
      BY <1>3, <1>4, <2>2, RemoveKeeps DEF Tracks
    <3>2. Single(f)'
      BY <1>9, <3>1, KeptParts DEF Undisturbed
    <3> QED
      BY <1>7, <1>8, <2>2, <3>1, <3>2 DEF Outcome
  <2> QED
    BY <2>1, <2>2
<1> QED
  BY <1>1, <1>8, <1>9 DEF Result

LEMMA CloseResult ==
    ASSUME Typed, Shaped, HandlesListed, NEW w \in Workers, Close(w)
    PROVE  Result(w)
<1>1. PICK j : j = job[w]
  OBVIOUS
<1>2. PICK g \in j.close : RemoveTrack("draft", g) /\ Becomes(w, [j EXCEPT !.close = @ \ {g}])
  BY <1>1 DEF Close
<1>3. At(w, "close") /\ UNCHANGED <<docVars, sessionVars>>
  BY DEF Close
<1>4. /\ j \in Jobs /\ j.at = "close" /\ Shape(j) /\ j # NoJob /\ j.flow = NoFlow
      /\ w \in Underway /\ \A f \in Flows : f # NoFlow
  BY <1>1, <1>3, SessionAt
<1>5. g \in Flows
  BY <1>2, <1>4 DEF Jobs
<1> DEFINE k == [j EXCEPT !.close = @ \ {g}]
<1>6. /\ k \in Jobs /\ k.kind = j.kind /\ k.at = "close" /\ k.flow = NoFlow
      /\ k.close = j.close \ {g} /\ k.open = j.open /\ k.todo = j.todo /\ k.held = j.held
  BY <1>4 DEF Jobs
<1>7. Becomes(w, k)
  BY <1>2
<1> HIDE DEF k
<1>8. Turns(w, k)
  BY <1>7, BecomesTurns
<1>9. Shape(k)
  BY <1>4, <1>6 DEF Shape
<1>10. ASSUME NEW f \in Flows
       PROVE  /\ f \in Touches(j) <=> f \in j.close \/ f \in j.open \/ \E p \in j.todo : p[1] = f
              /\ f \in Touches(k) <=> \/ f \in j.close \ {g} \/ f \in j.open
                                      \/ \E p \in j.todo : p[1] = f
  BY <1>4, <1>6, NoJobAssumption DEF Touches
<1>11. ASSUME NEW f \in Flows, Undisturbed(f) PROVE Outcome(j, k, f)
  <2>1. f \in Touches(j) => Knows(j, f)
    BY <1>1, <1>4, <1>11 DEF Undisturbed
  <2>2. CASE f = g
    <3>1. f \in Touches(j)
      BY <1>2, <1>10, <2>2
    <3>2. Whole(f)
      BY <1>2, <1>4, <2>1, <2>2, <3>1 DEF Knows
    <3>3. Single(f)' /\ Calm(f)'
      BY <1>2, <1>3, <2>2, <3>2, UndraftedCalm
    <3>4. live' = live
      BY <1>3 DEF docVars
    <3>5. Knows(k, f)'
      BY <1>4, <1>6, <2>1, <2>2, <3>1, <3>3, <3>4 DEF Knows
    <3> QED
      BY <3>1, <3>3, <3>5 DEF Outcome
  <2>3. CASE f # g
    <3>1. Kept(f)
      BY <1>2, <1>3, <1>5, <2>3, RemoveKeeps DEF Tracks
    <3>2. Single(f)'
      BY <1>11, <3>1, KeptParts DEF Undisturbed
    <3>3. f \in Touches(j) <=> f \in Touches(k)
      BY <1>10, <2>3
    <3>4. ASSUME f \in Touches(k) PROVE Knows(k, f)'
      <4>1. Knows(k, f)
        BY <1>4, <1>6, <2>1, <2>3, <3>3, <3>4 DEF Knows
      <4> QED
        BY <1>6, <3>1, <4>1, KnowsKept
    <3> QED
      BY <3>1, <3>2, <3>3, <3>4 DEF Outcome
  <2> QED
    BY <2>2, <2>3
<1> QED
  BY <1>1, <1>6, <1>8, <1>9, <1>11 DEF Result

\* A session whose open flows change: the flows it takes up and those it lets go are its own
\* from there on, and the others stay as open as they were.
LEMMA CountsResult ==
    ASSUME Typed, NEW w \in Workers, job[w] = NoJob, NEW k \in Jobs, Becomes(w, k), Shape(k),
           k.at = "close", k.flow = NoFlow, k.todo = {}, UNCHANGED <<docVars, tableVars>>,
           \A f \in Flows :
               /\ f \in k.open => IsDraftOpen(f)'
               /\ f \notin k.open \cup k.close => (IsDraftOpen(f)' <=> IsDraftOpen(f))
    PROVE  Result(w)
<1>1. PICK j : j = job[w]
  OBVIOUS
<1>2. Turns(w, k)
  BY BecomesTurns
<1>3. \A f \in Flows : /\ f \notin Touches(j) /\ f # NoFlow
                       /\ f \in Touches(k) <=> f \in k.open \cup k.close
  BY <1>1, NullsAssumption, NoJobAssumption DEF Touches
<1>4. ASSUME NEW f \in Flows, f \notin disturbed', Undisturbed(f) PROVE Outcome(j, k, f)
  <2>1. live' = live /\ Pub(f)' = Pub(f) /\ Dra(f)' = Dra(f)
    BY DEF docVars, tableVars, Pub, Dra
  <2>2. Single(f)' /\ (Whole(f)' <=> Whole(f))
    BY <1>4, <2>1 DEF Undisturbed, Single, Whole
  <2>3. ASSUME f \in Touches(k) PROVE Knows(k, f)'
    <3>1. Calm(f)
      BY <1>1, <1>2, <1>3, <1>4, <2>3, TakesUpCalm
    <3>2. Whole(f)'
      BY <2>2, <3>1 DEF Calm
    <3>3. f \in k.open => Calm(f)'
      BY <2>1, <3>1, <3>2 DEF Calm, Wanting
    <3> QED
      BY <1>3, <3>2, <3>3 DEF Knows
  <2>4. f \notin Touches(k) => Kept(f)
    BY <1>3 DEF Kept, docVars, tableVars
  <2> QED
    BY <1>3, <2>2, <2>3, <2>4 DEF Outcome
<1> QED
  BY <1>1, <1>2, <1>4 DEF Result

LEMMA UpdateResult ==
    ASSUME Typed, NEW w \in Workers, NEW s \in Sessions, UpdateSessionOpenFlows(w, s)
    PROVE  Result(w)
<1>1. PICK ids :
          LET wanted == {f \in Flows : Wanted(ids, f) > 0}
              diff == Diff(sessions[s], wanted)
          IN  /\ openCount' = [f \in Flows |-> IF f \in diff.added
                                               THEN openCount[f] + Wanted(ids, f)
                                               ELSE IF f \in diff.removed THEN Fewer(f)
                                               ELSE openCount[f]]
              /\ Begin(w, [Idle("edit", "close", NoFlow, s) EXCEPT
                              !.close = {f \in diff.removed : openCount'[f] = 0},
                              !.open = {f \in diff.added : openCount'[f] = 1}])
              /\ UNCHANGED <<docVars, tableVars>>
  BY DEF UpdateSessionOpenFlows
<1> DEFINE wanted == {f \in Flows : Wanted(ids, f) > 0}
           diff == Diff(sessions[s], wanted)
<1>9. \A f \in Flows : f \in diff.added => Wanted(ids, f) = 1
  BY DEF Diff, Wanted
<1>2. diff.added \subseteq Flows /\ diff.removed \subseteq Flows
  BY <1>1 DEF Diff, Typed, TypeOK
<1>3. PICK closed \in SUBSET Flows, opened \in SUBSET Flows :
          /\ closed = {f \in diff.removed : openCount'[f] = 0}
          /\ opened = {f \in diff.added : openCount'[f] = 1}
  BY <1>2
<1> HIDE DEF wanted, diff
<1> DEFINE k == [Idle("edit", "close", NoFlow, s) EXCEPT !.close = closed, !.open = opened]
<1>4. k \in Jobs
  BY IdleForms DEF Kinds, Places
<1>5. /\ k.kind = "edit" /\ k.at = "close" /\ k.flow = NoFlow /\ k.close = closed
      /\ k.open = opened /\ k.todo = {} /\ k.held = NoHandle
  BY DEF Idle
<1>6. Becomes(w, k) /\ job[w] = NoJob
  BY <1>1, <1>3 DEF Begin, wanted, diff
<1> HIDE DEF k
<1>7. Shape(k)
  BY <1>3, <1>5, NullsAssumption DEF Shape, OnFlow
<1>8. ASSUME NEW f \in Flows
      PROVE  /\ f \in opened => IsDraftOpen(f)'
             /\ f \notin opened \cup closed => (IsDraftOpen(f)' <=> IsDraftOpen(f))
  <2>1. openCount[f] \in Nat
    BY DEF Typed, TypeOK
  <2>2. f \in diff.added => openCount'[f] = openCount[f] + 1
    BY <1>1, <1>9 DEF wanted, diff
  <2>3. f \notin diff.added /\ f \in diff.removed =>
            openCount'[f] = IF openCount[f] > 1 THEN openCount[f] - 1 ELSE 0
    BY <1>1 DEF Fewer, wanted, diff
  <2>4. f \notin diff.added /\ f \notin diff.removed => openCount'[f] = openCount[f]
    BY <1>1 DEF wanted, diff
  <2> QED
    BY <1>3, <2>1, <2>2, <2>3, <2>4 DEF IsDraftOpen
<1> QED
  BY <1>1, <1>4, <1>5, <1>6, <1>7, <1>8, CountsResult

LEMMA ReleaseResult ==
    ASSUME Typed, NEW w \in Workers, NEW s \in Sessions, ReleaseSession(w, s)
    PROVE  Result(w)
<1>1. /\ openCount' = [f \in Flows |-> IF f \in sessions[s] THEN Fewer(f) ELSE openCount[f]]
      /\ Begin(w, [Idle("leave", "close", NoFlow, s) EXCEPT
                      !.close = {f \in sessions[s] : openCount'[f] = 0}])
      /\ UNCHANGED <<docVars, tableVars>>
  BY DEF ReleaseSession
<1>2. sessions[s] \subseteq Flows
  BY DEF Typed, TypeOK
<1>3. PICK closed \in SUBSET Flows : closed = {f \in sessions[s] : openCount'[f] = 0}
  BY <1>2
<1> DEFINE k == [Idle("leave", "close", NoFlow, s) EXCEPT !.close = closed]
<1>4. k \in Jobs
  BY IdleForms DEF Kinds, Places
<1>5. /\ k.kind = "leave" /\ k.at = "close" /\ k.flow = NoFlow /\ k.close = closed
      /\ k.open = {} /\ k.todo = {} /\ k.held = NoHandle
  BY DEF Idle
<1>6. Becomes(w, k) /\ job[w] = NoJob
  BY <1>1, <1>3 DEF Begin
<1> HIDE DEF k
<1>7. Shape(k)
  BY <1>3, <1>5, NullsAssumption DEF Shape, OnFlow
<1>8. ASSUME NEW f \in Flows, f \notin closed
      PROVE  IsDraftOpen(f)' <=> IsDraftOpen(f)
  <2>1. openCount[f] \in Nat
    BY DEF Typed, TypeOK
  <2>2. openCount'[f] = IF f \in sessions[s]
                        THEN IF openCount[f] > 1 THEN openCount[f] - 1 ELSE 0
                        ELSE openCount[f]
    BY <1>1 DEF Fewer
  <2> QED
    BY <1>3, <1>8, <2>1, <2>2 DEF IsDraftOpen
<1> QED
  BY <1>1, <1>4, <1>5, <1>6, <1>7, <1>8, CountsResult

LEMMA StepResult ==
    ASSUME Typed, Shaped, HandlesListed, DocsExist, NEW w \in Workers,
           Request(w) \/ Sync(w) \/ Session(w)
    PROVE  Result(w)
<1>1. AtFlow(w) => Result(w)
  BY AtFlowResult
<1>2. Session(w) => Result(w)
  BY UpdateResult, ReleaseResult, CloseResult, CloseEndsResult, OpenResult, BootResult,
     OpenEndsResult, ListDraftsResult, SweepResult, SweepEndsResult, DropResult DEF Session
<1> QED
  BY <1>1, <1>2, HandleResult DEF Request, AtFlow

----------------------------------------------------------------------------
(* The invariant.                                                          *)

LEMMA DocsStep ==
    ASSUME Typed, DocsExist, [Next]_vars
    PROVE  DocsExist'
<1>1. ASSUME NEW w \in Workers, Store(w) PROVE DocsExist'
  <2>1. job[w].flow \in Flows
    BY <1>1, AtPlace DEF Store, Fits, OnFlow
  <2>2. PICK g \in Flows : g = job[w].flow
    BY <2>1
  <2>3. \/ draft[g] # NoDsl /\ live' = [live EXCEPT ![g] = draft[g]] /\ draft' = draft
        \/ live' = [live EXCEPT ![g] = NoDsl] /\ draft' = draft
        \/ live' = live /\ \E d \in Dsls : draft' = [draft EXCEPT ![g] = d]
        \/ live' = [live EXCEPT ![g] = NoDsl] /\ draft' = [draft EXCEPT ![g] = NoDsl]
        \/ live' = live /\ draft' = draft
    BY <1>1, <2>2 DEF Store, docVars
  <2> QED
    BY <2>3, NullsAssumption DEF DocsExist, Typed, TypeOK
<1>2. CASE UNCHANGED docVars
  BY <1>2 DEF DocsExist, docVars
<1>3. ASSUME NEW w \in Workers, Request(w), ~Store(w) PROVE UNCHANGED docVars
  BY <1>3 DEF Request, Handle, Get, HttpSync, Remove
<1>4. ASSUME NEW w \in Workers, Sync(w) PROVE UNCHANGED docVars
  BY <1>4 DEF Sync, Undraft, Unmount, IfOpen, Check, Release, Clear, Connect, Reuse, MountFails,
              Register, Undo, MountEnds
<1>5. ASSUME NEW w \in Workers, NEW s, UpdateSessionOpenFlows(w, s) \/ ReleaseSession(w, s)
      PROVE  UNCHANGED docVars
  BY <1>5 DEF UpdateSessionOpenFlows, ReleaseSession
<1>6. ASSUME NEW w \in Workers, Session(w) PROVE UNCHANGED docVars
  BY <1>5, <1>6 DEF Session, Close, CloseEnds, Open, Boot, OpenEnds, ListDrafts, Sweep, SweepEnds,
                    Drop
<1>7. UNCHANGED vars => UNCHANGED docVars
  BY DEF vars, docVars
<1> QED
  BY <1>1, <1>2, <1>3, <1>4, <1>6, <1>7 DEF Next

FlowsInv == Shaped /\ DocsExist /\ FlowsKept

LEMMA FlowsInit ==
    ASSUME Init
    PROVE  FlowsInv
<1>1. PICK w \in Workers :
          job = [v \in Workers |->
                    IF v = w THEN [Idle("boot", "open", NoFlow, NoSession) EXCEPT !.todo = Listed]
                    ELSE NoJob]
  BY DEF Init
<1>2. PICK j : j = [Idle("boot", "open", NoFlow, NoSession) EXCEPT !.todo = Listed]
  OBVIOUS
<1>3. /\ j.kind = "boot" /\ j.at = "open" /\ j.flow = NoFlow /\ j.open = {} /\ j.close = {}
      /\ j.todo = Listed /\ j.held = NoHandle
  BY <1>2 DEF Idle
<1>4. job[w] = j /\ \A v \in Workers \ {w} : job[v] = NoJob
  BY <1>1, <1>2
<1>5. Shape(j)
  <2>1. \A p \in Listed : p[1] \in Flows /\ live[p[1]] = p[2] /\ p = <<p[1], p[2]>>
    BY DEF Listed
  <2>2. \A p, q \in Listed : p[1] = q[1] => p = q
    BY <2>1
  <2> QED
    BY <1>3, <2>1, <2>2, NullsAssumption DEF Shape, OnFlow
<1>6. Shaped
  BY <1>4, <1>5 DEF Shaped, Underway
<1>7. DocsExist
  BY NullsAssumption DEF Init, DocsExist
<1>8. ASSUME NEW f \in Flows PROVE Undisturbed(f)
  <2>1. byFlow[<<"draft", f>>] = {} /\ byFlow[<<"published", f>>] = {}
    BY DEF Init, Tracks
  <2>2. Single(f) /\ Calm(f)
    BY <2>1 DEF Single, Calm, Whole, Wanting, Pub, Dra
  <2>3. \A v \in Workers \ {w} : f \notin Touches(job[v])
    BY <1>4 DEF Touches
  <2>4. f # NoFlow
    BY NullsAssumption
  <2>5. Knows(j, f)
    BY <1>3, <2>2, <2>4 DEF Knows, Listed
  <2>6. \A v \in Underway : v = w
    BY <1>4 DEF Underway
  <2> QED
    BY <1>4, <2>2, <2>3, <2>5, <2>6 DEF Undisturbed
<1> QED
  BY <1>6, <1>7, <1>8 DEF FlowsInv, FlowsKept

LEMMA FlowsStep ==
    ASSUME Typed, HandlesListed, FlowsInv, [Next]_vars
    PROVE  FlowsInv'
<1>1. ASSUME NEW w \in Workers, Request(w) \/ Sync(w) \/ Session(w)
      PROVE  Shaped' /\ FlowsKept'
  <2>1. Result(w)
    BY <1>1, StepResult DEF FlowsInv
  <2>2. FlowsKept'
    BY <2>1, FlowsFollow DEF FlowsInv
  <2>3. Shaped'
    BY <2>1, ShapeTurns DEF Result, FlowsInv
  <2> QED
    BY <2>2, <2>3
<1>2. CASE UNCHANGED vars
  <2>1. Shaped'
    BY <1>2 DEF FlowsInv, Shaped, Underway, vars
  <2>2. ASSUME NEW f PROVE Undisturbed(f)' <=> Undisturbed(f)
    <3>1. Kept(f)
      BY <1>2, StillKept DEF vars, docVars, sessionVars, tableVars
    <3>2. Settled(f)' <=> Settled(f)
      BY <1>2 DEF vars, Settled, Touches
    <3>3. \A j : Knows(j, f)' <=> Knows(j, f)
      BY <1>2 DEF vars, Knows, Work, Calm, Whole, Wanting, Pub, Dra, IsDraftOpen, MountedUpTo,
                  Mounted, Dsl
    <3> QED
      BY <1>2, <3>1, <3>2, <3>3, KeptParts DEF vars, Undisturbed, Underway
  <2> QED
    BY <1>2, <2>1, <2>2, DocsStep DEF FlowsInv, FlowsKept, vars
<1> QED
  BY <1>1, <1>2, DocsStep DEF Next, FlowsInv

LEMMA FlowsCorrect == Spec => []FlowsInv
<1>1. Init => FlowsInv
  BY FlowsInit
<1>2. Typed /\ HandlesListed /\ FlowsInv /\ [Next]_vars => FlowsInv'
  BY FlowsStep
<1> QED
  BY <1>1, <1>2, TypedCorrect, HandlesCorrect, PTL DEF Spec

\* manager.go:112: a flow on which no two jobs have overlapped is never connected twice, with
\* its publication and with its draft, whatever its definitions are and however its requests,
\* failures and editors follow each other.
THEOREM DoubleCorrect == Spec => []NoDoubleConnection
<1>1. FlowsInv => NoDoubleConnection
  BY DEF FlowsInv, FlowsKept, Undisturbed, Single, Pub, Dra, NoDoubleConnection
<1> QED
  BY <1>1, FlowsCorrect, PTL

\* Once nothing is at work on such a flow, it has draft connections only while an editor has
\* it open and it is offline: releases, closes and sweeps leave none behind.
THEOREM DraftCorrect == Spec => []DraftFollowsEditor
<1>1. FlowsInv => DraftFollowsEditor
  BY DEF FlowsInv, FlowsKept, Undisturbed, Calm, Wanting, Dra, DraftFollowsEditor
<1> QED
  BY <1>1, FlowsCorrect, PTL

\* Once nothing is at work on such a flow, its publication is mounted whole or not at all:
\* SyncFlow leaves no part of a mount that failed, nor of an earlier publication.
THEOREM PublishedCorrect == Spec => []PublishedWhole
<1>1. FlowsInv => PublishedWhole
  BY DEF FlowsInv, FlowsKept, Undisturbed, Calm, Whole, Pub, PublishedWhole
<1> QED
  BY <1>1, FlowsCorrect, PTL

----------------------------------------------------------------------------
(* What a step does with handles and connections.                          *)

\* A worker has a handle for a flow in hand, between the connection and the registration.
InHand(v, f, h) == v \in Underway /\ job[v].flow = f /\ job[v].held = h

Empty(v) == \A f \in Flows, h \in Handles : ~InHand(v, f, h)

\* Nothing changes.
Stays(w) == UNCHANGED tableVars /\ Empty(w) /\ Empty(w)'

\* A track of a flow it is at work on goes.
Clears(w) ==
    /\ Empty(w) /\ Empty(w)'
    /\ \E t \in Tracks, g \in Flows : g \in Touches(job[w]) /\ RemoveTrack(t, g)

\* It takes a handle: of a fresh connection, or on one that is registered for the flow.
Takes(w) ==
    \E g \in Flows, h \in Handles :
        /\ Empty(w) /\ \A f \in Flows, i \in Handles : InHand(w, f, i)' <=> f = g /\ i = h
        /\ UNCHANGED <<byNode, byFlow>>
        /\ \/ Owned(h) /\ h.conn \in Fresh /\ connected' = connected \cup {<<h.conn, g>>}
           \/ /\ ~Owned(h) /\ connected' = connected
              /\ \E t \in Tracks, n \in Nodes : /\ byNode[<<t, g>>][n] # NoHandle
                                                /\ byNode[<<t, g>>][n].conn = h.conn

\* registerLocked goes by the ids of the nodes, and nothing checks that a definition has
\* distinct ones.
DistinctIds == \A d \in Dsls : \A i, k \in DOMAIN d : d[i].id = d[k].id => i = k

\* It registers the handle it has, for a node that has none.
Puts(w) ==
    \E g \in Flows, h \in Handles, t \in Tracks, n \in Nodes :
        /\ \A f \in Flows, i \in Handles : InHand(w, f, i) <=> f = g /\ i = h
        /\ Empty(w)' /\ connected' = connected
        /\ byNode' = [byNode EXCEPT ![<<t, g>>][n] = h]
        /\ DistinctIds /\ HandlesListed /\ Undisturbed(g) => byNode[<<t, g>>][n] = NoHandle

Moves(w) == Stays(w) \/ Clears(w) \/ Takes(w) \/ Puts(w)

\* A worker at a place other than the registration has no handle in hand.
LEMMA EmptyAt ==
    ASSUME Typed, Shaped, NEW w \in Workers, job[w] = NoJob \/ job[w].at # "register"
    PROVE  Empty(w)
<1>1. CASE job[w] = NoJob
  BY <1>1 DEF Empty, InHand, Underway
<1>2. CASE job[w] # NoJob
  <2>1. job[w].held = NoHandle
    BY <1>2 DEF Shaped, Shape, Underway
  <2> QED
    BY <2>1, HandlesAssumption DEF Empty, InHand
<1> QED
  BY <1>1, <1>2

LEMMA EmptyNow ==
    ASSUME Typed, NEW w \in Workers, NEW k, job' = [job EXCEPT ![w] = k],
           k = NoJob \/ k.held = NoHandle
    PROVE  Empty(w)'
<1>1. job'[w] = k
  BY DEF Typed, TypeOK
<1> QED
  BY <1>1, HandlesAssumption DEF Empty, InHand, Underway

\* A job that goes on with no handle in hand.
LEMMA EmptyNext ==
    ASSUME Typed, NEW w \in Workers, NEW j, j = job[w], j \in Jobs, j.held = NoHandle
    PROVE  /\ End(w) => Empty(w)'
           /\ \A at : GoTo(w, at) \/ Loop(w, at) => Empty(w)'
           /\ \A at, t : Becomes(w, [j EXCEPT !.at = at, !.track = t]) => Empty(w)'
           /\ \A at, t, n : Becomes(w, [j EXCEPT !.at = at, !.track = t, !.next = n]) => Empty(w)'
           /\ \A at, n : Becomes(w, [j EXCEPT !.at = at, !.next = n]) => Empty(w)'
           /\ \A at, c : Becomes(w, [j EXCEPT !.at = at, !.close = c]) => Empty(w)'
           /\ \A c : Becomes(w, [j EXCEPT !.close = c]) => Empty(w)'
<1>1. End(w) => Empty(w)'
  BY EmptyNow DEF End, Becomes
<1>2. ASSUME NEW at, GoTo(w, at) PROVE Empty(w)'
  <2>1. [j EXCEPT !.at = at].held = NoHandle
    BY DEF Jobs
  <2> QED
    BY <1>2, <2>1, EmptyNow DEF GoTo, Becomes
<1>3. ASSUME NEW at, Loop(w, at) PROVE Empty(w)'
  <2>1. [j EXCEPT !.at = at, !.flow = NoFlow, !.live = NoDsl, !.draft = NoDsl].held = NoHandle
    BY DEF Jobs
  <2> QED
    BY <1>3, <2>1, EmptyNow DEF Loop, Becomes
<1>4. ASSUME NEW at, NEW t, Becomes(w, [j EXCEPT !.at = at, !.track = t]) PROVE Empty(w)'
  <2>1. [j EXCEPT !.at = at, !.track = t].held = NoHandle
    BY DEF Jobs
  <2> QED
    BY <1>4, <2>1, EmptyNow DEF Becomes
<1>5. ASSUME NEW at, NEW t, NEW n, Becomes(w, [j EXCEPT !.at = at, !.track = t, !.next = n])
      PROVE  Empty(w)'
  <2>1. [j EXCEPT !.at = at, !.track = t, !.next = n].held = NoHandle
    BY DEF Jobs
  <2> QED
    BY <1>5, <2>1, EmptyNow DEF Becomes
<1>6. ASSUME NEW at, NEW n, Becomes(w, [j EXCEPT !.at = at, !.next = n]) PROVE Empty(w)'
  <2>1. [j EXCEPT !.at = at, !.next = n].held = NoHandle
    BY DEF Jobs
  <2> QED
    BY <1>6, <2>1, EmptyNow DEF Becomes
<1>7. ASSUME NEW at, NEW c, Becomes(w, [j EXCEPT !.at = at, !.close = c]) PROVE Empty(w)'
  <2>1. [j EXCEPT !.at = at, !.close = c].held = NoHandle
    BY DEF Jobs
  <2> QED
    BY <1>7, <2>1, EmptyNow DEF Becomes
<1>8. ASSUME NEW c, Becomes(w, [j EXCEPT !.close = c]) PROVE Empty(w)'
  <2>1. [j EXCEPT !.close = c].held = NoHandle
    BY DEF Jobs
  <2> QED
    BY <1>8, <2>1, EmptyNow DEF Becomes
<1> QED
  BY <1>1, <1>2, <1>3, <1>4, <1>5, <1>6, <1>7, <1>8

\* Where a synchronisation returns to, nothing is in hand.
LEMMA EmptyReturn ==
    ASSUME Typed, Shaped, NEW w \in Workers, NEW place \in Syncing \ {"register"}, At(w, place),
           NEW ok \in BOOLEAN, Return(w, ok)
    PROVE  Empty(w)'
<1>1. place \in OnFlow \ {"register"}
  BY DEF OnFlow, Syncing
<1>2. /\ job[w] \in Jobs /\ job[w].held = NoHandle
      /\ job[w].kind \in {"publish", "offline", "save", "boot", "edit"}
  BY <1>1, FlowAt DEF Fits
<1>3. End(w) \/ GoTo(w, "ifopen") \/ Loop(w, "open")
  BY <1>2 DEF Return
<1> QED
  BY <1>2, <1>3, EmptyNext

\* A worker at a place, with nothing in hand.
LEMMA EmptyHere ==
    ASSUME Typed, Shaped, NEW w \in Workers, NEW place \in Places \ {"register"}, At(w, place)
    PROVE  Empty(w) /\ job[w] \in Jobs /\ job[w].held = NoHandle /\ job[w] # NoJob
  BY ShapeAt, EmptyAt DEF Shape

LEMMA RequestMoves ==
    ASSUME Typed, Shaped, NEW w \in Workers, Request(w)
    PROVE  Moves(w)
<1>1. CASE Handle(w)
  <2>0. PICK f \in Flows : \E kind : Becomes(w, Idle(kind, "store", f, NoSession))
    BY <1>1 DEF Handle, Begin
  <2>1. PICK kind : Becomes(w, Idle(kind, "store", f, NoSession))
    BY <2>0
  <2>2. Idle(kind, "store", f, NoSession).held = NoHandle
    BY DEF Idle
  <2>3. Empty(w)'
    BY <2>1, <2>2, EmptyNow DEF Becomes
  <2>4. job[w] = NoJob /\ UNCHANGED tableVars
    BY <1>1 DEF Handle, Begin
  <2> QED
    BY <2>3, <2>4, EmptyAt DEF Moves, Stays
<1>2. CASE Store(w)
  <2>1. At(w, "store") /\ UNCHANGED tableVars /\ (End(w) \/ \E at : GoTo(w, at))
    BY <1>2 DEF Store
  <2> QED
    BY <2>1, EmptyHere, EmptyNext DEF Moves, Stays, Places
<1>3. CASE Get(w)
  <2>1. At(w, "get") /\ UNCHANGED tableVars
    BY <1>3 DEF Get
  <2>2. PICK j : j = job[w] /\ j \in Jobs /\ j.held = NoHandle
    BY <2>1, EmptyHere DEF Places
  <2>3. CASE End(w)
    BY <2>1, <2>2, <2>3, EmptyHere, EmptyNext DEF Moves, Stays, Places
  <2>4. CASE ~End(w)
    <3> DEFINE k == [j EXCEPT !.live = live[j.flow], !.draft = draft[j.flow]]
    <3>1. Becomes(w, [k EXCEPT !.at = IF k.kind = "save" THEN "ifopen" ELSE "http"])
      BY <1>3, <2>2, <2>4 DEF Get
    <3>2. [k EXCEPT !.at = IF k.kind = "save" THEN "ifopen" ELSE "http"].held = NoHandle
      BY <2>2 DEF Jobs
    <3>3. Empty(w)'
      BY <3>1, <3>2, EmptyNow DEF Becomes
    <3> QED
      BY <2>1, <3>3, EmptyHere DEF Moves, Stays, Places
  <2> QED
    BY <2>3, <2>4
<1>4. CASE HttpSync(w)
  <2>1. (At(w, "http") \/ At(w, "remove")) /\ UNCHANGED tableVars
    BY <1>4 DEF HttpSync
  <2>2. CASE GoTo(w, "undraft")
    BY <2>1, <2>2, EmptyHere, EmptyNext DEF Moves, Stays, Places
  <2>3. CASE job' = [job EXCEPT ![w] = NoJob]
    BY <2>1, <2>3, EmptyHere, EmptyNow DEF Moves, Stays, Places
  <2> QED
    BY <1>4, <2>2, <2>3 DEF HttpSync
<1>5. CASE Remove(w)
  <2>1. At(w, "remove") /\ RemoveTrack("published", job[w].flow) /\ GoTo(w, "drop")
    BY <1>5 DEF Remove, GoTo
  <2>2. job[w].flow \in Flows /\ job[w].flow \in Touches(job[w]) /\ "published" \in Tracks
    BY <2>1, FlowAt DEF Touches, OnFlow, Tracks
  <2>3. Empty(w) /\ Empty(w)'
    BY <2>1, EmptyHere, EmptyNext DEF Places
  <2> QED
    BY <2>1, <2>2, <2>3 DEF Moves, Clears
<1> QED
  BY <1>1, <1>2, <1>3, <1>4, <1>5 DEF Request

\* The removals of a synchronisation.
LEMMA ClearMoves ==
    ASSUME Typed, Shaped, NEW w \in Workers, NEW place \in OnFlow \ {"register"}, At(w, place),
           NEW t \in Tracks, RemoveTrack(t, job[w].flow), Empty(w)'
    PROVE  Moves(w)
<1>1. Empty(w) /\ job[w].flow \in Flows /\ job[w].flow \in Touches(job[w])
  BY FlowAt, EmptyAt DEF Touches
<1> QED
  BY <1>1 DEF Moves, Clears

\* What a worker has in hand once it holds a handle for the node it mounts.
LEMMA TakenInHand ==
    ASSUME Typed, Shaped, NEW w \in Workers, At(w, "mount"), NEW i \in NextNode(w),
           NEW h \in Handles, Holds(w, i, h), NEW g, g = job[w].flow
    PROVE  /\ g \in Flows /\ Empty(w)
           /\ \A f \in Flows, l \in Handles : InHand(w, f, l)' <=> f = g /\ l = h
<1>1. job[w] \in Jobs /\ g \in Flows /\ Empty(w)
  BY FlowAt, EmptyHere DEF OnFlow, Places
<1>2. PICK j : j = job[w]
  OBVIOUS
<1>3. PICK k : k = [j EXCEPT !.at = "register", !.next = i, !.held = h]
  OBVIOUS
<1>4. k.flow = g /\ k.held = h
  BY <1>1, <1>2, <1>3 DEF Jobs
<1>5. k # NoJob
  <2>1. i \in Nat
    BY AtPlace, NextNodeType
  <2>2. k \in Jobs
    BY <1>1, <1>2, <1>3, <2>1, JobForms DEF Places
  <2> QED
    BY <2>2, NoJobAssumption
<1>6. job'[w] = k
  BY <1>2, <1>3 DEF Holds, Becomes, Typed, TypeOK
<1> QED
  BY <1>1, <1>4, <1>5, <1>6 DEF InHand, Underway

LEMMA SyncMoves ==
    ASSUME Typed, Shaped, NEW w \in Workers, Sync(w), ~Register(w)
    PROVE  Moves(w)
<1>1. "draft" \in Tracks /\ "published" \in Tracks
  BY DEF Tracks
<1>2. ASSUME NEW place \in Places \ {"register"}, At(w, place), UNCHANGED tableVars, Empty(w)'
      PROVE  Moves(w)
  BY <1>2, EmptyHere DEF Moves, Stays
<1>3. CASE Undraft(w)
  <2>1. At(w, "undraft") /\ GoTo(w, "unmount") /\ RemoveTrack("draft", job[w].flow)
    BY <1>3 DEF Undraft
  <2> QED
    BY <1>1, <2>1, EmptyHere, EmptyNext, ClearMoves DEF OnFlow, Places
<1>4. CASE Unmount(w)
  <2>1. At(w, "unmount") /\ RemoveTrack("published", job[w].flow)
    BY <1>4 DEF Unmount
  <2>2. \/ Return(w, TRUE)
        \/ Becomes(w, [job[w] EXCEPT !.at = "mount", !.track = "published", !.next = 1])
    BY <1>4 DEF Unmount
  <2>3. Empty(w)'
    BY <2>1, <2>2, EmptyHere, EmptyNext, EmptyReturn DEF Syncing, Places
  <2> QED
    BY <1>1, <2>1, <2>3, ClearMoves DEF OnFlow
<1>5. CASE IfOpen(w)
  <2>1. /\ At(w, "ifopen") /\ UNCHANGED tableVars
        /\ \E at : Becomes(w, [job[w] EXCEPT !.at = at, !.track = "draft"])
    BY <1>5 DEF IfOpen
  <2> QED
    BY <1>2, <2>1, EmptyHere, EmptyNext DEF Places
<1>6. CASE Check(w)
  <2>1. /\ At(w, "check") /\ UNCHANGED tableVars
        /\ \E at : Becomes(w, [job[w] EXCEPT !.at = at, !.track = "draft"])
    BY <1>6 DEF Check
  <2> QED
    BY <1>2, <2>1, EmptyHere, EmptyNext DEF Places
<1>7. CASE Release(w)
  <2>1. At(w, "release") /\ Return(w, TRUE) /\ RemoveTrack("draft", job[w].flow)
    BY <1>7 DEF Release
  <2> QED
    BY <1>1, <2>1, EmptyReturn, ClearMoves DEF OnFlow, Syncing
<1>8. CASE Clear(w)
  <2>1. /\ At(w, "clear") /\ RemoveTrack("draft", job[w].flow)
        /\ Becomes(w, [job[w] EXCEPT !.at = "mount", !.next = 1])
    BY <1>8 DEF Clear
  <2> QED
    BY <1>1, <2>1, EmptyHere, EmptyNext, ClearMoves DEF OnFlow, Places
<1>9. CASE Connect(w)
  <2>1. At(w, "mount") /\ UNCHANGED <<byNode, byFlow>>
    BY <1>9, ConnectHolds
  <2>2. PICK c \in Fresh, i \in NextNode(w), h \in Handles :
            /\ h.conn = c /\ h.kind # "reuse" /\ Holds(w, i, h)
            /\ connected' = connected \cup {<<c, job[w].flow>>}
    BY <1>9, ConnectHolds
  <2>3. PICK g : g = job[w].flow
    OBVIOUS
  <2>4. /\ g \in Flows /\ Empty(w)
        /\ \A f \in Flows, l \in Handles : InHand(w, f, l)' <=> f = g /\ l = h
    BY <2>1, <2>2, <2>3, TakenInHand
  <2>5. Takes(w)
    BY <2>1, <2>2, <2>3, <2>4 DEF Takes, Owned
  <2> QED
    BY <2>5 DEF Moves
<1>10. CASE Reuse(w)
  <2>1. At(w, "mount") /\ UNCHANGED <<byNode, byFlow, connected>>
    BY <1>10 DEF Reuse, tableVars
  <2>2. CASE GoTo(w, "undo")
    BY <1>2, <2>1, <2>2, EmptyHere, EmptyNext DEF Places, tableVars
  <2>3. CASE ~GoTo(w, "undo")
    <3>1. PICK i \in NextNode(w), h \in Handles, n \in Nodes :
              /\ byNode[<<job[w].track, job[w].flow>>][n] # NoHandle
              /\ h.conn = byNode[<<job[w].track, job[w].flow>>][n].conn
              /\ h.kind = "reuse" /\ Holds(w, i, h)
      BY <1>10, <2>3, ReuseHolds
    <3>2. PICK g, t : g = job[w].flow /\ t = job[w].track
      OBVIOUS
    <3>3. /\ g \in Flows /\ Empty(w)
          /\ \A f \in Flows, l \in Handles : InHand(w, f, l)' <=> f = g /\ l = h
      BY <2>1, <3>1, <3>2, TakenInHand
    <3>4. t \in Tracks
      BY <2>1, <3>2, EmptyHere DEF Places, Jobs
    <3>5. Takes(w)
      BY <2>1, <3>1, <3>2, <3>3, <3>4 DEF Takes, Owned
    <3> QED
      BY <3>5 DEF Moves
  <2> QED
    BY <2>2, <2>3
<1>11. CASE MountFails(w)
  <2>1. At(w, "mount") /\ UNCHANGED tableVars /\ GoTo(w, "undo")
    BY <1>11 DEF MountFails
  <2> QED
    BY <1>2, <2>1, EmptyHere, EmptyNext DEF Places
<1>12. CASE Undo(w)
  <2>1. At(w, "undo") /\ Return(w, FALSE) /\ RemoveTrack(job[w].track, job[w].flow)
    BY <1>12 DEF Undo
  <2>2. job[w].track \in Tracks
    BY <2>1, EmptyHere DEF Places, Jobs
  <2> QED
    BY <2>1, <2>2, EmptyReturn, ClearMoves DEF OnFlow, Syncing
<1>13. CASE MountEnds(w)
  <2>1. At(w, "mount") /\ UNCHANGED tableVars /\ Return(w, TRUE)
    BY <1>13 DEF MountEnds
  <2> QED
    BY <1>2, <2>1, EmptyReturn DEF Places, Syncing
<1> QED
  BY <1>3, <1>4, <1>5, <1>6, <1>7, <1>8, <1>9, <1>10, <1>11, <1>12, <1>13 DEF Sync

LEMMA SessionMoves ==
    ASSUME Typed, Shaped, NEW w \in Workers, Session(w)
    PROVE  Moves(w)
<1>1. ASSUME NEW place \in Places \ {"register"}, At(w, place), UNCHANGED tableVars, Empty(w)'
      PROVE  Moves(w)
  BY <1>1, EmptyHere DEF Moves, Stays
<1>2. ASSUME NEW k, Becomes(w, k), k.held = NoHandle PROVE Empty(w)'
  BY <1>2, EmptyNow DEF Becomes
<1>3. ASSUME NEW s \in Sessions, UpdateSessionOpenFlows(w, s) \/ ReleaseSession(w, s)
      PROVE  Moves(w)
  <2>1. /\ job[w] = NoJob /\ UNCHANGED tableVars
        /\ \E kind, c, o :
               \/ Becomes(w, [Idle(kind, "close", NoFlow, s) EXCEPT !.close = c, !.open = o])
               \/ Becomes(w, [Idle(kind, "close", NoFlow, s) EXCEPT !.close = c])
    BY <1>3 DEF UpdateSessionOpenFlows, ReleaseSession, Begin
  <2>2. \A kind, c, o :
            /\ [Idle(kind, "close", NoFlow, s) EXCEPT !.close = c, !.open = o].held = NoHandle
            /\ [Idle(kind, "close", NoFlow, s) EXCEPT !.close = c].held = NoHandle
    BY DEF Idle
  <2>3. Empty(w)'
    BY <1>2, <2>1, <2>2
  <2> QED
    BY <2>1, <2>3, EmptyAt DEF Moves, Stays
<1>4. CASE Close(w)
  <2>1. PICK f \in job[w].close : /\ RemoveTrack("draft", f)
                                 /\ Becomes(w, [job[w] EXCEPT !.close = @ \ {f}])
    BY <1>4 DEF Close
  <2>2. At(w, "close")
    BY <1>4 DEF Close
  <2>3. /\ job[w] \in Jobs /\ job[w].at = "close" /\ job[w] # NoJob /\ job[w].held = NoHandle
        /\ Empty(w)
    BY <2>2, EmptyHere DEF Places, At
  <2>4. f \in Flows /\ f \in Touches(job[w]) /\ "draft" \in Tracks
    BY <2>1, <2>3 DEF Jobs, Touches, Tracks
  <2>5. Empty(w)'
    BY <2>1, <2>3, EmptyNext
  <2> QED
    BY <2>1, <2>3, <2>4, <2>5 DEF Moves, Clears
<1>5. CASE CloseEnds(w)
  <2>1. At(w, "close") /\ UNCHANGED tableVars /\ \E at : GoTo(w, at)
    BY <1>5 DEF CloseEnds
  <2> QED
    BY <1>1, <2>1, EmptyHere, EmptyNext DEF Places
<1>6. CASE Open(w)
  <2>1. At(w, "open") /\ UNCHANGED tableVars
    BY <1>6 DEF Open
  <2>2. PICK j : j = job[w] /\ j \in Jobs /\ j.held = NoHandle
    BY <2>1, EmptyHere DEF Places
  <2> DEFINE k(f) == [j EXCEPT !.open = @ \ {f}]
             l(f) == [k(f) EXCEPT !.at = "check", !.flow = f, !.live = live[f], !.draft = draft[f]]
  <2>3. PICK f : Becomes(w, k(f)) \/ Becomes(w, l(f))
    BY <1>6, <2>2, Zenon DEF Open
  <2>4. k(f).held = NoHandle /\ l(f).held = NoHandle
    BY <2>2 DEF Jobs
  <2> HIDE DEF k, l
  <2> QED
    BY <1>1, <1>2, <2>1, <2>3, <2>4 DEF Places
<1>7. CASE Boot(w)
  <2>1. At(w, "open") /\ UNCHANGED tableVars
    BY <1>7 DEF Boot
  <2>2. PICK j : j = job[w] /\ j \in Jobs /\ j.held = NoHandle
    BY <2>1, EmptyHere DEF Places
  <2>3. PICK p : Becomes(w, [j EXCEPT !.todo = @ \ {p}, !.at = "undraft", !.flow = p[1],
                                     !.live = p[2]])
    BY <1>7, <2>2 DEF Boot
  <2>4. [j EXCEPT !.todo = @ \ {p}, !.at = "undraft", !.flow = p[1], !.live = p[2]].held = NoHandle
    BY <2>2 DEF Jobs
  <2> QED
    BY <1>1, <1>2, <2>1, <2>3, <2>4 DEF Places
<1>8. CASE OpenEnds(w)
  <2>1. At(w, "open") /\ UNCHANGED tableVars /\ GoTo(w, "list")
    BY <1>8 DEF OpenEnds
  <2> QED
    BY <1>1, <2>1, EmptyHere, EmptyNext DEF Places
<1>9. CASE ListDrafts(w)
  <2>1. /\ At(w, "list") /\ UNCHANGED tableVars
        /\ \E c : Becomes(w, [job[w] EXCEPT !.at = "sweep", !.close = c])
    BY <1>9 DEF ListDrafts
  <2> QED
    BY <1>1, <2>1, EmptyHere, EmptyNext DEF Places
<1>10. CASE Sweep(w)
  <2>1. At(w, "sweep") /\ UNCHANGED tableVars
    BY <1>10 DEF Sweep
  <2>2. PICK j : j = job[w] /\ j \in Jobs /\ j.held = NoHandle
    BY <2>1, EmptyHere DEF Places
  <2> DEFINE k(f) == [j EXCEPT !.close = @ \ {f}]
             l(f) == [k(f) EXCEPT !.at = "drop", !.flow = f]
  <2>3. PICK f : Becomes(w, IF IsDraftOpen(f) THEN k(f) ELSE l(f))
    BY <1>10, <2>2, Zenon DEF Sweep
  <2>4. k(f).held = NoHandle /\ l(f).held = NoHandle
    BY <2>2 DEF Jobs
  <2> HIDE DEF k, l
  <2> QED
    BY <1>1, <1>2, <2>1, <2>3, <2>4 DEF Places
<1>11. CASE SweepEnds(w)
  <2>1. At(w, "sweep") /\ UNCHANGED tableVars /\ End(w)
    BY <1>11 DEF SweepEnds
  <2> QED
    BY <1>1, <2>1, EmptyHere, EmptyNext DEF Places
<1>12. CASE Drop(w)
  <2>1. /\ At(w, "drop") /\ RemoveTrack("draft", job[w].flow)
        /\ End(w) \/ Loop(w, "sweep")
    BY <1>12 DEF Drop
  <2>2. Empty(w)' /\ "draft" \in Tracks
    BY <2>1, EmptyHere, EmptyNext DEF Places, Tracks
  <2> QED
    BY <2>1, <2>2, ClearMoves DEF OnFlow
<1> QED
  BY <1>3, <1>4, <1>5, <1>6, <1>7, <1>8, <1>9, <1>10, <1>11, <1>12 DEF Session

LEMMA PutMoves ==
    ASSUME Typed, Shaped, NEW w \in Workers, Register(w)
    PROVE  Moves(w)
<1>1. PICK j, g, h, t, n : /\ j = job[w] /\ g = j.flow /\ h = j.held /\ t = j.track
                           /\ n = Dsl(j)[j.next].id
  OBVIOUS
<1>2. /\ At(w, "register") /\ connected' = connected
      /\ byNode' = [byNode EXCEPT ![<<t, g>>][n] = h]
  BY <1>1 DEF Register, RegisterLocked
<1>3. /\ j \in Jobs /\ j.at = "register" /\ w \in Underway /\ j # NoJob
      /\ g \in Flows /\ h \in Handles /\ t \in Tracks /\ n \in Nodes
      /\ Dsl(j) \in Dsls /\ j.next \in DOMAIN Dsl(j)
  BY <1>1, <1>2, FlowAt, AtPlace, DslOfMount, RegisterTypes DEF OnFlow, Fits
<1>4. \A f \in Flows, i \in Handles : InHand(w, f, i) <=> f = g /\ i = h
  BY <1>1, <1>3 DEF InHand
<1>5. Empty(w)'
  <2>1. PICK k : Turns(w, k) /\ k.held = NoHandle
    BY <1>1, RegisterMoves
  <2> QED
    BY <2>1, EmptyNow DEF Turns
<1>6. ASSUME DistinctIds, Undisturbed(g), HandlesListed PROVE byNode[<<t, g>>][n] = NoHandle
  <2>1. g \in Touches(j)
    BY <1>1, <1>3, NullsAssumption DEF Touches
  <2>2. Work(j, g)
    BY <1>1, <1>3, <1>6, <2>1 DEF Undisturbed, Knows
  <2>3. byFlow[<<t, g>>] = MountedUpTo(j)
    BY <1>1, <1>3, <2>2 DEF Work
  <2>4. ASSUME n \in MountedUpTo(j) PROVE FALSE
    <3>1. PICK i \in DOMAIN Dsl(j) : i < j.next /\ Dsl(j)[i].id = n
      BY <2>4 DEF MountedUpTo
    <3>2. i = j.next
      BY <1>1, <1>3, <1>6, <3>1 DEF DistinctIds
    <3>3. i \in Nat /\ j.next \in Nat
      BY <1>3, <3>1, DslNodes
    <3> QED
      BY <3>1, <3>2, <3>3
  <2> QED
    BY <1>3, <1>6, <2>3, <2>4 DEF HandlesListed, Registered
<1> QED
  BY <1>2, <1>3, <1>4, <1>5, <1>6 DEF Moves, Puts

LEMMA StepMoves ==
    ASSUME Typed, Shaped, NEW w \in Workers, Request(w) \/ Sync(w) \/ Session(w)
    PROVE  Moves(w)
  BY RequestMoves, SyncMoves, SessionMoves, PutMoves

----------------------------------------------------------------------------
(* Connections.                                                            *)

\* Whatever refers to a connection of a flow.
Refers(c, f) ==
    \/ <<c, f>> \in connected
    \/ \E t \in Tracks, n \in Nodes : /\ byNode[<<t, f>>][n] # NoHandle
                                      /\ byNode[<<t, f>>][n].conn = c
    \/ \E v \in Workers, h \in Handles : InHand(v, f, h) /\ h.conn = c

OneFlow == \A c \in Conns, f, g \in Flows : Refers(c, f) /\ Refers(c, g) => f = g

\* What refers to a connection of the flow refers to one that is up.
Alive(f) ==
    /\ \A t \in Tracks, n \in Nodes :
           byNode[<<t, f>>][n] # NoHandle => <<byNode[<<t, f>>][n].conn, f>> \in connected
    /\ \A v \in Workers, h \in Handles : InHand(v, f, h) => <<h.conn, f>> \in connected

Owners(c, f) ==
    {tn \in Tracks \X Nodes : LET h == byNode[<<tn[1], f>>][tn[2]]
                              IN  h # NoHandle /\ h.conn = c /\ Owned(h)}

Carriers(c) ==
    {v \in Workers : \E f \in Flows, h \in Handles : InHand(v, f, h) /\ h.conn = c /\ Owned(h)}

\* One handle, or one worker, is to disconnect it.
OneOwner(c, f) ==
    \/ Carriers(c) = {} /\ \E tn : Owners(c, f) = {tn}
    \/ Owners(c, f) = {} /\ \E v : Carriers(c) = {v}

ConnsInv ==
    /\ OneFlow
    /\ \A f \in Flows \ disturbed : Alive(f)
    /\ DistinctIds => \A f \in Flows \ disturbed, c \in Conns :
                          <<c, f>> \in connected => OneOwner(c, f)

LEMMA OthersKeep ==
    ASSUME Typed, NEW w \in Workers, NEW k, Turns(w, k), NEW v \in Workers \ {w}, NEW f, NEW h
    PROVE  InHand(v, f, h)' <=> InHand(v, f, h)
<1>1. job'[v] = job[v]
  BY DEF Turns, Typed, TypeOK
<1> QED
  BY <1>1 DEF InHand, Underway

\* A worker with a handle in hand is at work on its flow.
LEMMA InHandTouches ==
    ASSUME NEW v \in Workers, NEW f \in Flows, NEW h, InHand(v, f, h)
    PROVE  f \in Touches(job[v])
<1>1. f # NoFlow
  BY NullsAssumption
<1> QED
  BY <1>1 DEF InHand, Touches, Underway

\* A track that is forgotten: the handles it had, and the connections they owned.
LEMMA ClearedHandles ==
    ASSUME Typed, HandlesListed, NEW t \in Tracks, NEW g \in Flows, RemoveTrack(t, g),
           NEW u \in Tracks, NEW f \in Flows, NEW n \in Nodes
    PROVE  /\ u = t /\ f = g => byNode'[<<u, f>>][n] = NoHandle
           /\ u # t \/ f # g => byNode'[<<u, f>>][n] = byNode[<<u, f>>][n]
<1>1. CASE u = t /\ f = g
  <2>1. \A m \in Nodes : byNode'[<<t, g>>][m] = NoHandle
    BY RemoveForm
  <2> QED
    BY <1>1, <2>1
<1>2. CASE u # t \/ f # g
  <2>1. <<u, f>> \in Tracks \X Flows /\ <<u, f>> # <<t, g>>
    BY <1>2
  <2>2. byNode'[<<u, f>>] = byNode[<<u, f>>]
    BY <2>1 DEF RemoveTrack, Typed, TypeOK
  <2> QED
    BY <1>2, <2>2
<1> QED
  BY <1>1, <1>2

OwnsOne(t, g, c) ==
    \E n \in Nodes : /\ byNode[<<t, g>>][n] # NoHandle
                     /\ Owned(byNode[<<t, g>>][n])
                     /\ byNode[<<t, g>>][n].conn = c

LEMMA ClearedConnections ==
    ASSUME Typed, HandlesListed, NEW t \in Tracks, NEW g \in Flows, RemoveTrack(t, g),
           NEW c \in Conns, NEW f \in Flows
    PROVE  <<c, f>> \in connected' <=> <<c, f>> \in connected /\ ~(f = g /\ OwnsOne(t, g, c))
<1>1. byFlow[<<t, g>>] \cap Registered(t, g) = {n \in Nodes : byNode[<<t, g>>][n] # NoHandle}
  BY DEF HandlesListed, Registered
<1>2. connected' = connected \ {<<byNode[<<t, g>>][n].conn, g>> :
                                  n \in {l \in {m \in Nodes : byNode[<<t, g>>][m] # NoHandle} :
                                             Owned(byNode[<<t, g>>][l])}}
  BY <1>1 DEF RemoveTrack
<1> QED
  BY <1>2 DEF OwnsOne

\* A connection is a flow's from the start: only a fresh one comes to be referred to.
LEMMA RefersMoves ==
    ASSUME Typed, HandlesListed, NEW w \in Workers, NEW k, Turns(w, k), Moves(w)
    PROVE  \E g : \A c \in Conns, f \in Flows :
               Refers(c, f)' => Refers(c, f) \/ (f = g /\ \A l \in Flows : ~Refers(c, l))
<1>1. ASSUME NEW c \in Conns, NEW f \in Flows, Refers(c, f)',
             \A v \in Workers, h \in Handles : InHand(v, f, h)' => InHand(v, f, h),
             \A t \in Tracks, n \in Nodes :
                 byNode'[<<t, f>>][n] # NoHandle => byNode'[<<t, f>>][n] = byNode[<<t, f>>][n],
             <<c, f>> \in connected' => <<c, f>> \in connected
      PROVE  Refers(c, f)
  BY <1>1 DEF Refers
<1>2. Empty(w)' => \A v \in Workers, f \in Flows, h \in Handles : InHand(v, f, h)' => InHand(v, f, h)
  BY OthersKeep DEF Empty
<1>3. CASE Stays(w)
  BY <1>1, <1>2, <1>3 DEF Stays, tableVars
<1>4. CASE Clears(w)
  <2>1. PICK t \in Tracks, g \in Flows : RemoveTrack(t, g)
    BY <1>4 DEF Clears
  <2>2. Empty(w)'
    BY <1>4 DEF Clears
  <2>3. \A c \in Conns, f \in Flows : <<c, f>> \in connected' => <<c, f>> \in connected
    BY <2>1, ClearedConnections
  <2>4. ASSUME NEW f \in Flows, NEW u \in Tracks, NEW n \in Nodes,
               byNode'[<<u, f>>][n] # NoHandle
        PROVE  byNode'[<<u, f>>][n] = byNode[<<u, f>>][n]
    <3>1. u # t \/ f # g
      BY <2>1, <2>4, ClearedHandles
    <3> QED
      BY <2>1, <3>1, ClearedHandles
  <2> QED
    BY <1>1, <1>2, <2>2, <2>3, <2>4
<1>5. CASE Takes(w)
  <2>1. PICK g \in Flows, h \in Handles :
            /\ \A f \in Flows, i \in Handles : InHand(w, f, i)' <=> f = g /\ i = h
            /\ UNCHANGED <<byNode, byFlow>>
            /\ \/ Owned(h) /\ h.conn \in Fresh /\ connected' = connected \cup {<<h.conn, g>>}
               \/ /\ ~Owned(h) /\ connected' = connected
                  /\ \E t \in Tracks, n \in Nodes : /\ byNode[<<t, g>>][n] # NoHandle
                                                    /\ byNode[<<t, g>>][n].conn = h.conn
    BY <1>5 DEF Takes
  <2>2. ASSUME h.conn \in Fresh PROVE \A l \in Flows : ~Refers(h.conn, l)
    <3>1. ASSUME NEW v \in Workers, NEW l, NEW i \in Handles, InHand(v, l, i) PROVE i.conn # h.conn
      BY <2>2, <3>1, HandlesAssumption DEF InHand, Fresh
    <3> QED
      BY <2>2, <3>1 DEF Refers, Fresh
  <2>3. ASSUME NEW c \in Conns, NEW f \in Flows, Refers(c, f)', ~Refers(c, f)
        PROVE  f = g /\ c = h.conn /\ h.conn \in Fresh
    <3>1. ASSUME NEW v \in Workers, NEW i \in Handles, InHand(v, f, i)', i.conn = c
          PROVE  v = w /\ f = g /\ i = h
      BY <2>1, <2>3, <3>1, OthersKeep DEF Refers
    <3>2. CASE Owned(h) /\ h.conn \in Fresh /\ connected' = connected \cup {<<h.conn, g>>}
      BY <2>1, <2>3, <3>1, <3>2 DEF Refers
    <3>3. CASE connected' = connected /\ \E t \in Tracks, n \in Nodes :
                    byNode[<<t, g>>][n] # NoHandle /\ byNode[<<t, g>>][n].conn = h.conn
      BY <2>1, <2>3, <3>1, <3>3 DEF Refers
    <3> QED
      BY <2>1, <3>2, <3>3
  <2> QED
    BY <2>2, <2>3
<1>6. CASE Puts(w)
  <2>1. PICK g \in Flows, h \in Handles, t \in Tracks, n \in Nodes :
            /\ InHand(w, g, h) /\ Empty(w)' /\ connected' = connected
            /\ byNode' = [byNode EXCEPT ![<<t, g>>][n] = h]
    BY <1>6 DEF Puts
  <2>2. ASSUME NEW c \in Conns, NEW f \in Flows, Refers(c, f)', ~Refers(c, f) PROVE FALSE
    <3>1. PICK u \in Tracks, m \in Nodes : /\ byNode'[<<u, f>>][m] # NoHandle
                                          /\ byNode'[<<u, f>>][m].conn = c
      BY <1>2, <2>1, <2>2 DEF Refers
    <3>2. CASE u = t /\ f = g /\ m = n
      <4>1. byNode'[<<u, f>>][m] = h
        BY <2>1, <3>2 DEF Typed, TypeOK
      <4> QED
        BY <2>1, <2>2, <3>1, <3>2, <4>1 DEF Refers
    <3>3. CASE ~(u = t /\ f = g /\ m = n)
      <4>1. byNode'[<<u, f>>][m] = byNode[<<u, f>>][m]
        BY <2>1, <3>3 DEF Typed, TypeOK
      <4> QED
        BY <2>2, <3>1, <4>1 DEF Refers
    <3> QED
      BY <3>2, <3>3
  <2> QED
    BY <2>2
<1> QED
  BY <1>3, <1>4, <1>5, <1>6 DEF Moves

LEMMA OneFlowStep ==
    ASSUME Typed, HandlesListed, OneFlow, NEW w \in Workers, NEW k, Turns(w, k), Moves(w)
    PROVE  OneFlow'
<1>1. PICK g : \A c \in Conns, f \in Flows :
          Refers(c, f)' => Refers(c, f) \/ (f = g /\ \A l \in Flows : ~Refers(c, l))
  BY RefersMoves
<1>2. ASSUME NEW c \in Conns, NEW f \in Flows, NEW l \in Flows, Refers(c, f)', Refers(c, l)'
      PROVE  f = l
  BY <1>1, <1>2 DEF OneFlow
<1> QED
  BY <1>2 DEF OneFlow

LEMMA AliveStep ==
    ASSUME Typed, HandlesListed, NEW w \in Workers, NEW k, Turns(w, k), Moves(w),
           NEW f \in Flows, Undisturbed(f), Alive(f)
    PROVE  Alive(f)'
<1>1. ASSUME NEW v \in Workers \ {w}, NEW h \in Handles
      PROVE  InHand(v, f, h)' <=> InHand(v, f, h)
  BY OthersKeep
<1>2. Empty(w)' => \A v \in Workers, h \in Handles : InHand(v, f, h)' => InHand(v, f, h)
  BY <1>1 DEF Empty
<1>3. CASE Stays(w)
  BY <1>2, <1>3 DEF Stays, tableVars, Alive
<1>4. CASE Clears(w)
  <2>1. PICK t \in Tracks, g \in Flows : g \in Touches(job[w]) /\ RemoveTrack(t, g)
    BY <1>4 DEF Clears
  <2>2. Empty(w) /\ Empty(w)'
    BY <1>4 DEF Clears
  <2>3. CASE f # g
    <3>1. \A c \in Conns : <<c, f>> \in connected' <=> <<c, f>> \in connected
      BY <2>1, <2>3, ClearedConnections
    <3>2. ASSUME NEW u \in Tracks, NEW n \in Nodes PROVE byNode'[<<u, f>>][n] = byNode[<<u, f>>][n]
      BY <2>1, <2>3, ClearedHandles
    <3>3. \A h \in Handles : h.conn \in Conns
      BY DEF Handles
    <3>4. \A u \in Tracks, n \in Nodes :
              byNode[<<u, f>>][n] # NoHandle => byNode[<<u, f>>][n] \in Handles
      BY DEF Typed, TypeOK
    <3> QED
      BY <1>2, <2>2, <3>1, <3>2, <3>3, <3>4 DEF Alive
  <2>4. CASE f = g
    <3>1. \A v \in Workers, h \in Handles : ~InHand(v, f, h)'
      <4>1. ASSUME NEW v \in Workers, NEW h \in Handles, InHand(v, f, h)' PROVE FALSE
        <5>1. InHand(v, f, h)
          BY <1>2, <2>2, <4>1
        <5>2. v = w
          BY <2>1, <2>4, <5>1, InHandTouches DEF Undisturbed
        <5> QED
          BY <2>2, <5>1, <5>2 DEF Empty
      <4> QED
        BY <4>1
    <3>2. ASSUME NEW u \in Tracks, NEW n \in Nodes, byNode'[<<u, f>>][n] # NoHandle
          PROVE  <<byNode'[<<u, f>>][n].conn, f>> \in connected'
      <4>1. u # t
        BY <2>1, <2>4, <3>2, ClearedHandles
      <4>2. /\ u # t /\ byNode'[<<u, f>>][n] = byNode[<<u, f>>][n]
            /\ byNode[<<u, f>>][n] # NoHandle
        BY <2>1, <3>2, <4>1, ClearedHandles
      <4>3. byNode[<<u, f>>][n] \in Handles
        BY <4>2 DEF Typed, TypeOK
      <4>4. byFlow[<<u, f>>] # {}
        BY <4>2 DEF HandlesListed, Registered
      <4>5. byFlow[<<t, f>>] = {}
        BY <4>2, <4>4 DEF Undisturbed, Single, Pub, Dra, Tracks
      <4>6. \A m \in Nodes : byNode[<<t, f>>][m] = NoHandle
        BY <4>5 DEF HandlesListed, Registered
      <4>7. byNode[<<u, f>>][n].conn \in Conns /\ <<byNode[<<u, f>>][n].conn, f>> \in connected
        BY <4>2, <4>3 DEF Alive, Handles
      <4>8. <<byNode[<<u, f>>][n].conn, f>> \in connected'
        BY <2>1, <2>4, <4>6, <4>7, ClearedConnections DEF OwnsOne
      <4> QED
        BY <4>2, <4>8
    <3> QED
      BY <3>1, <3>2 DEF Alive
  <2> QED
    BY <2>3, <2>4
<1>5. CASE Takes(w)
  <2>1. PICK g \in Flows, h \in Handles :
            /\ \A l \in Flows, i \in Handles : InHand(w, l, i)' <=> l = g /\ i = h
            /\ UNCHANGED <<byNode, byFlow>>
            /\ \/ Owned(h) /\ h.conn \in Fresh /\ connected' = connected \cup {<<h.conn, g>>}
               \/ /\ ~Owned(h) /\ connected' = connected
                  /\ \E t \in Tracks, n \in Nodes : /\ byNode[<<t, g>>][n] # NoHandle
                                                    /\ byNode[<<t, g>>][n].conn = h.conn
    BY <1>5 DEF Takes
  <2>2. f = g => <<h.conn, f>> \in connected'
    BY <2>1 DEF Alive
  <2>3. connected \subseteq connected'
    BY <2>1
  <2>4. ASSUME NEW v \in Workers, NEW i \in Handles, InHand(v, f, i)'
        PROVE  <<i.conn, f>> \in connected'
    BY <1>1, <2>1, <2>2, <2>3, <2>4 DEF Alive
  <2> QED
    BY <2>1, <2>3, <2>4 DEF Alive
<1>6. CASE Puts(w)
  <2>1. PICK g \in Flows, h \in Handles, t \in Tracks, n \in Nodes :
            /\ InHand(w, g, h) /\ Empty(w)' /\ connected' = connected
            /\ byNode' = [byNode EXCEPT ![<<t, g>>][n] = h]
    BY <1>6 DEF Puts
  <2>2. ASSUME NEW u \in Tracks, NEW m \in Nodes, byNode'[<<u, f>>][m] # NoHandle
        PROVE  <<byNode'[<<u, f>>][m].conn, f>> \in connected'
    <3>1. CASE u = t /\ f = g /\ m = n
      <4>1. byNode'[<<u, f>>][m] = h
        BY <2>1, <3>1 DEF Typed, TypeOK
      <4> QED
        BY <2>1, <3>1, <4>1 DEF Alive
    <3>2. CASE ~(u = t /\ f = g /\ m = n)
      <4>1. byNode'[<<u, f>>][m] = byNode[<<u, f>>][m]
        BY <2>1, <3>2 DEF Typed, TypeOK
      <4> QED
        BY <2>1, <2>2, <4>1 DEF Alive
    <3> QED
      BY <3>1, <3>2
  <2> QED
    BY <1>2, <2>1, <2>2 DEF Alive
<1> QED
  BY <1>3, <1>4, <1>5, <1>6 DEF Moves

LEMMA OwnerStep ==
    ASSUME Typed, HandlesListed, OneFlow, DistinctIds, NEW w \in Workers, NEW k, Turns(w, k),
           Moves(w), NEW f \in Flows, Undisturbed(f), NEW c \in Conns, <<c, f>> \in connected',
           <<c, f>> \in connected => OneOwner(c, f)
    PROVE  OneOwner(c, f)'
<1>1. ASSUME NEW v \in Workers \ {w}
      PROVE  v \in Carriers(c)' <=> v \in Carriers(c)
  BY OthersKeep DEF Carriers
<1>2. (Empty(w) => w \notin Carriers(c)) /\ (Empty(w)' => w \notin Carriers(c)')
  BY DEF Empty, Carriers
<1>3. Carriers(c) \subseteq Workers /\ Carriers(c)' \subseteq Workers
  BY DEF Carriers
<1>4. ASSUME w \notin Carriers(c), w \notin Carriers(c)' PROVE Carriers(c)' = Carriers(c)
  BY <1>1, <1>3, <1>4
<1>5. ASSUME <<c, f>> \in connected, Owners(c, f)' = Owners(c, f), Carriers(c)' = Carriers(c)
      PROVE  OneOwner(c, f)'
  BY <1>5 DEF OneOwner
<1>6. ASSUME \A t \in Tracks, n \in Nodes : byNode'[<<t, f>>][n] = byNode[<<t, f>>][n]
      PROVE  Owners(c, f)' = Owners(c, f)
  BY <1>6 DEF Owners
<1>7. CASE Stays(w)
  <2>1. UNCHANGED <<byNode, connected>>
    BY <1>7 DEF Stays, tableVars
  <2>2. Carriers(c)' = Carriers(c)
    BY <1>2, <1>4, <1>7 DEF Stays
  <2> QED
    BY <1>5, <1>6, <2>1, <2>2
<1>8. CASE Clears(w)
  <2>1. PICK t \in Tracks, g \in Flows : RemoveTrack(t, g)
    BY <1>8 DEF Clears
  <2>2. Carriers(c)' = Carriers(c)
    BY <1>2, <1>4, <1>8 DEF Clears
  <2>3. /\ <<c, f>> \in connected
        /\ ~(f = g /\ OwnsOne(t, g, c))
    BY <2>1, ClearedConnections
  <2>4. ASSUME NEW u \in Tracks, NEW n \in Nodes
        PROVE  <<u, n>> \in Owners(c, f)' <=> <<u, n>> \in Owners(c, f)
    <3>1. CASE u = t /\ f = g
      <4>1. byNode'[<<u, f>>][n] = NoHandle
        BY <2>1, <3>1, ClearedHandles
      <4> QED
        BY <2>3, <3>1, <4>1 DEF Owners, OwnsOne
    <3>2. CASE ~(u = t /\ f = g)
      <4>1. byNode'[<<u, f>>][n] = byNode[<<u, f>>][n]
        BY <2>1, <3>2, ClearedHandles
      <4> QED
        BY <4>1 DEF Owners
    <3> QED
      BY <3>1, <3>2
  <2>5. Owners(c, f) \subseteq Tracks \X Nodes /\ Owners(c, f)' \subseteq Tracks \X Nodes
    BY DEF Owners
  <2>6. Owners(c, f)' = Owners(c, f)
    BY <2>4, <2>5
  <2> QED
    BY <1>5, <2>2, <2>3, <2>6
<1>9. CASE Takes(w)
  <2>1. PICK g \in Flows, h \in Handles :
            /\ Empty(w) /\ \A l \in Flows, i \in Handles : InHand(w, l, i)' <=> l = g /\ i = h
            /\ UNCHANGED <<byNode, byFlow>>
            /\ \/ Owned(h) /\ h.conn \in Fresh /\ connected' = connected \cup {<<h.conn, g>>}
               \/ ~Owned(h) /\ connected' = connected
    BY <1>9 DEF Takes
  <2>2. Owners(c, f)' = Owners(c, f)
    BY <1>6, <2>1
  <2>3. CASE c = h.conn /\ Owned(h)
    <3>1. c \in Fresh
      BY <2>1, <2>3
    <3>2. Owners(c, f) = {}
      BY <3>1 DEF Owners, Fresh
    <3>3. Carriers(c) = {}
      BY <3>1, HandlesAssumption DEF Carriers, InHand, Fresh
    <3>4. w \in Carriers(c)'
      BY <2>1, <2>3 DEF Carriers
    <3>5. Carriers(c)' = {w}
      BY <1>1, <1>3, <3>3, <3>4
    <3> QED
      BY <2>2, <3>2, <3>5 DEF OneOwner
  <2>4. CASE ~(c = h.conn /\ Owned(h))
    <3>1. w \notin Carriers(c)'
      BY <2>1, <2>4 DEF Carriers
    <3>2. Carriers(c)' = Carriers(c)
      BY <1>2, <1>4, <2>1, <3>1
    <3>3. <<c, f>> \in connected
      BY <2>1, <2>4
    <3> QED
      BY <1>5, <2>2, <3>2, <3>3
  <2> QED
    BY <2>3, <2>4
<1>10. CASE Puts(w)
  <2>1. PICK g \in Flows, h \in Handles, t \in Tracks, n \in Nodes :
            /\ \A l \in Flows, i \in Handles : InHand(w, l, i) <=> l = g /\ i = h
            /\ Empty(w)' /\ connected' = connected
            /\ byNode' = [byNode EXCEPT ![<<t, g>>][n] = h]
            /\ DistinctIds /\ HandlesListed /\ Undisturbed(g) => byNode[<<t, g>>][n] = NoHandle
    BY <1>10 DEF Puts
  <2>2. w \notin Carriers(c)' /\ <<c, f>> \in connected /\ OneOwner(c, f)
    BY <1>2, <2>1
  <2>3. ASSUME NEW u \in Tracks, NEW m \in Nodes
        PROVE  byNode'[<<u, f>>][m] = IF u = t /\ f = g /\ m = n THEN h ELSE byNode[<<u, f>>][m]
    <3>1. CASE u = t /\ f = g /\ m = n
      BY <2>1, <3>1 DEF Typed, TypeOK
    <3>2. CASE ~(u = t /\ f = g /\ m = n)
      BY <2>1, <3>2 DEF Typed, TypeOK
    <3> QED
      BY <3>1, <3>2
  <2>4. CASE c = h.conn /\ Owned(h)
    <3>1. w \in Carriers(c)
      BY <2>1, <2>4 DEF Carriers
    <3>2. Carriers(c) = {w} /\ Owners(c, f) = {}
      BY <2>2, <3>1 DEF OneOwner
    <3>3. Carriers(c)' = {}
      BY <1>1, <1>3, <2>2, <3>2
    <3>4. f = g
      <4>1. Refers(c, g) /\ Refers(c, f)
        BY <2>1, <2>2, <2>4 DEF Refers
      <4> QED
        BY <4>1 DEF OneFlow
    <3>5. ASSUME NEW u \in Tracks, NEW m \in Nodes
          PROVE  <<u, m>> \in Owners(c, f)' <=> u = t /\ m = n
      <4>1. <<u, m>> \notin Owners(c, f)
        BY <3>2
      <4> QED
        BY <2>3, <2>4, <3>4, <4>1, HandlesAssumption DEF Owners
    <3>6. Owners(c, f)' \subseteq Tracks \X Nodes
      BY DEF Owners
    <3>7. Owners(c, f)' = {<<t, n>>}
      BY <3>5, <3>6
    <3> QED
      BY <3>3, <3>7 DEF OneOwner
  <2>5. CASE ~(c = h.conn /\ Owned(h))
    <3>1. w \notin Carriers(c)
      BY <2>1, <2>5 DEF Carriers
    <3>2. Carriers(c)' = Carriers(c)
      BY <1>4, <2>2, <3>1
    <3>3. ASSUME NEW u \in Tracks, NEW m \in Nodes
          PROVE  <<u, m>> \in Owners(c, f)' <=> <<u, m>> \in Owners(c, f)
      <4>1. CASE u = t /\ f = g /\ m = n
        BY <2>1, <2>3, <2>5, <4>1 DEF Owners
      <4>2. CASE ~(u = t /\ f = g /\ m = n)
        BY <2>3, <4>2 DEF Owners
      <4> QED
        BY <4>1, <4>2
    <3>4. Owners(c, f) \subseteq Tracks \X Nodes /\ Owners(c, f)' \subseteq Tracks \X Nodes
      BY DEF Owners
    <3>5. Owners(c, f)' = Owners(c, f)
      BY <3>3, <3>4
    <3> QED
      BY <1>5, <2>2, <3>2, <3>5
  <2> QED
    BY <2>4, <2>5
<1> QED
  BY <1>7, <1>8, <1>9, <1>10 DEF Moves

LEMMA ConnsInit ==
    ASSUME Init
    PROVE  ConnsInv
<1>1. PICK w \in Workers :
          job = [v \in Workers |->
                    IF v = w THEN [Idle("boot", "open", NoFlow, NoSession) EXCEPT !.todo = Listed]
                    ELSE NoJob]
  BY DEF Init
<1>2. \A v \in Workers : job[v] = NoJob \/ job[v].held = NoHandle
  BY <1>1 DEF Idle
<1>3. \A v \in Workers, f \in Flows, h \in Handles : ~InHand(v, f, h)
  BY <1>2, HandlesAssumption DEF InHand, Underway
<1>4. connected = {} /\ \A t \in Tracks, f \in Flows, n \in Nodes : byNode[<<t, f>>][n] = NoHandle
  BY DEF Init
<1>5. \A c \in Conns, f \in Flows : ~Refers(c, f)
  BY <1>3, <1>4 DEF Refers
<1> QED
  BY <1>3, <1>4, <1>5 DEF ConnsInv, OneFlow, Alive

LEMMA ConnsStep ==
    ASSUME Typed, HandlesListed, FlowsInv, ConnsInv, [Next]_vars
    PROVE  ConnsInv'
<1>1. ASSUME NEW w \in Workers, Request(w) \/ Sync(w) \/ Session(w) PROVE ConnsInv'
  <2>1. Moves(w)
    BY <1>1, StepMoves DEF FlowsInv
  <2>2. PICK k : Turns(w, k)
    BY <1>1, StepResult DEF Result, FlowsInv
  <2>3. OneFlow'
    BY <2>1, <2>2, OneFlowStep DEF ConnsInv
  <2>4. ASSUME NEW f \in Flows, f \notin disturbed' PROVE Undisturbed(f) /\ f \notin disturbed
    BY <2>2, <2>4 DEF Turns, FlowsInv, FlowsKept
  <2>5. ASSUME NEW f \in Flows, f \notin disturbed' PROVE Alive(f)'
    BY <2>1, <2>2, <2>4, <2>5, AliveStep DEF ConnsInv
  <2>6. ASSUME DistinctIds, NEW f \in Flows, f \notin disturbed', NEW c \in Conns,
               <<c, f>> \in connected'
        PROVE  OneOwner(c, f)'
    BY <2>1, <2>2, <2>4, <2>6, OwnerStep DEF ConnsInv
  <2> QED
    BY <2>3, <2>5, <2>6 DEF ConnsInv, DistinctIds
<1>2. CASE UNCHANGED vars
  <2>1. \A v, f, h : InHand(v, f, h)' <=> InHand(v, f, h)
    BY <1>2 DEF vars, InHand, Underway
  <2>2. UNCHANGED <<byNode, connected, disturbed>>
    BY <1>2 DEF vars
  <2>3. \A c, f : Refers(c, f)' <=> Refers(c, f)
    BY <2>1, <2>2 DEF Refers
  <2>4. \A f : Alive(f)' <=> Alive(f)
    BY <2>1, <2>2 DEF Alive
  <2>5. \A c, f : OneOwner(c, f)' <=> OneOwner(c, f)
    <3>1. \A c, f : Owners(c, f)' = Owners(c, f)
      BY <2>2 DEF Owners
    <3>2. \A c : Carriers(c)' = Carriers(c)
      BY <2>1 DEF Carriers
    <3> QED
      BY <3>1, <3>2 DEF OneOwner
  <2> QED
    BY <2>2, <2>3, <2>4, <2>5 DEF ConnsInv, OneFlow, DistinctIds
<1> QED
  BY <1>1, <1>2 DEF Next

LEMMA ConnsCorrect == Spec => []ConnsInv
<1>1. Typed /\ HandlesListed /\ FlowsInv /\ ConnsInv /\ [Next]_vars => ConnsInv'
  BY ConnsStep
<1>2. Init => ConnsInv
  BY ConnsInit
<1> QED
  BY <1>1, <1>2, TypedCorrect, HandlesCorrect, FlowsCorrect, PTL DEF Spec

\* Publisher never hands out a connection that was closed: on a flow on which no two jobs
\* have overlapped, a handle goes with its connection, an mqttOut that reuses one included.
THEOREM AliveCorrect == Spec => []HandlesAlive
<1>1. ConnsInv => HandlesAlive
  BY DEF ConnsInv, Alive, HandlesAlive
<1> QED
  BY <1>1, ConnsCorrect, PTL

\* The workers that carry a connection of a flow are those with a handle that owns it.
LEMMA CarriersAre ==
    ASSUME Typed, Shaped, NEW c \in Conns
    PROVE  Carriers(c) = {w \in Underway : /\ job[w].held # NoHandle /\ job[w].held.conn = c
                                           /\ Owned(job[w].held)}
<1>1. ASSUME NEW w \in Underway, job[w].held # NoHandle
      PROVE  job[w].held \in Handles /\ job[w].flow \in Flows
  <2>1. job[w].at = "register"
    BY <1>1 DEF Shaped, Shape
  <2>2. At(w, "register") /\ w \in Workers
    BY <2>1 DEF At, Underway
  <2> QED
    BY <1>1, <2>2, AtPlace DEF Fits, Jobs, OnFlow
<1>2. ASSUME NEW w \in Carriers(c)
      PROVE  w \in Underway /\ job[w].held # NoHandle /\ job[w].held.conn = c /\ Owned(job[w].held)
  BY HandlesAssumption DEF Carriers, InHand
<1>3. ASSUME NEW w \in Underway, job[w].held # NoHandle, job[w].held.conn = c, Owned(job[w].held)
      PROVE  w \in Carriers(c)
  BY <1>1, <1>3 DEF Carriers, InHand, Underway
<1> QED
  BY <1>2, <1>3

\* No connection of such a flow leaks: one handle, or one job about to register it, is to
\* disconnect it; reconnecting, failing, taking offline and leaving never lose it.  This takes
\* the ids of the nodes of a definition to be distinct, which registerLocked does not check:
\* a second node of the same id takes the place of the first, whose connection stays up.
THEOREM ConnectionsCorrect ==
    ASSUME DistinctIds
    PROVE  Spec => []ConnectionsHeld
<1>1. ASSUME Typed, Shaped, NEW c \in Conns, NEW f \in Flows, OneOwner(c, f)
      PROVE  Cardinality(Owners(c, f)) + Cardinality(Carriers(c)) = 1
  <2>1. Cardinality({}) = 0 /\ \A x : Cardinality({x}) = 1
    BY FS_EmptySet, FS_Singleton
  <2>2. CASE Carriers(c) = {} /\ \E tn : Owners(c, f) = {tn}
    <3>1. Cardinality(Owners(c, f)) = 1 /\ Cardinality(Carriers(c)) = 0
      BY <2>1, <2>2, Zenon
    <3> QED
      BY <3>1
  <2>3. CASE Owners(c, f) = {} /\ \E v : Carriers(c) = {v}
    <3>1. Cardinality(Owners(c, f)) = 0 /\ Cardinality(Carriers(c)) = 1
      BY <2>1, <2>3, Zenon
    <3> QED
      BY <3>1
  <2> QED
    BY <1>1, <2>2, <2>3 DEF OneOwner
<1>2. Typed /\ FlowsInv /\ ConnsInv => ConnectionsHeld
  <2> SUFFICES ASSUME Typed, Shaped, ConnsInv, NEW c \in Conns, NEW f \in Flows \ disturbed,
                      <<c, f>> \in connected
               PROVE  Cardinality(Owners(c, f))
                      + Cardinality({w \in Underway : /\ job[w].held # NoHandle
                                                      /\ job[w].held.conn = c
                                                      /\ Owned(job[w].held)}) = 1
    BY DEF ConnectionsHeld, Owners, FlowsInv
  <2>1. OneOwner(c, f)
    BY DEF ConnsInv
  <2> QED
    BY <1>1, <2>1, CarriersAre
<1> QED
  BY <1>2, TypedCorrect, FlowsCorrect, ConnsCorrect, PTL
=============================================================================
