--------------------------- MODULE PluginHostProofs ---------------------------
(***************************************************************************)
(* What the plugin host keeps, for every set of plugins, types, processes, *)
(* requests at once and executables.                                       *)
(***************************************************************************)
EXTENDS PluginHost, TLAPS

Flags == {"none", "enabled", "disabled"}
Kinds == {"install", "enable", "disable", "uninstall", "boot"}
Uploading == {"clear", "mkdir", "copy", "manifest", "discard"}
Reading == {"read", "unload", "start"}
OnProcess == {"register", "store"}
Places == Uploading \cup {"flag", "drop", "remove"} \cup Reading \cup OnProcess

\* What a job is where it is.
Fits(j) ==
    /\ j.at \in Uploading => j.kind = "install"
    /\ j.at = "flag" => j.kind \in {"enable", "disable"}
    /\ j.at = "drop" => j.kind \in {"enable", "disable", "uninstall"}
    /\ j.at = "remove" => j.kind = "uninstall"
    /\ j.at \in OnProcess => j.proc \in Procs
    /\ j.at \notin OnProcess \cup {"discard"} => j.types = {}

Good == {j \in Jobs : Fits(j)}

Typed == TypeOK /\ job \in [Workers -> Good \cup {NoJob}]

----------------------------------------------------------------------------
(* Records.                                                                *)

LEMMA JobForms ==
    ASSUME NEW j \in Jobs, NEW at \in Places
    PROVE  /\ [j EXCEPT !.at = at] \in Jobs
           /\ \A r \in Procs, s \in Seq(Types) :
                  [j EXCEPT !.at = at, !.proc = r, !.left = s] \in Jobs
  BY ZenonT(60) DEF Jobs, Places, Uploading, Reading, OnProcess

LEMMA RegisteredForms ==
    ASSUME NEW j \in Jobs, NEW s \in Seq(Types), NEW ts \in SUBSET Types
    PROVE  [j EXCEPT !.left = s, !.types = ts] \in Jobs
  BY DEF Jobs

LEMMA DirForms ==
    ASSUME NEW d \in Dirs
    PROVE  /\ \A b \in Binaries \cup {NoBinary} : [d EXCEPT !.binary = b] \in Dirs
           /\ \A m \in Flags : /\ [d EXCEPT !.manifest = m] \in Dirs
                               /\ [d EXCEPT !.manifest = m].manifest = m
  BY DEF Dirs, Flags

\* Writing a manifest leaves no directory, or one that says what was written.
LEMMA Written ==
    ASSUME NEW d \in Dirs \cup {Absent}, NEW m \in Flags
    PROVE  /\ writeManifest(d, m) \in Dirs \cup {Absent}
           /\ d = Absent => writeManifest(d, m) = Absent
           /\ d # Absent => writeManifest(d, m) # Absent /\ writeManifest(d, m).manifest = m
<1>1. CASE d = Absent
  BY <1>1 DEF writeManifest
<1>2. CASE d # Absent
  <2>1. d \in Dirs
    BY <1>2
  <2>2. [d EXCEPT !.manifest = m] \in Dirs /\ [d EXCEPT !.manifest = m].manifest = m
    BY <2>1, DirForms
  <2> QED
    BY <1>2, <2>2, RecordsAssumption DEF writeManifest
<1> QED
  BY <1>1, <1>2

\* A worker at a place has a job that fits.
LEMMA AtPlace ==
    ASSUME Typed, NEW w \in Workers, NEW place, At(w, place)
    PROVE  /\ w \in Underway /\ job[w] \in Good /\ job[w] \in Jobs /\ job[w].at = place
           /\ Fits(job[w]) /\ job[w].plugin \in Plugins
  BY DEF Typed, At, Underway, Good, Jobs

\* A job that goes somewhere else stays the job it is.
LEMMA Going ==
    ASSUME Typed, NEW w \in Workers, w \in Underway, NEW at \in Places,
           at \in Uploading => job[w].kind = "install",
           at = "flag" => job[w].kind \in {"enable", "disable"},
           at = "drop" => job[w].kind \in {"enable", "disable", "uninstall"},
           at = "remove" => job[w].kind = "uninstall",
           at \in OnProcess => job[w].proc \in Procs,
           at \notin OnProcess \cup {"discard"} => job[w].types = {},
           GoTo(w, at)
    PROVE  \E j \in Good : /\ job' = [job EXCEPT ![w] = j] /\ j.at = at
                           /\ j.plugin = job[w].plugin /\ j.kind = job[w].kind
                           /\ j.proc = job[w].proc /\ j.types = job[w].types
<1> DEFINE j == [job[w] EXCEPT !.at = at]
<1>1. job[w] \in Jobs
  BY DEF Typed, Underway, Good
<1>2. j \in Jobs
  BY <1>1, JobForms
<1>3. /\ j.at = at /\ j.plugin = job[w].plugin /\ j.kind = job[w].kind
      /\ j.proc = job[w].proc /\ j.types = job[w].types
  BY <1>1 DEF Jobs
<1>4. job' = [job EXCEPT ![w] = j]
  BY DEF GoTo
<1>5. j \in Good
  BY <1>2, <1>3 DEF Good, Fits
<1> QED
  BY <1>3, <1>4, <1>5

----------------------------------------------------------------------------
(* Processes.  A process is kept by the plugin that is loaded with it or carried by the    *)
(* job that started it.                                                                    *)

Carry(j) ==
    IF j # NoJob /\ j.at \in OnProcess THEN [proc |-> j.proc, types |-> j.types] ELSE NotLoaded

carried == [w \in Workers |-> Carry(job[w])]

\* No two keep the same process, and what is kept runs.
Held ==
    /\ \A p \in Plugins : loaded[p] # NotLoaded => loaded[p].proc \in running
    /\ \A w \in Workers : carried[w] # NotLoaded => carried[w].proc \in running
    /\ \A p, q \in Plugins :
           loaded[p] # NotLoaded /\ loaded[q] # NotLoaded /\ loaded[p].proc = loaded[q].proc
               => p = q
    /\ \A v, w \in Workers :
           carried[v] # NotLoaded /\ carried[w] # NotLoaded /\ carried[v].proc = carried[w].proc
               => v = w
    /\ \A p \in Plugins, w \in Workers :
           loaded[p] # NotLoaded /\ carried[w] # NotLoaded => loaded[p].proc # carried[w].proc

\* A type is registered for a process that runs, and whoever keeps the process lists the type.
Alive ==
    \A t \in Types \ stranded :
        registry[t] \in Procs =>
            /\ registry[t] \in running
            /\ \A p \in Plugins :
                   loaded[p] # NotLoaded /\ loaded[p].proc = registry[t] => t \in loaded[p].types
            /\ \A w \in Workers :
                   carried[w] # NotLoaded /\ carried[w].proc = registry[t] => t \in carried[w].types

\* What is listed is registered, but for what another has taken.
Served ==
    /\ \A p \in Plugins : loaded[p] # NotLoaded =>
           \A t \in loaded[p].types \ contested : registry[t] = loaded[p].proc
    /\ \A w \in Workers : carried[w] # NotLoaded =>
           \A t \in carried[w].types \ contested : registry[t] = carried[w].proc

Kept(r) ==
    \/ \E p \in Plugins : loaded[p] # NotLoaded /\ loaded[p].proc = r
    \/ \E w \in Workers : carried[w] # NotLoaded /\ carried[w].proc = r

Accounted == raced = {} => \A r \in running : Kept(r)

Processes == Held /\ Alive /\ Served /\ Accounted

Formed ==
    /\ loaded \in [Plugins -> Loads \cup {NotLoaded}]
    /\ carried \in [Workers -> Loads \cup {NotLoaded}]
    /\ registry \in [Types -> Procs \cup {Builtin, NoOwner}]
    /\ running \subseteq Procs

LEMMA TypedFormed ==
    ASSUME Typed
    PROVE  Formed
<1>1. ASSUME NEW w \in Workers PROVE Carry(job[w]) \in Loads \cup {NotLoaded}
  BY <1>1 DEF Typed, Good, Fits, Jobs, Carry, Loads
<1> QED
  BY <1>1 DEF Typed, TypeOK, Formed, carried

\* A worker that gets another job carries what that job does.
LEMMA CarriedStep ==
    ASSUME Typed, NEW w \in Workers, NEW j, job' = [job EXCEPT ![w] = j]
    PROVE  carried' = [carried EXCEPT ![w] = Carry(j)]
<1>1. ASSUME NEW v \in Workers PROVE job'[v] = IF v = w THEN j ELSE job[v]
  BY DEF Typed, TypeOK
<1> QED
  BY <1>1 DEF carried, Carry

LEMMA CarriedSame ==
    ASSUME Typed, NEW w \in Workers, NEW j, job' = [job EXCEPT ![w] = j],
           Carry(j) = Carry(job[w])
    PROVE  carried' = carried
  BY CarriedStep DEF carried

\* Steps that neither start, end, register nor hand over a process.
LEMMA Quiet ==
    ASSUME Processes, carried' = carried, raced \subseteq raced',
           UNCHANGED <<registry, running, loaded, contested, stranded>>
    PROVE  Processes'
  BY DEF Processes, Held, Alive, Served, Accounted, Kept

LEMMA Unloading ==
    ASSUME Processes, Formed, NEW p \in Plugins, UnloadLocked(p), carried' = carried,
           UNCHANGED <<raced, contested, stranded>>
    PROVE  Processes'
<1>1. CASE loaded[p] = NotLoaded
  <2>1. registry' = registry /\ running' = running /\ loaded' = loaded
    BY <1>1 DEF UnloadLocked, Formed
  <2> QED
    BY <2>1, Quiet
<1>2. CASE loaded[p] # NotLoaded
  <2> DEFINE r == loaded[p].proc
             ts == loaded[p].types
  <2>1. /\ registry' = [t \in Types |-> IF t \in ts THEN NoOwner ELSE registry[t]]
        /\ running' = running \ {r}
        /\ loaded' = [loaded EXCEPT ![p] = NotLoaded]
    BY <1>2 DEF UnloadLocked
  <2>2. \A q \in Plugins : loaded'[q] # NotLoaded =>
            loaded'[q] = loaded[q] /\ loaded[q] # NotLoaded /\ q # p /\ loaded[q].proc # r
    BY <1>2, <2>1 DEF Formed, Processes, Held
  <2>3. \A w \in Workers : carried'[w] = carried[w]
                           /\ (carried[w] # NotLoaded => carried[w].proc # r)
    BY <1>2 DEF Processes, Held
  <2>4. \A t \in Types : registry'[t] = IF t \in ts THEN NoOwner ELSE registry[t]
    BY <2>1
  <2>5. Held'
    BY <2>1, <2>2, <2>3 DEF Processes, Held
  <2>6. Alive'
    <3> SUFFICES ASSUME NEW t \in Types \ stranded, registry'[t] \in Procs
                 PROVE  /\ registry'[t] \in running'
                        /\ \A q \in Plugins :
                               loaded'[q] # NotLoaded /\ loaded'[q].proc = registry'[t]
                                   => t \in loaded'[q].types
                        /\ \A w \in Workers :
                               carried'[w] # NotLoaded /\ carried'[w].proc = registry'[t]
                                   => t \in carried'[w].types
      BY DEF Alive
    <3>1. t \notin ts /\ registry'[t] = registry[t]
      BY <2>4, NullsAssumption
    <3>2. registry[t] # r
      BY <1>2, <3>1 DEF Processes, Alive
    <3> QED
      BY <2>1, <2>2, <2>3, <3>1, <3>2 DEF Processes, Alive
  <2>7. Served'
    <3>1. ASSUME NEW q \in Plugins, loaded'[q] # NotLoaded, NEW t \in loaded'[q].types \ contested
          PROVE  registry'[t] = loaded'[q].proc
      <4>1. loaded'[q] = loaded[q] /\ loaded[q] # NotLoaded /\ loaded[q].proc # r
        BY <2>2, <3>1
      <4>2. t \in Types
        BY <4>1, <3>1 DEF Formed, Loads
      <4>3. registry[t] = loaded[q].proc
        BY <4>1, <3>1 DEF Processes, Served
      <4>4. t \notin ts
        BY <1>2, <3>1, <4>1, <4>3 DEF Processes, Served
      <4> QED
        BY <2>4, <4>1, <4>2, <4>3, <4>4
    <3>2. ASSUME NEW w \in Workers, carried[w] # NotLoaded, NEW t \in carried[w].types \ contested
          PROVE  registry'[t] = carried[w].proc
      <4>1. carried[w].proc # r
        BY <2>3, <3>2
      <4>2. t \in Types
        BY <3>2 DEF Formed, Loads
      <4>3. registry[t] = carried[w].proc
        BY <3>2 DEF Processes, Served
      <4>4. t \notin ts
        BY <1>2, <3>2, <4>1, <4>3 DEF Processes, Served
      <4> QED
        BY <2>4, <4>2, <4>3, <4>4
    <3> QED
      BY <3>1, <3>2, <2>3 DEF Served
  <2>8. Accounted'
    <3> SUFFICES ASSUME raced = {}, NEW s \in running, s # r PROVE Kept(s)'
      BY <2>1 DEF Accounted
    <3>1. Kept(s)
      BY DEF Processes, Accounted
    <3>2. ASSUME NEW q \in Plugins, loaded[q] # NotLoaded, loaded[q].proc = s PROVE Kept(s)'
      <4>1. q # p
        BY <3>2
      <4>2. loaded'[q] = loaded[q]
        BY <4>1, <2>1 DEF Formed
      <4> QED
        BY <3>2, <4>2 DEF Kept
    <3> QED
      BY <3>1, <3>2, <2>3 DEF Kept
  <2> QED
    BY <2>5, <2>6, <2>7, <2>8 DEF Processes
<1> QED
  BY <1>1, <1>2

LEMMA Starting ==
    ASSUME Processes, Formed, NEW w \in Workers, NEW r \in Procs, carried[w] = NotLoaded,
           r \notin running, \A t \in Types : registry[t] # r, running' = running \cup {r},
           carried' = [carried EXCEPT ![w] = [proc |-> r, types |-> {}]],
           UNCHANGED <<registry, loaded, raced, contested, stranded>>
    PROVE  Processes'
<1> DEFINE l == [proc |-> r, types |-> {}]
<1>1. l.proc = r /\ l.types = {} /\ l # NotLoaded
  BY RecordsAssumption DEF Loads
<1>2. carried'[w] = l /\ \A v \in Workers \ {w} : carried'[v] = carried[v]
  BY DEF Formed
<1> HIDE DEF l
<1>3. Held'
  BY <1>1, <1>2 DEF Processes, Held
<1>4. Alive'
  BY <1>1, <1>2 DEF Processes, Alive
<1>5. Served'
  BY <1>1, <1>2 DEF Processes, Served
<1>6. Accounted'
  <2> SUFFICES ASSUME raced = {}, NEW s \in running \cup {r} PROVE Kept(s)'
    BY DEF Accounted
  <2>1. CASE s = r
    BY <1>1, <1>2, <2>1 DEF Kept
  <2>2. CASE s # r
    <3>1. Kept(s)
      BY <2>2 DEF Processes, Accounted
    <3>2. \A v \in Workers : carried[v] # NotLoaded => v # w
      OBVIOUS
    <3> QED
      BY <3>1, <3>2, <1>2 DEF Kept
  <2> QED
    BY <2>1, <2>2
<1> QED
  BY <1>3, <1>4, <1>5, <1>6 DEF Processes

LEMMA Registering ==
    ASSUME Processes, Formed, NEW w \in Workers, carried[w] # NotLoaded, NEW t \in Types,
           registry' = [registry EXCEPT ![t] = carried[w].proc],
           carried' = [carried EXCEPT ![w] =
                          [proc |-> carried[w].proc, types |-> carried[w].types \cup {t}]],
           contested' = contested \cup
                (IF registry[t] \in running \ {carried[w].proc} THEN {t} ELSE {}),
           stranded' = stranded \ {t},
           UNCHANGED <<running, loaded, raced>>
    PROVE  Processes'
<1> DEFINE r == carried[w].proc
           l == [proc |-> r, types |-> carried[w].types \cup {t}]
<1>1. r \in Procs /\ carried[w].types \subseteq Types /\ r \in running
  BY DEF Formed, Loads, Processes, Held
<1>2. l.proc = r /\ l.types = carried[w].types \cup {t} /\ l # NotLoaded
  <2>1. l \in Loads
    BY <1>1 DEF Loads
  <2> QED
    BY <2>1, RecordsAssumption
<1>3. carried'[w] = l /\ \A v \in Workers \ {w} : carried'[v] = carried[v]
  BY DEF Formed
<1>4. registry'[t] = r /\ \A u \in Types \ {t} : registry'[u] = registry[u]
  BY DEF Formed
<1>5. \A p \in Plugins : loaded[p] # NotLoaded => loaded[p].proc # r
  BY DEF Processes, Held
<1>6. \A v \in Workers \ {w} : carried[v] # NotLoaded => carried[v].proc # r
  BY DEF Processes, Held
<1> HIDE DEF l, r
<1>7. Held'
  BY <1>1, <1>2, <1>3, <1>5, <1>6 DEF Processes, Held
<1>8. Alive'
  <2> SUFFICES ASSUME NEW u \in Types \ stranded', registry'[u] \in Procs
               PROVE  /\ registry'[u] \in running
                      /\ \A q \in Plugins :
                             loaded[q] # NotLoaded /\ loaded[q].proc = registry'[u]
                                 => u \in loaded[q].types
                      /\ \A v \in Workers :
                             carried'[v] # NotLoaded /\ carried'[v].proc = registry'[u]
                                 => u \in carried'[v].types
    BY DEF Alive
  <2>1. CASE u = t
    BY <2>1, <1>1, <1>2, <1>3, <1>4, <1>5, <1>6
  <2>2. CASE u # t
    <3>1. registry'[u] = registry[u] /\ u \in Types \ stranded
      BY <2>2, <1>4
    <3>2. carried[w] # NotLoaded /\ (registry[u] = r => u \in carried[w].types)
      BY <3>1, <1>1 DEF Processes, Alive, r
    <3> QED
      BY <3>1, <3>2, <1>2, <1>3 DEF Processes, Alive
  <2> QED
    BY <2>1, <2>2
<1>9. Served'
  <2>1. ASSUME NEW q \in Plugins, loaded[q] # NotLoaded, NEW u \in loaded[q].types \ contested'
        PROVE  registry'[u] = loaded[q].proc
    <3>1. u \in Types /\ u \notin contested
      BY <2>1 DEF Formed, Loads
    <3>2. registry[u] = loaded[q].proc /\ loaded[q].proc \in running
      BY <2>1, <3>1 DEF Processes, Served, Held
    <3>3. u # t
      BY <2>1, <3>2, <1>5 DEF r
    <3> QED
      BY <3>1, <3>2, <3>3, <1>4
  <2>2. ASSUME NEW v \in Workers \ {w}, carried[v] # NotLoaded,
               NEW u \in carried[v].types \ contested'
        PROVE  registry'[u] = carried[v].proc
    <3>1. u \in Types /\ u \notin contested
      BY <2>2 DEF Formed, Loads
    <3>2. registry[u] = carried[v].proc /\ carried[v].proc \in running
      BY <2>2, <3>1 DEF Processes, Served, Held
    <3>3. u # t
      BY <2>2, <3>2, <1>6 DEF r
    <3> QED
      BY <3>1, <3>2, <3>3, <1>4
  <2>3. ASSUME NEW u \in carried[w].types \cup {t}, u \notin contested'
        PROVE  registry'[u] = r
    <3>1. CASE u = t
      BY <3>1, <1>4
    <3>2. CASE u # t
      <4>1. u \in Types /\ u \notin contested /\ u \in carried[w].types
        BY <2>3, <3>2, <1>1
      <4>2. registry[u] = r
        BY <4>1 DEF Processes, Served, r
      <4> QED
        BY <4>1, <4>2, <3>2, <1>4
    <3> QED
      BY <3>1, <3>2
  <2> QED
    BY <2>1, <2>2, <2>3, <1>2, <1>3 DEF Served
<1>10. Accounted'
  <2> SUFFICES ASSUME raced = {}, NEW s \in running PROVE Kept(s)'
    BY DEF Accounted
  <2>1. Kept(s)
    BY DEF Processes, Accounted
  <2>2. CASE s = r
    BY <2>2, <1>2, <1>3 DEF Kept
  <2>3. CASE s # r
    <3>1. \A v \in Workers : carried[v] # NotLoaded /\ carried[v].proc = s => v # w
      BY <2>3 DEF r
    <3> QED
      BY <2>1, <3>1, <1>3 DEF Kept
  <2> QED
    BY <2>2, <2>3
<1> QED
  BY <1>7, <1>8, <1>9, <1>10 DEF Processes

LEMMA Refusing ==
    ASSUME Processes, Formed, NEW w \in Workers, carried[w] # NotLoaded,
           carried' = [carried EXCEPT ![w] = NotLoaded],
           running' = running \ {carried[w].proc}, stranded' = stranded \cup carried[w].types,
           UNCHANGED <<registry, loaded, raced, contested>>
    PROVE  Processes'
<1> DEFINE r == carried[w].proc
<1>1. carried'[w] = NotLoaded /\ \A v \in Workers \ {w} : carried'[v] = carried[v]
  BY DEF Formed
<1>2. \A p \in Plugins : loaded[p] # NotLoaded => loaded[p].proc # r
  BY DEF Processes, Held
<1>3. \A v \in Workers \ {w} : carried[v] # NotLoaded => carried[v].proc # r
  BY DEF Processes, Held
<1>4. Held'
  BY <1>1, <1>2, <1>3 DEF Processes, Held
<1>5. Alive'
  <2> SUFFICES ASSUME NEW u \in Types, u \notin stranded, u \notin carried[w].types,
                      registry[u] \in Procs
               PROVE  /\ registry[u] \in running'
                      /\ \A q \in Plugins :
                             loaded[q] # NotLoaded /\ loaded[q].proc = registry[u]
                                 => u \in loaded[q].types
                      /\ \A v \in Workers :
                             carried'[v] # NotLoaded /\ carried'[v].proc = registry[u]
                                 => u \in carried'[v].types
    BY DEF Alive
  <2>1. registry[u] # r /\ registry[u] \in running
    BY DEF Processes, Alive
  <2> QED
    BY <2>1, <1>1 DEF Processes, Alive
<1>6. Served'
  BY <1>1 DEF Processes, Served
<1>7. Accounted'
  <2> SUFFICES ASSUME raced = {}, NEW s \in running, s # r PROVE Kept(s)'
    BY DEF Accounted
  <2>1. Kept(s)
    BY DEF Processes, Accounted
  <2> QED
    BY <2>1, <1>1 DEF Kept
<1> QED
  BY <1>4, <1>5, <1>6, <1>7 DEF Processes

LEMMA Storing ==
    ASSUME Processes, Formed, NEW w \in Workers, carried[w] # NotLoaded, NEW p \in Plugins,
           raced = {} => loaded[p] = NotLoaded,
           carried' = [carried EXCEPT ![w] = NotLoaded],
           loaded' = [loaded EXCEPT ![p] = carried[w]],
           UNCHANGED <<registry, running, raced, contested, stranded>>
    PROVE  Processes'
<1>1. carried'[w] = NotLoaded /\ \A v \in Workers \ {w} : carried'[v] = carried[v]
  BY DEF Formed
<1>2. loaded'[p] = carried[w] /\ \A q \in Plugins \ {p} : loaded'[q] = loaded[q]
  BY DEF Formed
<1>3. Held'
  BY <1>1, <1>2 DEF Processes, Held
<1>4. Alive'
  BY <1>1, <1>2 DEF Processes, Alive
<1>5. Served'
  BY <1>1, <1>2 DEF Processes, Served
<1>6. Accounted'
  <2> SUFFICES ASSUME raced = {}, NEW s \in running PROVE Kept(s)'
    BY DEF Accounted
  <2>1. Kept(s)
    BY DEF Processes, Accounted
  <2>2. ASSUME NEW q \in Plugins, loaded[q] # NotLoaded, loaded[q].proc = s PROVE Kept(s)'
    <3>1. q # p
      BY <2>2
    <3> QED
      BY <2>2, <3>1, <1>2 DEF Kept
  <2>3. ASSUME NEW v \in Workers, carried[v] # NotLoaded, carried[v].proc = s PROVE Kept(s)'
    <3>1. CASE v = w
      BY <2>3, <3>1, <1>2 DEF Kept
    <3>2. CASE v # w
      BY <2>3, <3>2, <1>1 DEF Kept
    <3> QED
      BY <3>1, <3>2
  <2> QED
    BY <2>1, <2>2, <2>3 DEF Kept
<1> QED
  BY <1>3, <1>4, <1>5, <1>6 DEF Processes

----------------------------------------------------------------------------
(* Plugins.  A job alone on a plugin finds it as it left it.                               *)

Enabled(d) == d # Absent /\ d.manifest = "enabled"
Disabled(d) == d # Absent /\ d.manifest = "disabled"

\* What a job alone on a plugin knows of its directory and of what is loaded; whether the
\* plugin is spoilt.
Placed(j, d, l, s) ==
    /\ j.at \in {"start", "register", "store", "remove"} => l = NotLoaded
    /\ j.at = "read" /\ j.kind # "install" => l = NotLoaded
    /\ j.at \in {"flag", "register"} => d # Absent
    /\ j.at = "drop" /\ j.kind = "disable" => Disabled(d)
    /\ j.at = "store" => Enabled(d) \/ j.plugin \in s

Alone ==
    \A v, w \in Underway :
        v # w /\ job[v].plugin = job[w].plugin => job[w].plugin \in raced

PlacedRight ==
    \A w \in Underway :
        job[w].plugin \notin raced =>
            Placed(job[w], dir[job[w].plugin], loaded[job[w].plugin], spoilt)

Booted ==
    /\ \A w \in Underway : job[w].plugin \notin boot
    /\ \A p \in boot : loaded[p] = NotLoaded

\* What is disabled stays so until a request other than LoadAll's is made.
Off ==
    \A p \in off :
        /\ loaded[p] = NotLoaded /\ Disabled(dir[p])
        /\ \A w \in Underway : job[w].plugin = p => job[w].kind = "boot" /\ job[w].at = "read"

Settled == Alone /\ PlacedRight /\ Booted /\ ManifestFollowed /\ Off

\* A job steps to j and changes its plugin only: what there is to show of the plugin.
Steps(w, j) ==
    LET p == job[w].plugin
    IN  /\ job' = [job EXCEPT ![w] = j]
        /\ j # NoJob => j.plugin = p
        /\ \A q \in Plugins \ {p} : dir'[q] = dir[q] /\ loaded'[q] = loaded[q]
        /\ raced' = raced /\ boot' = boot
        /\ spoilt \subseteq spoilt' \cup {p} /\ off' \subseteq off \cup {p}
        /\ p \notin raced /\ j # NoJob => Placed(j, dir'[p], loaded'[p], spoilt')
        /\ p \notin raced \cup spoilt' /\ j = NoJob => loaded'[p] = NotLoaded \/ Enabled(dir'[p])
        /\ p \in off' =>
               /\ loaded'[p] = NotLoaded /\ Disabled(dir'[p])
               /\ j # NoJob => j.kind = "boot" /\ j.at = "read"
               /\ p \notin off => p \notin raced

LEMMA Stepping ==
    ASSUME Typed, Settled, NEW w \in Workers, w \in Underway,
           NEW j \in Good \cup {NoJob}, Steps(w, j)
    PROVE  Settled'
<1> DEFINE p == job[w].plugin
<1>0. /\ job' = [job EXCEPT ![w] = j]
      /\ j # NoJob => j.plugin = p
      /\ \A q \in Plugins \ {p} : dir'[q] = dir[q] /\ loaded'[q] = loaded[q]
      /\ raced' = raced /\ boot' = boot
      /\ spoilt \subseteq spoilt' \cup {p} /\ off' \subseteq off \cup {p}
      /\ p \notin raced /\ j # NoJob => Placed(j, dir'[p], loaded'[p], spoilt')
      /\ p \notin raced \cup spoilt' /\ j = NoJob => loaded'[p] = NotLoaded \/ Enabled(dir'[p])
      /\ p \in off' =>
             /\ loaded'[p] = NotLoaded /\ Disabled(dir'[p])
             /\ j # NoJob => j.kind = "boot" /\ j.at = "read"
             /\ p \notin off => p \notin raced
  BY DEF Steps
<1>1. p \in Plugins /\ job[w] # NoJob
  BY DEF Typed, Underway, Good, Jobs
<1>2. job'[w] = j /\ \A v \in Workers \ {w} : job'[v] = job[v]
  BY <1>0 DEF Typed, TypeOK
<1>3. /\ \A v \in Underway' : v # w => v \in Underway /\ job'[v] = job[v]
      /\ \A v \in Underway : v # w => v \in Underway'
      /\ w \in Underway' => j # NoJob /\ job'[w] = j /\ job'[w].plugin = p
      /\ Underway \subseteq Workers /\ Underway' \subseteq Workers
  BY <1>0, <1>2 DEF Underway
<1>4. \A q \in Plugins \ {p} : dir'[q] = dir[q] /\ loaded'[q] = loaded[q]
  BY <1>0
<1>5. \A v \in Underway : job[v].plugin \in Plugins
  BY DEF Typed, Underway, Good, Jobs
<1>6. \A v \in Underway : v # w /\ job[v].plugin = p => p \in raced
  BY DEF Settled, Alone
<1>7. Alone'
  <2> SUFFICES ASSUME NEW u \in Underway', NEW v \in Underway', u # v,
                      job'[u].plugin = job'[v].plugin
               PROVE  job'[v].plugin \in raced
    BY <1>0 DEF Alone
  <2>1. CASE u = w
    BY <2>1, <1>3, <1>6
  <2>2. CASE v = w
    BY <2>2, <1>3, <1>6
  <2>3. CASE u # w /\ v # w
    BY <2>3, <1>3 DEF Settled, Alone
  <2> QED
    BY <2>1, <2>2, <2>3
<1>8. PlacedRight'
  <2> SUFFICES ASSUME NEW v \in Underway', job'[v].plugin \notin raced
               PROVE  Placed(job'[v], dir'[job'[v].plugin], loaded'[job'[v].plugin], spoilt')
    BY <1>0 DEF PlacedRight, Placed, Enabled, Disabled
  <2>1. CASE v = w
    BY <2>1, <1>0, <1>3
  <2>2. CASE v # w
    <3>1. v \in Underway /\ job'[v] = job[v] /\ job[v].plugin \in Plugins \ {p}
      BY <2>2, <1>3, <1>5, <1>6
    <3>2. Placed(job[v], dir[job[v].plugin], loaded[job[v].plugin], spoilt)
      BY <3>1 DEF Settled, PlacedRight
    <3>3. Placed(job[v], dir[job[v].plugin], loaded[job[v].plugin], spoilt')
      BY <1>0, <3>1, <3>2 DEF Placed
    <3> QED
      BY <3>1, <3>3, <1>4
  <2> QED
    BY <2>1, <2>2
<1>9. Booted'
  <2>1. p \notin boot
    BY DEF Settled, Booted
  <2>2. \A v \in Underway' : job'[v].plugin \notin boot
    BY <2>1, <1>3 DEF Settled, Booted
  <2>3. \A q \in boot : loaded'[q] = NotLoaded
    BY <2>1, <1>4 DEF Settled, Booted, Typed, TypeOK
  <2> QED
    BY <1>0, <2>2, <2>3 DEF Booted
<1>10. ManifestFollowed'
  <2> SUFFICES ASSUME NEW q \in Plugins, q \notin raced, q \notin spoilt',
                      \A v \in Underway' : job'[v].plugin # q, loaded'[q] # NotLoaded
               PROVE  dir'[q] # Absent /\ dir'[q].manifest = "enabled"
    BY <1>0 DEF ManifestFollowed, Idle
  <2>1. CASE q = p
    <3>1. j = NoJob
      BY <1>0, <2>1, <1>2 DEF Underway
    <3> QED
      BY <1>0, <2>1, <3>1 DEF Enabled
  <2>2. CASE q # p
    <3>1. q \notin spoilt /\ dir'[q] = dir[q] /\ loaded'[q] = loaded[q]
      BY <1>0, <2>2, <1>4
    <3>2. \A v \in Underway : job[v].plugin # q
      BY <2>2, <1>3
    <3> QED
      BY <3>1, <3>2 DEF Settled, ManifestFollowed, Idle
  <2> QED
    BY <2>1, <2>2
<1>11. Off'
  <2> SUFFICES ASSUME NEW q \in off'
               PROVE  /\ loaded'[q] = NotLoaded /\ Disabled(dir'[q])
                      /\ \A v \in Underway' : job'[v].plugin = q =>
                             job'[v].kind = "boot" /\ job'[v].at = "read"
    BY DEF Off, Disabled
  <2>1. CASE q = p
    <3>1. ASSUME NEW v \in Underway', job'[v].plugin = q, v # w
          PROVE  job'[v].kind = "boot" /\ job'[v].at = "read"
      <4>1. v \in Underway /\ job'[v] = job[v] /\ job[v].plugin = p /\ p \in raced
        BY <1>0, <2>1, <3>1, <1>3, <1>6
      <4> QED
        BY <1>0, <2>1, <4>1 DEF Settled, Off
    <3>2. \A v \in Underway' : v = w => job'[v] = j /\ j # NoJob
      BY <1>3
    <3> QED
      BY <1>0, <2>1, <3>1, <3>2
  <2>2. CASE q # p
    <3>1. q \in off /\ q \in Plugins
      BY <1>0, <2>2 DEF Typed, TypeOK
    <3>2. dir'[q] = dir[q] /\ loaded'[q] = loaded[q]
      BY <2>2, <3>1, <1>4
    <3>3. loaded[q] = NotLoaded /\ Disabled(dir[q])
      BY <3>1 DEF Settled, Off
    <3>4. ASSUME NEW v \in Underway', job'[v].plugin = q
          PROVE  job'[v].kind = "boot" /\ job'[v].at = "read"
      <4>1. v # w
        BY <2>2, <3>4, <1>3
      <4>2. v \in Underway /\ job'[v] = job[v]
        BY <4>1, <1>3
      <4> QED
        BY <3>1, <3>4, <4>2 DEF Settled, Off
    <3> QED
      BY <3>2, <3>3, <3>4
  <2> QED
    BY <2>1, <2>2
<1> QED
  BY <1>7, <1>8, <1>9, <1>10, <1>11 DEF Settled

----------------------------------------------------------------------------
(* Steps.                                                                  *)

IInv == Typed /\ Processes /\ Settled

\* What a plugin was disabled for is not undone by a job that is past reading it.
LEMMA NotOff ==
    ASSUME Settled, NEW w \in Workers, w \in Underway, job[w].at # "read"
    PROVE  job[w].plugin \notin off
  BY DEF Settled, Off

LEMMA TypedStep ==
    ASSUME Typed, NEW w \in Workers, NEW j \in Good \cup {NoJob}, job' = [job EXCEPT ![w] = j],
           dir' \in [Plugins -> Dirs \cup {Absent}],
           registry' \in [Types -> Procs \cup {Builtin, NoOwner}],
           running' \subseteq Procs, loaded' \in [Plugins -> Loads \cup {NotLoaded}],
           boot' \subseteq Plugins, calls' \in 0..MaxCalls,
           raced' \subseteq Plugins, spoilt' \subseteq Plugins, off' \subseteq Plugins,
           contested' \subseteq Types, stranded' \subseteq Types
    PROVE  Typed'
<1>1. job' \in [Workers -> Good \cup {NoJob}]
  BY DEF Typed
<1>2. job' \in [Workers -> Jobs \cup {NoJob}]
  BY <1>1 DEF Good
<1> QED
  BY <1>1, <1>2 DEF Typed, TypeOK

\* A step that changes the directory of its plugin at most, and goes on or ends.
\* The step of a job of w on the plugin p, which goes on as j, leaves the directory as d and
\* touches nothing else.
DirSteps(w, j, p, d) ==
    /\ w \in Underway /\ job[w].at # "read" /\ p = job[w].plugin
    /\ job' = [job EXCEPT ![w] = j]
    /\ j # NoJob => j.plugin = p
    /\ Carry(j) = Carry(job[w])
    /\ dir' = [dir EXCEPT ![p] = d]
    /\ UNCHANGED <<registry, running, loaded, boot, calls, raced, contested, stranded, off>>
    /\ spoilt' \in {spoilt, spoilt \cup {p}}
    /\ p \notin raced /\ j # NoJob => Placed(j, d, loaded[p], spoilt')
    /\ p \notin raced \cup spoilt' /\ j = NoJob => loaded[p] = NotLoaded \/ Enabled(d)

LEMMA DirStep ==
    ASSUME IInv, NEW w \in Workers, w \in Underway, job[w].at # "read",
           NEW p, p = job[w].plugin,
           NEW j \in Good \cup {NoJob}, job' = [job EXCEPT ![w] = j],
           j # NoJob => j.plugin = p, Carry(j) = Carry(job[w]),
           NEW d \in Dirs \cup {Absent}, dir' = [dir EXCEPT ![p] = d],
           UNCHANGED <<registry, running, loaded, boot, calls, raced, contested, stranded, off>>,
           spoilt' \in {spoilt, spoilt \cup {p}},
           p \notin raced /\ j # NoJob => Placed(j, d, loaded[p], spoilt'),
           p \notin raced \cup spoilt' /\ j = NoJob => loaded[p] = NotLoaded \/ Enabled(d)
    PROVE  IInv'
<1>1. p \in Plugins
  BY DEF IInv, Typed, Underway, Good, Jobs
<1>2. /\ dir'[p] = d /\ dir' \in [Plugins -> Dirs \cup {Absent}]
      /\ dir' = [dir EXCEPT ![p] = dir'[p]]
      /\ loaded' = [loaded EXCEPT ![p] = loaded'[p]] /\ loaded'[p] = loaded[p]
  BY <1>1 DEF IInv, Typed, TypeOK
<1>3. spoilt' \subseteq Plugins /\ spoilt \subseteq spoilt' \cup {p}
  BY <1>1 DEF IInv, Typed, TypeOK
<1>4. Typed'
  <2> USE DEF IInv, Typed, TypeOK
  <2> QED
    BY <1>2, <1>3, TypedStep
<1>5. Processes'
  BY CarriedSame, Quiet DEF IInv
<1>6. p \notin off'
  BY NotOff DEF IInv
<1>7. Settled'
  <2>1. /\ raced' = raced /\ boot' = boot /\ off' = off
        /\ p \notin raced /\ j # NoJob => Placed(j, dir'[p], loaded'[p], spoilt')
        /\ p \notin raced \cup spoilt' /\ j = NoJob => loaded'[p] = NotLoaded \/ Enabled(dir'[p])
    BY <1>2
  <2>2. \A q \in Plugins \ {p} : dir'[q] = dir[q] /\ loaded'[q] = loaded[q]
    BY <1>2 DEF IInv, Typed, TypeOK
  <2>3. Steps(w, j)
    BY <1>3, <1>6, <2>1, <2>2 DEF Steps
  <2> QED
    BY <2>3, Stepping DEF IInv
<1> QED
  BY <1>4, <1>5, <1>7 DEF IInv

LEMMA DirStepped ==
    ASSUME IInv, NEW w \in Workers, NEW p, NEW j \in Good \cup {NoJob},
           NEW d \in Dirs \cup {Absent}, DirSteps(w, j, p, d)
    PROVE  IInv'
  BY DirStep DEF DirSteps

\* Such a step that leaves every directory as it is.
LEMMA JobStep ==
    ASSUME IInv, NEW w \in Workers, w \in Underway, job[w].at # "read",
           NEW p, p = job[w].plugin,
           NEW j \in Good \cup {NoJob}, job' = [job EXCEPT ![w] = j],
           j # NoJob => j.plugin = p, Carry(j) = Carry(job[w]),
           UNCHANGED <<dir, registry, running, loaded, boot, calls, raced, contested, stranded,
                       spoilt, off>>,
           p \notin raced /\ j # NoJob => Placed(j, dir[p], loaded[p], spoilt),
           p \notin raced \cup spoilt /\ j = NoJob => loaded[p] = NotLoaded \/ Enabled(dir[p])
    PROVE  IInv'
<1>1. p \in Plugins /\ dir[p] \in Dirs \cup {Absent} /\ dir' = [dir EXCEPT ![p] = dir[p]]
  BY DEF IInv, Typed, TypeOK, Underway, Good, Jobs
<1>2. spoilt' \in {spoilt, spoilt \cup {p}} /\ p \notin raced \cup spoilt' => p \notin raced \cup spoilt
  OBVIOUS
<1> DEFINE d == dir[p]
<1>3. d \in Dirs \cup {Absent} /\ dir' = [dir EXCEPT ![p] = d]
  BY <1>1
<1>4. /\ p \notin raced /\ j # NoJob => Placed(j, d, loaded[p], spoilt')
      /\ p \notin raced \cup spoilt' /\ j = NoJob => loaded[p] = NotLoaded \/ Enabled(d)
  BY <1>2
<1> HIDE DEF d
<1>5. DirSteps(w, j, p, d)
  BY <1>2, <1>3, <1>4 DEF DirSteps
<1> QED
  BY <1>3, <1>5, DirStepped

LEMMA Beginning ==
    ASSUME IInv, NEW w \in Workers, NEW kind \in Kinds, NEW at \in Places, NEW p \in Plugins,
           NEW b \in Binaries \cup {NoBinary}, Begin(w, kind, at, p, b),
           \/ kind = "boot" /\ at = "read" /\ Underway = {} /\ p \in boot /\ boot' = boot \ {p}
           \/ /\ kind # "boot" /\ boot = {} /\ boot' = {}
              /\ \/ kind = "install" /\ at = "clear"
                 \/ kind \in {"enable", "disable"} /\ at = "flag" /\ dir[p] # Absent
                 \/ kind = "uninstall" /\ at = "drop",
           calls' \in 0..MaxCalls
    PROVE  IInv'
<1> DEFINE j == [kind |-> kind, at |-> at, plugin |-> p, binary |-> b,
                 proc |-> NoProc, left |-> <<>>, types |-> {}]
<1>1. /\ j.kind = kind /\ j.at = at /\ j.plugin = p /\ j.types = {}
      /\ job[w] = NoJob /\ job' = [job EXCEPT ![w] = j]
      /\ raced' = raced \cup {q \in {p} : \E v \in Underway : job[v].plugin = q}
      /\ off' = IF kind = "boot" THEN off ELSE off \ {p}
      /\ UNCHANGED <<dir, registry, running, loaded, contested, stranded, spoilt>>
  BY DEF Begin
<1>2. j \in Jobs
  BY DEF Jobs, Kinds, Places, Uploading, Reading, OnProcess
<1> HIDE DEF j
<1>3. at \notin OnProcess \cup {"discard", "remove"}
  BY DEF OnProcess
<1>4. j \in Good /\ j # NoJob
  BY <1>1, <1>2, <1>3, RecordsAssumption DEF Good, Fits, Uploading
<1>5. Carry(j) = NotLoaded /\ Carry(job[w]) = NotLoaded
  BY <1>1, <1>3 DEF Carry
<1>6. /\ w \notin Underway /\ Underway' = Underway \cup {w} /\ job'[w] = j
      /\ \A v \in Underway : job'[v] = job[v] /\ v # w
      /\ \A v \in Underway : job[v].plugin = p => p \in raced'
      /\ raced \subseteq raced' /\ raced' \subseteq raced \cup {p}
      /\ off' \subseteq off
  BY <1>1, <1>4 DEF IInv, Typed, TypeOK, Underway
<1>7. Typed'
  <2>1. boot' \subseteq Plugins /\ raced' \subseteq Plugins /\ off' \subseteq Plugins
    BY <1>1, <1>6 DEF IInv, Typed, TypeOK
  <2> USE DEF IInv, Typed, TypeOK
  <2> QED
    BY <1>1, <1>4, <2>1, TypedStep
<1>8. Processes'
  BY <1>1, <1>5, <1>6, CarriedSame, Quiet DEF IInv
<1>9. Alone'
  <2> SUFFICES ASSUME NEW u \in Underway', NEW v \in Underway', u # v,
                      job'[u].plugin = job'[v].plugin
               PROVE  job'[v].plugin \in raced'
    BY DEF Alone
  <2>1. CASE u = w
    BY <2>1, <1>1, <1>6
  <2>2. CASE v = w
    BY <2>2, <1>1, <1>6
  <2>3. CASE u # w /\ v # w
    BY <2>3, <1>6 DEF IInv, Settled, Alone
  <2> QED
    BY <2>1, <2>2, <2>3
<1>10. PlacedRight'
  <2> SUFFICES ASSUME NEW v \in Underway', job'[v].plugin \notin raced'
               PROVE  Placed(job'[v], dir[job'[v].plugin], loaded[job'[v].plugin], spoilt)
    BY <1>1 DEF PlacedRight, Placed, Enabled, Disabled
  <2>1. CASE v = w
    <3>1. Placed(j, dir[p], loaded[p], spoilt)
      BY <1>1 DEF Placed, IInv, Settled, Booted
    <3> QED
      BY <2>1, <3>1, <1>1, <1>6
  <2>2. CASE v # w
    BY <2>2, <1>6 DEF IInv, Settled, PlacedRight
  <2> QED
    BY <2>1, <2>2
<1>11. Booted'
  BY <1>1, <1>6 DEF IInv, Settled, Booted
<1>12. ManifestFollowed'
  BY <1>1, <1>6 DEF IInv, Settled, ManifestFollowed, Idle
<1>13. Off'
  <2> SUFFICES ASSUME NEW q \in off'
               PROVE  /\ loaded[q] = NotLoaded /\ Disabled(dir[q])
                      /\ \A v \in Underway' : job'[v].plugin = q =>
                             job'[v].kind = "boot" /\ job'[v].at = "read"
    BY <1>1 DEF Off, Disabled
  <2>1. q \in off
    BY <1>6
  <2>2. loaded[q] = NotLoaded /\ Disabled(dir[q])
    BY <2>1 DEF IInv, Settled, Off
  <2>3. \A v \in Underway : job[v].plugin = q => job[v].kind = "boot" /\ job[v].at = "read"
    BY <2>1 DEF IInv, Settled, Off
  <2>4. j.plugin = q => j.kind = "boot" /\ j.at = "read"
    BY <1>1
  <2> QED
    BY <2>2, <2>3, <2>4, <1>6
<1> QED
  BY <1>7, <1>8, <1>9, <1>10, <1>11, <1>12, <1>13 DEF IInv, Settled

LEMMA RequestSteps ==
    ASSUME IInv, NEW w \in Workers,
           InstallFile(w) \/ SetEnabled(w) \/ Uninstall(w) \/ LoadAll(w)
    PROVE  IInv'
<1> USE DEF Kinds, Places, Uploading, Reading
<1>1. Asks => calls' \in 0..MaxCalls
  BY CallsAssumption DEF Asks, IInv, Typed, TypeOK
<1>2. calls \in 0..MaxCalls
  BY DEF IInv, Typed, TypeOK
<1>3. CASE InstallFile(w)
  <2>1. PICK p \in Plugins, b \in Binaries \cup {NoBinary} : Begin(w, "install", "clear", p, b)
    BY <1>3 DEF InstallFile
  <2>2. boot = {} /\ boot' = {} /\ calls' \in 0..MaxCalls
    BY <1>1, <1>3 DEF InstallFile, Asks, Serving
  <2> QED
    BY <2>1, <2>2, Beginning
<1>4. CASE SetEnabled(w)
  <2>1. PICK p \in Plugins, kind \in {"enable", "disable"} :
            readManifest(dir[p]) /\ Begin(w, kind, "flag", p, NoBinary)
    BY <1>4 DEF SetEnabled
  <2>2. boot = {} /\ boot' = {} /\ calls' \in 0..MaxCalls
    BY <1>1, <1>4 DEF SetEnabled, Asks, Serving
  <2>3. dir[p] # Absent
    BY <2>1 DEF readManifest
  <2> QED
    BY <2>1, <2>2, <2>3, Beginning
<1>5. CASE Uninstall(w)
  <2>1. PICK p \in Plugins : Begin(w, "uninstall", "drop", p, NoBinary)
    BY <1>5 DEF Uninstall
  <2>2. boot = {} /\ boot' = {} /\ calls' \in 0..MaxCalls
    BY <1>1, <1>5 DEF Uninstall, Asks, Serving
  <2> QED
    BY <2>1, <2>2, Beginning
<1>6. CASE LoadAll(w)
  <2>1. PICK p \in boot : Begin(w, "boot", "read", p, NoBinary) /\ boot' = boot \ {p}
    BY <1>6 DEF LoadAll
  <2>2. Underway = {} /\ calls' \in 0..MaxCalls /\ p \in Plugins
    BY <1>2, <1>6 DEF LoadAll, IInv, Typed, TypeOK
  <2> QED
    BY <2>1, <2>2, Beginning
<1> QED
  BY <1>3, <1>4, <1>5, <1>6

LEMMA CarryNone ==
    ASSUME NEW j, j = NoJob \/ j.at \notin OnProcess
    PROVE  Carry(j) = NotLoaded
  BY DEF Carry

LEMMA UploadSteps ==
    ASSUME IInv, NEW w \in Workers,
           Clear(w) \/ MkdirAll(w) \/ Copy(w) \/ WriteManifest(w) \/ Discard(w)
    PROVE  IInv'
<1> DEFINE p == job[w].plugin
           o == job[w]
<1>1. /\ w \in Underway /\ o \in Jobs /\ o.at \in Uploading /\ o.kind = "install"
      /\ o.at # "discard" => o.types = {}
      /\ p \in Plugins
  <2>1. PICK place \in Uploading : At(w, place) /\ (place = "discard" <=> o.at = "discard")
    <3>1. At(w, "clear") \/ At(w, "mkdir") \/ At(w, "copy") \/ At(w, "manifest") \/ At(w, "discard")
      BY DEF Clear, MkdirAll, Copy, WriteManifest, Discard
    <3> QED
      BY <3>1 DEF At, Uploading
  <2> QED
    BY <2>1, AtPlace DEF IInv, Fits, Uploading, OnProcess
<1>2. dir[p] \in Dirs \cup {Absent} /\ o.binary \in Binaries \cup {NoBinary}
  BY <1>1 DEF IInv, Typed, TypeOK, Jobs
<1>3. Carry(o) = NotLoaded /\ o.at # "read"
  BY <1>1, CarryNone DEF Uploading, OnProcess
<1> DEFINE Next1(at, j) ==
        /\ job' = [job EXCEPT ![w] = j] /\ j.at = at
        /\ j.plugin = p /\ j.kind = "install" /\ Carry(j) = NotLoaded
\* Where it goes from here.
<1>4. ASSUME NEW at \in {"mkdir", "copy", "manifest", "discard", "read"}, GoTo(w, at),
             o.at # "discard"
      PROVE  \E j \in Good : Next1(at, j)
  <2>1. at \in Places /\ at \notin OnProcess
    BY DEF Places, Uploading, Reading, OnProcess
  <2>2. PICK j \in Good : /\ job' = [job EXCEPT ![w] = j] /\ j.at = at
                          /\ j.plugin = p /\ j.kind = "install" /\ j.types = {}
    BY <1>1, <1>4, <2>1, Going DEF IInv
  <2>3. Carry(j) = NotLoaded
    BY <2>1, <2>2, CarryNone
  <2> QED
    BY <2>2, <2>3
\* Whatever such a job has done to the directory.
<1>5. ASSUME NEW at \in {"mkdir", "copy", "manifest", "discard", "read"}, GoTo(w, at),
             o.at # "discard", NEW d \in Dirs \cup {Absent}, dir' = [dir EXCEPT ![p] = d],
             UNCHANGED <<registry, running, loaded, rest, history>>
      PROVE  IInv'
  <2>1. PICK j \in Good : Next1(at, j)
    BY <1>4, <1>5
  <2>2. Placed(j, d, loaded[p], spoilt') /\ j # NoJob
    BY <2>1, RecordsAssumption DEF Placed, Good
  <2>3. spoilt' \in {spoilt, spoilt \cup {p}} /\ boot' = boot /\ calls' = calls
        /\ raced' = raced /\ contested' = contested /\ stranded' = stranded /\ off' = off
    BY <1>5 DEF rest, history
  <2> QED
    BY <1>1, <1>3, <1>5, <2>1, <2>2, <2>3, DirStep
<1>6. dir' = dir => dir' = [dir EXCEPT ![p] = dir[p]]
  BY <1>1 DEF IInv, Typed, TypeOK
<1>7. CASE Clear(w)
  <2>1. GoTo(w, "mkdir") /\ dir' = [dir EXCEPT ![p] = Absent] /\ o.at = "clear"
    BY <1>7 DEF Clear, At
  <2> QED
    BY <1>5, <1>7, <2>1 DEF Clear
<1>8. CASE MkdirAll(w)
  <2> DEFINE d == IF dir[p] = Absent THEN [binary |-> NoBinary, manifest |-> "none"] ELSE dir[p]
  <2>1. /\ o.at = "mkdir"
        /\ UNCHANGED <<registry, running, loaded, boot, calls, raced, contested, stranded, off>>
    BY <1>8 DEF MkdirAll, At, rest
  <2>2. CASE GoTo(w, "copy") /\ dir' = [dir EXCEPT ![p] = d] /\ UNCHANGED spoilt
    <3>1. d \in Dirs \cup {Absent}
      BY <1>2 DEF Dirs
    <3>2. UNCHANGED <<registry, running, loaded, rest, history>>
      BY <2>1, <2>2 DEF rest, history
    <3> HIDE DEF d
    <3> QED
      BY <1>5, <2>1, <2>2, <3>1, <3>2
  <2>3. CASE End(w) /\ spoilt' = spoilt \cup {p} /\ UNCHANGED dir
    <3>1. job' = [job EXCEPT ![w] = NoJob] /\ dir' = [dir EXCEPT ![p] = dir[p]]
      BY <1>6, <2>3 DEF End
    <3>2. Carry(NoJob) = Carry(job[w])
      BY <1>3, CarryNone
    <3> DEFINE here == dir[p]
    <3>3. here \in Dirs \cup {Absent} /\ dir' = [dir EXCEPT ![p] = here]
      BY <1>2, <3>1
    <3> HIDE DEF here
    <3> QED
      BY <1>1, <2>1, <2>3, <3>1, <3>2, <3>3, DirStep
  <2> QED
    BY <1>8, <2>2, <2>3 DEF MkdirAll
<1>9. CASE Copy(w)
  <2>1. o.at = "copy" /\ UNCHANGED <<registry, running, loaded, rest, history>>
    BY <1>9 DEF Copy, At
  <2>2. CASE dir[p] # Absent /\ dir' = [dir EXCEPT ![p].binary = o.binary] /\ GoTo(w, "manifest")
    <3> DEFINE d == [dir[p] EXCEPT !.binary = o.binary]
    <3>1. dir' = [dir EXCEPT ![p] = d]
      BY <2>2
    <3>2. d \in Dirs
      BY <1>2, <2>2, DirForms
    <3> HIDE DEF d
    <3> QED
      BY <1>5, <2>1, <2>2, <3>1, <3>2
  <2>3. CASE UNCHANGED dir /\ GoTo(w, "discard")
    BY <1>2, <1>5, <1>6, <2>1, <2>3
  <2> QED
    BY <1>9, <2>2, <2>3 DEF Copy
<1>10. CASE WriteManifest(w)
  <2>1. o.at = "manifest" /\ UNCHANGED <<registry, running, loaded, rest, history>>
    BY <1>10 DEF WriteManifest, At
  <2>2. CASE dir' = [dir EXCEPT ![p] = writeManifest(@, "enabled")] /\ GoTo(w, "read")
    <3> DEFINE d == writeManifest(dir[p], "enabled")
    <3>1. d \in Dirs \cup {Absent} /\ dir' = [dir EXCEPT ![p] = d]
      BY <1>2, <2>2, Written DEF Flags
    <3> HIDE DEF d
    <3> QED
      BY <1>5, <2>1, <2>2, <3>1
  <2>3. CASE UNCHANGED dir /\ GoTo(w, "discard")
    BY <1>2, <1>5, <1>6, <2>1, <2>3
  <2> QED
    BY <1>10, <2>2, <2>3 DEF WriteManifest
<1>11. CASE Discard(w)
  <2>1. /\ job' = [job EXCEPT ![w] = NoJob] /\ dir' = [dir EXCEPT ![p] = Absent]
        /\ spoilt' = spoilt \cup {p}
        /\ UNCHANGED <<registry, running, loaded, boot, calls, raced, contested, stranded, off>>
    BY <1>11 DEF Discard, End, rest
  <2>2. Carry(NoJob) = Carry(job[w])
    BY <1>3, CarryNone
  <2> QED
    BY <1>1, <1>3, <2>1, <2>2, DirStep
<1> QED
  BY <1>7, <1>8, <1>9, <1>10, <1>11

LEMMA FlagSteps ==
    ASSUME IInv, NEW w \in Workers, WriteFlag(w) \/ Remove(w)
    PROVE  IInv'
<1> DEFINE p == job[w].plugin
           o == job[w]
<1>1. /\ w \in Underway /\ o \in Jobs /\ p \in Plugins /\ o.types = {}
      /\ o.at = "flag" => o.kind \in {"enable", "disable"}
      /\ o.at \in {"flag", "remove"}
  <2>1. At(w, "flag") \/ At(w, "remove")
    BY DEF WriteFlag, Remove
  <2> QED
    BY <2>1, AtPlace DEF IInv, Fits, Uploading, OnProcess
<1>2. dir[p] \in Dirs \cup {Absent}
  BY <1>1 DEF IInv, Typed, TypeOK
<1>3. Carry(o) = NotLoaded /\ Carry(NoJob) = NotLoaded
  BY <1>1, CarryNone DEF OnProcess
<1>4. p \notin raced => Placed(o, dir[p], loaded[p], spoilt)
  BY <1>1 DEF IInv, Settled, PlacedRight
<1>5. CASE WriteFlag(w)
  <2> DEFINE m == IF o.kind = "enable" THEN "enabled" ELSE "disabled"
             d == writeManifest(dir[p], m)
  <2>1. /\ o.at = "flag"
        /\ UNCHANGED <<registry, running, loaded, boot, calls, raced, contested, stranded, off>>
    BY <1>5 DEF WriteFlag, At, rest
  <2>2. CASE /\ dir[p] # Absent /\ dir' = [dir EXCEPT ![p] = d]
             /\ GoTo(w, "drop") /\ UNCHANGED spoilt
    <3>1. d \in Dirs \cup {Absent} /\ d # Absent /\ d.manifest = m
      BY <1>2, <2>2, Written DEF Flags
    <3>2. PICK j \in Good : /\ job' = [job EXCEPT ![w] = j] /\ j.at = "drop"
                            /\ j.plugin = p /\ j.kind = o.kind
      <4>1. "drop" \in Places /\ "drop" \notin Uploading \cup OnProcess
        BY DEF Places, Uploading, OnProcess
      <4> QED
        BY <1>1, <2>1, <2>2, <4>1, Going DEF IInv
    <3>3. Carry(j) = NotLoaded /\ j # NoJob
      BY <3>2, CarryNone, RecordsAssumption DEF OnProcess, Good
    <3>4. Placed(j, d, loaded[p], spoilt')
      BY <3>1, <3>2 DEF Placed, Disabled
    <3> HIDE DEF d
    <3> QED
      BY <1>1, <1>3, <2>1, <2>2, <3>1, <3>2, <3>3, <3>4, DirStep
  <2>3. ASSUME NEW e \in Unwritten(dir[p]), dir' = [dir EXCEPT ![p] = e], End(w),
               spoilt' = spoilt \cup {p}
        PROVE  IInv'
    <3>1. e \in Dirs \cup {Absent}
      BY <1>2, <2>3, Written DEF Unwritten, Flags
    <3> QED
      BY <1>1, <1>3, <2>1, <2>3, <3>1, DirStep DEF End
  <2> QED
    BY <1>5, <2>2, <2>3 DEF WriteFlag
<1>7. CASE Remove(w)
  <2>1. /\ job' = [job EXCEPT ![w] = NoJob] /\ dir' = [dir EXCEPT ![p] = Absent] /\ o.at = "remove"
        /\ spoilt' \in {spoilt, spoilt \cup {p}}
        /\ UNCHANGED <<registry, running, loaded, boot, calls, raced, contested, stranded, off>>
    BY <1>7 DEF Remove, At, End, rest, history
  <2>2. p \notin raced => loaded[p] = NotLoaded
    BY <1>4, <2>1 DEF Placed
  <2> QED
    BY <1>1, <1>3, <2>1, <2>2, DirStep
<1> QED
  BY <1>5, <1>7

\* A step that unloads the plugin of its job.
LEMMA UnloadStep ==
    ASSUME IInv, NEW w \in Workers, w \in Underway, job[w].at # "read",
           NEW j \in Good \cup {NoJob}, job' = [job EXCEPT ![w] = j],
           j # NoJob => j.plugin = job[w].plugin, Carry(j) = Carry(job[w]),
           UnloadLocked(job[w].plugin),
           UNCHANGED <<dir, boot, calls, raced, contested, stranded>>,
           \/ off' = off
           \/ /\ off' = off \cup ({job[w].plugin} \ raced) /\ j = NoJob
              /\ job[w].plugin \notin raced => Disabled(dir[job[w].plugin]),
           j # NoJob => j.at \in {"read", "remove", "start"}
    PROVE  IInv'
<1> DEFINE p == job[w].plugin
<1>1. p \in Plugins
  BY DEF IInv, Typed, Underway, Good, Jobs
<1>2. /\ loaded' = [loaded EXCEPT ![p] = NotLoaded] /\ spoilt' = spoilt \ {p}
      /\ registry' = [t \in Types |-> IF loaded[p] # NotLoaded /\ t \in loaded[p].types
                                      THEN NoOwner ELSE registry[t]]
      /\ running' \subseteq running
  BY DEF UnloadLocked
<1>3. Typed'
  <2>1. /\ loaded' \in [Plugins -> Loads \cup {NotLoaded}]
        /\ registry' \in [Types -> Procs \cup {Builtin, NoOwner}]
        /\ running' \subseteq Procs /\ spoilt' \subseteq Plugins /\ off' \subseteq Plugins
    BY <1>1, <1>2 DEF IInv, Typed, TypeOK
  <2> USE DEF IInv, Typed, TypeOK
  <2> QED
    BY <2>1, TypedStep
<1>4. Processes'
  BY <1>1, CarriedSame, TypedFormed, Unloading DEF IInv
<1>5. Settled'
  <2>1. p \notin off
    BY NotOff DEF IInv
  <2>2. loaded'[p] = NotLoaded /\ \A q \in Plugins \ {p} : loaded'[q] = loaded[q]
    BY <1>1, <1>2 DEF IInv, Typed, TypeOK
  <2>3. j # NoJob => Placed(j, dir'[p], loaded'[p], spoilt')
    BY <2>2 DEF Placed
  <2>4. Steps(w, j)
    BY <1>2, <2>1, <2>2, <2>3 DEF Steps
  <2> QED
    BY <2>4, Stepping DEF IInv
<1> QED
  BY <1>3, <1>4, <1>5 DEF IInv

LEMMA UnloadSteps ==
    ASSUME IInv, NEW w \in Workers, Drop(w) \/ UnloadOld(w)
    PROVE  IInv'
<1> DEFINE p == job[w].plugin
           o == job[w]
<1>1. /\ w \in Underway /\ o.types = {} /\ o.at \in {"drop", "unload"}
      /\ o.at = "drop" => o.kind \in {"enable", "disable", "uninstall"}
  <2>1. At(w, "drop") \/ At(w, "unload")
    BY DEF Drop, UnloadOld
  <2> QED
    BY <2>1, AtPlace DEF IInv, Fits, Uploading, OnProcess
<1>2. Carry(o) = NotLoaded /\ Carry(NoJob) = NotLoaded
  BY <1>1, CarryNone DEF OnProcess
<1>3. ASSUME NEW at \in {"read", "remove", "start"}, GoTo(w, at),
             at = "remove" => o.kind = "uninstall", UnloadLocked(p),
             UNCHANGED <<dir, boot, calls, raced, contested, stranded, off>>
      PROVE  IInv'
  <2>1. at \in Places /\ at \notin Uploading \cup OnProcess
    BY DEF Places, Uploading, Reading, OnProcess
  <2>2. PICK j \in Good : job' = [job EXCEPT ![w] = j] /\ j.at = at /\ j.plugin = p
    BY <1>1, <1>3, <2>1, Going DEF IInv
  <2>3. Carry(j) = NotLoaded
    BY <2>1, <2>2, CarryNone
  <2> QED
    BY <1>1, <1>2, <1>3, <2>2, <2>3, UnloadStep
<1>4. CASE UnloadOld(w)
  <2>1. GoTo(w, "start") /\ UnloadLocked(p)
        /\ UNCHANGED <<dir, boot, calls, raced, contested, stranded, off>>
    BY <1>4 DEF UnloadOld, rest
  <2> QED
    BY <1>3, <2>1
<1>5. CASE Drop(w) /\ o.kind \in {"enable", "uninstall"}
  <2>1. /\ UnloadLocked(p) /\ UNCHANGED <<dir, boot, calls, raced, contested, stranded, off>>
        /\ \/ o.kind = "enable" /\ GoTo(w, "read")
           \/ o.kind = "uninstall" /\ GoTo(w, "remove")
    BY <1>5 DEF Drop, rest
  <2> QED
    BY <1>3, <2>1
<1>6. CASE Drop(w) /\ o.kind \notin {"enable", "uninstall"}
  <2>1. o.at = "drop" /\ o.kind = "disable"
    BY <1>1, <1>6 DEF Drop, At
  <2>2. /\ UnloadLocked(p) /\ UNCHANGED <<dir, boot, calls, raced, contested, stranded>>
        /\ job' = [job EXCEPT ![w] = NoJob] /\ off' = off \cup ({p} \ raced)
    BY <1>6, <2>1 DEF Drop, End, rest
  <2>3. p \notin raced => Disabled(dir[p])
    BY <1>1, <2>1 DEF IInv, Settled, PlacedRight, Placed
  <2> QED
    BY <1>1, <1>2, <2>1, <2>2, <2>3, UnloadStep
<1> QED
  BY <1>4, <1>5, <1>6

LEMMA ReadStep ==
    ASSUME IInv, NEW w \in Workers, ReadDir(w)
    PROVE  IInv'
<1> DEFINE p == job[w].plugin
           o == job[w]
<1>1. w \in Underway /\ o \in Jobs /\ p \in Plugins /\ o.at = "read" /\ o.types = {}
  <2>1. At(w, "read")
    BY DEF ReadDir
  <2> QED
    BY <2>1, AtPlace DEF IInv, Fits, OnProcess
<1>2. /\ UNCHANGED <<dir, registry, running, loaded, boot, calls, raced, contested, stranded,
                     spoilt, off>>
      /\ \/ o.kind = "install" /\ GoTo(w, "discard")
         \/ o.kind # "install" /\ job' = [job EXCEPT ![w] = NoJob]
         \/ GoTo(w, "unload") /\ ~(Disabled(dir[p]) /\ o.kind = "boot")
  BY DEF ReadDir, Fails, End, Disabled, rest, history
<1>3. p \in off => loaded[p] = NotLoaded /\ Disabled(dir[p]) /\ o.kind = "boot"
  BY <1>1 DEF IInv, Settled, Off
<1>4. p \notin raced /\ o.kind # "install" => loaded[p] = NotLoaded
  BY <1>1 DEF IInv, Settled, PlacedRight, Placed
<1>5. Carry(o) = NotLoaded /\ Carry(NoJob) = NotLoaded
  BY <1>1, CarryNone DEF OnProcess
<1>6. ASSUME NEW j \in Good \cup {NoJob}, job' = [job EXCEPT ![w] = j],
             Carry(j) = NotLoaded, j # NoJob => j.plugin = p /\ j.at \in {"discard", "unload"},
             j = NoJob => o.kind # "install", j # NoJob => p \notin off
      PROVE  IInv'
  <2>1. Typed'
    <3> USE <1>2 DEF IInv, Typed, TypeOK
    <3> QED
      BY <1>6, TypedStep
  <2>2. Processes'
    <3>1. carried' = carried
      BY <1>5, <1>6, CarriedSame DEF IInv
    <3> QED
      BY <1>2, <3>1, Quiet DEF IInv
  <2>3. Steps(w, j)
    <3>1. j # NoJob => Placed(j, dir'[p], loaded'[p], spoilt')
      BY <1>6 DEF Placed
    <3>2. j = NoJob /\ p \notin raced => loaded'[p] = NotLoaded
      BY <1>2, <1>4, <1>6
    <3>3. p \in off' => loaded'[p] = NotLoaded /\ Disabled(dir'[p]) /\ j = NoJob /\ p \in off
      BY <1>2, <1>3, <1>6
    <3> QED
      BY <1>2, <1>6, <3>1, <3>2, <3>3 DEF Steps
  <2>4. Settled'
    BY <1>1, <2>3, Stepping DEF IInv
  <2> QED
    BY <2>1, <2>2, <2>4 DEF IInv
<1>7. ASSUME NEW at \in {"discard", "unload"}, GoTo(w, at), at = "discard" => o.kind = "install",
             p \notin off
      PROVE  IInv'
  <2>1. at \in Places /\ at \notin OnProcess /\ at \notin {"flag", "drop", "remove"}
    BY DEF Places, Uploading, Reading, OnProcess
  <2>2. at \in Uploading => o.kind = "install"
    BY <1>7 DEF Uploading
  <2>3. PICK j \in Good : job' = [job EXCEPT ![w] = j] /\ j.at = at /\ j.plugin = p
    BY <1>1, <1>7, <2>1, <2>2, Going DEF IInv
  <2>4. Carry(j) = NotLoaded /\ j # NoJob
    BY <2>1, <2>3, CarryNone, RecordsAssumption DEF Good
  <2> QED
    BY <1>6, <1>7, <2>3, <2>4
<1>8. CASE o.kind = "install" /\ GoTo(w, "discard")
  BY <1>3, <1>7, <1>8
<1>9. CASE o.kind # "install" /\ job' = [job EXCEPT ![w] = NoJob]
  BY <1>5, <1>6, <1>9
<1>10. CASE GoTo(w, "unload") /\ ~(Disabled(dir[p]) /\ o.kind = "boot")
  BY <1>3, <1>7, <1>10
<1> QED
  BY <1>2, <1>8, <1>9, <1>10

\* A load that fails goes back to where a failed upload is cleared, or ends.
LEMMA Failing ==
    ASSUME IInv, NEW w \in Workers, w \in Underway, job[w].at \in {"start", "register"}, Fails(w),
           UNCHANGED <<dir, loaded, raced, boot, spoilt, off>>
    PROVE  \E j \in Good \cup {NoJob} :
               /\ job' = [job EXCEPT ![w] = j] /\ Carry(j) = NotLoaded
               /\ Settled'
<1> DEFINE p == job[w].plugin
           o == job[w]
<1>1. p \notin off
  BY NotOff DEF IInv
<1>2. p \notin raced => loaded[p] = NotLoaded
  BY DEF IInv, Settled, PlacedRight, Placed
<1>3. ASSUME NEW j \in Good \cup {NoJob}, job' = [job EXCEPT ![w] = j],
             j # NoJob => j.plugin = p /\ j.at = "discard"
      PROVE  Settled'
  <2>1. j # NoJob => Placed(j, dir'[p], loaded'[p], spoilt')
    BY <1>3 DEF Placed
  <2>2. Steps(w, j)
    BY <1>1, <1>2, <1>3, <2>1 DEF Steps
  <2> QED
    BY <2>2, Stepping DEF IInv
<1>4. CASE o.kind = "install"
  <2>1. GoTo(w, "discard")
    BY <1>4 DEF Fails
  <2>2. "discard" \in Places \ OnProcess
    BY DEF Places, Uploading, OnProcess
  <2>3. PICK j \in Good : job' = [job EXCEPT ![w] = j] /\ j.at = "discard" /\ j.plugin = p
    BY <1>4, <2>1, <2>2, Going DEF IInv
  <2>4. Carry(j) = NotLoaded
    BY <2>2, <2>3, CarryNone
  <2> QED
    BY <1>3, <2>3, <2>4
<1>5. CASE o.kind # "install"
  <2>1. job' = [job EXCEPT ![w] = NoJob]
    BY <1>5 DEF Fails, End
  <2>2. Carry(NoJob) = NotLoaded
    BY CarryNone
  <2> QED
    BY <1>3, <2>1, <2>2
<1> QED
  BY <1>4, <1>5

\* The process a job carries.
LEMMA CarriedBy ==
    ASSUME Typed, NEW w \in Workers, w \in Underway, job[w].at \in OnProcess
    PROVE  /\ carried[w] = [proc |-> job[w].proc, types |-> job[w].types]
           /\ carried[w] # NotLoaded /\ carried[w].proc = job[w].proc
           /\ carried[w].types = job[w].types /\ job[w].proc \in Procs
<1>1. job[w].proc \in Procs /\ job[w].types \in SUBSET Types
  BY DEF Typed, Good, Fits, Jobs, Underway
<1>2. carried[w] = [proc |-> job[w].proc, types |-> job[w].types]
  BY DEF carried, Carry, Underway
<1>3. carried[w] \in Loads
  BY <1>1, <1>2 DEF Loads
<1> QED
  BY <1>1, <1>2, <1>3, RecordsAssumption

LEMMA StartStep ==
    ASSUME IInv, NEW w \in Workers, Start(w)
    PROVE  IInv'
<1> DEFINE p == job[w].plugin
           o == job[w]
           d == dir[p]
<1>1. w \in Underway /\ o \in Jobs /\ p \in Plugins /\ o.at = "start" /\ o.types = {}
      /\ d \in Dirs \cup {Absent}
  <2>1. At(w, "start")
    BY DEF Start
  <2>2. w \in Underway /\ o \in Jobs /\ p \in Plugins /\ o.at = "start" /\ o.types = {}
    BY <2>1, AtPlace DEF IInv, Fits, OnProcess
  <2> QED
    BY <2>2 DEF IInv, Typed, TypeOK
<1>2. UNCHANGED <<dir, registry, loaded, boot, calls, raced, contested, stranded, spoilt, off>>
  BY DEF Start, rest, history
<1>3. Carry(o) = NotLoaded
  BY <1>1, CarryNone DEF OnProcess
<1>4. CASE Fails(w) /\ UNCHANGED running
  <2>1. PICK j \in Good \cup {NoJob} :
            job' = [job EXCEPT ![w] = j] /\ Carry(j) = NotLoaded /\ Settled'
    BY <1>1, <1>2, <1>4, Failing
  <2>2. Typed'
    <3> USE DEF IInv, Typed, TypeOK
    <3> QED
      BY <1>2, <1>4, <2>1, TypedStep
  <2>3. Processes'
    <3>1. carried' = carried
      BY <1>3, <2>1, CarriedSame DEF IInv
    <3> QED
      BY <1>2, <1>4, <3>1, Quiet DEF IInv
  <2> QED
    BY <2>1, <2>2, <2>3 DEF IInv
<1>5. ASSUME ValidateBinaryForHost(d), NEW r \in Procs, Unused(r), running' = running \cup {r},
             job' = [job EXCEPT ![w].at = "register", ![w].proc = r, ![w].left = d.binary]
      PROVE  IInv'
  <2> DEFINE j == [o EXCEPT !.at = "register", !.proc = r, !.left = d.binary]
  <2>1. d \in Dirs /\ d.binary \in Seq(Types) /\ d # Absent
    BY <1>1, <1>5, BinariesAssumption DEF ValidateBinaryForHost, Dirs
  <2>2. j \in Jobs
    BY <1>1, <2>1, JobForms DEF Places, OnProcess
  <2>3. /\ j.at = "register" /\ j.proc = r /\ j.plugin = p /\ j.types = {} /\ j.kind = o.kind
        /\ job' = [job EXCEPT ![w] = j]
    BY <1>1, <1>5 DEF Jobs
  <2> HIDE DEF j
  <2>4. j \in Good /\ j # NoJob
    BY <2>2, <2>3, RecordsAssumption DEF Good, Fits, Uploading, OnProcess
  <2>5. Carry(j) = [proc |-> r, types |-> {}]
    BY <2>3, <2>4 DEF Carry, OnProcess
  <2>6. Typed'
    <3>1. running' \subseteq Procs
      BY <1>5 DEF IInv, Typed, TypeOK
    <3> USE DEF IInv, Typed, TypeOK
    <3> QED
      BY <1>2, <2>3, <2>4, <3>1, TypedStep
  <2>7. Processes'
    <3>1. carried' = [carried EXCEPT ![w] = [proc |-> r, types |-> {}]]
      <4>1. carried' = [carried EXCEPT ![w] = Carry(j)]
        BY <2>3, CarriedStep DEF IInv
      <4> QED
        BY <2>5, <4>1
    <3>2. carried[w] = NotLoaded
      BY <1>3 DEF carried
    <3>3. r \notin running /\ \A t \in Types : registry[t] # r
      BY <1>5 DEF Unused
    <3> QED
      BY <1>2, <1>5, <3>1, <3>2, <3>3, TypedFormed, Starting DEF IInv
  <2>8. Settled'
    <3>1. p \notin off
      BY <1>1, NotOff DEF IInv
    <3>2. p \notin raced => loaded[p] = NotLoaded
      BY <1>1 DEF IInv, Settled, PlacedRight, Placed
    <3>3. p \notin raced => Placed(j, dir'[p], loaded'[p], spoilt')
      BY <1>2, <2>1, <2>3, <3>2 DEF Placed
    <3>4. Steps(w, j)
      BY <1>2, <2>3, <2>4, <3>1, <3>3 DEF Steps
    <3> QED
      BY <1>1, <2>4, <3>4, Stepping DEF IInv
  <2> QED
    BY <2>6, <2>7, <2>8 DEF IInv
<1> QED
  BY <1>4, <1>5 DEF Start

LEMMA RegisterStep ==
    ASSUME IInv, NEW w \in Workers, Register(w)
    PROVE  IInv'
<1> DEFINE p == job[w].plugin
           o == job[w]
           t == Head(o.left)
           j == [o EXCEPT !.left = Tail(o.left), !.types = o.types \cup {t}]
<1>1. w \in Underway /\ o \in Jobs /\ o \in Good /\ p \in Plugins /\ o.at = "register"
      /\ o.at \in OnProcess
  <2>1. At(w, "register")
    BY DEF Register
  <2> QED
    BY <2>1, AtPlace DEF IInv, OnProcess
<1>2. t \in Types /\ Tail(o.left) \in Seq(Types) /\ o.types \cup {t} \in SUBSET Types
  <2>1. o.left \in Seq(Types) /\ o.left # <<>> /\ o.types \subseteq Types
    BY <1>1 DEF Register, Jobs
  <2> QED
    BY <2>1
<1>3. /\ carried[w] # NotLoaded /\ carried[w].proc = o.proc
      /\ carried[w].types = o.types /\ o.proc \in Procs
  BY <1>1, CarriedBy DEF IInv
<1>4. j \in Jobs
  BY <1>1, <1>2, RegisteredForms
<1>5. /\ j.at = "register" /\ j.proc = o.proc /\ j.plugin = p /\ j.types = o.types \cup {t}
      /\ j.kind = o.kind
  BY <1>1 DEF Jobs
<1>6. /\ job' = [job EXCEPT ![w] = j] /\ registry' = [registry EXCEPT ![t] = o.proc]
      /\ contested' = contested \cup (IF registry[t] \in running \ {o.proc} THEN {t} ELSE {})
      /\ stranded' = stranded \ {t}
      /\ UNCHANGED <<dir, running, loaded, boot, calls, raced, spoilt, off>>
  BY DEF Register, rest
<1> HIDE DEF j, t
<1>7. j \in Good /\ j # NoJob
  BY <1>3, <1>4, <1>5, RecordsAssumption DEF Good, Fits, Uploading, OnProcess
<1>8. Typed'
  <2>1. /\ registry' \in [Types -> Procs \cup {Builtin, NoOwner}]
        /\ contested' \subseteq Types /\ stranded' \subseteq Types
    BY <1>2, <1>3, <1>6 DEF IInv, Typed, TypeOK
  <2> USE DEF IInv, Typed, TypeOK
  <2> QED
    BY <1>6, <1>7, <2>1, TypedStep
<1>9. Processes'
  <2>1. Carry(j) = [proc |-> carried[w].proc, types |-> carried[w].types \cup {t}]
    BY <1>3, <1>5, <1>7 DEF Carry, OnProcess
  <2>2. carried' = [carried EXCEPT ![w] =
                       [proc |-> carried[w].proc, types |-> carried[w].types \cup {t}]]
    BY <1>6, <2>1, CarriedStep DEF IInv
  <2> QED
    BY <1>2, <1>3, <1>6, <2>2, TypedFormed, Registering DEF IInv
<1>10. Settled'
  <2>1. p \notin off
    BY <1>1, NotOff DEF IInv
  <2>2. p \notin raced => Placed(o, dir[p], loaded[p], spoilt)
    BY <1>1 DEF IInv, Settled, PlacedRight
  <2>3. p \notin raced => Placed(j, dir'[p], loaded'[p], spoilt')
    BY <1>1, <1>5, <1>6, <2>2 DEF Placed
  <2>4. Steps(w, j)
    BY <1>5, <1>6, <1>7, <2>1, <2>3 DEF Steps
  <2> QED
    BY <1>1, <1>7, <2>4, Stepping DEF IInv
<1> QED
  BY <1>8, <1>9, <1>10 DEF IInv

LEMMA RefuseSteps ==
    ASSUME IInv, NEW w \in Workers, RefuseType(w) \/ RefuseEmpty(w)
    PROVE  IInv'
<1> DEFINE o == job[w]
<1>1. w \in Underway /\ o \in Jobs /\ o.at = "register" /\ o.at \in OnProcess
  <2>1. At(w, "register")
    BY DEF RefuseType, RefuseEmpty
  <2> QED
    BY <2>1, AtPlace DEF IInv, OnProcess
<1>2. /\ carried[w] # NotLoaded /\ carried[w].proc = o.proc
      /\ carried[w].types = o.types /\ o.types \subseteq Types
  BY <1>1, CarriedBy DEF IInv, Jobs
<1>3. /\ running' = running \ {o.proc} /\ stranded' = stranded \cup o.types /\ Fails(w)
      /\ UNCHANGED <<dir, registry, loaded, boot, calls, raced, contested, spoilt, off>>
  BY DEF RefuseType, RefuseEmpty, rest, history
<1>4. PICK j \in Good \cup {NoJob} :
          job' = [job EXCEPT ![w] = j] /\ Carry(j) = NotLoaded /\ Settled'
  BY <1>1, <1>3, Failing
<1>5. Typed'
  <2>1. running' \subseteq Procs /\ stranded' \subseteq Types
    BY <1>2, <1>3 DEF IInv, Typed, TypeOK
  <2> USE DEF IInv, Typed, TypeOK
  <2> QED
    BY <1>3, <1>4, <2>1, TypedStep
<1>6. Processes'
  <2>1. carried' = [carried EXCEPT ![w] = NotLoaded]
    BY <1>4, CarriedStep DEF IInv
  <2> QED
    BY <1>2, <1>3, <2>1, TypedFormed, Refusing DEF IInv
<1> QED
  BY <1>4, <1>5, <1>6 DEF IInv

LEMMA StoreSteps ==
    ASSUME IInv, NEW w \in Workers, RewriteManifest(w) \/ Store(w)
    PROVE  IInv'
<1> DEFINE p == job[w].plugin
           o == job[w]
<1>1. w \in Underway /\ o \in Jobs /\ p \in Plugins /\ o.at \in OnProcess
  <2>1. At(w, "register") \/ At(w, "store")
    BY DEF RewriteManifest, Store
  <2> QED
    BY <2>1, AtPlace DEF IInv, OnProcess
<1>2. p \notin off /\ (p \notin raced => Placed(o, dir[p], loaded[p], spoilt))
  BY <1>1, NotOff DEF IInv, OnProcess, Settled, PlacedRight
<1>3. CASE RewriteManifest(w)
  <2>1. /\ GoTo(w, "store") /\ o.at = "register"
        /\ UNCHANGED <<registry, running, loaded, boot, calls, raced, contested, stranded, off>>
    BY <1>3 DEF RewriteManifest, At, rest
  <2>2. dir[p] \in Dirs \cup {Absent}
    BY <1>1 DEF IInv, Typed, TypeOK
  <2>3. PICK d \in Dirs \cup {Absent} :
            /\ dir' = [dir EXCEPT ![p] = d]
            /\ spoilt' \in {spoilt, spoilt \cup {p}}
            /\ dir[p] # Absent => Enabled(d) \/ p \in spoilt'
    <3>1. CASE dir' = [dir EXCEPT ![p] = writeManifest(@, "enabled")] /\ UNCHANGED spoilt
      <4>1. /\ writeManifest(dir[p], "enabled") \in Dirs \cup {Absent}
            /\ dir[p] # Absent => Enabled(writeManifest(dir[p], "enabled"))
        BY <2>2, Written DEF Flags, Enabled
      <4> QED
        BY <3>1, <4>1
    <3>2. ASSUME NEW e \in Unwritten(dir[p]), dir' = [dir EXCEPT ![p] = e],
                 spoilt' = spoilt \cup {p}
          PROVE  \E d \in Dirs \cup {Absent} :
                     /\ dir' = [dir EXCEPT ![p] = d]
                     /\ spoilt' \in {spoilt, spoilt \cup {p}}
                     /\ dir[p] # Absent => Enabled(d) \/ p \in spoilt'
      <4>1. e \in Dirs \cup {Absent}
        BY <2>2, <3>2, Written DEF Unwritten, Flags
      <4> QED
        BY <3>2, <4>1
    <3> QED
      BY <1>3, <3>1, <3>2 DEF RewriteManifest
  <2>4. PICK j \in Good : /\ job' = [job EXCEPT ![w] = j] /\ j.at = "store" /\ j.plugin = p
                          /\ j.proc = o.proc /\ j.types = o.types
    <3>1. "store" \in Places /\ "store" \notin Uploading /\ "store" \in OnProcess
      BY DEF Places, Uploading, OnProcess
    <3>2. o.proc \in Procs
      BY <1>1, CarriedBy DEF IInv
    <3> QED
      BY <1>1, <2>1, <3>1, <3>2, Going DEF IInv
  <2>5. Carry(j) = Carry(o) /\ j # NoJob
    <3>1. j # NoJob /\ o # NoJob
      BY <1>1, RecordsAssumption DEF Good
    <3> QED
      BY <2>1, <2>4, <3>1 DEF Carry, OnProcess
  <2>6. p \notin raced => Placed(j, d, loaded[p], spoilt')
    BY <1>2, <2>1, <2>3, <2>4 DEF Placed
  <2>7. o.at # "read"
    BY <2>1
  <2> QED
    BY <1>1, <2>1, <2>3, <2>4, <2>5, <2>6, <2>7, DirStep
<1>4. CASE Store(w)
  <2>1. /\ loaded' = [loaded EXCEPT ![p] = [proc |-> o.proc, types |-> o.types]]
        /\ job' = [job EXCEPT ![w] = NoJob] /\ o.at = "store"
        /\ UNCHANGED <<dir, registry, running, boot, calls, raced, contested, stranded, spoilt, off>>
    BY <1>4 DEF Store, End, At, rest, history
  <2>2. carried[w] # NotLoaded /\ carried[w] = [proc |-> o.proc, types |-> o.types]
    BY <1>1, CarriedBy DEF IInv
  <2>3. carried[w] \in Loads
    BY <2>2, TypedFormed DEF IInv, Formed
  <2>4. Typed'
    <3>1. loaded' \in [Plugins -> Loads \cup {NotLoaded}]
      BY <2>1, <2>2, <2>3 DEF IInv, Typed, TypeOK
    <3> USE DEF IInv, Typed, TypeOK
    <3> QED
      BY <2>1, <3>1, TypedStep
  <2>5. /\ p \notin raced => loaded[p] = NotLoaded
        /\ p \notin raced \cup spoilt => Enabled(dir[p])
    BY <1>2, <2>1 DEF Placed
  <2>6. Processes'
    <3>1. carried' = [carried EXCEPT ![w] = NotLoaded]
      <4>1. Carry(NoJob) = NotLoaded
        BY CarryNone
      <4> QED
        BY <2>1, <4>1, CarriedStep DEF IInv
    <3>2. raced = {} => loaded[p] = NotLoaded
      BY <2>5
    <3>3. loaded' = [loaded EXCEPT ![p] = carried[w]]
      BY <2>1, <2>2
    <3> QED
      BY <1>1, <2>1, <2>2, <3>1, <3>2, <3>3, TypedFormed, Storing DEF IInv
  <2>7. Settled'
    <3>1. \A q \in Plugins \ {p} : loaded'[q] = loaded[q]
      BY <2>1 DEF IInv, Typed, TypeOK
    <3>2. Steps(w, NoJob)
      BY <1>2, <2>1, <2>5, <3>1 DEF Steps
    <3> QED
      BY <1>1, <3>2, Stepping DEF IInv
  <2> QED
    BY <2>4, <2>6, <2>7 DEF IInv
<1> QED
  BY <1>3, <1>4

\* A server that starts: over any directories, with nothing running.
LEMMA Fresher ==
    ASSUME dir \in [Plugins -> Dirs \cup {Absent}], registry = Fresh, running = {},
           loaded = [p \in Plugins |-> NotLoaded], job = [w \in Workers |-> NoJob],
           boot \subseteq Plugins, calls \in 0..MaxCalls,
           raced = {}, contested = {}, stranded = {}, spoilt = {}, off \subseteq Plugins,
           \A p \in off : Disabled(dir[p])
    PROVE  IInv
<1>1. Typed
  BY DEF Typed, TypeOK, Fresh
<1>2. Underway = {} /\ \A w \in Workers : carried[w] = NotLoaded
  BY DEF Underway, carried, Carry
<1>3. Processes
  <2>1. \A t \in Types : registry[t] \notin Procs
    BY NullsAssumption DEF Fresh
  <2> QED
    BY <1>2, <2>1 DEF Processes, Held, Alive, Served, Accounted
<1>4. Settled
  BY <1>2 DEF Settled, Alone, PlacedRight, Booted, ManifestFollowed, Off
<1> QED
  BY <1>1, <1>3, <1>4 DEF IInv

LEMMA RestartStep ==
    ASSUME IInv, Restart
    PROVE  IInv'
<1>1. /\ dir' \in [Plugins -> Dirs \cup {Absent}] /\ registry' = Fresh /\ running' = {}
      /\ loaded' = [p \in Plugins |-> NotLoaded] /\ job' = [w \in Workers |-> NoJob]
      /\ boot' \subseteq Plugins
      /\ raced' = {} /\ contested' = {} /\ stranded' = {} /\ spoilt' = {} /\ off' \subseteq Plugins
  BY DEF Restart, IInv, Typed, TypeOK
<1>2. calls' \in 0..MaxCalls
  BY CallsAssumption DEF Restart, Asks, IInv, Typed, TypeOK
<1>3. \A p \in off' : Disabled(dir'[p])
  BY DEF Restart, IInv, Settled, Off, Disabled
<1>4. Typed'
  BY <1>1, <1>2 DEF Typed, TypeOK, Fresh
<1>5. Underway' = {} /\ \A w \in Workers : carried'[w] = NotLoaded
  BY <1>1 DEF Underway, carried, Carry
<1>6. Processes'
  <2>1. \A t \in Types : registry'[t] \notin Procs
    BY <1>1, NullsAssumption DEF Fresh
  <2> QED
    BY <1>1, <1>5, <2>1 DEF Processes, Held, Alive, Served, Accounted
<1>7. Settled'
  <2>1. Off'
    BY <1>1, <1>3, <1>5 DEF Off, Disabled, IInv, Typed, TypeOK
  <2> QED
    BY <1>1, <1>5, <2>1 DEF Settled, Alone, PlacedRight, Booted, ManifestFollowed
<1> QED
  BY <1>4, <1>6, <1>7 DEF IInv

----------------------------------------------------------------------------
(* Theorems.                                                               *)

LEMMA Inductive == Spec => []IInv
<1>1. Init => IInv
  <2> SUFFICES ASSUME Init PROVE IInv
    OBVIOUS
  <2>1. 0 \in 0..MaxCalls
    BY CallsAssumption
  <2>2. boot \subseteq Plugins
    BY DEF Init
  <2> QED
    BY <2>1, <2>2, Fresher DEF Init
<1>2. IInv /\ [Next]_vars => IInv'
  <2> SUFFICES ASSUME IInv, [Next]_vars PROVE IInv'
    OBVIOUS
  <2>1. ASSUME NEW w \in Workers, LoadAll(w) \/ Installing(w) \/ Switching(w) \/ LoadFromDir(w)
        PROVE  IInv'
    <3>1. CASE InstallFile(w) \/ SetEnabled(w) \/ Uninstall(w) \/ LoadAll(w)
      BY <3>1, RequestSteps
    <3>2. CASE Clear(w) \/ MkdirAll(w) \/ Copy(w) \/ WriteManifest(w) \/ Discard(w)
      BY <3>2, UploadSteps
    <3>3. CASE WriteFlag(w) \/ Remove(w)
      BY <3>3, FlagSteps
    <3>4. CASE Drop(w) \/ UnloadOld(w)
      BY <3>4, UnloadSteps
    <3>5. CASE ReadDir(w)
      BY <3>5, ReadStep
    <3>6. CASE Start(w)
      BY <3>6, StartStep
    <3>7. CASE Register(w)
      BY <3>7, RegisterStep
    <3>8. CASE RefuseType(w) \/ RefuseEmpty(w)
      BY <3>8, RefuseSteps
    <3>9. CASE RewriteManifest(w) \/ Store(w)
      BY <3>9, StoreSteps
    <3> QED
      BY <2>1, <3>1, <3>2, <3>3, <3>4, <3>5, <3>6, <3>7, <3>8, <3>9
         DEF Installing, Switching, LoadFromDir
  <2>2. CASE Restart
    BY <2>2, RestartStep
  <2>3. CASE UNCHANGED vars
    <3>1. /\ dir' = dir /\ registry' = registry /\ running' = running /\ loaded' = loaded
          /\ job' = job /\ boot' = boot /\ calls' = calls /\ raced' = raced
          /\ contested' = contested /\ stranded' = stranded /\ spoilt' = spoilt /\ off' = off
      BY <2>3 DEF vars
    <3>2. Typed'
      BY <3>1 DEF IInv, Typed, TypeOK
    <3>3. Processes'
      <4>1. carried' = carried
        BY <3>1 DEF carried, Carry
      <4> QED
        BY <3>1, <4>1, Quiet DEF IInv
    <3>4. Settled'
      BY <3>1 DEF IInv, Settled, Alone, PlacedRight, Booted, ManifestFollowed, Off, Underway,
                  Idle, Placed, Enabled, Disabled
    <3> QED
      BY <3>2, <3>3, <3>4 DEF IInv
  <2> QED
    BY <2>1, <2>2, <2>3 DEF Next
<1> QED
  BY <1>1, <1>2, PTL DEF Spec

\* The directories, the registry, the map and the jobs have their types, and a load that
\* carries a process has one (manager.go Manager, loadedPlugin).
THEOREM TypeCorrect == Spec => []TypeOK
<1>1. IInv => TypeOK
  BY DEF IInv, Typed
<1> QED
  BY <1>1, Inductive, PTL

\* No factory calls a process that has ended, but for types of refused loads, whatever loads,
\* take-overs, unloads and restarts mix (manager.go unloadLocked, loadFromDir).
THEOREM RegistryCorrect == Spec => []RegistryAlive
<1>1. IInv => RegistryAlive
  BY DEF IInv, Processes, Alive, RegistryAlive
<1> QED
  BY <1>1, Inductive, PTL

\* A loaded plugin runs and serves its types, but for what another load has taken over
\* (manager.go loadFromDir).
THEOREM ServiceCorrect == Spec => []LoadedServed
<1>1. IInv => LoadedServed
  BY DEF IInv, Processes, Held, Served, LoadedServed
<1> QED
  BY <1>1, Inductive, PTL

\* While no two jobs overlap on a plugin, every process that runs is in the map or in the
\* hands of the load that started it (manager.go loadFromDir).
THEOREM ProcessesCorrect == Spec => []NoOrphan
<1>1. IInv => NoOrphan
  <2> SUFFICES ASSUME IInv, raced = {}
               PROVE  running =
                   {loaded[p].proc : p \in {q \in Plugins : loaded[q] # NotLoaded}}
                   \cup {job[w].proc : w \in {v \in Underway : job[v].at \in {"register", "store"}}}
    BY DEF NoOrphan
  <2>1. \A w \in Workers : carried[w] # NotLoaded <=> w \in Underway /\ job[w].at \in OnProcess
    <3>1. ASSUME NEW w \in Workers, carried[w] # NotLoaded
          PROVE  w \in Underway /\ job[w].at \in OnProcess
      BY <3>1 DEF carried, Carry, Underway
    <3> QED
      BY <3>1, CarriedBy DEF IInv, Underway
  <2>2. \A w \in Workers : carried[w] # NotLoaded => carried[w].proc = job[w].proc
    BY <2>1, CarriedBy DEF IInv
  <2>3. ASSUME NEW r \in running
        PROVE  \/ \E p \in Plugins : loaded[p] # NotLoaded /\ loaded[p].proc = r
               \/ \E w \in Underway : job[w].at \in OnProcess /\ job[w].proc = r
    BY <2>1, <2>2 DEF IInv, Processes, Accounted, Kept
  <2>4. \A p \in Plugins : loaded[p] # NotLoaded => loaded[p].proc \in running
    BY DEF IInv, Processes, Held
  <2>5. \A w \in Underway : job[w].at \in OnProcess => job[w].proc \in running
    BY <2>1, <2>2 DEF IInv, Processes, Held, Underway
  <2> QED
    BY <2>3, <2>4, <2>5 DEF OnProcess
<1> QED
  BY <1>1, Inductive, PTL

\* What is loaded comes back with the next start (manager.go loadFromDir, SetEnabled).
THEOREM ManifestsCorrect == Spec => []ManifestFollowed
<1>1. IInv => ManifestFollowed
  BY DEF IInv, Settled
<1> QED
  BY <1>1, Inductive, PTL

\* A plugin that was disabled stays so, restarts and failed requests included
\* (plugin_handlers.go:78, manager.go SetEnabled and LoadAll).
THEOREM DisabledCorrect == Spec => []DisabledStays
<1>1. IInv => DisabledStays
  BY DEF IInv, Settled, Off, DisabledStays, Disabled
<1> QED
  BY <1>1, Inductive, PTL
=============================================================================
