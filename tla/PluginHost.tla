------------------------------ MODULE PluginHost ------------------------------
(***************************************************************************)
(* The plugin host: internal/pluginhost/{manager,util}.go, the handlers    *)
(* of internal/api/plugin_handlers.go that call it, and LoadAll at start.  *)
(*                                                                         *)
(* A plugin is a directory with an executable and a manifest.  Loading it  *)
(* starts a process and registers a factory for each node type that the    *)
(* process declares; the mutex of the manager guards only its own map, so  *)
(* that the directory, the process, the registry and the map are changed   *)
(* one after another, by any number of requests at once.  Each lock        *)
(* section, each change of a directory and each type registered is a step. *)
(*                                                                         *)
(* The registry is the engine's, with a lock of its own, and processes are *)
(* the SDK's: both external.  Register replaces what is there; the load    *)
(* asks for a type, takes it out and registers its own under three lock    *)
(* sections, one step here, so that a type shows no gap between them.  A   *)
(* process ends when its client is closed and with the server.  Manifests  *)
(* are reduced to whether the plugin is enabled; the documents a plugin    *)
(* brings along, and the language of errors, are left out.                 *)
(***************************************************************************)
EXTENDS Naturals, Sequences

CONSTANTS
    Plugins, Types, Workers,
    Procs,      \* bound: plugin processes at a time
    MaxCalls,   \* bound: requests and restarts
    Builtins,   \* the types of built-in nodes whose Source says so
    Unmarked,   \* the types of built-in nodes whose Source is empty
    Binaries,   \* executables: the sequences of types they declare
    NoBinary,   \* a file that is no executable of this host, or none
    Absent,     \* a directory that does not exist
    NoOwner, Builtin, NotLoaded, NoProc, NoJob

ASSUME TypesAssumption == Builtins \subseteq Types /\ Unmarked \subseteq Types \ Builtins
ASSUME CallsAssumption == MaxCalls \in Nat
ASSUME BinariesAssumption == Binaries \subseteq Seq(Types)
ASSUME NullsAssumption == {NoOwner, Builtin, NoProc} \cap Procs = {} /\ NoOwner # Builtin

VARIABLES
    dir,        \* plugin -> its directory
    registry,   \* type -> the process its factory calls, or Builtin, or NoOwner
    running,    \* plugin processes
    loaded,     \* Manager.loaded
    job,        \* the request, or the load of LoadAll, each worker is in
    boot,       \* directories LoadAll has still to look at
    calls,      \* requests and restarts so far
    raced,      \* history: plugins on which two jobs have overlapped
    contested,  \* history: types that were registered over another running process
    stranded,   \* history: types registered by a load that was refused later
    spoilt,     \* history: plugins of which an upload, or the write of a manifest, has failed
                \* since they were unloaded last
    off         \* history: plugins that were disabled last, by a request alone on them

history == <<raced, contested, stranded, spoilt, off>>
vars == <<dir, registry, running, loaded, job, boot, calls, raced, contested, stranded, spoilt, off>>
rest == <<boot, calls>>

Dirs == [binary : Binaries \cup {NoBinary}, manifest : {"none", "enabled", "disabled"}]

Loads == [proc : Procs, types : SUBSET Types]

\* binary: what is uploaded; proc: the process started; left: what it declares and is not
\* registered yet; types: what is.
Jobs == [kind : {"install", "enable", "disable", "uninstall", "boot"},
         at : {"clear", "mkdir", "copy", "manifest", "flag", "drop", "remove",
               "read", "unload", "start", "register", "store", "discard"},
         plugin : Plugins, binary : Binaries \cup {NoBinary}, proc : Procs \cup {NoProc},
         left : Seq(Types), types : SUBSET Types]

ASSUME RecordsAssumption == Absent \notin Dirs /\ NotLoaded \notin Loads /\ NoJob \notin Jobs

TypeOK ==
    /\ dir \in [Plugins -> Dirs \cup {Absent}]
    /\ registry \in [Types -> Procs \cup {Builtin, NoOwner}]
    /\ running \subseteq Procs
    /\ loaded \in [Plugins -> Loads \cup {NotLoaded}]
    /\ job \in [Workers -> Jobs \cup {NoJob}]
    /\ boot \subseteq Plugins
    /\ calls \in 0..MaxCalls
    /\ raced \subseteq Plugins /\ spoilt \subseteq Plugins /\ off \subseteq Plugins
    /\ contested \subseteq Types /\ stranded \subseteq Types

\* The registry before any plugin is loaded.
Fresh == [t \in Types |-> IF t \in Builtins \cup Unmarked THEN Builtin ELSE NoOwner]

\* A server that starts: a directory may hold what an upload cut off by a crash left.
Init ==
    /\ dir \in [Plugins -> Dirs \cup {Absent}]
    /\ registry = Fresh
    /\ running = {}
    /\ loaded = [p \in Plugins |-> NotLoaded]
    /\ job = [w \in Workers |-> NoJob]
    /\ boot = {p \in Plugins : dir[p] # Absent}
    /\ calls = 0
    /\ raced = {} /\ contested = {} /\ stranded = {} /\ spoilt = {} /\ off = {}

----------------------------------------------------------------------------
(* Directories.                                                            *)

ValidateBinaryForHost(d) == d # Absent /\ d.binary # NoBinary

readManifest(d) == d # Absent /\ d.manifest # "none"

\* Nothing is written where there is no directory.
writeManifest(d, flag) == IF d = Absent THEN d ELSE [d EXCEPT !.manifest = flag]

\* A write that fails leaves the manifest as it was, or nothing of it.
Unwritten(d) == {d, writeManifest(d, "none")}

----------------------------------------------------------------------------
(* Requests.                                                               *)

Underway == {w \in Workers : job[w] # NoJob}

Begin(w, kind, at, p, b) ==
    /\ job[w] = NoJob
    /\ job' = [job EXCEPT ![w] = [kind |-> kind, at |-> at, plugin |-> p, binary |-> b,
                                  proc |-> NoProc, left |-> <<>>, types |-> {}]]
    /\ raced' = raced \cup {q \in {p} : \E v \in Underway : job[v].plugin = q}
    /\ off' = IF kind = "boot" THEN off ELSE off \ {p}
    /\ UNCHANGED <<dir, registry, running, loaded, contested, stranded, spoilt>>

At(w, place) == job[w] # NoJob /\ job[w].at = place
GoTo(w, place) == job' = [job EXCEPT ![w].at = place]
End(w) == job' = [job EXCEPT ![w] = NoJob]

\* LoadAll is over when the server begins to listen.
Serving == boot = {} /\ \A w \in Underway : job[w].kind # "boot"

Asks == Serving /\ calls < MaxCalls /\ calls' = calls + 1

InstallFile(w) ==
    /\ Asks
    /\ \E p \in Plugins, b \in Binaries \cup {NoBinary} : Begin(w, "install", "clear", p, b)
    /\ UNCHANGED boot

\* readManifest finds the plugin.
SetEnabled(w) ==
    /\ Asks
    /\ \E p \in Plugins, kind \in {"enable", "disable"} :
           /\ readManifest(dir[p])
           /\ Begin(w, kind, "flag", p, NoBinary)
    /\ UNCHANGED boot

Uninstall(w) ==
    /\ Asks
    /\ \E p \in Plugins : dir[p] # Absent /\ Begin(w, "uninstall", "drop", p, NoBinary)
    /\ UNCHANGED boot

\* LoadAll goes through the directories one by one before the server listens.
LoadAll(w) ==
    /\ Underway = {}
    /\ \E p \in boot : Begin(w, "boot", "read", p, NoBinary) /\ boot' = boot \ {p}
    /\ UNCHANGED calls

----------------------------------------------------------------------------
(* installFile, up to the load.                                            *)

\* os.RemoveAll, in this step and the last ones of a failed upload and of Uninstall.
Clear(w) ==
    /\ At(w, "clear")
    /\ dir' = [dir EXCEPT ![job[w].plugin] = Absent]
    /\ GoTo(w, "mkdir")
    /\ UNCHANGED <<registry, running, loaded, rest, history>>

\* If it fails the upload has, with nothing left to remove.
MkdirAll(w) ==
    /\ At(w, "mkdir")
    /\ \/ /\ dir' = [dir EXCEPT ![job[w].plugin] =
                        IF @ = Absent THEN [binary |-> NoBinary, manifest |-> "none"] ELSE @]
          /\ GoTo(w, "copy")
          /\ UNCHANGED spoilt
       \/ /\ End(w)
          /\ spoilt' = spoilt \cup {job[w].plugin}
          /\ UNCHANGED dir
    /\ UNCHANGED <<registry, running, loaded, rest, raced, contested, stranded, off>>

\* unzipPlugin or copyFile, which fails without a directory and may fail with one.
Copy(w) ==
    /\ At(w, "copy")
    /\ \/ /\ dir[job[w].plugin] # Absent
          /\ dir' = [dir EXCEPT ![job[w].plugin].binary = job[w].binary]
          /\ GoTo(w, "manifest")
       \/ UNCHANGED dir /\ GoTo(w, "discard")
    /\ UNCHANGED <<registry, running, loaded, rest, history>>

\* ValidateBinaryForHost, then writeManifest, which may fail as well.
WriteManifest(w) ==
    /\ At(w, "manifest")
    /\ LET p == job[w].plugin
       IN  \/ /\ ValidateBinaryForHost(dir[p])
              /\ dir' = [dir EXCEPT ![p] = writeManifest(@, "enabled")]
              /\ GoTo(w, "read")
           \/ UNCHANGED dir /\ GoTo(w, "discard")
    /\ UNCHANGED <<registry, running, loaded, rest, history>>

\* What is there of a failed upload is removed; the plugin it was to replace may be loaded
\* still.
Discard(w) ==
    /\ At(w, "discard")
    /\ dir' = [dir EXCEPT ![job[w].plugin] = Absent]
    /\ spoilt' = spoilt \cup {job[w].plugin}
    /\ End(w)
    /\ UNCHANGED <<registry, running, loaded, rest, raced, contested, stranded, off>>

----------------------------------------------------------------------------
(* Unloading, enabling, uninstalling.                                      *)

\* Slip: the process is ended and its types stay registered.
ClosesOnly(p) ==
    /\ registry' = registry
    /\ running' = IF loaded[p] = NotLoaded THEN running ELSE running \ {loaded[p].proc}
    /\ loaded' = [loaded EXCEPT ![p] = NotLoaded]
    /\ spoilt' = spoilt \ {p}

\* Slip: the types go and the process is forgotten.
Forgets(p) ==
    /\ registry' = [t \in Types |-> IF loaded[p] # NotLoaded /\ t \in loaded[p].types
                                    THEN NoOwner ELSE registry[t]]
    /\ running' = running
    /\ loaded' = [loaded EXCEPT ![p] = NotLoaded]
    /\ spoilt' = spoilt \ {p}

\* Slip: the plugin stays in the map.
KeepsEntry(p) ==
    /\ registry' = [t \in Types |-> IF loaded[p] # NotLoaded /\ t \in loaded[p].types
                                    THEN NoOwner ELSE registry[t]]
    /\ running' = IF loaded[p] = NotLoaded THEN running ELSE running \ {loaded[p].proc}
    /\ loaded' = loaded
    /\ spoilt' = spoilt \ {p}

\* The lock section around unloadLocked, if the plugin is loaded: whoever owns them by now,
\* the types it registered go.
UnloadLocked(p) ==
    /\ registry' = [t \in Types |-> IF loaded[p] # NotLoaded /\ t \in loaded[p].types
                                    THEN NoOwner ELSE registry[t]]
    /\ running' = IF loaded[p] = NotLoaded THEN running ELSE running \ {loaded[p].proc}
    /\ loaded' = [loaded EXCEPT ![p] = NotLoaded]
    /\ spoilt' = spoilt \ {p}

\* Slip: the flag is not written.
LeavesFlag(w) ==
    /\ At(w, "flag")
    /\ GoTo(w, "drop")
    /\ UNCHANGED <<dir, registry, running, loaded, rest, history>>

\* SetEnabled writes the manifest first, or fails, as it does if the directory is gone by now.
WriteFlag(w) ==
    /\ At(w, "flag")
    /\ LET p == job[w].plugin
       IN  \/ /\ dir[p] # Absent
              /\ dir' = [dir EXCEPT ![p] =
                     writeManifest(@, IF job[w].kind = "enable" THEN "enabled" ELSE "disabled")]
              /\ GoTo(w, "drop")
              /\ UNCHANGED spoilt
           \/ /\ \E d \in Unwritten(dir[p]) : dir' = [dir EXCEPT ![p] = d]
              /\ End(w)
              /\ spoilt' = spoilt \cup {p}
    /\ UNCHANGED <<registry, running, loaded, rest, raced, contested, stranded, off>>

\* SetEnabled and Uninstall end the process that runs.
Drop(w) ==
    /\ At(w, "drop")
    /\ UnloadLocked(job[w].plugin)
    /\ CASE job[w].kind = "enable" -> GoTo(w, "read")
         [] job[w].kind = "uninstall" -> GoTo(w, "remove")
         [] OTHER -> End(w)
    /\ off' = IF job[w].kind = "disable" THEN off \cup ({job[w].plugin} \ raced) ELSE off
    /\ UNCHANGED <<dir, rest, raced, contested, stranded>>

Remove(w) ==
    /\ At(w, "remove")
    /\ dir' = [dir EXCEPT ![job[w].plugin] = Absent]
    /\ End(w)
    /\ UNCHANGED <<registry, running, loaded, rest, history>>

----------------------------------------------------------------------------
(* loadFromDir.                                                            *)

\* An error ends LoadAll's load and SetEnabled; installFile removes the directory first.
Fails(w) == IF job[w].kind = "install" THEN GoTo(w, "discard") ELSE End(w)

\* Slip: LoadAll loads what is disabled.
ReadsAny(w) ==
    /\ At(w, "read")
    /\ LET d == dir[job[w].plugin]
       IN  IF ~ValidateBinaryForHost(d) THEN Fails(w) ELSE GoTo(w, "unload")
    /\ UNCHANGED <<dir, registry, running, loaded, rest, history>>

\* readManifest or findBinary, and ValidateBinaryForHost; LoadAll skips what is disabled.
ReadDir(w) ==
    /\ At(w, "read")
    /\ LET d == dir[job[w].plugin]
       IN  IF ~ValidateBinaryForHost(d) THEN Fails(w)
           ELSE IF d.manifest = "disabled" /\ job[w].kind = "boot" THEN End(w)
           ELSE GoTo(w, "unload")
    /\ UNCHANGED <<dir, registry, running, loaded, rest, history>>

UnloadOld(w) ==
    /\ At(w, "unload")
    /\ UnloadLocked(job[w].plugin)
    /\ GoTo(w, "start")
    /\ UNCHANGED <<dir, rest, raced, contested, stranded, off>>

\* A process that does not run and to which nothing refers.
Unused(r) ==
    /\ r \notin running
    /\ \A t \in Types : registry[t] # r
    /\ \A w \in Underway : job[w].proc # r

\* sdk.Start runs the file there is by now, and may fail.
Start(w) ==
    /\ At(w, "start")
    /\ LET d == dir[job[w].plugin]
       IN  \/ /\ ValidateBinaryForHost(d)
              /\ \E r \in Procs :
                     /\ Unused(r)
                     /\ running' = running \cup {r}
                     /\ job' = [job EXCEPT ![w].at = "register", ![w].proc = r,
                                           ![w].left = d.binary]
           \/ Fails(w) /\ UNCHANGED running
    /\ UNCHANGED <<dir, registry, loaded, rest, history>>

\* The type belongs to a built-in node, as far as its Source tells.
Occupied(t) == registry[t] = Builtin /\ t \in Builtins

\* One type: what was registered under it is replaced.
Register(w) ==
    /\ At(w, "register")
    /\ job[w].left # <<>>
    /\ LET t == Head(job[w].left)
       IN  /\ ~Occupied(t)
           /\ registry' = [registry EXCEPT ![t] = job[w].proc]
           /\ job' = [job EXCEPT ![w].left = Tail(@), ![w].types = @ \cup {t}]
           /\ contested' = contested \cup
                  (IF registry[t] \in running \ {job[w].proc} THEN {t} ELSE {})
           /\ stranded' = stranded \ {t}
    /\ UNCHANGED <<dir, running, loaded, rest, raced, spoilt, off>>

\* The load is refused, its process closed, and what it has registered stays.
RefuseType(w) ==
    /\ At(w, "register")
    /\ job[w].left # <<>> /\ Occupied(Head(job[w].left))
    /\ running' = running \ {job[w].proc}
    /\ stranded' = stranded \cup job[w].types
    /\ Fails(w)
    /\ UNCHANGED <<dir, registry, loaded, rest, raced, contested, spoilt, off>>

RefuseEmpty(w) ==
    /\ At(w, "register")
    /\ job[w].left = <<>> /\ job[w].types = {}
    /\ running' = running \ {job[w].proc}
    /\ Fails(w)
    /\ UNCHANGED <<dir, registry, loaded, rest, history>>

\* The manifest says enabled, if there still is a directory to write it to; that the write
\* fails is not looked at.
RewriteManifest(w) ==
    /\ At(w, "register")
    /\ job[w].left = <<>> /\ job[w].types # {}
    /\ LET p == job[w].plugin
       IN  \/ /\ dir' = [dir EXCEPT ![p] = writeManifest(@, "enabled")]
              /\ UNCHANGED spoilt
           \/ /\ \E d \in Unwritten(dir[p]) : dir' = [dir EXCEPT ![p] = d]
              /\ spoilt' = spoilt \cup {p}
    /\ GoTo(w, "store")
    /\ UNCHANGED <<registry, running, loaded, rest, raced, contested, stranded, off>>

\* The lock section that puts the plugin in the map, whatever is there.
Store(w) ==
    /\ At(w, "store")
    /\ loaded' = [loaded EXCEPT ![job[w].plugin] = [proc |-> job[w].proc, types |-> job[w].types]]
    /\ End(w)
    /\ UNCHANGED <<dir, registry, running, rest, history>>

----------------------------------------------------------------------------

\* The server ends, and its plugins with it, and starts again over the directories.
Restart ==
    /\ Asks
    /\ registry' = Fresh
    /\ running' = {}
    /\ loaded' = [p \in Plugins |-> NotLoaded]
    /\ job' = [w \in Workers |-> NoJob]
    /\ boot' = {p \in Plugins : dir[p] # Absent}
    /\ raced' = {} /\ contested' = {} /\ stranded' = {} /\ spoilt' = {}
    /\ UNCHANGED <<dir, off>>

Installing(w) ==
    InstallFile(w) \/ Clear(w) \/ MkdirAll(w) \/ Copy(w) \/ WriteManifest(w) \/ Discard(w)

Switching(w) == SetEnabled(w) \/ Uninstall(w) \/ WriteFlag(w) \/ Drop(w) \/ Remove(w)

LoadFromDir(w) ==
    \/ ReadDir(w) \/ UnloadOld(w) \/ Start(w) \/ Register(w) \/ RefuseType(w)
    \/ RefuseEmpty(w) \/ RewriteManifest(w) \/ Store(w)

Next ==
    \/ \E w \in Workers : LoadAll(w) \/ Installing(w) \/ Switching(w) \/ LoadFromDir(w)
    \/ Restart

Spec == Init /\ [][Next]_vars

----------------------------------------------------------------------------
(* Properties.                                                             *)

Idle(p) == \A w \in Underway : job[w].plugin # p

\* No factory calls a process that has ended, except for the types of a load that was
\* refused after it had registered them: unloading takes all the types of a plugin out of
\* the registry, however loads, take-overs and unloads mix (manager.go unloadLocked).
RegistryAlive == \A t \in Types \ stranded : registry[t] \in Procs => registry[t] \in running

\* The types of a loaded plugin are served by its process, unless another load has registered
\* them while it ran, and whatever jobs overlapped (manager.go loadFromDir, unloadLocked).
LoadedServed ==
    \A p \in Plugins :
        loaded[p] # NotLoaded =>
            /\ loaded[p].proc \in running
            /\ \A t \in loaded[p].types \ contested : registry[t] = loaded[p].proc

\* Every plugin process can be ended: it is in the map, or in the hands of the load that
\* started it, failed loads included (manager.go loadFromDir).
NoOrphan ==
    raced = {} =>
        running = {loaded[p].proc : p \in {q \in Plugins : loaded[q] # NotLoaded}}
                  \cup {job[w].proc : w \in {v \in Underway : job[v].at \in {"register", "store"}}}

\* What is loaded says enabled in its directory, so that a restart brings it back, unless an
\* upload or the write of its manifest has failed over it or two jobs on it overlapped
\* (manager.go loadFromDir, Uninstall).
ManifestFollowed ==
    \A p \in Plugins \ (raced \cup spoilt) :
        Idle(p) /\ loaded[p] # NotLoaded => dir[p] # Absent /\ dir[p].manifest = "enabled"

\* "Plugin disabled (files kept; will not load on restart)" (plugin_handlers.go:78): until it
\* is uploaded, enabled or uninstalled, its files are there and it is not loaded.
DisabledStays ==
    \A p \in off : loaded[p] = NotLoaded /\ dir[p] # Absent /\ dir[p].manifest = "disabled"
=============================================================================
