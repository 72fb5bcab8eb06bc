--------------------------- MODULE HttpEndpoints ---------------------------
(***************************************************************************)
(* The route table of published flows: internal/endpoint/manager.go.       *)
(*                                                                         *)
(* A Manager keeps one shared HTTP(S) server per listening address, the    *)
(* routes mounted on it with the flow each belongs to, a reference count,  *)
(* the ServeMux built from the routes, and for each flow the list of       *)
(* (address, pattern) pairs it occupies.  RemoveFlow and addRoute hold the *)
(* manager's mutex for their whole body, so each is one action; SyncFlow   *)
(* takes the mutex once per call it makes, so it is a process: RemoveFlow, *)
(* then one addRoute per router, then, on an error, RemoveFlow again.      *)
(* Workers are the goroutines that may be inside SyncFlow at once: REST    *)
(* handlers, MCP tools and StartAll.                                       *)
(***************************************************************************)
EXTENDS Integers, Sequences, FiniteSets

CONSTANTS
    Flows,      \* flow ids
    Addrs,      \* normalised listening addresses
    Patterns,   \* "METHOD /path" patterns
    Tls,        \* TLS modes: plain HTTP, or HTTPS with a certificate fingerprint
    BadTls,     \* the modes whose key pair tls.X509KeyPair refuses
    Clash,      \* pairs of different patterns that one ServeMux refuses together
    Dsls,       \* the HTTP part of a published DSL: its routers in node order
    Workers,    \* goroutines that call SyncFlow
    NoServer, NoTarget, NoDsl, NoFlow

\* One router of an httpEndpoint node; parses is FALSE for a node whose
\* configuration ParseHttpConfig rejects.
Routers == [addr : Addrs, pattern : Patterns, tls : Tls, parses : BOOLEAN]

ASSUME RoutersAssumption == Dsls \subseteq Seq(Routers)
ASSUME PatternsAssumption == IsFiniteSet(Patterns)
ASSUME ModesAssumption == /\ BadTls \subseteq Tls
                          /\ NoServer \notin Tls
ASSUME ClashAssumption == \A c \in Clash : c \subseteq Patterns /\ Cardinality(c) = 2
ASSUME NullsAssumption == /\ NoDsl \notin Dsls
                          /\ NoFlow \notin Flows
                          /\ NoTarget \notin [flow : Flows, dsl : Dsls, router : Nat]

VARIABLES
    server,     \* byAddr: the TLS mode of the server of an address, or NoServer
    routes,     \* sharedServer.routes: the target of each pattern, or NoTarget
    refCount,   \* sharedServer.refCount (0 without a server)
    mux,        \* the patterns registered in sharedServer.mux
    byFlow,     \* flow -> the (addr, pattern) pairs it registered, in order
    task,       \* the SyncFlow call each worker is in
    history     \* "clean" until some ServeMux registration has panicked

tableVars == <<server, routes, refCount, mux, byFlow, history>>
vars == <<server, routes, refCount, mux, byFlow, task, history>>

\* routeTarget: the flow, its DSL copy and the router (node and relation) in it.
Targets == [flow : Flows, dsl : Dsls, router : Nat]

\* What a SyncFlow call that is over reported to its caller.
Outcomes == {"ok", "err", "panic"}

\* marks is history of the call: "checked" if CheckHTTPRoutes accepted the DSL as
\* it began, "quiet" while no other SyncFlow has overlapped it, "solo" while none of
\* the same flow has.
Tasks == [pc : {"remove", "add", "cleanup"} \cup Outcomes,
          flow : Flows \cup {NoFlow}, dsl : Dsls \cup {NoDsl}, next : Nat,
          marks : SUBSET {"checked", "quiet", "solo"}]

Over(outcome) == [pc |-> outcome, flow |-> NoFlow, dsl |-> NoDsl, next |-> 0,
                  marks |-> {}]

TypeOK ==
    /\ server \in [Addrs -> Tls \cup {NoServer}]
    /\ routes \in [Addrs -> [Patterns -> Targets \cup {NoTarget}]]
    /\ refCount \in [Addrs -> Int]
    /\ mux \in [Addrs -> SUBSET Patterns]
    /\ byFlow \in [Flows -> Seq(Addrs \X Patterns)]
    /\ task \in [Workers -> Tasks]
    /\ \A w \in Workers : task[w].pc \notin Outcomes =>
           /\ task[w].flow \in Flows
           /\ task[w].next # 0
           /\ task[w].pc # "remove" => task[w].dsl \in Dsls
    /\ history \in {"clean", "panicked"}

NoRoutes == [p \in Patterns |-> NoTarget]

Init ==
    /\ server = [a \in Addrs |-> NoServer]
    /\ routes = [a \in Addrs |-> NoRoutes]
    /\ refCount = [a \in Addrs |-> 0]
    /\ mux = [a \in Addrs |-> {}]
    /\ byFlow = [f \in Flows |-> <<>>]
    /\ task = [w \in Workers |-> Over("ok")]
    /\ history = "clean"

----------------------------------------------------------------------------
(* The route table.                                                        *)

Live(a) == {p \in Patterns : routes[a][p] # NoTarget}

Owns(f, a, p) == routes[a][p] # NoTarget /\ routes[a][p].flow = f

Owned(f) == {ap \in Addrs \X Patterns : Owns(f, ap[1], ap[2])}

\* http.ServeMux.HandleFunc panics when two patterns overlap and neither is more
\* specific, e.g. "GET /u/{id}" and "GET /u/{name}".
ClashFree(S) == \A c \in Clash : ~(c \subseteq S)

\* Slip: the check compares patterns and forgets the mode of a shared address.
CheckPatternsOnly(f, d) ==
    d # NoDsl =>
        /\ \A i \in DOMAIN d : d[i].parses
        /\ \A i, j \in DOMAIN d : i # j /\ d[i].addr = d[j].addr =>
               d[i].tls = d[j].tls /\ d[i].pattern # d[j].pattern
        /\ \A i \in DOMAIN d :
               routes[d[i].addr][d[i].pattern] = NoTarget \/ Owns(f, d[i].addr, d[i].pattern)

\* CheckHTTPRoutes: the DSL agrees with itself and, for every router, the address
\* is free, runs in the same mode or is this flow's alone, and the pattern there
\* belongs to nobody else.
CheckHTTPRoutes(f, d) ==
    d # NoDsl =>
        /\ \A i \in DOMAIN d : d[i].parses
        /\ \A i, j \in DOMAIN d : i # j /\ d[i].addr = d[j].addr =>
               d[i].tls = d[j].tls /\ d[i].pattern # d[j].pattern
        /\ \A i \in DOMAIN d :
               \/ server[d[i].addr] \in {NoServer, d[i].tls}
               \/ \A p \in Live(d[i].addr) : Owns(f, d[i].addr, p)
        /\ \A i \in DOMAIN d :
               routes[d[i].addr][d[i].pattern] = NoTarget \/ Owns(f, d[i].addr, d[i].pattern)

\* RemoveFlow's loop over byFlow[f], after its first n entries: the routes it has
\* dropped at an address, those left there, and the servers it came to.
Dropped(f, n, a) ==
    {p \in Patterns : Owns(f, a, p) /\ \E i \in 1..n : byFlow[f][i] = <<a, p>>}

Left(f, n, a) == Live(a) \ Dropped(f, n, a)

Visited(f, n) == {a \in Addrs : server[a] # NoServer /\ \E i \in 1..n : byFlow[f][i][1] = a}

\* Slip: the shared server goes with its last-but-one route.
ClosesEarly(f, n, a) == refCount[a] - Cardinality(Dropped(f, n, a)) <= 1

\* The server is shut down instead of getting a rebuilt mux.
Closes(f, n, a) == refCount[a] - Cardinality(Dropped(f, n, a)) <= 0 \/ Left(f, n, a) = {}

\* The rebuild after the n-th entry panics: two routes left there clash.
RebuildPanics(f, n) ==
    LET a == byFlow[f][n][1]
    IN  server[a] # NoServer /\ ~Closes(f, n, a) /\ ~ClashFree(Left(f, n, a))

\* What n entries of the loop do to everything but the mux.
Unload(f, n) ==
    LET closed == {a \in Visited(f, n) : Closes(f, n, a)}
    IN  /\ byFlow' = [byFlow EXCEPT ![f] = <<>>]
        /\ server' = [a \in Addrs |-> IF a \in closed THEN NoServer ELSE server[a]]
        /\ routes' = [a \in Addrs |->
                         IF a \in closed THEN NoRoutes
                         ELSE [p \in Patterns |->
                                  IF p \in Dropped(f, n, a) THEN NoTarget ELSE routes[a][p]]]
        /\ refCount' = [a \in Addrs |->
                           IF a \in closed THEN 0
                           ELSE refCount[a] - Cardinality(Dropped(f, n, a))]

\* Slip: routes are dropped and the mux that serves them is kept.
KeepsOldMux(f, n, a) == IF a \in Visited(f, n) /\ Closes(f, n, a) THEN {} ELSE mux[a]

\* The mux of every address after n entries; a closed server has none.
Rebuilt(f, n, a) ==
    IF a \notin Visited(f, n) THEN mux[a]
    ELSE IF Closes(f, n, a) THEN {} ELSE Left(f, n, a)

RemoveFlow(f) ==
    LET n == Len(byFlow[f])
    IN  /\ \A m \in 1..n : ~RebuildPanics(f, m)
        /\ Unload(f, n)
        /\ mux' = [a \in Addrs |-> Rebuilt(f, n, a)]
        /\ UNCHANGED history

\* The loop stops at the n-th entry, whose rebuild registered the patterns of
\* built, in map order, and panicked on the next one.
RemoveFlowPanics(f) ==
    \E n \in 1..Len(byFlow[f]) :
        LET a == byFlow[f][n][1]
        IN  /\ \A m \in 1..(n-1) : ~RebuildPanics(f, m)
            /\ RebuildPanics(f, n)
            /\ Unload(f, n)
            /\ \E built \in SUBSET Left(f, n, a) :
                   /\ ClashFree(built)
                   /\ \E q \in Left(f, n, a) : ~ClashFree(built \cup {q})
                   /\ mux' = [b \in Addrs |-> IF b = a THEN built ELSE Rebuilt(f, n, b)]
            /\ history' = "panicked"

----------------------------------------------------------------------------
(* SyncFlow.                                                               *)

Busy == {w \in Workers : task[w].pc \notin Outcomes}

\* SyncFlow is called with a flow record whose PublishedDSL is d (NoDsl: nil).
SyncBegin(w, f, d) ==
    /\ w \notin Busy
    /\ task' = [v \in Workers |->
                  IF v = w
                  THEN [pc |-> "remove", flow |-> f, dsl |-> d, next |-> 1,
                        marks |-> {m \in {"checked", "quiet", "solo"} :
                            \/ m = "checked" /\ CheckHTTPRoutes(f, d)
                            \/ m = "quiet" /\ Busy = {}
                            \/ m = "solo" /\ \A u \in Busy : task[u].flow # f}]
                  ELSE IF v \in Busy
                  THEN [task[v] EXCEPT !.marks =
                            @ \ (IF task[v].flow = f THEN {"quiet", "solo"} ELSE {"quiet"})]
                  ELSE task[v]]
    /\ UNCHANGED tableVars

Finish(w, outcome) == task' = [task EXCEPT ![w] = Over(outcome)]

\* Slip: a published flow is mounted over what it had before.
SyncRemoveNothing(w) ==
    /\ task[w].pc = "remove"
    /\ IF task[w].dsl = NoDsl THEN RemoveFlow(task[w].flow) /\ Finish(w, "ok")
       ELSE task' = [task EXCEPT ![w].pc = "add"] /\ UNCHANGED tableVars

\* Unload first; with no published DSL that is all.
SyncRemove(w) ==
    /\ task[w].pc = "remove"
    /\ RemoveFlow(task[w].flow)
    /\ IF task[w].dsl = NoDsl THEN Finish(w, "ok")
       ELSE task' = [task EXCEPT ![w].pc = "add"]

\* Unload again after a failed addRoute, and return its error.
SyncCleanup(w) ==
    /\ task[w].pc = "cleanup"
    /\ RemoveFlow(task[w].flow)
    /\ Finish(w, "err")

SyncRemovePanics(w) ==
    /\ task[w].pc \in {"remove", "cleanup"}
    /\ RemoveFlowPanics(task[w].flow)
    /\ Finish(w, "panic")

\* The next router to mount.
Adding(w) == task[w].pc = "add" /\ task[w].next <= Len(task[w].dsl)

Router(w) == task[w].dsl[task[w].next]

AddFails(w) ==
    /\ task' = [task EXCEPT ![w].pc = "cleanup"]
    /\ UNCHANGED tableVars

\* A node that does not parse ends SyncFlow without the clean-up.
ParseFails(w) ==
    /\ Adding(w)
    /\ ~Router(w).parses
    /\ Finish(w, "err")
    /\ UNCHANGED tableVars

\* net.Listen fails: another process holds the port.
ListenFails(w) ==
    /\ Adding(w)
    /\ Router(w).parses
    /\ server[Router(w).addr] = NoServer
    /\ AddFails(w)

\* Slip: the server is registered before its key pair is read.
CertInvalidRegistered(w) ==
    /\ Adding(w)
    /\ server[Router(w).addr] = NoServer
    /\ Router(w).tls \in BadTls
    /\ server' = [server EXCEPT ![Router(w).addr] = Router(w).tls]
    /\ task' = [task EXCEPT ![w].pc = "cleanup"]
    /\ UNCHANGED <<routes, refCount, mux, byFlow, history>>

\* The listener is open and is closed again: the key pair is not usable.
CertInvalid(w) ==
    /\ Adding(w)
    /\ Router(w).parses
    /\ server[Router(w).addr] = NoServer
    /\ Router(w).tls \in BadTls
    /\ AddFails(w)

\* Slip: the mode is compared only if the pattern is taken.
TlsMismatchLate(w) ==
    /\ server[Router(w).addr] \notin {NoServer, Router(w).tls}
    /\ routes[Router(w).addr][Router(w).pattern] # NoTarget

\* The address runs in another mode, or with another certificate.
TlsMismatch(w) == server[Router(w).addr] \notin {NoServer, Router(w).tls}

RouteConflict(w) ==
    /\ routes[Router(w).addr][Router(w).pattern] # NoTarget
    /\ ~Owns(task[w].flow, Router(w).addr, Router(w).pattern)

RefuseRoute(w) ==
    /\ Adding(w)
    /\ Router(w).parses
    /\ TlsMismatch(w) \/ RouteConflict(w)
    /\ AddFails(w)

\* Slip: the list entry is forgotten.
MountsUnlisted(w) ==
    LET r == Router(w)
        f == task[w].flow
    IN  /\ routes' = [routes EXCEPT ![r.addr][r.pattern] =
                         [flow |-> f, dsl |-> task[w].dsl, router |-> task[w].next]]
        /\ UNCHANGED byFlow

Mounts(w) ==
    LET r == Router(w)
        f == task[w].flow
    IN  /\ routes' = [routes EXCEPT ![r.addr][r.pattern] =
                         [flow |-> f, dsl |-> task[w].dsl, router |-> task[w].next]]
        /\ byFlow' = [byFlow EXCEPT ![f] = Append(@, <<r.addr, r.pattern>>)]

\* The flow already has the route (a duplicate in its own DSL): replace the target.
Rebind(w) ==
    /\ Adding(w)
    /\ Router(w).parses
    /\ ~TlsMismatch(w)
    /\ Owns(task[w].flow, Router(w).addr, Router(w).pattern)
    /\ Mounts(w)
    /\ task' = [task EXCEPT ![w].next = @ + 1]
    /\ UNCHANGED <<server, refCount, mux, history>>

\* A new route, on the running server or on one started for it.  A pattern that
\* clashes panics in the mux after the table has taken it.
AddRoute(w) ==
    LET r == Router(w)
        a == r.addr
    IN  /\ Adding(w)
        /\ r.parses
        /\ ~TlsMismatch(w)
        /\ server[a] = NoServer => r.tls \notin BadTls
        /\ routes[a][r.pattern] = NoTarget
        /\ server' = [server EXCEPT ![a] = IF @ = NoServer THEN r.tls ELSE @]
        /\ Mounts(w)
        /\ refCount' = [refCount EXCEPT ![a] = @ + 1]
        /\ \/ /\ ClashFree(mux[a] \cup {r.pattern})
              /\ mux' = [mux EXCEPT ![a] = @ \cup {r.pattern}]
              /\ task' = [task EXCEPT ![w].next = @ + 1]
              /\ UNCHANGED history
           \/ /\ ~ClashFree(mux[a] \cup {r.pattern})
              /\ history' = "panicked"
              /\ Finish(w, "panic")
              /\ UNCHANGED mux

SyncReturn(w) ==
    /\ task[w].pc = "add"
    /\ task[w].next > Len(task[w].dsl)
    /\ Finish(w, "ok")
    /\ UNCHANGED tableVars

SyncStep(w) ==
    \/ SyncRemove(w)
    \/ SyncCleanup(w)
    \/ SyncRemovePanics(w)
    \/ ParseFails(w)
    \/ ListenFails(w)
    \/ CertInvalid(w)
    \/ RefuseRoute(w)
    \/ Rebind(w)
    \/ AddRoute(w)
    \/ SyncReturn(w)

Next == \E w \in Workers :
            \/ \E f \in Flows, d \in Dsls \cup {NoDsl} : SyncBegin(w, f, d)
            \/ SyncStep(w)

\* A goroutine inside SyncFlow keeps running; nobody has to call it.
Fairness == \A w \in Workers : WF_vars(SyncStep(w))

Spec == Init /\ [][Next]_vars /\ Fairness

----------------------------------------------------------------------------
(* Properties.                                                             *)

\* An address listens exactly while some route is mounted on it, and its reference
\* count is the number of those routes: addRoute and RemoveFlow never close a
\* listener in use, and never leave an idle one open.
ListenerInUse ==
    \A a \in Addrs :
        /\ server[a] # NoServer <=> Live(a) # {}
        /\ refCount[a] = Cardinality(Live(a))

\* Every route of an address is served in the TLS mode its own flow configured,
\* however flows on the address came and went.
TlsUniform ==
    \A a \in Addrs : \A p \in Live(a) :
        LET t == routes[a][p]
        IN  /\ t.router \in DOMAIN t.dsl
            /\ t.dsl[t.router].addr = a
            /\ t.dsl[t.router].pattern = p
            /\ t.dsl[t.router].tls = server[a]

\* The per-flow list RemoveFlow works from names exactly the routes the flow has:
\* no route outlives its flow and no entry reaches another flow's route.  Holds
\* until a mux registration panics.
IndexExact ==
    history = "clean" => \A f \in Flows :
        {byFlow[f][i] : i \in DOMAIN byFlow[f]} = Owned(f)

\* What the listener dispatches is what the table holds, across rebuilds, until a
\* registration panics.
MuxExact == history = "clean" => \A a \in Addrs : mux[a] = Live(a)

\* A SyncFlow that no other SyncFlow of its flow overlaps installs its DSL and
\* nothing else: after its i-th router the flow's routes are those of routers 1..i
\* of this DSL, whatever the other flows do meanwhile.
SoloSyncExact ==
    \A w \in Workers : task[w].pc = "add" /\ "solo" \in task[w].marks /\ history = "clean" =>
        LET d == task[w].dsl
            mounted == 1..(task[w].next - 1)
        IN  /\ Owned(task[w].flow) = {<<d[i].addr, d[i].pattern>> : i \in mounted}
            /\ \A ap \in Owned(task[w].flow) : routes[ap[1]][ap[2]].dsl = d

\* What CheckHTTPRoutes accepts, SyncFlow can mount: no TLS mismatch and no conflict
\* if nothing else syncs between the check and the end of the call.
CheckedSyncNotRefused ==
    \A w \in Workers : {"checked", "quiet"} \subseteq task[w].marks /\ history = "clean" /\ Adding(w) =>
        ~TlsMismatch(w) /\ ~RouteConflict(w)

\* A mounted route goes, or changes hands, only in a RemoveFlow of its own flow.
OnlyOwnerRemoves ==
    [][\A f \in Flows, a \in Addrs, p \in Patterns :
           Owns(f, a, p) /\ ~Owns(f, a, p)' =>
               \E w \in Workers : /\ task[w].flow = f
                                 /\ task[w].pc \in {"remove", "cleanup"}
                                 /\ task'[w].pc # task[w].pc]_vars

\* manager.go:123 says that RemoveFlow unloads all the routes the flow occupies:
\* when SyncFlow's RemoveFlow is over, however it ended, none is left.
RemoveUnloadsAll ==
    [][\A w \in Workers, f \in Flows :
           /\ task[w].flow = f
           /\ task[w].pc \in {"remove", "cleanup"}
           /\ task'[w].pc # task[w].pc
           => \A a \in Addrs, p \in Patterns : ~Owns(f, a, p)']_vars
============================================================================
