------------------------ MODULE HttpEndpointsProofs ------------------------
(* Safety of the route table of HttpEndpoints for every number of flows,     *)
(* addresses, patterns, DSLs and concurrent SyncFlow calls.                  *)
EXTENDS HttpEndpoints, FiniteSetTheorems, TLAPS

(* Typing.                                                                   *)

LEMMA RouterType ==
    ASSUME TypeOK, NEW w \in Workers, Adding(w)
    PROVE  /\ Router(w) \in Routers
           /\ task[w].next \in DOMAIN task[w].dsl
           /\ task[w].dsl \in Dsls
           /\ task[w].flow \in Flows
<1>1. task[w] \in Tasks /\ task[w].pc = "add"
  BY DEF TypeOK, Adding
<1>2. task[w].flow \in Flows /\ task[w].next # 0 /\ task[w].dsl \in Dsls
  BY <1>1 DEF TypeOK, Outcomes
<1>3. task[w].dsl \in Seq(Routers) /\ task[w].next \in Nat
  BY <1>1, <1>2, RoutersAssumption DEF Tasks
<1>4. task[w].next \in 1..Len(task[w].dsl)
  BY <1>2, <1>3 DEF Adding
<1> QED
  BY <1>2, <1>3, <1>4 DEF Router

LEMMA OverType == ASSUME NEW o \in Outcomes PROVE Over(o) \in Tasks
  BY DEF Over, Tasks, Outcomes

\* A set of patterns has a natural number of elements.
LEMMA PatternSets ==
    ASSUME NEW S \in SUBSET Patterns
    PROVE  IsFiniteSet(S) /\ Cardinality(S) \in Nat
  BY PatternsAssumption, FS_Subset, FS_CardinalityType

\* The typing of the variables other than task.
TableTypes ==
    /\ server \in [Addrs -> Tls \cup {NoServer}]
    /\ routes \in [Addrs -> [Patterns -> Targets \cup {NoTarget}]]
    /\ refCount \in [Addrs -> Int]
    /\ byFlow \in [Flows -> Seq(Addrs \X Patterns)]

LEMMA UnloadTypes ==
    ASSUME TypeOK, NEW f \in Flows, NEW n \in Nat, Unload(f, n)
    PROVE  TableTypes'
<1>1. \A a \in Addrs : Cardinality(Dropped(f, n, a)) \in Nat
  BY PatternSets DEF Dropped
<1>2. server' \in [Addrs -> Tls \cup {NoServer}]
  BY DEF Unload, TypeOK
<1>3. routes' \in [Addrs -> [Patterns -> Targets \cup {NoTarget}]]
  BY DEF Unload, TypeOK, NoRoutes
<1>4. refCount' \in [Addrs -> Int]
  BY <1>1 DEF Unload, TypeOK
<1>5. byFlow' \in [Flows -> Seq(Addrs \X Patterns)]
  BY DEF Unload, TypeOK
<1> QED
  BY <1>2, <1>3, <1>4, <1>5 DEF TableTypes

LEMMA RemoveTypes ==
    ASSUME TypeOK, NEW f \in Flows, RemoveFlow(f) \/ RemoveFlowPanics(f)
    PROVE  /\ TableTypes'
           /\ mux' \in [Addrs -> SUBSET Patterns]
           /\ history' \in {"clean", "panicked"}
<1>1. Len(byFlow[f]) \in Nat
  BY DEF TypeOK
<1>2. \A n \in Nat, a \in Addrs : Rebuilt(f, n, a) \in SUBSET Patterns
  BY DEF Rebuilt, Left, Live, TypeOK
<1>3. CASE RemoveFlow(f)
  <2>1. TableTypes'
    BY <1>1, <1>3, UnloadTypes DEF RemoveFlow
  <2>2. mux' \in [Addrs -> SUBSET Patterns]
    BY <1>1, <1>2, <1>3 DEF RemoveFlow
  <2> QED
    BY <1>3, <2>1, <2>2 DEF RemoveFlow, TypeOK
<1>4. CASE RemoveFlowPanics(f)
  <2>1. PICK n \in 1..Len(byFlow[f]) :
            /\ Unload(f, n)
            /\ \E built \in SUBSET Left(f, n, byFlow[f][n][1]) :
                   mux' = [b \in Addrs |-> IF b = byFlow[f][n][1] THEN built
                                           ELSE Rebuilt(f, n, b)]
            /\ history' = "panicked"
    BY <1>4 DEF RemoveFlowPanics
  <2>2. n \in Nat
    BY <1>1, <2>1
  <2>3. TableTypes'
    BY <2>1, <2>2, UnloadTypes
  <2>4. Left(f, n, byFlow[f][n][1]) \subseteq Patterns
    BY DEF Left, Live
  <2>5. mux' \in [Addrs -> SUBSET Patterns]
    BY <1>2, <2>1, <2>2, <2>4
  <2> QED
    BY <2>1, <2>3, <2>5
<1> QED
  BY <1>3, <1>4

\* Mounting a router keeps the table well typed.
LEMMA MountTypes ==
    ASSUME TypeOK, NEW w \in Workers, Adding(w), Mounts(w)
    PROVE  /\ routes' \in [Addrs -> [Patterns -> Targets \cup {NoTarget}]]
           /\ byFlow' \in [Flows -> Seq(Addrs \X Patterns)]
<1>1. /\ Router(w).addr \in Addrs
      /\ Router(w).pattern \in Patterns
      /\ task[w].dsl \in Dsls
      /\ task[w].flow \in Flows
      /\ task[w].next \in Nat
  BY RouterType DEF Routers, TypeOK, Tasks
<1>2. [flow |-> task[w].flow, dsl |-> task[w].dsl, router |-> task[w].next] \in Targets
  BY <1>1 DEF Targets
<1>3. routes' \in [Addrs -> [Patterns -> Targets \cup {NoTarget}]]
  BY <1>1, <1>2 DEF Mounts, TypeOK
<1>4. Append(byFlow[task[w].flow], <<Router(w).addr, Router(w).pattern>>)
          \in Seq(Addrs \X Patterns)
  BY <1>1 DEF TypeOK
<1>5. byFlow' \in [Flows -> Seq(Addrs \X Patterns)]
  BY <1>1, <1>4 DEF Mounts, TypeOK
<1> QED
  BY <1>3, <1>5

\* What TypeOK asks of one task.
TaskOK(t) ==
    /\ t \in Tasks
    /\ t.pc \notin Outcomes =>
           /\ t.flow \in Flows
           /\ t.next # 0
           /\ t.pc # "remove" => t.dsl \in Dsls

LEMMA TaskStep ==
    ASSUME TypeOK, NEW w \in Workers, SyncStep(w)
    PROVE  \A v \in Workers : TaskOK(task'[v])
<1>1. \A v \in Workers : TaskOK(task[v])
  BY DEF TypeOK, TaskOK
<1>2. \A o \in Outcomes : TaskOK(Over(o))
  BY OverType DEF TaskOK, Over
<1>3. ASSUME NEW o \in Outcomes, Finish(w, o)
      PROVE  \A v \in Workers : TaskOK(task'[v])
  BY <1>1, <1>2, <1>3 DEF Finish, TypeOK
<1>4. "ok" \in Outcomes /\ "err" \in Outcomes /\ "panic" \in Outcomes
  BY DEF Outcomes
<1>5. ASSUME Adding(w), task' = [task EXCEPT ![w].next = @ + 1]
      PROVE  \A v \in Workers : TaskOK(task'[v])
  <2>1. TaskOK(task[w]) /\ task[w].pc = "add"
    BY <1>1, <1>5 DEF Adding
  <2>2. task[w].next + 1 \in Nat /\ task[w].next + 1 # 0
    BY <2>1 DEF TaskOK, Tasks
  <2>3. ASSUME NEW n \in Nat, n # 0 PROVE TaskOK([task[w] EXCEPT !.next = n])
    <3>1. [task[w] EXCEPT !.next = n] \in Tasks
      BY <2>1 DEF TaskOK, Tasks
    <3> QED
      BY <2>1, <2>3, <3>1 DEF TaskOK, Tasks, Outcomes
  <2>4. TaskOK([task[w] EXCEPT !.next = @ + 1])
    BY <2>2, <2>3
  <2> QED
    BY <1>1, <1>5, <2>4 DEF TypeOK
<1>6. ASSUME Adding(w), task' = [task EXCEPT ![w].pc = "cleanup"]
      PROVE  \A v \in Workers : TaskOK(task'[v])
  <2>1. TaskOK([task[w] EXCEPT !.pc = "cleanup"])
    BY <1>1, <1>6 DEF TaskOK, Tasks, Adding, Outcomes
  <2> QED
    BY <1>1, <1>6, <2>1 DEF TypeOK
<1>7. CASE SyncRemove(w)
  <2>1. CASE task[w].dsl = NoDsl
    BY <1>3, <1>4, <1>7, <2>1 DEF SyncRemove
  <2>2. CASE task[w].dsl # NoDsl
    <3>1. task' = [task EXCEPT ![w].pc = "add"] /\ task[w].pc = "remove"
      BY <1>7, <2>2 DEF SyncRemove
    <3>2. TaskOK([task[w] EXCEPT !.pc = "add"])
      BY <1>1, <2>2, <3>1 DEF TaskOK, Tasks, Outcomes
    <3> QED
      BY <1>1, <3>1, <3>2 DEF TypeOK
  <2> QED
    BY <2>1, <2>2
<1>8. CASE SyncCleanup(w) \/ SyncRemovePanics(w) \/ ParseFails(w) \/ SyncReturn(w)
  BY <1>3, <1>4, <1>8 DEF SyncCleanup, SyncRemovePanics, ParseFails, SyncReturn
<1>9. CASE ListenFails(w) \/ CertInvalid(w) \/ RefuseRoute(w)
  BY <1>6, <1>9 DEF ListenFails, CertInvalid, RefuseRoute, AddFails
<1>10. CASE Rebind(w)
  BY <1>5, <1>10 DEF Rebind
<1>11. CASE AddRoute(w)
  BY <1>3, <1>4, <1>5, <1>11 DEF AddRoute
<1> QED
  BY <1>7, <1>8, <1>9, <1>10, <1>11 DEF SyncStep

LEMMA BeginType ==
    ASSUME TypeOK, NEW w \in Workers, NEW f \in Flows, NEW d \in Dsls \cup {NoDsl},
           SyncBegin(w, f, d)
    PROVE  /\ task' \in [Workers -> Tasks]
           /\ \A v \in Workers : TaskOK(task'[v])
<1>1. \A v \in Workers : TaskOK(task[v])
  BY DEF TypeOK, TaskOK
<1> DEFINE new == [pc |-> "remove", flow |-> f, dsl |-> d, next |-> 1,
                   marks |-> {m \in {"checked", "quiet", "solo"} :
                       \/ m = "checked" /\ CheckHTTPRoutes(f, d)
                       \/ m = "quiet" /\ Busy = {}
                       \/ m = "solo" /\ \A u \in Busy : task[u].flow # f}]
           old(v) == [task[v] EXCEPT !.marks =
                       @ \ (IF task[v].flow = f THEN {"quiet", "solo"} ELSE {"quiet"})]
<1>4. TaskOK(new)
  BY DEF TaskOK, Tasks, Outcomes
<1>5. ASSUME NEW v \in Workers PROVE TaskOK(old(v))
  BY <1>1 DEF TaskOK, Tasks
<1>6. task' = [v \in Workers |-> IF v = w THEN new
                                ELSE IF v \in Busy THEN old(v) ELSE task[v]]
  BY DEF SyncBegin
<1>7. \A v \in Workers : TaskOK(task'[v])
  <2> HIDE DEF new, old
  <2> QED
    BY <1>1, <1>4, <1>5, <1>6
<1>8. task' \in [Workers -> Tasks]
  <2> HIDE DEF new, old
  <2> QED
    BY <1>6, <1>7 DEF TaskOK
<1> QED
  BY <1>7, <1>8

LEMMA TypeStart == Init => TypeOK
<1> SUFFICES ASSUME Init PROVE TypeOK
  OBVIOUS
<1>1. \A w \in Workers : task[w] = Over("ok") /\ task[w].pc \in Outcomes
  BY DEF Init, Over, Outcomes
<1>2. task \in [Workers -> Tasks]
  BY OverType DEF Init, Outcomes
<1>3. /\ server \in [Addrs -> Tls \cup {NoServer}]
      /\ refCount \in [Addrs -> Int]
      /\ mux \in [Addrs -> SUBSET Patterns]
  BY DEF Init
<1>4. routes \in [Addrs -> [Patterns -> Targets \cup {NoTarget}]]
  BY DEF Init, NoRoutes
<1>5. byFlow \in [Flows -> Seq(Addrs \X Patterns)]
  BY DEF Init
<1>6. history \in {"clean", "panicked"}
  BY DEF Init
<1> QED
  BY <1>1, <1>2, <1>3, <1>4, <1>5, <1>6 DEF TypeOK

LEMMA TypeKept == TypeOK /\ [Next]_vars => TypeOK'
<1> SUFFICES ASSUME TypeOK, [Next]_vars PROVE TypeOK'
  OBVIOUS
<1>1. ASSUME NEW w \in Workers, NEW f \in Flows, NEW d \in Dsls \cup {NoDsl},
             SyncBegin(w, f, d)
      PROVE  TypeOK'
  <2>1. UNCHANGED tableVars
    BY <1>1 DEF SyncBegin
  <2>2. task' \in [Workers -> Tasks] /\ \A v \in Workers : TaskOK(task'[v])
    BY <1>1, BeginType
  <2> QED
    BY <2>1, <2>2 DEF tableVars, TypeOK, TaskOK
<1>2. ASSUME NEW w \in Workers, SyncStep(w) PROVE TypeOK'
  <2>1. \A v \in Workers : TaskOK(task'[v])
    BY <1>2, TaskStep
  <2>2. task' \in [Workers -> Tasks]
    <3>1. DOMAIN task' = Workers /\ task' = [v \in Workers |-> task'[v]]
      BY <1>2 DEF SyncStep, SyncRemove, SyncCleanup, SyncRemovePanics, ParseFails,
             ListenFails, CertInvalid, RefuseRoute, AddFails, Rebind, AddRoute,
             SyncReturn, Finish, TypeOK
    <3> QED
      BY <2>1, <3>1 DEF TaskOK
  <2>3. /\ TableTypes'
        /\ mux' \in [Addrs -> SUBSET Patterns]
        /\ history' \in {"clean", "panicked"}
    <3>1. CASE SyncRemove(w) \/ SyncCleanup(w) \/ SyncRemovePanics(w)
      <4>1. task[w].flow \in Flows
        BY <3>1 DEF SyncRemove, SyncCleanup, SyncRemovePanics, TypeOK, Outcomes
      <4> QED
        BY <3>1, <4>1, RemoveTypes DEF SyncRemove, SyncCleanup, SyncRemovePanics
    <3>2. CASE ParseFails(w) \/ ListenFails(w) \/ CertInvalid(w) \/ RefuseRoute(w)
               \/ SyncReturn(w)
      BY <3>2 DEF ParseFails, ListenFails, CertInvalid, RefuseRoute, AddFails,
             SyncReturn, tableVars, TableTypes, TypeOK
    <3>3. CASE Rebind(w)
      BY <3>3, MountTypes DEF Rebind, TableTypes, TypeOK
    <3>4. CASE AddRoute(w)
      <4>1. /\ Adding(w)
            /\ Mounts(w)
            /\ server' = [server EXCEPT ![Router(w).addr] =
                            IF @ = NoServer THEN Router(w).tls ELSE @]
            /\ refCount' = [refCount EXCEPT ![Router(w).addr] = @ + 1]
            /\ \/ mux' = [mux EXCEPT ![Router(w).addr] = @ \cup {Router(w).pattern}]
                  /\ history' = history
               \/ mux' = mux /\ history' = "panicked"
        BY <3>4 DEF AddRoute
      <4>2. /\ Router(w).addr \in Addrs
            /\ Router(w).pattern \in Patterns
            /\ Router(w).tls \in Tls
        BY <4>1, RouterType DEF Routers
      <4>3. server' \in [Addrs -> Tls \cup {NoServer}]
        BY <4>1, <4>2 DEF TypeOK
      <4>4. refCount' \in [Addrs -> Int]
        BY <4>1, <4>2 DEF TypeOK
      <4>5. mux' \in [Addrs -> SUBSET Patterns]
        BY <4>1, <4>2 DEF TypeOK
      <4>6. history' \in {"clean", "panicked"}
        BY <4>1 DEF TypeOK
      <4> QED
        BY <4>1, <4>3, <4>4, <4>5, <4>6, MountTypes DEF TableTypes
    <3> QED
      BY <1>2, <3>1, <3>2, <3>3, <3>4 DEF SyncStep
  <2> QED
    BY <2>1, <2>2, <2>3 DEF TypeOK, TableTypes, TaskOK
<1>3. CASE UNCHANGED vars
  BY <1>3 DEF vars, TypeOK
<1> QED
  BY <1>1, <1>2, <1>3 DEF Next

\* The tables stay well typed, and each call's record says what it is doing.
THEOREM TypeCorrect == Spec => []TypeOK
<1> QED
  BY TypeStart, TypeKept, PTL DEF Spec

(***************************************************************************)
(* Listeners and reference counts.  The loop of RemoveFlow subtracts, per  *)
(* address, exactly the routes it drops, and closes the server exactly     *)
(* when none is left; addRoute adds one route and one to the count.  The   *)
(* order of the loop and a panic in the middle of it do not matter, so     *)
(* the invariant needs nothing but TypeOK.                                 *)
(***************************************************************************)

LEMMA LeftCount ==
    ASSUME NEW f, NEW n, NEW a
    PROVE  /\ Dropped(f, n, a) \subseteq Live(a)
           /\ Cardinality(Left(f, n, a)) = Cardinality(Live(a)) - Cardinality(Dropped(f, n, a))
<1>1. Dropped(f, n, a) \subseteq Live(a)
  BY DEF Dropped, Live, Owns
<1>2. Live(a) \cap Dropped(f, n, a) = Dropped(f, n, a)
  BY <1>1
<1>3. IsFiniteSet(Live(a))
  BY PatternSets DEF Live
<1> QED
  BY <1>1, <1>2, <1>3, FS_Difference DEF Left

LEMMA UnloadListeners ==
    ASSUME TypeOK, ListenerInUse, NEW f \in Flows, NEW n \in Nat, Unload(f, n)
    PROVE  ListenerInUse'
<1> SUFFICES ASSUME NEW a \in Addrs
             PROVE  /\ server'[a] # NoServer <=> Live(a)' # {}
                    /\ refCount'[a] = Cardinality(Live(a)')
  BY DEF ListenerInUse
<1> DEFINE closed == a \in Visited(f, n) /\ Closes(f, n, a)
<1>1. /\ server[a] # NoServer <=> Live(a) # {}
      /\ refCount[a] = Cardinality(Live(a))
  BY DEF ListenerInUse
<1>2. CASE closed
  <2>1. server'[a] = NoServer /\ routes'[a] = NoRoutes /\ refCount'[a] = 0
    BY <1>2 DEF Unload
  <2>2. Live(a)' = {}
    BY <2>1 DEF Live, NoRoutes
  <2> QED
    BY <2>1, <2>2, FS_EmptySet
<1>3. CASE ~closed
  <2>1. /\ server'[a] = server[a]
        /\ routes'[a] = [p \in Patterns |->
                            IF p \in Dropped(f, n, a) THEN NoTarget ELSE routes[a][p]]
        /\ refCount'[a] = refCount[a] - Cardinality(Dropped(f, n, a))
    BY <1>3 DEF Unload
  <2>2. Live(a)' = Left(f, n, a)
    BY <2>1 DEF Live, Left, Dropped
  <2>3. refCount'[a] = Cardinality(Live(a)')
    BY <1>1, <2>1, <2>2, LeftCount
  <2>4. CASE a \in Visited(f, n)
    BY <1>3, <2>1, <2>2, <2>3, <2>4 DEF Closes, Visited
  <2>5. CASE a \notin Visited(f, n) /\ server[a] = NoServer
    BY <1>1, <2>1, <2>2, <2>3, <2>5 DEF Left
  <2>6. CASE a \notin Visited(f, n) /\ server[a] # NoServer
    <3>1. \A i \in 1..n : byFlow[f][i][1] # a
      BY <2>6 DEF Visited
    <3>2. \A i \in 1..n, p \in Patterns : byFlow[f][i] # <<a, p>>
      BY <3>1
    <3>3. Dropped(f, n, a) = {}
      BY <3>2 DEF Dropped
    <3> QED
      BY <1>1, <2>1, <2>2, <2>3, <2>6, <3>3 DEF Left
  <2> QED
    BY <2>4, <2>5, <2>6
<1> QED
  BY <1>2, <1>3

\* Whichever way RemoveFlow ends, some number of entries of its loop was done.
LEMMA StepUnloads ==
    ASSUME TypeOK, NEW w \in Workers,
           SyncRemove(w) \/ SyncCleanup(w) \/ SyncRemovePanics(w)
    PROVE  \E n \in Nat : task[w].flow \in Flows /\ Unload(task[w].flow, n)
<1>1. task[w].flow \in Flows
  BY DEF SyncRemove, SyncCleanup, SyncRemovePanics, TypeOK, Outcomes
<1>2. Len(byFlow[task[w].flow]) \in Nat
  BY <1>1 DEF TypeOK
<1>3. CASE RemoveFlow(task[w].flow)
  BY <1>1, <1>2, <1>3 DEF RemoveFlow
<1>4. CASE RemoveFlowPanics(task[w].flow)
  <2>1. \E n \in 1..Len(byFlow[task[w].flow]) : Unload(task[w].flow, n)
    BY <1>4 DEF RemoveFlowPanics
  <2> QED
    BY <1>1, <1>2, <2>1
<1> QED
  BY <1>3, <1>4 DEF SyncRemove, SyncCleanup, SyncRemovePanics

LEMMA MountListeners ==
    ASSUME TypeOK, ListenerInUse, NEW w \in Workers, Rebind(w) \/ AddRoute(w)
    PROVE  ListenerInUse'
<1> DEFINE b == Router(w).addr
           q == Router(w).pattern
<1>1. Adding(w)
  BY DEF Rebind, AddRoute
<1>2. /\ b \in Addrs /\ q \in Patterns /\ Router(w).tls \in Tls
      /\ task[w].flow \in Flows /\ task[w].dsl \in Dsls /\ task[w].next \in Nat
  BY <1>1, RouterType DEF Routers, TypeOK, Tasks
<1>3. [flow |-> task[w].flow, dsl |-> task[w].dsl, router |-> task[w].next] # NoTarget
  BY <1>2, NullsAssumption
<1>4. Mounts(w)
  BY DEF Rebind, AddRoute
<1>5. \A a \in Addrs : Live(a)' = IF a = b THEN Live(a) \cup {q} ELSE Live(a)
  BY <1>2, <1>3, <1>4 DEF Mounts, Live, TypeOK
<1>6. CASE Rebind(w)
  <2>1. q \in Live(b)
    BY <1>2, <1>6 DEF Rebind, Live, Owns
  <2>2. \A a \in Addrs : Live(a)' = Live(a)
    BY <1>5, <2>1
  <2> QED
    BY <1>6, <2>2 DEF Rebind, ListenerInUse
<1>7. CASE AddRoute(w)
  <2>1. /\ routes[b][q] = NoTarget
        /\ server' = [server EXCEPT ![b] = IF @ = NoServer THEN Router(w).tls ELSE @]
        /\ refCount' = [refCount EXCEPT ![b] = @ + 1]
    BY <1>7 DEF AddRoute
  <2>2. Cardinality(Live(b) \cup {q}) = Cardinality(Live(b)) + 1
    <3>1. q \notin Live(b) /\ IsFiniteSet(Live(b))
      BY <2>1, PatternSets DEF Live
    <3> QED
      BY <3>1, FS_AddElement
  <2>3. ASSUME NEW a \in Addrs
        PROVE  /\ server'[a] # NoServer <=> Live(a)' # {}
               /\ refCount'[a] = Cardinality(Live(a)')
    <3>1. CASE a = b
      <4>1. server'[a] # NoServer /\ refCount'[a] = refCount[b] + 1
        BY <1>2, <2>1, <3>1, ModesAssumption DEF TypeOK
      <4>2. Live(a)' = Live(b) \cup {q} /\ refCount[b] = Cardinality(Live(b))
        BY <1>2, <1>5, <3>1 DEF ListenerInUse
      <4>3. refCount'[a] = Cardinality(Live(a)')
        BY <2>2, <4>1, <4>2
      <4>4. q \in Live(a)'
        BY <4>2
      <4>5. Live(a)' # {}
        BY <4>4
      <4> QED
        BY <4>1, <4>3, <4>5
    <3>2. CASE a # b
      BY <1>2, <1>5, <2>1, <3>2 DEF ListenerInUse, TypeOK
    <3> QED
      BY <3>1, <3>2
  <2> QED
    BY <2>3 DEF ListenerInUse
<1> QED
  BY <1>6, <1>7

LEMMA ListenersStart == Init => ListenerInUse
<1> SUFFICES ASSUME Init PROVE ListenerInUse
  OBVIOUS
<1>1. \A a \in Addrs : Live(a) = {}
  BY DEF Init, Live, NoRoutes
<1> QED
  BY <1>1, FS_EmptySet DEF Init, ListenerInUse

LEMMA ListenersKept == TypeOK /\ ListenerInUse /\ [Next]_vars => ListenerInUse'
<1> SUFFICES ASSUME TypeOK, ListenerInUse, [Next]_vars PROVE ListenerInUse'
  OBVIOUS
<1>1. ASSUME UNCHANGED tableVars PROVE ListenerInUse'
  BY <1>1 DEF tableVars, ListenerInUse, Live
<1>2. ASSUME NEW w \in Workers, SyncStep(w) PROVE ListenerInUse'
  <2>1. CASE SyncRemove(w) \/ SyncCleanup(w) \/ SyncRemovePanics(w)
    <3>1. PICK n \in Nat : task[w].flow \in Flows /\ Unload(task[w].flow, n)
      BY <2>1, StepUnloads
    <3> QED
      BY <3>1, UnloadListeners
  <2>2. CASE ParseFails(w) \/ ListenFails(w) \/ CertInvalid(w) \/ RefuseRoute(w)
             \/ SyncReturn(w)
    BY <1>1, <2>2 DEF ParseFails, ListenFails, CertInvalid, RefuseRoute, AddFails,
           SyncReturn
  <2>3. CASE Rebind(w) \/ AddRoute(w)
    BY <2>3, MountListeners
  <2> QED
    BY <1>2, <2>1, <2>2, <2>3 DEF SyncStep
<1> QED
  BY <1>1, <1>2 DEF Next, SyncBegin, vars, tableVars

\* A listener is open exactly while a route needs it, whatever SyncFlow calls
\* interleave and even if a mux registration panics.
THEOREM ListenersCorrect == Spec => []ListenerInUse
<1> QED
  BY ListenersStart, ListenersKept, TypeCorrect, PTL DEF Spec

(***************************************************************************)
(* Routes.  With the count exact, a server that closes has no route left,  *)
(* so one pass of RemoveFlow's loop removes routes of its own flow and     *)
(* nothing else.                                                           *)
(***************************************************************************)

LEMMA UnloadRoutes ==
    ASSUME TypeOK, ListenerInUse, NEW f \in Flows, NEW n \in Nat, Unload(f, n),
           NEW a \in Addrs, NEW p \in Patterns
    PROVE  /\ routes'[a][p] = IF p \in Dropped(f, n, a) THEN NoTarget ELSE routes[a][p]
           /\ p \in Live(a)' => server'[a] = server[a]
<1> DEFINE closed == a \in Visited(f, n) /\ Closes(f, n, a)
<1>1. CASE closed
  <2>1. server'[a] = NoServer /\ routes'[a] = NoRoutes
    BY <1>1 DEF Unload
  <2>2. Cardinality(Left(f, n, a)) = refCount[a] - Cardinality(Dropped(f, n, a))
    BY LeftCount DEF ListenerInUse
  <2>3. IsFiniteSet(Left(f, n, a)) /\ Cardinality(Left(f, n, a)) \in Nat
    BY PatternSets DEF Left, Live
  <2>4. Left(f, n, a) = {}
    <3>1. CASE Left(f, n, a) # {}
      <4>1. Cardinality(Left(f, n, a)) = 0
        BY <1>1, <2>2, <2>3, <3>1 DEF Closes
      <4> QED
        BY <2>3, <4>1, FS_EmptySet
    <3> QED
      BY <3>1
  <2>5. routes'[a][p] = NoTarget /\ p \notin Live(a)'
    BY <2>1 DEF NoRoutes, Live
  <2>6. p \notin Dropped(f, n, a) => routes[a][p] = NoTarget
    BY <2>4 DEF Left, Live
  <2> QED
    BY <2>5, <2>6
<1>2. CASE ~closed
  BY <1>2 DEF Unload
<1> QED
  BY <1>1, <1>2

\* The target addRoute mounts.
NewTarget(w) == [flow |-> task[w].flow, dsl |-> task[w].dsl, router |-> task[w].next]

LEMMA MountRoutes ==
    ASSUME TypeOK, NEW w \in Workers, Rebind(w) \/ AddRoute(w)
    PROVE  /\ Router(w).addr \in Addrs /\ Router(w).pattern \in Patterns
           /\ Router(w).tls \in Tls
           /\ NewTarget(w) # NoTarget /\ NewTarget(w).flow = task[w].flow
           /\ task[w].flow \in Flows /\ task[w].next \in DOMAIN task[w].dsl
           /\ \/ routes[Router(w).addr][Router(w).pattern] = NoTarget
              \/ Owns(task[w].flow, Router(w).addr, Router(w).pattern)
           /\ \A a \in Addrs, p \in Patterns :
                  routes'[a][p] = IF a = Router(w).addr /\ p = Router(w).pattern
                                  THEN NewTarget(w) ELSE routes[a][p]
           /\ byFlow' = [byFlow EXCEPT ![task[w].flow] =
                            Append(@, <<Router(w).addr, Router(w).pattern>>)]
<1>1. Adding(w) /\ Mounts(w)
  BY DEF Rebind, AddRoute
<1>2. /\ Router(w).addr \in Addrs /\ Router(w).pattern \in Patterns
      /\ Router(w).tls \in Tls
      /\ task[w].flow \in Flows /\ task[w].dsl \in Dsls /\ task[w].next \in Nat
      /\ task[w].next \in DOMAIN task[w].dsl
  BY <1>1, RouterType DEF Routers, TypeOK, Tasks
<1>3. NewTarget(w) # NoTarget
  BY <1>2, NullsAssumption DEF NewTarget
<1>4. \/ routes[Router(w).addr][Router(w).pattern] = NoTarget
      \/ Owns(task[w].flow, Router(w).addr, Router(w).pattern)
  BY DEF Rebind, AddRoute
<1>5. routes' = [routes EXCEPT ![Router(w).addr][Router(w).pattern] = NewTarget(w)]
  BY <1>1 DEF Mounts, NewTarget
<1>6. \A a \in Addrs, p \in Patterns :
          routes'[a][p] = IF a = Router(w).addr /\ p = Router(w).pattern
                          THEN NewTarget(w) ELSE routes[a][p]
  BY <1>2, <1>5 DEF TypeOK
<1> QED
  BY <1>1, <1>2, <1>3, <1>4, <1>6 DEF Mounts, NewTarget

\* The steps that leave the table alone.
IdleStep(w) == \/ ParseFails(w) \/ ListenFails(w) \/ CertInvalid(w)
               \/ RefuseRoute(w) \/ SyncReturn(w)

RemoveStep(w) == SyncRemove(w) \/ SyncCleanup(w) \/ SyncRemovePanics(w)

MountStep(w) == Rebind(w) \/ AddRoute(w)

LEMMA StepKinds ==
    ASSUME [Next]_vars
    PROVE  \/ UNCHANGED tableVars
           \/ \E w \in Workers : RemoveStep(w) \/ MountStep(w)
<1>1. ASSUME NEW w \in Workers, IdleStep(w) PROVE UNCHANGED tableVars
  BY <1>1 DEF IdleStep, ParseFails, ListenFails, CertInvalid, RefuseRoute, AddFails,
         SyncReturn
<1> QED
  BY <1>1 DEF Next, SyncStep, SyncBegin, IdleStep, RemoveStep, MountStep, vars, tableVars

\* No flow's route is removed or taken over by another flow's SyncFlow.
THEOREM RemovalsCorrect == Spec => OnlyOwnerRemoves
<1>1. TypeOK /\ ListenerInUse /\ [Next]_vars =>
          [\A f \in Flows, a \in Addrs, p \in Patterns :
              Owns(f, a, p) /\ ~Owns(f, a, p)' =>
                  \E w \in Workers : /\ task[w].flow = f
                                    /\ task[w].pc \in {"remove", "cleanup"}
                                    /\ task'[w].pc # task[w].pc]_vars
  <2> SUFFICES ASSUME TypeOK, ListenerInUse, [Next]_vars,
                      NEW f \in Flows, NEW a \in Addrs, NEW p \in Patterns,
                      Owns(f, a, p), ~Owns(f, a, p)'
               PROVE  \E w \in Workers : /\ task[w].flow = f
                                         /\ task[w].pc \in {"remove", "cleanup"}
                                         /\ task'[w].pc # task[w].pc
    OBVIOUS
  <2>1. CASE UNCHANGED tableVars
    BY <2>1 DEF tableVars, Owns
  <2>2. ASSUME NEW w \in Workers, MountStep(w) PROVE FALSE
    <3>1. CASE a = Router(w).addr /\ p = Router(w).pattern
      BY <2>2, <3>1, MountRoutes DEF MountStep, Owns
    <3>2. CASE ~(a = Router(w).addr /\ p = Router(w).pattern)
      BY <2>2, <3>2, MountRoutes DEF MountStep, Owns
    <3> QED
      BY <3>1, <3>2
  <2>3. ASSUME NEW w \in Workers, RemoveStep(w)
        PROVE  /\ task[w].flow = f
               /\ task[w].pc \in {"remove", "cleanup"}
               /\ task'[w].pc # task[w].pc
    <3>1. PICK n \in Nat : task[w].flow \in Flows /\ Unload(task[w].flow, n)
      BY <2>3, StepUnloads DEF RemoveStep
    <3>2. p \in Dropped(task[w].flow, n, a)
      BY <3>1, UnloadRoutes DEF Owns
    <3>3. task[w].flow = f
      BY <3>2 DEF Dropped, Owns
    <3>4. task[w].pc \in {"remove", "cleanup"}
      BY <2>3 DEF RemoveStep, SyncRemove, SyncCleanup, SyncRemovePanics
    <3>5. task'[w].pc # task[w].pc
      <4>1. \A o \in Outcomes : Finish(w, o) => task'[w].pc \in Outcomes
        BY DEF Finish, Over, TypeOK
      <4>2. CASE SyncRemove(w) /\ task' = [task EXCEPT ![w].pc = "add"]
        BY <4>2 DEF SyncRemove, TypeOK, Tasks
      <4> QED
        BY <2>3, <4>1, <4>2 DEF RemoveStep, SyncRemove, SyncCleanup, SyncRemovePanics,
               Outcomes
    <3> QED
      BY <3>3, <3>4, <3>5
  <2> QED
    BY <2>1, <2>2, <2>3, StepKinds
<1> QED
  BY <1>1, TypeCorrect, ListenersCorrect, PTL DEF Spec, OnlyOwnerRemoves

LEMMA UnloadTls ==
    ASSUME TypeOK, ListenerInUse, TlsUniform, NEW f \in Flows, NEW n \in Nat, Unload(f, n)
    PROVE  TlsUniform'
<1> SUFFICES ASSUME NEW a \in Addrs, NEW p \in Live(a)'
             PROVE  /\ routes'[a][p].router \in DOMAIN routes'[a][p].dsl
                    /\ routes'[a][p].dsl[routes'[a][p].router].addr = a
                    /\ routes'[a][p].dsl[routes'[a][p].router].pattern = p
                    /\ routes'[a][p].dsl[routes'[a][p].router].tls = server'[a]
  BY DEF TlsUniform
<1>1. p \in Patterns /\ routes'[a][p] # NoTarget
  BY DEF Live
<1>2. routes'[a][p] = routes[a][p] /\ server'[a] = server[a] /\ p \in Live(a)
  BY <1>1, UnloadRoutes DEF Live
<1> QED
  BY <1>2 DEF TlsUniform

LEMMA MountTls ==
    ASSUME TypeOK, ListenerInUse, TlsUniform, NEW w \in Workers, MountStep(w)
    PROVE  TlsUniform'
<1> DEFINE b == Router(w).addr
           q == Router(w).pattern
<1> SUFFICES ASSUME NEW a \in Addrs, NEW p \in Live(a)'
             PROVE  /\ routes'[a][p].router \in DOMAIN routes'[a][p].dsl
                    /\ routes'[a][p].dsl[routes'[a][p].router].addr = a
                    /\ routes'[a][p].dsl[routes'[a][p].router].pattern = p
                    /\ routes'[a][p].dsl[routes'[a][p].router].tls = server'[a]
  BY DEF TlsUniform
<1>1. /\ p \in Patterns /\ b \in Addrs /\ q \in Patterns
      /\ routes'[a][p] = IF a = b /\ p = q THEN NewTarget(w) ELSE routes[a][p]
      /\ task[w].next \in DOMAIN task[w].dsl
  BY MountRoutes DEF MountStep, Live
<1>2. /\ server[b] \in {NoServer, Router(w).tls}
      /\ \/ server' = server /\ server[b] # NoServer
         \/ server' = [server EXCEPT ![b] = IF @ = NoServer THEN Router(w).tls ELSE @]
  <2>1. CASE Rebind(w)
    <3>1. q \in Live(b)
      BY <1>1, <2>1 DEF Rebind, Owns, Live
    <3>2. server[b] # NoServer
      BY <1>1, <3>1 DEF ListenerInUse
    <3> QED
      BY <2>1, <3>2 DEF Rebind, TlsMismatch
  <2>2. CASE AddRoute(w)
    BY <2>2 DEF AddRoute, TlsMismatch
  <2> QED
    BY <2>1, <2>2 DEF MountStep
<1>3. server'[b] = Router(w).tls
  BY <1>1, <1>2 DEF TypeOK
<1>4. CASE a = b /\ p = q
  BY <1>1, <1>3, <1>4 DEF NewTarget, Router
<1>5. CASE ~(a = b /\ p = q)
  <2>1. routes'[a][p] = routes[a][p] /\ p \in Live(a)
    BY <1>1, <1>5 DEF Live
  <2>2. server[a] # NoServer
    BY <2>1 DEF ListenerInUse
  <2>3. server'[a] = server[a]
    BY <1>1, <1>2, <2>2 DEF TypeOK
  <2> QED
    BY <2>1, <2>3 DEF TlsUniform
<1> QED
  BY <1>4, <1>5

LEMMA TlsStart == Init => TlsUniform
  BY DEF Init, TlsUniform, Live, NoRoutes

LEMMA TlsKept == TypeOK /\ ListenerInUse /\ TlsUniform /\ [Next]_vars => TlsUniform'
<1> SUFFICES ASSUME TypeOK, ListenerInUse, TlsUniform, [Next]_vars PROVE TlsUniform'
  OBVIOUS
<1>1. CASE UNCHANGED tableVars
  BY <1>1 DEF tableVars, TlsUniform, Live
<1>2. ASSUME NEW w \in Workers, RemoveStep(w) PROVE TlsUniform'
  <2>1. PICK n \in Nat : task[w].flow \in Flows /\ Unload(task[w].flow, n)
    BY <1>2, StepUnloads DEF RemoveStep
  <2> QED
    BY <2>1, UnloadTls
<1>3. ASSUME NEW w \in Workers, MountStep(w) PROVE TlsUniform'
  BY <1>3, MountTls
<1> QED
  BY <1>1, <1>2, <1>3, StepKinds

\* The mode a route is served in is the one its flow asked for.
THEOREM TlsCorrect == Spec => []TlsUniform
<1> QED
  BY TlsStart, TlsKept, TypeCorrect, ListenersCorrect, PTL DEF Spec

(***************************************************************************)
(* The per-flow lists and the muxes: exact until a registration panics.    *)
(***************************************************************************)

Indexed(f) == {byFlow[f][i] : i \in DOMAIN byFlow[f]}

LEMMA RemoveIndex ==
    ASSUME TypeOK, ListenerInUse, IndexExact, NEW f \in Flows, RemoveFlow(f)
    PROVE  IndexExact'
<1> DEFINE n == Len(byFlow[f])
<1> SUFFICES ASSUME history = "clean", NEW g \in Flows
             PROVE  Indexed(g)' = Owned(g)'
  BY DEF IndexExact, Indexed, RemoveFlow
<1>1. n \in Nat /\ Unload(f, n)
  BY DEF RemoveFlow, TypeOK
<1>2. \A a \in Addrs, p \in Patterns : p \in Dropped(f, n, a) <=> Owns(f, a, p)
  <2> SUFFICES ASSUME NEW a \in Addrs, NEW p \in Patterns, Owns(f, a, p)
               PROVE  p \in Dropped(f, n, a)
    BY DEF Dropped
  <2>1. <<a, p>> \in Owned(f)
    BY DEF Owned
  <2>2. \E i \in DOMAIN byFlow[f] : byFlow[f][i] = <<a, p>>
    BY <2>1 DEF IndexExact
  <2>3. DOMAIN byFlow[f] = 1..n
    BY DEF TypeOK
  <2> QED
    BY <2>2, <2>3 DEF Dropped
<1>3. \A a \in Addrs, p \in Patterns :
          routes'[a][p] = IF Owns(f, a, p) THEN NoTarget ELSE routes[a][p]
  BY <1>1, <1>2, UnloadRoutes
<1>4. CASE g = f
  <2>1. Indexed(g)' = {}
    BY <1>1, <1>4 DEF Unload, Indexed, TypeOK
  <2>2. \A a \in Addrs, p \in Patterns : ~Owns(g, a, p)'
    BY <1>3, <1>4 DEF Owns
  <2>3. Owned(g)' = {}
    BY <2>2 DEF Owned
  <2> QED
    BY <2>1, <2>3
<1>5. CASE g # f
  <2>1. Indexed(g)' = Indexed(g)
    BY <1>1, <1>5 DEF Unload, Indexed, TypeOK
  <2>2. \A a \in Addrs, p \in Patterns : Owns(g, a, p)' <=> Owns(g, a, p)
    BY <1>3, <1>5 DEF Owns
  <2>3. Owned(g)' = Owned(g)
    BY <2>2 DEF Owned
  <2> QED
    BY <2>1, <2>3 DEF IndexExact, Indexed
<1> QED
  BY <1>4, <1>5

LEMMA MountIndex ==
    ASSUME TypeOK, IndexExact, NEW w \in Workers, MountStep(w)
    PROVE  IndexExact'
<1> DEFINE f == task[w].flow
           b == Router(w).addr
           q == Router(w).pattern
<1>1. history' = "clean" => history = "clean"
  BY DEF MountStep, Rebind, AddRoute
<1> SUFFICES ASSUME history = "clean", NEW g \in Flows
             PROVE  Indexed(g)' = Owned(g)'
  BY <1>1 DEF IndexExact, Indexed
<1>2. /\ b \in Addrs /\ q \in Patterns /\ f \in Flows
      /\ NewTarget(w) # NoTarget /\ NewTarget(w).flow = f
      /\ routes[b][q] = NoTarget \/ Owns(f, b, q)
      /\ \A a \in Addrs, p \in Patterns :
             routes'[a][p] = IF a = b /\ p = q THEN NewTarget(w) ELSE routes[a][p]
      /\ byFlow' = [byFlow EXCEPT ![f] = Append(@, <<b, q>>)]
  BY MountRoutes DEF MountStep
<1>3. Indexed(g) = Owned(g)
  BY DEF IndexExact, Indexed
<1>4. CASE g = f
  <2>1. byFlow[g] \in Seq(Addrs \X Patterns) /\ byFlow'[g] = Append(byFlow[g], <<b, q>>)
    BY <1>2, <1>4 DEF TypeOK
  <2>2. Indexed(g)' = Indexed(g) \cup {<<b, q>>}
    <3>1. DOMAIN byFlow'[g] = 1..Len(byFlow[g]) + 1 /\ DOMAIN byFlow[g] = 1..Len(byFlow[g])
          /\ Len(byFlow[g]) \in Nat
      BY <2>1
    <3>2. \A i \in 1..Len(byFlow[g]) : byFlow'[g][i] = byFlow[g][i]
      BY <2>1
    <3>3. byFlow'[g][Len(byFlow[g]) + 1] = <<b, q>>
      BY <2>1
    <3>4. Indexed(g)' = {byFlow'[g][i] : i \in DOMAIN byFlow'[g]}
      BY DEF Indexed
    <3>5. Indexed(g)' \subseteq Indexed(g) \cup {<<b, q>>}
      <4> SUFFICES ASSUME NEW i \in 1..Len(byFlow[g]) + 1
                   PROVE  byFlow'[g][i] \in Indexed(g) \cup {<<b, q>>}
        BY <3>1, <3>4
      <4>1. CASE i = Len(byFlow[g]) + 1
        BY <3>3, <4>1
      <4>2. CASE i \in 1..Len(byFlow[g])
        BY <3>1, <3>2, <4>2 DEF Indexed
      <4> QED
        BY <3>1, <4>1, <4>2
    <3>6. Indexed(g) \subseteq Indexed(g)'
      <4> SUFFICES ASSUME NEW i \in 1..Len(byFlow[g])
                   PROVE  byFlow[g][i] \in Indexed(g)'
        BY <3>1 DEF Indexed
      <4>1. i \in DOMAIN byFlow'[g] /\ byFlow'[g][i] = byFlow[g][i]
        BY <3>1, <3>2
      <4> QED
        BY <3>4, <4>1
    <3>7. <<b, q>> \in Indexed(g)'
      <4>1. Len(byFlow[g]) + 1 \in DOMAIN byFlow'[g]
        BY <3>1
      <4> QED
        BY <3>3, <3>4, <4>1
    <3> QED
      BY <3>5, <3>6, <3>7
  <2>3. \A a \in Addrs, p \in Patterns :
            Owns(g, a, p)' <=> Owns(g, a, p) \/ (a = b /\ p = q)
    BY <1>2, <1>4 DEF Owns
  <2>4. Owned(g)' = Owned(g) \cup {<<b, q>>}
    BY <1>2, <1>4, <2>3 DEF Owned
  <2> QED
    BY <1>3, <2>2, <2>4
<1>5. CASE g # f
  <2>1. Indexed(g)' = Indexed(g)
    BY <1>2, <1>5 DEF Indexed, TypeOK
  <2>2. \A a \in Addrs, p \in Patterns : Owns(g, a, p)' <=> Owns(g, a, p)
    BY <1>2, <1>5 DEF Owns
  <2>3. Owned(g)' = Owned(g)
    BY <2>2 DEF Owned
  <2> QED
    BY <1>3, <2>1, <2>3
<1> QED
  BY <1>4, <1>5

\* A RemoveStep that ends without a panic is a RemoveFlow.
LEMMA CleanRemoves ==
    ASSUME TypeOK, NEW w \in Workers, RemoveStep(w), history' = "clean"
    PROVE  task[w].flow \in Flows /\ RemoveFlow(task[w].flow) /\ history = "clean"
<1>1. task[w].flow \in Flows
  BY DEF RemoveStep, SyncRemove, SyncCleanup, SyncRemovePanics, TypeOK, Outcomes
<1>2. ~RemoveFlowPanics(task[w].flow)
  BY DEF RemoveFlowPanics
<1>3. RemoveFlow(task[w].flow)
  BY <1>2 DEF RemoveStep, SyncRemove, SyncCleanup, SyncRemovePanics
<1> QED
  BY <1>1, <1>3 DEF RemoveFlow

LEMMA IndexStart == Init => IndexExact
<1> SUFFICES ASSUME Init, NEW f \in Flows PROVE Indexed(f) = Owned(f)
  BY DEF IndexExact, Indexed
<1>1. Indexed(f) = {}
  BY DEF Init, Indexed
<1>2. Owned(f) = {}
  BY DEF Init, Owned, Owns, NoRoutes
<1> QED
  BY <1>1, <1>2

LEMMA IndexKept == TypeOK /\ ListenerInUse /\ IndexExact /\ [Next]_vars => IndexExact'
<1> SUFFICES ASSUME TypeOK, ListenerInUse, IndexExact, [Next]_vars PROVE IndexExact'
  OBVIOUS
<1>1. CASE UNCHANGED tableVars
  BY <1>1 DEF tableVars, IndexExact, Owned, Owns
<1>2. ASSUME NEW w \in Workers, RemoveStep(w) PROVE IndexExact'
  <2>1. CASE history' = "clean"
    BY <1>2, <2>1, CleanRemoves, RemoveIndex
  <2>2. CASE history' # "clean"
    BY <2>2 DEF IndexExact
  <2> QED
    BY <2>1, <2>2
<1>3. ASSUME NEW w \in Workers, MountStep(w) PROVE IndexExact'
  BY <1>3, MountIndex
<1> QED
  BY <1>1, <1>2, <1>3, StepKinds

\* RemoveFlow's list of a flow is the flow's routes.
THEOREM IndexCorrect == Spec => []IndexExact
<1> QED
  BY IndexStart, IndexKept, TypeCorrect, ListenersCorrect, PTL DEF Spec

LEMMA RemoveMux ==
    ASSUME TypeOK, ListenerInUse, MuxExact, NEW f \in Flows, RemoveFlow(f), history = "clean"
    PROVE  \A a \in Addrs : mux'[a] = Live(a)'
<1> SUFFICES ASSUME NEW a \in Addrs PROVE mux'[a] = Live(a)'
  OBVIOUS
<1> DEFINE n == Len(byFlow[f])
<1>1. n \in Nat /\ Unload(f, n) /\ mux'[a] = Rebuilt(f, n, a)
  BY DEF RemoveFlow, TypeOK
<1>2. Live(a)' = Left(f, n, a)
  BY <1>1, UnloadRoutes DEF Live, Left
<1>3. mux[a] = Live(a)
  BY DEF MuxExact
<1>4. CASE a \notin Visited(f, n)
  <2>1. server[a] = NoServer => Live(a) = {}
    BY DEF ListenerInUse
  <2>2. server[a] # NoServer => Dropped(f, n, a) = {}
    <3>1. server[a] # NoServer => \A i \in 1..n : byFlow[f][i][1] # a
      BY <1>4 DEF Visited
    <3>2. server[a] # NoServer => \A i \in 1..n, p \in Patterns : byFlow[f][i] # <<a, p>>
      BY <3>1
    <3> QED
      BY <3>2 DEF Dropped
  <2>3. Left(f, n, a) = Live(a)
    BY <2>1, <2>2 DEF Left
  <2> QED
    BY <1>1, <1>2, <1>3, <1>4, <2>3 DEF Rebuilt
<1>5. CASE a \in Visited(f, n) /\ Closes(f, n, a)
  <2>1. routes'[a] = NoRoutes
    BY <1>1, <1>5 DEF Unload
  <2>2. Live(a)' = {}
    BY <2>1 DEF Live, NoRoutes
  <2> QED
    BY <1>1, <1>5, <2>2 DEF Rebuilt
<1>6. CASE a \in Visited(f, n) /\ ~Closes(f, n, a)
  BY <1>1, <1>2, <1>6 DEF Rebuilt
<1> QED
  BY <1>4, <1>5, <1>6

LEMMA MuxStart == Init => MuxExact
  BY DEF Init, MuxExact, Live, NoRoutes

LEMMA MuxKept == TypeOK /\ ListenerInUse /\ MuxExact /\ [Next]_vars => MuxExact'
<1> SUFFICES ASSUME TypeOK, ListenerInUse, MuxExact, [Next]_vars, history' = "clean"
             PROVE  \A a \in Addrs : mux'[a] = Live(a)'
  BY DEF MuxExact
<1>1. CASE UNCHANGED tableVars
  BY <1>1 DEF tableVars, MuxExact, Live
<1>2. ASSUME NEW w \in Workers, RemoveStep(w) PROVE \A a \in Addrs : mux'[a] = Live(a)'
  BY <1>2, CleanRemoves, RemoveMux
<1>3. ASSUME NEW w \in Workers, MountStep(w) PROVE \A a \in Addrs : mux'[a] = Live(a)'
  <2> DEFINE b == Router(w).addr
             q == Router(w).pattern
  <2>1. history = "clean"
    BY <1>3 DEF MountStep, Rebind, AddRoute
  <2>2. /\ b \in Addrs /\ q \in Patterns
        /\ \A a \in Addrs : Live(a)' = IF a = b THEN Live(a) \cup {q} ELSE Live(a)
    BY <1>3, MountRoutes DEF MountStep, Live
  <2>3. CASE Rebind(w)
    BY <2>1, <2>2, <2>3 DEF Rebind, Owns, Live, MuxExact
  <2>4. CASE AddRoute(w)
    <3>1. mux' = [mux EXCEPT ![b] = @ \cup {q}]
      BY <2>4 DEF AddRoute
    <3> QED
      BY <2>1, <2>2, <3>1 DEF MuxExact, TypeOK
  <2> QED
    BY <1>3, <2>3, <2>4 DEF MountStep
<1> QED
  BY <1>1, <1>2, <1>3, StepKinds

\* The mux of a listener dispatches exactly its routes.
THEOREM MuxCorrect == Spec => []MuxExact
<1> QED
  BY MuxStart, MuxKept, TypeCorrect, ListenersCorrect, PTL DEF Spec

(***************************************************************************)
(* Calls of SyncFlow that others leave alone.  What a call installs, and   *)
(* that what it checked is not refused, rests on what its marks say of the *)
(* other calls, and on the routes of a flow being its own.                 *)
(***************************************************************************)

\* A call that is over has no marks, one that is quiet is the only one, and one that is solo
\* the only one of its flow.
Marks ==
    \A w \in Workers :
        /\ w \notin Busy => task[w].marks = {}
        /\ task[w].pc = "remove" => task[w].next = 1
        /\ \A u \in Busy \ {w} :
               /\ "quiet" \notin task[w].marks
               /\ "solo" \in task[w].marks => task[u].flow # task[w].flow

\* A step of a call ends it, or takes it on with its flow, DSL and marks.
GoesOn(w) ==
    /\ task'[w].pc \in {"add", "cleanup"}
    /\ task'[w].flow = task[w].flow /\ task'[w].dsl = task[w].dsl
    /\ task'[w].marks = task[w].marks

LEMMA StepTask ==
    ASSUME TypeOK, NEW w \in Workers, SyncStep(w)
    PROVE  /\ w \in Busy
           /\ \A u \in Workers \ {w} : task'[u] = task[u]
           /\ \/ task'[w].pc \in Outcomes /\ task'[w].marks = {}
              \/ GoesOn(w)
           /\ IdleStep(w) => task'[w].pc # "add"
           /\ RemoveStep(w) /\ task'[w].pc = "add" =>
                  task[w].pc = "remove" /\ task'[w].next = task[w].next
           /\ MountStep(w) /\ history' = "clean" =>
                  Adding(w) /\ task'[w].pc = "add" /\ task'[w].next = task[w].next + 1
<1>1. task[w] \in Tasks /\ task \in [Workers -> Tasks]
  BY DEF TypeOK
<1>2. ASSUME NEW o \in Outcomes, Finish(w, o)
      PROVE  /\ \A u \in Workers \ {w} : task'[u] = task[u]
             /\ task'[w].pc \in Outcomes /\ task'[w].marks = {}
             /\ task'[w].pc # "add"
  BY <1>1, <1>2 DEF Finish, Over, Outcomes
<1>3. ASSUME NEW x \in {"add", "cleanup"}, task' = [task EXCEPT ![w].pc = x]
      PROVE  /\ \A u \in Workers \ {w} : task'[u] = task[u]
             /\ GoesOn(w) /\ task'[w].pc = x /\ task'[w].next = task[w].next
  BY <1>1, <1>3 DEF GoesOn, Tasks
<1>4. ASSUME Adding(w), task' = [task EXCEPT ![w].next = @ + 1]
      PROVE  /\ \A u \in Workers \ {w} : task'[u] = task[u]
             /\ GoesOn(w) /\ task'[w].pc = "add" /\ task'[w].next = task[w].next + 1
  BY <1>1, <1>4 DEF GoesOn, Tasks, Adding
<1>5. /\ "ok" \in Outcomes /\ "err" \in Outcomes /\ "panic" \in Outcomes
      /\ "add" \notin Outcomes /\ "remove" \notin Outcomes /\ "cleanup" \notin Outcomes
  BY DEF Outcomes
<1>6. CASE RemoveStep(w)
  <2>1. task[w].pc \in {"remove", "cleanup"}
    BY <1>6 DEF RemoveStep, SyncRemove, SyncCleanup, SyncRemovePanics
  <2>2. CASE \E o \in Outcomes : Finish(w, o)
    BY <1>2, <1>5, <2>1, <2>2 DEF Busy, IdleStep, MountStep, ParseFails, ListenFails,
           CertInvalid, RefuseRoute, SyncReturn, Rebind, AddRoute, Adding
  <2>3. CASE task[w].pc = "remove" /\ task' = [task EXCEPT ![w].pc = "add"]
    BY <1>3, <1>5, <2>1, <2>3 DEF Busy, IdleStep, MountStep, ParseFails, ListenFails,
           CertInvalid, RefuseRoute, SyncReturn, Rebind, AddRoute, Adding
  <2> QED
    BY <1>5, <1>6, <2>2, <2>3 DEF RemoveStep, SyncRemove, SyncCleanup, SyncRemovePanics
<1>7. CASE IdleStep(w)
  <2>1. task[w].pc = "add"
    BY <1>7 DEF IdleStep, ParseFails, ListenFails, CertInvalid, RefuseRoute, SyncReturn, Adding
  <2>2. ~RemoveStep(w)
    BY <2>1 DEF RemoveStep, SyncRemove, SyncCleanup, SyncRemovePanics
  <2>3. \/ \E o \in Outcomes : Finish(w, o)
        \/ task' = [task EXCEPT ![w].pc = "cleanup"]
    BY <1>5, <1>7 DEF IdleStep, ParseFails, ListenFails, CertInvalid, RefuseRoute, SyncReturn,
           AddFails
  <2>4. task'[w].pc # "add" /\ ~(task'[w].pc = "add")
    BY <1>2, <1>3, <2>3
  <2>5. ~MountStep(w)
    <3> SUFFICES ASSUME MountStep(w) PROVE FALSE
      OBVIOUS
    <3>1. UNCHANGED byFlow
      BY <1>7 DEF IdleStep, ParseFails, ListenFails, CertInvalid, RefuseRoute, SyncReturn,
             AddFails, tableVars
    <3> DEFINE f == task[w].flow
               new == <<Router(w).addr, Router(w).pattern>>
    <3>2. /\ f \in Flows
          /\ byFlow' = [byFlow EXCEPT ![f] = Append(@, new)]
          /\ byFlow[f] \in Seq(Addrs \X Patterns) /\ new \in Addrs \X Patterns
      BY MountRoutes DEF MountStep, TypeOK
    <3> HIDE DEF f, new
    <3>3. byFlow'[f] = Append(byFlow[f], new)
      BY <3>2 DEF TypeOK
    <3>4. Len(byFlow'[f]) = Len(byFlow[f]) + 1 /\ Len(byFlow[f]) \in Nat
      BY <3>2, <3>3
    <3> QED
      BY <3>1, <3>4
  <2> QED
    BY <1>2, <1>3, <1>5, <2>1, <2>2, <2>3, <2>4, <2>5 DEF Busy
<1>8. CASE MountStep(w) /\ ~IdleStep(w)
  <2>1. Adding(w)
    BY <1>8 DEF MountStep, Rebind, AddRoute
  <2>2. ~RemoveStep(w)
    BY <2>1 DEF RemoveStep, SyncRemove, SyncCleanup, SyncRemovePanics, Adding
  <2>3. \/ task' = [task EXCEPT ![w].next = @ + 1]
        \/ Finish(w, "panic") /\ history' = "panicked"
    BY <1>8 DEF MountStep, Rebind, AddRoute
  <2>4. w \in Busy
    BY <1>5, <2>1 DEF Busy, Adding
  <2>5. CASE task' = [task EXCEPT ![w].next = @ + 1]
    BY <1>4, <1>8, <2>1, <2>2, <2>4, <2>5
  <2>6. CASE Finish(w, "panic") /\ history' = "panicked"
    BY <1>2, <1>5, <1>8, <2>1, <2>2, <2>4, <2>6
  <2> QED
    BY <2>3, <2>5, <2>6
<1> QED
  BY <1>6, <1>7, <1>8 DEF SyncStep, RemoveStep, IdleStep, MountStep

\* A call that begins marks itself by what it finds, and takes marks from the others.
LEMMA BeginTask ==
    ASSUME TypeOK, NEW w \in Workers, NEW f \in Flows, NEW d \in Dsls \cup {NoDsl},
           SyncBegin(w, f, d)
    PROVE  /\ w \notin Busy /\ UNCHANGED tableVars
           /\ task'[w].pc = "remove" /\ task'[w].flow = f /\ task'[w].dsl = d
           /\ task'[w].next = 1
           /\ "checked" \in task'[w].marks <=> CheckHTTPRoutes(f, d)
           /\ "quiet" \in task'[w].marks <=> Busy = {}
           /\ "solo" \in task'[w].marks <=> \A u \in Busy : task[u].flow # f
           /\ \A u \in Workers \ {w} :
                  /\ task'[u].pc = task[u].pc /\ task'[u].flow = task[u].flow
                  /\ task'[u].dsl = task[u].dsl /\ task'[u].next = task[u].next
                  /\ task'[u].marks \subseteq task[u].marks
                  /\ u \in Busy => /\ "quiet" \notin task'[u].marks
                                   /\ task[u].flow = f => "solo" \notin task'[u].marks
                                   /\ task[u].flow # f /\ "solo" \in task[u].marks =>
                                          "solo" \in task'[u].marks
<1> DEFINE marks == {m \in {"checked", "quiet", "solo"} :
                       \/ m = "checked" /\ CheckHTTPRoutes(f, d)
                       \/ m = "quiet" /\ Busy = {}
                       \/ m = "solo" /\ \A u \in Busy : task[u].flow # f}
           new == [pc |-> "remove", flow |-> f, dsl |-> d, next |-> 1, marks |-> marks]
           lost(v) == IF task[v].flow = f THEN {"quiet", "solo"} ELSE {"quiet"}
           old(v) == [task[v] EXCEPT !.marks = @ \ lost(v)]
<1>1. /\ task' = [v \in Workers |-> IF v = w THEN new
                                    ELSE IF v \in Busy THEN old(v) ELSE task[v]]
      /\ w \notin Busy /\ UNCHANGED tableVars
  BY DEF SyncBegin
<1>2. /\ "checked" \in marks <=> CheckHTTPRoutes(f, d)
      /\ "quiet" \in marks <=> Busy = {}
      /\ "solo" \in marks <=> \A u \in Busy : task[u].flow # f
  OBVIOUS
<1>3. ASSUME NEW v \in Workers
      PROVE  /\ old(v).pc = task[v].pc /\ old(v).flow = task[v].flow
             /\ old(v).dsl = task[v].dsl /\ old(v).next = task[v].next
             /\ old(v).marks = task[v].marks \ lost(v)
  BY DEF TypeOK, Tasks
<1>5. \A v \in Workers : task[v].flow # f => "solo" \notin lost(v)
  OBVIOUS
<1> HIDE DEF marks, old
<1>4. /\ task'[w] = new
      /\ \A u \in Workers \ {w} : task'[u] = IF u \in Busy THEN old(u) ELSE task[u]
  BY <1>1
<1> QED
  BY <1>1, <1>2, <1>3, <1>4, <1>5

LEMMA MarksKept == TypeOK /\ Marks /\ [Next]_vars => Marks'
<1> SUFFICES ASSUME TypeOK, Marks, [Next]_vars PROVE Marks'
  OBVIOUS
<1>1. ASSUME NEW w \in Workers, NEW f \in Flows, NEW d \in Dsls \cup {NoDsl}, SyncBegin(w, f, d)
      PROVE  Marks'
  <2>1. Busy' = Busy \cup {w}
    BY <1>1, BeginTask DEF Busy, Outcomes
  <2>2. ASSUME NEW v \in Workers \ {w}
        PROVE  /\ v \notin Busy' => task'[v].marks = {}
               /\ task'[v].pc = "remove" => task'[v].next = 1
               /\ \A u \in Busy' \ {v} :
                      /\ "quiet" \notin task'[v].marks
                      /\ "solo" \in task'[v].marks => task'[u].flow # task'[v].flow
    <3>1. /\ v \notin Busy => task[v].marks = {}
          /\ task[v].pc = "remove" => task[v].next = 1
      BY DEF Marks
    <3>2. "quiet" \notin task'[v].marks
      BY <1>1, <3>1, BeginTask
    <3>3. ASSUME NEW u \in Busy' \ {v}, "solo" \in task'[v].marks
          PROVE  task'[u].flow # task'[v].flow
      <4>1. "solo" \in task[v].marks /\ v \in Busy /\ task'[v].flow = task[v].flow
        BY <1>1, <3>1, <3>3, BeginTask
      <4>2. CASE u = w
        BY <1>1, <3>3, <4>1, <4>2, BeginTask
      <4>3. CASE u # w
        <5>1. u \in Busy /\ u \in Workers /\ task'[u].flow = task[u].flow
          BY <1>1, <2>1, <3>3, <4>3, BeginTask DEF Busy
        <5> QED
          BY <3>3, <4>1, <5>1 DEF Marks
      <4> QED
        BY <4>2, <4>3
    <3> QED
      BY <1>1, <2>1, <3>1, <3>2, <3>3, BeginTask
  <2>3. /\ w \in Busy' /\ task'[w].next = 1
        /\ \A u \in Busy' \ {w} :
               /\ "quiet" \notin task'[w].marks
               /\ "solo" \in task'[w].marks => task'[u].flow # task'[w].flow
    BY <1>1, <2>1, BeginTask DEF Busy
  <2> QED
    BY <2>2, <2>3 DEF Marks
<1>2. ASSUME NEW w \in Workers, SyncStep(w) PROVE Marks'
  <2>1. /\ w \in Busy
        /\ \A u \in Workers \ {w} : task'[u] = task[u]
        /\ (task'[w].pc \in Outcomes /\ task'[w].marks = {}) \/ GoesOn(w)
    BY <1>2, StepTask
  <2>2. Busy' \subseteq Busy /\ \A u \in Workers \ {w} : u \in Busy' <=> u \in Busy
    BY <2>1 DEF Busy
  <2>3. ASSUME NEW v \in Workers \ {w}
        PROVE  /\ v \notin Busy' => task'[v].marks = {}
               /\ task'[v].pc = "remove" => task'[v].next = 1
               /\ \A u \in Busy' \ {v} :
                      /\ "quiet" \notin task'[v].marks
                      /\ "solo" \in task'[v].marks => task'[u].flow # task'[v].flow
    <3>1. ASSUME NEW u \in Busy', "solo" \in task[v].marks PROVE task'[u].flow = task[u].flow
      BY <2>1, <2>2, <3>1 DEF Busy, GoesOn
    <3> QED
      BY <2>1, <2>2, <3>1 DEF Marks
  <2>4. CASE task'[w].pc \in Outcomes /\ task'[w].marks = {}
    BY <2>3, <2>4 DEF Marks, Outcomes
  <2>5. CASE GoesOn(w)
    <3>1. task'[w].pc # "remove" /\ task'[w].pc \notin Outcomes /\ w \in Busy'
      BY <2>5 DEF GoesOn, Busy, Outcomes
    <3>2. \A u \in Busy' \ {w} : u \in Busy /\ u \in Workers /\ task'[u] = task[u]
      BY <2>1, <2>2 DEF Busy
    <3>3. \A u \in Busy' \ {w} :
              /\ "quiet" \notin task'[w].marks
              /\ "solo" \in task'[w].marks => task'[u].flow # task'[w].flow
      BY <2>5, <3>2 DEF GoesOn, Marks
    <3> QED
      BY <2>3, <3>1, <3>3 DEF Marks
  <2> QED
    BY <2>1, <2>4, <2>5
<1>3. CASE UNCHANGED vars
  BY <1>3 DEF vars, Marks, Busy
<1> QED
  BY <1>1, <1>2, <1>3 DEF Next

LEMMA MarksStart == Init => Marks
  BY DEF Init, Marks, Busy, Over, Outcomes

\* A quiet call is alone, a solo call the only one of its flow, and one that is over has no
\* marks.
THEOREM MarksCorrect == Spec => []Marks
<1> QED
  BY MarksStart, MarksKept, TypeCorrect, PTL DEF Spec

\* What a call in the middle of its routers has installed.
Installed(w) ==
    /\ Owned(task[w].flow) =
           {<<task[w].dsl[i].addr, task[w].dsl[i].pattern>> : i \in 1..(task[w].next - 1)}
    /\ \A ap \in Owned(task[w].flow) : routes[ap[1]][ap[2]].dsl = task[w].dsl

\* The routes of a flow, of which none changes.
SameRoutes(f) ==
    \A a \in Addrs, p \in Patterns :
        /\ Owns(f, a, p)' <=> Owns(f, a, p)
        /\ Owns(f, a, p) => routes'[a][p] = routes[a][p]

LEMMA InstalledStays ==
    ASSUME NEW w \in Workers, Installed(w), SameRoutes(task[w].flow),
           task'[w].flow = task[w].flow, task'[w].dsl = task[w].dsl, task'[w].next = task[w].next
    PROVE  Installed(w)'
<1>1. Owned(task[w].flow)' = Owned(task[w].flow)
  BY DEF Owned, SameRoutes
<1>2. \A ap \in Owned(task[w].flow) :
          routes'[ap[1]][ap[2]] = routes[ap[1]][ap[2]]
  BY DEF Owned, SameRoutes
<1> QED
  BY <1>1, <1>2 DEF Installed

\* Without a panic, RemoveFlow takes the routes of its flow and leaves those of the others.
LEMMA RemovesOwn ==
    ASSUME TypeOK, ListenerInUse, IndexExact, history = "clean",
           NEW f \in Flows, RemoveFlow(f)
    PROVE  /\ \A a \in Addrs, p \in Patterns :
                  routes'[a][p] = IF Owns(f, a, p) THEN NoTarget ELSE routes[a][p]
           /\ Owned(f)' = {}
           /\ \A g \in Flows \ {f} : SameRoutes(g)
<1> DEFINE n == Len(byFlow[f])
<1>1. n \in Nat /\ Unload(f, n)
  BY DEF RemoveFlow, TypeOK
<1>2. \A a \in Addrs, p \in Patterns : p \in Dropped(f, n, a) <=> Owns(f, a, p)
  <2> SUFFICES ASSUME NEW a \in Addrs, NEW p \in Patterns, Owns(f, a, p)
               PROVE  p \in Dropped(f, n, a)
    BY DEF Dropped
  <2>1. <<a, p>> \in Owned(f)
    BY DEF Owned
  <2>2. \E i \in DOMAIN byFlow[f] : byFlow[f][i] = <<a, p>>
    BY <2>1 DEF IndexExact
  <2>3. DOMAIN byFlow[f] = 1..n
    BY DEF TypeOK
  <2> QED
    BY <2>2, <2>3 DEF Dropped
<1>3. \A a \in Addrs, p \in Patterns :
          routes'[a][p] = IF Owns(f, a, p) THEN NoTarget ELSE routes[a][p]
  BY <1>1, <1>2, UnloadRoutes
<1>4. Owned(f)' = {}
  <2>1. \A a \in Addrs, p \in Patterns : ~Owns(f, a, p)'
    BY <1>3 DEF Owns
  <2> QED
    BY <2>1 DEF Owned
<1>5. \A g \in Flows \ {f} : SameRoutes(g)
  BY <1>3 DEF SameRoutes, Owns
<1> QED
  BY <1>3, <1>4, <1>5

\* A router that is mounted leaves the routes of other flows.
LEMMA MountsOwn ==
    ASSUME TypeOK, NEW w \in Workers, MountStep(w)
    PROVE  \A g \in Flows \ {task[w].flow} : SameRoutes(g)
  BY MountRoutes DEF MountStep, SameRoutes, Owns

LEMMA MountInstalls ==
    ASSUME TypeOK, NEW w \in Workers, MountStep(w), Installed(w), Adding(w),
           task'[w].flow = task[w].flow, task'[w].dsl = task[w].dsl,
           task'[w].next = task[w].next + 1
    PROVE  Installed(w)'
<1> DEFINE f == task[w].flow
           d == task[w].dsl
           k == task[w].next
           b == Router(w).addr
           q == Router(w).pattern
           at(i) == <<d[i].addr, d[i].pattern>>
<1>1. /\ b \in Addrs /\ q \in Patterns /\ f \in Flows
      /\ NewTarget(w) # NoTarget /\ NewTarget(w).flow = f
      /\ \A a \in Addrs, p \in Patterns :
             routes'[a][p] = IF a = b /\ p = q THEN NewTarget(w) ELSE routes[a][p]
  BY MountRoutes DEF MountStep
<1>2. k \in Nat /\ k # 0 /\ at(k) = <<b, q>> /\ NewTarget(w).dsl = d
  BY DEF TypeOK, Tasks, Adding, Outcomes, Router, NewTarget
<1>3. \A a \in Addrs, p \in Patterns : Owns(f, a, p)' <=> Owns(f, a, p) \/ (a = b /\ p = q)
  BY <1>1 DEF Owns
<1>4. Owned(f)' = Owned(f) \cup {<<b, q>>}
  BY <1>1, <1>3 DEF Owned
<1>5. \A ap \in Owned(f)' : routes'[ap[1]][ap[2]].dsl = d
  <2> SUFFICES ASSUME NEW ap \in Owned(f)' PROVE routes'[ap[1]][ap[2]].dsl = d
    OBVIOUS
  <2>1. ap[1] \in Addrs /\ ap[2] \in Patterns
    BY DEF Owned
  <2>2. CASE ap[1] = b /\ ap[2] = q
    BY <1>1, <1>2, <2>1, <2>2
  <2>3. CASE ~(ap[1] = b /\ ap[2] = q)
    <3>1. ap \in Owned(f)
      BY <1>4, <2>3
    <3> QED
      BY <1>1, <2>1, <2>3, <3>1 DEF Installed
  <2> QED
    BY <2>2, <2>3
<1>6. Owned(f) = {at(i) : i \in 1..(k - 1)}
  BY DEF Installed
<1>a. task'[w].dsl = d /\ task'[w].next = k + 1 /\ task'[w].flow = f
  OBVIOUS
<1>10. \A i : at(i) = <<task'[w].dsl[i].addr, task'[w].dsl[i].pattern>>
  BY <1>a
<1> HIDE DEF at, f, d, k, b, q
<1>7. 1..(k + 1 - 1) = 1..(k - 1) \cup {k}
  BY <1>2
<1>8. {at(i) : i \in 1..(k + 1 - 1)} = {at(i) : i \in 1..(k - 1)} \cup {<<b, q>>}
  BY <1>2, <1>7
<1>9. Owned(f)' = {at(i) : i \in 1..(k + 1 - 1)}
  BY <1>4, <1>6, <1>8
<1>11. task'[w].next - 1 = k + 1 - 1
  BY <1>2, <1>a
<1>12. Owned(f)' = {<<task'[w].dsl[i].addr, task'[w].dsl[i].pattern>> :
                       i \in 1..(task'[w].next - 1)}
  <2> DEFINE I == 1..(k + 1 - 1)
             I2 == 1..(task'[w].next - 1)
             x(i) == <<task'[w].dsl[i].addr, task'[w].dsl[i].pattern>>
  <2>1. I2 = I
    BY <1>11
  <2>2. Owned(f)' = {at(i) : i \in I}
    BY <1>9
  <2>3. \A i : at(i) = x(i)
    BY <1>10
  <2> HIDE DEF I, I2, x
  <2>4. {at(i) : i \in I} = {x(i) : i \in I2}
    BY <2>1, <2>3
  <2>5. Owned(f)' = {x(i) : i \in I2}
    BY <2>2, <2>4
  <2> QED
    BY <2>5 DEF x, I2
<1> QED
  BY <1>5, <1>12 DEF Installed, f, d

LEMMA SoloKept ==
    TypeOK /\ ListenerInUse /\ IndexExact /\ Marks /\ SoloSyncExact /\ [Next]_vars
        => SoloSyncExact'
<1> SUFFICES ASSUME TypeOK, ListenerInUse, IndexExact, Marks, SoloSyncExact, [Next]_vars,
                    NEW v \in Workers, task'[v].pc = "add", "solo" \in task'[v].marks,
                    history' = "clean"
             PROVE  Installed(v)'
  BY DEF SoloSyncExact, Installed
<1>1. task[v].pc = "add" /\ "solo" \in task[v].marks /\ history = "clean" => Installed(v)
  BY DEF SoloSyncExact, Installed
<1>2. ASSUME UNCHANGED tableVars, task[v].pc = "add", "solo" \in task[v].marks,
             task'[v].flow = task[v].flow, task'[v].dsl = task[v].dsl,
             task'[v].next = task[v].next
      PROVE  Installed(v)'
  <2>1. SameRoutes(task[v].flow)
    BY <1>2 DEF SameRoutes, Owns, tableVars
  <2>2. Installed(v)
    BY <1>1, <1>2 DEF tableVars
  <2> QED
    BY <1>2, <2>1, <2>2, InstalledStays
<1>3. ASSUME NEW w \in Workers, NEW f \in Flows, NEW d \in Dsls \cup {NoDsl}, SyncBegin(w, f, d)
      PROVE  Installed(v)'
  <2>1. v # w
    BY <1>3, BeginTask
  <2> QED
    BY <1>2, <1>3, <2>1, BeginTask
<1>4. ASSUME NEW w \in Workers, SyncStep(w) PROVE Installed(v)'
  <2>1. /\ w \in Busy
        /\ v # w => task'[v] = task[v]
        /\ v = w => GoesOn(w)
    BY <1>4, StepTask DEF Outcomes
  <2>2. v # w => task[w].flow # task[v].flow
    BY <2>1 DEF Marks
  <2>3. task[v].flow \in Flows /\ task[w].flow \in Flows
    <3>1. task[v].pc \notin Outcomes
      BY <1>4, <2>1, StepTask DEF Busy, Outcomes
    <3> QED
      BY <2>1, <3>1 DEF TypeOK, Busy
  <2>4. CASE IdleStep(w)
    <3>1. UNCHANGED tableVars
      BY <2>4 DEF IdleStep, ParseFails, ListenFails, CertInvalid, RefuseRoute, AddFails,
             SyncReturn
    <3>2. v # w
      BY <1>4, <2>4, StepTask
    <3> QED
      BY <1>2, <2>1, <3>1, <3>2
  <2>5. CASE RemoveStep(w)
    <3>1. RemoveFlow(task[w].flow) /\ history = "clean"
      BY <2>5, CleanRemoves
    <3>2. CASE v = w
      <4>1. task[v].pc = "remove" /\ task'[v].next = 1
        BY <1>4, <2>5, <3>2, StepTask DEF Marks
      <4>2. Owned(task[v].flow)' = {} /\ task'[v].flow = task[v].flow
        BY <2>1, <2>3, <3>1, <3>2, RemovesOwn DEF GoesOn
      <4>3. 1..(task'[v].next - 1) = {}
        BY <4>1
      <4>4. Owned(task[v].flow)' = {<<task'[v].dsl[i].addr, task'[v].dsl[i].pattern>> :
                                        i \in 1..(task'[v].next - 1)}
        BY <4>2, <4>3
      <4> QED
        BY <4>2, <4>4 DEF Installed
    <3>3. CASE v # w
      <4>1. SameRoutes(task[v].flow) /\ Installed(v)
        BY <1>1, <2>1, <2>2, <2>3, <3>1, <3>3, RemovesOwn
      <4> QED
        BY <2>1, <3>3, <4>1, InstalledStays
    <3> QED
      BY <3>2, <3>3
  <2>6. CASE MountStep(w)
    <3>1. history = "clean"
      BY <2>6 DEF MountStep, Rebind, AddRoute
    <3>2. CASE v = w
      <4>1. /\ Adding(v) /\ task'[v].next = task[v].next + 1
            /\ task'[v].flow = task[v].flow /\ task'[v].dsl = task[v].dsl
            /\ "solo" \in task[v].marks
        BY <1>4, <2>1, <2>6, <3>2, StepTask DEF GoesOn
      <4>2. Installed(v)
        BY <1>1, <3>1, <4>1 DEF Adding
      <4> QED
        BY <2>6, <3>2, <4>1, <4>2, MountInstalls
    <3>3. CASE v # w
      <4>1. SameRoutes(task[v].flow) /\ Installed(v)
        BY <1>1, <2>1, <2>2, <2>3, <2>6, <3>1, <3>3, MountsOwn
      <4> QED
        BY <2>1, <3>3, <4>1, InstalledStays
    <3> QED
      BY <3>2, <3>3
  <2> QED
    BY <1>4, <2>4, <2>5, <2>6 DEF SyncStep, IdleStep, RemoveStep, MountStep
<1>5. CASE UNCHANGED vars
  BY <1>2, <1>5 DEF vars, tableVars
<1> QED
  BY <1>3, <1>4, <1>5 DEF Next

LEMMA SoloStart == Init => SoloSyncExact
  BY DEF Init, SoloSyncExact, Over

\* A call that no other call of its flow overlaps installs its DSL and nothing else.
THEOREM SoloCorrect == Spec => []SoloSyncExact
<1> QED
  BY SoloStart, SoloKept, MarksCorrect, TypeCorrect, ListenersCorrect, IndexCorrect, PTL DEF Spec

(***************************************************************************)
(* What was checked stays mountable: a call that nothing overlaps finds    *)
(* the table as CheckHTTPRoutes saw it, less its own routes.               *)
(***************************************************************************)

\* The routers of a DSL from the k-th on can be mounted for a flow.
Mountable(f, d, k) ==
    /\ \A i, j \in DOMAIN d : i # j /\ d[i].addr = d[j].addr =>
           d[i].tls = d[j].tls /\ d[i].pattern # d[j].pattern
    /\ \A i \in DOMAIN d : i >= k =>
           /\ server[d[i].addr] \in {NoServer, d[i].tls}
           /\ \/ routes[d[i].addr][d[i].pattern] = NoTarget
              \/ Owns(f, d[i].addr, d[i].pattern)

\* A checked call that nothing has overlapped would pass the check before its RemoveFlow and
\* can mount the routers it has left after it.
Ready(w) ==
    /\ task[w].pc = "remove" => CheckHTTPRoutes(task[w].flow, task[w].dsl)
    /\ task[w].pc = "add" => Mountable(task[w].flow, task[w].dsl, task[w].next)

CheckedReady ==
    \A w \in Workers :
        {"checked", "quiet"} \subseteq task[w].marks /\ history = "clean" => Ready(w)

LEMMA RoutersOf ==
    ASSUME NEW d \in Dsls
    PROVE  /\ DOMAIN d \subseteq Nat
           /\ \A i \in DOMAIN d : d[i].addr \in Addrs /\ d[i].pattern \in Patterns
<1>1. d \in Seq(Routers)
  BY RoutersAssumption
<1>2. DOMAIN d \subseteq Nat /\ \A i \in DOMAIN d : d[i] \in Routers
  BY <1>1
<1> QED
  BY <1>2 DEF Routers

\* Once RemoveFlow has taken the flow's own routes, what the check allowed is free.
LEMMA RemovedMountable ==
    ASSUME TypeOK, ListenerInUse, ListenerInUse', IndexExact, history = "clean",
           NEW f \in Flows, NEW d \in Dsls, CheckHTTPRoutes(f, d), RemoveFlow(f)
    PROVE  Mountable(f, d, 1)'
<1>1. d # NoDsl
  BY NullsAssumption
<1>2. /\ \A i, j \in DOMAIN d : i # j /\ d[i].addr = d[j].addr =>
             d[i].tls = d[j].tls /\ d[i].pattern # d[j].pattern
      /\ \A i \in DOMAIN d :
             \/ server[d[i].addr] \in {NoServer, d[i].tls}
             \/ \A p \in Live(d[i].addr) : Owns(f, d[i].addr, p)
      /\ \A i \in DOMAIN d :
             \/ routes[d[i].addr][d[i].pattern] = NoTarget
             \/ Owns(f, d[i].addr, d[i].pattern)
  BY <1>1 DEF CheckHTTPRoutes
<1>3. \A a \in Addrs, p \in Patterns :
          routes'[a][p] = IF Owns(f, a, p) THEN NoTarget ELSE routes[a][p]
  BY RemovesOwn
<1>4. \A a \in Addrs : server'[a] \in {NoServer, server[a]}
  BY DEF RemoveFlow, Unload
<1>5. ASSUME NEW i \in DOMAIN d
      PROVE  /\ server'[d[i].addr] \in {NoServer, d[i].tls}
             /\ routes'[d[i].addr][d[i].pattern] = NoTarget
  <2> DEFINE a == d[i].addr
             q == d[i].pattern
  <2>1. a \in Addrs /\ q \in Patterns
    BY RoutersOf
  <2>2. routes'[a][q] = NoTarget
    BY <1>2, <1>3, <2>1
  <2>3. CASE server[a] \in {NoServer, d[i].tls}
    BY <1>4, <2>1, <2>2, <2>3
  <2>4. CASE \A p \in Live(a) : Owns(f, a, p)
    <3>1. \A p \in Patterns : routes'[a][p] = NoTarget
      BY <1>3, <2>1, <2>4 DEF Live
    <3>2. Live(a)' = {}
      BY <3>1 DEF Live
    <3>3. server'[a] = NoServer
      BY <2>1, <3>2 DEF ListenerInUse
    <3> QED
      BY <2>2, <3>3
  <2> QED
    BY <1>2, <2>3, <2>4
<1> QED
  BY <1>2, <1>5 DEF Mountable

\* Mounting a router leaves the later ones mountable: they are on another address, or in the
\* same mode with another pattern.
LEMMA MountedMountable ==
    ASSUME TypeOK, NEW w \in Workers, MountStep(w), Adding(w),
           NEW f, NEW d, NEW k \in Nat,
           task[w].flow = f, task[w].dsl = d, task[w].next = k, Mountable(f, d, k)
    PROVE  Mountable(f, d, k + 1)'
<1> DEFINE b == d[k].addr
           q == d[k].pattern
<1>1. /\ Router(w) = d[k] /\ k \in DOMAIN d /\ d \in Dsls /\ f \in Flows
      /\ b \in Addrs /\ q \in Patterns
      /\ NewTarget(w) # NoTarget /\ NewTarget(w).flow = f
  BY RouterType, MountRoutes DEF MountStep, Router
<1>2. \A a \in Addrs, p \in Patterns :
          routes'[a][p] = IF a = b /\ p = q THEN NewTarget(w) ELSE routes[a][p]
  BY <1>1, MountRoutes DEF MountStep
<1>3. /\ \A i, j \in DOMAIN d : i # j /\ d[i].addr = d[j].addr =>
             d[i].tls = d[j].tls /\ d[i].pattern # d[j].pattern
      /\ \A i \in DOMAIN d : i >= k =>
             /\ server[d[i].addr] \in {NoServer, d[i].tls}
             /\ \/ routes[d[i].addr][d[i].pattern] = NoTarget
                \/ Owns(f, d[i].addr, d[i].pattern)
  BY DEF Mountable
<1>4. \A a \in Addrs : server'[a] = server[a] \/ (a = b /\ server'[a] = d[k].tls)
  <2>1. \/ UNCHANGED server
        \/ server' = [server EXCEPT ![b] = IF @ = NoServer THEN d[k].tls ELSE @]
    BY <1>1 DEF MountStep, Rebind, AddRoute
  <2> QED
    BY <1>1, <2>1 DEF TypeOK
<1>5. ASSUME NEW i \in DOMAIN d, i >= k + 1
      PROVE  /\ server'[d[i].addr] \in {NoServer, d[i].tls}
             /\ \/ routes'[d[i].addr][d[i].pattern] = NoTarget
                \/ Owns(f, d[i].addr, d[i].pattern)'
  <2>1. d[i].addr \in Addrs /\ d[i].pattern \in Patterns /\ i \in Nat
    BY <1>1, RoutersOf
  <2>2. i >= k /\ i # k
    BY <1>5, <2>1
  <2>3. server'[d[i].addr] \in {NoServer, d[i].tls}
    BY <1>1, <1>3, <1>4, <2>1, <2>2
  <2>4. routes'[d[i].addr][d[i].pattern] = routes[d[i].addr][d[i].pattern]
    BY <1>1, <1>2, <1>3, <2>1, <2>2
  <2> QED
    BY <1>3, <2>2, <2>3, <2>4 DEF Owns
<1> QED
  BY <1>3, <1>5 DEF Mountable

\* Ready in the next state, for a call whose fields there are known.
LEMMA ReadyNext ==
    ASSUME NEW w \in Workers, NEW f, NEW d, NEW k,
           task'[w].flow = f, task'[w].dsl = d, task'[w].next = k,
           task'[w].pc = "remove" => CheckHTTPRoutes(f, d)',
           task'[w].pc = "add" => Mountable(f, d, k)'
    PROVE  Ready(w)'
  BY DEF Ready, CheckHTTPRoutes, Mountable, Owns, Live

LEMMA ReadyKept ==
    /\ TypeOK /\ TypeOK' /\ ListenerInUse /\ ListenerInUse' /\ IndexExact /\ Marks
    /\ CheckedReady /\ [Next]_vars
    => CheckedReady'
<1> SUFFICES ASSUME TypeOK, TypeOK', ListenerInUse, ListenerInUse', IndexExact, Marks,
                    CheckedReady, [Next]_vars,
                    NEW v \in Workers, "checked" \in task'[v].marks, "quiet" \in task'[v].marks,
                    history' = "clean"
             PROVE  Ready(v)'
  BY DEF CheckedReady
<1>1. "checked" \in task[v].marks /\ "quiet" \in task[v].marks /\ history = "clean" => Ready(v)
  BY DEF CheckedReady
<1>2. CASE UNCHANGED vars
  <2>1. Ready(v)
    BY <1>1, <1>2 DEF vars
  <2>2. UNCHANGED <<server, routes, task>>
    BY <1>2 DEF vars
  <2>3. PICK f, d, k : f = task[v].flow /\ d = task[v].dsl /\ k = task[v].next
    OBVIOUS
  <2>4. task'[v].pc = "remove" => CheckHTTPRoutes(f, d)'
    <3>1. task[v].pc = "remove" => CheckHTTPRoutes(f, d)
      BY <2>1, <2>3 DEF Ready
    <3> QED
      BY <2>2, <3>1 DEF CheckHTTPRoutes, Owns, Live
  <2>5. task'[v].pc = "add" => Mountable(f, d, k)'
    <3>1. task[v].pc = "add" => Mountable(f, d, k)
      BY <2>1, <2>3 DEF Ready
    <3> QED
      BY <2>2, <3>1 DEF Mountable, Owns
  <2> QED
    BY <2>2, <2>3, <2>4, <2>5, ReadyNext
<1>3. ASSUME NEW w \in Workers, NEW f \in Flows, NEW d \in Dsls \cup {NoDsl}, SyncBegin(w, f, d)
      PROVE  Ready(v)'
  <2>1. v = w
    BY <1>3, BeginTask DEF Marks
  <2>2. /\ task'[v].pc = "remove" /\ task'[v].flow = f /\ task'[v].dsl = d
        /\ CheckHTTPRoutes(f, d) /\ UNCHANGED tableVars
    BY <1>3, <2>1, BeginTask
  <2>3. CheckHTTPRoutes(f, d)'
    BY <2>2 DEF CheckHTTPRoutes, Owns, Live, tableVars
  <2> QED
    BY <2>2, <2>3, ReadyNext
<1>4. ASSUME NEW w \in Workers, SyncStep(w) PROVE Ready(v)'
  <2>1. v = w
    BY <1>4, StepTask DEF Marks
  <2>2. GoesOn(v) /\ v \in Busy
    BY <1>4, <2>1, StepTask
  <2>3. PICK f, d, k : f = task[v].flow /\ d = task[v].dsl /\ k = task[v].next
    OBVIOUS
  <2>4. /\ task'[v].flow = f /\ task'[v].dsl = d
        /\ task'[v].pc # "remove" /\ task'[v].pc \notin Outcomes
        /\ "checked" \in task[v].marks /\ "quiet" \in task[v].marks
    BY <2>2, <2>3 DEF GoesOn, Outcomes
  <2>5. f \in Flows /\ k \in Nat /\ d \in Dsls
    BY <2>2, <2>3, <2>4 DEF TypeOK, Tasks, Busy
  <2>6. CASE task'[v].pc # "add"
    BY <2>4, <2>6, ReadyNext
  <2>7. CASE task'[v].pc = "add" /\ RemoveStep(v)
    <3>1. RemoveFlow(f) /\ history = "clean"
      BY <2>3, <2>7, CleanRemoves
    <3>2. task[v].pc = "remove" /\ task'[v].next = 1
      BY <1>4, <2>1, <2>7, StepTask DEF Marks
    <3>3. CheckHTTPRoutes(f, d)
      BY <1>1, <2>3, <2>4, <3>1, <3>2 DEF Ready
    <3>4. Mountable(f, d, 1)'
      BY <2>5, <3>1, <3>3, RemovedMountable
    <3> QED
      BY <2>4, <3>2, <3>4, ReadyNext
  <2>8. CASE MountStep(v)
    <3>1. /\ history = "clean" /\ Adding(v)
          /\ task'[v].pc = "add" /\ task'[v].next = k + 1
      BY <1>4, <2>1, <2>3, <2>8, StepTask DEF MountStep, Rebind, AddRoute
    <3>2. Mountable(f, d, k)
      BY <1>1, <2>3, <2>4, <3>1 DEF Ready, Adding
    <3>3. Mountable(f, d, k + 1)'
      BY <2>3, <2>5, <2>8, <3>1, <3>2, MountedMountable
    <3> QED
      BY <2>4, <3>1, <3>3, ReadyNext
  <2> QED
    BY <1>4, <2>1, <2>6, <2>7, <2>8, StepTask DEF SyncStep, IdleStep, RemoveStep, MountStep
<1> QED
  BY <1>2, <1>3, <1>4 DEF Next

LEMMA ReadyStart == Init => CheckedReady
  BY DEF Init, CheckedReady, Over

\* A checked call that nothing has overlapped finds the table as it was checked.
THEOREM ReadyCorrect == Spec => []CheckedReady
<1> QED
  BY ReadyStart, ReadyKept, MarksCorrect, TypeCorrect, ListenersCorrect, IndexCorrect, PTL DEF Spec

LEMMA ReadyNotRefused == TypeOK /\ CheckedReady => CheckedSyncNotRefused
<1> SUFFICES ASSUME TypeOK, CheckedReady, NEW w \in Workers,
                    {"checked", "quiet"} \subseteq task[w].marks, history = "clean", Adding(w)
             PROVE  ~TlsMismatch(w) /\ ~RouteConflict(w)
  BY DEF CheckedSyncNotRefused
<1>1. Mountable(task[w].flow, task[w].dsl, task[w].next)
  BY DEF CheckedReady, Ready, Adding
<1>2. task[w].next \in DOMAIN task[w].dsl /\ task[w].next \in Nat
  BY RouterType DEF TypeOK, Tasks
<1> QED
  BY <1>1, <1>2 DEF Mountable, TlsMismatch, RouteConflict, Router

\* What CheckHTTPRoutes accepts is mounted, if nothing else syncs until the call is over.
THEOREM CheckedCorrect == Spec => []CheckedSyncNotRefused
<1> QED
  BY ReadyNotRefused, ReadyCorrect, TypeCorrect, PTL
============================================================================
