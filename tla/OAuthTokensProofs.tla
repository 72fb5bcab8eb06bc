-------------------------- MODULE OAuthTokensProofs --------------------------
(***************************************************************************)
(* What OAuthTokens keeps, for every set of clients, users, tokens and     *)
(* goroutines, and for every term of validity.                             *)
(***************************************************************************)
EXTENDS OAuthTokens, TLAPS

\* Purging keeps the type of a map and what is left in it.
LEMMA PurgedForm ==
    ASSUME NEW map \in [Tokens -> Stored \cup {Nothing}]
    PROVE  /\ Purged(map) \in [Tokens -> Stored \cup {Nothing}]
           /\ \A t \in Tokens : Purged(map)[t] \in {Nothing, map[t]}
  BY DEF Purged

\* What a request takes out of a map has the type of what requests hold.
LEMMA TakenType ==
    ASSUME NEW s \in Stored, NEW c \in Clients
    PROVE  Taken(s, c) \in Held
  BY DEF Taken, Stored, Held

\* Every variable stays in its type, under every interleaving of registrations,
\* authorizations, token requests and restarts (oauth/memory.go, token.go).
THEOREM TypeCorrect == Spec => []TypeOK
<1>1. Init => TypeOK
  BY SeededAssumption, TimesAssumption DEF Init, TypeOK
<1>2. TypeOK /\ [Next]_vars => TypeOK'
  <2> SUFFICES ASSUME TypeOK, [Next]_vars PROVE TypeOK'
    OBVIOUS
  <2>1. /\ Purged(codes) \in [Tokens -> Stored \cup {Nothing}]
        /\ Purged(refresh) \in [Tokens -> Stored \cup {Nothing}]
    BY PurgedForm DEF TypeOK
  <2>2. CASE Tick
    BY <2>2, TimesAssumption DEF Tick, TypeOK
  <2>3. CASE Restart
    BY <2>3, SeededAssumption DEF Restart, TypeOK
  <2>4. CASE \E c \in Clients : Register(c)
    BY <2>4 DEF Register, TypeOK
  <2>5. ASSUME NEW t \in Tokens, NEW c \in Clients, NEW u \in Users, Authorize(t, c, u)
        PROVE  TypeOK'
    <3>1. [client |-> c, user |-> u, grant |-> t, expires |-> now + codeTTL] \in Stored
      BY TimesAssumption DEF TypeOK, Stored
    <3>2. [client |-> c, user |-> u] \in Parties
      BY DEF Parties
    <3>3. now \in Nat
      BY TimesAssumption DEF TypeOK
    <3> QED
      BY <2>1, <2>5, <3>1, <3>2, <3>3 DEF Authorize, SavesCode, TypeOK
  <2>6. ASSUME NEW w \in Workers, NEW t \in Tokens, NEW c \in Clients, TokenFromCode(w, t, c)
        PROVE  TypeOK'
    <3>1. Purged(codes)[t] # Nothing => codes[t] \in Stored
      BY PurgedForm DEF TypeOK
    <3>2. request' \in [Workers -> Held \cup {Nothing}]
      BY <2>6, <3>1, TakenType DEF TokenFromCode, TypeOK
    <3> QED
      BY <2>1, <2>6, <3>2 DEF TokenFromCode, RemovesCode, TypeOK
  <2>7. ASSUME NEW w \in Workers, NEW t \in Tokens, NEW c \in Clients, TokenFromRefresh(w, t, c)
        PROVE  TypeOK'
    <3>1. Purged(refresh)[t] # Nothing => refresh[t] \in Stored
      BY PurgedForm DEF TypeOK
    <3>2. request' \in [Workers -> Held \cup {Nothing}]
      BY <2>7, <3>1, TakenType DEF TokenFromRefresh, TypeOK
    <3> QED
      BY <2>1, <2>7, <3>2 DEF TokenFromRefresh, RemovesRefresh, TypeOK
  <2>8. ASSUME NEW w \in Workers, NEW t \in Tokens, IssueTokenResponse(w, t)
        PROVE  TypeOK'
    <3>1. now \in Nat /\ now + RefreshTTL \in Nat
      BY TimesAssumption DEF TypeOK
    <3>2. request[w] \in Held
      BY <2>8 DEF IssueTokenResponse, TypeOK
    <3>3. [client |-> request[w].client, user |-> request[w].user,
           grant |-> request[w].grant, expires |-> now + RefreshTTL] \in Stored
      BY <3>1, <3>2 DEF Held, Stored
    <3>4. request[w].grant \in Tokens
      BY <3>2 DEF Held
    <3>5. refresh' \in [Tokens -> Stored \cup {Nothing}]
      BY <2>8, <3>3 DEF IssueTokenResponse, SavesRefresh, TypeOK
    <3>6. request' \in [Workers -> Held \cup {Nothing}]
      BY <2>8 DEF IssueTokenResponse, Answers, TypeOK
    <3> QED
      BY <2>8, <3>1, <3>4, <3>5, <3>6 DEF IssueTokenResponse, TypeOK
  <2>9. CASE \E w \in Workers : IssueFails(w)
    BY <2>9 DEF IssueFails, TypeOK
  <2>10. CASE UNCHANGED vars
    BY <2>10 DEF vars, TypeOK
  <2> QED
    BY <2>2, <2>3, <2>4, <2>5, <2>6, <2>7, <2>8, <2>9, <2>10 DEF Next
<1> QED
  BY <1>1, <1>2, PTL DEF Spec

----------------------------------------------------------------------------
(* A step seen from the places a grant can be in.                          *)

\* A place keeps what it has or is emptied.
Fades(p) == At(p)' \in {Nothing, At(p)}

\* No grant begins and none is moved.
OnlyFades ==
    /\ \A p \in Places : Fades(p)
    /\ issued \subseteq issued'
    /\ UNCHANGED granted

\* What was in one place is in another, and what is elsewhere stays there or goes.
Moves(from, to) ==
    /\ At(from) # Nothing
    /\ At(from)' = Nothing
    /\ At(to)'.grant = At(from).grant
    /\ At(to)'.client = At(from).client
    /\ At(to)'.user = At(from).user
    /\ \A p \in Places \ {to} : Fades(p)
    /\ issued \subseteq issued'
    /\ UNCHANGED granted

\* A grant begins.
Begins(to, t, c, u) ==
    /\ t \notin issued
    /\ At(to)'.grant = t /\ At(to)'.client = c /\ At(to)'.user = u
    /\ \A p \in Places \ {to} : Fades(p)
    /\ issued' = issued \cup {t}
    /\ granted' = [granted EXCEPT ![t] = [client |-> c, user |-> u]]

\* A place is a code, a refresh token or a request.
LEMMA PlaceCases ==
    /\ \A t \in Tokens : <<"code", t>> \in Places /\ <<"refresh", t>> \in Places
    /\ \A w \in Workers : <<"request", w>> \in Places
    /\ \A p \in Places : \/ \E t \in Tokens : p = <<"code", t>> \/ p = <<"refresh", t>>
                         \/ \E w \in Workers : p = <<"request", w>>
  BY DEF Places

LEMMA AtForms ==
    /\ \A t \in Tokens : At(<<"code", t>>) = codes[t] /\ At(<<"refresh", t>>) = refresh[t]
    /\ \A w \in Workers : At(<<"request", w>>) = request[w]
    /\ \A t \in Tokens : At(<<"code", t>>)' = codes'[t] /\ At(<<"refresh", t>>)' = refresh'[t]
    /\ \A w \in Workers : At(<<"request", w>>)' = request'[w]
  BY DEF At

\* The places fade if the maps do.
LEMMA MapsFade ==
    ASSUME NEW except \in SUBSET Places,
           \A t \in Tokens : <<"code", t>> \in except \/ codes'[t] \in {Nothing, codes[t]},
           \A t \in Tokens : <<"refresh", t>> \in except \/ refresh'[t] \in {Nothing, refresh[t]},
           \A w \in Workers : <<"request", w>> \in except \/ request'[w] \in {Nothing, request[w]}
    PROVE  \A p \in Places \ except : Fades(p)
<1> SUFFICES ASSUME NEW p \in Places \ except PROVE At(p)' \in {Nothing, At(p)}
  BY DEF Fades
<1>1. CASE \E t \in Tokens : p = <<"code", t>>
  BY <1>1 DEF At
<1>2. CASE \E t \in Tokens : p = <<"refresh", t>>
  BY <1>2 DEF At
<1>3. CASE \E w \in Workers : p = <<"request", w>>
  BY <1>3 DEF At
<1> QED
  BY <1>1, <1>2, <1>3, PlaceCases

\* Every step is of one of these three kinds.
LEMMA StepForms ==
    ASSUME TypeOK, [Next]_vars
    PROVE  \/ OnlyFades
           \/ \E from, to \in Places : Moves(from, to)
           \/ \E to \in Places, t \in Tokens, c \in Clients, u \in Users : Begins(to, t, c, u)
<1>1. /\ \A t \in Tokens : Purged(codes)[t] \in {Nothing, codes[t]}
      /\ \A t \in Tokens : Purged(refresh)[t] \in {Nothing, refresh[t]}
  BY PurgedForm DEF TypeOK
<1>2. ASSUME issued \subseteq issued',
             UNCHANGED granted,
             \A t \in Tokens : codes'[t] \in {Nothing, codes[t]},
             \A t \in Tokens : refresh'[t] \in {Nothing, refresh[t]},
             \A w \in Workers : request'[w] \in {Nothing, request[w]}
      PROVE  OnlyFades
  BY <1>2, MapsFade DEF OnlyFades
<1>3. CASE Tick \/ (\E c \in Clients : Register(c)) \/ UNCHANGED vars
  BY <1>2, <1>3 DEF Tick, Register, vars
<1>4. CASE Restart
  BY <1>2, <1>4 DEF Restart
<1>5. CASE \E w \in Workers : IssueFails(w)
  BY <1>2, <1>5 DEF IssueFails, TypeOK
<1>6. ASSUME NEW t \in Tokens, NEW c \in Clients, NEW u \in Users, Authorize(t, c, u)
      PROVE  Begins(<<"code", t>>, t, c, u)
  <2> DEFINE to == <<"code", t>>
             new == [client |-> c, user |-> u, grant |-> t, expires |-> now + codeTTL]
  <2>1. /\ codes' = [Purged(codes) EXCEPT ![t] = new]
        /\ refresh' = Purged(refresh)
        /\ request' = request
    BY <1>6 DEF Authorize, SavesCode
  <2>2. codes'[t] = new
    BY <2>1, PurgedForm DEF TypeOK
  <2>3. \A s \in Tokens : s = t \/ codes'[s] \in {Nothing, codes[s]}
    BY <1>1, <2>1, PurgedForm DEF TypeOK
  <2>4. \A p \in Places \ {to} : Fades(p)
    <3>1. {to} \in SUBSET Places
      BY PlaceCases
    <3>2. \A s \in Tokens : <<"code", s>> \in {to} \/ codes'[s] \in {Nothing, codes[s]}
      BY <2>3
    <3>3. \A s \in Tokens : refresh'[s] \in {Nothing, refresh[s]}
      BY <1>1, <2>1
    <3>4. \A w \in Workers : request'[w] \in {Nothing, request[w]}
      BY <2>1
    <3> QED
      BY <3>1, <3>2, <3>3, <3>4, MapsFade
  <2>5. At(to)' = new
    BY <2>2, AtForms
  <2> QED
    BY <1>6, <2>4, <2>5 DEF Authorize, Begins
<1>7. ASSUME NEW w \in Workers, NEW t \in Tokens, NEW c \in Clients, TokenFromCode(w, t, c)
      PROVE  OnlyFades \/ Moves(<<"code", t>>, <<"request", w>>)
  <2> DEFINE from == <<"code", t>>
             to == <<"request", w>>
  <2>1. /\ codes' = [Purged(codes) EXCEPT ![t] = Nothing]
        /\ refresh' = Purged(refresh)
        /\ UNCHANGED <<issued, granted>>
    BY <1>7 DEF TokenFromCode, RemovesCode
  <2>2. codes'[t] = Nothing /\ \A s \in Tokens : codes'[s] \in {Nothing, codes[s]}
    BY <1>1, <2>1, PurgedForm DEF TypeOK
  <2>3. CASE UNCHANGED request
    BY <1>1, <1>2, <2>1, <2>2, <2>3
  <2>4. CASE /\ Purged(codes)[t] # Nothing
             /\ codes[t].client = c
             /\ request' = [request EXCEPT ![w] = Taken(codes[t], c)]
    <3>1. codes[t] # Nothing /\ codes[t].client = c
      BY <1>1, <2>4
    <3>2. request'[w] = Taken(codes[t], c) /\ \A v \in Workers : v = w \/ request'[v] = request[v]
      BY <2>4 DEF TypeOK
    <3>3. At(to)' = Taken(codes[t], c) /\ At(from) = codes[t] /\ At(from)' = Nothing
      BY <2>2, <3>2, AtForms
    <3>4. \A p \in Places \ {to} : Fades(p)
      BY <1>1, <2>1, <2>2, <3>2, MapsFade, PlaceCases, ZenonT(60)
    <3> QED
      BY <2>1, <3>1, <3>3, <3>4 DEF Moves, Taken
  <2> QED
    BY <1>7, <2>3, <2>4 DEF TokenFromCode
<1>8. ASSUME NEW w \in Workers, NEW t \in Tokens, NEW c \in Clients, TokenFromRefresh(w, t, c)
      PROVE  OnlyFades \/ Moves(<<"refresh", t>>, <<"request", w>>)
  <2> DEFINE from == <<"refresh", t>>
             to == <<"request", w>>
  <2>1. /\ refresh' = [Purged(refresh) EXCEPT ![t] = Nothing]
        /\ codes' = Purged(codes)
        /\ UNCHANGED <<issued, granted>>
    BY <1>8 DEF TokenFromRefresh, RemovesRefresh
  <2>2. refresh'[t] = Nothing /\ \A s \in Tokens : refresh'[s] \in {Nothing, refresh[s]}
    BY <1>1, <2>1, PurgedForm DEF TypeOK
  <2>3. CASE UNCHANGED request
    BY <1>1, <1>2, <2>1, <2>2, <2>3
  <2>4. CASE /\ Purged(refresh)[t] # Nothing
             /\ IsOf(refresh[t], c)
             /\ request' = [request EXCEPT ![w] = Taken(refresh[t], c)]
    <3>1. refresh[t] # Nothing /\ refresh[t].client = c
      BY <1>1, <2>4 DEF IsOf
    <3>2. request'[w] = Taken(refresh[t], c) /\ \A v \in Workers : v = w \/ request'[v] = request[v]
      BY <2>4 DEF TypeOK
    <3>3. At(to)' = Taken(refresh[t], c) /\ At(from) = refresh[t] /\ At(from)' = Nothing
      BY <2>2, <3>2, AtForms
    <3>4. \A p \in Places \ {to} : Fades(p)
      BY <1>1, <2>1, <2>2, <3>2, MapsFade, PlaceCases, ZenonT(60)
    <3> QED
      BY <2>1, <3>1, <3>3, <3>4 DEF Moves, Taken
  <2> QED
    BY <1>8, <2>3, <2>4 DEF TokenFromRefresh
<1>9. ASSUME NEW w \in Workers, NEW t \in Tokens, IssueTokenResponse(w, t)
      PROVE  Moves(<<"request", w>>, <<"refresh", t>>)
  <2> DEFINE from == <<"request", w>>
             to == <<"refresh", t>>
             new == [client |-> request[w].client, user |-> request[w].user,
                     grant |-> request[w].grant, expires |-> now + RefreshTTL]
  <2>1. /\ refresh' = [refresh EXCEPT ![t] = new]
        /\ request' = [request EXCEPT ![w] = Nothing]
        /\ UNCHANGED <<codes, granted>>
        /\ issued' = issued \cup {t}
        /\ request[w] # Nothing
    BY <1>9 DEF IssueTokenResponse, SavesRefresh, Answers
  <2>2. refresh'[t] = new /\ \A s \in Tokens : s = t \/ refresh'[s] = refresh[s]
    BY <2>1 DEF TypeOK
  <2>3. request'[w] = Nothing /\ \A v \in Workers : request'[v] \in {Nothing, request[v]}
    BY <2>1 DEF TypeOK
  <2>4. At(to)' = new /\ At(from) = request[w] /\ At(from)' = Nothing
    BY <2>2, <2>3, AtForms
  <2>5. \A p \in Places \ {to} : Fades(p)
    BY <2>1, <2>2, <2>3, MapsFade, PlaceCases, ZenonT(60)
  <2> QED
    BY <2>1, <2>4, <2>5 DEF Moves
<1> QED
  BY <1>3, <1>4, <1>5, <1>6, <1>7, <1>8, <1>9, PlaceCases DEF Next

----------------------------------------------------------------------------

\* Grants begin with tokens that have been issued.
GrantsIssued == \A p \in Places : At(p) # Nothing => At(p).grant \in issued

GrantInv == GrantsIssued /\ GrantInOnePlace /\ LineageKept

LEMMA GrantStart == Init => GrantInv
<1> SUFFICES ASSUME Init PROVE \A p \in Places : At(p) = Nothing
  BY DEF GrantInv, GrantsIssued, GrantInOnePlace, LineageKept
<1> QED
  BY PlaceCases, AtForms, ZenonT(60) DEF Init

LEMMA GrantKept == TypeOK /\ GrantInv /\ [Next]_vars => GrantInv'
<1> SUFFICES ASSUME TypeOK, GrantInv, [Next]_vars PROVE GrantInv'
  OBVIOUS
<1> USE DEF GrantInv
<1>1. Places' = Places
  BY DEF Places
<1>2. CASE OnlyFades
  BY <1>1, <1>2 DEF OnlyFades, Fades, GrantsIssued, GrantInOnePlace, LineageKept
<1>3. ASSUME NEW from \in Places, NEW to \in Places, Moves(from, to)
      PROVE  GrantInv'
  <2>1. ASSUME NEW p \in Places, At(p)' # Nothing
        PROVE  \E q \in Places : /\ At(q) # Nothing
                                 /\ At(p)'.grant = At(q).grant
                                 /\ At(p)'.client = At(q).client
                                 /\ At(p)'.user = At(q).user
                                 /\ p # to => q = p
                                 /\ p = to => q = from
    BY <1>3, <2>1 DEF Moves, Fades
  <2>2. GrantsIssued'
    BY <1>1, <1>3, <2>1 DEF GrantsIssued, Moves
  <2>3. GrantInOnePlace'
    BY <1>1, <1>3, <2>1 DEF GrantInOnePlace, Moves
  <2>4. LineageKept'
    BY <1>1, <1>3, <2>1 DEF LineageKept, Moves
  <2> QED
    BY <2>2, <2>3, <2>4
<1>4. ASSUME NEW to \in Places, NEW t \in Tokens, NEW c \in Clients, NEW u \in Users,
             Begins(to, t, c, u)
      PROVE  GrantInv'
  <2>1. ASSUME NEW p \in Places, At(p)' # Nothing, p # to
        PROVE  At(p)' = At(p) /\ At(p).grant \in issued /\ At(p).grant # t
    BY <1>4, <2>1 DEF Begins, Fades, GrantsIssued
  <2>2. /\ At(to)'.grant = t /\ At(to)'.client = c /\ At(to)'.user = u
        /\ issued' = issued \cup {t}
        /\ granted' = [granted EXCEPT ![t] = [client |-> c, user |-> u]]
    BY <1>4 DEF Begins
  <2>3. GrantsIssued'
    BY <1>1, <2>1, <2>2 DEF GrantsIssued
  <2>4. GrantInOnePlace'
    BY <1>1, <2>1, <2>2 DEF GrantInOnePlace
  <2>5. granted'[t] = [client |-> c, user |-> u] /\ \A g : g # t => granted'[g] = granted[g]
    BY <2>2 DEF TypeOK
  <2>6. LineageKept'
    BY <1>1, <2>1, <2>2, <2>5 DEF LineageKept
  <2> QED
    BY <2>3, <2>4, <2>6
<1> QED
  BY <1>2, <1>3, <1>4, StepForms

LEMMA GrantInvariant == Spec => []GrantInv
<1> QED
  BY TypeCorrect, GrantStart, GrantKept, PTL DEF Spec

\* However requests race and repeat themselves, each authorization code has one line of
\* refresh tokens, of which one is good at a time (oauth/memory.go takeCode, takeRefresh).
THEOREM GrantsCorrect == Spec => []GrantInOnePlace
<1>1. GrantInv => GrantInOnePlace
  BY DEF GrantInv
<1> QED
  BY <1>1, GrantInvariant, PTL

\* A token names, rotation after rotation, the client and the user that were authorized
\* (oauth/token.go tokenFromCode, tokenFromRefresh).
THEOREM LineageCorrect == Spec => []LineageKept
<1>1. GrantInv => LineageKept
  BY DEF GrantInv
<1> QED
  BY <1>1, GrantInvariant, PTL

----------------------------------------------------------------------------
(* What is stored says when its grant was last used.                       *)

\* A code is the grant it stands for, and neither a code nor a refresh token is good for
\* longer after the last use of its grant than its term.
DatedCode(map, use, t) ==
    map[t] # Nothing => /\ map[t].grant = t
                        /\ map[t].expires <= use[t] + codeTTL

DatedRefresh(map, use, t) ==
    map[t] # Nothing => map[t].expires <= use[map[t].grant] + RefreshTTL

DatesInv ==
    /\ \A g \in Tokens : lastUse[g] <= now
    /\ \A t \in Tokens : DatedCode(codes, lastUse, t) /\ DatedRefresh(refresh, lastUse, t)

LEMMA DatesStart == Init => DatesInv
  BY DEF Init, DatesInv, DatedCode, DatedRefresh

\* Uses come later and later, so that what stays in a map keeps its date.
LEMMA DatesStay ==
    ASSUME TypeOK, TypeOK', DatesInv,
           \A g \in Tokens : lastUse[g] <= lastUse'[g] /\ lastUse'[g] <= now',
           \A t \in Tokens : codes'[t] \in {Nothing, codes[t]} \/ DatedCode(codes', lastUse', t),
           \A t \in Tokens : refresh'[t] \in {Nothing, refresh[t]} \/ DatedRefresh(refresh', lastUse', t)
    PROVE  DatesInv'
<1>1. ASSUME NEW g \in Tokens PROVE lastUse[g] \in Nat /\ lastUse'[g] \in Nat /\ lastUse[g] <= lastUse'[g]
  BY <1>1 DEF TypeOK
<1>2. ASSUME NEW t \in Tokens PROVE DatedCode(codes', lastUse', t)
  <2>1. CASE codes'[t] # Nothing /\ codes'[t] = codes[t]
    <3>1. codes[t].expires \in Nat /\ codes[t].grant = t /\ codes[t].expires <= lastUse[t] + codeTTL
      BY <2>1 DEF DatesInv, DatedCode, TypeOK, Stored
    <3> QED
      BY <1>1, <2>1, <3>1, TimesAssumption DEF DatedCode
  <2>2. CASE codes'[t] = Nothing
    BY <2>2 DEF DatedCode
  <2> QED
    BY <2>1, <2>2
<1>3. ASSUME NEW t \in Tokens PROVE DatedRefresh(refresh', lastUse', t)
  <2>1. CASE refresh'[t] # Nothing /\ refresh'[t] = refresh[t]
    <3>1. /\ refresh[t].expires \in Nat /\ refresh[t].grant \in Tokens
          /\ refresh[t].expires <= lastUse[refresh[t].grant] + RefreshTTL
      BY <2>1 DEF DatesInv, DatedRefresh, TypeOK, Stored
    <3> QED
      BY <1>1, <2>1, <3>1, TimesAssumption DEF DatedRefresh
  <2>2. CASE refresh'[t] = Nothing
    BY <2>2 DEF DatedRefresh
  <2> QED
    BY <2>1, <2>2
<1> QED
  BY <1>2, <1>3 DEF DatesInv

LEMMA DatesKept == TypeOK /\ TypeOK' /\ DatesInv /\ [Next]_vars => DatesInv'
<1> SUFFICES ASSUME TypeOK, TypeOK', DatesInv, [Next]_vars PROVE DatesInv'
  OBVIOUS
<1>1. /\ \A t \in Tokens : Purged(codes)[t] \in {Nothing, codes[t]}
      /\ \A t \in Tokens : Purged(refresh)[t] \in {Nothing, refresh[t]}
  BY PurgedForm DEF TypeOK
<1>2. \A g \in Tokens : lastUse[g] \in Nat /\ lastUse[g] <= now /\ now \in Nat
  BY TimesAssumption DEF TypeOK, DatesInv
\* No grant is used, and nothing is stored.
<1>3. ASSUME UNCHANGED lastUse, now' >= now, now' \in Nat,
             \A t \in Tokens : codes'[t] \in {Nothing, codes[t]},
             \A t \in Tokens : refresh'[t] \in {Nothing, refresh[t]}
      PROVE  DatesInv'
  BY <1>2, <1>3, DatesStay
<1>4. CASE Tick
  <2>1. now' >= now /\ now' \in Nat
    BY <1>4, TimesAssumption DEF Tick, TypeOK
  <2> QED
    BY <1>3, <1>4, <2>1 DEF Tick
<1>5. CASE Restart
  <2>1. now' >= now /\ now' \in Nat
    BY <1>5, TimesAssumption DEF Restart, TypeOK
  <2> QED
    BY <1>3, <1>5, <2>1 DEF Restart
<1>6. CASE (\E c \in Clients : Register(c)) \/ (\E w \in Workers : IssueFails(w)) \/ UNCHANGED vars
  <2>1. UNCHANGED <<codes, refresh, lastUse, now>>
    BY <1>6 DEF Register, IssueFails, vars
  <2>2. now' >= now /\ now' \in Nat
    BY <2>1, TimesAssumption DEF TypeOK
  <2> QED
    BY <1>3, <2>1, <2>2
<1>7. ASSUME NEW t \in Tokens, NEW c \in Clients, NEW u \in Users, Authorize(t, c, u)
      PROVE  DatesInv'
  <2> DEFINE new == [client |-> c, user |-> u, grant |-> t, expires |-> now + codeTTL]
  <2>1. /\ codes' = [Purged(codes) EXCEPT ![t] = new]
        /\ refresh' = Purged(refresh)
        /\ lastUse' = [lastUse EXCEPT ![t] = now]
        /\ now' = now
    BY <1>7 DEF Authorize, SavesCode
  <2>2. codes'[t] = new /\ \A s \in Tokens : s = t \/ codes'[s] \in {Nothing, codes[s]}
    BY <1>1, <2>1, PurgedForm DEF TypeOK
  <2>3. lastUse'[t] = now /\ \A g \in Tokens : g = t \/ lastUse'[g] = lastUse[g]
    BY <2>1 DEF TypeOK
  <2>4. DatedCode(codes', lastUse', t)
    BY <1>2, <2>2, <2>3, TimesAssumption DEF DatedCode
  <2>5. \A g \in Tokens : lastUse[g] <= lastUse'[g] /\ lastUse'[g] <= now'
    BY <1>2, <2>1, <2>3
  <2>6. \A s \in Tokens : refresh'[s] \in {Nothing, refresh[s]}
    BY <1>1, <2>1
  <2> HIDE DEF new
  <2> QED
    BY <2>2, <2>4, <2>5, <2>6, DatesStay
<1>8. ASSUME NEW w \in Workers, NEW t \in Tokens, NEW c \in Clients,
             TokenFromCode(w, t, c) \/ TokenFromRefresh(w, t, c)
      PROVE  DatesInv'
  <2>1. /\ codes' \in {[Purged(codes) EXCEPT ![t] = Nothing], Purged(codes)}
        /\ refresh' \in {[Purged(refresh) EXCEPT ![t] = Nothing], Purged(refresh)}
        /\ UNCHANGED <<lastUse, now>>
    BY <1>8 DEF TokenFromCode, TokenFromRefresh, RemovesCode, RemovesRefresh
  <2>2. /\ \A s \in Tokens : codes'[s] \in {Nothing, codes[s]}
        /\ \A s \in Tokens : refresh'[s] \in {Nothing, refresh[s]}
    BY <1>1, <2>1, PurgedForm DEF TypeOK
  <2> QED
    BY <1>2, <1>3, <2>1, <2>2
<1>9. ASSUME NEW w \in Workers, NEW t \in Tokens, IssueTokenResponse(w, t)
      PROVE  DatesInv'
  <2> DEFINE g == request[w].grant
             new == [client |-> request[w].client, user |-> request[w].user,
                     grant |-> g, expires |-> now + RefreshTTL]
  <2>1. /\ refresh' = [refresh EXCEPT ![t] = new]
        /\ lastUse' = [lastUse EXCEPT ![g] = now]
        /\ UNCHANGED <<codes, now>>
    BY <1>9 DEF IssueTokenResponse, SavesRefresh
  <2>2. g \in Tokens
    BY <1>9 DEF IssueTokenResponse, TypeOK, Held
  <2>3. refresh'[t] = new /\ \A s \in Tokens : s = t \/ refresh'[s] = refresh[s]
    BY <2>1 DEF TypeOK
  <2>4. lastUse'[g] = now /\ \A h \in Tokens : h = g \/ lastUse'[h] = lastUse[h]
    BY <2>1, <2>2 DEF TypeOK
  <2>5. DatedRefresh(refresh', lastUse', t)
    BY <1>2, <2>2, <2>3, <2>4, TimesAssumption DEF DatedRefresh
  <2>6. \A h \in Tokens : lastUse[h] <= lastUse'[h] /\ lastUse'[h] <= now'
    BY <1>2, <2>1, <2>4
  <2>7. \A s \in Tokens : codes'[s] \in {Nothing, codes[s]}
    BY <2>1
  <2> HIDE DEF new
  <2> QED
    BY <2>3, <2>5, <2>6, <2>7, DatesStay
<1> QED
  BY <1>4, <1>5, <1>6, <1>7, <1>8, <1>9 DEF Next

\* What a request takes of a map has not expired, and dates from the last use of its grant.
\* While a code is there, its grant is nowhere else, so that no refresh token of it is taken.
LEMMA DeadStays ==
    ASSUME TypeOK, GrantInv, DatesInv, [Next]_vars,
           NEW w \in Workers, request[w] = Nothing, request'[w] # Nothing
    PROVE  LET g == request'[w].grant
           IN  now <= lastUse[g] + (IF codes[g] # Nothing THEN codeTTL ELSE RefreshTTL)
<1>1. PICK v \in Workers, t \in Tokens, c \in Clients :
          TokenFromCode(v, t, c) \/ TokenFromRefresh(v, t, c)
  <2>1. ASSUME NEW v \in Workers, NEW t \in Tokens, IssueTokenResponse(v, t)
        PROVE  FALSE
    BY <2>1 DEF IssueTokenResponse, Answers, TypeOK
  <2>2. ASSUME NEW v \in Workers, IssueFails(v)
        PROVE  FALSE
    BY <2>2 DEF IssueFails, TypeOK
  <2>3. ~UNCHANGED request /\ ~Tick /\ ~Restart
    BY DEF Tick, Restart
  <2>4. \A c \in Clients : ~Register(c)
    BY <2>3 DEF Register
  <2>5. \A t \in Tokens, c \in Clients, u \in Users : ~Authorize(t, c, u)
    BY <2>3 DEF Authorize
  <2> QED
    BY <2>1, <2>2, <2>3, <2>4, <2>5 DEF Next, vars
<1>2. now \in Nat /\ lastUse \in [Tokens -> Nat] /\ codeTTL \in Nat /\ RefreshTTL \in Nat
  BY TimesAssumption DEF TypeOK
<1>3. CASE TokenFromCode(v, t, c)
  <2>1. Purged(codes)[t] # Nothing /\ request' = [request EXCEPT ![v] = Taken(codes[t], c)]
    BY <1>3 DEF TokenFromCode
  <2>2. codes[t] # Nothing /\ now <= codes[t].expires /\ codes[t] \in Stored
    BY <1>2, <2>1 DEF Purged, TypeOK, Stored
  <2>3. request'[w].grant = codes[t].grant
    BY <2>1 DEF TypeOK, Taken
  <2>4. codes[t].grant = t /\ codes[t].expires <= lastUse[t] + codeTTL
    BY <2>2 DEF DatesInv, DatedCode
  <2> QED
    BY <1>2, <2>2, <2>3, <2>4 DEF Stored
<1>4. CASE TokenFromRefresh(v, t, c)
  <2>1. Purged(refresh)[t] # Nothing /\ request' = [request EXCEPT ![v] = Taken(refresh[t], c)]
    BY <1>4 DEF TokenFromRefresh
  <2>2. refresh[t] # Nothing /\ now <= refresh[t].expires /\ refresh[t] \in Stored
    BY <1>2, <2>1 DEF Purged, TypeOK, Stored
  <2> DEFINE g == refresh[t].grant
  <2>3. request'[w].grant = g /\ g \in Tokens
    BY <2>1, <2>2 DEF TypeOK, Taken, Stored
  <2>4. codes[g] = Nothing
    <3> SUFFICES ASSUME codes[g] # Nothing PROVE FALSE
      OBVIOUS
    <3>1. codes[g].grant = g
      BY <2>3 DEF DatesInv, DatedCode
    <3>2. /\ <<"code", g>> \in Places /\ At(<<"code", g>>) = codes[g]
          /\ <<"refresh", t>> \in Places /\ At(<<"refresh", t>>) = refresh[t]
      BY <2>3, PlaceCases, AtForms
    <3> QED
      BY <2>2, <3>1, <3>2 DEF GrantInv, GrantInOnePlace
  <2>5. refresh[t].expires <= lastUse[g] + RefreshTTL
    BY <2>2 DEF DatesInv, DatedRefresh
  <2> QED
    BY <1>2, <2>2, <2>3, <2>4, <2>5 DEF Stored
<1> QED
  BY <1>1, <1>3, <1>4

\* A grant that was not used for the term of its token is dead for good, for all terms and
\* however expiry, purges and restarts fall (oauth/memory.go purgeLocked, takeCode,
\* takeRefresh).
THEOREM IdleCorrect == Spec => IdleGrantDies
<1>1. DatesInv /\ TypeOK /\ TypeOK' /\ GrantInv /\ [Next]_vars
      => [\A w \in Workers : request[w] = Nothing /\ request'[w] # Nothing =>
             LET g == request'[w].grant
             IN  now <= lastUse[g] + (IF codes[g] # Nothing THEN codeTTL ELSE RefreshTTL)]_vars
  BY DeadStays
<1> QED
  BY <1>1, TypeCorrect, GrantInvariant, DatesStart, DatesKept, PTL DEF Spec, IdleGrantDies
=============================================================================
