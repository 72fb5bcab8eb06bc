---------------------------- MODULE OAuthTokens -----------------------------
(***************************************************************************)
(* Authorization codes and refresh tokens of the MCP OAuth server:         *)
(* internal/oauth/{memory,authorize,token,register}.go.                    *)
(*                                                                         *)
(* Clients, codes and refresh tokens live in maps under one mutex and are  *)
(* gone after a restart.  A token request takes its code or refresh token  *)
(* out of the map in one lock section and stores the next refresh token in *)
(* another; requests interleave between the two.  Any token ever issued    *)
(* may be presented, again or late, by any client: retries, lost answers   *)
(* and mixed-up clients.  The grant of a token is the code its line began  *)
(* with.                                                                   *)
(***************************************************************************)
EXTENDS Naturals

CONSTANTS
    Clients, Users, Tokens, Workers,
    seeded,                 \* the client every server knows (seedCursorClient)
    codeTTL, RefreshTTL,    \* in units of time
    MaxTime,                \* bound: the last moment
    Nothing

ASSUME SeededAssumption == seeded \in Clients
ASSUME TimesAssumption == {codeTTL, RefreshTTL, MaxTime} \subseteq Nat
ASSUME NothingAssumption == Nothing \notin Clients \cup Users \cup Tokens

VARIABLES
    clients,    \* registered clients
    codes,      \* token -> authCode, or Nothing
    refresh,    \* token -> refreshToken, or Nothing
    request,    \* goroutine -> the grant it took and has not answered yet
    now,
    issued,     \* tokens and client ids handed out so far; they are random and never repeat
    granted,    \* history: grant -> client and user that were authorized
    lastUse     \* history: grant -> when it was authorized or its last token issued

vars == <<clients, codes, refresh, request, now, issued, granted, lastUse>>

Parties == [client : Clients, user : Users]

Held == [client : Clients, user : Users, grant : Tokens]

Stored == [client : Clients, user : Users, grant : Tokens, expires : Nat]

TypeOK ==
    /\ clients \in SUBSET Clients
    /\ codes \in [Tokens -> Stored \cup {Nothing}]
    /\ refresh \in [Tokens -> Stored \cup {Nothing}]
    /\ request \in [Workers -> Held \cup {Nothing}]
    /\ now \in 0..MaxTime
    /\ issued \in SUBSET (Tokens \cup Clients)
    /\ granted \in [Tokens -> Parties \cup {Nothing}]
    /\ lastUse \in [Tokens -> Nat]

Init ==
    /\ clients = {seeded}
    /\ codes = [t \in Tokens |-> Nothing]
    /\ refresh = [t \in Tokens |-> Nothing]
    /\ request = [w \in Workers |-> Nothing]
    /\ now = 0
    /\ issued = {seeded}
    /\ granted = [t \in Tokens |-> Nothing]
    /\ lastUse = [t \in Tokens |-> 0]

----------------------------------------------------------------------------
\* purgeLocked.
Purged(map) ==
    [t \in Tokens |-> IF map[t] # Nothing /\ now > map[t].expires THEN Nothing ELSE map[t]]

\* getClient.
Known(c) == c \in clients

\* handleRegister, under a new id.
Register(c) ==
    /\ c \notin issued
    /\ clients' = clients \cup {c}
    /\ issued' = issued \cup {c}
    /\ UNCHANGED <<codes, refresh, request, now, granted, lastUse>>

\* Slip: a code lives as long as a refresh token.
SavesLongCode(t, c) ==
    /\ codes' = [Purged(codes) EXCEPT ![t] = [c EXCEPT !.expires = now + RefreshTTL]]
    /\ refresh' = Purged(refresh)

\* saveCode.
SavesCode(t, c) ==
    /\ codes' = [Purged(codes) EXCEPT ![t] = c]
    /\ refresh' = Purged(refresh)

\* handleAuthorizePost, once parameters and login are in order.
Authorize(t, c, u) ==
    /\ t \notin issued
    /\ Known(c)
    /\ SavesCode(t, [client |-> c, user |-> u, grant |-> t, expires |-> now + codeTTL])
    /\ issued' = issued \cup {t}
    /\ granted' = [granted EXCEPT ![t] = [client |-> c, user |-> u]]
    /\ lastUse' = [lastUse EXCEPT ![t] = now]
    /\ UNCHANGED <<clients, request, now>>

\* What a request holds of the token it took, under the client it names.
Taken(stored, c) == [client |-> c, user |-> stored.user, grant |-> stored.grant]

\* Slip: the code stays in the map.
ReadsCode(t) == codes' = Purged(codes) /\ refresh' = Purged(refresh)

\* takeCode and takeRefresh, on either map.
RemovesCode(t) == codes' = [Purged(codes) EXCEPT ![t] = Nothing] /\ refresh' = Purged(refresh)
RemovesRefresh(t) == refresh' = [Purged(refresh) EXCEPT ![t] = Nothing] /\ codes' = Purged(codes)

\* The term is looked at again once the purge is over.
Valid(stored) == now <= stored.expires

\* tokenFromCode for a client that is known and authenticates.  A code that was issued to
\* another client, or comes with a wrong redirect URI or verifier, or whose user cannot be
\* read, is gone all the same.
TokenFromCode(w, t, c) ==
    /\ request[w] = Nothing
    /\ t \in issued
    /\ Known(c)
    /\ RemovesCode(t)
    /\ \/ /\ Purged(codes)[t] # Nothing
          /\ Valid(codes[t])
          /\ codes[t].client = c
          /\ request' = [request EXCEPT ![w] = Taken(codes[t], c)]
       \/ UNCHANGED request
    /\ UNCHANGED <<clients, now, issued, granted, lastUse>>

\* Slip: the client of the request is not compared with that of the token.
IsAnyones(stored, c) == TRUE

IsOf(stored, c) == stored.client = c

\* tokenFromRefresh; the token is taken before the client is looked at, so that it is gone
\* if the client is another, unknown or fails to authenticate, or its user cannot be read.
TokenFromRefresh(w, t, c) ==
    /\ request[w] = Nothing
    /\ t \in issued
    /\ RemovesRefresh(t)
    /\ \/ /\ Purged(refresh)[t] # Nothing
          /\ Valid(refresh[t])
          /\ IsOf(refresh[t], c)
          /\ Known(c)
          /\ request' = [request EXCEPT ![w] = Taken(refresh[t], c)]
       \/ UNCHANGED request
    /\ UNCHANGED <<clients, now, issued, granted, lastUse>>

\* Slip: the goroutine answers twice.
IssuesAgain(w) == UNCHANGED request

Answers(w) == request' = [request EXCEPT ![w] = Nothing]

\* saveRefresh, which does not purge.
SavesRefresh(t, r) == refresh' = [refresh EXCEPT ![t] = r]

\* issueTokenResponse: a new refresh token, valid from now.
IssueTokenResponse(w, t) ==
    /\ request[w] # Nothing
    /\ t \notin issued
    /\ SavesRefresh(t, [client |-> request[w].client, user |-> request[w].user,
                        grant |-> request[w].grant, expires |-> now + RefreshTTL])
    /\ issued' = issued \cup {t}
    /\ lastUse' = [lastUse EXCEPT ![request[w].grant] = now]
    /\ Answers(w)
    /\ UNCHANGED <<clients, codes, now, granted>>

\* No token can be signed or generated.
IssueFails(w) ==
    /\ request[w] # Nothing
    /\ request' = [request EXCEPT ![w] = Nothing]
    /\ UNCHANGED <<clients, codes, refresh, now, issued, granted, lastUse>>

Tick ==
    /\ now < MaxTime
    /\ now' = now + 1
    /\ UNCHANGED <<clients, codes, refresh, request, issued, granted, lastUse>>

\* The maps are in memory only; old tokens and client ids are still out there.
Restart ==
    /\ clients' = {seeded}
    /\ codes' = [t \in Tokens |-> Nothing]
    /\ refresh' = [t \in Tokens |-> Nothing]
    /\ request' = [w \in Workers |-> Nothing]
    /\ UNCHANGED <<now, issued, granted, lastUse>>

Next ==
    \/ Tick
    \/ Restart
    \/ \E c \in Clients : Register(c)
    \/ \E t \in Tokens, c \in Clients, u \in Users : Authorize(t, c, u)
    \/ \E w \in Workers, t \in Tokens, c \in Clients :
           TokenFromCode(w, t, c) \/ TokenFromRefresh(w, t, c)
    \/ \E w \in Workers, t \in Tokens : IssueTokenResponse(w, t)
    \/ \E w \in Workers : IssueFails(w)

Spec == Init /\ [][Next]_vars

----------------------------------------------------------------------------
(* Properties.                                                             *)

\* Where a grant can be: a code, a refresh token, or a request that took one of them.
Places == ({"code", "refresh"} \X Tokens) \cup ({"request"} \X Workers)

At(p) == IF p[1] = "code" THEN codes[p[2]]
         ELSE IF p[1] = "refresh" THEN refresh[p[2]] ELSE request[p[2]]

\* However requests race and repeat themselves, a code is good for one line of refresh
\* tokens and each refresh token for one successor (memory.go:24, 135): at any time a grant
\* is in one place.
GrantInOnePlace ==
    \A p, q \in Places : At(p) # Nothing /\ At(q) # Nothing /\ At(p).grant = At(q).grant => p = q

\* Down the whole line of refresh tokens, client and user stay those that were authorized.
LineageKept ==
    \A p \in Places : At(p) # Nothing =>
        granted[At(p).grant] = [client |-> At(p).client, user |-> At(p).user]

\* A grant nobody has used for as long as its token is valid is dead for good: no request
\* takes it, whatever purges came between.
IdleGrantDies ==
    [][\A w \in Workers : request[w] = Nothing /\ request'[w] # Nothing =>
           LET g == request'[w].grant
           IN  now <= lastUse[g] + (IF codes[g] # Nothing THEN codeTTL ELSE RefreshTTL)]_vars
=============================================================================
