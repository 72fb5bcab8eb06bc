-------------------------- MODULE FlowStoreProofs ---------------------------
(***************************************************************************)
(* Proofs about FlowStore, for every set of definitions and goroutines and *)
(* every history limit.  The types and the form of a publication form one  *)
(* inductive invariant, since an update is computed from a copy read       *)
(* earlier: the copies in flight must be as well formed as the document.   *)
(* From it follow what holds while updates do not overlap: the numbers     *)
(* ascend, a new publication gets a new one, and no publication is lost.   *)
(***************************************************************************)
EXTENDS FlowStore, FiniteSetTheorems, TLAPS

USE NoDslAssumption, MaxHistoryAssumption, NoCallAssumption, MaxVersionAssumption

\* A document, stored or copied, that is online exactly under a number, with a
\* history within the limit and nothing unnumbered in it.
WellFormed(r) ==
    /\ r \in FlowRecords
    /\ r.live # NoDsl <=> r.version \notin {0, Unset}
    /\ Len(r.past) <= MaxHistory
    /\ \A i \in DOMAIN r.past : r.past[i].version # 0

\* The inductive invariant: what a goroutine holds was accepted when it was read.
StoreInv ==
    /\ TypeOK
    /\ WellFormed(flow)
    /\ \A w \in Workers : call[w] # NoCall =>
           /\ WellFormed(call[w].seen)
           /\ Accepts(call[w].request, call[w].seen)

----------------------------------------------------------------------------
(* The operators.                                                          *)

\* hist[len(hist)-maxPublishHistory:] is a suffix within the limit.
LEMMA NewestSuffix ==
    ASSUME NEW s \in Seq(Entries)
    PROVE  /\ Newest(s) \in Seq(Entries)
           /\ Len(Newest(s)) <= MaxHistory
           /\ Len(Newest(s)) <= Len(s)
           /\ \A i \in DOMAIN Newest(s) :
                  LET k == i + (Len(s) - Len(Newest(s)))
                  IN  k \in DOMAIN s /\ Newest(s)[i] = s[k]
  <1>1. CASE Len(s) > MaxHistory
    <2>1. Newest(s) = SubSeq(s, Len(s) - MaxHistory + 1, Len(s))
      BY <1>1 DEF Newest
    <2>2. /\ SubSeq(s, Len(s) - MaxHistory + 1, Len(s)) \in Seq(Entries)
          /\ Len(SubSeq(s, Len(s) - MaxHistory + 1, Len(s))) = MaxHistory
          /\ \A i \in 1..MaxHistory :
                 SubSeq(s, Len(s) - MaxHistory + 1, Len(s))[i] = s[Len(s) - MaxHistory + i]
      BY <1>1
    <2>3. \A i \in 1..MaxHistory : i + (Len(s) - MaxHistory) \in DOMAIN s
      BY <1>1
    <2> DEFINE t == SubSeq(s, Len(s) - MaxHistory + 1, Len(s))
    <2>4. DOMAIN t = 1..MaxHistory
      BY <2>2
    <2>5. \A i \in DOMAIN t : i + (Len(s) - Len(t)) \in DOMAIN s /\ t[i] = s[i + (Len(s) - Len(t))]
      BY <2>2, <2>3, <2>4
    <2> HIDE DEF t
    <2> QED BY <1>1, <2>1, <2>2, <2>5 DEF t
  <1>2. CASE ~(Len(s) > MaxHistory)
    <2>1. Newest(s) = s
      BY <1>2 DEF Newest
    <2> QED BY <1>2, <2>1
  <1> QED BY <1>1, <1>2

\* A live publication joins the history as its last entry.
LEMMA ArchivedForm ==
    ASSUME NEW r, WellFormed(r), r.live # NoDsl
    PROVE  /\ Archived(r) \in Seq(Entries)
           /\ Len(Archived(r)) <= MaxHistory
           /\ \A i \in DOMAIN Archived(r) : Archived(r)[i].version # 0
  <1> DEFINE e == [version |-> Version(r), dsl |-> r.live]
             s == Append(r.past, e)
  <1>1. e \in Entries /\ e.version # 0
    BY DEF WellFormed, FlowRecords, Entries, Version, Unset
  <1>2. r.past \in Seq(Entries)
    BY DEF WellFormed, FlowRecords
  <1>3. s \in Seq(Entries)
    BY <1>1, <1>2
  <1>4. \A i \in DOMAIN s : s[i].version # 0
    BY <1>1, <1>2 DEF WellFormed
  <1>5. Archived(r) = Newest(s)
    BY DEF Archived
  <1> HIDE DEF s, e
  <1> QED BY <1>3, <1>4, <1>5, NewestSuffix

\* An enumeration of some positions of a history is no longer than the history.
LEMMA InOrderForm ==
    ASSUME NEW s \in Seq(Entries), NEW I \in SUBSET DOMAIN s, NEW f \in InOrder(I)
    PROVE  /\ [k \in DOMAIN f |-> s[f[k]]] \in Seq(Entries)
           /\ Len([k \in DOMAIN f |-> s[f[k]]]) <= Len(s)
           /\ DOMAIN f = DOMAIN [k \in DOMAIN f |-> s[f[k]]]
           /\ \A k \in DOMAIN f : f[k] \in I
  <1>1. IsFiniteSet(DOMAIN s) /\ Cardinality(DOMAIN s) = Len(s)
    <2>1. DOMAIN s = 1..Len(s) /\ Len(s) \in Nat
      OBVIOUS
    <2>2. /\ IsFiniteSet(1..Len(s))
          /\ Cardinality(1..Len(s)) = IF 1 > Len(s) THEN 0 ELSE Len(s) - 1 + 1
      BY <2>1, FS_Interval
    <2> QED BY <2>1, <2>2
  <1>2. IsFiniteSet(I) /\ Cardinality(I) <= Len(s)
    BY <1>1, FS_Subset
  <1>3. Cardinality(I) \in Nat
    BY <1>2, FS_CardinalityType
  <1>4. f \in [1..Cardinality(I) -> I]
    BY DEF InOrder
  <1>5. DOMAIN f = 1..Cardinality(I) /\ \A k \in DOMAIN f : f[k] \in I
    BY <1>4
  <1>6. [k \in DOMAIN f |-> s[f[k]]] \in [1..Cardinality(I) -> Entries]
    BY <1>5
  <1> QED BY <1>2, <1>3, <1>5, <1>6

----------------------------------------------------------------------------
(* Every operation turns a well-formed document, by way of a well-formed   *)
(* copy it accepted, into a well-formed document.                          *)

\* An update of the whole publication.
LEMMA WrittenForm ==
    ASSUME NEW now, WellFormed(now),
           NEW d \in Dsls, NEW n \in Nat \ {0},
           NEW past \in Seq(Entries), Len(past) <= MaxHistory,
           \A i \in DOMAIN past : past[i].version # 0
    PROVE  WellFormed([now EXCEPT !.live = d, !.version = n, !.past = past])
  <1> DEFINE r == [now EXCEPT !.live = d, !.version = n, !.past = past]
  <1>1. now \in FlowRecords
    BY DEF WellFormed
  <1>2. r.live = d /\ r.version = n /\ r.past = past
    BY <1>1 DEF FlowRecords
  <1>3. r \in FlowRecords
    BY <1>1 DEF FlowRecords
  <1>4. d # NoDsl /\ n \notin {0, Unset}
    BY DEF Unset
  <1> HIDE DEF r
  <1>5. WellFormed(r)
    BY <1>2, <1>3, <1>4 DEF WellFormed
  <1> QED BY <1>5 DEF r

LEMMA PublishedForm ==
    ASSUME NEW now, NEW seen, WellFormed(now), WellFormed(seen)
    PROVE  WellFormed(Published(now, seen)) /\ WellFormed(Migrated(now, seen))
  <1> DEFINE past == IF seen.live = NoDsl THEN seen.past ELSE Archived(seen)
  <1>1. /\ past \in Seq(Entries)
        /\ Len(past) <= MaxHistory
        /\ \A i \in DOMAIN past : past[i].version # 0
    BY ArchivedForm DEF WellFormed, FlowRecords
  <1>2. Published(now, seen) = [now EXCEPT !.live = seen.draft, !.version = Version(seen) + 1,
                                           !.past = past]
    BY DEF Published
  <1>3. Version(seen) + 1 \in Nat \ {0}
    BY DEF WellFormed, FlowRecords, Version, Unset
  <1> HIDE DEF past
  <1>4. WellFormed(Published(now, seen))
    <2>1. seen.draft \in Dsls
      BY DEF WellFormed, FlowRecords
    <2>2. WellFormed([now EXCEPT !.live = seen.draft, !.version = Version(seen) + 1,
                                 !.past = past])
      BY <1>1, <1>3, <2>1, WrittenForm
    <2> QED BY <1>2, <2>2
  <1>5. WellFormed(Migrated(now, seen))
    <2>1. seen.draft \in Dsls
      BY DEF WellFormed, FlowRecords
    <2>2. /\ 1 \in Nat \ {0}
          /\ <<>> \in Seq(Entries)
          /\ Len(<<>>) <= MaxHistory
          /\ \A i \in DOMAIN <<>> : <<>>[i].version # 0
      OBVIOUS
    <2>3. WellFormed([now EXCEPT !.live = seen.draft, !.version = 1, !.past = <<>>])
      BY <2>1, <2>2, WrittenForm
    <2> QED BY <2>3 DEF Migrated
  <1> QED BY <1>4, <1>5

LEMMA UnpublishedForm ==
    ASSUME NEW now, NEW seen, WellFormed(now), WellFormed(seen), CanUnpublish(seen)
    PROVE  WellFormed(Unpublished(now, seen))
  <1>1. /\ Archived(seen) \in Seq(Entries)
        /\ Len(Archived(seen)) <= MaxHistory
        /\ \A i \in DOMAIN Archived(seen) : Archived(seen)[i].version # 0
    BY ArchivedForm DEF CanUnpublish
  <1> QED BY <1>1 DEF Unpublished, WellFormed, FlowRecords, Unset

LEMMA OnlineForm ==
    ASSUME NEW now, NEW seen, WellFormed(now), WellFormed(seen), CanGoOnline(seen)
    PROVE  WellFormed(Online(now, seen))
  <1> DEFINE last == seen.past[Len(seen.past)]
             rest == SubSeq(seen.past, 1, Len(seen.past) - 1)
  <1>1. seen.past \in Seq(Entries) /\ seen.past # <<>>
    BY DEF WellFormed, FlowRecords, CanGoOnline
  <1>2. last \in Entries /\ last.version # 0
    BY <1>1 DEF WellFormed
  <1>3. rest \in Seq(Entries) /\ Len(rest) = Len(seen.past) - 1
    BY <1>1
  <1>4. \A i \in DOMAIN rest : i \in DOMAIN seen.past /\ rest[i] = seen.past[i]
    BY <1>1, <1>3
  <1>5. Online(now, seen) = [now EXCEPT !.live = last.dsl, !.version = last.version,
                                        !.past = rest]
    BY DEF Online
  <1> HIDE DEF last, rest
  <1>6. last.version \in Nat \ {0} /\ last.dsl \in Dsls
    BY <1>2 DEF Entries
  <1>7. Len(seen.past) <= MaxHistory /\ \A i \in DOMAIN seen.past : seen.past[i].version # 0
    BY DEF WellFormed
  <1>8. Len(rest) <= MaxHistory /\ \A i \in DOMAIN rest : rest[i].version # 0
    BY <1>1, <1>3, <1>4, <1>7
  <1>9. WellFormed([now EXCEPT !.live = last.dsl, !.version = last.version, !.past = rest])
    BY <1>3, <1>6, <1>8, WrittenForm
  <1> QED BY <1>5, <1>9

LEMMA RolledBackForm ==
    ASSUME NEW now, NEW seen, WellFormed(now), WellFormed(seen),
           NEW v, NEW e \in Oldest(seen, v)
    PROVE  WellFormed(RolledBack(now, seen, e))
  <1> DEFINE past == IF seen.live = NoDsl \/ Version(seen) = 0 THEN seen.past
                     ELSE Archived(seen)
  <1>1. /\ past \in Seq(Entries)
        /\ Len(past) <= MaxHistory
        /\ \A i \in DOMAIN past : past[i].version # 0
    BY ArchivedForm DEF WellFormed, FlowRecords
  <1>2. e \in Entries
    BY DEF Oldest, Holding, WellFormed, FlowRecords
  <1>3. RolledBack(now, seen, e) = [now EXCEPT !.live = e.dsl, !.version = Version(seen) + 1,
                                               !.past = past]
    BY DEF RolledBack
  <1>4. Version(seen) + 1 \in Nat \ {0}
    BY DEF WellFormed, FlowRecords, Version, Unset
  <1> HIDE DEF past
  <1>5. e.dsl \in Dsls
    BY <1>2 DEF Entries
  <1>6. WellFormed([now EXCEPT !.live = e.dsl, !.version = Version(seen) + 1, !.past = past])
    BY <1>1, <1>4, <1>5, WrittenForm
  <1> QED BY <1>3, <1>6

LEMMA DeletedForm ==
    ASSUME NEW now, NEW seen, WellFormed(now), WellFormed(seen),
           NEW v, NEW r \in VersionDeleted(now, seen, v)
    PROVE  WellFormed(r)
  <1> DEFINE I == DOMAIN seen.past \ Holding(seen, v)
  <1>1. PICK f \in InOrder(I) : r = [now EXCEPT !.past = [k \in DOMAIN f |-> seen.past[f[k]]]]
    BY DEF VersionDeleted
  <1> DEFINE past == [k \in DOMAIN f |-> seen.past[f[k]]]
  <1>2. seen.past \in Seq(Entries) /\ I \in SUBSET DOMAIN seen.past
    BY DEF WellFormed, FlowRecords
  <1> HIDE DEF I
  <1>3. /\ past \in Seq(Entries)
        /\ Len(past) <= Len(seen.past)
        /\ \A k \in DOMAIN past : k \in DOMAIN f /\ f[k] \in DOMAIN seen.past
    BY <1>2, InOrderForm
  <1>4. \A k \in DOMAIN past : past[k].version # 0
    BY <1>3 DEF WellFormed
  <1>5. r = [now EXCEPT !.past = past]
    BY <1>1
  <1> HIDE DEF past
  <1>6. Len(past) <= MaxHistory
    BY <1>2, <1>3 DEF WellFormed
  <1> QED BY <1>3, <1>4, <1>5, <1>6 DEF WellFormed, FlowRecords

LEMMA AsideForm ==
    ASSUME NEW now, WellFormed(now)
    PROVE  /\ \A d \in Dsls : WellFormed(Saved(now, d))
           /\ \A l \in {"locked", "unlocked"} : WellFormed([now EXCEPT !.lock = l])
           /\ \A seen : WellFormed(seen) /\ CanDiscard(seen) => WellFormed(Discarded(now, seen))
  <1>1. \A d \in Dsls : WellFormed(Saved(now, d))
    BY DEF Saved, WellFormed, FlowRecords
  <1>2. \A l \in {"locked", "unlocked"} : WellFormed([now EXCEPT !.lock = l])
    BY DEF WellFormed, FlowRecords
  <1>3. \A seen : WellFormed(seen) /\ CanDiscard(seen) => WellFormed(Discarded(now, seen))
    BY DEF Discarded, CanDiscard, WellFormed, FlowRecords
  <1> QED BY <1>1, <1>2, <1>3

----------------------------------------------------------------------------
(* The inductive invariant.                                                *)

LEMMA StoreStart == Init => StoreInv
  <1> SUFFICES ASSUME Init PROVE StoreInv
    OBVIOUS
  <1>1. \A d \in Dsls : WellFormed(Inserted(d)) /\ WellFormed(Legacy(d))
    <2> TAKE d \in Dsls
    <2>1. <<>> \in Seq(Entries) /\ Len(<<>>) = 0 /\ DOMAIN <<>> = {}
      OBVIOUS
    <2>2. Inserted(d) \in FlowRecords /\ Legacy(d) \in FlowRecords
      BY <2>1 DEF Inserted, Legacy, FlowRecords, Unset
    <2>3. WellFormed(Inserted(d))
      BY <2>1, <2>2 DEF Inserted, WellFormed, Unset
    <2>4. WellFormed(Legacy(d))
      BY <2>1, <2>2 DEF Inserted, Legacy, WellFormed, Unset
    <2> QED BY <2>3, <2>4
  <1>2. WellFormed(flow)
    BY <1>1 DEF Init
  <1>3. TypeOK
    BY <1>2 DEF Init, TypeOK, WellFormed
  <1> QED BY <1>2, <1>3 DEF Init, StoreInv

\* A step that ends a call and leaves a well-formed document keeps the invariant.
LEMMA EndOfCall ==
    ASSUME StoreInv, NEW w \in Workers, WellFormed(flow'),
           call' = [call EXCEPT ![w] = NoCall],
           writes' \in {"fresh", "renumbered", "stale"}
    PROVE  StoreInv'
  <1>1. TypeOK'
    BY DEF StoreInv, TypeOK, WellFormed
  <1>2. ASSUME NEW v \in Workers, call'[v] # NoCall
        PROVE  v # w /\ call'[v] = call[v]
    BY <1>2 DEF StoreInv, TypeOK
  <1>3. \A v \in Workers : call'[v] # NoCall =>
            WellFormed(call'[v].seen) /\ Accepts(call'[v].request, call'[v].seen)
    BY <1>2 DEF StoreInv
  <1> QED BY <1>1, <1>3 DEF StoreInv, WellFormed, Accepts, NeedsMigration, Unlocked,
             CanDiscard, CanUnpublish, CanGoOnline, CanRollback, CanDeleteVersion

\* What a goroutine about to write holds.
LEMMA HeldForm ==
    ASSUME StoreInv, NEW w \in Workers, NEW op, Writing(w, op)
    PROVE  /\ WellFormed(call[w].seen)
           /\ call[w].request \in Requests /\ call[w].request.op = op
           /\ Accepts(call[w].request, call[w].seen)
  BY DEF StoreInv, TypeOK, Writing, Calls

LEMMA WrittenStep ==
    ASSUME StoreInv, NEW w \in Workers, NEW r, WellFormed(r),
           WriteAside(w, r) \/ WritePublication(w, r)
    PROVE  StoreInv'
  <1>1. writes' \in {"fresh", "renumbered", "stale"}
    BY DEF StoreInv, TypeOK, WriteAside, WritePublication
  <1>2. flow' = r /\ call' = [call EXCEPT ![w] = NoCall]
    BY DEF WriteAside, WritePublication, Write
  <1>3. WellFormed(flow')
    BY <1>2
  <1> QED BY <1>1, <1>2, <1>3, EndOfCall

LEMMA StoreKept == StoreInv /\ [Next]_vars => StoreInv'
  <1> SUFFICES ASSUME StoreInv, [Next]_vars PROVE StoreInv'
    OBVIOUS
  <1>0. WellFormed(flow)
    BY DEF StoreInv
  <1>1. CASE SetFlowLocked
    <2>0. PICK l \in {"locked", "unlocked"} : flow' = [flow EXCEPT !.lock = l]
      BY <1>1 DEF SetFlowLocked
    <2>1. WellFormed(flow') /\ call' = call /\ writes' = writes
      <3>1. WellFormed([flow EXCEPT !.lock = l])
        BY <1>0, AsideForm
      <3> QED BY <1>1, <2>0, <3>1 DEF SetFlowLocked
    <2>2. flow' \in FlowRecords
      BY <2>1 DEF WellFormed
    <2> QED BY <2>1, <2>2 DEF StoreInv, TypeOK, WellFormed
  <1>2. ASSUME NEW w \in Workers, Read(w) PROVE StoreInv'
    <2>1. PICK r \in Requests :
              Accepts(r, flow) /\ call' = [call EXCEPT ![w] = [request |-> r, seen |-> flow]]
      BY <1>2 DEF Read
    <2>2. flow' = flow /\ writes' = writes
      BY <1>2 DEF Read
    <2>3. [request |-> r, seen |-> flow] \in Calls
      BY <1>0 DEF Calls, WellFormed
    <2>4. TypeOK'
      BY <2>1, <2>2, <2>3 DEF StoreInv, TypeOK
    <2>5. ASSUME NEW v \in Workers, call'[v] # NoCall
          PROVE  WellFormed(call'[v].seen) /\ Accepts(call'[v].request, call'[v].seen)
      <3>1. CASE v = w
        BY <1>0, <2>1, <3>1 DEF StoreInv, TypeOK
      <3>2. CASE v # w
        BY <2>1, <2>5, <3>2 DEF StoreInv, TypeOK
      <3> QED BY <3>1, <3>2
    <2> QED BY <1>0, <2>2, <2>4, <2>5 DEF StoreInv, WellFormed, Accepts, NeedsMigration,
               Unlocked, CanDiscard, CanUnpublish, CanGoOnline, CanRollback, CanDeleteVersion
  <1>3. ASSUME NEW w \in Workers, GetFlow(w) PROVE StoreInv'
    BY <1>0, <1>3, HeldForm, PublishedForm, WrittenStep DEF GetFlow
  <1>4. ASSUME NEW w \in Workers, SaveFlow(w) PROVE StoreInv'
    BY <1>0, <1>4, AsideForm, WrittenStep DEF SaveFlow
  <1>5. ASSUME NEW w \in Workers, DiscardDraft(w) PROVE StoreInv'
    <2>1. Writing(w, "discard") /\ WriteAside(w, Discarded(flow, call[w].seen))
      BY <1>5 DEF DiscardDraft
    <2>2. WellFormed(call[w].seen) /\ CanDiscard(call[w].seen)
      BY <2>1, HeldForm DEF Accepts
    <2>3. WellFormed(Discarded(flow, call[w].seen))
      BY <1>0, <2>2, AsideForm
    <2> QED BY <2>1, <2>3, WrittenStep
  <1>6. ASSUME NEW w \in Workers, PublishFlow(w) PROVE StoreInv'
    BY <1>0, <1>6, HeldForm, PublishedForm, WrittenStep DEF PublishFlow
  <1>7. ASSUME NEW w \in Workers, UnpublishFlow(w) PROVE StoreInv'
    BY <1>0, <1>7, HeldForm, UnpublishedForm, WrittenStep DEF UnpublishFlow, Accepts
  <1>8. ASSUME NEW w \in Workers, GoOnlineFromLatest(w) PROVE StoreInv'
    BY <1>0, <1>8, HeldForm, OnlineForm, WrittenStep DEF GoOnlineFromLatest, Accepts
  <1>9. ASSUME NEW w \in Workers, RollbackPublish(w) PROVE StoreInv'
    BY <1>0, <1>9, HeldForm, RolledBackForm, WrittenStep DEF RollbackPublish
  <1>10. ASSUME NEW w \in Workers, DeletePublishHistory(w) PROVE StoreInv'
    BY <1>0, <1>10, HeldForm, DeletedForm, WrittenStep DEF DeletePublishHistory
  <1>11. ASSUME NEW w \in Workers, Crash(w) PROVE StoreInv'
    <2>1. flow' = flow /\ writes' = writes /\ call' = [call EXCEPT ![w] = NoCall]
      BY <1>11 DEF Crash
    <2>2. WellFormed(flow') /\ writes' \in {"fresh", "renumbered", "stale"}
      BY <1>0, <2>1 DEF StoreInv, TypeOK
    <2> QED BY <2>1, <2>2, EndOfCall
  <1>12. CASE UNCHANGED vars
    BY <1>12 DEF vars, StoreInv, TypeOK, WellFormed, Accepts, NeedsMigration, Unlocked,
       CanDiscard, CanUnpublish, CanGoOnline, CanRollback, CanDeleteVersion
  <1> QED BY <1>1, <1>2, <1>3, <1>4, <1>5, <1>6, <1>7, <1>8, <1>9, <1>10, <1>11, <1>12
          DEF Next

\* The inductive invariant holds.
THEOREM StoreInvariant == Spec => []StoreInv
  BY StoreStart, StoreKept, PTL DEF Spec

\* Documents, and the copies goroutines hold of them, have their types.
THEOREM StoreTypeCorrect == Spec => []TypeOK
  <1>1. StoreInv => TypeOK
    BY DEF StoreInv
  <1> QED BY <1>1, StoreInvariant, PTL

\* A flow is online exactly under a number and its history stays within the limit,
\* however operations, migrations and crashes interleave.
THEOREM PublicationCorrect == Spec => []PublicationWellFormed
  <1>1. StoreInv => PublicationWellFormed
    BY DEF StoreInv, WellFormed, PublicationWellFormed
  <1> QED BY <1>1, StoreInvariant, PTL

----------------------------------------------------------------------------
(* Version numbers ascend while updates of the publication do not overlap. *)

Rising(past) ==
    \A i, j \in DOMAIN past : i < j => past[i].version < past[j].version

\* NumbersAscend, of any document.
Ascends(r) ==
    /\ Rising(r.past)
    /\ r.live # NoDsl => \A i \in DOMAIN r.past : r.past[i].version < r.version

\* The live publication has the highest number, so the history rises to it.
LEMMA ArchivedRises ==
    ASSUME NEW r, WellFormed(r), Ascends(r), r.live # NoDsl
    PROVE  /\ Rising(Archived(r))
           /\ \A i \in DOMAIN Archived(r) : Archived(r)[i].version < Version(r) + 1
  <1> DEFINE e == [version |-> Version(r), dsl |-> r.live]
             s == Append(r.past, e)
             t == Newest(s)
  <1>1. /\ r.past \in Seq(Entries)
        /\ e \in Entries
        /\ Version(r) = r.version
        /\ r.version \in Nat
    BY DEF WellFormed, FlowRecords, Entries, Version, Unset
  <1>2. s \in Seq(Entries) /\ Len(s) = Len(r.past) + 1
    BY <1>1
  <1>3. \A i \in DOMAIN s : (i \in DOMAIN r.past /\ s[i] = r.past[i])
                          \/ (i = Len(s) /\ s[i].version = r.version)
    BY <1>1, <1>2
  <1>4. \A i \in DOMAIN s : s[i].version \in Nat /\ i \in Nat
    <2> SUFFICES ASSUME NEW i \in DOMAIN s PROVE s[i].version \in Nat /\ i \in Nat
      OBVIOUS
    <2> HIDE DEF s
    <2>1. DOMAIN s = 1..Len(s) /\ Len(s) \in Nat /\ s[i] \in Entries
      BY <1>2
    <2> QED BY <2>1 DEF Entries
  <1>5. \A i \in DOMAIN s : s[i].version < r.version + 1
    BY <1>1, <1>3, <1>4 DEF Ascends
  <1>6. ASSUME NEW i \in DOMAIN s, NEW j \in DOMAIN s, i < j
        PROVE  s[i].version < s[j].version
    <2>1. i \in DOMAIN r.past /\ s[i] = r.past[i]
      BY <1>2, <1>3, <1>6
    <2>2. CASE j \in DOMAIN r.past /\ s[j] = r.past[j]
      BY <1>6, <2>1, <2>2 DEF Ascends, Rising
    <2>3. CASE j = Len(s) /\ s[j].version = r.version
      BY <2>1, <2>3 DEF Ascends
    <2> QED BY <1>3, <2>2, <2>3
  <1> HIDE DEF s, e
  <1>7. /\ t \in Seq(Entries)
        /\ Len(t) <= Len(s)
        /\ \A i \in DOMAIN t : /\ i + (Len(s) - Len(t)) \in DOMAIN s
                               /\ t[i] = s[i + (Len(s) - Len(t))]
    BY <1>2, NewestSuffix
  <1> HIDE DEF t
  <1>8. \A i \in DOMAIN t : t[i].version < r.version + 1
    BY <1>5, <1>7
  <1>9. Rising(t)
    <2> SUFFICES ASSUME NEW i \in DOMAIN t, NEW j \in DOMAIN t, i < j
                 PROVE  t[i].version < t[j].version
      BY DEF Rising
    <2>1. Len(s) - Len(t) \in Int /\ i \in Nat /\ j \in Nat
      BY <1>2, <1>7
    <2>2. i + (Len(s) - Len(t)) < j + (Len(s) - Len(t))
      BY <2>1
    <2> QED BY <1>6, <1>7, <2>2
  <1>10. Archived(r) = t
    BY DEF Archived, t, s, e
  <1> QED BY <1>1, <1>8, <1>9, <1>10

\* A publication over a live one, or over an empty history.
LEMMA PublishedAscends ==
    ASSUME NEW now, NEW seen, WellFormed(now), WellFormed(seen), Ascends(seen),
           NEW d, NEW past,
           IF seen.live = NoDsl THEN past = <<>> ELSE past = Archived(seen)
    PROVE  Ascends([now EXCEPT !.live = d, !.version = Version(seen) + 1, !.past = past])
  <1> DEFINE r == [now EXCEPT !.live = d, !.version = Version(seen) + 1, !.past = past]
  <1>1. r.version = Version(seen) + 1 /\ r.past = past
    BY DEF WellFormed, FlowRecords
  <1>2. Rising(past) /\ \A i \in DOMAIN past : past[i].version < Version(seen) + 1
    <2>1. CASE seen.live = NoDsl
      BY <2>1 DEF Rising
    <2>2. CASE seen.live # NoDsl
      BY <2>2, ArchivedRises
    <2> QED BY <2>1, <2>2
  <1> HIDE DEF r
  <1>3. Ascends(r)
    BY <1>1, <1>2 DEF Ascends
  <1> QED BY <1>3 DEF r

LEMMA MigratedAscends ==
    ASSUME NEW now, NEW seen, WellFormed(now)
    PROVE  Ascends(Migrated(now, seen))
  <1>1. Migrated(now, seen).past = <<>>
    BY DEF Migrated, WellFormed, FlowRecords
  <1> QED BY <1>1 DEF Ascends, Rising

LEMMA UnpublishedAscends ==
    ASSUME NEW now, NEW seen, WellFormed(now), WellFormed(seen), Ascends(seen),
           CanUnpublish(seen)
    PROVE  Ascends(Unpublished(now, seen))
  <1>1. Unpublished(now, seen).live = NoDsl /\ Unpublished(now, seen).past = Archived(seen)
    BY DEF Unpublished, WellFormed, FlowRecords
  <1>2. Rising(Archived(seen))
    BY ArchivedRises DEF CanUnpublish
  <1> QED BY <1>1, <1>2 DEF Ascends

\* The last entry has the highest number of the history it leaves.
LEMMA OnlineAscends ==
    ASSUME NEW now, NEW seen, WellFormed(now), WellFormed(seen), Ascends(seen),
           CanGoOnline(seen)
    PROVE  Ascends(Online(now, seen))
  <1> DEFINE last == seen.past[Len(seen.past)]
             rest == SubSeq(seen.past, 1, Len(seen.past) - 1)
  <1>1. seen.past \in Seq(Entries) /\ seen.past # <<>>
    BY DEF WellFormed, FlowRecords, CanGoOnline
  <1>2. \A i \in DOMAIN rest : /\ i \in DOMAIN seen.past /\ rest[i] = seen.past[i]
                              /\ i < Len(seen.past) /\ Len(seen.past) \in DOMAIN seen.past
    BY <1>1
  <1>3. Online(now, seen).version = last.version /\ Online(now, seen).past = rest
    BY DEF Online, WellFormed, FlowRecords
  <1> HIDE DEF rest
  <1>4. Rising(rest) /\ \A i \in DOMAIN rest : rest[i].version < last.version
    BY <1>2 DEF Ascends, Rising
  <1> QED BY <1>3, <1>4 DEF Ascends

\* What a deletion leaves keeps its order.
LEMMA DeletedAscends ==
    ASSUME NEW now, NEW seen, WellFormed(now), WellFormed(seen), Ascends(seen),
           Publication(now) = Publication(seen),
           NEW v, NEW r \in VersionDeleted(now, seen, v)
    PROVE  Ascends(r)
  <1> DEFINE I == DOMAIN seen.past \ Holding(seen, v)
  <1>1. PICK f \in InOrder(I) : r = [now EXCEPT !.past = [k \in DOMAIN f |-> seen.past[f[k]]]]
    BY DEF VersionDeleted
  <1> DEFINE past == [k \in DOMAIN f |-> seen.past[f[k]]]
  <1>2. seen.past \in Seq(Entries) /\ I \in SUBSET DOMAIN seen.past
    BY DEF WellFormed, FlowRecords
  <1> HIDE DEF I
  <1>3. \A k \in DOMAIN past : k \in DOMAIN f /\ f[k] \in DOMAIN seen.past
    BY <1>2, InOrderForm
  <1>4. \A i, j \in DOMAIN f : i < j => f[i] < f[j]
    BY DEF InOrder
  <1>5. Rising(past)
    BY <1>3, <1>4 DEF Ascends, Rising
  <1>6. r.past = past /\ r.live = seen.live /\ r.version = seen.version
    BY <1>1 DEF WellFormed, FlowRecords, Publication
  <1>7. seen.live # NoDsl => \A k \in DOMAIN past : past[k].version < seen.version
    BY <1>3 DEF Ascends
  <1> HIDE DEF past
  <1> QED BY <1>5, <1>6, <1>7 DEF Ascends

\* The invariant of the numbering.
Numbered == writes = "fresh" => Ascends(flow)

\* An update after which everything is still fresh was computed from a copy of the
\* publication as it is, and did not restart the numbering.
LEMMA FreshUpdate ==
    ASSUME StoreInv, Numbered, NEW w \in Workers, NEW op, Writing(w, op),
           NEW r, WritePublication(w, r), writes' = "fresh"
    PROVE  /\ flow' = r
           /\ Publication(flow) = Publication(call[w].seen)
           /\ Ascends(call[w].seen)
           /\ call[w].seen.live = NoDsl /\ r.version = 1 => r.past = <<>>
  <1>1. flow' = r
    BY DEF WritePublication, Write
  <1>2. Publication(call[w].seen) = Publication(flow)
    BY DEF WritePublication
  <1>3. writes = "fresh"
    BY <1>2 DEF WritePublication
  <1>4. /\ call[w].seen.live = flow.live
        /\ call[w].seen.version = flow.version
        /\ call[w].seen.past = flow.past
    BY <1>2 DEF Publication
  <1>5. Ascends(call[w].seen)
    BY <1>3, <1>4 DEF Numbered, Ascends
  <1>6. call[w].seen.live = NoDsl /\ r.version = 1 => r.past = <<>>
    BY <1>2, <1>3, <1>4 DEF WritePublication
  <1> QED BY <1>1, <1>2, <1>5, <1>6

\* A new number is one above the old, and 1 after an offline period.
LEMMA NextNumber ==
    ASSUME NEW seen, WellFormed(seen)
    PROVE  /\ seen.live = NoDsl => Version(seen) + 1 = 1
           /\ seen.live # NoDsl => Version(seen) # 0
  BY DEF WellFormed, FlowRecords, Version, Unset

LEMMA PublishKeepsNumbers ==
    ASSUME StoreInv, Numbered, NEW w \in Workers, PublishFlow(w), writes' = "fresh"
    PROVE  Ascends(flow')
  <1> DEFINE seen == call[w].seen
             past == IF seen.live = NoDsl THEN seen.past ELSE Archived(seen)
             r == [flow EXCEPT !.live = seen.draft, !.version = Version(seen) + 1, !.past = past]
  <1>1. Writing(w, "publish") /\ WritePublication(w, r)
    BY DEF PublishFlow, Published
  <1>2. WellFormed(flow) /\ WellFormed(seen)
    BY <1>1, HeldForm DEF StoreInv
  <1>3. r.version = Version(seen) + 1 /\ r.past = past
    BY <1>2 DEF WellFormed, FlowRecords
  <1> HIDE DEF r
  <1>4. flow' = r /\ Ascends(seen) /\ (seen.live = NoDsl /\ r.version = 1 => r.past = <<>>)
    BY <1>1, FreshUpdate
  <1>5. IF seen.live = NoDsl THEN past = <<>> ELSE past = Archived(seen)
    BY <1>2, <1>3, <1>4, NextNumber
  <1> HIDE DEF past, seen
  <1>6. Ascends([flow EXCEPT !.live = seen.draft, !.version = Version(seen) + 1, !.past = past])
    BY <1>2, <1>4, <1>5, PublishedAscends
  <1> QED BY <1>4, <1>6 DEF r

LEMMA RollbackKeepsNumbers ==
    ASSUME StoreInv, Numbered, NEW w \in Workers, RollbackPublish(w), writes' = "fresh"
    PROVE  Ascends(flow')
  <1> DEFINE seen == call[w].seen
             past == IF seen.live = NoDsl \/ Version(seen) = 0 THEN seen.past
                     ELSE Archived(seen)
  <1>1. PICK e \in Oldest(seen, call[w].request.version) :
            WritePublication(w, RolledBack(flow, seen, e))
    BY DEF RollbackPublish
  <1> DEFINE r == [flow EXCEPT !.live = e.dsl, !.version = Version(seen) + 1, !.past = past]
  <1>2. Writing(w, "rollback") /\ WritePublication(w, r)
    BY <1>1 DEF RollbackPublish, RolledBack
  <1>3. WellFormed(flow) /\ WellFormed(seen)
    BY <1>2, HeldForm DEF StoreInv
  <1>4. r.version = Version(seen) + 1 /\ r.past = past
    BY <1>3 DEF WellFormed, FlowRecords
  <1> HIDE DEF r
  <1>5. flow' = r /\ Ascends(seen) /\ (seen.live = NoDsl /\ r.version = 1 => r.past = <<>>)
    BY <1>2, FreshUpdate
  <1>6. IF seen.live = NoDsl THEN past = <<>> ELSE past = Archived(seen)
    BY <1>3, <1>4, <1>5, NextNumber
  <1> HIDE DEF past, seen
  <1>7. Ascends([flow EXCEPT !.live = e.dsl, !.version = Version(seen) + 1, !.past = past])
    BY <1>3, <1>5, <1>6, PublishedAscends
  <1> QED BY <1>5, <1>7 DEF r

LEMMA NumbersKept == StoreInv /\ Numbered /\ [Next]_vars => Numbered'
  <1> SUFFICES ASSUME StoreInv, Numbered, [Next]_vars, writes' = "fresh" PROVE Ascends(flow')
    BY DEF Numbered, Ascends, Rising
  <1>0. WellFormed(flow) /\ flow \in FlowRecords
    BY DEF StoreInv, WellFormed
  <1>1. ASSUME Publication(flow') = Publication(flow), writes = "fresh" PROVE Ascends(flow')
    BY <1>1 DEF Publication, Numbered, Ascends, Rising
  <1>2. CASE SetFlowLocked
    <2>1. Publication(flow') = Publication(flow) /\ writes' = writes
      BY <1>0, <1>2 DEF SetFlowLocked, Publication, FlowRecords
    <2> QED BY <1>1, <2>1
  <1>3. ASSUME NEW w \in Workers, SaveFlow(w) \/ DiscardDraft(w) PROVE Ascends(flow')
    <2>1. Publication(flow') = Publication(flow) /\ writes' = writes
      BY <1>0, <1>3 DEF SaveFlow, DiscardDraft, WriteAside, Write, Saved, Discarded,
         Publication, FlowRecords
    <2> QED BY <1>1, <2>1
  <1>4. ASSUME NEW w \in Workers, Read(w) \/ Crash(w) PROVE Ascends(flow')
    BY <1>1, <1>4 DEF Read, Crash
  <1>5. ASSUME NEW w \in Workers, GetFlow(w) PROVE Ascends(flow')
    <2>1. flow' = Migrated(flow, call[w].seen)
      BY <1>5 DEF GetFlow, WritePublication, Write
    <2> QED BY <1>0, <2>1, MigratedAscends
  <1>6. ASSUME NEW w \in Workers, UnpublishFlow(w) PROVE Ascends(flow')
    <2>1. Writing(w, "unpublish") /\ WritePublication(w, Unpublished(flow, call[w].seen))
      BY <1>6 DEF UnpublishFlow
    <2>2. WellFormed(call[w].seen) /\ CanUnpublish(call[w].seen)
      BY <2>1, HeldForm DEF Accepts
    <2>3. Ascends(call[w].seen) /\ flow' = Unpublished(flow, call[w].seen)
      BY <2>1, FreshUpdate
    <2> QED BY <1>0, <2>2, <2>3, UnpublishedAscends
  <1>7. ASSUME NEW w \in Workers, GoOnlineFromLatest(w) PROVE Ascends(flow')
    <2>1. Writing(w, "online") /\ WritePublication(w, Online(flow, call[w].seen))
      BY <1>7 DEF GoOnlineFromLatest
    <2>2. WellFormed(call[w].seen) /\ CanGoOnline(call[w].seen)
      BY <2>1, HeldForm DEF Accepts
    <2>3. Ascends(call[w].seen) /\ flow' = Online(flow, call[w].seen)
      BY <2>1, FreshUpdate
    <2> QED BY <1>0, <2>2, <2>3, OnlineAscends
  <1>8. ASSUME NEW w \in Workers, DeletePublishHistory(w) PROVE Ascends(flow')
    <2>1. PICK r \in VersionDeleted(flow, call[w].seen, call[w].request.version) :
              WritePublication(w, r)
      BY <1>8 DEF DeletePublishHistory
    <2>2. Writing(w, "delete")
      BY <1>8 DEF DeletePublishHistory
    <2>3. WellFormed(call[w].seen)
      BY <2>2, HeldForm
    <2>4. /\ Ascends(call[w].seen) /\ flow' = r
          /\ Publication(flow) = Publication(call[w].seen)
      BY <2>1, <2>2, FreshUpdate
    <2> QED BY <1>0, <2>1, <2>3, <2>4, DeletedAscends
  <1>9. CASE UNCHANGED vars
    BY <1>1, <1>9 DEF vars
  <1> QED BY <1>2, <1>3, <1>4, <1>5, <1>6, <1>7, <1>8, <1>9,
             PublishKeepsNumbers, RollbackKeepsNumbers DEF Next

\* While updates do not overlap and the numbering does not restart, the history
\* ascends to the live number: a version names one publication.
THEOREM NumbersCorrect == Spec => []NumbersAscend
  <1>1. Init => Numbered
    <2>1. \A d \in Dsls : /\ Inserted(d).past = <<>> /\ Inserted(d).live = NoDsl
                          /\ Legacy(d).past = <<>> /\ Legacy(d).live = NoDsl
      BY DEF Inserted, Legacy
    <2>2. Init => flow.past = <<>> /\ flow.live = NoDsl
      BY <2>1 DEF Init
    <2>3. DOMAIN <<>> = {}
      OBVIOUS
    <2> QED BY <2>2, <2>3 DEF Numbered, Ascends, Rising
  <1>2. Numbered => NumbersAscend
    BY DEF Numbered, Ascends, Rising, NumbersAscend
  <1> QED BY <1>1, <1>2, StoreInvariant, NumbersKept, PTL DEF Spec

----------------------------------------------------------------------------
(* What an update may do to the publication, while updates do not overlap. *)

\* An update that is not stale was computed from a copy of the publication as it is.
LEMMA ExactCopy ==
    ASSUME StoreInv, NEW w \in Workers, NEW op, Writing(w, op),
           NEW r, WritePublication(w, r), writes' # "stale"
    PROVE  /\ flow' = r
           /\ flow.live = call[w].seen.live
           /\ flow.version = call[w].seen.version
           /\ flow.past = call[w].seen.past
           /\ WellFormed(call[w].seen)
           /\ Accepts(call[w].request, call[w].seen)
           /\ call[w].request.op = op
  BY HeldForm DEF WritePublication, Write, Publication

\* The step of NewLiveNewNumber.
NewNumber ==
    writes' # "stale" /\ flow.live # NoDsl /\ flow'.live \notin {NoDsl, flow.live} =>
        flow'.version > flow.version

LEMMA NumberStep == StoreInv /\ [Next]_vars => NewNumber
  <1> SUFFICES ASSUME StoreInv, [Next]_vars, writes' # "stale", flow.live # NoDsl,
                      flow'.live # NoDsl, flow'.live # flow.live
               PROVE  flow'.version > flow.version
    BY DEF NewNumber
  <1>0. WellFormed(flow) /\ flow \in FlowRecords
    BY DEF StoreInv, WellFormed
  <1>1. flow.version \in Nat /\ Version(flow) = flow.version
    BY <1>0 DEF WellFormed, FlowRecords, Version, Unset
  <1>2. CASE SetFlowLocked
    BY <1>0, <1>2 DEF SetFlowLocked, FlowRecords
  <1>3. ASSUME NEW w \in Workers, SaveFlow(w) \/ DiscardDraft(w) PROVE FALSE
    BY <1>0, <1>3 DEF SaveFlow, DiscardDraft, WriteAside, Write, Saved, Discarded, FlowRecords
  <1>4. ASSUME NEW w \in Workers, Read(w) \/ Crash(w) PROVE FALSE
    BY <1>4 DEF Read, Crash
  <1>5. ASSUME NEW w \in Workers, GetFlow(w) PROVE FALSE
    BY <1>5, ExactCopy DEF GetFlow, Accepts, NeedsMigration
  <1>6. ASSUME NEW w \in Workers, PublishFlow(w) PROVE flow'.version > flow.version
    <2>1. flow' = Published(flow, call[w].seen) /\ flow.version = call[w].seen.version
      BY <1>6, ExactCopy DEF PublishFlow
    <2>2. flow'.version = Version(call[w].seen) + 1
      BY <1>0, <2>1 DEF Published, FlowRecords
    <2> QED BY <1>1, <2>1, <2>2 DEF Version
  <1>7. ASSUME NEW w \in Workers, UnpublishFlow(w) PROVE FALSE
    <2>1. flow' = Unpublished(flow, call[w].seen)
      BY <1>7 DEF UnpublishFlow, WritePublication, Write
    <2> QED BY <1>0, <2>1 DEF Unpublished, FlowRecords
  <1>8. ASSUME NEW w \in Workers, GoOnlineFromLatest(w) PROVE FALSE
    BY <1>8, ExactCopy DEF GoOnlineFromLatest, Accepts, CanGoOnline
  <1>9. ASSUME NEW w \in Workers, RollbackPublish(w) PROVE flow'.version > flow.version
    <2>1. PICK e : flow' = RolledBack(flow, call[w].seen, e) /\ flow.version = call[w].seen.version
      BY <1>9, ExactCopy DEF RollbackPublish
    <2>2. flow'.version = Version(call[w].seen) + 1
      BY <1>0, <2>1 DEF RolledBack, FlowRecords
    <2> QED BY <1>1, <2>1, <2>2 DEF Version
  <1>10. ASSUME NEW w \in Workers, DeletePublishHistory(w) PROVE FALSE
    <2>1. PICK past : flow' = [flow EXCEPT !.past = past]
      BY <1>10 DEF DeletePublishHistory, VersionDeleted, WritePublication, Write
    <2> QED BY <1>0, <2>1 DEF FlowRecords
  <1>11. CASE UNCHANGED vars
    BY <1>11 DEF vars
  <1> QED BY <1>2, <1>3, <1>4, <1>5, <1>6, <1>7, <1>8, <1>9, <1>10, <1>11 DEF Next

\* A different definition never goes online under the number of the one it replaces,
\* while updates do not overlap.
THEOREM NumbersGrow == Spec => NewLiveNewNumber
  <1>1. StoreInv /\ [Next]_vars => [NewNumber]_vars
    BY NumberStep
  <1>2. NewLiveNewNumber <=> [][NewNumber]_vars
    BY DEF NewLiveNewNumber, NewNumber
  <1> QED BY <1>1, <1>2, StoreInvariant, PTL DEF Spec

----------------------------------------------------------------------------
(* Nothing is lost.                                                        *)

\* A document of the old format, and what goroutines hold while it has not been migrated,
\* has no history that the migration could erase.
OldIsEmpty ==
    flow.version = Unset =>
        /\ flow.past = <<>>
        /\ \A w \in Workers : call[w] # NoCall => call[w].seen.past = <<>>

LEMMA OldStart == Init => OldIsEmpty
  <1>1. \A d \in Dsls : Inserted(d).past = <<>> /\ Legacy(d).past = <<>>
    BY DEF Inserted, Legacy
  <1> QED BY <1>1 DEF Init, OldIsEmpty

\* An update of the publication leaves no document of the old format, or deletes nothing.
LEMMA OldKept == StoreInv /\ OldIsEmpty /\ [Next]_vars => OldIsEmpty'
  <1> SUFFICES ASSUME StoreInv, OldIsEmpty, [Next]_vars, flow'.version = Unset
               PROVE  /\ flow'.past = <<>>
                      /\ \A v \in Workers : call'[v] # NoCall => call'[v].seen.past = <<>>
    BY DEF OldIsEmpty
  <1>0. WellFormed(flow) /\ flow \in FlowRecords /\ call \in [Workers -> Calls \cup {NoCall}]
    BY DEF StoreInv, WellFormed, TypeOK
  <1>1. ASSUME NEW w \in Workers, call' = [call EXCEPT ![w] = NoCall],
               flow'.version = flow.version, flow'.past = flow.past
        PROVE  /\ flow'.past = <<>>
               /\ \A v \in Workers : call'[v] # NoCall => call'[v].seen.past = <<>>
    BY <1>0, <1>1 DEF OldIsEmpty
  <1>2. CASE SetFlowLocked
    BY <1>0, <1>2 DEF SetFlowLocked, FlowRecords, OldIsEmpty
  <1>3. ASSUME NEW w \in Workers, SaveFlow(w) \/ DiscardDraft(w)
        PROVE  /\ call' = [call EXCEPT ![w] = NoCall]
               /\ flow'.version = flow.version /\ flow'.past = flow.past
    BY <1>0, <1>3 DEF SaveFlow, DiscardDraft, WriteAside, Write, Saved, Discarded, FlowRecords
  <1>4. ASSUME NEW w \in Workers, Read(w)
        PROVE  /\ flow'.past = <<>>
               /\ \A v \in Workers : call'[v] # NoCall => call'[v].seen.past = <<>>
    BY <1>0, <1>4 DEF Read, OldIsEmpty
  <1>5. ASSUME NEW w \in Workers, Crash(w)
        PROVE  /\ call' = [call EXCEPT ![w] = NoCall]
               /\ flow'.version = flow.version /\ flow'.past = flow.past
    BY <1>5 DEF Crash
  <1>6. ASSUME NEW w \in Workers,
               GetFlow(w) \/ PublishFlow(w) \/ UnpublishFlow(w) \/ RollbackPublish(w)
        PROVE  FALSE
    <2>1. Version(call[w].seen) + 1 \in Nat
      <3>1. WellFormed(call[w].seen)
        BY <1>6, HeldForm DEF GetFlow, PublishFlow, UnpublishFlow, RollbackPublish
      <3> QED BY <3>1 DEF WellFormed, FlowRecords, Version, Unset
    <2>2. flow'.version \in {0, 1, Version(call[w].seen) + 1}
      <3>1. CASE GetFlow(w)
        BY <1>0, <3>1 DEF GetFlow, WritePublication, Write, Migrated, FlowRecords
      <3>2. CASE PublishFlow(w)
        BY <1>0, <3>2 DEF PublishFlow, WritePublication, Write, Published, FlowRecords
      <3>3. CASE UnpublishFlow(w)
        BY <1>0, <3>3 DEF UnpublishFlow, WritePublication, Write, Unpublished, FlowRecords
      <3>4. CASE RollbackPublish(w)
        BY <1>0, <3>4 DEF RollbackPublish, WritePublication, Write, RolledBack, FlowRecords
      <3> QED BY <1>6, <3>1, <3>2, <3>3, <3>4
    <2> QED BY <2>1, <2>2 DEF Unset
  <1>7. ASSUME NEW w \in Workers, GoOnlineFromLatest(w) PROVE FALSE
    <2>1. /\ WellFormed(call[w].seen) /\ CanGoOnline(call[w].seen)
          /\ flow' = Online(flow, call[w].seen)
      BY <1>7, HeldForm DEF GoOnlineFromLatest, Accepts, WritePublication, Write
    <2>2. /\ call[w].seen.past \in Seq(Entries)
          /\ Len(call[w].seen.past) \in DOMAIN call[w].seen.past
      BY <2>1 DEF WellFormed, FlowRecords, CanGoOnline
    <2>3. flow'.version = call[w].seen.past[Len(call[w].seen.past)].version
      BY <1>0, <2>1 DEF Online, FlowRecords
    <2>4. call[w].seen.past[Len(call[w].seen.past)] \in Entries
      BY <2>2
    <2>5. flow'.version \in Nat
      BY <2>3, <2>4 DEF Entries
    <2> QED BY <2>5 DEF Unset
  <1>8. ASSUME NEW w \in Workers, DeletePublishHistory(w) PROVE FALSE
    <2>1. PICK past : flow' = [flow EXCEPT !.past = past]
      BY <1>8 DEF DeletePublishHistory, VersionDeleted, WritePublication, Write
    <2>2. flow.version = Unset
      BY <1>0, <2>1 DEF FlowRecords
    <2>3. call[w] # NoCall /\ CanDeleteVersion(call[w].seen, call[w].request.version)
      BY <1>8, HeldForm DEF DeletePublishHistory, Writing, Accepts
    <2>4. call[w].seen.past = <<>> /\ DOMAIN <<>> = {}
      BY <2>2, <2>3 DEF OldIsEmpty
    <2> QED BY <2>3, <2>4 DEF CanDeleteVersion, Holding
  <1>9. CASE UNCHANGED vars
    BY <1>9 DEF vars, OldIsEmpty
  <1> QED BY <1>1, <1>2, <1>3, <1>4, <1>5, <1>6, <1>7, <1>8, <1>9 DEF Next

\* A publication that joins the history drops the oldest entry of a full one, and no other.
LEMMA ArchivedKeeps ==
    ASSUME NEW r, WellFormed(r), r.live # NoDsl, NEW e \in Kept(r)
    PROVE  \/ \E i \in DOMAIN Archived(r) : Archived(r)[i] = e
           \/ Len(r.past) = MaxHistory /\ e = Head(r.past)
  <1> DEFINE new == [version |-> Version(r), dsl |-> r.live]
             s == Append(r.past, new)
             t == Newest(s)
  <1>1. /\ r.past \in Seq(Entries) /\ Len(r.past) <= MaxHistory
        /\ new \in Entries
        /\ Version(r) = r.version
    BY DEF WellFormed, FlowRecords, Entries, Version, Unset
  <1>2. s \in Seq(Entries) /\ Len(s) = Len(r.past) + 1
    BY <1>1
  <1>3. PICK k \in DOMAIN s : s[k] = e
    <2>1. CASE e = new
      <3>1. Len(s) \in DOMAIN s /\ s[Len(s)] = new
        BY <1>1
      <3> QED BY <2>1, <3>1
    <2>2. ASSUME NEW i \in DOMAIN r.past, e = r.past[i]
          PROVE  \E k \in DOMAIN s : s[k] = e
      <3>1. i \in DOMAIN s /\ s[i] = r.past[i]
        BY <1>1
      <3> QED BY <2>2, <3>1
    <2> QED BY <1>1, <2>1, <2>2 DEF Kept
  <1>4. Archived(r) = t
    BY DEF Archived
  <1>5. k = 1 /\ r.past # <<>> => e = Head(r.past)
    BY <1>1, <1>3
  <1> HIDE DEF s, new
  <1>6. CASE Len(s) > MaxHistory
    <2>1. Len(r.past) = MaxHistory /\ Len(s) = MaxHistory + 1
      BY <1>1, <1>2, <1>6
    <2>2. t = SubSeq(s, 2, MaxHistory + 1)
      <3>1. Len(s) - MaxHistory + 1 = 2
        BY <2>1
      <3> QED BY <1>6, <2>1, <3>1 DEF Newest
    <2>3. CASE k = 1
      BY <1>1, <1>5, <2>1, <2>3
    <2>4. CASE k # 1
      <3>1. k - 1 \in 1..MaxHistory /\ k \in Nat
        BY <1>2, <2>1, <2>4
      <3>2. DOMAIN t = 1..MaxHistory /\ \A i \in 1..MaxHistory : t[i] = s[i + 1]
        BY <1>2, <2>1, <2>2
      <3>3. t[k - 1] = s[k - 1 + 1] /\ k - 1 + 1 = k
        BY <3>1, <3>2
      <3> QED BY <1>3, <1>4, <3>1, <3>2, <3>3
    <2> QED BY <2>3, <2>4
  <1>7. CASE ~(Len(s) > MaxHistory)
    BY <1>3, <1>4, <1>7 DEF Newest
  <1> QED BY <1>6, <1>7

\* An enumeration of positions leaves none out.
LEMMA InOrderOnto ==
    ASSUME NEW I, IsFiniteSet(I), NEW f \in InOrder(I), I \subseteq Nat, NEW i \in I
    PROVE  \E k \in DOMAIN f : f[k] = i
  <1> SUFFICES ASSUME \A k \in DOMAIN f : f[k] # i PROVE FALSE
    OBVIOUS
  <1> DEFINE n == Cardinality(I)
  <1>1. n \in Nat /\ f \in [1..n -> I]
    BY FS_CardinalityType DEF InOrder
  <1>2. IsFiniteSet(I \ {i}) /\ Cardinality(I \ {i}) = n - 1
    BY FS_RemoveElement
  <1>3. f \in [1..n -> I \ {i}]
    BY <1>1
  <1> HIDE DEF n
  <1>4. IsFiniteSet(1..n) /\ Cardinality(1..n) = n
    <2>1. IsFiniteSet(1..n) /\ Cardinality(1..n) = IF 1 > n THEN 0 ELSE n - 1 + 1
      BY <1>1, FS_Interval
    <2> QED BY <1>1, <2>1
  <1> DEFINE S == 1..n
             T == I \ {i}
  <1>5. PICK x \in S, y \in S : x # y /\ f[x] = f[y]
    <2>1. IsFiniteSet(S) /\ IsFiniteSet(T) /\ Cardinality(T) < Cardinality(S) /\ f \in [S -> T]
      BY <1>1, <1>2, <1>3, <1>4
    <2> HIDE DEF S, T
    <2> QED BY <2>1, FS_PigeonHole
  <1>6. x \in DOMAIN f /\ y \in DOMAIN f /\ x \in Int /\ y \in Int
    BY <1>1, <1>5
  <1>7. f[x] < f[y] \/ f[y] < f[x]
    BY <1>5, <1>6 DEF InOrder
  <1>8. f[x] \in Nat
    BY <1>1, <1>5
  <1> QED BY <1>5, <1>7, <1>8

\* What the history of a document holds, and what is live in it, is kept.
LEMMA KeptBy ==
    ASSUME NEW r, NEW e,
           \/ \E i \in DOMAIN r.past : r.past[i] = e
           \/ r.live # NoDsl /\ e = [version |-> r.version, dsl |-> r.live]
    PROVE  e \in Kept(r)
  BY DEF Kept

\* The step of NothingLost.
KeepsAll ==
    writes' # "stale" => \A e \in Kept(flow) :
        \/ e \in Kept(flow')
        \/ Len(flow.past) = MaxHistory /\ e = Head(flow.past)
        \/ \E w \in Workers : /\ Writing(w, "delete") /\ call'[w] = NoCall
                              /\ call[w].request.version = e.version

\* An update whose history is the old one, with the live publication added if there is one.
LEMMA ArchivingKeeps ==
    ASSUME WellFormed(flow), NEW e \in Kept(flow), NEW past, flow'.past = past,
           past = IF flow.live = NoDsl THEN flow.past ELSE Archived(flow)
    PROVE  e \in Kept(flow') \/ (Len(flow.past) = MaxHistory /\ e = Head(flow.past))
  <1>1. CASE flow.live = NoDsl
    BY <1>1 DEF Kept
  <1>2. CASE flow.live # NoDsl
    <2>1. \/ \E i \in DOMAIN past : past[i] = e
          \/ Len(flow.past) = MaxHistory /\ e = Head(flow.past)
      BY <1>2, ArchivedKeeps
    <2> QED BY <2>1, KeptBy
  <1> QED BY <1>1, <1>2

\* The copy archives as the document does.
LEMMA SameArchive ==
    ASSUME NEW r, NEW seen, r.live = seen.live, r.version = seen.version, r.past = seen.past
    PROVE  Archived(seen) = Archived(r)
  BY DEF Archived, Version

LEMMA OnlineKeeps ==
    ASSUME WellFormed(flow), NEW e \in Kept(flow), NEW seen, WellFormed(seen),
           CanGoOnline(seen), flow' = Online(flow, seen),
           flow.live = seen.live, flow.past = seen.past
    PROVE  e \in Kept(flow')
  <1> DEFINE n == Len(flow.past)
             last == flow.past[n]
  <1>1. /\ flow.past \in Seq(Entries) /\ flow.past # <<>> /\ flow.live = NoDsl
        /\ n \in DOMAIN flow.past
    BY DEF WellFormed, FlowRecords, CanGoOnline
  <1>2. /\ flow'.live = last.dsl /\ flow'.version = last.version
        /\ flow'.past = SubSeq(flow.past, 1, n - 1)
    BY DEF Online, WellFormed, FlowRecords
  <1>3. PICK k \in DOMAIN flow.past : e = flow.past[k]
    BY <1>1 DEF Kept
  <1>4. CASE k = n
    <2>1. last \in Entries
      BY <1>1
    <2>2. last = [version |-> last.version, dsl |-> last.dsl] /\ last.dsl # NoDsl
      <3> HIDE DEF last
      <3> QED BY <2>1 DEF Entries
    <2>3. e = [version |-> flow'.version, dsl |-> flow'.live] /\ flow'.live # NoDsl
      <3>1. e = last
        BY <1>3, <1>4
      <3> HIDE DEF last
      <3> QED BY <1>2, <2>2, <3>1
    <2> QED BY <2>3, KeptBy
  <1>5. CASE k # n
    <2>1. k \in 1..(n - 1)
      BY <1>1, <1>5
    <2>2. /\ k \in DOMAIN SubSeq(flow.past, 1, n - 1)
          /\ SubSeq(flow.past, 1, n - 1)[k] = flow.past[k]
      BY <1>1, <2>1
    <2>3. \E i \in DOMAIN flow'.past : flow'.past[i] = e
      BY <1>2, <1>3, <2>2
    <2> QED BY <2>3, KeptBy
  <1> QED BY <1>4, <1>5

LEMMA DeleteKeeps ==
    ASSUME WellFormed(flow), NEW e \in Kept(flow), NEW seen, NEW v,
           flow.past = seen.past, flow' \in VersionDeleted(flow, seen, v), e.version # v
    PROVE  e \in Kept(flow')
  <1> DEFINE I == DOMAIN flow.past \ Holding(seen, v)
  <1>1. PICK f \in InOrder(I) : flow' = [flow EXCEPT !.past = [k \in DOMAIN f |-> flow.past[f[k]]]]
    BY DEF VersionDeleted
  <1>2. flow \in FlowRecords /\ flow.past \in Seq(Entries)
    BY DEF WellFormed, FlowRecords
  <1>3. /\ flow'.live = flow.live /\ flow'.version = flow.version
        /\ flow'.past = [k \in DOMAIN f |-> flow.past[f[k]]]
    BY <1>1, <1>2 DEF FlowRecords
  <1>4. ASSUME NEW i \in DOMAIN flow.past, e = flow.past[i] PROVE e \in Kept(flow')
    <2>1. i \in I
      BY <1>4 DEF Holding
    <2>2. IsFiniteSet(I) /\ I \subseteq Nat
      <3>1. DOMAIN flow.past = 1..Len(flow.past) /\ Len(flow.past) \in Nat
        BY <1>2
      <3>2. IsFiniteSet(1..Len(flow.past))
        BY <3>1, FS_Interval
      <3>3. I \subseteq 1..Len(flow.past)
        BY <3>1
      <3> HIDE DEF I
      <3>4. IsFiniteSet(I)
        BY <3>2, <3>3, FS_Subset
      <3> QED BY <3>3, <3>4
    <2> HIDE DEF I
    <2>3. PICK k \in DOMAIN f : f[k] = i
      BY <2>1, <2>2, InOrderOnto
    <2>4. k \in DOMAIN flow'.past /\ flow'.past[k] = e
      BY <1>3, <1>4, <2>3
    <2> QED BY <2>4, KeptBy
  <1>5. CASE flow.live # NoDsl /\ e = [version |-> flow.version, dsl |-> flow.live]
    BY <1>3, <1>5, KeptBy
  <1> QED BY <1>4, <1>5 DEF Kept

LEMMA KeptStep == StoreInv /\ OldIsEmpty /\ [Next]_vars => KeepsAll
  <1> SUFFICES ASSUME StoreInv, OldIsEmpty, [Next]_vars, writes' # "stale", NEW e \in Kept(flow)
               PROVE  \/ e \in Kept(flow')
                      \/ Len(flow.past) = MaxHistory /\ e = Head(flow.past)
                      \/ \E w \in Workers : /\ Writing(w, "delete") /\ call'[w] = NoCall
                                            /\ call[w].request.version = e.version
    BY DEF KeepsAll
  <1> DEFINE Goal == e \in Kept(flow') \/ (Len(flow.past) = MaxHistory /\ e = Head(flow.past))
  <1>0. WellFormed(flow) /\ flow \in FlowRecords
    BY DEF StoreInv, WellFormed
  <1>1. ASSUME Publication(flow') = Publication(flow) PROVE e \in Kept(flow')
    BY <1>1 DEF Publication, Kept
  <1>2. CASE SetFlowLocked
    <2>1. Publication(flow') = Publication(flow)
      BY <1>0, <1>2 DEF SetFlowLocked, Publication, FlowRecords
    <2> QED BY <1>1, <2>1
  <1>3. ASSUME NEW w \in Workers, SaveFlow(w) \/ DiscardDraft(w) PROVE e \in Kept(flow')
    <2>1. Publication(flow') = Publication(flow)
      BY <1>0, <1>3 DEF SaveFlow, DiscardDraft, WriteAside, Write, Saved, Discarded,
         Publication, FlowRecords
    <2> QED BY <1>1, <2>1
  <1>4. ASSUME NEW w \in Workers, Read(w) \/ Crash(w) PROVE e \in Kept(flow')
    BY <1>1, <1>4 DEF Read, Crash
  <1>5. ASSUME NEW w \in Workers, GetFlow(w) PROVE FALSE
    <2>1. flow.live = NoDsl /\ flow.version = Unset
      BY <1>5, ExactCopy DEF GetFlow, Accepts, NeedsMigration
    <2>2. flow.past = <<>> /\ DOMAIN <<>> = {}
      BY <2>1 DEF OldIsEmpty
    <2> QED BY <2>1, <2>2 DEF Kept
  <1>6. ASSUME NEW w \in Workers, PublishFlow(w) PROVE Goal
    <2>1. /\ flow' = Published(flow, call[w].seen) /\ flow.live = call[w].seen.live
          /\ flow.version = call[w].seen.version /\ flow.past = call[w].seen.past
      BY <1>6, ExactCopy DEF PublishFlow
    <2>2. flow'.past = IF flow.live = NoDsl THEN flow.past ELSE Archived(call[w].seen)
      BY <1>0, <2>1 DEF Published, FlowRecords
    <2> QED BY <1>0, <2>1, <2>2, SameArchive, ArchivingKeeps
  <1>7. ASSUME NEW w \in Workers, UnpublishFlow(w) PROVE Goal
    <2>1. /\ flow' = Unpublished(flow, call[w].seen) /\ flow.live = call[w].seen.live
          /\ flow.version = call[w].seen.version /\ flow.past = call[w].seen.past
          /\ CanUnpublish(call[w].seen)
      BY <1>7, ExactCopy DEF UnpublishFlow, Accepts
    <2>2. flow'.past = Archived(call[w].seen) /\ flow.live # NoDsl
      BY <1>0, <2>1 DEF Unpublished, FlowRecords, CanUnpublish
    <2>3. Archived(call[w].seen) = Archived(flow)
      BY <2>1, SameArchive
    <2>4. flow'.past = IF flow.live = NoDsl THEN flow.past ELSE Archived(flow)
      BY <2>2, <2>3
    <2> QED BY <1>0, <2>4, ArchivingKeeps
  <1>8. ASSUME NEW w \in Workers, GoOnlineFromLatest(w) PROVE e \in Kept(flow')
    <2>1. /\ flow' = Online(flow, call[w].seen) /\ flow.live = call[w].seen.live
          /\ flow.past = call[w].seen.past /\ WellFormed(call[w].seen)
          /\ CanGoOnline(call[w].seen)
      BY <1>8, ExactCopy DEF GoOnlineFromLatest, Accepts
    <2> QED BY <1>0, <2>1, OnlineKeeps
  <1>9. ASSUME NEW w \in Workers, RollbackPublish(w) PROVE Goal
    <2>1. PICK x : /\ flow' = RolledBack(flow, call[w].seen, x)
                   /\ flow.live = call[w].seen.live
                   /\ flow.version = call[w].seen.version /\ flow.past = call[w].seen.past
                   /\ WellFormed(call[w].seen)
      BY <1>9, ExactCopy DEF RollbackPublish
    <2>2. flow'.past = IF flow.live = NoDsl THEN flow.past ELSE Archived(call[w].seen)
      BY <1>0, <2>1, NextNumber DEF RolledBack, FlowRecords
    <2> QED BY <1>0, <2>1, <2>2, SameArchive, ArchivingKeeps
  <1>10. ASSUME NEW w \in Workers, DeletePublishHistory(w)
         PROVE  \/ e \in Kept(flow')
                \/ /\ Writing(w, "delete") /\ call'[w] = NoCall
                   /\ call[w].request.version = e.version
    <2>1. /\ Writing(w, "delete")
          /\ flow' \in VersionDeleted(flow, call[w].seen, call[w].request.version)
          /\ flow.past = call[w].seen.past
      BY <1>10, ExactCopy DEF DeletePublishHistory
    <2>2. call'[w] = NoCall
      BY <1>10 DEF DeletePublishHistory, WritePublication, Write, StoreInv, TypeOK
    <2> QED BY <1>0, <2>1, <2>2, DeleteKeeps
  <1>11. CASE UNCHANGED vars
    BY <1>1, <1>11 DEF vars
  <1> QED BY <1>2, <1>3, <1>4, <1>5, <1>6, <1>7, <1>8, <1>9, <1>10, <1>11 DEF Next

\* No publication vanishes: it stays live or in the history until it is the oldest of a
\* full history or a client deletes its version, while updates do not overlap.
THEOREM PublicationsKept == Spec => NothingLost
  <1>1. Spec => [](StoreInv /\ OldIsEmpty)
    BY StoreStart, StoreKept, OldStart, OldKept, PTL DEF Spec
  <1>2. StoreInv /\ OldIsEmpty /\ [Next]_vars => [KeepsAll]_vars
    BY KeptStep
  <1>3. NothingLost <=> [][KeepsAll]_vars
    BY DEF NothingLost, KeepsAll
  <1> QED BY <1>1, <1>2, <1>3, PTL DEF Spec
=============================================================================
