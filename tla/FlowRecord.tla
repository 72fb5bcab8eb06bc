----------------------------- MODULE FlowRecord -----------------------------
(***************************************************************************)
(* One document of the flows collection and what each store operation      *)
(* writes to it: internal/store/flow.go, flow_publish.go, flow_online.go.  *)
(*                                                                         *)
(* An operation reads the document with FindAll, decides, and writes named *)
(* fields with UpdateById.  The two database calls are separate, so what   *)
(* it writes is given as an operator of the document as it is (now) and of *)
(* the copy it decided on (seen).  Names, notes and times are labels that  *)
(* no property reads; they are left out, and with them PublishFlow's       *)
(* second UpdateById, which writes nothing but the note.                   *)
(***************************************************************************)
EXTENDS Integers, Sequences, FiniteSets

CONSTANTS
    Dsls,           \* flow definitions (the parsed dslJSON)
    NoDsl,          \* publishedJSON = ""
    MaxHistory      \* maxPublishHistory

ASSUME NoDslAssumption == NoDsl \notin Dsls
ASSUME MaxHistoryAssumption == MaxHistory \in Nat \ {0}

\* publishedVersion of a document written before the field existed.
Unset == -1

\* historyEntry: a publication that was replaced or taken offline.
Entries == [version : Nat, dsl : Dsls]

FlowRecords == [draft : Dsls, live : Dsls \cup {NoDsl}, version : Nat \cup {Unset},
                past : Seq(Entries), lock : {"locked", "unlocked"}]

\* A flow that SaveFlow has just inserted, and one of the old format.
Inserted(d) == [draft |-> d, live |-> NoDsl, version |-> 0, past |-> <<>>, lock |-> "unlocked"]
Legacy(d) == [Inserted(d) EXCEPT !.version = Unset]

\* docInt(doc, "publishedVersion", 0)
Version(r) == IF r.version = Unset THEN 0 ELSE r.version

\* Slip: the limit is tested before the new entry is appended.
NewestLate(s) == IF Len(s) > MaxHistory + 1 THEN SubSeq(s, Len(s) - MaxHistory, Len(s)) ELSE s

\* hist[len(hist)-maxPublishHistory:]
Newest(s) == IF Len(s) > MaxHistory THEN SubSeq(s, Len(s) - MaxHistory + 1, Len(s)) ELSE s

\* Slip: the live publication is all the history there is.
ArchivedAlone(r) == <<[version |-> Version(r), dsl |-> r.live]>>

\* Slip: it joins the history at the wrong end.
ArchivedFirst(r) == Newest(<<[version |-> Version(r), dsl |-> r.live]>> \o r.past)

\* The history once the live publication has joined it.
Archived(r) == Newest(Append(r.past, [version |-> Version(r), dsl |-> r.live]))

Unlocked(r) == r.lock = "unlocked"

----------------------------------------------------------------------------
(* GetFlow and ListFlows migrate a document without the publish fields.    *)

NeedsMigration(seen) == seen.version = Unset /\ seen.live = NoDsl

Migrated(now, seen) == [now EXCEPT !.live = seen.draft, !.version = 1, !.past = <<>>]

(* The draft. *)

Saved(now, d) == [now EXCEPT !.draft = d]

CanDiscard(seen) == Unlocked(seen) /\ seen.live # NoDsl

Discarded(now, seen) == [now EXCEPT !.draft = seen.live]

(* The publication. *)

Published(now, seen) ==
    [now EXCEPT !.live = seen.draft, !.version = Version(seen) + 1,
                !.past = IF seen.live = NoDsl THEN seen.past ELSE Archived(seen)]

CanUnpublish(seen) == Unlocked(seen) /\ seen.live # NoDsl

Unpublished(now, seen) == [now EXCEPT !.live = NoDsl, !.version = 0, !.past = Archived(seen)]

CanGoOnline(seen) == Unlocked(seen) /\ seen.live = NoDsl /\ seen.past # <<>>

\* The last entry leaves the history and is live again under its old number.
Online(now, seen) ==
    LET last == seen.past[Len(seen.past)]
    IN  [now EXCEPT !.live = last.dsl, !.version = last.version,
                    !.past = SubSeq(seen.past, 1, Len(seen.past) - 1)]

\* The positions at which the history has a version.
Holding(r, v) == {i \in DOMAIN r.past : r.past[i].version = v}

\* A rollback to the version that is live changes nothing.
CanRollback(seen, v) == Unlocked(seen) /\ v # Version(seen) /\ Holding(seen, v) # {}

\* The oldest entry of a version, as a set of one.
Oldest(r, v) == {r.past[i] : i \in {k \in Holding(r, v) : \A j \in Holding(r, v) : k <= j}}

\* Slip: the number of the old publication comes back with it.
RolledBackToNumber(now, seen, e) ==
    [now EXCEPT !.live = e.dsl, !.version = e.version,
                !.past = IF seen.live = NoDsl \/ Version(seen) = 0 THEN seen.past
                         ELSE Archived(seen)]

\* The target e stays in the history and is live under the next number.
RolledBack(now, seen, e) ==
    [now EXCEPT !.live = e.dsl, !.version = Version(seen) + 1,
                !.past = IF seen.live = NoDsl \/ Version(seen) = 0 THEN seen.past
                         ELSE Archived(seen)]

CanDeleteVersion(seen, v) == Unlocked(seen) /\ v # Version(seen) /\ Holding(seen, v) # {}

\* The ascending enumeration of a finite set of positions, as a set of one function.
InOrder(I) ==
    {f \in [1..Cardinality(I) -> I] : \A i, j \in DOMAIN f : i < j => f[i] < f[j]}

\* Every entry of that version goes, the others keep their order (a set of one record).
VersionDeleted(now, seen, v) ==
    {[now EXCEPT !.past = [k \in DOMAIN f |-> seen.past[f[k]]]] :
        f \in InOrder(DOMAIN seen.past \ Holding(seen, v))}
============================================================================
