--------------------------- MODULE DossierProofs ---------------------------
(***************************************************************************)
(* Proofs about Dossier, for any number of requests, assessments, items,   *)
(* links, controls and frameworks.                                         *)
(*                                                                         *)
(* The invariant has three parts.  Sound says how the committed rows agree *)
(* with each other and with the audit trail; ids are drawn once, so what   *)
(* is said of a row stays true of it.  Holds says what is left, whoever    *)
(* has written since, of the checks a request has made.  The export and    *)
(* the pack are computed from rows that were committed together, so what   *)
(* is shown for every Sound d holds of the rows they have seen.            *)
(***************************************************************************)
EXTENDS Dossier, FiniteSetTheorems, TLAPS

USE DossierAssumption

-----------------------------------------------------------------------------
(***************************************************************************)
(* The inductive invariant: the rows.                                      *)
(***************************************************************************)
\* A feeder has an AIIA for its parent.
AssessmentsSound(as, la) ==
    /\ as \in [DOMAIN as -> AssessmentRows]
    /\ \A a \in DOMAIN as :
          /\ a \in 1 .. la
          /\ as[a].parent # 0 => as[a].parent \in DOMAIN as /\ as[as[a].parent].parent = 0

\* A suggestion is as it was proposed.
Suggestion(it) == it.provenance = "AI_SUGGESTED"

ItemSound(it) ==
    /\ it \in Items
    /\ Suggestion(it) => it.kind = "risk" /\ it.lock = 0 /\ it.decision = "none" /\ ~it.plan
    /\ it.kind = "risk" => it.provenance \in {"AI_SUGGESTED", "USER_CONFIRMED"}

ItemsSound(is, li, as) ==
    /\ is \in [DOMAIN is -> Items]
    /\ \A i \in DOMAIN is : i \in 1 .. li /\ ItemSound(is[i]) /\ is[i].of \in DOMAIN as

ControlLinksSound(cs, ll, is) ==
    /\ cs \subseteq ControlLinks /\ IsFiniteSet(cs)
    /\ \A l \in cs : l.id \in 1 .. ll /\ l.item \in DOMAIN is
    /\ \A l, m \in cs : l.id = m.id \/ (l.item = m.item /\ l.control = m.control) => l = m

EvidenceLinksSound(es, ll, is) ==
    /\ es \subseteq EvidenceLinks /\ IsFiniteSet(es)
    /\ \A l \in es : l.id \in 1 .. ll /\ l.item \in DOMAIN is /\ ~Suggestion(is[l.item])
    /\ \A l, m \in es : l.id = m.id => l = m

\* No event is about an id that was not drawn.
EventSound(e, la, li, ll) ==
    /\ e.entity[1] = "assessment" => e.entity[2] \in 0 .. la
    /\ e.entity[1] = "item" => e.entity[2] \in 0 .. li
    /\ e.action \in {"control_link.created", "control_link.deleted"} =>
          e.entity[1] = "control_link" /\ e.entity[2] \in 1 .. ll /\ e.item \in 1 .. li
    /\ e.action \in {"evidence.linked", "evidence.unlinked"} =>
          e.entity[1] = "evidence_link" /\ e.entity[2] \in 1 .. ll /\ e.item \in 1 .. li

AuditSound(au, la, li, ll) ==
    IsABag(au) /\ \A e \in BagToSet(au) : EventSound(e, la, li, ll)

\* The events on record of an entity, and the links of item i with such an event.
Count(au, action, entity) == Copies(Event(action, entity, 0), au)

VersionsOf(au, i) ==
    Count(au, "assessment_item.confirmed", <<"item", i>>)
    + Count(au, "assessment_item.amended", <<"item", i>>)
    + Count(au, "assessment_item.treatment_set", <<"item", i>>)

Linked(au, action, i) ==
    {e.entity[2] : e \in {x \in BagToSet(au) : x.action = action /\ x.item = i}}

ItemAccounted(au, i, it) ==
    /\ Count(au, "assessment_item.confirmed", <<"item", i>>) = IF Dispositioned(it) THEN 1 ELSE 0
    /\ it.lock = VersionsOf(au, i)

ItemsAccounted(au, is) == \A i \in DOMAIN is : ItemAccounted(au, i, is[i])

LinkIdsOf(links, i) == IdsOf({l \in links : l.item = i})

LinksAccounted(au, is, links, created, deleted) ==
    \A i \in DOMAIN is :
        LinkIdsOf(links, i) = Linked(au, created, i) \ Linked(au, deleted, i)

RoundsAccounted(au, as) ==
    \A a \in DOMAIN as : as[a].round = Count(au, "assessment.submitted", <<"assessment", a>>)

\* The trail accounts for the rows.
Accounted(au, as, is, cs, es) ==
    /\ ItemsAccounted(au, is)
    /\ LinksAccounted(au, is, cs, "control_link.created", "control_link.deleted")
    /\ LinksAccounted(au, is, es, "evidence.linked", "evidence.unlinked")
    /\ RoundsAccounted(au, as)

RowsSound(as, is, cs, es, la, li, ll) ==
    /\ la \in Nat /\ li \in Nat /\ ll \in Nat
    /\ AssessmentsSound(as, la) /\ ItemsSound(is, li, as)
    /\ ControlLinksSound(cs, ll, is) /\ EvidenceLinksSound(es, ll, is)

Tables == {"assessments", "items", "controlLinks", "evidenceLinks", "audit",
           "lastAssessment", "lastItem", "lastLink"}

Sound(d) ==
    /\ DOMAIN d = Tables
    /\ RowsSound(d.assessments, d.items, d.controlLinks, d.evidenceLinks,
                 d.lastAssessment, d.lastItem, d.lastLink)
    /\ AuditSound(d.audit, d.lastAssessment, d.lastItem, d.lastLink)
    /\ Accounted(d.audit, d.assessments, d.items, d.controlLinks, d.evidenceLinks)

-----------------------------------------------------------------------------
(***************************************************************************)
(* The inductive invariant: the requests, the export and the pack.         *)
(***************************************************************************)

\* The content write of q finds its item, or its assessment, under no lock.
FindsUnlocked(q, d) ==
    /\ q.op = "create_item" /\ q.on \in Ids(d) => ~AuthoringLocked(d, q.on)
    /\ /\ q.op \in {"confirm", "amend", "treat", "link_control", "link_evidence"}
       /\ q.on \in DOMAIN d.items
       => ~AuthoringLocked(d, d.items[q.on].of)

\* What q names was drawn, and what q asks for has its type.
NamesDrawn(q, d) ==
    /\ q.op \in {"create_item", "delete_assessment", "submit"} => q.on \in 1 .. d.lastAssessment
    /\ q.op \in {"confirm", "amend", "treat", "delete_item", "link_control", "link_evidence"} =>
          q.on \in 1 .. d.lastItem
    /\ q.op = "unlink_control" => q.on.id \in 1 .. d.lastLink /\ q.on.item \in 1 .. d.lastItem
    /\ q.op = "unlink_evidence" => q.on.id \in 1 .. d.lastLink /\ q.on.item \in 1 .. d.lastItem

\* A Boolean the provers handle as any other value.
Flag(b) == b \in BOOLEAN

AsksTyped(q) ==
    /\ q.op = "amend" => Flag(q.with)
    /\ q.op = "treat" => q.with[1] \in {"MITIGATE", "ACCEPT"} /\ Flag(q.with[2])
    /\ q.op = "link_control" => q.with[1] \in Controls /\ q.with[2] \in Coverages
    /\ q.op = "link_evidence" => q.with \in Evidence
    /\ q.op = "submit" => q.seen[2] \in 0 .. MaxRounds /\ q.seen[2] # MaxRounds

\* An item that was no suggestion is none; a link id means the link it meant.
StillMeans(q, d) ==
    /\ q.op \in {"amend", "treat", "link_evidence"} /\ q.on \in DOMAIN d.items =>
          ~Suggestion(d.items[q.on])
    /\ q.op = "unlink_control" => \A l \in d.controlLinks : l.id = q.on.id => l = q.on
    /\ q.op = "unlink_evidence" => \A l \in d.evidenceLinks : l.id = q.on.id => l = q.on

RequestFields == {"op", "on", "with", "seen", "late"}

Holds(q, d) ==
    /\ DOMAIN q = RequestFields /\ q.late \in BOOLEAN
    /\ AsksTyped(q) /\ NamesDrawn(q, d) /\ StillMeans(q, d)
    /\ ~q.late => FindsUnlocked(q, d)

PackKinds == {"use_case", "system", "framework"}

ExportFields == {"phase", "kind", "framework", "seen", "body"}

ExportSound(x) ==
    x # NoExport =>
        /\ DOMAIN x = ExportFields /\ x.phase \in {"reading", "closing"}
        /\ x.kind \in PackKinds /\ Sound(x.seen)
        /\ x.phase = "closing" => x.body = Body(x.kind, x.framework, x.seen)

PackOf(kind, framework, d) ==
    LET body == Body(kind, framework, d)
        trail == TrailOf(kind, body.record, d)
    IN  [kind |-> kind, framework |-> framework, body |-> body, trail |-> trail,
         hash |-> <<body, hashable_audit_trail(trail)>>, seen |-> d]

PackSound(p) ==
    p # NoPack => /\ p.kind \in PackKinds /\ Sound(p.seen)
                  /\ p = PackOf(p.kind, p.framework, p.seen)

DossierInv ==
    /\ Sound(db)
    /\ req = [r \in Requests |-> req[r]]
    /\ \A r \in Requests : req[r] # NoRequest => Holds(req[r], db)
    /\ ExportSound(export) /\ PackSound(pack)
    /\ writes \in 0 .. MaxWrites

-----------------------------------------------------------------------------
(***************************************************************************)
(* The audit trail with one more event.                                    *)
(***************************************************************************)
With1(au, e) == au (+) SetToBag({e})

LEMMA BagGrows ==
    ASSUME NEW B, IsABag(B), NEW e
    PROVE  /\ IsABag(With1(B, e)) /\ BagToSet(With1(B, e)) = BagToSet(B) \cup {e}
           /\ Copies(e, With1(B, e)) = Copies(e, B) + 1
           /\ \A x : x # e => Copies(x, With1(B, e)) = Copies(x, B)
           /\ \A x : Copies(x, B) \in Nat
BY DEF IsABag, (+), SetToBag, BagToSet, Copies, With1

LEMMA CountAside ==
    ASSUME NEW au, IsABag(au), NEW action, NEW entity, NEW item, NEW a, NEW n,
           a # action \/ n # entity
    PROVE  Count(With1(au, Event(action, entity, item)), a, n) = Count(au, a, n)
<1>1. Event(a, n, 0) # Event(action, entity, item)
  BY DEF Event
<1> QED BY <1>1, BagGrows DEF Count

LEMMA CountGrows ==
    ASSUME NEW au, IsABag(au), NEW action, NEW entity
    PROVE  Count(With1(au, Event(action, entity, 0)), action, entity)
             = Count(au, action, entity) + 1
BY BagGrows DEF Count

LEMMA CountTyped ==
    ASSUME NEW au, IsABag(au), NEW action, NEW entity
    PROVE  Count(au, action, entity) \in Nat
BY BagGrows DEF Count

\* Nothing is on record of what was not drawn.
LEMMA NoCountOfNewAssessment ==
    ASSUME NEW au, NEW la \in Nat, NEW li, NEW ll, AuditSound(au, la, li, ll),
           NEW action, NEW a \in Nat, a > la
    PROVE  Count(au, action, <<"assessment", a>>) = 0
<1>1. Event(action, <<"assessment", a>>, 0) \notin BagToSet(au)
  BY DEF AuditSound, EventSound, Event
<1> QED BY <1>1 DEF Count, Copies

LEMMA NoCountOfNewItem ==
    ASSUME NEW au, NEW la, NEW li \in Nat, NEW ll, AuditSound(au, la, li, ll),
           NEW action, NEW i \in Nat, i > li
    PROVE  Count(au, action, <<"item", i>>) = 0
<1>1. Event(action, <<"item", i>>, 0) \notin BagToSet(au)
  BY DEF AuditSound, EventSound, Event
<1> QED BY <1>1 DEF Count, Copies

LEMMA LinkedAside ==
    ASSUME NEW au, IsABag(au), NEW action, NEW entity, NEW item, NEW a, NEW i,
           a # action \/ i # item
    PROVE  Linked(With1(au, Event(action, entity, item)), a, i) = Linked(au, a, i)
BY BagGrows DEF Linked, Event

LEMMA LinkedGrows ==
    ASSUME NEW au, IsABag(au), NEW action, NEW entity, NEW i
    PROVE  Linked(With1(au, Event(action, entity, i)), action, i)
             = Linked(au, action, i) \cup {entity[2]}
<1> SUFFICES ASSUME NEW e, e = Event(action, entity, i)
             PROVE  Linked(With1(au, e), action, i) = Linked(au, action, i) \cup {entity[2]}
  OBVIOUS
<1>1. BagToSet(With1(au, e)) = BagToSet(au) \cup {e} /\ e.action = action /\ e.item = i
      /\ e.entity = entity
  BY BagGrows DEF Event
<1> QED BY <1>1 DEF Linked

LEMMA AuditGrows ==
    ASSUME NEW au, NEW la \in Nat, NEW li \in Nat, NEW ll \in Nat, AuditSound(au, la, li, ll),
           NEW ma \in Nat, NEW mi \in Nat, NEW ml \in Nat, la <= ma, li <= mi, ll <= ml,
           NEW e, EventSound(e, ma, mi, ml)
    PROVE  AuditSound(With1(au, e), ma, mi, ml)
<1>1. IsABag(With1(au, e)) /\ BagToSet(With1(au, e)) = BagToSet(au) \cup {e}
  BY BagGrows DEF AuditSound
<1>2. ASSUME NEW x \in BagToSet(au) PROVE EventSound(x, ma, mi, ml)
  BY SMTT(30) DEF AuditSound, EventSound
<1> QED BY <1>1, <1>2 DEF AuditSound

-----------------------------------------------------------------------------
(***************************************************************************)
(* The trail goes on accounting for the rows when both change.             *)
(***************************************************************************)
ItemActions ==
    {"assessment_item.confirmed", "assessment_item.amended", "assessment_item.treatment_set"}

LinkActions ==
    {"control_link.created", "control_link.deleted", "evidence.linked", "evidence.unlinked"}

CountedActions == ItemActions \cup LinkActions \cup {"assessment.submitted"}

LEMMA ItemAside ==
    ASSUME NEW au, IsABag(au), NEW action, NEW entity, NEW item, NEW i, NEW it,
           ItemAccounted(au, i, it), action \notin ItemActions \/ entity # <<"item", i>>
    PROVE  ItemAccounted(With1(au, Event(action, entity, item)), i, it)
BY CountAside DEF ItemAccounted, VersionsOf, ItemActions

LEMMA ItemsAside ==
    ASSUME NEW au, IsABag(au), NEW action, NEW entity, NEW item, NEW is,
           ItemsAccounted(au, is), action \notin ItemActions
    PROVE  ItemsAccounted(With1(au, Event(action, entity, item)), is)
BY ItemAside DEF ItemsAccounted

LEMMA LinksAside ==
    ASSUME NEW au, IsABag(au), NEW action, NEW entity, NEW item, NEW is, NEW links,
           NEW created, NEW deleted, LinksAccounted(au, is, links, created, deleted),
           action \notin {created, deleted}
    PROVE  LinksAccounted(With1(au, Event(action, entity, item)), is, links, created, deleted)
BY LinkedAside DEF LinksAccounted

LEMMA RoundsAside ==
    ASSUME NEW au, IsABag(au), NEW action, NEW entity, NEW item, NEW as,
           RoundsAccounted(au, as), action # "assessment.submitted"
    PROVE  RoundsAccounted(With1(au, Event(action, entity, item)), as)
<1> DEFINE submitted == "assessment.submitted"
<1>1. ASSUME NEW a \in DOMAIN as
      PROVE  Count(With1(au, Event(action, entity, item)), submitted, <<"assessment", a>>)
               = Count(au, submitted, <<"assessment", a>>)
  BY CountAside
<1> QED BY <1>1 DEF RoundsAccounted

\* An event of another kind.
LEMMA AccountedAside ==
    ASSUME NEW au, IsABag(au), NEW as, NEW is, NEW cs, NEW es, Accounted(au, as, is, cs, es),
           NEW action, NEW entity, NEW item, action \notin CountedActions
    PROVE  Accounted(With1(au, Event(action, entity, item)), as, is, cs, es)
BY ItemsAside, LinksAside, RoundsAside
   DEF Accounted, CountedActions, ItemActions, LinkActions

\* An event of item i that makes it the next version of itself.
LEMMA ItemChangeAccounted ==
    ASSUME NEW au, IsABag(au), NEW is, ItemsAccounted(au, is), NEW i \in DOMAIN is,
           NEW it, it.lock = is[i].lock + 1, NEW action \in ItemActions,
           IF action = "assessment_item.confirmed"
             THEN Dispositioned(it) /\ ~Dispositioned(is[i])
             ELSE Dispositioned(it) <=> Dispositioned(is[i])
    PROVE  ItemsAccounted(With1(au, Event(action, <<"item", i>>, 0)), [is EXCEPT ![i] = it])
<1> DEFINE e == Event(action, <<"item", i>>, 0)
<1>1. ItemAccounted(With1(au, e), i, it)
  <2>1. Count(With1(au, e), action, <<"item", i>>) = Count(au, action, <<"item", i>>) + 1
    BY CountGrows
  <2>2. \A a \in ItemActions \ {action} :
          Count(With1(au, e), a, <<"item", i>>) = Count(au, a, <<"item", i>>)
    BY CountAside
  <2>3. \A a : Count(au, a, <<"item", i>>) \in Nat
    BY CountTyped
  <2>4. ItemAccounted(au, i, is[i])
    BY DEF ItemsAccounted
  <2> HIDE DEF e
  <2>5. Count(With1(au, e), "assessment_item.confirmed", <<"item", i>>)
          = IF Dispositioned(it) THEN 1 ELSE 0
    BY <2>1, <2>2, <2>4 DEF ItemAccounted, ItemActions, Dispositioned
  <2>6. VersionsOf(With1(au, e), i) = VersionsOf(au, i) + 1
    <3> DEFINE before(a) == Count(au, a, <<"item", i>>)
               after(a) == Count(With1(au, e), a, <<"item", i>>)
    <3>1. /\ after(action) = before(action) + 1
          /\ \A a \in ItemActions : a # action => after(a) = before(a)
      BY <2>1, <2>2
    <3>2. \A a \in ItemActions : before(a) \in Nat
      BY <2>3
    <3> HIDE DEF before, after
    <3>3. after("assessment_item.confirmed") + after("assessment_item.amended")
            + after("assessment_item.treatment_set")
          = before("assessment_item.confirmed") + before("assessment_item.amended")
            + before("assessment_item.treatment_set") + 1
      BY <3>1, <3>2 DEF ItemActions
    <3> QED BY <3>3 DEF VersionsOf, before, after
  <2> QED BY <2>4, <2>5, <2>6 DEF ItemAccounted
<1>2. ASSUME NEW j \in DOMAIN is, j # i PROVE ItemAccounted(With1(au, e), j, is[j])
  BY <1>2, ItemAside DEF ItemsAccounted
<1> HIDE DEF e
<1>3. ItemsAccounted(With1(au, e), [is EXCEPT ![i] = it])
  BY <1>1, <1>2 DEF ItemsAccounted
<1> QED BY <1>3 DEF e

\* A submission opens the next round.
LEMMA SubmissionAccounted ==
    ASSUME NEW au, IsABag(au), NEW as, RoundsAccounted(au, as), NEW a \in DOMAIN as,
           NEW row, row.round = as[a].round + 1
    PROVE  RoundsAccounted(With1(au, Event("assessment.submitted", <<"assessment", a>>, 0)),
                           [as EXCEPT ![a] = row])
<1> DEFINE B == With1(au, Event("assessment.submitted", <<"assessment", a>>, 0))
<1>1. row.round = Count(B, "assessment.submitted", <<"assessment", a>>)
  <2>1. Count(B, "assessment.submitted", <<"assessment", a>>)
          = Count(au, "assessment.submitted", <<"assessment", a>>) + 1
    BY CountGrows
  <2> QED BY <2>1 DEF RoundsAccounted
<1>2. ASSUME NEW b \in DOMAIN as, b # a
      PROVE  as[b].round = Count(B, "assessment.submitted", <<"assessment", b>>)
  <2>1. <<"assessment", b>> # <<"assessment", a>>
    BY <1>2
  <2>2. Count(B, "assessment.submitted", <<"assessment", b>>)
          = Count(au, "assessment.submitted", <<"assessment", b>>)
    BY <2>1, CountAside
  <2> QED BY <2>2 DEF RoundsAccounted
<1> HIDE DEF B
<1>3. RoundsAccounted(B, [as EXCEPT ![a] = row])
  BY <1>1, <1>2 DEF RoundsAccounted
<1> QED BY <1>3 DEF B

\* A link with a new id.
LEMMA LinkCreatedAccounted ==
    ASSUME NEW au, IsABag(au), NEW is, NEW links, NEW created, NEW deleted,
           LinksAccounted(au, is, links, created, deleted), created # deleted,
           NEW l, NEW table, l.id \notin Linked(au, deleted, l.item)
    PROVE  LinksAccounted(With1(au, Event(created, <<table, l.id>>, l.item)), is,
                          links \cup {l}, created, deleted)
<1> DEFINE B == With1(au, Event(created, <<table, l.id>>, l.item))
           later == links \cup {l}
<1> SUFFICES ASSUME NEW i \in DOMAIN is
             PROVE  LinkIdsOf(later, i) = Linked(B, created, i) \ Linked(B, deleted, i)
  BY DEF LinksAccounted
<1>1. /\ Linked(B, deleted, i) = Linked(au, deleted, i)
      /\ LinkIdsOf(links, i) = Linked(au, created, i) \ Linked(au, deleted, i)
  BY LinkedAside DEF LinksAccounted
<1>2. CASE i = l.item
  <2>1. Linked(B, created, i) = Linked(au, created, i) \cup {l.id}
    BY <1>2, LinkedGrows
  <2>2. LinkIdsOf(later, i) = LinkIdsOf(links, i) \cup {l.id}
    BY <1>2 DEF LinkIdsOf, IdsOf
  <2> QED BY <1>1, <1>2, <2>1, <2>2
<1>3. CASE i # l.item
  <2>1. Linked(B, created, i) = Linked(au, created, i)
    BY <1>3, LinkedAside
  <2>2. LinkIdsOf(later, i) = LinkIdsOf(links, i)
    BY <1>3 DEF LinkIdsOf, IdsOf
  <2> QED BY <1>1, <2>1, <2>2
<1> QED BY <1>2, <1>3

\* A link is deleted, or was before.
LEMMA LinkDeletedAccounted ==
    ASSUME NEW au, IsABag(au), NEW is, NEW links, NEW created, NEW deleted,
           LinksAccounted(au, is, links, created, deleted), created # deleted,
           NEW l, NEW table, \A m \in links : m.id = l.id => m = l
    PROVE  LinksAccounted(With1(au, Event(deleted, <<table, l.id>>, l.item)), is,
                          links \ {l}, created, deleted)
<1> DEFINE B == With1(au, Event(deleted, <<table, l.id>>, l.item))
           later == links \ {l}
<1> SUFFICES ASSUME NEW i \in DOMAIN is
             PROVE  LinkIdsOf(later, i) = Linked(B, created, i) \ Linked(B, deleted, i)
  BY DEF LinksAccounted
<1>1. /\ Linked(B, created, i) = Linked(au, created, i)
      /\ LinkIdsOf(links, i) = Linked(au, created, i) \ Linked(au, deleted, i)
  BY LinkedAside DEF LinksAccounted
<1>2. CASE i = l.item
  <2>1. Linked(B, deleted, i) = Linked(au, deleted, i) \cup {l.id}
    BY <1>2, LinkedGrows
  <2>2. LinkIdsOf(later, i) = LinkIdsOf(links, i) \ {l.id}
    BY <1>2 DEF LinkIdsOf, IdsOf
  <2> QED BY <1>1, <2>1, <2>2
<1>3. CASE i # l.item
  <2>1. Linked(B, deleted, i) = Linked(au, deleted, i)
    BY <1>3, LinkedAside
  <2>2. LinkIdsOf(later, i) = LinkIdsOf(links, i)
    BY <1>3 DEF LinkIdsOf, IdsOf
  <2> QED BY <1>1, <2>1, <2>2
<1> QED BY <1>2, <1>3

\* The links that stay when the items I go.
Kept(links, I) == {l \in links : l.item \notin I}

\* Rows go, an item with its links.
LEMMA FewerAccounted ==
    ASSUME NEW au, NEW as, NEW is, NEW cs, NEW es, Accounted(au, as, is, cs, es), NEW A, NEW I
    PROVE  Accounted(au, Restrict(as, DOMAIN as \ A), Restrict(is, DOMAIN is \ I),
                     Kept(cs, I), Kept(es, I))
<1> DEFINE rest == Restrict(is, DOMAIN is \ I)
<1>1. DOMAIN rest = DOMAIN is \ I /\ \A i \in DOMAIN rest : rest[i] = is[i]
  BY DEF Restrict
<1>2. ASSUME NEW links, NEW i \in DOMAIN rest
      PROVE  LinkIdsOf(Kept(links, I), i) = LinkIdsOf(links, i)
  BY <1>1 DEF LinkIdsOf, IdsOf, Kept
<1>3. ItemsAccounted(au, rest)
  BY <1>1 DEF Accounted, ItemsAccounted
<1> HIDE DEF rest
<1>4. ASSUME NEW links, NEW created, NEW deleted, LinksAccounted(au, is, links, created, deleted)
      PROVE  LinksAccounted(au, rest, Kept(links, I), created, deleted)
  BY <1>1, <1>2, <1>4 DEF LinksAccounted
<1>5. RoundsAccounted(au, Restrict(as, DOMAIN as \ A))
  BY DEF Accounted, RoundsAccounted, Restrict
<1>6. Accounted(au, Restrict(as, DOMAIN as \ A), rest, Kept(cs, I), Kept(es, I))
  BY <1>3, <1>4, <1>5 DEF Accounted
<1> QED BY <1>6 DEF rest

\* Rows come, of which nothing is on record.
LEMMA MoreItemsAccounted ==
    ASSUME NEW au, NEW la, NEW li \in Nat, NEW ll, AuditSound(au, la, li, ll),
           NEW is, ItemsAccounted(au, is), NEW more,
           \A i \in DOMAIN more : /\ i \in DOMAIN is => more[i] = is[i]
                                  /\ i \notin DOMAIN is =>
                                       i \in Nat /\ i > li /\ more[i].lock = 0
                                       /\ ~Dispositioned(more[i])
    PROVE  ItemsAccounted(au, more)
<1>1. ASSUME NEW i \in DOMAIN more, i \notin DOMAIN is PROVE ItemAccounted(au, i, more[i])
  <2>1. \A a : Count(au, a, <<"item", i>>) = 0
    BY <1>1, NoCountOfNewItem
  <2> QED BY <1>1, <2>1 DEF ItemAccounted, VersionsOf
<1>2. ASSUME NEW i \in DOMAIN more, i \in DOMAIN is PROVE ItemAccounted(au, i, more[i])
  BY <1>2 DEF ItemsAccounted
<1> QED BY <1>1, <1>2 DEF ItemsAccounted

LEMMA MoreLinksAccounted ==
    ASSUME NEW au, NEW la, NEW li \in Nat, NEW ll, AuditSound(au, la, li, ll),
           NEW is, NEW links, \A l \in links : l.item \in DOMAIN is,
           NEW created \in LinkActions, NEW deleted,
           LinksAccounted(au, is, links, created, deleted), NEW more,
           \A i \in DOMAIN more : i \in DOMAIN is \/ (i \in Nat /\ i > li)
    PROVE  LinksAccounted(au, more, links, created, deleted)
<1>1. ASSUME NEW i \in DOMAIN more, i \notin DOMAIN is
      PROVE  LinkIdsOf(links, i) = Linked(au, created, i) \ Linked(au, deleted, i)
  <2>1. Linked(au, created, i) = {}
    BY <1>1 DEF Linked, AuditSound, EventSound, LinkActions
  <2>2. LinkIdsOf(links, i) = {}
    BY <1>1 DEF LinkIdsOf, IdsOf
  <2> QED BY <2>1, <2>2
<1> QED BY <1>1 DEF LinksAccounted

MoreRounds(as, more, la) ==
    \A a \in DOMAIN more : /\ a \in DOMAIN as => more[a].round = as[a].round
                           /\ a \notin DOMAIN as =>
                                a \in Nat /\ a > la /\ more[a].round = 0

LEMMA MoreRoundsAccounted ==
    ASSUME NEW au, NEW la \in Nat, NEW li, NEW ll, AuditSound(au, la, li, ll),
           NEW as, RoundsAccounted(au, as), NEW more, MoreRounds(as, more, la)
    PROVE  RoundsAccounted(au, more)
<1> USE DEF MoreRounds
<1>1. ASSUME NEW a \in DOMAIN more, a \notin DOMAIN as
      PROVE  more[a].round = Count(au, "assessment.submitted", <<"assessment", a>>)
  BY <1>1, NoCountOfNewAssessment
<1> QED BY <1>1 DEF RoundsAccounted

-----------------------------------------------------------------------------
(***************************************************************************)
(* What each write leaves: the tables of e are these.                      *)
(***************************************************************************)
Has(e, as, is, cs, es, au, la, li, ll) ==
    /\ DOMAIN e = Tables
    /\ e.assessments = as /\ e.items = is /\ e.controlLinks = cs /\ e.evidenceLinks = es
    /\ e.audit = au /\ e.lastAssessment = la /\ e.lastItem = li /\ e.lastLink = ll

LEMMA HasSound ==
    ASSUME NEW e, NEW as, NEW is, NEW cs, NEW es, NEW au, NEW la, NEW li, NEW ll,
           Has(e, as, is, cs, es, au, la, li, ll), RowsSound(as, is, cs, es, la, li, ll),
           AuditSound(au, la, li, ll), Accounted(au, as, is, cs, es)
    PROVE  Sound(e)
BY DEF Has, Sound

LEMMA StagedHas ==
    ASSUME NEW d, DOMAIN d = Tables, NEW e
    PROVE  Has(Staged(d, e), d.assessments, d.items, d.controlLinks, d.evidenceLinks,
               With1(d.audit, e), d.lastAssessment, d.lastItem, d.lastLink)
BY DEF Has, Tables, Staged, With1

NewItems(d, type, a) ==
    [i \in d.lastItem + 1 .. d.lastItem + Len(Prefills[type]) |->
        NewItem(Prefills[type][i - d.lastItem], a)]

LEMMA WithAssessmentHas ==
    ASSUME NEW d, DOMAIN d = Tables, NEW row, NEW action
    PROVE  LET a == d.lastAssessment + 1 IN
           Has(WithAssessment(d, row, action),
               Inserted(d.assessments, [x \in {a} |-> row]),
               Inserted(d.items, NewItems(d, row.type, a)),
               d.controlLinks, d.evidenceLinks,
               With1(d.audit, Event(action, <<"assessment", a>>, 0)),
               a, d.lastItem + Len(Prefills[row.type]), d.lastLink)
BY DEF Has, Tables, Staged, With1, WithAssessment, NewItems

CreatedItem(a, answered) ==
    [NewItem("section", a) EXCEPT
        !.provenance = IF answered THEN "USER_AMENDED" ELSE "CATALOGUE_CURATED"]

LEMMA ItemCreatedHas ==
    ASSUME NEW d, DOMAIN d = Tables, NEW a, NEW answered
    PROVE  LET i == d.lastItem + 1 IN
           Has(item_created(d, a, answered), d.assessments,
               Inserted(d.items, [x \in {i} |-> CreatedItem(a, answered)]),
               d.controlLinks, d.evidenceLinks,
               With1(d.audit, Event("assessment_item.created", <<"item", i>>, 0)),
               d.lastAssessment, i, d.lastLink)
BY DEF Has, Tables, Staged, With1, item_created, CreatedItem

\* The next version of item it.
Version(it, provenance, decision, plan, rationale) ==
    [it EXCEPT !.provenance = provenance, !.lock = it.lock + 1, !.decision = decision,
               !.plan = plan, !.rationale = rationale]

ChangedHas(e, d, i, it, action) ==
    Has(e, d.assessments, [d.items EXCEPT ![i] = it], d.controlLinks, d.evidenceLinks,
        With1(d.audit, Event(action, <<"item", i>>, 0)),
        d.lastAssessment, d.lastItem, d.lastLink)

LEMMA ItemConfirmedHas ==
    ASSUME NEW d, DOMAIN d = Tables, NEW i \in DOMAIN d.items, d.items[i] \in Items
    PROVE  LET it == d.items[i] IN
           ChangedHas(item_confirmed(d, i), d, i,
               Version(it, "USER_CONFIRMED", it.decision, it.plan, it.rationale),
               "assessment_item.confirmed")
BY ZenonT(60) DEF Has, Tables, Staged, With1, item_confirmed, ChangedHas, Version, Items

LEMMA ItemAmendedHas ==
    ASSUME NEW d, DOMAIN d = Tables, NEW i \in DOMAIN d.items, d.items[i] \in Items, NEW plan
    PROVE  LET it == d.items[i]
               flipped == IF it.provenance = "CATALOGUE_CURATED" THEN "USER_AMENDED"
                          ELSE it.provenance
           IN  ChangedHas(item_amended(d, i, plan), d, i,
                   Version(it, flipped, it.decision, plan, it.rationale),
                   "assessment_item.amended")
<1> DEFINE it == d.items[i]
           flipped == IF it.provenance = "CATALOGUE_CURATED" THEN "USER_AMENDED"
                      ELSE it.provenance
           left == [d EXCEPT !.items[i].provenance = flipped, !.items[i].lock = @ + 1,
                             !.items[i].plan = plan]
           e == Event("assessment_item.amended", <<"item", i>>, 0)
<1>1. item_amended(d, i, plan) = Staged(left, e)
  BY DEF item_amended
<1> HIDE DEF flipped, e
<1>2. Has(left, d.assessments,
          [d.items EXCEPT ![i] = Version(it, flipped, it.decision, plan, it.rationale)],
          d.controlLinks, d.evidenceLinks, d.audit, d.lastAssessment, d.lastItem, d.lastLink)
  BY ZenonT(60) DEF Has, Tables, Version, Items
<1> HIDE DEF left
<1>3. Has(Staged(left, e), left.assessments, left.items, left.controlLinks, left.evidenceLinks,
          With1(left.audit, e), left.lastAssessment, left.lastItem, left.lastLink)
  BY <1>2, StagedHas DEF Has
<1> QED BY <1>1, <1>2, <1>3 DEF Has, ChangedHas, flipped, e

LEMMA TreatmentSetHas ==
    ASSUME NEW d, DOMAIN d = Tables, NEW i \in DOMAIN d.items, d.items[i] \in Items,
           NEW decision, NEW rationale
    PROVE  LET it == d.items[i] IN
           ChangedHas(treatment_set(d, i, decision, rationale), d, i,
               Version(it, it.provenance, decision, it.plan, rationale),
               "assessment_item.treatment_set")
BY ZenonT(60) DEF Has, Tables, Staged, With1, treatment_set, ChangedHas, Version, Items

\* The assessments A and the items I are gone, the items with their links.
RemovedHas(e, d, A, I, event) ==
    Has(e, Restrict(d.assessments, DOMAIN d.assessments \ A),
        Restrict(d.items, DOMAIN d.items \ I),
        Kept(d.controlLinks, I), Kept(d.evidenceLinks, I),
        With1(d.audit, event), d.lastAssessment, d.lastItem, d.lastLink)

LEMMA WithoutItemsHas ==
    ASSUME NEW d, DOMAIN d = Tables, NEW I
    PROVE  Has(WithoutItems(d, I), d.assessments, Restrict(d.items, DOMAIN d.items \ I),
               Kept(d.controlLinks, I), Kept(d.evidenceLinks, I),
               d.audit, d.lastAssessment, d.lastItem, d.lastLink)
BY DEF Has, Tables, WithoutItems, Kept

LEMMA ItemDeletedHas ==
    ASSUME NEW d, DOMAIN d = Tables, d.assessments = Restrict(d.assessments, DOMAIN d.assessments), NEW i
    PROVE  RemovedHas(item_deleted(d, i), d, {}, {i},
                      Event("assessment_item.deleted", <<"item", i>>, 0))
<1> DEFINE rest == WithoutItems(d, {i})
           e == Event("assessment_item.deleted", <<"item", i>>, 0)
<1>1. Restrict(d.assessments, DOMAIN d.assessments \ {}) = d.assessments
  <2>1. DOMAIN d.assessments \ {} = DOMAIN d.assessments
    OBVIOUS
  <2> QED BY <2>1
<1>2. Has(rest, d.assessments, Restrict(d.items, DOMAIN d.items \ {i}),
          Kept(d.controlLinks, {i}), Kept(d.evidenceLinks, {i}),
          d.audit, d.lastAssessment, d.lastItem, d.lastLink)
  BY WithoutItemsHas
<1> HIDE DEF rest, e
<1>3. Has(Staged(rest, e), rest.assessments, rest.items, rest.controlLinks, rest.evidenceLinks,
          With1(rest.audit, e), rest.lastAssessment, rest.lastItem, rest.lastLink)
  BY <1>2, StagedHas DEF Has
<1>4. RemovedHas(Staged(rest, e), d, {}, {i}, e)
  BY <1>1, <1>2, <1>3 DEF Has, RemovedHas
<1> QED BY <1>4 DEF item_deleted, rest, e

LEMMA AssessmentDeletedHas ==
    ASSUME NEW d, DOMAIN d = Tables, NEW a
    PROVE  RemovedHas(assessment_deleted(d, a), d, Family(d, a), ItemsIn(d, Family(d, a)),
                      Event("assessment.deleted", <<"assessment", a>>, 0))
<1> DEFINE gone == Family(d, a)
           rest == WithoutItems(d, ItemsIn(d, gone))
           left == [rest EXCEPT !.assessments = Restrict(@, DOMAIN @ \ gone)]
           e == Event("assessment.deleted", <<"assessment", a>>, 0)
<1>1. assessment_deleted(d, a) = Staged(left, e)
  BY DEF assessment_deleted
<1> HIDE DEF gone, e
<1>2. Has(rest, d.assessments, Restrict(d.items, DOMAIN d.items \ ItemsIn(d, gone)),
          Kept(d.controlLinks, ItemsIn(d, gone)), Kept(d.evidenceLinks, ItemsIn(d, gone)),
          d.audit, d.lastAssessment, d.lastItem, d.lastLink)
  BY WithoutItemsHas
<1> HIDE DEF rest
<1>3. Has(left, Restrict(d.assessments, DOMAIN d.assessments \ gone), rest.items,
          rest.controlLinks, rest.evidenceLinks, rest.audit, rest.lastAssessment,
          rest.lastItem, rest.lastLink)
  BY <1>2 DEF Has, Tables
<1> HIDE DEF left
<1>4. Has(Staged(left, e), left.assessments, left.items, left.controlLinks, left.evidenceLinks,
          With1(left.audit, e), left.lastAssessment, left.lastItem, left.lastLink)
  BY <1>3, StagedHas DEF Has
<1>5. RemovedHas(Staged(left, e), d, gone, ItemsIn(d, gone), e)
  BY <1>2, <1>3, <1>4 DEF Has, RemovedHas
<1> QED BY <1>1, <1>5 DEF gone, e, left, rest

LEMMA ControlLinkedHas ==
    ASSUME NEW d, DOMAIN d = Tables, NEW i, NEW c, NEW coverage
    PROVE  LET n == d.lastLink + 1
               l == [id |-> n, item |-> i, control |-> c, coverage |-> coverage]
           IN  Has(control_linked(d, i, c, coverage), d.assessments, d.items,
                   d.controlLinks \cup {l}, d.evidenceLinks,
                   With1(d.audit, Event("control_link.created", <<"control_link", l.id>>, l.item)),
                   d.lastAssessment, d.lastItem, n)
BY DEF Has, Tables, Staged, With1, control_linked

LEMMA ControlUnlinkedHas ==
    ASSUME NEW d, DOMAIN d = Tables, NEW l
    PROVE  Has(control_unlinked(d, l), d.assessments, d.items,
               d.controlLinks \ {l}, d.evidenceLinks,
               With1(d.audit, Event("control_link.deleted", <<"control_link", l.id>>, l.item)),
               d.lastAssessment, d.lastItem, d.lastLink)
BY DEF Has, Tables, Staged, With1, control_unlinked

LEMMA EvidenceLinkedHas ==
    ASSUME NEW d, DOMAIN d = Tables, NEW i, NEW x
    PROVE  LET n == d.lastLink + 1
               l == [id |-> n, item |-> i, evidence |-> x]
           IN  Has(evidence_linked(d, i, x), d.assessments, d.items,
                   d.controlLinks, d.evidenceLinks \cup {l},
                   With1(d.audit, Event("evidence.linked", <<"evidence_link", l.id>>, l.item)),
                   d.lastAssessment, d.lastItem, n)
BY DEF Has, Tables, Staged, With1, evidence_linked

LEMMA EvidenceUnlinkedHas ==
    ASSUME NEW d, DOMAIN d = Tables, NEW l
    PROVE  Has(evidence_unlinked(d, l), d.assessments, d.items,
               d.controlLinks, d.evidenceLinks \ {l},
               With1(d.audit, Event("evidence.unlinked", <<"evidence_link", l.id>>, l.item)),
               d.lastAssessment, d.lastItem, d.lastLink)
BY DEF Has, Tables, Staged, With1, evidence_unlinked

\* The next version of assessment row.
ReviewedRow(row, status, round, reviewed) ==
    [row EXCEPT !.status = status, !.round = round, !.reviewed = reviewed]

ReviewedHas(e, d, a, row, audit) ==
    Has(e, [d.assessments EXCEPT ![a] = row], d.items, d.controlLinks, d.evidenceLinks,
        audit, d.lastAssessment, d.lastItem, d.lastLink)

LEMMA SubmittedHas ==
    ASSUME NEW d, DOMAIN d = Tables, NEW a \in Ids(d), d.assessments[a] \in AssessmentRows
    PROVE  LET row == d.assessments[a] IN
           ReviewedHas(assessment_submitted(d, a), d, a,
               ReviewedRow(row, "IN_REVIEW", row.round + 1, row.reviewed),
               With1(d.audit, Event("assessment.submitted", <<"assessment", a>>, 0)))
BY DEF Has, Tables, Staged, With1, assessment_submitted, ReviewedHas, ReviewedRow, Ids,
   AssessmentRows

LEMMA ReviewRecordedHas ==
    ASSUME NEW d, DOMAIN d = Tables, NEW a \in Ids(d), d.assessments[a] \in AssessmentRows,
           NEW status
    PROVE  LET row == d.assessments[a] IN
           ReviewedHas(review_recorded(d, a, status), d, a,
               ReviewedRow(row, status, row.round, TRUE),
               With1(d.audit, Event("assessment.review_recorded", <<"assessment", a>>, 0)))
BY DEF Has, Tables, Staged, With1, review_recorded, ReviewedHas, ReviewedRow, Ids,
   AssessmentRows

LEMMA ReopenedHas ==
    ASSUME NEW d, DOMAIN d = Tables, NEW a \in Ids(d), d.assessments[a] \in AssessmentRows
    PROVE  LET row == d.assessments[a] IN
           ReviewedHas(assessment_reopened(d, a), d, a,
               ReviewedRow(row, "NEEDS_REFRESH", row.round, row.reviewed),
               With1(With1(d.audit, Event("assessment.reopened", <<"assessment", a>>, 0)),
                     Event("assessment.needs_refresh", <<"assessment", a>>, 0)))
BY DEF Has, Tables, Staged, With1, assessment_reopened, ReviewedHas, ReviewedRow, Ids,
   AssessmentRows

-----------------------------------------------------------------------------
(***************************************************************************)
(* The rows e follow the rows d: ids are drawn once, a row that stays      *)
(* stays where it belongs, an item never becomes a suggestion, a link      *)
(* never changes.  Content changes, or gains links, only in the            *)
(* assessments S and in new ones.                                          *)
(***************************************************************************)
Later(d, e) ==
    /\ d.lastAssessment <= e.lastAssessment /\ d.lastItem <= e.lastItem
    /\ d.lastLink <= e.lastLink
    /\ \A a \in Ids(e) :
          /\ a \in Ids(d) => e.assessments[a].parent = d.assessments[a].parent
          /\ a \notin Ids(d) => a > d.lastAssessment
    /\ \A i \in DOMAIN e.items :
          /\ i \in DOMAIN d.items =>
                /\ e.items[i].of = d.items[i].of
                /\ Suggestion(e.items[i]) => Suggestion(d.items[i])
          /\ i \notin DOMAIN d.items => i > d.lastItem
    /\ \A l \in e.controlLinks : l \in d.controlLinks \/ l.id > d.lastLink
    /\ \A l \in e.evidenceLinks : l \in d.evidenceLinks \/ l.id > d.lastLink

Touches(d, e, S) ==
    \A i \in DOMAIN e.items :
        /\ i \in DOMAIN d.items =>
              \/ d.items[i].of \in S
              \/ e.items[i] = d.items[i] /\ LinksOf(e, i) \subseteq LinksOf(d, i)
        /\ i \notin DOMAIN d.items => e.items[i].of \notin Ids(d) \ S

Follows(d, e, S) == Sound(e) /\ Later(d, e) /\ Touches(d, e, S)

\* Links stay sound while their items stay.
LEMMA LinksStaySound ==
    ASSUME NEW cs, NEW es, NEW ll, NEW is,
           ControlLinksSound(cs, ll, is), EvidenceLinksSound(es, ll, is), NEW more,
           \A i \in DOMAIN is : i \in DOMAIN more /\ (Suggestion(more[i]) => Suggestion(is[i]))
    PROVE  ControlLinksSound(cs, ll, more) /\ EvidenceLinksSound(es, ll, more)
BY DEF ControlLinksSound, EvidenceLinksSound

\* An event that counts for nothing.
LEMMA EventFollows ==
    ASSUME NEW d, Sound(d), NEW e, NEW action, action \notin CountedActions, NEW entity, NEW item,
           EventSound(Event(action, entity, item), d.lastAssessment, d.lastItem, d.lastLink),
           Has(e, d.assessments, d.items, d.controlLinks, d.evidenceLinks,
               With1(d.audit, Event(action, entity, item)),
               d.lastAssessment, d.lastItem, d.lastLink)
    PROVE  Follows(d, e, {})
<1> DEFINE au == With1(d.audit, Event(action, entity, item))
<1>1. AuditSound(au, d.lastAssessment, d.lastItem, d.lastLink)
  BY AuditGrows DEF Sound, RowsSound
<1>2. Accounted(au, d.assessments, d.items, d.controlLinks, d.evidenceLinks)
  BY AccountedAside DEF Sound, AuditSound
<1> HIDE DEF au
<1>3. Sound(e)
  BY <1>1, <1>2, HasSound DEF Sound, au
<1>4. Later(d, e)
  BY DEF Later, Has, Ids, Sound, RowsSound
<1>5. Touches(d, e, {})
  BY DEF Touches, Has, LinksOf
<1> QED BY <1>3, <1>4, <1>5 DEF Follows

LEMMA NewItemSound ==
    ASSUME NEW kind \in Kinds, NEW a \in Nat
    PROVE  LET it == NewItem(kind, a) IN
           /\ it \in Items /\ ItemSound(it) /\ ~Dispositioned(it) /\ it.of = a /\ it.lock = 0
<1>1. CASE kind = "section"
  BY <1>1 DEF NewItem, Items, ItemSound, Dispositioned, Suggestion, Kinds
<1>2. CASE kind = "fact"
  BY <1>2 DEF NewItem, Items, ItemSound, Dispositioned, Suggestion, Kinds
<1>3. CASE kind = "risk"
  BY <1>3 DEF NewItem, Items, ItemSound, Dispositioned, Suggestion, Kinds
<1> QED BY <1>1, <1>2, <1>3 DEF Kinds

LEMMA NewItemsSound ==
    ASSUME NEW d, d.lastItem \in Nat, NEW type \in Types, NEW a \in Nat
    PROVE  /\ Len(Prefills[type]) \in Nat
           /\ \A i \in DOMAIN NewItems(d, type, a) :
                 LET it == NewItems(d, type, a)[i] IN
                 /\ i \in Nat /\ i > d.lastItem /\ i <= d.lastItem + Len(Prefills[type])
                 /\ it \in Items /\ ItemSound(it) /\ ~Dispositioned(it)
                 /\ it.of = a /\ it.lock = 0
<1>1. Prefills[type] \in Seq(Kinds)
  BY DEF DossierAssumption
<1>2. Len(Prefills[type]) \in Nat
  BY <1>1
<1>3. ASSUME NEW i \in d.lastItem + 1 .. d.lastItem + Len(Prefills[type])
      PROVE  /\ i \in Nat /\ i > d.lastItem /\ i <= d.lastItem + Len(Prefills[type])
             /\ Prefills[type][i - d.lastItem] \in Kinds
  BY <1>1, <1>2
<1> QED BY <1>2, <1>3, NewItemSound DEF NewItems

\* The table with new rows.
LEMMA InsertedRows ==
    ASSUME NEW table, NEW new, \A x \in DOMAIN new : x \notin DOMAIN table
    PROVE  /\ DOMAIN Inserted(table, new) = DOMAIN table \cup DOMAIN new
           /\ \A x \in DOMAIN table : Inserted(table, new)[x] = table[x]
           /\ \A x \in DOMAIN new : Inserted(table, new)[x] = new[x]
BY DEF Inserted

LEMMA AssessmentFollows ==
    ASSUME NEW d, Sound(d), NEW type \in Types, NEW parent \in {0} \cup Aiias(d),
           NEW tier \in AssessedTiers, NEW action, action \notin CountedActions
    PROVE  Follows(d, WithAssessment(d, NewRow(type, parent, tier), action), {})
<1> DEFINE row == NewRow(type, parent, tier)
           e == WithAssessment(d, row, action)
           a == d.lastAssessment + 1
           as == Inserted(d.assessments, [x \in {a} |-> row])
           new == NewItems(d, type, a)
           is == Inserted(d.items, new)
           li == d.lastItem + Len(Prefills[type])
           au == With1(d.audit, Event(action, <<"assessment", a>>, 0))
<1>1. Has(e, as, is, d.controlLinks, d.evidenceLinks, au, a, li, d.lastLink)
  <2>1. row.type = type
    BY DEF NewRow
  <2> HIDE DEF row
  <2> QED BY <2>1, WithAssessmentHas DEF Sound
<1>2. /\ a \in Nat /\ a > d.lastAssessment /\ li \in Nat /\ li >= d.lastItem
      /\ d.lastLink \in Nat /\ d.lastAssessment \in Nat /\ d.lastItem \in Nat
  BY NewItemsSound DEF Sound, RowsSound
<1>3. row \in AssessmentRows /\ row.parent = parent /\ row.round = 0
  <2>1. parent \in Nat
    BY DEF Aiias, Ids, Sound, RowsSound, AssessmentsSound
  <2> QED BY <2>1 DEF NewRow, AssessmentRows, Statuses, DossierAssumption
<1>4. \A i \in DOMAIN new : /\ i \in Nat /\ i > d.lastItem /\ i <= li
                            /\ new[i] \in Items /\ ItemSound(new[i]) /\ ~Dispositioned(new[i])
                            /\ new[i].of = a /\ new[i].lock = 0
  BY <1>2, NewItemsSound
<1> HIDE DEF row, e, a, new, li
<1>5. /\ DOMAIN as = Ids(d) \cup {a} /\ as[a] = row
      /\ \A b \in Ids(d) : as[b] = d.assessments[b] /\ b \in 1 .. d.lastAssessment /\ b # a
  <2>1. \A b \in Ids(d) : b \in 1 .. d.lastAssessment
    BY DEF Sound, RowsSound, AssessmentsSound, Ids
  <2> DEFINE new1 == [x \in {a} |-> row]
  <2>2. DOMAIN new1 = {a} /\ new1[a] = row
    OBVIOUS
  <2>3. \A x \in DOMAIN new1 : x \notin DOMAIN d.assessments
    BY <2>1, <2>2, <1>2 DEF Ids
  <2> HIDE DEF new1
  <2>4. /\ DOMAIN Inserted(d.assessments, new1) = DOMAIN d.assessments \cup DOMAIN new1
        /\ \A x \in DOMAIN d.assessments :
              Inserted(d.assessments, new1)[x] = d.assessments[x]
        /\ \A x \in DOMAIN new1 : Inserted(d.assessments, new1)[x] = new1[x]
    BY <2>3, InsertedRows, ZenonT(60)
  <2>5. as = Inserted(d.assessments, new1)
    BY DEF new1
  <2> HIDE DEF as
  <2> QED BY <2>1, <2>2, <2>4, <2>5, <1>2 DEF Ids
<1>6. /\ DOMAIN is = DOMAIN d.items \cup DOMAIN new
      /\ \A i \in DOMAIN d.items : is[i] = d.items[i] /\ i \in 1 .. d.lastItem
      /\ \A i \in DOMAIN new : is[i] = new[i] /\ i \notin DOMAIN d.items
  <2>1. \A i \in DOMAIN d.items : i \in 1 .. d.lastItem
    BY DEF Sound, RowsSound, ItemsSound
  <2>2. \A x \in DOMAIN new : x \notin DOMAIN d.items
    BY <2>1, <1>2, <1>4
  <2>3. /\ DOMAIN is = DOMAIN d.items \cup DOMAIN new
        /\ \A x \in DOMAIN d.items : is[x] = d.items[x]
        /\ \A x \in DOMAIN new : is[x] = new[x]
    BY <2>2, InsertedRows, ZenonT(60)
  <2> QED BY <2>1, <2>2, <2>3
<1>7. RowsSound(as, is, d.controlLinks, d.evidenceLinks, a, li, d.lastLink)
  <2>1. as \in [DOMAIN as -> AssessmentRows]
    BY <1>3, <1>5 DEF Inserted, Sound, RowsSound, AssessmentsSound, Ids
  <2> HIDE DEF as
  <2>6. ASSUME NEW b \in DOMAIN as, as[b].parent # 0
        PROVE  as[b].parent \in Ids(d) /\ d.assessments[as[b].parent].parent = 0
    BY <2>6, <1>3, <1>5, ZenonT(60) DEF Sound, RowsSound, AssessmentsSound, Ids, Aiias
  <2>2. AssessmentsSound(as, a)
    <3>1. ASSUME NEW b \in DOMAIN as PROVE b \in 1 .. a
      <4>1. CASE b \in Ids(d)
        <5>1. b \in 1 .. d.lastAssessment
          BY <1>5, <4>1
        <5> QED BY <5>1, <1>2
      <4>2. CASE b = a
        BY <1>2, <4>2
      <4> QED BY <1>5, <4>1, <4>2
    <3>2. \A b \in Ids(d) : b \in DOMAIN as /\ as[b].parent = d.assessments[b].parent
      BY <1>5
    <3> QED BY <2>1, <2>6, <3>1, <3>2 DEF AssessmentsSound
  <2>3. is \in [DOMAIN is -> Items]
    BY <1>4, <1>6 DEF Inserted, Sound, RowsSound, ItemsSound
  <2>4. ItemsSound(is, li, as)
    BY <2>3, <1>2, <1>4, <1>5, <1>6 DEF Sound, RowsSound, ItemsSound, Ids
  <2>5. ControlLinksSound(d.controlLinks, d.lastLink, is)
        /\ EvidenceLinksSound(d.evidenceLinks, d.lastLink, is)
    BY <1>6, LinksStaySound DEF Sound, RowsSound
  <2> QED BY <2>2, <2>4, <2>5, <1>2 DEF RowsSound
<1>8. AuditSound(au, a, li, d.lastLink)
  <2>1. EventSound(Event(action, <<"assessment", a>>, 0), a, li, d.lastLink)
    BY <1>2 DEF EventSound, Event, CountedActions, LinkActions
  <2> QED BY <2>1, <1>2, AuditGrows DEF Sound
<1>9. Accounted(au, as, is, d.controlLinks, d.evidenceLinks)
  <2>1. ItemsAccounted(d.audit, is)
    BY <1>2, <1>4, <1>6, MoreItemsAccounted DEF Sound, Accounted
  <2>2. /\ \A l \in d.controlLinks : l.item \in DOMAIN d.items
        /\ \A l \in d.evidenceLinks : l.item \in DOMAIN d.items
        /\ \A i \in DOMAIN is : i \in DOMAIN d.items \/ (i \in Nat /\ i > d.lastItem)
    BY <1>4, <1>6 DEF Sound, RowsSound, ControlLinksSound, EvidenceLinksSound
  <2>3. LinksAccounted(d.audit, is, d.controlLinks,
                       "control_link.created", "control_link.deleted")
    BY <2>2, <1>2, MoreLinksAccounted DEF Sound, Accounted, LinkActions
  <2>4. LinksAccounted(d.audit, is, d.evidenceLinks, "evidence.linked", "evidence.unlinked")
    BY <2>2, <1>2, MoreLinksAccounted DEF Sound, Accounted, LinkActions
  <2>5. RoundsAccounted(d.audit, as)
    <3>1. /\ AuditSound(d.audit, d.lastAssessment, d.lastItem, d.lastLink)
          /\ RoundsAccounted(d.audit, d.assessments)
      BY DEF Sound, Accounted
    <3>2. ASSUME NEW b \in DOMAIN as
          PROVE  /\ b \in Ids(d) => as[b].round = d.assessments[b].round
                 /\ b \notin Ids(d) =>
                       b \in Nat /\ b > d.lastAssessment /\ as[b].round = 0
      BY <1>2, <1>3, <1>5
    <3>3. MoreRounds(d.assessments, as, d.lastAssessment)
      BY <3>2 DEF MoreRounds, Ids
    <3> HIDE DEF as
    <3> QED BY <1>2, <3>1, <3>3, MoreRoundsAccounted
  <2>6. Accounted(d.audit, as, is, d.controlLinks, d.evidenceLinks)
    BY <2>1, <2>3, <2>4, <2>5 DEF Accounted
  <2> QED BY <2>6, AccountedAside DEF Sound, AuditSound
<1>10. Sound(e)
  BY <1>1, <1>7, <1>8, <1>9, HasSound
<1> HIDE DEF as, is, au
<1>11. Later(d, e)
  <2>1. /\ \A b \in Ids(e) : b \in Ids(d) \/ b > d.lastAssessment
        /\ \A b \in Ids(d) : e.assessments[b] = d.assessments[b]
    BY <1>1, <1>2, <1>5 DEF Has, Ids
  <2>2. /\ \A i \in DOMAIN e.items : i \in DOMAIN d.items \/ i > d.lastItem
        /\ \A i \in DOMAIN d.items : e.items[i] = d.items[i]
    BY <1>1, <1>4, <1>6 DEF Has
  <2>3. /\ d.lastAssessment <= e.lastAssessment /\ d.lastItem <= e.lastItem
        /\ d.lastLink <= e.lastLink
        /\ e.controlLinks = d.controlLinks /\ e.evidenceLinks = d.evidenceLinks
    BY <1>1, <1>2 DEF Has
  <2> QED BY <2>1, <2>2, <2>3 DEF Later, Suggestion, Ids
<1>12. Touches(d, e, {})
  <2>1. \A i \in DOMAIN d.items : e.items[i] = d.items[i] /\ LinksOf(e, i) = LinksOf(d, i)
    BY <1>1, <1>6 DEF Has, LinksOf
  <2>2. \A i \in DOMAIN e.items : i \notin DOMAIN d.items => e.items[i].of = a
    BY <1>1, <1>4, <1>6 DEF Has
  <2> QED BY <2>1, <2>2, <1>5 DEF Touches
<1> QED BY <1>10, <1>11, <1>12 DEF Follows, e, row

LEMMA ItemCreatedFollows ==
    ASSUME NEW d, Sound(d), NEW a \in Ids(d), NEW answered
    PROVE  Follows(d, item_created(d, a, answered), {a})
<1> DEFINE e == item_created(d, a, answered)
           i == d.lastItem + 1
           it == CreatedItem(a, answered)
           new == [x \in {i} |-> it]
           is == Inserted(d.items, new)
           au == With1(d.audit, Event("assessment_item.created", <<"item", i>>, 0))
<1>1. Has(e, d.assessments, is, d.controlLinks, d.evidenceLinks, au, d.lastAssessment, i,
          d.lastLink)
  BY ItemCreatedHas DEF Sound
<1>2. /\ i \in Nat /\ i > d.lastItem
      /\ d.lastLink \in Nat /\ d.lastAssessment \in Nat /\ d.lastItem \in Nat
  BY DEF Sound, RowsSound
<1>3. /\ it \in Items /\ ItemSound(it) /\ ~Dispositioned(it) /\ it.of = a /\ it.lock = 0
  <2>1. a \in Nat
    BY DEF Sound, RowsSound, AssessmentsSound, Ids
  <2> QED BY <2>1 DEF CreatedItem, NewItem, Items, ItemSound, Dispositioned, Suggestion, Kinds
<1> HIDE DEF e, i, it
<1>4. /\ DOMAIN is = DOMAIN d.items \cup {i} /\ is[i] = it
      /\ \A j \in DOMAIN d.items : is[j] = d.items[j] /\ j \in 1 .. d.lastItem /\ j # i
  <2>1. \A j \in DOMAIN d.items : j \in 1 .. d.lastItem
    BY DEF Sound, RowsSound, ItemsSound
  <2>2. DOMAIN new = {i} /\ new[i] = it
    OBVIOUS
  <2>3. \A x \in DOMAIN new : x \notin DOMAIN d.items
    BY <2>1, <2>2, <1>2
  <2> HIDE DEF new
  <2>4. /\ DOMAIN is = DOMAIN d.items \cup DOMAIN new
        /\ \A x \in DOMAIN d.items : is[x] = d.items[x]
        /\ \A x \in DOMAIN new : is[x] = new[x]
    BY <2>3, InsertedRows, ZenonT(60)
  <2> HIDE DEF is
  <2> QED BY <2>1, <2>2, <2>4, <1>2
<1>5. is \in [DOMAIN is -> Items]
  BY <1>3, <1>4 DEF Inserted, Sound, RowsSound, ItemsSound
<1> HIDE DEF is
<1>6. RowsSound(d.assessments, is, d.controlLinks, d.evidenceLinks, d.lastAssessment, i,
                d.lastLink)
  <2>1. ASSUME NEW j \in DOMAIN is
        PROVE  j \in 1 .. i /\ ItemSound(is[j]) /\ is[j].of \in Ids(d)
    <3>1. CASE j = i
      BY <3>1, <1>2, <1>3, <1>4
    <3>2. CASE j \in DOMAIN d.items
      <4>1. j \in 1 .. d.lastItem /\ is[j] = d.items[j]
        BY <3>2, <1>4
      <4>2. ItemSound(d.items[j]) /\ d.items[j].of \in Ids(d)
        BY <3>2 DEF Sound, RowsSound, ItemsSound, Ids
      <4> QED BY <4>1, <4>2, <1>2
    <3> QED BY <3>1, <3>2, <1>4
  <2>2. ItemsSound(is, i, d.assessments)
    BY <2>1, <1>5 DEF ItemsSound, Ids
  <2>3. ControlLinksSound(d.controlLinks, d.lastLink, is)
        /\ EvidenceLinksSound(d.evidenceLinks, d.lastLink, is)
    BY <1>4, LinksStaySound DEF Sound, RowsSound
  <2> QED BY <2>2, <2>3, <1>2 DEF RowsSound, Sound
<1>7. AuditSound(au, d.lastAssessment, i, d.lastLink)
  <2>1. EventSound(Event("assessment_item.created", <<"item", i>>, 0),
                   d.lastAssessment, i, d.lastLink)
    BY <1>2 DEF EventSound, Event
  <2> QED BY <2>1, <1>2, AuditGrows DEF Sound
<1>8. Accounted(au, d.assessments, is, d.controlLinks, d.evidenceLinks)
  <2>1. ItemsAccounted(d.audit, is)
    BY <1>2, <1>3, <1>4, MoreItemsAccounted DEF Sound, Accounted
  <2>2. /\ \A l \in d.controlLinks : l.item \in DOMAIN d.items
        /\ \A l \in d.evidenceLinks : l.item \in DOMAIN d.items
        /\ \A j \in DOMAIN is : j \in DOMAIN d.items \/ (j \in Nat /\ j > d.lastItem)
    BY <1>2, <1>4 DEF Sound, RowsSound, ControlLinksSound, EvidenceLinksSound
  <2>3. LinksAccounted(d.audit, is, d.controlLinks,
                       "control_link.created", "control_link.deleted")
    BY <2>2, <1>2, MoreLinksAccounted DEF Sound, Accounted, LinkActions
  <2>4. LinksAccounted(d.audit, is, d.evidenceLinks, "evidence.linked", "evidence.unlinked")
    BY <2>2, <1>2, MoreLinksAccounted DEF Sound, Accounted, LinkActions
  <2>5. Accounted(d.audit, d.assessments, is, d.controlLinks, d.evidenceLinks)
    BY <2>1, <2>3, <2>4 DEF Accounted, Sound
  <2>6. "assessment_item.created" \notin CountedActions
    BY DEF CountedActions, ItemActions, LinkActions
  <2> QED BY <2>5, <2>6, AccountedAside DEF Sound, AuditSound
<1>9. Sound(e)
  BY <1>1, <1>6, <1>7, <1>8, HasSound
<1> HIDE DEF au
<1>10. Later(d, e)
  <2>1. /\ \A j \in DOMAIN e.items : j \in DOMAIN d.items \/ j > d.lastItem
        /\ \A j \in DOMAIN d.items : e.items[j] = d.items[j]
    BY <1>1, <1>2, <1>4 DEF Has
  <2>2. /\ d.lastAssessment <= e.lastAssessment /\ d.lastItem <= e.lastItem
        /\ d.lastLink <= e.lastLink /\ e.assessments = d.assessments
        /\ e.controlLinks = d.controlLinks /\ e.evidenceLinks = d.evidenceLinks
    BY <1>1, <1>2 DEF Has
  <2> QED BY <2>1, <2>2 DEF Later, Suggestion, Ids
<1>11. Touches(d, e, {a})
  <2>1. \A j \in DOMAIN d.items : e.items[j] = d.items[j] /\ LinksOf(e, j) = LinksOf(d, j)
    BY <1>1, <1>4 DEF Has, LinksOf
  <2>2. \A j \in DOMAIN e.items : j \notin DOMAIN d.items => e.items[j].of = a
    BY <1>1, <1>3, <1>4 DEF Has
  <2> QED BY <2>1, <2>2 DEF Touches
<1> QED BY <1>9, <1>10, <1>11 DEF Follows, e

\* Item i has a new version.
LEMMA ItemChangedFollows ==
    ASSUME NEW d, Sound(d), NEW i \in DOMAIN d.items, NEW it, NEW e, NEW action \in ItemActions,
           ChangedHas(e, d, i, it, action),
           ItemSound(it), ~Suggestion(it), it.of = d.items[i].of,
           it.lock = d.items[i].lock + 1,
           IF action = "assessment_item.confirmed"
             THEN Dispositioned(it) /\ ~Dispositioned(d.items[i])
             ELSE Dispositioned(it) <=> Dispositioned(d.items[i])
    PROVE  Follows(d, e, {d.items[i].of})
<1> DEFINE is == [d.items EXCEPT ![i] = it]
           au == With1(d.audit, Event(action, <<"item", i>>, 0))
<1>1. Has(e, d.assessments, is, d.controlLinks, d.evidenceLinks, au, d.lastAssessment,
          d.lastItem, d.lastLink)
  BY DEF ChangedHas
<1>2. /\ DOMAIN is = DOMAIN d.items /\ is[i] = it
      /\ \A j \in DOMAIN d.items : j # i => is[j] = d.items[j]
  OBVIOUS
<1>3. is \in [DOMAIN is -> Items]
  BY DEF ItemSound, Sound, RowsSound, ItemsSound
<1>4. RowsSound(d.assessments, is, d.controlLinks, d.evidenceLinks, d.lastAssessment,
                d.lastItem, d.lastLink)
  <2> HIDE DEF is
  <2>1. ItemsSound(is, d.lastItem, d.assessments)
    BY <1>2, <1>3 DEF Sound, RowsSound, ItemsSound
  <2>2. ControlLinksSound(d.controlLinks, d.lastLink, is)
        /\ EvidenceLinksSound(d.evidenceLinks, d.lastLink, is)
    <3>1. \A j \in DOMAIN d.items :
              j \in DOMAIN is /\ (Suggestion(is[j]) => Suggestion(d.items[j]))
      BY <1>2 DEF Suggestion
    <3> QED BY <3>1, LinksStaySound DEF Sound, RowsSound
  <2> QED BY <2>1, <2>2 DEF RowsSound, Sound
<1>5. AuditSound(au, d.lastAssessment, d.lastItem, d.lastLink)
  <2>1. EventSound(Event(action, <<"item", i>>, 0), d.lastAssessment, d.lastItem, d.lastLink)
    BY DEF EventSound, Event, ItemActions, Sound, RowsSound, ItemsSound
  <2> QED BY <2>1, AuditGrows DEF Sound, RowsSound
<1>6. Accounted(au, d.assessments, is, d.controlLinks, d.evidenceLinks)
  <2>1. IsABag(d.audit)
    BY DEF Sound, AuditSound
  <2>2. ItemsAccounted(au, is)
    BY <2>1, ItemChangeAccounted DEF Sound, Accounted
  <2>3. ASSUME NEW links, NEW created \in LinkActions, NEW deleted \in LinkActions,
               LinksAccounted(d.audit, d.items, links, created, deleted)
        PROVE  LinksAccounted(au, is, links, created, deleted)
    <3>1. LinksAccounted(au, d.items, links, created, deleted)
      BY <2>1, <2>3, LinksAside DEF LinkActions, ItemActions
    <3> HIDE DEF is, au
    <3> QED BY <3>1, <1>2 DEF LinksAccounted
  <2>4. RoundsAccounted(au, d.assessments)
    BY <2>1, RoundsAside DEF Sound, Accounted, ItemActions
  <2> HIDE DEF is, au
  <2> QED BY <2>2, <2>3, <2>4 DEF Accounted, LinkActions, Sound
<1> HIDE DEF is, au
<1>7. Sound(e)
  BY <1>1, <1>4, <1>5, <1>6, HasSound
<1>8. Later(d, e)
  <2>1. /\ d.lastAssessment <= e.lastAssessment /\ d.lastItem <= e.lastItem
        /\ d.lastLink <= e.lastLink
        /\ e.assessments = d.assessments /\ e.items = is
        /\ e.controlLinks = d.controlLinks /\ e.evidenceLinks = d.evidenceLinks
    BY <1>1 DEF Has, Sound, RowsSound
  <2> QED BY <2>1, <1>2 DEF Later, Suggestion, Ids
<1>9. Touches(d, e, {d.items[i].of})
  <2>1. e.items = is /\ \A j : LinksOf(e, j) = LinksOf(d, j)
    BY <1>1 DEF Has, LinksOf
  <2> QED BY <2>1, <1>2 DEF Touches
<1> QED BY <1>7, <1>8, <1>9 DEF Follows

\* Assessments go with their feeders and items, items with their links.
LEMMA RemovedFollows ==
    ASSUME NEW d, Sound(d), NEW e, NEW A, NEW I, NEW action, action \notin CountedActions,
           NEW entity, RemovedHas(e, d, A, I, Event(action, entity, 0)),
           EventSound(Event(action, entity, 0), d.lastAssessment, d.lastItem, d.lastLink),
           \A i \in DOMAIN d.items : d.items[i].of \in A => i \in I,
           \A f \in Ids(d) \ A : d.assessments[f].parent \notin A
    PROVE  Follows(d, e, {})
<1> DEFINE as == Restrict(d.assessments, DOMAIN d.assessments \ A)
           is == Restrict(d.items, DOMAIN d.items \ I)
           cs == Kept(d.controlLinks, I)
           es == Kept(d.evidenceLinks, I)
           au == With1(d.audit, Event(action, entity, 0))
<1>1. Has(e, as, is, cs, es, au, d.lastAssessment, d.lastItem, d.lastLink)
  BY DEF RemovedHas
<1>2. /\ DOMAIN as = Ids(d) \ A /\ \A a \in DOMAIN as : as[a] = d.assessments[a]
      /\ as \in [DOMAIN as -> AssessmentRows]
  BY DEF Restrict, Ids, Sound, RowsSound, AssessmentsSound
<1>3. /\ DOMAIN is = DOMAIN d.items \ I /\ \A i \in DOMAIN is : is[i] = d.items[i]
      /\ is \in [DOMAIN is -> Items]
  BY DEF Restrict, Sound, RowsSound, ItemsSound
<1>4. Accounted(au, as, is, cs, es)
  <2>1. Accounted(d.audit, as, is, cs, es)
    BY FewerAccounted DEF Sound
  <2> HIDE DEF as, is, cs, es
  <2> QED BY <2>1, AccountedAside DEF Sound, AuditSound
<1>5. AuditSound(au, d.lastAssessment, d.lastItem, d.lastLink)
  BY AuditGrows DEF Sound, RowsSound
<1>6. ControlLinksSound(cs, d.lastLink, is) /\ EvidenceLinksSound(es, d.lastLink, is)
  <2>1. IsFiniteSet(cs) /\ IsFiniteSet(es)
    BY FS_Subset DEF Kept, Sound, RowsSound, ControlLinksSound, EvidenceLinksSound
  <2> HIDE DEF is
  <2>2. ControlLinksSound(cs, d.lastLink, is)
    BY <2>1, <1>3 DEF Kept, Sound, RowsSound, ControlLinksSound
  <2>3. EvidenceLinksSound(es, d.lastLink, is)
    BY <2>1, <1>3 DEF Kept, Sound, RowsSound, EvidenceLinksSound
  <2> QED BY <2>2, <2>3
<1> HIDE DEF as, is, au
<1>7. AssessmentsSound(as, d.lastAssessment)
  BY <1>2 DEF Sound, RowsSound, AssessmentsSound, Ids
<1>8. ItemsSound(is, d.lastItem, as)
  BY <1>2, <1>3 DEF Sound, RowsSound, ItemsSound, Ids
<1>9. /\ e.controlLinks \subseteq d.controlLinks /\ e.evidenceLinks \subseteq d.evidenceLinks
  BY <1>1 DEF Has, Kept
<1> HIDE DEF cs, es
<1>10. Sound(e)
  <2>1. RowsSound(as, is, cs, es, d.lastAssessment, d.lastItem, d.lastLink)
    BY <1>6, <1>7, <1>8 DEF RowsSound, Sound
  <2> QED BY <2>1, <1>1, <1>4, <1>5, HasSound
<1>11. Later(d, e)
  <2>1. /\ d.lastAssessment <= e.lastAssessment /\ d.lastItem <= e.lastItem
        /\ d.lastLink <= e.lastLink /\ e.assessments = as /\ e.items = is
    BY <1>1 DEF Has, Sound, RowsSound
  <2> QED BY <2>1, <1>2, <1>3, <1>9 DEF Later, Suggestion, Ids
<1>12. Touches(d, e, {})
  <2>1. e.items = is /\ \A i : LinksOf(e, i) \subseteq LinksOf(d, i)
    BY <1>1, <1>9 DEF Has, LinksOf
  <2> QED BY <2>1, <1>3 DEF Touches
<1> QED BY <1>10, <1>11, <1>12 DEF Follows

LEMMA ItemDeletedFollows ==
    ASSUME NEW d, Sound(d), NEW i \in 1 .. d.lastItem
    PROVE  Follows(d, item_deleted(d, i), {})
<1> DEFINE action == "assessment_item.deleted"
<1>1. d.assessments = Restrict(d.assessments, DOMAIN d.assessments)
  BY DEF Restrict, Sound, RowsSound, AssessmentsSound
<1>2. RemovedHas(item_deleted(d, i), d, {}, {i}, Event(action, <<"item", i>>, 0))
  BY <1>1, ItemDeletedHas DEF Sound
<1>3. EventSound(Event(action, <<"item", i>>, 0), d.lastAssessment, d.lastItem, d.lastLink)
  BY DEF EventSound, Event, Sound, RowsSound
<1>4. action \notin CountedActions
  BY DEF CountedActions, ItemActions, LinkActions
<1> HIDE DEF action
<1> QED BY <1>2, <1>3, <1>4, RemovedFollows

LEMMA AssessmentDeletedFollows ==
    ASSUME NEW d, Sound(d), NEW a \in 1 .. d.lastAssessment
    PROVE  Follows(d, assessment_deleted(d, a), {})
<1> DEFINE action == "assessment.deleted"
           A == Family(d, a)
           I == ItemsIn(d, A)
<1>1. RemovedHas(assessment_deleted(d, a), d, A, I, Event(action, <<"assessment", a>>, 0))
  BY AssessmentDeletedHas DEF Sound
<1>2. EventSound(Event(action, <<"assessment", a>>, 0), d.lastAssessment, d.lastItem, d.lastLink)
  BY DEF EventSound, Event, Sound, RowsSound
<1>3. action \notin CountedActions
  BY DEF CountedActions, ItemActions, LinkActions
<1>4. \A i \in DOMAIN d.items : d.items[i].of \in A => i \in I
  BY DEF ItemsIn
<1>5. ASSUME NEW f \in Ids(d) \ A PROVE d.assessments[f].parent \notin A
  <2>1. d.assessments[f].parent # a
    BY DEF Family
  <2>2. ASSUME NEW g \in Ids(d), d.assessments[g].parent = a
        PROVE  d.assessments[f].parent # g
    BY <2>2 DEF Sound, RowsSound, AssessmentsSound, Ids
  <2> QED BY <2>1, <2>2 DEF Family
<1> HIDE DEF action, A, I
<1> QED BY <1>1, <1>2, <1>3, <1>4, <1>5, RemovedFollows

LEMMA ControlLinkedFollows ==
    ASSUME NEW d, Sound(d), NEW i \in DOMAIN d.items, NEW c \in Controls,
           NEW coverage \in Coverages,
           \A l \in d.controlLinks : ~(l.item = i /\ l.control = c)
    PROVE  Follows(d, control_linked(d, i, c, coverage), {d.items[i].of})
<1> DEFINE e == control_linked(d, i, c, coverage)
           n == d.lastLink + 1
           l == [id |-> n, item |-> i, control |-> c, coverage |-> coverage]
           cs == d.controlLinks \cup {l}
           event == Event("control_link.created", <<"control_link", l.id>>, l.item)
           au == With1(d.audit, event)
<1>1. Has(e, d.assessments, d.items, cs, d.evidenceLinks, au, d.lastAssessment, d.lastItem, n)
  BY ControlLinkedHas DEF Sound
<1>2. /\ d.lastLink \in Nat /\ n \in Nat /\ n > d.lastLink /\ i \in 1 .. d.lastItem
      /\ d.lastAssessment \in Nat /\ d.lastItem \in Nat
  BY DEF Sound, RowsSound, ItemsSound
<1>3. /\ l \in ControlLinks /\ l.id = n /\ l.item = i /\ l.control = c
  BY <1>2 DEF ControlLinks
<1>4. EventSound(event, d.lastAssessment, d.lastItem, n)
  BY <1>2, <1>3 DEF EventSound, Event
<1> HIDE DEF e, n, l
<1>5. ControlLinksSound(cs, n, d.items)
  <2>1. IsFiniteSet(cs)
    BY FS_AddElement DEF Sound, RowsSound, ControlLinksSound
  <2>2. cs \subseteq ControlLinks /\ \A m \in d.controlLinks : m.id \in 1 .. d.lastLink
    BY <1>3 DEF Sound, RowsSound, ControlLinksSound
  <2>3. \A m \in cs : m.id \in 1 .. n /\ m.item \in DOMAIN d.items
    BY <1>2, <1>3 DEF Sound, RowsSound, ControlLinksSound
  <2>4. \A m \in d.controlLinks : m.id # n
    BY <2>2, <1>2
  <2>5. \A m, o \in cs : m.id = o.id \/ (m.item = o.item /\ m.control = o.control) => m = o
    BY <2>4, <1>3 DEF Sound, RowsSound, ControlLinksSound
  <2> QED BY <2>1, <2>2, <2>3, <2>5 DEF ControlLinksSound
<1>6. EvidenceLinksSound(d.evidenceLinks, n, d.items)
  BY <1>2 DEF Sound, RowsSound, EvidenceLinksSound
<1>7. AuditSound(au, d.lastAssessment, d.lastItem, n)
  BY <1>2, <1>4, AuditGrows DEF Sound
<1>8. Accounted(au, d.assessments, d.items, cs, d.evidenceLinks)
  <2>1. IsABag(d.audit)
    BY DEF Sound, AuditSound
  <2>2. l.id \notin Linked(d.audit, "control_link.deleted", l.item)
    BY <1>2, <1>3 DEF Linked, Sound, AuditSound, EventSound
  <2>3. LinksAccounted(au, d.items, cs, "control_link.created", "control_link.deleted")
    BY <2>1, <2>2, LinkCreatedAccounted DEF Sound, Accounted
  <2>4. LinksAccounted(au, d.items, d.evidenceLinks, "evidence.linked", "evidence.unlinked")
    BY <2>1, LinksAside DEF Sound, Accounted
  <2>5. ItemsAccounted(au, d.items) /\ RoundsAccounted(au, d.assessments)
    BY <2>1, ItemsAside, RoundsAside DEF Sound, Accounted, ItemActions
  <2> QED BY <2>3, <2>4, <2>5 DEF Accounted
<1> HIDE DEF au
<1>9. Sound(e)
  <2>1. RowsSound(d.assessments, d.items, cs, d.evidenceLinks, d.lastAssessment, d.lastItem, n)
    BY <1>2, <1>5, <1>6 DEF Sound, RowsSound
  <2> QED BY <2>1, <1>1, <1>7, <1>8, HasSound
<1>10. /\ e.assessments = d.assessments /\ e.items = d.items
       /\ e.controlLinks = d.controlLinks \cup {l} /\ e.evidenceLinks = d.evidenceLinks
       /\ e.lastAssessment = d.lastAssessment /\ e.lastItem = d.lastItem /\ e.lastLink = n
  BY <1>1 DEF Has
<1>11. Later(d, e)
  BY <1>2, <1>3, <1>10 DEF Later, Suggestion, Ids
<1>12. Touches(d, e, {d.items[i].of})
  <2>1. \A j : j # i => LinksOf(e, j) = LinksOf(d, j)
    BY <1>3, <1>10 DEF LinksOf
  <2> QED BY <2>1, <1>10 DEF Touches
<1> QED BY <1>9, <1>11, <1>12 DEF Follows, e

LEMMA EvidenceLinkedFollows ==
    ASSUME NEW d, Sound(d), NEW i \in DOMAIN d.items, NEW x \in Evidence,
           ~Suggestion(d.items[i])
    PROVE  Follows(d, evidence_linked(d, i, x), {d.items[i].of})
<1> DEFINE e == evidence_linked(d, i, x)
           n == d.lastLink + 1
           l == [id |-> n, item |-> i, evidence |-> x]
           es == d.evidenceLinks \cup {l}
           event == Event("evidence.linked", <<"evidence_link", l.id>>, l.item)
           au == With1(d.audit, event)
<1>1. Has(e, d.assessments, d.items, d.controlLinks, es, au, d.lastAssessment, d.lastItem, n)
  BY EvidenceLinkedHas DEF Sound
<1>2. /\ d.lastLink \in Nat /\ n \in Nat /\ n > d.lastLink /\ i \in 1 .. d.lastItem
      /\ d.lastAssessment \in Nat /\ d.lastItem \in Nat
  BY DEF Sound, RowsSound, ItemsSound
<1>3. /\ l \in EvidenceLinks /\ l.id = n /\ l.item = i
  BY <1>2 DEF EvidenceLinks
<1>4. EventSound(event, d.lastAssessment, d.lastItem, n)
  BY <1>2, <1>3 DEF EventSound, Event
<1> HIDE DEF e, n, l
<1>5. EvidenceLinksSound(es, n, d.items)
  <2>1. IsFiniteSet(es)
    BY FS_AddElement DEF Sound, RowsSound, EvidenceLinksSound
  <2>2. es \subseteq EvidenceLinks /\ \A m \in d.evidenceLinks : m.id \in 1 .. d.lastLink
    BY <1>3 DEF Sound, RowsSound, EvidenceLinksSound
  <2>3. \A m \in es : m.id \in 1 .. n /\ m.item \in DOMAIN d.items /\ ~Suggestion(d.items[m.item])
    BY <1>2, <1>3 DEF Sound, RowsSound, EvidenceLinksSound
  <2>4. \A m \in d.evidenceLinks : m.id # n
    BY <2>2, <1>2
  <2>5. \A m, o \in es : m.id = o.id => m = o
    BY <2>4, <1>3 DEF Sound, RowsSound, EvidenceLinksSound
  <2> QED BY <2>1, <2>2, <2>3, <2>5 DEF EvidenceLinksSound
<1>6. ControlLinksSound(d.controlLinks, n, d.items)
  BY <1>2 DEF Sound, RowsSound, ControlLinksSound
<1>7. AuditSound(au, d.lastAssessment, d.lastItem, n)
  BY <1>2, <1>4, AuditGrows DEF Sound
<1>8. Accounted(au, d.assessments, d.items, d.controlLinks, es)
  <2>1. IsABag(d.audit)
    BY DEF Sound, AuditSound
  <2>2. l.id \notin Linked(d.audit, "evidence.unlinked", l.item)
    BY <1>2, <1>3 DEF Linked, Sound, AuditSound, EventSound
  <2>3. LinksAccounted(au, d.items, es, "evidence.linked", "evidence.unlinked")
    BY <2>1, <2>2, LinkCreatedAccounted DEF Sound, Accounted
  <2>4. LinksAccounted(au, d.items, d.controlLinks,
                       "control_link.created", "control_link.deleted")
    BY <2>1, LinksAside DEF Sound, Accounted
  <2>5. ItemsAccounted(au, d.items) /\ RoundsAccounted(au, d.assessments)
    BY <2>1, ItemsAside, RoundsAside DEF Sound, Accounted, ItemActions
  <2> QED BY <2>3, <2>4, <2>5 DEF Accounted
<1> HIDE DEF au
<1>9. Sound(e)
  <2>1. RowsSound(d.assessments, d.items, d.controlLinks, es, d.lastAssessment, d.lastItem, n)
    BY <1>2, <1>5, <1>6 DEF Sound, RowsSound
  <2> QED BY <2>1, <1>1, <1>7, <1>8, HasSound
<1>10. /\ e.assessments = d.assessments /\ e.items = d.items
       /\ e.controlLinks = d.controlLinks /\ e.evidenceLinks = d.evidenceLinks \cup {l}
       /\ e.lastAssessment = d.lastAssessment /\ e.lastItem = d.lastItem /\ e.lastLink = n
  BY <1>1 DEF Has
<1>11. Later(d, e)
  BY <1>2, <1>3, <1>10 DEF Later, Suggestion, Ids
<1>12. Touches(d, e, {d.items[i].of})
  <2>1. \A j : j # i => LinksOf(e, j) = LinksOf(d, j)
    BY <1>3, <1>10 DEF LinksOf
  <2> QED BY <2>1, <1>10 DEF Touches
<1> QED BY <1>9, <1>11, <1>12 DEF Follows, e

LEMMA ControlUnlinkedFollows ==
    ASSUME NEW d, Sound(d), NEW l, l.id \in 1 .. d.lastLink, l.item \in 1 .. d.lastItem,
           \A m \in d.controlLinks : m.id = l.id => m = l
    PROVE  Follows(d, control_unlinked(d, l), {})
<1> DEFINE e == control_unlinked(d, l)
           cs == d.controlLinks \ {l}
           event == Event("control_link.deleted", <<"control_link", l.id>>, l.item)
           au == With1(d.audit, event)
<1>1. Has(e, d.assessments, d.items, cs, d.evidenceLinks, au, d.lastAssessment, d.lastItem,
          d.lastLink)
  BY ControlUnlinkedHas DEF Sound
<1>2. d.lastAssessment \in Nat /\ d.lastItem \in Nat /\ d.lastLink \in Nat
  BY DEF Sound, RowsSound
<1>3. EventSound(event, d.lastAssessment, d.lastItem, d.lastLink)
  BY <1>2 DEF EventSound, Event
<1>4. ControlLinksSound(cs, d.lastLink, d.items)
  <2>1. IsFiniteSet(cs)
    BY FS_RemoveElement DEF Sound, RowsSound, ControlLinksSound
  <2> QED BY <2>1 DEF Sound, RowsSound, ControlLinksSound
<1>5. AuditSound(au, d.lastAssessment, d.lastItem, d.lastLink)
  BY <1>2, <1>3, AuditGrows DEF Sound
<1>6. Accounted(au, d.assessments, d.items, cs, d.evidenceLinks)
  <2>1. IsABag(d.audit)
    BY DEF Sound, AuditSound
  <2>2. LinksAccounted(au, d.items, cs, "control_link.created", "control_link.deleted")
    BY <2>1, LinkDeletedAccounted DEF Sound, Accounted
  <2>3. LinksAccounted(au, d.items, d.evidenceLinks, "evidence.linked", "evidence.unlinked")
    BY <2>1, LinksAside DEF Sound, Accounted
  <2>4. ItemsAccounted(au, d.items) /\ RoundsAccounted(au, d.assessments)
    BY <2>1, ItemsAside, RoundsAside DEF Sound, Accounted, ItemActions
  <2> QED BY <2>2, <2>3, <2>4 DEF Accounted
<1> HIDE DEF e, au
<1>7. Sound(e)
  <2>1. RowsSound(d.assessments, d.items, cs, d.evidenceLinks, d.lastAssessment, d.lastItem,
                  d.lastLink)
    BY <1>4 DEF Sound, RowsSound
  <2> QED BY <2>1, <1>1, <1>5, <1>6, HasSound
<1>8. /\ e.assessments = d.assessments /\ e.items = d.items
      /\ e.controlLinks = d.controlLinks \ {l} /\ e.evidenceLinks = d.evidenceLinks
      /\ e.lastAssessment = d.lastAssessment /\ e.lastItem = d.lastItem
      /\ e.lastLink = d.lastLink
  BY <1>1 DEF Has
<1>9. Later(d, e)
  BY <1>2, <1>8 DEF Later, Suggestion, Ids
<1>10. Touches(d, e, {})
  BY <1>8 DEF Touches, LinksOf
<1> QED BY <1>7, <1>9, <1>10 DEF Follows, e

LEMMA EvidenceUnlinkedFollows ==
    ASSUME NEW d, Sound(d), NEW l, l.id \in 1 .. d.lastLink, l.item \in 1 .. d.lastItem,
           \A m \in d.evidenceLinks : m.id = l.id => m = l
    PROVE  Follows(d, evidence_unlinked(d, l), {})
<1> DEFINE e == evidence_unlinked(d, l)
           es == d.evidenceLinks \ {l}
           event == Event("evidence.unlinked", <<"evidence_link", l.id>>, l.item)
           au == With1(d.audit, event)
<1>1. Has(e, d.assessments, d.items, d.controlLinks, es, au, d.lastAssessment, d.lastItem,
          d.lastLink)
  BY EvidenceUnlinkedHas DEF Sound
<1>2. d.lastAssessment \in Nat /\ d.lastItem \in Nat /\ d.lastLink \in Nat
  BY DEF Sound, RowsSound
<1>3. EventSound(event, d.lastAssessment, d.lastItem, d.lastLink)
  BY <1>2 DEF EventSound, Event
<1>4. EvidenceLinksSound(es, d.lastLink, d.items)
  <2>1. IsFiniteSet(es)
    BY FS_RemoveElement DEF Sound, RowsSound, EvidenceLinksSound
  <2> QED BY <2>1 DEF Sound, RowsSound, EvidenceLinksSound
<1>5. AuditSound(au, d.lastAssessment, d.lastItem, d.lastLink)
  BY <1>2, <1>3, AuditGrows DEF Sound
<1>6. Accounted(au, d.assessments, d.items, d.controlLinks, es)
  <2>1. IsABag(d.audit)
    BY DEF Sound, AuditSound
  <2>2. LinksAccounted(au, d.items, es, "evidence.linked", "evidence.unlinked")
    BY <2>1, LinkDeletedAccounted DEF Sound, Accounted
  <2>3. LinksAccounted(au, d.items, d.controlLinks,
                       "control_link.created", "control_link.deleted")
    BY <2>1, LinksAside DEF Sound, Accounted
  <2>4. ItemsAccounted(au, d.items) /\ RoundsAccounted(au, d.assessments)
    BY <2>1, ItemsAside, RoundsAside DEF Sound, Accounted, ItemActions
  <2> QED BY <2>2, <2>3, <2>4 DEF Accounted
<1> HIDE DEF e, au
<1>7. Sound(e)
  <2>1. RowsSound(d.assessments, d.items, d.controlLinks, es, d.lastAssessment, d.lastItem,
                  d.lastLink)
    BY <1>4 DEF Sound, RowsSound
  <2> QED BY <2>1, <1>1, <1>5, <1>6, HasSound
<1>8. /\ e.assessments = d.assessments /\ e.items = d.items
      /\ e.controlLinks = d.controlLinks /\ e.evidenceLinks = d.evidenceLinks \ {l}
      /\ e.lastAssessment = d.lastAssessment /\ e.lastItem = d.lastItem
      /\ e.lastLink = d.lastLink
  BY <1>1 DEF Has
<1>9. Later(d, e)
  BY <1>2, <1>8 DEF Later, Suggestion, Ids
<1>10. Touches(d, e, {})
  BY <1>8 DEF Touches, LinksOf
<1> QED BY <1>7, <1>9, <1>10 DEF Follows, e

\* An assessment moves on, with its round only when it is submitted.
LEMMA ReviewedFollows ==
    ASSUME NEW d, Sound(d), NEW a \in Ids(d), NEW row \in AssessmentRows,
           row.parent = d.assessments[a].parent, NEW au, NEW e, ReviewedHas(e, d, a, row, au),
           AuditSound(au, d.lastAssessment, d.lastItem, d.lastLink),
           Accounted(au, [d.assessments EXCEPT ![a] = row], d.items, d.controlLinks,
                     d.evidenceLinks)
    PROVE  Follows(d, e, {})
<1> DEFINE as == [d.assessments EXCEPT ![a] = row]
<1>1. Has(e, as, d.items, d.controlLinks, d.evidenceLinks, au, d.lastAssessment, d.lastItem,
          d.lastLink)
  BY DEF ReviewedHas
<1>2. /\ DOMAIN as = Ids(d) /\ \A b \in Ids(d) : as[b].parent = d.assessments[b].parent
      /\ as \in [DOMAIN as -> AssessmentRows]
  BY DEF Ids, Sound, RowsSound, AssessmentsSound
<1> HIDE DEF as
<1>3. AssessmentsSound(as, d.lastAssessment)
  BY <1>2, ZenonT(60) DEF Sound, RowsSound, AssessmentsSound, Ids
<1>4. ItemsSound(d.items, d.lastItem, as)
  BY <1>2 DEF Sound, RowsSound, ItemsSound, Ids
<1>5. Sound(e)
  <2>1. RowsSound(as, d.items, d.controlLinks, d.evidenceLinks, d.lastAssessment, d.lastItem,
                  d.lastLink)
    BY <1>3, <1>4 DEF Sound, RowsSound
  <2> QED BY <2>1, <1>1, HasSound DEF as
<1>6. Later(d, e)
  <2>1. /\ d.lastAssessment <= e.lastAssessment /\ d.lastItem <= e.lastItem
        /\ d.lastLink <= e.lastLink /\ e.assessments = as /\ e.items = d.items
        /\ e.controlLinks = d.controlLinks /\ e.evidenceLinks = d.evidenceLinks
    BY <1>1 DEF Has, Sound, RowsSound
  <2> QED BY <2>1, <1>2 DEF Later, Suggestion, Ids
<1>7. Touches(d, e, {})
  BY <1>1 DEF Has, Touches, LinksOf
<1> QED BY <1>5, <1>6, <1>7 DEF Follows

\* The events of a review.
LEMMA ReviewEventSound ==
    ASSUME NEW d, Sound(d), NEW a \in Ids(d), NEW action, action \notin LinkActions
    PROVE  EventSound(Event(action, <<"assessment", a>>, 0),
                      d.lastAssessment, d.lastItem, d.lastLink)
<1>1. a \in 0 .. d.lastAssessment
  BY DEF Ids, Sound, RowsSound, AssessmentsSound
<1> QED BY <1>1 DEF EventSound, Event, LinkActions

\* The trail accounts for a row of the same round.
LEMMA SameRoundAccounted ==
    ASSUME NEW d, Sound(d), NEW a \in Ids(d), NEW row, row.round = d.assessments[a].round
    PROVE  Accounted(d.audit, [d.assessments EXCEPT ![a] = row], d.items, d.controlLinks,
                     d.evidenceLinks)
<1>1. RoundsAccounted(d.audit, [d.assessments EXCEPT ![a] = row])
  BY DEF Sound, Accounted, RoundsAccounted, Ids
<1> QED BY <1>1 DEF Sound, Accounted

LEMMA ReviewedRowTyped ==
    ASSUME NEW old \in AssessmentRows, NEW status \in Statuses, NEW round \in 0 .. MaxRounds,
           NEW reviewed \in BOOLEAN
    PROVE  LET row == ReviewedRow(old, status, round, reviewed) IN
           row \in AssessmentRows /\ row.parent = old.parent /\ row.round = round
BY DEF ReviewedRow, AssessmentRows

LEMMA SubmittedFollows ==
    ASSUME NEW d, Sound(d), NEW a \in Ids(d), d.assessments[a].round # MaxRounds
    PROVE  Follows(d, assessment_submitted(d, a), {})
<1> DEFINE old == d.assessments[a]
           row == ReviewedRow(old, "IN_REVIEW", old.round + 1, old.reviewed)
           action == "assessment.submitted"
           au == With1(d.audit, Event(action, <<"assessment", a>>, 0))
           e == assessment_submitted(d, a)
<1>1. old \in AssessmentRows
  BY DEF Ids, Sound, RowsSound, AssessmentsSound
<1>2. ReviewedHas(e, d, a, row, au)
  BY <1>1, SubmittedHas DEF Sound
<1>3. row \in AssessmentRows /\ row.parent = old.parent /\ row.round = old.round + 1
  <2>1. old.round + 1 \in 0 .. MaxRounds /\ old.reviewed \in BOOLEAN /\ "IN_REVIEW" \in Statuses
    BY <1>1 DEF AssessmentRows, Statuses, DossierAssumption
  <2> QED BY <1>1, <2>1, ReviewedRowTyped
<1> HIDE DEF row, e
<1>4. AuditSound(au, d.lastAssessment, d.lastItem, d.lastLink)
  <2>1. EventSound(Event(action, <<"assessment", a>>, 0),
                   d.lastAssessment, d.lastItem, d.lastLink)
    BY ReviewEventSound DEF LinkActions
  <2> QED BY <2>1, AuditGrows DEF Sound, RowsSound
<1>5. Accounted(au, [d.assessments EXCEPT ![a] = row], d.items, d.controlLinks, d.evidenceLinks)
  <2>1. IsABag(d.audit)
    BY DEF Sound, AuditSound
  <2>2. RoundsAccounted(au, [d.assessments EXCEPT ![a] = row])
    BY <2>1, <1>3, SubmissionAccounted DEF Sound, Accounted, Ids
  <2>3. ItemsAccounted(au, d.items)
    BY <2>1, ItemsAside DEF Sound, Accounted, ItemActions
  <2>4. LinksAccounted(au, d.items, d.controlLinks,
                       "control_link.created", "control_link.deleted")
    BY <2>1, LinksAside DEF Sound, Accounted
  <2>5. LinksAccounted(au, d.items, d.evidenceLinks, "evidence.linked", "evidence.unlinked")
    BY <2>1, LinksAside DEF Sound, Accounted
  <2> QED BY <2>2, <2>3, <2>4, <2>5 DEF Accounted
<1> HIDE DEF au
<1> QED BY <1>2, <1>3, <1>4, <1>5, ReviewedFollows DEF e

LEMMA ReviewRecordedFollows ==
    ASSUME NEW d, Sound(d), NEW a \in Ids(d), NEW status \in Statuses
    PROVE  Follows(d, review_recorded(d, a, status), {})
<1> DEFINE old == d.assessments[a]
           row == ReviewedRow(old, status, old.round, TRUE)
           action == "assessment.review_recorded"
           au == With1(d.audit, Event(action, <<"assessment", a>>, 0))
           e == review_recorded(d, a, status)
<1>1. old \in AssessmentRows
  BY DEF Ids, Sound, RowsSound, AssessmentsSound
<1>2. ReviewedHas(e, d, a, row, au)
  BY <1>1, ReviewRecordedHas DEF Sound
<1>3. row \in AssessmentRows /\ row.parent = old.parent /\ row.round = old.round
  <2>1. old.round \in 0 .. MaxRounds
    BY <1>1 DEF AssessmentRows
  <2> QED BY <1>1, <2>1, ReviewedRowTyped
<1> HIDE DEF row, e
<1>4. AuditSound(au, d.lastAssessment, d.lastItem, d.lastLink)
  <2>1. EventSound(Event(action, <<"assessment", a>>, 0),
                   d.lastAssessment, d.lastItem, d.lastLink)
    BY ReviewEventSound DEF LinkActions
  <2> QED BY <2>1, AuditGrows DEF Sound, RowsSound
<1>5. Accounted(au, [d.assessments EXCEPT ![a] = row], d.items, d.controlLinks, d.evidenceLinks)
  <2>1. action \notin CountedActions
    BY DEF CountedActions, ItemActions, LinkActions
  <2> QED BY <2>1, <1>3, SameRoundAccounted, AccountedAside DEF Sound, AuditSound
<1> HIDE DEF au
<1> QED BY <1>2, <1>3, <1>4, <1>5, ReviewedFollows DEF e

LEMMA ReopenedFollows ==
    ASSUME NEW d, Sound(d), NEW a \in Ids(d)
    PROVE  Follows(d, assessment_reopened(d, a), {})
<1> DEFINE old == d.assessments[a]
           row == ReviewedRow(old, "NEEDS_REFRESH", old.round, old.reviewed)
           first == Event("assessment.reopened", <<"assessment", a>>, 0)
           second == Event("assessment.needs_refresh", <<"assessment", a>>, 0)
           au == With1(d.audit, first)
           e == assessment_reopened(d, a)
<1>1. old \in AssessmentRows
  BY DEF Ids, Sound, RowsSound, AssessmentsSound
<1>2. ReviewedHas(e, d, a, row, With1(au, second))
  BY <1>1, ReopenedHas DEF Sound
<1>3. row \in AssessmentRows /\ row.parent = old.parent /\ row.round = old.round
  <2>1. /\ old.round \in 0 .. MaxRounds /\ old.reviewed \in BOOLEAN
        /\ "NEEDS_REFRESH" \in Statuses
    BY <1>1 DEF AssessmentRows, Statuses
  <2> QED BY <1>1, <2>1, ReviewedRowTyped
<1> HIDE DEF row, e
<1>4. AuditSound(au, d.lastAssessment, d.lastItem, d.lastLink)
  <2>1. EventSound(first, d.lastAssessment, d.lastItem, d.lastLink)
    BY ReviewEventSound DEF LinkActions
  <2> QED BY <2>1, AuditGrows DEF Sound, RowsSound
<1>5. AuditSound(With1(au, second), d.lastAssessment, d.lastItem, d.lastLink)
  <2> HIDE DEF au
  <2>1. EventSound(second, d.lastAssessment, d.lastItem, d.lastLink)
    BY ReviewEventSound DEF LinkActions
  <2> QED BY <2>1, <1>4, AuditGrows DEF Sound, RowsSound
<1>6. Accounted(With1(au, second), [d.assessments EXCEPT ![a] = row], d.items, d.controlLinks,
                d.evidenceLinks)
  <2>1. /\ "assessment.reopened" \notin CountedActions
        /\ "assessment.needs_refresh" \notin CountedActions
    BY DEF CountedActions, ItemActions, LinkActions
  <2>2. Accounted(au, [d.assessments EXCEPT ![a] = row], d.items, d.controlLinks,
                  d.evidenceLinks)
    BY <2>1, <1>3, SameRoundAccounted, AccountedAside DEF Sound, AuditSound
  <2> HIDE DEF au
  <2> QED BY <2>1, <2>2, <1>4, AccountedAside DEF AuditSound
<1> HIDE DEF au, second
<1> QED BY <1>2, <1>3, <1>5, <1>6, ReviewedFollows DEF e

LEMMA VersionFields ==
    ASSUME NEW old \in Items,
           NEW provenance \in {"CATALOGUE_CURATED", "USER_CONFIRMED", "USER_AMENDED"},
           NEW decision \in {"none", "MITIGATE", "ACCEPT"},
           NEW plan, NEW rationale, Flag(plan), Flag(rationale)
    PROVE  LET it == Version(old, provenance, decision, plan, rationale) IN
           /\ it \in Items /\ it.of = old.of /\ it.kind = old.kind
           /\ it.provenance = provenance /\ it.lock = old.lock + 1
<1> DEFINE lock == old.lock + 1
           v1 == [old EXCEPT !.provenance = provenance]
           v2 == [v1 EXCEPT !.lock = lock]
           v3 == [v2 EXCEPT !.decision = decision]
           v4 == [v3 EXCEPT !.plan = plan]
           it == Version(old, provenance, decision, plan, rationale)
           Same(v) == v \in Items /\ v.of = old.of /\ v.kind = old.kind
                      /\ v.provenance = provenance
<1>1. lock \in Nat
  BY DEF Items
<1>2. it = [v4 EXCEPT !.rationale = rationale]
  BY DEF Version
<1>3. Same(v1)
  BY DEF Items
<1> HIDE DEF v1, lock
<1>4. Same(v2) /\ v2.lock = lock
  BY <1>1, <1>3 DEF Items
<1> HIDE DEF v2
<1>5. Same(v3) /\ v3.lock = lock
  BY <1>4 DEF Items
<1> HIDE DEF v3
<1>6. Same(v4) /\ v4.lock = lock
  BY <1>5 DEF Items, Flag
<1> HIDE DEF v4, it
<1>7. Same(it) /\ it.lock = lock
  BY <1>2, <1>6 DEF Items, Flag
<1> QED BY <1>7 DEF it, lock

\* A suggestion can be confirmed; what is none can be amended or treated.
LEMMA NextVersion ==
    ASSUME NEW old \in Items,
           NEW provenance \in {"CATALOGUE_CURATED", "USER_CONFIRMED", "USER_AMENDED"},
           NEW decision \in {"none", "MITIGATE", "ACCEPT"}, NEW plan, NEW rationale,
           ItemSound(old), old.kind = "risk" => provenance = "USER_CONFIRMED",
           Flag(plan), Flag(rationale)
    PROVE  LET it == Version(old, provenance, decision, plan, rationale) IN
           /\ ItemSound(it) /\ ~Suggestion(it) /\ it.of = old.of /\ it.lock = old.lock + 1
           /\ Dispositioned(it) <=> old.kind = "risk"
<1> DEFINE it == Version(old, provenance, decision, plan, rationale)
<1>1. /\ it \in Items /\ it.of = old.of /\ it.kind = old.kind
      /\ it.provenance = provenance /\ it.lock = old.lock + 1
  BY VersionFields
<1> HIDE DEF it
<1>2. ItemSound(it) /\ ~Suggestion(it)
  BY <1>1 DEF ItemSound, Suggestion
<1>3. Dispositioned(it) <=> old.kind = "risk"
  BY <1>1 DEF Dispositioned
<1> QED BY <1>1, <1>2, <1>3 DEF it

LEMMA ProvenanceNow ==
    ASSUME NEW old \in Items, ItemSound(old)
    PROVE  /\ Suggestion(old) => old.kind = "risk" /\ ~Dispositioned(old)
           /\ ~Suggestion(old) =>
                 /\ old.provenance \in {"CATALOGUE_CURATED", "USER_CONFIRMED", "USER_AMENDED"}
                 /\ Dispositioned(old) <=> old.kind = "risk"
                 /\ old.kind = "risk" => old.provenance = "USER_CONFIRMED"
           /\ old.decision \in {"none", "MITIGATE", "ACCEPT"}
           /\ Flag(old.plan) /\ Flag(old.rationale)
BY DEF Flag, ItemSound, Suggestion, Items, Dispositioned

LEMMA ItemConfirmedFollows ==
    ASSUME NEW d, Sound(d), NEW i \in DOMAIN d.items, Suggestion(d.items[i])
    PROVE  Follows(d, item_confirmed(d, i), {d.items[i].of})
<1> DEFINE old == d.items[i]
           it == Version(old, "USER_CONFIRMED", old.decision, old.plan, old.rationale)
<1>1. old \in Items /\ ItemSound(old)
  BY DEF Sound, RowsSound, ItemsSound
<1>2. ChangedHas(item_confirmed(d, i), d, i, it, "assessment_item.confirmed")
  BY <1>1, ItemConfirmedHas DEF Sound
<1>3. /\ ItemSound(it) /\ ~Suggestion(it) /\ it.of = old.of /\ it.lock = old.lock + 1
      /\ Dispositioned(it) /\ ~Dispositioned(old)
  BY <1>1, ProvenanceNow, NextVersion
<1> HIDE DEF it
<1> QED BY <1>2, <1>3, ItemChangedFollows DEF ItemActions

LEMMA ItemAmendedFollows ==
    ASSUME NEW d, Sound(d), NEW i \in DOMAIN d.items, ~Suggestion(d.items[i]), NEW plan, Flag(plan)
    PROVE  Follows(d, item_amended(d, i, plan), {d.items[i].of})
<1> DEFINE old == d.items[i]
           flipped == IF old.provenance = "CATALOGUE_CURATED" THEN "USER_AMENDED"
                      ELSE old.provenance
           it == Version(old, flipped, old.decision, plan, old.rationale)
<1>1. old \in Items /\ ItemSound(old)
  BY DEF Sound, RowsSound, ItemsSound
<1>4. /\ flipped \in {"CATALOGUE_CURATED", "USER_CONFIRMED", "USER_AMENDED"}
      /\ old.kind = "risk" => flipped = "USER_CONFIRMED"
  BY <1>1, ProvenanceNow
<1>2. ChangedHas(item_amended(d, i, plan), d, i, it, "assessment_item.amended")
  BY <1>1, ItemAmendedHas DEF Sound
<1>3. /\ ItemSound(it) /\ ~Suggestion(it) /\ it.of = old.of /\ it.lock = old.lock + 1
      /\ Dispositioned(it) <=> Dispositioned(old)
  BY <1>1, ProvenanceNow, NextVersion
<1> HIDE DEF it
<1> QED BY <1>2, <1>3, ItemChangedFollows DEF ItemActions

LEMMA TreatmentSetFollows ==
    ASSUME NEW d, Sound(d), NEW i \in DOMAIN d.items, ~Suggestion(d.items[i]),
           NEW decision \in {"MITIGATE", "ACCEPT"}, NEW rationale, Flag(rationale)
    PROVE  Follows(d, treatment_set(d, i, decision, rationale), {d.items[i].of})
<1> DEFINE old == d.items[i]
           it == Version(old, old.provenance, decision, old.plan, rationale)
<1>1. old \in Items /\ ItemSound(old)
  BY DEF Sound, RowsSound, ItemsSound
<1>2. ChangedHas(treatment_set(d, i, decision, rationale), d, i, it,
                 "assessment_item.treatment_set")
  BY <1>1, TreatmentSetHas DEF Sound
<1>3. /\ ItemSound(it) /\ ~Suggestion(it) /\ it.of = old.of /\ it.lock = old.lock + 1
      /\ Dispositioned(it) <=> Dispositioned(old)
  BY <1>1, ProvenanceNow, NextVersion
<1> HIDE DEF it
<1> QED BY <1>2, <1>3, ItemChangedFollows DEF ItemActions

-----------------------------------------------------------------------------
(***************************************************************************)
(* What a request holds outlasts the writes of the others.                 *)
(***************************************************************************)
LockTaken(d, e) == \E a \in Aiias(e) \cap Ids(d) : AuthoringLocked(e, a) /\ ~AuthoringLocked(d, a)

LEMMA StaysUnlocked ==
    ASSUME NEW d, Sound(d), NEW e, Sound(e), Later(d, e), ~LockTaken(d, e),
           NEW t \in Ids(d), t \in Ids(e), ~AuthoringLocked(d, t)
    PROVE  ~AuthoringLocked(e, t)
<1> DEFINE g == governing_aiia(e, t)
<1>1. g = governing_aiia(d, t)
  BY DEF Later, governing_aiia
<1>2. g \in Ids(d) /\ g \in Aiias(e)
  BY <1>1 DEF governing_aiia, Aiias, Ids, Sound, RowsSound, AssessmentsSound
<1>3. governing_aiia(e, g) = g /\ governing_aiia(d, g) = g
  BY <1>2 DEF governing_aiia, Aiias, Later, Ids
<1> HIDE DEF g
<1>4. ~AuthoringLocked(d, g)
  BY <1>1, <1>3 DEF AuthoringLocked
<1>5. ~AuthoringLocked(e, g)
  BY <1>2, <1>4 DEF LockTaken
<1> QED BY <1>3, <1>5 DEF AuthoringLocked, g

LEMMA HoldsLater ==
    ASSUME NEW d, Sound(d), NEW e, Sound(e), Later(d, e), NEW q, Holds(q, d),
           NEW p, DOMAIN p = RequestFields, p.op = q.op, p.on = q.on, p.with = q.with,
           p.seen = q.seen, p.late \in BOOLEAN,
           ~p.late => ~q.late /\ ~LockTaken(d, e)
    PROVE  Holds(p, e)
<1>1. NamesDrawn(p, e)
  <2>1. /\ d.lastAssessment \in Nat /\ e.lastAssessment \in Nat
        /\ d.lastAssessment <= e.lastAssessment
        /\ d.lastItem \in Nat /\ e.lastItem \in Nat /\ d.lastItem <= e.lastItem
        /\ d.lastLink \in Nat /\ e.lastLink \in Nat /\ d.lastLink <= e.lastLink
    BY DEF Later, Sound, RowsSound
  <2>2. NamesDrawn(p, d)
    BY DEF Holds, NamesDrawn
  <2> QED BY <2>1, <2>2, SMTT(30) DEF NamesDrawn
<1>2. AsksTyped(p)
  BY DEF Holds, AsksTyped
<1>3. StillMeans(p, e)
  <2>1. ASSUME q.op \in {"amend", "treat", "link_evidence"}, q.on \in DOMAIN e.items
        PROVE  ~Suggestion(e.items[q.on])
    <3>1. q.on \in 1 .. d.lastItem
      BY <2>1 DEF Holds, NamesDrawn
    <3>2. q.on \in DOMAIN d.items
      BY <2>1, <3>1 DEF Later, Sound, RowsSound
    <3> QED BY <2>1, <3>2 DEF Later, Holds, StillMeans
  <2>2. ASSUME q.op = "unlink_control", NEW l \in e.controlLinks, l.id = q.on.id
        PROVE  l = q.on
    <3>1. q.on.id \in 1 .. d.lastLink
      BY <2>2 DEF Holds, NamesDrawn
    <3>2. l \in d.controlLinks
      BY <2>2, <3>1 DEF Later, Sound, RowsSound
    <3> QED BY <2>2, <3>2 DEF Holds, StillMeans
  <2>3. ASSUME q.op = "unlink_evidence", NEW l \in e.evidenceLinks, l.id = q.on.id
        PROVE  l = q.on
    <3>1. q.on.id \in 1 .. d.lastLink
      BY <2>3 DEF Holds, NamesDrawn
    <3>2. l \in d.evidenceLinks
      BY <2>3, <3>1 DEF Later, Sound, RowsSound
    <3> QED BY <2>3, <3>2 DEF Holds, StillMeans
  <2> QED BY <2>1, <2>2, <2>3 DEF StillMeans
<1>4. ASSUME ~p.late PROVE FindsUnlocked(p, e)
  <2>1. FindsUnlocked(q, d)
    BY <1>4 DEF Holds
  <2>2. ASSUME q.op = "create_item", q.on \in Ids(e) PROVE ~AuthoringLocked(e, q.on)
    <3>1. q.on \in 1 .. d.lastAssessment
      BY <2>2 DEF Holds, NamesDrawn
    <3>2. q.on \in Ids(d)
      BY <2>2, <3>1 DEF Later, Sound, RowsSound
    <3> QED BY <2>1, <2>2, <3>2, <1>4, StaysUnlocked DEF FindsUnlocked
  <2>3. ASSUME q.op \in {"confirm", "amend", "treat", "link_control", "link_evidence"},
               q.on \in DOMAIN e.items
        PROVE  ~AuthoringLocked(e, e.items[q.on].of)
    <3>1. q.on \in 1 .. d.lastItem
      BY <2>3 DEF Holds, NamesDrawn
    <3>2. q.on \in DOMAIN d.items /\ e.items[q.on].of = d.items[q.on].of
      BY <2>3, <3>1 DEF Later, Sound, RowsSound
    <3>3. d.items[q.on].of \in Ids(d) /\ e.items[q.on].of \in Ids(e)
      BY <2>3, <3>2 DEF Sound, RowsSound, ItemsSound, Ids
    <3>4. ~AuthoringLocked(d, d.items[q.on].of)
      BY <2>1, <2>3, <3>2 DEF FindsUnlocked
    <3> QED BY <3>2, <3>3, <3>4, <1>4, StaysUnlocked
  <2> QED BY <2>2, <2>3 DEF FindsUnlocked
<1> QED BY <1>1, <1>2, <1>3, <1>4 DEF Holds

-----------------------------------------------------------------------------
(***************************************************************************)
(* The steps preserve the invariant.                                       *)
(***************************************************************************)
LEMMA WriteKeeps ==
    ASSUME DossierInv, NEW R, NEW d, NEW S, Follows(db, d, S), Write(R, d)
    PROVE  DossierInv'
<1>1. Sound(db') /\ Later(db, db') /\ Sound(db)
  BY DEF Write, Follows, DossierInv
<1>2. req' = [r \in Requests |-> req'[r]]
  BY DEF Write
<1>3. ASSUME NEW r \in Requests, req'[r] # NoRequest PROVE Holds(req'[r], db')
  <2> DEFINE q == req[r]
             p == req'[r]
  <2>1. r \notin R
    BY <1>3 DEF Write
  <2>2. p = IF q # NoRequest /\ TakesALock(d) THEN [q EXCEPT !.late = TRUE] ELSE q
    BY <2>1 DEF Write
  <2>3. q # NoRequest /\ Holds(q, db)
    BY <1>3, <2>2 DEF DossierInv
  <2>4. TakesALock(d) <=> LockTaken(db, db')
    BY DEF TakesALock, LockTaken, Write
  <2> HIDE DEF p, q
  <2>5. /\ DOMAIN p = RequestFields /\ p.op = q.op /\ p.on = q.on /\ p.with = q.with
        /\ p.seen = q.seen /\ p.late \in BOOLEAN
        /\ ~p.late => ~q.late /\ ~LockTaken(db, db')
    BY <2>2, <2>3, <2>4 DEF Holds, RequestFields
  <2>6. Holds(p, db')
    BY <1>1, <2>3, <2>5, HoldsLater
  <2> QED BY <2>6 DEF p
<1>4. ExportSound(export') /\ PackSound(pack')
  BY DEF Write, DossierInv, PackSound
<1>5. writes' \in 0 .. MaxWrites
  BY DEF Write, DossierInv, DossierAssumption
<1> QED BY <1>1, <1>2, <1>3, <1>4, <1>5 DEF DossierInv

Asked(op, on, with, seen) ==
    [op |-> op, on |-> on, with |-> with, seen |-> seen, late |-> FALSE]

LEMMA BeginKeeps ==
    ASSUME DossierInv, NEW r \in Requests, NEW op, NEW on, NEW with, NEW seen,
           Begin(r, op, on, with, seen), Holds(Asked(op, on, with, seen), db)
    PROVE  DossierInv'
<1>1. req' = [x \in Requests |-> IF x = r THEN Asked(op, on, with, seen) ELSE req[x]]
  BY DEF Begin, DossierInv, Asked
<1> QED BY <1>1 DEF Begin, DossierInv

\* Another event changes nothing a request relies on.
LEMMA EventKeepsRequests ==
    ASSUME DossierInv, Follows(db, db', {}), db'.assessments = db.assessments, req' = req
    PROVE  /\ req' = [r \in Requests |-> req'[r]]
           /\ \A r \in Requests : req'[r] # NoRequest => Holds(req'[r], db')
<1>1. Sound(db') /\ Later(db, db') /\ Sound(db)
  BY DEF Follows, DossierInv
<1>2. ~LockTaken(db, db')
  BY DEF LockTaken, AuthoringLocked, governing_aiia
<1>3. ASSUME NEW r \in Requests, req[r] # NoRequest PROVE Holds(req[r], db')
  <2> DEFINE q == req[r]
  <2>1. Holds(q, db)
    BY <1>3 DEF DossierInv
  <2> HIDE DEF q
  <2>2. Holds(q, db')
    BY <1>1, <1>2, <2>1, HoldsLater DEF Holds
  <2> QED BY <2>2 DEF q
<1> QED BY <1>3 DEF DossierInv

LEMMA ClosingFollows ==
    ASSUME DossierInv, CloseExport
    PROVE  Follows(db, db', {}) /\ db'.assessments = db.assessments
<1> DEFINE x == export
           entity == IF x.kind = "framework" THEN <<"framework", 0>> ELSE <<x.kind, 1>>
           action == "export.generated"
           e == Event(action, entity, 0)
<1>0. x.kind \in PackKinds
  BY DEF CloseExport, DossierInv, ExportSound, NoExport
<1>1. db' = Staged(db, e)
  BY DEF CloseExport, ExportEvent
<1>2. entity[1] \in PackKinds
  BY <1>0 DEF PackKinds
<1> HIDE DEF entity
<1>3. EventSound(e, db.lastAssessment, db.lastItem, db.lastLink)
  BY <1>2 DEF EventSound, Event, PackKinds
<1>4. action \notin CountedActions
  BY DEF CountedActions, ItemActions, LinkActions
<1>5. DOMAIN db = Tables /\ Sound(db)
  BY DEF DossierInv, Sound
<1>6. Has(db', db.assessments, db.items, db.controlLinks, db.evidenceLinks,
          With1(db.audit, e), db.lastAssessment, db.lastItem, db.lastLink)
  BY <1>1, <1>5, StagedHas
<1> HIDE DEF action
<1>7. Follows(db, db', {})
  BY <1>3, <1>4, <1>5, <1>6, EventFollows
<1> QED BY <1>6, <1>7 DEF Has

LEMMA CloseExportKeeps ==
    ASSUME DossierInv, CloseExport
    PROVE  DossierInv'
<1> DEFINE x == export
<1>1. x # NoExport /\ x.kind \in PackKinds /\ Sound(x.seen)
      /\ x.body = Body(x.kind, x.framework, x.seen)
  BY DEF CloseExport, DossierInv, ExportSound, NoExport
<1>2. Follows(db, db', {}) /\ db'.assessments = db.assessments
  BY ClosingFollows
<1>3. pack' = PackOf(x.kind, x.framework, x.seen)
  BY <1>1 DEF CloseExport, PackOf, ViewOf
<1>4. PackSound(pack')
  BY <1>1, <1>3 DEF PackSound, PackOf
<1>5. writes' \in 0 .. MaxWrites /\ export' = NoExport /\ req' = req
  BY DEF CloseExport, DossierInv, DossierAssumption
<1>6. Sound(db')
  BY <1>2 DEF Follows
<1> QED BY <1>2, <1>4, <1>5, <1>6, EventKeepsRequests DEF DossierInv, ExportSound

LEMMA ReadingKeeps ==
    ASSUME DossierInv, BeginExport \/ AssembleBody \/ FailExport
    PROVE  DossierInv'
<1>1. UNCHANGED <<db, req, pack, writes>>
  BY DEF BeginExport, AssembleBody, FailExport
<1>2. ExportSound(export')
  <2>1. CASE BeginExport
    BY <2>1 DEF BeginExport, DossierInv, ExportSound, ExportFields, PackKinds
  <2>2. CASE AssembleBody
    <3>1. export # NoExport /\ ExportSound(export)
      BY <2>2 DEF AssembleBody, DossierInv, NoExport
    <3> QED BY <2>2, <3>1 DEF AssembleBody, ExportSound, ExportFields, ViewOf
  <2>3. CASE FailExport
    BY <2>3 DEF FailExport, ExportSound
  <2> QED BY <2>1, <2>2, <2>3
<1> QED BY <1>1, <1>2 DEF DossierInv

\* The checks of a request that makes its writes with them.
LEMMA BeginContent ==
    ASSUME DossierInv, NEW r \in Requests,
           \/ BeginCreateItem(r) \/ BeginConfirm(r) \/ BeginAmend(r)
           \/ BeginLinkControl(r) \/ BeginLinkEvidence(r)
    PROVE  DossierInv'
<1>1. /\ \A a \in Ids(db) : a \in 1 .. db.lastAssessment
      /\ \A i \in DOMAIN db.items : i \in 1 .. db.lastItem
  BY DEF DossierInv, Sound, RowsSound, AssessmentsSound, ItemsSound, Ids
<1>2. CASE BeginCreateItem(r)
  <2>1. PICK a \in Ids(db), answered \in BOOLEAN :
           ~AuthoringLocked(db, a) /\ Begin(r, "create_item", a, answered, 0)
    BY <1>2 DEF BeginCreateItem
  <2>2. Holds(Asked("create_item", a, answered, 0), db)
    BY <1>1, <2>1
       DEF Holds, Asked, RequestFields, AsksTyped, NamesDrawn, StillMeans, FindsUnlocked
  <2> QED BY <2>1, <2>2, BeginKeeps
<1>3. CASE BeginConfirm(r)
  <2>1. PICK i \in DOMAIN db.items :
           /\ ~AuthoringLocked(db, db.items[i].of)
           /\ Begin(r, "confirm", i, "none", db.items[i].lock)
    BY <1>3 DEF BeginConfirm
  <2>2. Holds(Asked("confirm", i, "none", db.items[i].lock), db)
    BY <1>1, <2>1
       DEF Holds, Asked, RequestFields, AsksTyped, NamesDrawn, StillMeans, FindsUnlocked
  <2> QED BY <2>1, <2>2, BeginKeeps
<1>4. CASE BeginAmend(r)
  <2>1. PICK i \in DOMAIN db.items :
           /\ ~AuthoringLocked(db, db.items[i].of) /\ ~Suggestion(db.items[i])
           /\ \/ \E plan \in BOOLEAN : Begin(r, "amend", i, plan, db.items[i].lock)
              \/ \E decision \in {"MITIGATE", "ACCEPT"}, rationale \in BOOLEAN :
                    Begin(r, "treat", i, <<decision, rationale>>, db.items[i].lock)
    BY <1>4 DEF BeginAmend, Suggestion
  <2>2. ASSUME NEW plan \in BOOLEAN, Begin(r, "amend", i, plan, db.items[i].lock)
        PROVE  DossierInv'
    <3>1. Flag(plan)
      BY DEF Flag
    <3>2. Holds(Asked("amend", i, plan, db.items[i].lock), db)
      BY <1>1, <2>1, <3>1
         DEF Holds, Asked, RequestFields, AsksTyped, NamesDrawn, StillMeans, FindsUnlocked
    <3> QED BY <2>2, <3>2, BeginKeeps
  <2>3. ASSUME NEW decision \in {"MITIGATE", "ACCEPT"}, NEW rationale \in BOOLEAN,
               Begin(r, "treat", i, <<decision, rationale>>, db.items[i].lock)
        PROVE  DossierInv'
    <3>1. Flag(rationale)
      BY DEF Flag
    <3>2. Holds(Asked("treat", i, <<decision, rationale>>, db.items[i].lock), db)
      BY <1>1, <2>1, <3>1
         DEF Holds, Asked, RequestFields, AsksTyped, NamesDrawn, StillMeans, FindsUnlocked
    <3> QED BY <2>3, <3>2, BeginKeeps
  <2> QED BY <2>1, <2>2, <2>3
<1>5. CASE BeginLinkControl(r)
  <2>1. PICK i \in DOMAIN db.items, c \in Controls, coverage \in Coverages :
           /\ ~AuthoringLocked(db, db.items[i].of)
           /\ Begin(r, "link_control", i, <<c, coverage>>, 0)
    BY <1>5 DEF BeginLinkControl
  <2>2. Holds(Asked("link_control", i, <<c, coverage>>, 0), db)
    BY <1>1, <2>1
       DEF Holds, Asked, RequestFields, AsksTyped, NamesDrawn, StillMeans, FindsUnlocked
  <2> QED BY <2>1, <2>2, BeginKeeps
<1>6. CASE BeginLinkEvidence(r)
  <2>1. PICK i \in DOMAIN db.items, x \in Evidence :
           /\ ~AuthoringLocked(db, db.items[i].of) /\ ~Suggestion(db.items[i])
           /\ Begin(r, "link_evidence", i, x, 0)
    BY <1>6 DEF BeginLinkEvidence, Suggestion
  <2>2. Holds(Asked("link_evidence", i, x, 0), db)
    BY <1>1, <2>1
       DEF Holds, Asked, RequestFields, AsksTyped, NamesDrawn, StillMeans, FindsUnlocked
  <2> QED BY <2>1, <2>2, BeginKeeps
<1> QED BY <1>2, <1>3, <1>4, <1>5, <1>6

LEMMA BeginOther ==
    ASSUME DossierInv, NEW r \in Requests,
           \/ BeginDeleteItem(r) \/ BeginDeleteAssessment(r)
           \/ BeginUnlinkControl(r) \/ BeginUnlinkEvidence(r) \/ BeginSubmit(r)
    PROVE  DossierInv'
<1>1. /\ \A a \in Ids(db) : a \in 1 .. db.lastAssessment /\ db.assessments[a] \in AssessmentRows
      /\ \A i \in DOMAIN db.items : i \in 1 .. db.lastItem
  BY DEF DossierInv, Sound, RowsSound, AssessmentsSound, ItemsSound, Ids
<1>2. CASE BeginDeleteItem(r)
  <2>1. PICK i \in DOMAIN db.items : Begin(r, "delete_item", i, "none", 0)
    BY <1>2 DEF BeginDeleteItem
  <2>2. Holds(Asked("delete_item", i, "none", 0), db)
    BY <1>1
       DEF Holds, Asked, RequestFields, AsksTyped, NamesDrawn, StillMeans, FindsUnlocked
  <2> QED BY <2>1, <2>2, BeginKeeps
<1>3. CASE BeginDeleteAssessment(r)
  <2>1. PICK a \in Ids(db) : Begin(r, "delete_assessment", a, "none", 0)
    BY <1>3 DEF BeginDeleteAssessment
  <2>2. Holds(Asked("delete_assessment", a, "none", 0), db)
    BY <1>1
       DEF Holds, Asked, RequestFields, AsksTyped, NamesDrawn, StillMeans, FindsUnlocked
  <2> QED BY <2>1, <2>2, BeginKeeps
<1>4. CASE BeginUnlinkControl(r)
  <2>1. PICK l \in db.controlLinks : Begin(r, "unlink_control", l, "none", 0)
    BY <1>4 DEF BeginUnlinkControl
  <2>2. /\ l.id \in 1 .. db.lastLink /\ l.item \in 1 .. db.lastItem
        /\ \A m \in db.controlLinks : m.id = l.id => m = l
    BY <1>1 DEF DossierInv, Sound, RowsSound, ControlLinksSound
  <2>3. Holds(Asked("unlink_control", l, "none", 0), db)
    BY <2>2
       DEF Holds, Asked, RequestFields, AsksTyped, NamesDrawn, StillMeans, FindsUnlocked
  <2> QED BY <2>1, <2>3, BeginKeeps
<1>5. CASE BeginUnlinkEvidence(r)
  <2>1. PICK l \in db.evidenceLinks : Begin(r, "unlink_evidence", l, "none", 0)
    BY <1>5 DEF BeginUnlinkEvidence
  <2>2. /\ l.id \in 1 .. db.lastLink /\ l.item \in 1 .. db.lastItem
        /\ \A m \in db.evidenceLinks : m.id = l.id => m = l
    BY <1>1 DEF DossierInv, Sound, RowsSound, EvidenceLinksSound
  <2>3. Holds(Asked("unlink_evidence", l, "none", 0), db)
    BY <2>2
       DEF Holds, Asked, RequestFields, AsksTyped, NamesDrawn, StillMeans, FindsUnlocked
  <2> QED BY <2>1, <2>3, BeginKeeps
<1>6. CASE BeginSubmit(r)
  <2>1. PICK a \in Ids(db) :
           db.assessments[a].round < MaxRounds /\ Begin(r, "submit", a, "none", VersionOf(a))
    BY <1>6 DEF BeginSubmit
  <2>2. VersionOf(a)[2] \in 0 .. MaxRounds /\ VersionOf(a)[2] # MaxRounds
    BY <1>1, <2>1 DEF VersionOf, AssessmentRows, DossierAssumption
  <2> DEFINE seen == VersionOf(a)
  <2> HIDE DEF seen
  <2>3. Holds(Asked("submit", a, "none", seen), db)
    BY <1>1, <2>2
       DEF Holds, Asked, RequestFields, AsksTyped, NamesDrawn, StillMeans, FindsUnlocked, seen
  <2> QED BY <2>1, <2>3, BeginKeeps DEF seen
<1> QED BY <1>2, <1>3, <1>4, <1>5, <1>6

-----------------------------------------------------------------------------
(***************************************************************************)
(* The commits.  Content under lock is written by late requests only.      *)
(***************************************************************************)
Lawful ==
    \E S : Follows(db, db', S) /\ (LateWrite \/ \A a \in S : ~AuthoringLocked(db, a))

LEMMA LawfulWrite ==
    ASSUME DossierInv, NEW R, NEW d, NEW S, Write(R, d), Follows(db, d, S),
           LateWrite \/ \A a \in S : ~AuthoringLocked(db, a)
    PROVE  DossierInv' /\ Lawful
<1>1. Lawful
  BY DEF Lawful, Write
<1> QED BY <1>1, WriteKeeps

LEMMA ContentCommitted ==
    ASSUME DossierInv, NEW r \in Requests, req[r] # NoRequest, NEW d, NEW a,
           Write({r}, d), Follows(db, d, {a}),
           FindsUnlocked(req[r], db) => ~AuthoringLocked(db, a)
    PROVE  DossierInv' /\ Lawful
<1>1. Holds(req[r], db)
  BY DEF DossierInv
<1>2. CASE req[r].late
  BY <1>2, LawfulWrite DEF LateWrite, Write
<1>3. CASE ~req[r].late
  <2>1. FindsUnlocked(req[r], db)
    BY <1>1, <1>3 DEF Holds
  <2> QED BY <2>1, LawfulWrite
<1> QED BY <1>2, <1>3

LEMMA ContentCommits ==
    ASSUME DossierInv, NEW r \in Requests,
           \/ CommitCreateItem(r) \/ CommitConfirm(r) \/ CommitAmend(r) \/ CommitTreatment(r)
           \/ CommitLinkControl(r) \/ CommitLinkEvidence(r)
    PROVE  DossierInv' /\ Lawful
<1> DEFINE q == req[r]
<1>1. q # NoRequest
  BY DEF NoRequest, Asks, CommitCreateItem, CommitConfirm, CommitAmend, CommitTreatment,
         CommitLinkControl, CommitLinkEvidence
<1>2. Sound(db) /\ Holds(q, db)
  BY <1>1 DEF DossierInv
<1>3. CASE CommitCreateItem(r)
  <2>1. q.op = "create_item" /\ q.on \in Ids(db) /\ Write({r}, item_created(db, q.on, q.with))
    BY <1>3 DEF CommitCreateItem, Asks
  <2>2. Follows(db, item_created(db, q.on, q.with), {q.on})
    BY <1>2, <2>1, ItemCreatedFollows
  <2>3. FindsUnlocked(q, db) => ~AuthoringLocked(db, q.on)
    BY <2>1 DEF FindsUnlocked
  <2> QED BY <1>1, <2>1, <2>2, <2>3, ContentCommitted
<1>4. ASSUME q.op \in {"confirm", "amend", "treat", "link_control", "link_evidence"},
             q.on \in DOMAIN db.items, NEW d, Write({r}, d),
             Follows(db, d, {db.items[q.on].of})
      PROVE  DossierInv' /\ Lawful
  <2>1. FindsUnlocked(q, db) => ~AuthoringLocked(db, db.items[q.on].of)
    BY <1>4 DEF FindsUnlocked
  <2> QED BY <1>1, <1>4, <2>1, ContentCommitted
<1>5. CASE CommitConfirm(r)
  <2>1. /\ q.op = "confirm" /\ q.on \in DOMAIN db.items /\ Suggestion(db.items[q.on])
        /\ Write({r}, item_confirmed(db, q.on))
    BY <1>5 DEF CommitConfirm, Asks, Suggestion
  <2>2. Follows(db, item_confirmed(db, q.on), {db.items[q.on].of})
    BY <1>2, <2>1, ItemConfirmedFollows
  <2> QED BY <1>4, <2>1, <2>2
<1>6. CASE CommitAmend(r)
  <2>1. /\ q.op = "amend" /\ q.on \in DOMAIN db.items
        /\ Write({r}, item_amended(db, q.on, q.with))
    BY <1>6 DEF CommitAmend, Asks, Unchanged
  <2>2. ~Suggestion(db.items[q.on]) /\ Flag(q.with)
    BY <1>2, <2>1 DEF Holds, StillMeans, AsksTyped
  <2>3. Follows(db, item_amended(db, q.on, q.with), {db.items[q.on].of})
    BY <1>2, <2>1, <2>2, ItemAmendedFollows
  <2> QED BY <1>4, <2>1, <2>3
<1>7. CASE CommitTreatment(r)
  <2>1. /\ q.op = "treat" /\ q.on \in DOMAIN db.items
        /\ Write({r}, treatment_set(db, q.on, q.with[1], q.with[2]))
    BY <1>7 DEF CommitTreatment, Asks, Unchanged
  <2>2. /\ ~Suggestion(db.items[q.on])
        /\ q.with[1] \in {"MITIGATE", "ACCEPT"} /\ Flag(q.with[2])
    BY <1>2, <2>1 DEF Holds, StillMeans, AsksTyped
  <2>3. Follows(db, treatment_set(db, q.on, q.with[1], q.with[2]), {db.items[q.on].of})
    BY <1>2, <2>1, <2>2, TreatmentSetFollows
  <2> QED BY <1>4, <2>1, <2>3
<1>8. CASE CommitLinkControl(r)
  <2>1. /\ q.op = "link_control" /\ q.on \in DOMAIN db.items
        /\ \A l \in db.controlLinks : ~(l.item = q.on /\ l.control = q.with[1])
        /\ Write({r}, control_linked(db, q.on, q.with[1], q.with[2]))
    BY <1>8 DEF CommitLinkControl, Asks
  <2>2. q.with[1] \in Controls /\ q.with[2] \in Coverages
    BY <1>2, <2>1 DEF Holds, AsksTyped
  <2>3. Follows(db, control_linked(db, q.on, q.with[1], q.with[2]), {db.items[q.on].of})
    BY <1>2, <2>1, <2>2, ControlLinkedFollows
  <2> QED BY <1>4, <2>1, <2>3
<1>9. CASE CommitLinkEvidence(r)
  <2>1. /\ q.op = "link_evidence" /\ q.on \in DOMAIN db.items
        /\ Write({r}, evidence_linked(db, q.on, q.with))
    BY <1>9 DEF CommitLinkEvidence, Asks
  <2>2. ~Suggestion(db.items[q.on]) /\ q.with \in Evidence
    BY <1>2, <2>1 DEF Holds, StillMeans, AsksTyped
  <2>3. Follows(db, evidence_linked(db, q.on, q.with), {db.items[q.on].of})
    BY <1>2, <2>1, <2>2, EvidenceLinkedFollows
  <2> QED BY <1>4, <2>1, <2>3
<1> QED BY <1>3, <1>5, <1>6, <1>7, <1>8, <1>9

LEMMA OtherCommits ==
    ASSUME DossierInv, NEW r \in Requests,
           \/ CommitDeleteItem(r) \/ CommitDeleteAssessment(r)
           \/ CommitUnlinkControl(r) \/ CommitUnlinkEvidence(r) \/ CommitSubmit(r)
    PROVE  DossierInv' /\ Lawful
<1> DEFINE q == req[r]
<1>1. q # NoRequest
  BY DEF NoRequest, Asks, CommitDeleteItem, CommitDeleteAssessment, CommitUnlinkControl,
         CommitUnlinkEvidence, CommitSubmit
<1>2. Sound(db) /\ Holds(q, db)
  BY <1>1 DEF DossierInv
<1>3. ASSUME NEW d, Write({r}, d), Follows(db, d, {}) PROVE DossierInv' /\ Lawful
  BY <1>3, LawfulWrite
<1>4. CASE CommitDeleteItem(r)
  <2>1. q.op = "delete_item" /\ Write({r}, item_deleted(db, q.on))
    BY <1>4 DEF CommitDeleteItem, Asks
  <2>2. q.on \in 1 .. db.lastItem
    BY <1>2, <2>1 DEF Holds, NamesDrawn
  <2>3. Follows(db, item_deleted(db, q.on), {})
    BY <1>2, <2>2, ItemDeletedFollows
  <2> QED BY <1>3, <2>1, <2>3
<1>5. CASE CommitDeleteAssessment(r)
  <2>1. q.op = "delete_assessment" /\ Write({r}, assessment_deleted(db, q.on))
    BY <1>5 DEF CommitDeleteAssessment, Asks
  <2>2. q.on \in 1 .. db.lastAssessment
    BY <1>2, <2>1 DEF Holds, NamesDrawn
  <2>3. Follows(db, assessment_deleted(db, q.on), {})
    BY <1>2, <2>2, AssessmentDeletedFollows
  <2> QED BY <1>3, <2>1, <2>3
<1>6. CASE CommitUnlinkControl(r)
  <2>1. q.op = "unlink_control" /\ Write({r}, control_unlinked(db, q.on))
    BY <1>6 DEF CommitUnlinkControl, Asks
  <2>2. /\ q.on.id \in 1 .. db.lastLink /\ q.on.item \in 1 .. db.lastItem
        /\ \A m \in db.controlLinks : m.id = q.on.id => m = q.on
    BY <1>2, <2>1 DEF Holds, NamesDrawn, StillMeans
  <2>3. Follows(db, control_unlinked(db, q.on), {})
    BY <1>2, <2>2, ControlUnlinkedFollows
  <2> QED BY <1>3, <2>1, <2>3
<1>7. CASE CommitUnlinkEvidence(r)
  <2>1. q.op = "unlink_evidence" /\ Write({r}, evidence_unlinked(db, q.on))
    BY <1>7 DEF CommitUnlinkEvidence, Asks
  <2>2. /\ q.on.id \in 1 .. db.lastLink /\ q.on.item \in 1 .. db.lastItem
        /\ \A m \in db.evidenceLinks : m.id = q.on.id => m = q.on
    BY <1>2, <2>1 DEF Holds, NamesDrawn, StillMeans
  <2>3. Follows(db, evidence_unlinked(db, q.on), {})
    BY <1>2, <2>2, EvidenceUnlinkedFollows
  <2> QED BY <1>3, <2>1, <2>3
<1>8. CASE CommitSubmit(r)
  <2>1. /\ q.op = "submit" /\ q.on \in Ids(db) /\ VersionOf(q.on) = q.seen
        /\ Write({r}, assessment_submitted(db, q.on))
    BY <1>8 DEF CommitSubmit, Asks
  <2>2. db.assessments[q.on].round # MaxRounds
    BY <1>2, <2>1 DEF Holds, AsksTyped, VersionOf
  <2>3. Follows(db, assessment_submitted(db, q.on), {})
    BY <1>2, <2>1, <2>2, SubmittedFollows
  <2> QED BY <1>3, <2>1, <2>3
<1> QED BY <1>4, <1>5, <1>6, <1>7, <1>8

LEMMA OtherWrites ==
    ASSUME DossierInv, CreateAiia \/ CreateFeeder \/ RecordReview \/ Reopen
    PROVE  DossierInv' /\ Lawful
<1>1. Sound(db)
  BY DEF DossierInv
<1>2. ASSUME NEW d, Write({}, d), Follows(db, d, {}) PROVE DossierInv' /\ Lawful
  BY <1>2, LawfulWrite
<1>3. CASE CreateAiia
  <2>1. PICK t \in AssessedTiers : Write({}, aiia_created(db, t))
    BY <1>3 DEF CreateAiia
  <2>2. Follows(db, aiia_created(db, t), {})
    BY <1>1, AssessmentFollows
       DEF aiia_created, Types, CountedActions, ItemActions, LinkActions
  <2> QED BY <1>2, <2>1, <2>2
<1>4. CASE CreateFeeder
  <2>1. PICK a \in Aiias(db), type \in FeederTypes : Write({}, feeder_created(db, a, type))
    BY <1>4 DEF CreateFeeder
  <2>2. db.assessments[a].tier \in AssessedTiers
    BY <1>1 DEF Aiias, Ids, Sound, RowsSound, AssessmentsSound, AssessmentRows
  <2>3. Follows(db, feeder_created(db, a, type), {})
    BY <1>1, <2>2, AssessmentFollows
       DEF feeder_created, Types, CountedActions, ItemActions, LinkActions
  <2> QED BY <1>2, <2>1, <2>3
<1>5. CASE RecordReview
  <2>1. PICK a \in Ids(db), status \in {"APPROVED", "DRAFT"} :
           Write({}, review_recorded(db, a, status))
    BY <1>5 DEF RecordReview
  <2>2. Follows(db, review_recorded(db, a, status), {})
    BY <1>1, ReviewRecordedFollows DEF Statuses
  <2> QED BY <1>2, <2>1, <2>2
<1>6. CASE Reopen
  <2>1. PICK a \in Ids(db) : Write({}, assessment_reopened(db, a))
    BY <1>6 DEF Reopen
  <2>2. Follows(db, assessment_reopened(db, a), {})
    BY <1>1, ReopenedFollows
  <2> QED BY <1>2, <2>1, <2>2
<1> QED BY <1>3, <1>4, <1>5, <1>6

LEMMA AbortKeeps ==
    ASSUME DossierInv, NEW r \in Requests, Abort(r)
    PROVE  DossierInv'
<1>1. req' = [x \in Requests |-> IF x = r THEN NoRequest ELSE req[x]]
  BY DEF Abort, DossierInv
<1> QED BY <1>1 DEF Abort, DossierInv

-----------------------------------------------------------------------------
LEMMA EmptyIsSound == Sound(EmptyDossier)
<1> DEFINE d == EmptyDossier
<1>1. /\ DOMAIN d = Tables
      /\ d.assessments = <<>> /\ d.items = <<>> /\ d.controlLinks = {} /\ d.evidenceLinks = {}
      /\ d.audit = EmptyBag /\ d.lastAssessment = 0 /\ d.lastItem = 0 /\ d.lastLink = 0
  BY DEF EmptyDossier, Tables
<1>2. DOMAIN <<>> = {}
  OBVIOUS
<1>3. IsABag(EmptyBag) /\ BagToSet(EmptyBag) = {}
  BY DEF IsABag, EmptyBag, SetToBag, BagToSet
<1>4. IsFiniteSet({})
  BY FS_EmptySet
<1> HIDE DEF d
<1>5. AssessmentsSound(d.assessments, 0) /\ ItemsSound(d.items, 0, d.assessments)
  BY <1>1, <1>2 DEF AssessmentsSound, ItemsSound
<1>6. ControlLinksSound({}, 0, d.items) /\ EvidenceLinksSound({}, 0, d.items)
  BY <1>4 DEF ControlLinksSound, EvidenceLinksSound
<1>7. AuditSound(EmptyBag, 0, 0, 0)
  BY <1>3 DEF AuditSound
<1>8. Accounted(d.audit, d.assessments, d.items, {}, {})
  BY <1>1, <1>2 DEF Accounted, ItemsAccounted, LinksAccounted, RoundsAccounted
<1> QED BY <1>1, <1>5, <1>6, <1>7, <1>8 DEF Sound, RowsSound, d

LEMMA InitSound == DossierInit => DossierInv
BY EmptyIsSound
   DEF DossierInit, DossierFrom, DossierInv, ExportSound, PackSound, DossierAssumption

LEMMA StepLawful ==
    ASSUME DossierInv, DossierNext
    PROVE  DossierInv' /\ (Lawful \/ db' = db)
<1>1. CASE CreateAiia \/ CreateFeeder \/ RecordReview \/ Reopen
  BY <1>1, OtherWrites
<1>2. CASE BeginExport \/ AssembleBody \/ FailExport
  BY <1>2, ReadingKeeps DEF BeginExport, AssembleBody, FailExport
<1>3. CASE CloseExport
  BY <1>3, CloseExportKeeps, ClosingFollows DEF Lawful
<1>4. ASSUME NEW r \in Requests,
             \/ BeginCreateItem(r) \/ BeginConfirm(r) \/ BeginAmend(r)
             \/ BeginLinkControl(r) \/ BeginLinkEvidence(r)
      PROVE  DossierInv' /\ db' = db
  BY <1>4, BeginContent
     DEF Begin, BeginCreateItem, BeginConfirm, BeginAmend, BeginLinkControl, BeginLinkEvidence
<1>5. ASSUME NEW r \in Requests,
             \/ BeginDeleteItem(r) \/ BeginDeleteAssessment(r)
             \/ BeginUnlinkControl(r) \/ BeginUnlinkEvidence(r) \/ BeginSubmit(r)
      PROVE  DossierInv' /\ db' = db
  BY <1>5, BeginOther
     DEF Begin, BeginDeleteItem, BeginDeleteAssessment, BeginUnlinkControl,
         BeginUnlinkEvidence, BeginSubmit
<1>6. ASSUME NEW r \in Requests,
             \/ CommitCreateItem(r) \/ CommitConfirm(r) \/ CommitAmend(r) \/ CommitTreatment(r)
             \/ CommitLinkControl(r) \/ CommitLinkEvidence(r)
      PROVE  DossierInv' /\ Lawful
  BY <1>6, ContentCommits
<1>7. ASSUME NEW r \in Requests,
             \/ CommitDeleteItem(r) \/ CommitDeleteAssessment(r)
             \/ CommitUnlinkControl(r) \/ CommitUnlinkEvidence(r) \/ CommitSubmit(r)
      PROVE  DossierInv' /\ Lawful
  BY <1>7, OtherCommits
<1>8. ASSUME NEW r \in Requests, Abort(r) PROVE DossierInv' /\ db' = db
  BY <1>8, AbortKeeps DEF Abort
<1> QED BY <1>1, <1>2, <1>3, <1>4, <1>5, <1>6, <1>7, <1>8 DEF DossierNext

LEMMA StepSound ==
    ASSUME DossierInv, [DossierNext]_dossierVars
    PROVE  DossierInv'
<1>1. CASE DossierNext
  BY <1>1, StepLawful
<1>2. CASE UNCHANGED dossierVars
  BY <1>2 DEF dossierVars, DossierInv
<1> QED BY <1>1, <1>2

(***************************************************************************)
(* Whatever is written and deleted, in whatever order requests that made   *)
(* their checks on other rows commit: the rows agree with each other and   *)
(* with the trail, what a request still relies on holds, and an export     *)
(* and its pack are of rows committed together.                            *)
(***************************************************************************)
THEOREM DossierInvariant == DossierSpec => []DossierInv
BY InitSound, StepSound, PTL DEF DossierSpec

(***************************************************************************)
(* The rows have their types and refer to rows that exist, whatever the    *)
(* deletes of items and assessments cascade to (assessment_service.py).    *)
(***************************************************************************)
THEOREM DossierTypes == DossierSpec => []DossierTypeOK
<1>1. ASSUME DossierInv PROVE DossierTypeOK
  <2>1. Sound(db) /\ writes \in 0 .. MaxWrites
    BY <1>1 DEF DossierInv
  <2>2. \A a \in Ids(db) : /\ db.assessments[a] \in AssessmentRows
                           /\ db.assessments[a].parent \in Ids(db) \cup {0}
    BY <2>1 DEF Sound, RowsSound, AssessmentsSound, Ids
  <2>3. \A i \in DOMAIN db.items : db.items[i] \in Items /\ db.items[i].of \in Ids(db)
    BY <2>1 DEF Sound, RowsSound, ItemsSound, Ids
  <2>4. /\ db.controlLinks \subseteq ControlLinks /\ db.evidenceLinks \subseteq EvidenceLinks
        /\ \A l \in db.controlLinks \cup db.evidenceLinks : l.item \in DOMAIN db.items
    BY <2>1 DEF Sound, RowsSound, ControlLinksSound, EvidenceLinksSound
  <2>5. IsABag(db.audit)
    BY <2>1 DEF Sound, AuditSound
  <2> QED BY <2>1, <2>2, <2>3, <2>4, <2>5 DEF DossierTypeOK
<1> QED BY <1>1, DossierInvariant, PTL

(***************************************************************************)
(* A proposed risk is nothing but its identity until somebody confirms it, *)
(* and it is confirmed once, whoever else was confirming it, amending it   *)
(* or linking evidence to it (confirm_item, amend_item,                    *)
(* create_evidence_link).                                                  *)
(***************************************************************************)
THEOREM SuggestionsAlwaysStayOut == DossierSpec => []SuggestionsStayOut
<1>1. ASSUME DossierInv PROVE SuggestionsStayOut
  <2>1. Sound(db)
    BY <1>1 DEF DossierInv
  <2>2. ASSUME NEW i \in DOMAIN db.items, Suggestion(db.items[i])
        PROVE  /\ db.items[i].lock = 0 /\ db.items[i].decision = "none" /\ ~db.items[i].plan
               /\ \A l \in db.evidenceLinks : l.item # i
    BY <2>1, <2>2 DEF Sound, RowsSound, ItemsSound, ItemSound, EvidenceLinksSound
  <2>3. ASSUME NEW i \in DOMAIN db.items
        PROVE  Copies(Event("assessment_item.confirmed", <<"item", i>>, 0), db.audit)
                 = IF Dispositioned(db.items[i]) THEN 1 ELSE 0
    BY <2>1 DEF Sound, Accounted, ItemsAccounted, ItemAccounted, Count
  <2> QED BY <2>2, <2>3 DEF SuggestionsStayOut, Suggestion
<1> QED BY <1>1, DossierInvariant, PTL

\* A row of the family of a has the lock of a.
LEMMA FamilyLock ==
    ASSUME NEW d, NEW a \in Aiias(d), NEW b \in Family(d, a), a # 0
    PROVE  AuthoringLocked(d, b) <=> AuthoringLocked(d, a)
<1>1. governing_aiia(d, b) = a /\ governing_aiia(d, a) = a
  BY DEF governing_aiia, Family, Aiias
<1> QED BY <1>1 DEF AuthoringLocked

LEMMA LawfulKeepsContent ==
    ASSUME DossierInv, DossierInv', NEW S, Follows(db, db', S),
           \A a \in S : ~AuthoringLocked(db, a)
    PROVE  ContentKept
<1>1. Sound(db) /\ Later(db, db') /\ Touches(db, db', S) /\ Sound(db')
  BY DEF DossierInv, Follows
<1> SUFFICES ASSUME NEW a \in Ids(db), LockedThroughout(a)
             PROVE  /\ ItemsIn(db, Family(db, a))' \cap 1 .. db.lastItem
                          \subseteq ItemsIn(db, Family(db, a))
                    /\ \A i \in ItemsIn(db, Family(db, a)) \cap (DOMAIN db.items)' :
                          /\ db'.items[i] = db.items[i]
                          /\ LinksOf(db', i) \subseteq LinksOf(db, i)
                    /\ \A i \in ItemsIn(db, Family(db, a))' \ DOMAIN db.items :
                          (db.items[i].of)' \notin Ids(db)
  BY DEF ContentKept
<1>2. /\ a \in Aiias(db) /\ a # 0
      /\ \A b \in Family(db, a) : b \notin S
  <2>1. a \in Aiias(db) /\ AuthoringLocked(db, a)
    BY DEF LockedThroughout
  <2>2. a # 0
    BY <1>1 DEF Sound, RowsSound, AssessmentsSound, Ids
  <2> QED BY <2>1, <2>2, FamilyLock
\* Parents stay: what is of the family afterwards, and was there, was of it.
<1>3. ASSUME NEW b \in Family(db', a), b \in Ids(db), b \in Ids(db')
      PROVE  b \in Family(db, a)
  BY <1>1, <1>3 DEF Later, Family
<1>4. ASSUME NEW i \in ItemsIn(db', Family(db', a))
      PROVE  /\ i \in DOMAIN db'.items /\ db'.items[i].of \in Family(db', a)
             /\ db'.items[i].of \in Ids(db')
  BY <1>1 DEF ItemsIn, Sound, RowsSound, ItemsSound, Ids
<1>5. ASSUME NEW i \in ItemsIn(db', Family(db', a)), i \in 1 .. db.lastItem
      PROVE  i \in ItemsIn(db, Family(db, a))
  <2>1. i \in DOMAIN db.items /\ db'.items[i].of = db.items[i].of
    BY <1>1, <1>4, <1>5 DEF Later, Sound, RowsSound
  <2>2. db.items[i].of \in Ids(db)
    BY <1>1, <2>1 DEF Sound, RowsSound, ItemsSound, Ids
  <2> QED BY <1>3, <1>4, <2>1, <2>2 DEF ItemsIn
<1>6. ASSUME NEW i \in ItemsIn(db, Family(db, a)), i \in DOMAIN db'.items
      PROVE  db'.items[i] = db.items[i] /\ LinksOf(db', i) \subseteq LinksOf(db, i)
  <2>1. i \in DOMAIN db.items /\ db.items[i].of \in Family(db, a)
    BY DEF ItemsIn
  <2>2. db.items[i].of \notin S
    BY <1>2, <2>1
  <2> QED BY <1>1, <1>6, <2>1, <2>2 DEF Touches
<1>7. ASSUME NEW i \in ItemsIn(db', Family(db', a)), i \notin DOMAIN db.items,
             db'.items[i].of \in Ids(db)
      PROVE  FALSE
  <2>1. db'.items[i].of \in Family(db, a)
    BY <1>3, <1>4, <1>7
  <2>2. db'.items[i].of \in S
    BY <1>1, <1>4, <1>7 DEF Touches
  <2> QED BY <1>2, <2>1, <2>2
<1> QED BY <1>5, <1>6, <1>7

(***************************************************************************)
(* While an AIIA is under review or approved, no item of it or of its      *)
(* feeders changes, gets a link or is added, except by a request that had  *)
(* passed the check before the lock was taken (_assert_authoring_unlocked, *)
(* and the WHERE clauses that do not ask again).                           *)
(***************************************************************************)
THEOREM LockAlwaysHolds == DossierSpec => LockHolds
<1>1. ASSUME DossierInv, [DossierNext]_dossierVars
      PROVE  [LateWrite \/ ContentKept]_dossierVars
  <2>1. CASE UNCHANGED dossierVars
    BY <2>1
  <2>2. CASE DossierNext
    <3>1. DossierInv' /\ (Lawful \/ db' = db)
      BY <1>1, <2>2, StepLawful
    <3>2. CASE Lawful
      BY <1>1, <3>1, <3>2, LawfulKeepsContent DEF Lawful
    <3>3. CASE db' = db
      BY <3>3 DEF ContentKept, ItemsIn, Family, LinksOf, Ids
    <3> QED BY <3>1, <3>2, <3>3
  <2> QED BY <1>1, <2>1, <2>2
<1> QED BY <1>1, DossierInvariant, PTL DEF DossierSpec, LockHolds

-----------------------------------------------------------------------------
(***************************************************************************)
(* The pack.                                                               *)
(***************************************************************************)
\* A closure of the trail keeps the events of its entities and items.
LEMMA ClosureCounts ==
    ASSUME NEW d, IsABag(d.audit), NEW E, NEW I, NEW entity \in E, NEW action
    PROVE  Count(audit_closure(d, E, I), action, entity) = Count(d.audit, action, entity)
<1> DEFINE e == Event(action, entity, 0)
           kept == {x \in BagToSet(d.audit) :
                       \/ x.entity \in E
                       \/ x.entity[1] \in {"control_link", "evidence_link"} /\ x.item \in I}
<1>1. e.entity = entity
  BY DEF Event
<1>2. audit_closure(d, E, I) = [x \in kept |-> d.audit[x]]
  BY DEF audit_closure, Restrict
<1> HIDE DEF e
<1>3. e \in kept <=> e \in BagToSet(d.audit)
  BY <1>1
<1> HIDE DEF kept
<1>4. Copies(e, [x \in kept |-> d.audit[x]]) = Copies(e, d.audit)
  BY <1>3 DEF Copies, BagToSet
<1> QED BY <1>2, <1>4 DEF Count, e

LEMMA ClosureLinks ==
    ASSUME NEW d, Sound(d), NEW E, NEW I, NEW i \in I, NEW action \in LinkActions
    PROVE  Linked(audit_closure(d, E, I), action, i) = Linked(d.audit, action, i)
<1> DEFINE kept == {x \in BagToSet(d.audit) :
                       \/ x.entity \in E
                       \/ x.entity[1] \in {"control_link", "evidence_link"} /\ x.item \in I}
<1>1. BagToSet(audit_closure(d, E, I)) = kept
  BY DEF audit_closure, Restrict, BagToSet
<1>2. ASSUME NEW x \in BagToSet(d.audit), x.action = action, x.item = i
      PROVE  x \in kept
  BY <1>2 DEF Sound, AuditSound, EventSound, LinkActions
<1>3. kept \subseteq BagToSet(d.audit)
  OBVIOUS
<1> HIDE DEF kept
<1> QED BY <1>1, <1>2, <1>3 DEF Linked

\* The assessments of the record.
Recorded(d) == UNION {Family(d, a) : a \in Aiias(d)}

LEMMA RecordRows ==
    ASSUME NEW d
    PROVE  LET record == AssessmentRecord(d) IN
           /\ DOMAIN record.items = ItemsIn(d, Recorded(d))
           /\ \A i \in ItemsIn(d, Recorded(d)) :
                 /\ record.items[i].item = d.items[i]
                 /\ record.items[i].controls = {l \in d.controlLinks : l.item = i}
                 /\ record.items[i].evidence = {l \in d.evidenceLinks : l.item = i}
           /\ DOMAIN record.assessments = Recorded(d)
           /\ \A a \in Recorded(d) : record.assessments[a] = d.assessments[a]
<1>1. /\ AssessmentRecord(d).assessments = [a \in Recorded(d) |-> d.assessments[a]]
      /\ AssessmentRecord(d).items =
            [i \in ItemsIn(d, Recorded(d)) |->
               [item |-> d.items[i], controls |-> {l \in d.controlLinks : l.item = i},
                evidence |-> {l \in d.evidenceLinks : l.item = i}]]
  BY DEF AssessmentRecord, Restrict, Recorded
<1> QED BY <1>1

LEMMA PackFields ==
    ASSUME NEW kind \in {"use_case", "system"}, NEW framework, NEW d
    PROVE  LET p == PackOf(kind, framework, d) IN
           /\ p.body.record = AssessmentRecord(d)
           /\ p.body.manifest = evidence_manifest(d, DOMAIN AssessmentRecord(d).items)
           /\ p.trail = audit_closure(d, EntityIds(kind, p.body.record),
                                      DOMAIN AssessmentRecord(d).items)
<1> DEFINE p == PackOf(kind, framework, d)
<1>1. p.body = Body(kind, framework, d) /\ p.trail = TrailOf(kind, p.body.record, d)
  BY DEF PackOf
<1> HIDE DEF p
<1>2. /\ p.body.record = AssessmentRecord(d)
      /\ p.body.manifest = evidence_manifest(d, DOMAIN AssessmentRecord(d).items)
  BY <1>1 DEF Body
<1>3. p.trail = audit_closure(d, EntityIds(kind, p.body.record), DOMAIN p.body.record.items)
  BY <1>1 DEF TrailOf
<1> QED BY <1>2, <1>3 DEF p

LEMMA RecordEntities ==
    ASSUME NEW kind, NEW d
    PROVE  /\ \A i \in ItemsIn(d, Recorded(d)) :
                 <<"item", i>> \in EntityIds(kind, AssessmentRecord(d))
           /\ \A a \in Recorded(d) :
                 <<"assessment", a>> \in EntityIds(kind, AssessmentRecord(d))
BY RecordRows DEF EntityIds

SameCounts(B, C, E) ==
    \A action, entity : entity \in E => Count(B, action, entity) = Count(C, action, entity)

LEMMA TrailOfPack ==
    ASSUME NEW kind \in {"use_case", "system"}, NEW framework, NEW d, Sound(d)
    PROVE  LET p == PackOf(kind, framework, d) IN
           /\ SameCounts(p.trail, d.audit, EntityIds(kind, AssessmentRecord(d)))
           /\ \A action \in LinkActions : \A i \in ItemsIn(d, Recorded(d)) :
                 Linked(p.trail, action, i) = Linked(d.audit, action, i)
<1> DEFINE p == PackOf(kind, framework, d)
           record == AssessmentRecord(d)
           E == EntityIds(kind, record)
           I == DOMAIN record.items
<1>1. p.trail = audit_closure(d, E, I)
  BY PackFields
<1>2. I = ItemsIn(d, Recorded(d))
  BY RecordRows
<1>4. IsABag(d.audit)
  BY DEF Sound, AuditSound
<1> HIDE DEF p, E, I
<1>5. ASSUME NEW entity \in E, NEW action
      PROVE  Count(p.trail, action, entity) = Count(d.audit, action, entity)
  BY <1>1, <1>4, ClosureCounts
<1>6. ASSUME NEW i \in I, NEW action \in LinkActions
      PROVE  Linked(p.trail, action, i) = Linked(d.audit, action, i)
  BY <1>1, ClosureLinks
<1>7. SameCounts(p.trail, d.audit, E)
  BY <1>5 DEF SameCounts
<1> QED BY <1>2, <1>6, <1>7 DEF p, E

(***************************************************************************)
(* The trail of a pack explains its record (export_service.py): every      *)
(* version of an item has its event, the links there are were created and  *)
(* not deleted since, and every round was submitted, whatever others wrote *)
(* between the read of the record and that of the trail.                   *)
(***************************************************************************)
THEOREM TrailAlwaysAccounts == DossierSpec => []TrailAccountsForTheRecord
<1>1. ASSUME DossierInv PROVE TrailAccountsForTheRecord
  <2> SUFFICES ASSUME pack.kind \in {"use_case", "system"}
               PROVE  LET record == pack.body.record IN
                      /\ \A i \in DOMAIN record.items : LET x == record.items[i] IN
                            /\ x.item.lock = InTrail("assessment_item.confirmed", <<"item", i>>)
                                  + InTrail("assessment_item.amended", <<"item", i>>)
                                  + InTrail("assessment_item.treatment_set", <<"item", i>>)
                            /\ IdsOf(x.controls) = LinkIds("control_link.created", i)
                                                      \ LinkIds("control_link.deleted", i)
                            /\ IdsOf(x.evidence) = LinkIds("evidence.linked", i)
                                                      \ LinkIds("evidence.unlinked", i)
                      /\ \A a \in DOMAIN record.assessments :
                            record.assessments[a].round
                               = InTrail("assessment.submitted", <<"assessment", a>>)
    BY DEF TrailAccountsForTheRecord
  <2> DEFINE d == pack.seen
             record == AssessmentRecord(d)
             I == ItemsIn(d, Recorded(d))
             created == "control_link.created"
             deleted == "control_link.deleted"
             linked == "evidence.linked"
             unlinked == "evidence.unlinked"
  <2>1. Sound(d) /\ pack = PackOf(pack.kind, pack.framework, d)
    BY <1>1 DEF DossierInv, PackSound, NoPack
  <2>2. /\ pack.body.record = record
        /\ \A action : \A i \in I :
              InTrail(action, <<"item", i>>) = Count(d.audit, action, <<"item", i>>)
        /\ \A action : \A a \in Recorded(d) :
              InTrail(action, <<"assessment", a>>) = Count(d.audit, action, <<"assessment", a>>)
        /\ \A i \in I, action \in LinkActions : LinkIds(action, i) = Linked(d.audit, action, i)
    <3> DEFINE kind == pack.kind
               framework == pack.framework
    <3> HIDE DEF d, kind, framework
    <3> DEFINE p == PackOf(kind, framework, d)
    <3>0. kind \in {"use_case", "system"} /\ Sound(d)
      BY <2>1 DEF kind
    <3>1. p.body.record = record
      BY <3>0, PackFields
    <3> DEFINE E == EntityIds(kind, record)
    <3>2. /\ SameCounts(p.trail, d.audit, E)
          /\ \A action \in LinkActions : \A i \in I :
                Linked(p.trail, action, i) = Linked(d.audit, action, i)
      <4>1. SameCounts(p.trail, d.audit, E)
        BY <3>0, TrailOfPack
      <4>2. ASSUME NEW action \in LinkActions, NEW i \in I
            PROVE  Linked(p.trail, action, i) = Linked(d.audit, action, i)
        BY <3>0, TrailOfPack
      <4> QED BY <4>1, <4>2
    <3>5. /\ \A i \in I : <<"item", i>> \in E
          /\ \A a \in Recorded(d) : <<"assessment", a>> \in E
      BY RecordEntities
    <3> HIDE DEF p, E, I, record
    <3>3. /\ \A action, entity : InTrail(action, entity) = Count(pack.trail, action, entity)
          /\ \A action, i : LinkIds(action, i) = Linked(pack.trail, action, i)
      BY DEF InTrail, Count, LinkIds, Linked
    <3>4. pack = p
      BY <2>1 DEF p, kind, framework
    <3> QED BY <3>1, <3>2, <3>3, <3>4, <3>5 DEF SameCounts
  <2>3. /\ DOMAIN record.items = I /\ DOMAIN record.assessments = Recorded(d)
        /\ \A i \in I : /\ record.items[i].item = d.items[i]
                        /\ record.items[i].controls = {l \in d.controlLinks : l.item = i}
                        /\ record.items[i].evidence = {l \in d.evidenceLinks : l.item = i}
        /\ \A a \in Recorded(d) : record.assessments[a] = d.assessments[a]
    BY RecordRows
  <2>4. I \subseteq DOMAIN d.items /\ Recorded(d) \subseteq Ids(d)
    BY DEF ItemsIn, Recorded, Family, Aiias
  <2> HIDE DEF I, record, d
  <2>5. ASSUME NEW i \in I
        PROVE  /\ d.items[i].lock = VersionsOf(d.audit, i)
               /\ LinkIdsOf(d.controlLinks, i)
                     = Linked(d.audit, created, i) \ Linked(d.audit, deleted, i)
               /\ LinkIdsOf(d.evidenceLinks, i)
                     = Linked(d.audit, linked, i) \ Linked(d.audit, unlinked, i)
    BY <2>1, <2>4 DEF Sound, Accounted, ItemsAccounted, ItemAccounted, LinksAccounted
  <2>6. ASSUME NEW a \in Recorded(d)
        PROVE  d.assessments[a].round = Count(d.audit, "assessment.submitted", <<"assessment", a>>)
    BY <2>1, <2>4 DEF Sound, Accounted, RoundsAccounted, Ids
  <2>7. ASSUME NEW i \in I
        PROVE  /\ record.items[i].item.lock
                     = InTrail("assessment_item.confirmed", <<"item", i>>)
                       + InTrail("assessment_item.amended", <<"item", i>>)
                       + InTrail("assessment_item.treatment_set", <<"item", i>>)
               /\ IdsOf(record.items[i].controls) = LinkIds(created, i) \ LinkIds(deleted, i)
               /\ IdsOf(record.items[i].evidence) = LinkIds(linked, i) \ LinkIds(unlinked, i)
    <3>1. /\ LinkIds(created, i) = Linked(d.audit, created, i)
          /\ LinkIds(deleted, i) = Linked(d.audit, deleted, i)
          /\ LinkIds(linked, i) = Linked(d.audit, linked, i)
          /\ LinkIds(unlinked, i) = Linked(d.audit, unlinked, i)
      BY <2>2 DEF LinkActions
    <3>2. /\ record.items[i].item.lock = VersionsOf(d.audit, i)
          /\ IdsOf(record.items[i].controls) = LinkIdsOf(d.controlLinks, i)
          /\ IdsOf(record.items[i].evidence) = LinkIdsOf(d.evidenceLinks, i)
      BY <2>3, <2>5 DEF LinkIdsOf
    <3>3. /\ InTrail("assessment_item.confirmed", <<"item", i>>)
                = Count(d.audit, "assessment_item.confirmed", <<"item", i>>)
          /\ InTrail("assessment_item.amended", <<"item", i>>)
                = Count(d.audit, "assessment_item.amended", <<"item", i>>)
          /\ InTrail("assessment_item.treatment_set", <<"item", i>>)
                = Count(d.audit, "assessment_item.treatment_set", <<"item", i>>)
      BY <2>2
    <3> QED BY <2>5, <3>1, <3>2, <3>3 DEF VersionsOf
  <2>8. ASSUME NEW a \in Recorded(d)
        PROVE  record.assessments[a].round
                 = InTrail("assessment.submitted", <<"assessment", a>>)
    BY <2>2, <2>3, <2>6
  <2> QED BY <2>2, <2>3, <2>7, <2>8
<1> QED BY <1>1, DossierInvariant, PTL

-----------------------------------------------------------------------------
(***************************************************************************)
(* The body of a pack depends on the rows only, and its hash on what is    *)
(* governed only.                                                          *)
(***************************************************************************)
RowsOf(as, is, cs, es) ==
    [assessments |-> as, items |-> is, controlLinks |-> cs, evidenceLinks |-> es]

LEMMA BodyOfRows ==
    ASSUME NEW kind, NEW framework, NEW d
    PROVE  Body(kind, framework, d)
             = Body(kind, framework,
                    RowsOf(d.assessments, d.items, d.controlLinks, d.evidenceLinks))
<1> DEFINE r == RowsOf(d.assessments, d.items, d.controlLinks, d.evidenceLinks)
<1>1. r.assessments = d.assessments /\ r.items = d.items /\ r.controlLinks = d.controlLinks
      /\ r.evidenceLinks = d.evidenceLinks
  BY DEF RowsOf
<1>2. AssessmentRecord(r) = AssessmentRecord(d)
  <2>1. Aiias(r) = Aiias(d) /\ (\A a : Family(r, a) = Family(d, a))
    BY DEF RowsOf, Aiias, Ids, Family
  <2>2. \A A : ItemsIn(r, A) = ItemsIn(d, A)
    BY DEF RowsOf, ItemsIn
  <2> DEFINE A == UNION {Family(d, a) : a \in Aiias(d)}
  <2>3. UNION {Family(r, a) : a \in Aiias(r)} = A
    BY <2>1
  <2> DEFINE rows(x, J) ==
                [i \in J |->
                   [item |-> x.items[i], controls |-> {l \in x.controlLinks : l.item = i},
                    evidence |-> {l \in x.evidenceLinks : l.item = i}]]
  <2>7. \A J : rows(r, J) = rows(d, J)
    BY DEF RowsOf
  <2> HIDE DEF r, A
  <2>4. AssessmentRecord(r) =
           [assessments |-> Restrict(r.assessments, A), items |-> rows(r, ItemsIn(r, A))]
    BY <2>3 DEF AssessmentRecord
  <2>5. AssessmentRecord(d) =
           [assessments |-> Restrict(d.assessments, A), items |-> rows(d, ItemsIn(d, A))]
    BY DEF AssessmentRecord, A
  <2>6. ItemsIn(r, A) = ItemsIn(d, A)
    BY <2>2
  <2> HIDE DEF rows
  <2>8. rows(r, ItemsIn(r, A)) = rows(d, ItemsIn(d, A))
    BY <2>6, <2>7
  <2>9. Restrict(r.assessments, A) = Restrict(d.assessments, A)
    BY <1>1
  <2>10. AssessmentRecord(r) = AssessmentRecord(d)
    BY <2>4, <2>5, <2>8, <2>9
  <2> QED BY <2>10
<1>3. \A A : compute_coverage(r, A, framework) = compute_coverage(d, A, framework)
  <2>1. \A A : qualifying_links(r, A) = qualifying_links(d, A)
    BY DEF RowsOf, qualifying_links, governing_aiia
  <2>2. \A l : effective_coverage(r, l) = effective_coverage(d, l)
    BY DEF RowsOf, effective_coverage, Downgraded
  <2>3. \A links : breakdown(r, links) = breakdown(d, links)
    BY DEF RowsOf, breakdown, Downgraded
  <2> HIDE DEF r
  <2> SUFFICES ASSUME NEW A
               PROVE  compute_coverage(r, A, framework) = compute_coverage(d, A, framework)
    OBVIOUS
  <2> DEFINE links == qualifying_links(d, A)
             in_play == {l.control : l \in links}
             of(c) == {l \in links : l.control = c}
             rated == {c \in in_play : MappedTo(c, framework)}
             row(x, c) ==
                [verdict |-> rollup_verdict({effective_coverage(x, l) : l \in of(c)}),
                 breakdown |-> breakdown(x, of(c))]
             controls == [c \in rated |-> row(d, c)]
  <2>4. ASSUME NEW c PROVE row(r, c) = row(d, c)
    <3>1. {effective_coverage(r, l) : l \in of(c)} = {effective_coverage(d, l) : l \in of(c)}
      BY <2>2
    <3> QED BY <3>1, <2>3
  <2>5. [c \in rated |-> row(r, c)] = controls
    <3> HIDE DEF row, rated
    <3> QED BY <2>4
  <2>6. compute_coverage(d, A, framework) =
          [controls |-> controls, clauses |-> clause_axis(controls, framework),
           unaddressed |-> {c \in Controls \ in_play : MappedTo(c, framework)}]
    BY DEF compute_coverage
  <2>7. compute_coverage(r, A, framework) =
          [controls |-> [c \in rated |-> row(r, c)],
           clauses |-> clause_axis([c \in rated |-> row(r, c)], framework),
           unaddressed |-> {c \in Controls \ in_play : MappedTo(c, framework)}]
    BY <2>1 DEF compute_coverage
  <2> HIDE DEF controls, in_play
  <2> QED BY <2>5, <2>6, <2>7
<1>4. \A I : evidence_manifest(r, I) = evidence_manifest(d, I)
  BY DEF RowsOf, evidence_manifest
<1>5. Aiias(r) = Aiias(d) /\ Ids(r) = Ids(d)
  BY DEF RowsOf, Aiias, Ids
<1> HIDE DEF r
<1>6. Body(kind, framework, d) = Body(kind, framework, r)
  <2> DEFINE coverage == IF kind = "use_case" /\ Aiias(d) = {} THEN empty_coverage
                         ELSE compute_coverage(d, Ids(d), framework)
             refs == UNION {coverage.controls[c].breakdown.refs : c \in DOMAIN coverage.controls}
             I == DOMAIN AssessmentRecord(d).items
  <2>1. coverage = IF kind = "use_case" /\ Aiias(r) = {} THEN empty_coverage
                   ELSE compute_coverage(r, Ids(r), framework)
    BY <1>3, <1>5
  <2>2. /\ evidence_manifest(r, refs) = evidence_manifest(d, refs)
        /\ evidence_manifest(r, I) = evidence_manifest(d, I)
    BY <1>4
  <2>3. I = DOMAIN AssessmentRecord(r).items
    BY <1>2
  <2>4. Body(kind, framework, d) =
           IF kind = "framework"
           THEN [record |-> [assessments |-> <<>>, items |-> <<>>], coverage |-> coverage,
                 manifest |-> evidence_manifest(d, refs)]
           ELSE [record |-> AssessmentRecord(d), coverage |-> coverage,
                 manifest |-> evidence_manifest(d, I)]
    BY DEF Body
  <2> HIDE DEF coverage, I
  <2>5. Body(kind, framework, r) =
           IF kind = "framework"
           THEN [record |-> [assessments |-> <<>>, items |-> <<>>], coverage |-> coverage,
                 manifest |-> evidence_manifest(r, refs)]
           ELSE [record |-> AssessmentRecord(r), coverage |-> coverage,
                 manifest |-> evidence_manifest(r, I)]
    BY <2>1, <2>3 DEF Body
  <2> QED BY <1>2, <2>2, <2>4, <2>5
<1> QED BY <1>6 DEF r

LEMMA GovernedTrail ==
    ASSUME NEW d, NEW e, WithoutExports(d.audit) = WithoutExports(e.audit), NEW E, NEW I
    PROVE  WithoutExports(audit_closure(d, E, I)) = WithoutExports(audit_closure(e, E, I))
<1> DEFINE closed(x) == \/ x.entity \in E
                        \/ x.entity[1] \in {"control_link", "evidence_link"} /\ x.item \in I
           governed(B) == {x \in DOMAIN B : x.action # "export.generated"}
           left(B) == {x \in governed(B) : closed(x)}
<1>1. ASSUME NEW x
      PROVE  WithoutExports(audit_closure(x, E, I)) = [y \in left(x.audit) |-> x.audit[y]]
  <2> DEFINE kept == {y \in DOMAIN x.audit : closed(y)}
  <2>1. audit_closure(x, E, I) = [y \in kept |-> x.audit[y]]
    BY DEF audit_closure, Restrict, BagToSet
  <2> HIDE DEF kept
  <2>2. WithoutExports(audit_closure(x, E, I))
          = [y \in {z \in kept : z.action # "export.generated"} |-> x.audit[y]]
    BY <2>1 DEF WithoutExports, Restrict, BagToSet
  <2>3. {z \in kept : z.action # "export.generated"} = left(x.audit)
    BY DEF kept
  <2> QED BY <2>2, <2>3
<1>2. \A B : WithoutExports(B) = [y \in governed(B) |-> B[y]]
  BY DEF WithoutExports, Restrict, BagToSet
<1> HIDE DEF governed, closed
<1>3. /\ governed(d.audit) = governed(e.audit)
      /\ \A y \in governed(d.audit) : d.audit[y] = e.audit[y]
  BY <1>2
<1>4. left(d.audit) = left(e.audit) /\ \A y \in left(d.audit) : d.audit[y] = e.audit[y]
  BY <1>3
<1> HIDE DEF left
<1>5. [y \in left(d.audit) |-> d.audit[y]] = [y \in left(e.audit) |-> e.audit[y]]
  BY <1>4
<1> QED BY <1>1, <1>5

LEMMA HashOfGoverned ==
    ASSUME NEW kind, NEW framework, NEW d, NEW e, DOMAIN d = Tables, DOMAIN e = Tables,
           Governed(d) = Governed(e)
    PROVE  ContentHash(kind, framework, d) = ContentHash(kind, framework, e)
<1>1. /\ d.assessments = e.assessments /\ d.items = e.items
      /\ d.controlLinks = e.controlLinks /\ d.evidenceLinks = e.evidenceLinks
      /\ WithoutExports(d.audit) = WithoutExports(e.audit)
  <2>1. \A x : DOMAIN x = Tables =>
           /\ Governed(x).assessments = x.assessments /\ Governed(x).items = x.items
           /\ Governed(x).controlLinks = x.controlLinks
           /\ Governed(x).evidenceLinks = x.evidenceLinks
           /\ Governed(x).audit = WithoutExports(x.audit)
    BY DEF Governed, Tables
  <2> QED BY <2>1
<1> DEFINE body == Body(kind, framework, d)
           E == EntityIds(kind, body.record)
           I == DOMAIN body.record.items
<1>2. Body(kind, framework, e) = body
  <2>1. Body(kind, framework, e)
          = Body(kind, framework,
                 RowsOf(d.assessments, d.items, d.controlLinks, d.evidenceLinks))
    BY <1>1, BodyOfRows
  <2> QED BY <2>1, BodyOfRows
<1>3. WithoutExports(audit_closure(d, E, I)) = WithoutExports(audit_closure(e, E, I))
  BY <1>1, GovernedTrail
<1>4. WithoutExports(TrailOf(kind, body.record, d)) = WithoutExports(TrailOf(kind, body.record, e))
  BY <1>3 DEF TrailOf
<1> HIDE DEF body
<1> QED BY <1>2, <1>4 DEF ContentHash, hashable_audit_trail, body

(***************************************************************************)
(* The hash of a pack is that of the governed record it was read from:     *)
(* another export of an unchanged record has the same hash, whatever was   *)
(* exported in between (export_service.py, _hashable_audit_trail).         *)
(***************************************************************************)
THEOREM HashIsAlwaysOfTheRecord == DossierSpec => []HashIsOfTheRecord
<1>1. ASSUME DossierInv PROVE HashIsOfTheRecord
  <2> SUFFICES ASSUME pack # NoPack, Governed(db) = Governed(pack.seen)
               PROVE  ContentHash(pack.kind, pack.framework, db) = pack.hash
    BY DEF HashIsOfTheRecord
  <2> DEFINE kind == pack.kind
             framework == pack.framework
             d == pack.seen
  <2>1. /\ DOMAIN db = Tables /\ DOMAIN d = Tables
        /\ pack = PackOf(kind, framework, d)
    BY <1>1 DEF DossierInv, PackSound, Sound
  <2> HIDE DEF kind, framework, d
  <2>2. PackOf(kind, framework, d).hash = ContentHash(kind, framework, d)
    BY DEF PackOf, ContentHash
  <2>3. ContentHash(kind, framework, db) = ContentHash(kind, framework, d)
    BY <2>1, HashOfGoverned DEF d
  <2> QED BY <2>1, <2>2, <2>3 DEF kind, framework
<1> QED BY <1>1, DossierInvariant, PTL

-----------------------------------------------------------------------------
(***************************************************************************)
(* The verdicts.                                                           *)
(***************************************************************************)
LEMMA DisjointUnion ==
    ASSUME NEW A, NEW B, IsFiniteSet(A), IsFiniteSet(B), A \cap B = {}
    PROVE  /\ IsFiniteSet(A \cup B) /\ Cardinality(A \cup B) = Cardinality(A) + Cardinality(B)
           /\ Cardinality(A) \in Nat /\ Cardinality(B) \in Nat
<1>1. Cardinality(A) \in Nat /\ Cardinality(B) \in Nat
  BY FS_CardinalityType
<1>2. Cardinality(A \cap B) = 0
  BY FS_EmptySet
<1>3. /\ IsFiniteSet(A \cup B)
      /\ Cardinality(A \cup B) = Cardinality(A) + Cardinality(B) - Cardinality(A \cap B)
  BY FS_Union
<1> QED BY <1>1, <1>2, <1>3

\* No two links of one control are of one item.
LEMMA RefsOfLinks ==
    ASSUME NEW L, IsFiniteSet(L), \A l, m \in L : l.item = m.item => l = m
    PROVE  Cardinality({l.item : l \in L}) = Cardinality(L)
<1> DEFINE T == {l.item : l \in L}
           f == [l \in L |-> l.item]
<1>1. f \in Bijection(L, T)
  BY DEF Bijection, Injection, Surjection, IsInjective
<1>2. ExistsBijection(L, T)
  BY <1>1 DEF ExistsBijection
<1> HIDE DEF T
<1>3. Cardinality(T) = Cardinality(L)
  BY <1>2, FS_Bijection
<1> QED BY <1>3 DEF T

\* A breakdown counts every link once.
LEMMA BreakdownAddsUp ==
    ASSUME NEW d, NEW L, IsFiniteSet(L), \A l \in L : l.coverage \in Coverages,
           \A l, m \in L : l.item = m.item => l = m
    PROVE  LET b == breakdown(d, L) IN
           b.satisfied + b.partial + b.open + b.downgraded = Cardinality(b.refs)
<1> DEFINE S == {l \in L : l.coverage = "SATISFIED" /\ ~Downgraded(d, l)}
           P == {l \in L : l.coverage = "PARTIAL" /\ ~Downgraded(d, l)}
           O == {l \in L : l.coverage = "OPEN" /\ ~Downgraded(d, l)}
           D == {l \in L : Downgraded(d, l)}
           b == breakdown(d, L)
<1>1. /\ b.satisfied = Cardinality(S) /\ b.partial = Cardinality(P) /\ b.open = Cardinality(O)
      /\ b.downgraded = Cardinality(D) /\ b.refs = {l.item : l \in L}
  BY DEF breakdown
<1>2. IsFiniteSet(S) /\ IsFiniteSet(P) /\ IsFiniteSet(O) /\ IsFiniteSet(D)
  BY FS_Subset
<1>3. L = ((S \cup P) \cup O) \cup D
  BY DEF Coverages
<1>4. S \cap P = {} /\ (S \cup P) \cap O = {} /\ ((S \cup P) \cup O) \cap D = {}
  OBVIOUS
<1>5. Cardinality(b.refs) = Cardinality(L)
  BY <1>1, RefsOfLinks
<1> HIDE DEF S, P, O, D, b
<1>6. /\ IsFiniteSet(S \cup P) /\ Cardinality(S \cup P) = Cardinality(S) + Cardinality(P)
      /\ Cardinality(S) \in Nat /\ Cardinality(P) \in Nat
  BY <1>2, <1>4, DisjointUnion
<1>7. /\ IsFiniteSet((S \cup P) \cup O)
      /\ Cardinality((S \cup P) \cup O) = Cardinality(S \cup P) + Cardinality(O)
      /\ Cardinality(O) \in Nat
  BY <1>2, <1>4, <1>6, DisjointUnion
<1>8. /\ Cardinality(((S \cup P) \cup O) \cup D)
            = Cardinality((S \cup P) \cup O) + Cardinality(D)
      /\ Cardinality(D) \in Nat
  BY <1>2, <1>4, <1>7, DisjointUnion
<1>9. Cardinality(L) = Cardinality(((S \cup P) \cup O) \cup D)
  BY <1>3
<1> QED BY <1>1, <1>5, <1>6, <1>7, <1>8, <1>9 DEF b

\* The record has every row.
LEMMA RecordIsWhole ==
    ASSUME NEW d, Sound(d)
    PROVE  Recorded(d) = Ids(d) /\ ItemsIn(d, Recorded(d)) = DOMAIN d.items
<1>1. ASSUME NEW a \in Ids(d) PROVE a \in Recorded(d)
  <2>1. CASE d.assessments[a].parent = 0
    BY <2>1 DEF Recorded, Aiias, Family
  <2>2. CASE d.assessments[a].parent # 0
    <3> DEFINE g == d.assessments[a].parent
    <3>1. g \in Aiias(d) /\ a \in Family(d, g)
      BY <2>2 DEF Sound, RowsSound, AssessmentsSound, Aiias, Ids, Family
    <3> QED BY <3>1 DEF Recorded
  <2> QED BY <2>1, <2>2
<1>2. Recorded(d) \subseteq Ids(d)
  BY DEF Recorded, Family, Aiias
<1>3. \A i \in DOMAIN d.items : d.items[i].of \in Ids(d)
  BY DEF Sound, RowsSound, ItemsSound, Ids
<1> QED BY <1>1, <1>2, <1>3 DEF ItemsIn

\* What counts: dispositioned items under an approved AIIA.
Counting(d) ==
    {i \in DOMAIN d.items :
        /\ d.assessments[governing_aiia(d, d.items[i].of)].status = "APPROVED"
        /\ ~Suggestion(d.items[i])}

CountedLinks(d, c) == {l \in d.controlLinks : l.item \in Counting(d) /\ l.control = c}

RatedControls(d, framework) ==
    {c \in Controls : MappedTo(c, framework) /\ CountedLinks(d, c) # {}}

HasEvidence(d, i) == \E e \in d.evidenceLinks : e.item = i

LEMMA CoverageRests ==
    ASSUME NEW d, Sound(d), NEW framework
    PROVE  LET cov == compute_coverage(d, Ids(d), framework) IN
           /\ DOMAIN cov.controls = RatedControls(d, framework)
           /\ \A c \in RatedControls(d, framework) :
                 cov.controls[c] =
                    [verdict |-> rollup_verdict({effective_coverage(d, l) : l \in CountedLinks(d, c)}),
                     breakdown |-> breakdown(d, CountedLinks(d, c))]
           /\ cov.unaddressed =
                 {c \in Controls : MappedTo(c, framework)} \ RatedControls(d, framework)
<1> DEFINE links == qualifying_links(d, Ids(d))
           in_play == {l.control : l \in links}
           of(c) == {l \in links : l.control = c}
           rated == {c \in in_play : MappedTo(c, framework)}
           row(c) == [verdict |-> rollup_verdict({effective_coverage(d, l) : l \in of(c)}),
                      breakdown |-> breakdown(d, of(c))]
           cov == compute_coverage(d, Ids(d), framework)
<1>1. /\ cov.controls = [c \in rated |-> row(c)]
      /\ cov.unaddressed = {c \in Controls \ in_play : MappedTo(c, framework)}
  BY DEF compute_coverage
<1>2. \A l \in d.controlLinks : /\ l.control \in Controls /\ l.item \in DOMAIN d.items
                                /\ d.items[l.item].of \in Ids(d)
  BY DEF Sound, RowsSound, ControlLinksSound, ControlLinks, ItemsSound, Ids
<1>3. links = {l \in d.controlLinks : l.item \in Counting(d)}
  BY <1>2 DEF qualifying_links, Counting, Suggestion
<1> HIDE DEF links, cov
<1>4. \A c : of(c) = CountedLinks(d, c)
  BY <1>3 DEF CountedLinks
<1>5. in_play \subseteq Controls /\ \A c : c \in in_play <=> of(c) # {}
  BY <1>2, <1>3
<1> HIDE DEF in_play, of
<1>6. rated = RatedControls(d, framework)
  BY <1>4, <1>5 DEF RatedControls
<1>7. \A c \in rated : cov.controls[c] = row(c)
  BY <1>1
<1>8. DOMAIN cov.controls = rated
  BY <1>1
<1>9. cov.unaddressed = {c \in Controls : MappedTo(c, framework)} \ RatedControls(d, framework)
  BY <1>1, <1>4, <1>5 DEF RatedControls
<1> QED BY <1>4, <1>6, <1>7, <1>8, <1>9 DEF cov

LEMMA VerdictRests ==
    ASSUME NEW d, Sound(d), NEW c
    PROVE  LET L == CountedLinks(d, c)
               verdict == rollup_verdict({effective_coverage(d, l) : l \in L})
               b == breakdown(d, L)
           IN  /\ verdict = "SATISFIED" <=>
                     \E l \in L : l.coverage = "SATISFIED" /\ HasEvidence(d, l.item)
               /\ verdict = "OPEN" <=> \A l \in L : l.coverage \notin {"SATISFIED", "PARTIAL"}
               /\ b.satisfied + b.partial + b.open + b.downgraded = Cardinality(b.refs)
<1> DEFINE L == CountedLinks(d, c)
           S == {effective_coverage(d, l) : l \in L}
<1>1. L \subseteq d.controlLinks /\ \A l \in L : l.coverage \in Coverages /\ l.control = c
  BY DEF CountedLinks, Sound, RowsSound, ControlLinksSound, ControlLinks
<1>2. IsFiniteSet(L) /\ \A l, m \in L : l.item = m.item => l = m
  BY <1>1, FS_Subset DEF Sound, RowsSound, ControlLinksSound
<1> HIDE DEF L
<1>3. "SATISFIED" \in S <=> \E l \in L : l.coverage = "SATISFIED" /\ HasEvidence(d, l.item)
  BY <1>1 DEF effective_coverage, Downgraded, HasEvidence, Coverages
<1>4. "SATISFIED" \notin S /\ "PARTIAL" \notin S
        <=> \A l \in L : l.coverage \notin {"SATISFIED", "PARTIAL"}
  BY <1>1 DEF effective_coverage, Downgraded, Coverages
<1>5. LET b == breakdown(d, L) IN
      b.satisfied + b.partial + b.open + b.downgraded = Cardinality(b.refs)
  BY <1>1, <1>2, BreakdownAddsUp
<1> HIDE DEF S
<1>6. /\ rollup_verdict(S) = "SATISFIED" <=> "SATISFIED" \in S
      /\ rollup_verdict(S) = "OPEN" <=> "SATISFIED" \notin S /\ "PARTIAL" \notin S
  BY DEF rollup_verdict
<1> QED BY <1>3, <1>4, <1>5, <1>6 DEF L, S

LEMMA ManifestRests ==
    ASSUME NEW d, NEW I, NEW i \in I, NEW e
    PROVE  LET manifest == evidence_manifest(d, I) IN
           (\E l \in d.evidenceLinks : l.item = i /\ l.evidence = e)
              <=> (e \in DOMAIN manifest /\ i \in manifest[e])
<1> DEFINE links == {l \in d.evidenceLinks : l.item \in I}
           shown == {l.evidence : l \in links}
           rows(x) == {l.item : l \in {m \in links : m.evidence = x}}
           manifest == evidence_manifest(d, I)
<1>1. manifest = [x \in shown |-> rows(x)]
  BY DEF evidence_manifest
<1> HIDE DEF manifest
<1>2. e \in shown <=> \E l \in links : l.evidence = e
  OBVIOUS
<1>3. i \in rows(e) <=> \E l \in links : l.evidence = e /\ l.item = i
  OBVIOUS
<1> HIDE DEF shown, rows
<1>4. DOMAIN manifest = shown /\ (e \in shown => manifest[e] = rows(e))
  BY <1>1
<1>5. (e \in DOMAIN manifest /\ i \in manifest[e]) <=> \E l \in links : l.evidence = e /\ l.item = i
  BY <1>2, <1>3, <1>4
<1> QED BY <1>5 DEF manifest

\* Nothing has started: the pack rates nothing.
LEMMA NothingStarted ==
    ASSUME NEW d, Sound(d), Aiias(d) = {}
    PROVE  Ids(d) = {} /\ DOMAIN d.items = {} /\ AssessmentRecord(d).assessments = <<>>
<1>1. Ids(d) = {}
  BY RecordIsWhole DEF Recorded
<1>2. DOMAIN d.items = {}
  BY <1>1 DEF Sound, RowsSound, ItemsSound, Ids
<1>3. AssessmentRecord(d).assessments = [a \in {} |-> d.assessments[a]]
  BY <1>1, RecordIsWhole DEF AssessmentRecord, Restrict, Recorded
<1>4. [a \in {} |-> d.assessments[a]] = <<>>
  OBVIOUS
<1> QED BY <1>1, <1>2, <1>3, <1>4

\* The coverage cov rates what counts in d.
Rates(cov, d, framework) ==
    LET rated == RatedControls(d, framework) IN
    /\ DOMAIN cov.controls = rated
    /\ \A c \in rated :
          LET r == cov.controls[c]
              L == CountedLinks(d, c)
          IN  /\ r.verdict = "SATISFIED" <=>
                    \E l \in L : l.coverage = "SATISFIED" /\ HasEvidence(d, l.item)
              /\ r.verdict = "OPEN" <=> \A l \in L : l.coverage \notin {"SATISFIED", "PARTIAL"}
              /\ r.breakdown.satisfied + r.breakdown.partial + r.breakdown.open
                    + r.breakdown.downgraded = Cardinality(r.breakdown.refs)
    /\ AssessmentRecord(d).assessments # <<>> =>
          cov.unaddressed = {c \in Controls : MappedTo(c, framework)} \ rated

LEMMA CoverageOfPack ==
    ASSUME NEW kind \in {"use_case", "system"}, NEW framework, NEW d, Sound(d)
    PROVE  Rates(PackOf(kind, framework, d).body.coverage, d, framework)
<1> DEFINE cov == PackOf(kind, framework, d).body.coverage
           rated == RatedControls(d, framework)
<1>1. cov = IF kind = "use_case" /\ Aiias(d) = {} THEN empty_coverage
            ELSE compute_coverage(d, Ids(d), framework)
  BY DEF PackOf, Body
<1> HIDE DEF cov
<1>2. CASE kind = "use_case" /\ Aiias(d) = {}
  <2>1. rated = {}
    BY <1>2, NothingStarted DEF RatedControls, CountedLinks, Counting
  <2>2. DOMAIN cov.controls = {}
    BY <1>1, <1>2 DEF empty_coverage
  <2>3. AssessmentRecord(d).assessments = <<>>
    BY <1>2, NothingStarted
  <2> QED BY <2>1, <2>2, <2>3 DEF cov, Rates
<1>3. CASE ~(kind = "use_case" /\ Aiias(d) = {})
  <2>1. cov = compute_coverage(d, Ids(d), framework)
    BY <1>1, <1>3
  <2>2. /\ DOMAIN cov.controls = rated
        /\ \A c \in rated :
              cov.controls[c] =
                 [verdict |-> rollup_verdict({effective_coverage(d, l) : l \in CountedLinks(d, c)}),
                  breakdown |-> breakdown(d, CountedLinks(d, c))]
        /\ cov.unaddressed = {c \in Controls : MappedTo(c, framework)} \ rated
    BY <2>1, CoverageRests
  <2>3. ASSUME NEW c \in rated
        PROVE  LET r == cov.controls[c]
                   L == CountedLinks(d, c)
               IN  /\ r.verdict = "SATISFIED" <=>
                         \E l \in L : l.coverage = "SATISFIED" /\ HasEvidence(d, l.item)
                   /\ r.verdict = "OPEN" <=>
                         \A l \in L : l.coverage \notin {"SATISFIED", "PARTIAL"}
                   /\ r.breakdown.satisfied + r.breakdown.partial + r.breakdown.open
                         + r.breakdown.downgraded = Cardinality(r.breakdown.refs)
    <3> DEFINE verdict == rollup_verdict({effective_coverage(d, l) : l \in CountedLinks(d, c)})
               b == breakdown(d, CountedLinks(d, c))
    <3>1. cov.controls[c] = [verdict |-> verdict, breakdown |-> b]
      BY <2>2, Zenon
    <3>2. /\ verdict = "SATISFIED" <=>
                \E l \in CountedLinks(d, c) : l.coverage = "SATISFIED" /\ HasEvidence(d, l.item)
          /\ verdict = "OPEN" <=>
                \A l \in CountedLinks(d, c) : l.coverage \notin {"SATISFIED", "PARTIAL"}
          /\ b.satisfied + b.partial + b.open + b.downgraded = Cardinality(b.refs)
      BY VerdictRests
    <3> HIDE DEF verdict, b
    <3>3. cov.controls[c].verdict = verdict /\ cov.controls[c].breakdown = b
      BY <3>1
    <3> QED BY <3>2, <3>3
  <2> QED BY <2>2, <2>3 DEF cov, Rates
<1> QED BY <1>2, <1>3

(***************************************************************************)
(* The verdicts of a pack follow from the record in it: a control counts   *)
(* for the dispositioned items of an approved AIIA and its feeders, is     *)
(* SATISFIED only with evidence, no link is counted twice or dropped, and  *)
(* every control of the framework is rated or listed as unaddressed, once  *)
(* an assessment has started (compute_coverage).                           *)
(***************************************************************************)
THEOREM VerdictsAlwaysRest == DossierSpec => []VerdictsRestOnTheRecord
<1>1. ASSUME DossierInv PROVE VerdictsRestOnTheRecord
  <2> DEFINE items == pack.body.record.items
             rows == pack.body.record.assessments
             cov == pack.body.coverage
             root(i) == LET a == items[i].item.of IN
                        IF rows[a].parent = 0 THEN a ELSE rows[a].parent
             sound == {i \in DOMAIN items : rows[root(i)].status = "APPROVED"
                          /\ items[i].item.provenance # "AI_SUGGESTED"}
             linked(c, S) == \E i \in sound : \E l \in items[i].controls :
                                l.control = c /\ l.coverage \in S
             proven(c) == \E i \in sound : items[i].evidence # {} /\
                             \E l \in items[i].controls :
                                l.control = c /\ l.coverage = "SATISFIED"
             rated == {c \in Controls : MappedTo(c, pack.framework) /\ linked(c, Coverages)}
             d == pack.seen
             framework == pack.framework
  <2> SUFFICES ASSUME pack.kind \in {"use_case", "system"}
               PROVE  /\ DOMAIN cov.controls = rated
                      /\ \A c \in rated : LET r == cov.controls[c] IN
                            /\ r.verdict = "SATISFIED" <=> proven(c)
                            /\ r.verdict = "OPEN" <=> ~linked(c, {"SATISFIED", "PARTIAL"})
                            /\ r.breakdown.satisfied + r.breakdown.partial + r.breakdown.open
                                  + r.breakdown.downgraded = Cardinality(r.breakdown.refs)
                      /\ rows # <<>> => cov.unaddressed =
                            {c \in Controls : MappedTo(c, pack.framework)} \ rated
                      /\ \A i \in DOMAIN items, e \in Evidence :
                            (\E l \in items[i].evidence : l.evidence = e) <=>
                               (e \in DOMAIN pack.body.manifest /\ i \in pack.body.manifest[e])
    BY DEF VerdictsRestOnTheRecord
  <2>1. Sound(d) /\ pack = PackOf(pack.kind, framework, d)
    BY <1>1 DEF DossierInv, PackSound, NoPack
  <2>2. items = AssessmentRecord(d).items /\ rows = AssessmentRecord(d).assessments
    BY <2>1, PackFields
  <2>3. pack.body.manifest = evidence_manifest(d, DOMAIN items)
    BY <2>1, <2>2, PackFields
  <2>4. /\ DOMAIN items = DOMAIN d.items
        /\ \A i \in DOMAIN d.items :
              /\ items[i].item = d.items[i]
              /\ items[i].controls = {l \in d.controlLinks : l.item = i}
              /\ items[i].evidence = {l \in d.evidenceLinks : l.item = i}
        /\ \A a \in Ids(d) : rows[a] = d.assessments[a]
    BY <2>1, <2>2, RecordIsWhole, RecordRows
  <2>5. \A i \in DOMAIN d.items :
           /\ root(i) = governing_aiia(d, d.items[i].of) /\ root(i) \in Ids(d)
    <3> HIDE DEF items, rows, d
    <3> SUFFICES ASSUME NEW i \in DOMAIN d.items
                 PROVE  root(i) = governing_aiia(d, d.items[i].of) /\ root(i) \in Ids(d)
      OBVIOUS
    <3>1. items[i].item.of = d.items[i].of /\ d.items[i].of \in Ids(d)
      BY <2>1, <2>4 DEF Sound, RowsSound, ItemsSound, Ids
    <3>2. root(i) = governing_aiia(d, d.items[i].of)
      BY <2>4, <3>1 DEF governing_aiia
    <3>3. governing_aiia(d, d.items[i].of) \in Ids(d)
      BY <2>1, <3>1 DEF governing_aiia, Sound, RowsSound, AssessmentsSound, Ids
    <3> QED BY <3>2, <3>3
  <2> HIDE DEF root
  <2>6. sound = Counting(d)
    BY <2>4, <2>5 DEF Counting, Suggestion
  <2>7. \A l \in d.controlLinks : l.item \in DOMAIN d.items /\ l.coverage \in Coverages
    BY <2>1 DEF Sound, RowsSound, ControlLinksSound, ControlLinks
  <2> HIDE DEF sound, items, rows, cov, d
  <2>8. \A c, S : linked(c, S) <=> \E l \in CountedLinks(d, c) : l.coverage \in S
    BY <2>4, <2>6 DEF CountedLinks, Counting
  <2>9. \A c : proven(c) <=>
           \E l \in CountedLinks(d, c) : l.coverage = "SATISFIED" /\ HasEvidence(d, l.item)
    BY <2>4, <2>6 DEF CountedLinks, Counting, HasEvidence
  <2> HIDE DEF linked, proven
  <2>10. rated = RatedControls(d, framework)
    BY <2>7, <2>8 DEF RatedControls, CountedLinks
  <2> HIDE DEF rated, framework
  <2>11. /\ DOMAIN cov.controls = rated
         /\ \A c \in rated : LET r == cov.controls[c] IN
               /\ r.verdict = "SATISFIED" <=>
                     \E l \in CountedLinks(d, c) :
                        l.coverage = "SATISFIED" /\ HasEvidence(d, l.item)
               /\ r.verdict = "OPEN" <=>
                     \A l \in CountedLinks(d, c) : l.coverage \notin {"SATISFIED", "PARTIAL"}
               /\ r.breakdown.satisfied + r.breakdown.partial + r.breakdown.open
                     + r.breakdown.downgraded = Cardinality(r.breakdown.refs)
         /\ rows # <<>> =>
               cov.unaddressed = {c \in Controls : MappedTo(c, framework)} \ rated
    <3>1. Rates(cov, d, framework)
      BY <2>1, CoverageOfPack DEF cov
    <3> QED BY <2>2, <2>10, <3>1 DEF Rates
  <2>12. ASSUME NEW i \in DOMAIN items, NEW e
         PROVE  (\E l \in items[i].evidence : l.evidence = e) <=>
                   (e \in DOMAIN pack.body.manifest /\ i \in pack.body.manifest[e])
    <3>1. (\E l \in items[i].evidence : l.evidence = e)
             <=> \E l \in d.evidenceLinks : l.item = i /\ l.evidence = e
      BY <2>4
    <3> QED BY <2>3, <3>1, ManifestRests
  <2>13. ASSUME NEW c \in rated
         PROVE  LET r == cov.controls[c] IN
                /\ r.verdict = "SATISFIED" <=> proven(c)
                /\ r.verdict = "OPEN" <=> ~linked(c, {"SATISFIED", "PARTIAL"})
                /\ r.breakdown.satisfied + r.breakdown.partial + r.breakdown.open
                      + r.breakdown.downgraded = Cardinality(r.breakdown.refs)
    BY <2>8, <2>9, <2>11
  <2> QED BY <2>11, <2>12, <2>13 DEF framework
<1> QED BY <1>1, DossierInvariant, PTL
=============================================================================
