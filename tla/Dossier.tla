------------------------------ MODULE Dossier ------------------------------
(***************************************************************************)
(* The assessment of one use case row by row (assessment_service.py): its  *)
(* AIIA and feeders, their items, control links and evidence links, and    *)
(* the audit events written with every change; the coverage computed from  *)
(* them (coverage_service.py) and the audit packs exported                 *)
(* (export_service.py).                                                    *)
(*                                                                         *)
(* A request that checks something its write does not check again takes    *)
(* two steps: Begin makes the checks on what is committed then, and the    *)
(* commit validates what the database validates (the WHERE of the UPDATE,  *)
(* unique indexes, foreign keys).  The others take one.  An export reads   *)
(* in a REPEATABLE READ transaction over several steps.                    *)
(***************************************************************************)
EXTENDS Naturals, Sequences, FiniteSets, Bags, Functions

CONSTANTS
    Requests,       \* concurrent requests
    FeederTypes,    \* the types of feeder users create
    Prefills,       \* the items each type of assessment starts with
    AssessedTiers,  \* the tiers an AIIA is scoped from
    Deployer,       \* the system's operator role is deployer
    SpecialData,    \* the use case has a special category of data
    Controls,
    FrameworksOf,   \* the frameworks each control maps to
    Evidence,       \* the tenant's evidence
    MaxWrites,      \* bound: writes committed
    MaxItems,       \* bound: items ever made
    MaxRounds       \* bound: submissions of one assessment

VARIABLES
    db,         \* the committed rows
    req,        \* the requests that have made their checks
    export,     \* the export under way
    pack,       \* the pack delivered last, until the next write
    writes      \* writes committed (history)

dossierVars == <<db, req, export, pack, writes>>

Types == {"AIIA"} \cup FeederTypes
Kinds == {"section", "fact", "risk"}
Statuses == {"DRAFT", "IN_REVIEW", "APPROVED", "NEEDS_REFRESH"}
Coverages == {"SATISFIED", "PARTIAL", "OPEN"}
Frameworks == UNION {FrameworksOf[c] : c \in Controls}

ASSUME DossierAssumption ==
    /\ FeederTypes \subseteq {"FRIA", "DPIA", "MODEL_RISK"}
    /\ Prefills \in [Types -> Seq(Kinds)]
    /\ Deployer \in BOOLEAN /\ SpecialData \in BOOLEAN
    /\ DOMAIN FrameworksOf = Controls
    /\ {MaxWrites, MaxItems, MaxRounds} \subseteq Nat

\* parent 0: an AIIA.  (status, round) takes the place of lock_version: every
\* change of it changes one of them, and none comes back.
AssessmentRows ==
    [type : Types, parent : Nat, tier : AssessedTiers, status : Statuses,
     round : 0 .. MaxRounds, reviewed : BOOLEAN]

Items ==
    [of : Nat, kind : Kinds,
     provenance : {"AI_SUGGESTED", "CATALOGUE_CURATED", "USER_CONFIRMED", "USER_AMENDED"},
     lock : Nat, decision : {"none", "MITIGATE", "ACCEPT"},
     plan : BOOLEAN, rationale : BOOLEAN]

ControlLinks == [id : Nat, item : Nat, control : Controls, coverage : Coverages]
EvidenceLinks == [id : Nat, item : Nat, evidence : Evidence]

EmptyDossier ==
    [assessments |-> <<>>, items |-> <<>>, controlLinks |-> {}, evidenceLinks |-> {},
     audit |-> EmptyBag, lastAssessment |-> 0, lastItem |-> 0, lastLink |-> 0]

\* item is the item_id of a link's event detail, 0 for others.
Event(action, entity, item) == [action |-> action, entity |-> entity, item |-> item]

Staged(d, e) == [d EXCEPT !.audit = @ (+) SetToBag({e})]

-----------------------------------------------------------------------------
(***************************************************************************)
(* Reads of the rows d.                                                    *)
(***************************************************************************)
Ids(d) == DOMAIN d.assessments

governing_aiia(d, a) == IF d.assessments[a].parent = 0 THEN a ELSE d.assessments[a].parent

Family(d, a) == {a} \cup {f \in Ids(d) : d.assessments[f].parent = a}

ItemsIn(d, A) == {i \in DOMAIN d.items : d.items[i].of \in A}

\* Bug: a feeder is locked by its own status only.
LockedByOwnStatus(d, a) == d.assessments[a].status \in {"IN_REVIEW", "APPROVED"}

\* _assert_authoring_unlocked refuses.
AuthoringLocked(d, a) ==
    d.assessments[governing_aiia(d, a)].status \in {"IN_REVIEW", "APPROVED"}

RequiredFeeders(tier) ==
    (IF tier = "HIGH" /\ Deployer THEN {"FRIA"} ELSE {})
    \cup (IF tier = "HIGH" /\ SpecialData THEN {"DPIA"} ELSE {})

Aiias(d) == {a \in Ids(d) : d.assessments[a].parent = 0}

structural_readiness(d) ==
    /\ \E a \in Aiias(d) :
          RequiredFeeders(d.assessments[a].tier)
             \subseteq {d.assessments[f].type : f \in Family(d, a)}
    /\ \A i \in DOMAIN d.items : d.items[i].provenance # "AI_SUGGESTED"

Dispositioned(it) == it.kind = "risk" /\ it.provenance \in {"USER_CONFIRMED", "USER_AMENDED"}

risks_treated(d) ==
    \A i \in DOMAIN d.items : LET it == d.items[i] IN
        Dispositioned(it) =>
            \/ /\ it.decision = "MITIGATE"
               /\ it.plan \/ \E l \in d.controlLinks : l.item = i
            \/ it.decision = "ACCEPT" /\ it.rationale

\* _is_pristine; an authorisation implies a review.
Pristine(d, a) ==
    /\ d.assessments[a].status = "DRAFT" /\ ~d.assessments[a].reviewed
    /\ Family(d, a) = {a}
    /\ \A i \in ItemsIn(d, {a}) :
          /\ d.items[i].provenance \in {"USER_CONFIRMED", "USER_AMENDED"}
                => d.items[i].kind = "fact"
          /\ \A l \in d.controlLinks \cup d.evidenceLinks : l.item # i

-----------------------------------------------------------------------------
(***************************************************************************)
(* Writes: the rows after a handler, with the event it stages.             *)
(***************************************************************************)
\* A fact is a register fact with its source_ref; a risk is proposed.
NewItem(kind, a) ==
    [of |-> a, kind |-> kind,
     provenance |-> CASE kind = "section" -> "CATALOGUE_CURATED"
                      [] kind = "fact"    -> "USER_CONFIRMED"
                      [] kind = "risk"    -> "AI_SUGGESTED",
     lock |-> 0, decision |-> "none", plan |-> FALSE, rationale |-> FALSE]

\* The table with the rows new, whose ids are not in it yet.
Inserted(table, new) ==
    [x \in DOMAIN table \cup DOMAIN new |-> IF x \in DOMAIN table THEN table[x] ELSE new[x]]

WithAssessment(d, row, action) ==
    LET a == d.lastAssessment + 1
        kinds == Prefills[row.type]
        ids == d.lastItem + 1 .. d.lastItem + Len(kinds)
        items == [i \in ids |-> NewItem(kinds[i - d.lastItem], a)]
    IN  Staged([d EXCEPT !.assessments = Inserted(@, [x \in {a} |-> row]),
                         !.items = Inserted(@, items),
                         !.lastAssessment = a, !.lastItem = @ + Len(kinds)],
               Event(action, <<"assessment", a>>, 0))

NewRow(type, parent, tier) ==
    [type |-> type, parent |-> parent, tier |-> tier, status |-> "DRAFT",
     round |-> 0, reviewed |-> FALSE]

aiia_created(d, tier) == WithAssessment(d, NewRow("AIIA", 0, tier), "assessment.created")

feeder_created(d, a, type) ==
    WithAssessment(d, NewRow(type, a, d.assessments[a].tier), "assessment.feeder_created")

item_created(d, a, answered) ==
    LET i == d.lastItem + 1
        provenance == IF answered THEN "USER_AMENDED" ELSE "CATALOGUE_CURATED"
        it == [NewItem("section", a) EXCEPT !.provenance = provenance]
    IN  Staged([d EXCEPT !.items = Inserted(@, [x \in {i} |-> it]), !.lastItem = i],
               Event("assessment_item.created", <<"item", i>>, 0))

item_confirmed(d, i) ==
    Staged([d EXCEPT !.items[i].provenance = "USER_CONFIRMED", !.items[i].lock = @ + 1],
           Event("assessment_item.confirmed", <<"item", i>>, 0))

\* An authoring field changes; the mitigation plan is one.
item_amended(d, i, plan) ==
    LET flipped(p) == IF p = "CATALOGUE_CURATED" THEN "USER_AMENDED" ELSE p
    IN  Staged([d EXCEPT !.items[i].provenance = flipped(@), !.items[i].lock = @ + 1,
                         !.items[i].plan = plan],
               Event("assessment_item.amended", <<"item", i>>, 0))

\* A treatment field changes; the provenance stays.
treatment_set(d, i, decision, rationale) ==
    Staged([d EXCEPT !.items[i].lock = @ + 1, !.items[i].decision = decision,
                     !.items[i].rationale = rationale],
           Event("assessment_item.treatment_set", <<"item", i>>, 0))

WithoutItems(d, I) ==
    [d EXCEPT !.items = Restrict(@, DOMAIN @ \ I),
              !.controlLinks = {l \in @ : l.item \notin I},
              !.evidenceLinks = {l \in @ : l.item \notin I}]

\* Bug: the links of a deleted item stay.
DeletedWithoutCascade(d, i) ==
    Staged([d EXCEPT !.items = Restrict(@, DOMAIN @ \ {i})],
           Event("assessment_item.deleted", <<"item", i>>, 0))

item_deleted(d, i) ==
    Staged(WithoutItems(d, {i}), Event("assessment_item.deleted", <<"item", i>>, 0))

\* The feeders created since the check go with it.
assessment_deleted(d, a) ==
    LET gone == Family(d, a)
        rest == WithoutItems(d, ItemsIn(d, gone))
    IN  Staged([rest EXCEPT !.assessments = Restrict(@, DOMAIN @ \ gone)],
               Event("assessment.deleted", <<"assessment", a>>, 0))

control_linked(d, i, c, coverage) ==
    LET n == d.lastLink + 1
        l == [id |-> n, item |-> i, control |-> c, coverage |-> coverage]
    IN  Staged([d EXCEPT !.controlLinks = @ \cup {l}, !.lastLink = n],
               Event("control_link.created", <<"control_link", n>>, i))

control_unlinked(d, l) ==
    Staged([d EXCEPT !.controlLinks = @ \ {l}],
           Event("control_link.deleted", <<"control_link", l.id>>, l.item))

evidence_linked(d, i, e) ==
    LET n == d.lastLink + 1
        l == [id |-> n, item |-> i, evidence |-> e]
    IN  Staged([d EXCEPT !.evidenceLinks = @ \cup {l}, !.lastLink = n],
               Event("evidence.linked", <<"evidence_link", n>>, i))

evidence_unlinked(d, l) ==
    Staged([d EXCEPT !.evidenceLinks = @ \ {l}],
           Event("evidence.unlinked", <<"evidence_link", l.id>>, l.item))

assessment_submitted(d, a) ==
    Staged([d EXCEPT !.assessments[a].status = "IN_REVIEW", !.assessments[a].round = @ + 1],
           Event("assessment.submitted", <<"assessment", a>>, 0))

review_recorded(d, a, status) ==
    Staged([d EXCEPT !.assessments[a].status = status, !.assessments[a].reviewed = TRUE],
           Event("assessment.review_recorded", <<"assessment", a>>, 0))

assessment_reopened(d, a) ==
    Staged(Staged([d EXCEPT !.assessments[a].status = "NEEDS_REFRESH"],
                  Event("assessment.reopened", <<"assessment", a>>, 0)),
           Event("assessment.needs_refresh", <<"assessment", a>>, 0))

-----------------------------------------------------------------------------
(***************************************************************************)
(* Requests.  late: an AIIA was locked after the request made its checks.  *)
(***************************************************************************)
NoRequest == [op |-> "none", on |-> 0, with |-> "none", seen |-> 0, late |-> FALSE]

NoExport == [phase |-> "idle", kind |-> "none", framework |-> "ALL",
             seen |-> EmptyDossier, body |-> "none"]

NoPack == [kind |-> "none"]

DossierFrom(d) ==
    /\ db = d
    /\ req = [r \in Requests |-> NoRequest]
    /\ export = NoExport /\ pack = NoPack
    /\ writes = 0

DossierInit == DossierFrom(EmptyDossier)

\* What the user asks is checked against the committed rows.
Begin(r, op, on, with, seen) ==
    /\ req[r] = NoRequest /\ writes < MaxWrites
    /\ req' = [req EXCEPT ![r] =
          [op |-> op, on |-> on, with |-> with, seen |-> seen, late |-> FALSE]]
    /\ UNCHANGED <<db, export, pack, writes>>

TakesALock(d) ==
    \E a \in Aiias(d) \cap Ids(db) : AuthoringLocked(d, a) /\ ~AuthoringLocked(db, a)

\* The requests of S commit the rows d.
Write(S, d) ==
    /\ writes < MaxWrites
    /\ db' = d
    /\ req' = [r \in Requests |->
          IF r \in S THEN NoRequest
          ELSE IF req[r] # NoRequest /\ TakesALock(d) THEN [req[r] EXCEPT !.late = TRUE]
          ELSE req[r]]
    /\ pack' = NoPack
    /\ writes' = writes + 1
    /\ UNCHANGED export

Asks(r, op) == req[r].op = op

\* A failed check of the database (409, 412, 500), a lifecycle 409, a crash.
Abort(r) ==
    /\ req[r] # NoRequest
    /\ req' = [req EXCEPT ![r] = NoRequest]
    /\ UNCHANGED <<db, export, pack, writes>>

-----------------------------------------------------------------------------
\* uq_one_aiia_per_use_case
CreateAiia ==
    /\ Aiias(db) = {} /\ db.lastItem + Len(Prefills["AIIA"]) <= MaxItems
    /\ \E t \in AssessedTiers : Write({}, aiia_created(db, t))

\* uq_feeder_type_per_aiia; no lock is checked
CreateFeeder ==
    \E a \in Aiias(db), type \in FeederTypes :
        /\ \A f \in Family(db, a) : db.assessments[f].type # type
        /\ db.lastItem + Len(Prefills[type]) <= MaxItems
        /\ Write({}, feeder_created(db, a, type))

BeginCreateItem(r) ==
    \E a \in Ids(db), answered \in BOOLEAN :
        /\ ~AuthoringLocked(db, a) /\ db.lastItem < MaxItems
        /\ Begin(r, "create_item", a, answered, 0)

CommitCreateItem(r) ==
    /\ Asks(r, "create_item")
    /\ req[r].on \in Ids(db) /\ db.lastItem < MaxItems
    /\ Write({r}, item_created(db, req[r].on, req[r].with))

BeginConfirm(r) ==
    \E i \in DOMAIN db.items :
        /\ ~AuthoringLocked(db, db.items[i].of)
        /\ db.items[i].provenance = "AI_SUGGESTED"
        /\ Begin(r, "confirm", i, "none", db.items[i].lock)

\* Bug: the status is checked before the UPDATE and not by it.
ConfirmWhatWasRead(r) ==
    /\ Asks(r, "confirm") /\ req[r].on \in DOMAIN db.items
    /\ Write({r}, item_confirmed(db, req[r].on))

CommitConfirm(r) ==
    /\ Asks(r, "confirm") /\ req[r].on \in DOMAIN db.items
    /\ db.items[req[r].on].provenance = "AI_SUGGESTED"
    /\ db.items[req[r].on].lock = req[r].seen
    /\ Write({r}, item_confirmed(db, req[r].on))

\* The same checks for both kinds of change.  The inputs: a mitigation plan
\* or an answer for any item, a treatment for a risk.
BeginAmend(r) ==
    \E i \in DOMAIN db.items : LET it == db.items[i] IN
        /\ ~AuthoringLocked(db, it.of)
        /\ it.provenance # "AI_SUGGESTED"
        /\ \/ \E plan \in BOOLEAN : Begin(r, "amend", i, plan, it.lock)
           \/ \E decision \in {"MITIGATE", "ACCEPT"}, rationale \in BOOLEAN :
                 /\ it.kind = "risk"
                 /\ <<decision, rationale>> # <<it.decision, it.rationale>>
                 /\ Begin(r, "treat", i, <<decision, rationale>>, it.lock)

\* WHERE lock_version = If-Match
Unchanged(r) == req[r].on \in DOMAIN db.items /\ db.items[req[r].on].lock = req[r].seen

CommitAmend(r) ==
    /\ Asks(r, "amend") /\ Unchanged(r)
    /\ Write({r}, item_amended(db, req[r].on, req[r].with))

CommitTreatment(r) ==
    /\ Asks(r, "treat") /\ Unchanged(r)
    /\ Write({r}, treatment_set(db, req[r].on, req[r].with[1], req[r].with[2]))

\* The DELETEs find their row gone if another request was first, and stage
\* their event all the same.
BeginDeleteItem(r) == \E i \in DOMAIN db.items : Begin(r, "delete_item", i, "none", 0)

CommitDeleteItem(r) == Asks(r, "delete_item") /\ Write({r}, item_deleted(db, req[r].on))

BeginDeleteAssessment(r) ==
    \E a \in Ids(db) : Pristine(db, a) /\ Begin(r, "delete_assessment", a, "none", 0)

\* RESTRICT
CommitDeleteAssessment(r) ==
    /\ Asks(r, "delete_assessment")
    /\ \A a \in Family(db, req[r].on) \cap Ids(db) : ~db.assessments[a].reviewed
    /\ Write({r}, assessment_deleted(db, req[r].on))

\* A proposed risk may be linked to a control, not to evidence.
BeginLinkControl(r) ==
    \E i \in DOMAIN db.items, c \in Controls, coverage \in Coverages :
        /\ ~AuthoringLocked(db, db.items[i].of)
        /\ Begin(r, "link_control", i, <<c, coverage>>, 0)

\* uq_assessment_item_control
CommitLinkControl(r) ==
    LET i == req[r].on
        c == req[r].with[1]
    IN  /\ Asks(r, "link_control") /\ i \in DOMAIN db.items
        /\ \A l \in db.controlLinks : ~(l.item = i /\ l.control = c)
        /\ Write({r}, control_linked(db, i, c, req[r].with[2]))

BeginUnlinkControl(r) ==
    \E l \in db.controlLinks : Begin(r, "unlink_control", l, "none", 0)

CommitUnlinkControl(r) ==
    Asks(r, "unlink_control") /\ Write({r}, control_unlinked(db, req[r].on))

BeginLinkEvidence(r) ==
    \E i \in DOMAIN db.items, e \in Evidence :
        /\ ~AuthoringLocked(db, db.items[i].of)
        /\ db.items[i].provenance # "AI_SUGGESTED"
        /\ Begin(r, "link_evidence", i, e, 0)

\* uq_assessment_item_evidence
CommitLinkEvidence(r) ==
    LET i == req[r].on
        e == req[r].with
    IN  /\ Asks(r, "link_evidence") /\ i \in DOMAIN db.items
        /\ \A l \in db.evidenceLinks : ~(l.item = i /\ l.evidence = e)
        /\ Write({r}, evidence_linked(db, i, e))

BeginUnlinkEvidence(r) ==
    \E l \in db.evidenceLinks : Begin(r, "unlink_evidence", l, "none", 0)

CommitUnlinkEvidence(r) ==
    Asks(r, "unlink_evidence") /\ Write({r}, evidence_unlinked(db, req[r].on))

-----------------------------------------------------------------------------
(***************************************************************************)
(* The review; nothing keeps a feeder from being submitted on its own.     *)
(***************************************************************************)
VersionOf(a) == <<db.assessments[a].status, db.assessments[a].round>>

BeginSubmit(r) ==
    \E a \in Ids(db) :
        /\ db.assessments[a].status \in {"DRAFT", "NEEDS_REFRESH"}
        /\ db.assessments[a].round < MaxRounds
        /\ structural_readiness(db) /\ risks_treated(db)
        /\ Begin(r, "submit", a, "none", VersionOf(a))

CommitSubmit(r) ==
    /\ Asks(r, "submit")
    /\ req[r].on \in Ids(db) /\ VersionOf(req[r].on) = req[r].seen
    /\ Write({r}, assessment_submitted(db, req[r].on))

\* APPROVED, or CHANGES_REQUESTED back to DRAFT
RecordReview ==
    \E a \in Ids(db), status \in {"APPROVED", "DRAFT"} :
        /\ db.assessments[a].status = "IN_REVIEW"
        /\ Write({}, review_recorded(db, a, status))

Reopen ==
    \E a \in Ids(db) :
        /\ db.assessments[a].status = "APPROVED"
        /\ Write({}, assessment_reopened(db, a))

-----------------------------------------------------------------------------
(***************************************************************************)
(* Coverage of the assessments A, with framework as the filter or ALL, as  *)
(* the packs ask for it: approved assessments only, and SATISFIED only     *)
(* with evidence.                                                          *)
(***************************************************************************)
\* Bug: the link counts by the status of its own assessment.
LinksOfApprovedRows(d, A) ==
    {l \in d.controlLinks :
        /\ d.items[l.item].of \in A /\ d.items[l.item].provenance # "AI_SUGGESTED"
        /\ d.assessments[d.items[l.item].of].status = "APPROVED"}

qualifying_links(d, A) ==
    {l \in d.controlLinks :
        /\ d.items[l.item].of \in A
        /\ d.items[l.item].provenance # "AI_SUGGESTED"
        /\ d.assessments[governing_aiia(d, d.items[l.item].of)].status = "APPROVED"}

Downgraded(d, l) ==
    l.coverage = "SATISFIED" /\ \A e \in d.evidenceLinks : e.item # l.item

effective_coverage(d, l) == IF Downgraded(d, l) THEN "PARTIAL" ELSE l.coverage

rollup_verdict(S) ==
    IF "SATISFIED" \in S THEN "SATISFIED" ELSE IF "PARTIAL" \in S THEN "PARTIAL" ELSE "OPEN"

MappedTo(c, framework) == framework = "ALL" \/ framework \in FrameworksOf[c]

breakdown(d, links) ==
    LET count(coverage) ==
            Cardinality({l \in links : l.coverage = coverage /\ ~Downgraded(d, l)})
    IN  [satisfied |-> count("SATISFIED"), partial |-> count("PARTIAL"),
         open |-> count("OPEN"),
         downgraded |-> Cardinality({l \in links : Downgraded(d, l)}),
         refs |-> {l.item : l \in links}]

\* A framework has one clause.
clause_axis(controls, framework) ==
    LET mapped(f) == {c \in DOMAIN controls : f \in FrameworksOf[c]}
    IN  [f \in {f \in Frameworks : framework \in {"ALL", f} /\ mapped(f) # {}} |->
            rollup_verdict({controls[c].verdict : c \in mapped(f)})]

compute_coverage(d, A, framework) ==
    LET links == qualifying_links(d, A)
        in_play == {l.control : l \in links}
        of(c) == {l \in links : l.control = c}
        controls == [c \in {c \in in_play : MappedTo(c, framework)} |->
            [verdict |-> rollup_verdict({effective_coverage(d, l) : l \in of(c)}),
             breakdown |-> breakdown(d, of(c))]]
    IN  [controls |-> controls, clauses |-> clause_axis(controls, framework),
         unaddressed |-> {c \in Controls \ in_play : MappedTo(c, framework)}]

empty_coverage == [controls |-> <<>>, clauses |-> <<>>, unaddressed |-> {}]

-----------------------------------------------------------------------------
(***************************************************************************)
(* The packs: of a use case, of its system and of a framework.             *)
(***************************************************************************)
AssessmentRecord(d) ==
    LET A == UNION {Family(d, a) : a \in Aiias(d)} IN
    [assessments |-> Restrict(d.assessments, A),
     items |-> [i \in ItemsIn(d, A) |->
        [item |-> d.items[i], controls |-> {l \in d.controlLinks : l.item = i},
         evidence |-> {l \in d.evidenceLinks : l.item = i}]]]

evidence_manifest(d, I) ==
    LET links == {l \in d.evidenceLinks : l.item \in I} IN
    [e \in {l.evidence : l \in links} |-> {l.item : l \in {m \in links : m.evidence = e}}]

Body(kind, framework, d) ==
    LET coverage == IF kind = "use_case" /\ Aiias(d) = {} THEN empty_coverage
                    ELSE compute_coverage(d, Ids(d), framework)
        refs == UNION {coverage.controls[c].breakdown.refs : c \in DOMAIN coverage.controls}
    IN  IF kind = "framework"
        THEN [record |-> [assessments |-> <<>>, items |-> <<>>], coverage |-> coverage,
              manifest |-> evidence_manifest(d, refs)]
        ELSE [record |-> AssessmentRecord(d), coverage |-> coverage,
              manifest |-> evidence_manifest(d, DOMAIN AssessmentRecord(d).items)]

\* The events of these entities, and those of links of these items: a link
\* that is no more has no entity in the record.
audit_closure(d, entity_ids, item_ids) ==
    Restrict(d.audit, {e \in BagToSet(d.audit) :
        \/ e.entity \in entity_ids
        \/ e.entity[1] \in {"control_link", "evidence_link"} /\ e.item \in item_ids})

EntityIds(kind, record) ==
    {<<"use_case", 1>>} \cup {<<"assessment", a>> : a \in DOMAIN record.assessments}
    \cup {<<"item", i>> : i \in DOMAIN record.items}
    \cup (IF kind = "system" THEN {<<"system", 1>>} ELSE {})

TrailOf(kind, record, d) ==
    IF kind = "framework" THEN EmptyBag
    ELSE audit_closure(d, EntityIds(kind, record), DOMAIN record.items)

WithoutExports(B) == Restrict(B, {e \in BagToSet(B) : e.action # "export.generated"})

\* Bug: earlier exports are hashed too.
TrailWithExports(B) == B

hashable_audit_trail(B) == WithoutExports(B)

ContentHash(kind, framework, d) ==
    LET body == Body(kind, framework, d)
    IN  <<body, hashable_audit_trail(TrailOf(kind, body.record, d))>>

ExportEvent(kind) ==
    Event("export.generated",
          IF kind = "framework" THEN <<"framework", 0>> ELSE <<kind, 1>>, 0)

\* Bug: READ COMMITTED, every statement sees what is committed by then.
ViewNow(x) == db

\* REPEATABLE READ: the snapshot of the first statement.
ViewOf(x) == x.seen

BeginExport ==
    /\ export = NoExport /\ writes < MaxWrites
    /\ \E kind \in {"use_case", "system", "framework"}, f \in Frameworks \cup {"ALL"} :
          /\ kind = "framework" => f # "ALL"
          /\ export' = [phase |-> "reading", kind |-> kind, framework |-> f,
                        seen |-> db, body |-> "none"]
    /\ UNCHANGED <<db, req, pack, writes>>

AssembleBody ==
    /\ export.phase = "reading"
    /\ export' = [export EXCEPT !.phase = "closing",
                     !.body = Body(export.kind, export.framework, ViewOf(export))]
    /\ UNCHANGED <<db, req, pack, writes>>

\* _audit_closure, the hash, export.generated and the commit
CloseExport ==
    LET x == export
        trail == TrailOf(x.kind, x.body.record, ViewOf(x))
    IN  /\ x.phase = "closing" /\ writes < MaxWrites
        /\ pack' = [kind |-> x.kind, framework |-> x.framework, body |-> x.body,
                    trail |-> trail, hash |-> <<x.body, hashable_audit_trail(trail)>>,
                    seen |-> x.seen]
        /\ db' = Staged(db, ExportEvent(x.kind))
        /\ export' = NoExport
        /\ writes' = writes + 1
        /\ UNCHANGED req

FailExport ==
    /\ export # NoExport
    /\ export' = NoExport
    /\ UNCHANGED <<db, req, pack, writes>>

-----------------------------------------------------------------------------
DossierNext ==
    \/ CreateAiia \/ CreateFeeder \/ RecordReview \/ Reopen
    \/ BeginExport \/ AssembleBody \/ CloseExport \/ FailExport
    \/ \E r \in Requests :
          \/ BeginCreateItem(r) \/ CommitCreateItem(r)
          \/ BeginConfirm(r) \/ CommitConfirm(r)
          \/ BeginAmend(r) \/ CommitAmend(r) \/ CommitTreatment(r)
          \/ BeginDeleteItem(r) \/ CommitDeleteItem(r)
          \/ BeginDeleteAssessment(r) \/ CommitDeleteAssessment(r)
          \/ BeginLinkControl(r) \/ CommitLinkControl(r)
          \/ BeginUnlinkControl(r) \/ CommitUnlinkControl(r)
          \/ BeginLinkEvidence(r) \/ CommitLinkEvidence(r)
          \/ BeginUnlinkEvidence(r) \/ CommitUnlinkEvidence(r)
          \/ BeginSubmit(r) \/ CommitSubmit(r)
          \/ Abort(r)

DossierSpec == DossierInit /\ [][DossierNext]_dossierVars

-----------------------------------------------------------------------------
(***************************************************************************)
(* The rows have their types, and every row refers to rows that exist,     *)
(* whatever the deletes cascade to.                                        *)
(***************************************************************************)
DossierTypeOK ==
    /\ \A a \in Ids(db) :
          /\ db.assessments[a] \in AssessmentRows
          /\ db.assessments[a].parent \in Ids(db) \cup {0}
    /\ \A i \in DOMAIN db.items : db.items[i] \in Items /\ db.items[i].of \in Ids(db)
    /\ db.controlLinks \subseteq ControlLinks /\ db.evidenceLinks \subseteq EvidenceLinks
    /\ \A l \in db.controlLinks \cup db.evidenceLinks : l.item \in DOMAIN db.items
    /\ IsABag(db.audit)
    /\ writes \in 0 .. MaxWrites

\* How often e is in the bag B (the prover has no CopiesIn).
Copies(e, B) == IF e \in BagToSet(B) THEN B[e] ELSE 0

(***************************************************************************)
(* A proposed risk is nothing but its identity until somebody confirms it: *)
(* no decision, no plan, no evidence.  It is confirmed once, whoever else  *)
(* was confirming it (confirm_item, amend_item, create_evidence_link;      *)
(* docs/INVARIANTS.md, INV-13, INV-14 and INV-20).                         *)
(***************************************************************************)
SuggestionsStayOut ==
    \A i \in DOMAIN db.items : LET it == db.items[i] IN
        /\ it.provenance = "AI_SUGGESTED" =>
              /\ it.lock = 0 /\ it.decision = "none" /\ ~it.plan
              /\ \A l \in db.evidenceLinks : l.item # i
        /\ Copies(Event("assessment_item.confirmed", <<"item", i>>, 0), db.audit)
              = IF Dispositioned(it) THEN 1 ELSE 0

(***************************************************************************)
(* While an AIIA is under review or approved, what the reviewer sees in    *)
(* its items and its feeders' items does not change and gets no new links: *)
(* only a request that had passed the check before the submission still    *)
(* writes.  Deletions and new feeders are not covered                      *)
(* (_assert_authoring_unlocked).                                           *)
(***************************************************************************)
LockedThroughout(a) ==
    /\ a \in Aiias(db) /\ a \in Aiias(db)'
    /\ AuthoringLocked(db, a) /\ AuthoringLocked(db, a)'

LateWrite == \E r \in Requests : req[r].late /\ (req[r] = NoRequest)'

LinksOf(d, i) == {l \in d.controlLinks \cup d.evidenceLinks : l.item = i}

ContentKept ==
    \A a \in Ids(db) : LockedThroughout(a) =>
        /\ ItemsIn(db, Family(db, a))' \cap 1 .. db.lastItem \subseteq ItemsIn(db, Family(db, a))
        /\ \A i \in ItemsIn(db, Family(db, a)) \cap (DOMAIN db.items)' :
              /\ db'.items[i] = db.items[i]
              /\ LinksOf(db', i) \subseteq LinksOf(db, i)
        /\ \A i \in ItemsIn(db, Family(db, a))' \ DOMAIN db.items :
              (db.items[i].of)' \notin Ids(db)

LockHolds == [][LateWrite \/ ContentKept]_dossierVars

(***************************************************************************)
(* docs/INVARIANTS.md, INV-31: AIIA authoring is status-locked, item and   *)
(* feeder-item writes are rejected while the parent AIIA is IN_REVIEW or   *)
(* APPROVED.  So its items and links stay exactly as they were.            *)
(***************************************************************************)
LockedContentIsFrozen ==
    [][LateWrite \/ \A a \in Ids(db) : LockedThroughout(a) =>
          \A i \in ItemsIn(db, Family(db, a)) :
              /\ i \in (DOMAIN db.items)'
              /\ db'.items[i] = db.items[i] /\ LinksOf(db', i) = LinksOf(db, i)]_dossierVars

(***************************************************************************)
(* The trail of a pack explains its record (docs/INVARIANTS.md, INV-45):   *)
(* every version of every item has its event, every link there is was      *)
(* created and not deleted since, every link gone was deleted, and every   *)
(* round was submitted, although the record is read before the trail and   *)
(* others write in between.                                                *)
(***************************************************************************)
InTrail(action, entity) == Copies(Event(action, entity, 0), pack.trail)

LinkIds(action, i) ==
    {e.entity[2] : e \in {x \in BagToSet(pack.trail) : x.action = action /\ x.item = i}}

IdsOf(links) == {l.id : l \in links}

TrailAccountsForTheRecord ==
    pack.kind \in {"use_case", "system"} =>
        LET record == pack.body.record IN
        /\ \A i \in DOMAIN record.items : LET x == record.items[i] IN
              /\ x.item.lock = InTrail("assessment_item.confirmed", <<"item", i>>)
                               + InTrail("assessment_item.amended", <<"item", i>>)
                               + InTrail("assessment_item.treatment_set", <<"item", i>>)
              /\ IdsOf(x.controls) =
                    LinkIds("control_link.created", i) \ LinkIds("control_link.deleted", i)
              /\ IdsOf(x.evidence) =
                    LinkIds("evidence.linked", i) \ LinkIds("evidence.unlinked", i)
        /\ \A a \in DOMAIN record.assessments :
              record.assessments[a].round = InTrail("assessment.submitted", <<"assessment", a>>)

(***************************************************************************)
(* The verdicts of a pack follow from the record in it: a control counts   *)
(* for the dispositioned items of an approved AIIA and its feeders, is     *)
(* SATISFIED only where the item has evidence, no link is counted twice or *)
(* dropped, and every control of the framework is either rated or listed   *)
(* as unaddressed, unless no assessment has started (compute_coverage).    *)
(***************************************************************************)
VerdictsRestOnTheRecord ==
    pack.kind \in {"use_case", "system"} =>
        LET items == pack.body.record.items
            rows == pack.body.record.assessments
            cov == pack.body.coverage
            root(i) == LET a == items[i].item.of IN
                       IF rows[a].parent = 0 THEN a ELSE rows[a].parent
            sound == {i \in DOMAIN items : rows[root(i)].status = "APPROVED"
                         /\ items[i].item.provenance # "AI_SUGGESTED"}
            linked(c, S) == \E i \in sound : \E l \in items[i].controls :
                               l.control = c /\ l.coverage \in S
            proven(c) == \E i \in sound : items[i].evidence # {} /\
                            \E l \in items[i].controls : l.control = c /\ l.coverage = "SATISFIED"
            rated == {c \in Controls : MappedTo(c, pack.framework) /\ linked(c, Coverages)}
        IN  /\ DOMAIN cov.controls = rated
            /\ \A c \in rated : LET r == cov.controls[c] IN
                  /\ r.verdict = "SATISFIED" <=> proven(c)
                  /\ r.verdict = "OPEN" <=> ~linked(c, {"SATISFIED", "PARTIAL"})
                  /\ r.breakdown.satisfied + r.breakdown.partial + r.breakdown.open
                        + r.breakdown.downgraded = Cardinality(r.breakdown.refs)
            /\ rows # <<>> => cov.unaddressed =
                  {c \in Controls : MappedTo(c, pack.framework)} \ rated
            /\ \A i \in DOMAIN items, e \in Evidence :
                  (\E l \in items[i].evidence : l.evidence = e) <=>
                     (e \in DOMAIN pack.body.manifest /\ i \in pack.body.manifest[e])

(***************************************************************************)
(* The hash of a pack is that of the governed record: another export of an *)
(* unchanged record gives the same hash, although each export adds an      *)
(* event to the trail the next one shows (docs/INVARIANTS.md, INV-43).     *)
(***************************************************************************)
Governed(d) == [d EXCEPT !.audit = WithoutExports(@)]

HashIsOfTheRecord ==
    pack # NoPack /\ Governed(db) = Governed(pack.seen) =>
        ContentHash(pack.kind, pack.framework, db) = pack.hash

=============================================================================
