------------------------- MODULE UseCaseLifecycle -------------------------
(***************************************************************************)
(* The governed lifecycle of AI use cases under concurrent requests: the   *)
(* request handlers of the lifecycle, classification, assessment-review    *)
(* and authorisation services over the rows they share.                    *)
(*                                                                         *)
(* A handler runs in one READ COMMITTED transaction of its request, on a   *)
(* worker.  Its database work falls into three steps:                      *)
(*   Load      the ORM rows it reads first; their attributes stay as read  *)
(*             (the identity map), however long the request takes;         *)
(*   Evaluate  its checks, the gates it reads and the outcome they give;   *)
(*   Commit    its writes, each validated by the database at the UPDATE    *)
(*             (state = from_state, lock_version = If-Match, the unique    *)
(*             indexes, the RESTRICT foreign keys).  A row stays locked    *)
(*             from its UPDATE to the commit, so validating all of them at *)
(*             the commit is validating each of them at its UPDATE.        *)
(* Every other end of a request (a failed check, a zero-row UPDATE, an     *)
(* IntegrityError, a crash) rolls back: Abort.                             *)
(***************************************************************************)
EXTENDS LifecycleEngine, FiniteSets

CONSTANTS
    UseCases,     \* use cases of the tenant, registered or not yet
    Users,        \* members who may act; roles may be regranted between acts
    Workers,      \* concurrent requests
    Parties,      \* catalogue vendors and products that need clearance
    VendorOf,     \* the vendor a use case's system is linked to, or NoLink
    ProductOf,    \* the product it is linked to, or NoLink
    NoLink,
    NoUser,
    MaxRound,     \* bound: submissions of one assessment
    MaxVersion,   \* bound: classification snapshots of one use case
    MaxAiia,      \* bound: assessments created for one use case
    Handlers,     \* the handlers a run exercises
    Intakes       \* the outcomes of registration a run exercises

AllHandlers == {"re_evaluate", "authorise", "submit_for_review",
                "review_approved", "review_changes_requested", "reopen",
                "override_classification", "compute_classification",
                "sign_off_classification", "confirm_item", "amend_item",
                "create_control_link", "create_aiia", "delete_assessment",
                "delete_item", "delete_control_link", "create_feeder",
                "delete_feeder", "set_approval"}

\* The ways registrations.py and use_cases.py classify a new use case.
FirstSnapshots ==
    \* REQUIRES_CONTEXT: the second gate's seam
    {[tier |-> "REQUIRES_CONTEXT", status |-> "PENDING_REVIEW", stamped |-> TRUE]}
    \* AUTHORITATIVE through registrations.py
    \cup [tier : {"PROHIBITED", "RATED"}, status : {"APPROVED"}, stamped : {TRUE}]
    \* DOWN_SELECTION: left for the reviewer to stamp
    \cup [tier : {"PROHIBITED", "RATED"}, status : {"PENDING_REVIEW"}, stamped : {FALSE}]
    \* use_cases.py stamps whatever was resolved
    \cup [tier : {"PROHIBITED", "RATED"}, status : {"PENDING_REVIEW"}, stamped : {TRUE}]

ASSUME LifecycleAssumption ==
    /\ VendorOf \in [UseCases -> Parties \cup {NoLink}]
    /\ ProductOf \in [UseCases -> Parties \cup {NoLink}]
    /\ NoLink \notin Parties
    /\ NoUser \notin Users
    /\ MaxRound \in Nat /\ MaxVersion \in Nat /\ MaxAiia \in Nat
    /\ Handlers \subseteq AllHandlers
    /\ Intakes \subseteq FirstSnapshots

VARIABLES
    state,        \* use_case.state, or UNREGISTERED
    held_from,    \* use_case.held_from_state, or NONE
    eu_tier,      \* use_case.eu_tier, the ratified tier
    snapshot,     \* the current classification row
    aiia,         \* the use case's AIIA row; id 0 when there is none
    nextAiia,     \* ids of AIIA rows used so far
    structural,   \* required feeders exist and no item is AI_SUGGESTED
    treated,      \* every dispositioned risk item has a substantiated decision
    worked,       \* it holds dispositioned items, links or feeders
    submissions,  \* assessment.submitted audit rows
    reviews,      \* assessment_review rows
    atos,         \* deployment_authorisation rows
    approval,     \* the tenant's clearance of a party
    job           \* what each worker's request has read so far

useCaseVars == <<state, held_from, eu_tier>>
itemVars    == <<structural, treated, worked>>
docVars     == <<aiia, nextAiia, itemVars>>
recordVars  == <<submissions, reviews, atos>>
vars == <<useCaseVars, snapshot, docVars, recordVars, approval, job>>

-----------------------------------------------------------------------------
(***************************************************************************)
(* Rows.  HIGH, LIMITED and MINIMAL are one tier here, RATED: no gate      *)
(* tells them apart.  REQUIRES_CONTEXT stands for UNCLASSIFIED as well.    *)
(***************************************************************************)
Tiers == {"PROHIBITED", "RATED", "REQUIRES_CONTEXT"}

\* Where a use case can rest: REQUESTED is always passed before the commit.
Positions == (LifecycleStates \ {"REQUESTED"}) \cup {"UNREGISTERED"}

Snapshots == [tier : Tiers, status : {"PENDING_REVIEW", "APPROVED"},
              version : Nat]

AiiaStatuses == {"NONE", "DRAFT", "IN_REVIEW", "APPROVED", "NEEDS_REFRESH"}

AiiaRows == [id : Nat, status : AiiaStatuses, round : Nat, lock_version : Nat,
             submitted_by : Users \cup {NoUser}, approved_by : Users \cup {NoUser}]

NoAiia == [id |-> 0, status |-> "NONE", round |-> 0, lock_version |-> 0,
           submitted_by |-> NoUser, approved_by |-> NoUser]

Submissions == [id : Nat, round : Nat, by : Users]
Reviews     == [id : Nat, round : Nat, by : Users,
                decision : {"APPROVED", "CHANGES_REQUESTED"}]
Atos        == [id : Nat, round : Nat, by : Users]

\* NOT_APPROVED: no approval row, or one with another status than APPROVED.
\* LAPSED: APPROVED with valid_until in the past.
Approvals == {"NOT_APPROVED", "APPROVED", "LAPSED"}

\* The attributes of the use_case row that handlers hold on to.
UseCaseRows == [state : Positions, eu_tier : Tiers]

Jobs == [phase : {"idle", "loaded", "evaluated", "fan_out"},
         op : AllHandlers \cup {"none", "register"}, by : Users \cup {NoUser},
         uc : UseCases \cup {NoLink}, tier : Tiers,
         row : UseCaseRows, doc : AiiaRows, snap : Snapshots, seen : Nat,
         move : Moves, todo : SUBSET UseCases]

NoRow == [state |-> "UNREGISTERED", eu_tier |-> "REQUIRES_CONTEXT"]

NoSnapshot == [tier |-> "REQUIRES_CONTEXT", status |-> "PENDING_REVIEW",
               version |-> 0]

Idle == [phase |-> "idle", op |-> "none", by |-> NoUser, uc |-> NoLink,
         tier |-> "REQUIRES_CONTEXT", row |-> NoRow, doc |-> NoAiia,
         snap |-> NoSnapshot, seen |-> 0, move |-> Stay("REQUESTED"), todo |-> {}]

TypeOK ==
    /\ state \in [UseCases -> Positions]
    /\ held_from \in [UseCases -> AdvancedStates \cup {"NONE"}]
    /\ eu_tier \in [UseCases -> Tiers]
    /\ snapshot \in [UseCases -> Snapshots]
    /\ aiia \in [UseCases -> AiiaRows]
    /\ nextAiia \in [UseCases -> Nat]
    /\ structural \in [UseCases -> BOOLEAN]
    /\ treated \in [UseCases -> BOOLEAN]
    /\ worked \in [UseCases -> BOOLEAN]
    /\ submissions \in [UseCases -> SUBSET Submissions]
    /\ reviews \in [UseCases -> SUBSET Reviews]
    /\ atos \in [UseCases -> SUBSET Atos]
    /\ approval \in [Parties -> Approvals]
    /\ job \in [Workers -> Jobs]

Init ==
    /\ state = [u \in UseCases |-> "UNREGISTERED"]
    /\ held_from = [u \in UseCases |-> "NONE"]
    /\ eu_tier = [u \in UseCases |-> "REQUIRES_CONTEXT"]
    /\ snapshot = [u \in UseCases |-> NoSnapshot]
    /\ aiia = [u \in UseCases |-> NoAiia]
    /\ nextAiia = [u \in UseCases |-> 0]
    /\ structural = [u \in UseCases |-> FALSE]
    /\ treated = [u \in UseCases |-> TRUE]
    /\ worked = [u \in UseCases |-> FALSE]
    /\ submissions = [u \in UseCases |-> {}]
    /\ reviews = [u \in UseCases |-> {}]
    /\ atos = [u \in UseCases |-> {}]
    /\ approval = [p \in Parties |-> "NOT_APPROVED"]
    /\ job = [w \in Workers |-> Idle]

-----------------------------------------------------------------------------
(***************************************************************************)
(* Gates (lifecycle_gates.py), over a use_case row, the current snapshot's *)
(* tier, an AIIA row and the state of the items.                           *)
(***************************************************************************)
Passes(b) == IF b THEN "advance" ELSE "park"

approval_verdict(p) == Passes(p = NoLink \/ approval[p] = "APPROVED")

classification_readiness(snapTier, ratified) ==
    IF snapTier = "PROHIBITED" THEN "halt"
    ELSE Passes(ratified # "REQUIRES_CONTEXT")

structural_assessment_readiness(doc, complete) ==
    Passes(doc.id # 0 /\ complete)

assessment_approved(doc) == Passes(doc.status = "APPROVED")

\* Bug: the reviewer's term is left out of the gate.
StructureOnlyGate(doc, complete) == structural_assessment_readiness(doc, complete)

assessment_gate(doc, complete) ==
    Passes(/\ structural_assessment_readiness(doc, complete) = "advance"
           /\ assessment_approved(doc) = "advance")

authorisation_gate(doc, granted) ==
    Passes(/\ assessment_approved(doc) = "advance"
           /\ \E a \in granted : a.round = doc.round)

\* The gate of state s (_gate_for_state), and the ceiling's.
verdict(s, u, snapTier, ratified, doc, complete, decided) ==
    CASE s = "VENDOR_CHECK"      -> approval_verdict(VendorOf[u])
      [] s = "PRODUCT_CHECK"     -> approval_verdict(ProductOf[u])
      [] s = "INTAKE"            -> classification_readiness(snapTier, ratified)
      [] s = "UNDER_ASSESSMENT"  -> assessment_gate(doc, complete)
      [] s = "TREATMENT_PENDING" -> Passes(decided)
      [] s = "PENDING_AUTHORISATION" -> authorisation_gate(doc, atos[u])

full_vector(u, snapTier, ratified, doc, complete, decided) ==
    [s \in VectorStates |-> verdict(s, u, snapTier, ratified, doc, complete, decided)]

\* The vector with everything read now but the ratified tier and the AIIA.
VectorNow(u, ratified, doc) ==
    full_vector(u, snapshot[u].tier, ratified, doc, structural[u], treated[u])

-----------------------------------------------------------------------------
(***************************************************************************)
(* The writes of apply_transition: the conditional UPDATE of the state the *)
(* request read, the hold hint with it, nothing when the engine stays.     *)
(***************************************************************************)

\* Bug: the UPDATE no longer names the state the request read.
ApplyUnconditionally(u, from, move) ==
    IF move.event = "none" THEN UNCHANGED <<state, held_from>>
    ELSE /\ state' = [state EXCEPT ![u] = move.to]
         /\ held_from' = [held_from EXCEPT ![u] =
                            IF move.event = "hold" THEN from
                            ELSE IF from = "HELD" THEN "NONE" ELSE @]

\* Bug: every move leaves the hint of where it came from.
ApplyHintingAlways(u, from, move) ==
    IF move.event = "none" THEN UNCHANGED <<state, held_from>>
    ELSE /\ state[u] = from
         /\ state' = [state EXCEPT ![u] = move.to]
         /\ held_from' = [held_from EXCEPT ![u] = from]

\* Bug: leaving HELD keeps the hint.
ApplyKeepingHint(u, from, move) ==
    IF move.event = "none" THEN UNCHANGED <<state, held_from>>
    ELSE /\ state[u] = from
         /\ state' = [state EXCEPT ![u] = move.to]
         /\ held_from' = [held_from EXCEPT ![u] =
                            IF move.event = "hold" THEN from ELSE @]

apply_transition(u, from, move) ==
    IF move.event = "none" THEN UNCHANGED <<state, held_from>>
    ELSE /\ state[u] = from
         /\ state' = [state EXCEPT ![u] = move.to]
         /\ held_from' = [held_from EXCEPT ![u] =
                            IF move.event = "hold" THEN from
                            ELSE IF from = "HELD" THEN "NONE" ELSE @]

\* use_case.eu_tier = t on a loaded row: the ORM writes only a changed value.
StampTier(u, row, t) ==
    eu_tier' = IF t = row.eu_tier THEN eu_tier ELSE [eu_tier EXCEPT ![u] = t]

\* snapshot_classification's and compute's insert of a new current row.
InsertSnapshot(u, t, status) ==
    snapshot' = [snapshot EXCEPT ![u] =
                   [tier |-> t, status |-> status, version |-> @.version + 1]]

-----------------------------------------------------------------------------
(***************************************************************************)
(* A request between its steps.                                            *)
(***************************************************************************)
At(w, op) == job[w].phase = "loaded" /\ job[w].op = op

Ready(w, op) == job[w].phase = "evaluated" /\ job[w].op = op

\* The transaction commits; an approval request goes on with its fan-out.
Rest(todo) ==
    IF todo = {} THEN Idle ELSE [Idle EXCEPT !.phase = "fan_out", !.todo = todo]

Respond(w) == job' = [job EXCEPT ![w] = Rest(job[w].todo)]

-----------------------------------------------------------------------------
(***************************************************************************)
(* Registration.  The use case, its first snapshot and the advance it      *)
(* drives are one transaction over rows no other request can see; only the *)
(* approvals its gates read may change before it commits.                  *)
(***************************************************************************)
FirstRow(first) == [tier |-> first.tier, status |-> first.status, version |-> 1]

Registered(u, ratified, snap, move) ==
    [phase |-> "evaluated", op |-> "register", by |-> NoUser, uc |-> u,
     tier |-> ratified, row |-> NoRow, doc |-> NoAiia, snap |-> snap,
     seen |-> 0, move |-> move, todo |-> {}]

EvaluateRegister(w) ==
    /\ job[w].phase = "idle"
    /\ \E u \in UseCases, first \in Intakes :
          LET ratified == IF first.stamped THEN first.tier ELSE "REQUIRES_CONTEXT"
              v == full_vector(u, first.tier, ratified, NoAiia, FALSE, TRUE)
          IN  /\ state[u] = "UNREGISTERED"
              /\ job' = [job EXCEPT ![w] =
                    Registered(u, ratified, FirstRow(first),
                               advance_use_case("REQUESTED", v))]
    /\ UNCHANGED <<useCaseVars, snapshot, docVars, recordVars, approval>>

CommitRegister(w) ==
    LET j == job[w] IN
    /\ Ready(w, "register")
    /\ state[j.uc] = "UNREGISTERED"
    /\ state' = [state EXCEPT ![j.uc] = j.move.to]
    /\ eu_tier' = [eu_tier EXCEPT ![j.uc] = j.tier]
    /\ snapshot' = [snapshot EXCEPT ![j.uc] = j.snap]
    /\ Respond(w)
    /\ UNCHANGED <<held_from, docVars, recordVars, approval>>

-----------------------------------------------------------------------------
(***************************************************************************)
(* Load: a request takes a worker and reads the rows its handler loads     *)
(* first.  A client's If-Match is a lock_version it has read, so it is at  *)
(* most the one loaded here, and only that one can match later: the loaded *)
(* row carries it.                                                         *)
(***************************************************************************)
LoadsUseCase == {"re_evaluate", "authorise", "override_classification",
                 "compute_classification", "sign_off_classification",
                 "create_aiia"}
LoadsAiia == {"authorise", "submit_for_review", "review_approved",
              "review_changes_requested", "reopen", "confirm_item",
              "amend_item", "create_control_link", "delete_assessment"}
RecordsActor == {"authorise", "submit_for_review", "review_approved",
                 "review_changes_requested"}
TakesTier == {"override_classification", "compute_classification"}

RowNow(u) == [state |-> state[u], eu_tier |-> eu_tier[u]]

Loaded(op, u, by, tier, todo) ==
    [phase |-> "loaded", op |-> op, by |-> by, uc |-> u, tier |-> tier,
     row  |-> IF op \in LoadsUseCase THEN RowNow(u) ELSE NoRow,
     doc  |-> IF op \in LoadsAiia THEN aiia[u] ELSE NoAiia,
     snap |-> IF op = "sign_off_classification" THEN snapshot[u] ELSE NoSnapshot,
     seen |-> 0, move |-> Stay("REQUESTED"), todo |-> todo]

(***************************************************************************)
(* The checks a handler makes on the rows it has loaded and on nothing     *)
(* else: whichever fails ends the request, so a request that loads is one  *)
(* that passes them.                                                       *)
(***************************************************************************)
\* Bug: only the reviewer is kept from authorising.
DistinctFromApproverOnly(user, doc) == user # doc.approved_by

\* assert_distinct_workflow_actor, as authorise_use_case calls it.
DistinctFromAuthors(user, doc) == user \notin {doc.approved_by, doc.submitted_by}

\* assert_distinct_workflow_actor, as record_review calls it.
DistinctFromSubmitter(user, doc) == user # doc.submitted_by

Accepts(j) ==
    /\ j.op = "authorise" =>
          /\ j.row.state = "PENDING_AUTHORISATION"
          /\ DistinctFromAuthors(j.by, j.doc)
    /\ j.op \in {"review_approved", "review_changes_requested"} =>
          /\ DistinctFromSubmitter(j.by, j.doc)
          /\ j.doc.status = "IN_REVIEW"
    \* _assert_authoring_unlocked
    /\ j.op \in {"confirm_item", "amend_item", "create_control_link"} =>
          j.doc.status \notin {"IN_REVIEW", "APPROVED"}
    \* the first check of _is_pristine
    /\ j.op = "delete_assessment" => j.doc.status = "DRAFT"
    /\ j.op = "sign_off_classification" => j.snap.status = "PENDING_REVIEW"

Load(w) ==
    /\ job[w].phase = "idle"
    /\ \E op \in Handlers \cap (LoadsUseCase \cup LoadsAiia), u \in UseCases :
       \E by \in IF op \in RecordsActor THEN Users ELSE {NoUser},
          t \in IF op \in TakesTier THEN {"PROHIBITED", "RATED"}
                ELSE {"REQUIRES_CONTEXT"} :
          /\ state[u] # "UNREGISTERED"
          /\ op \in LoadsAiia => aiia[u].id # 0
          /\ Accepts(Loaded(op, u, by, t, {}))
          /\ job' = [job EXCEPT ![w] = Loaded(op, u, by, t, {})]
    /\ UNCHANGED <<useCaseVars, snapshot, docVars, recordVars, approval>>

\* Every end of a request but its commit: the transaction rolls back, and
\* what is left of a fan-out is dropped with it.
Abort(w) ==
    /\ job[w].phase # "idle"
    /\ job' = [job EXCEPT ![w] = Idle]
    /\ UNCHANGED <<useCaseVars, snapshot, docVars, recordVars, approval>>

-----------------------------------------------------------------------------
(***************************************************************************)
(* Evaluate: the checks of a handler on what it has loaded and on what it  *)
(* reads now, and the outcome of its call into the engine.                 *)
(***************************************************************************)
\* The request goes on with this use_case row, having set aside the version
\* of the current snapshot it saw, and with this move of the engine.
Evaluated(j, row, seen, move) ==
    [j EXCEPT !.phase = "evaluated", !.row = row, !.seen = seen, !.move = move]

EvaluateAs(w, row, seen, move) ==
    /\ job' = [job EXCEPT ![w] = Evaluated(job[w], row, seen, move)]
    /\ UNCHANGED <<useCaseVars, snapshot, docVars, recordVars, approval>>

\* The handler calls no engine.
EvaluateChecks(w) == EvaluateAs(w, job[w].row, job[w].seen, job[w].move)

EvaluateReEvaluate(w) ==
    LET j == job[w] IN
    /\ At(w, "re_evaluate")
    /\ EvaluateAs(w, j.row, j.seen,
          re_evaluate(j.row.state, VectorNow(j.uc, j.row.eu_tier, aiia[j.uc])))

EvaluateAuthorise(w) ==
    LET j == job[w]
        v == VectorNow(j.uc, j.row.eu_tier, j.doc)
    IN  /\ At(w, "authorise")
        /\ \A s \in GuardedStates : v[s] = "advance"
        /\ EvaluateAs(w, j.row, j.seen, [event |-> "authorise", to |-> "AUTHORISED"])

EvaluateSubmit(w) ==
    LET u == job[w].uc IN
    /\ At(w, "submit_for_review")
    /\ structural_assessment_readiness(aiia[u], structural[u]) = "advance"
    /\ treated[u]
    /\ EvaluateChecks(w)

\* The status UPDATE comes before the gates: they read APPROVED.
EvaluateReviewApproved(w) ==
    LET j == job[w]
        v == VectorNow(j.uc, eu_tier[j.uc], [j.doc EXCEPT !.status = "APPROVED"])
    IN  /\ At(w, "review_approved")
        /\ EvaluateAs(w, RowNow(j.uc), j.seen, advance_use_case(state[j.uc], v))

\* Bug: the driver reads the ratified tier where it should read the snapshot.
AdvanceOnRatifiedTier(j, snapTier, ratified) ==
    advance_use_case(j.row.state,
        full_vector(j.uc, ratified, ratified, aiia[j.uc],
                    structural[j.uc], treated[j.uc]))

\* advance_use_case after a classification write, on the row loaded before.
AdvanceOnSnapshot(j, snapTier, ratified) ==
    advance_use_case(j.row.state,
        full_vector(j.uc, snapTier, ratified, aiia[j.uc],
                    structural[j.uc], treated[j.uc]))

EvaluateOverride(w) ==
    LET j == job[w] IN
    /\ At(w, "override_classification")
    /\ EvaluateAs(w, j.row, snapshot[j.uc].version,
                  AdvanceOnSnapshot(j, j.tier, j.tier))

EvaluateCompute(w) ==
    LET j == job[w] IN
    /\ At(w, "compute_classification")
    /\ EvaluateAs(w, j.row, snapshot[j.uc].version,
                  AdvanceOnSnapshot(j, j.tier, j.row.eu_tier))

EvaluateSignOff(w) ==
    LET j == job[w] IN
    /\ At(w, "sign_off_classification")
    /\ EvaluateAs(w, j.row, snapshot[j.uc].version,
                  AdvanceOnSnapshot(j, snapshot[j.uc].tier, j.snap.tier))

EvaluateCreateAiia(w) ==
    LET j == job[w] IN
    /\ At(w, "create_aiia")
    /\ classification_readiness(snapshot[j.uc].tier, j.row.eu_tier) = "advance"
    /\ aiia[j.uc].id = 0
    /\ EvaluateChecks(w)

\* The other checks of _is_pristine.
EvaluateDelete(w) ==
    LET j == job[w] IN
    /\ At(w, "delete_assessment")
    /\ \A r \in reviews[j.uc] \cup atos[j.uc] : r.id # j.doc.id
    /\ ~worked[j.uc]
    /\ EvaluateChecks(w)

Evaluate(w) ==
    \/ EvaluateReEvaluate(w)
    \/ EvaluateAuthorise(w)
    \/ EvaluateSubmit(w)
    \/ EvaluateReviewApproved(w)
    \/ EvaluateOverride(w)
    \/ EvaluateCompute(w)
    \/ EvaluateSignOff(w)
    \/ EvaluateCreateAiia(w)
    \/ EvaluateDelete(w)

-----------------------------------------------------------------------------
(***************************************************************************)
(* Commit: the writes of a handler.                                        *)
(***************************************************************************)
CommitReEvaluate(w) ==
    LET j == job[w] IN
    /\ Ready(w, "re_evaluate")
    /\ apply_transition(j.uc, j.row.state, j.move)
    /\ Respond(w)
    /\ UNCHANGED <<eu_tier, snapshot, docVars, recordVars, approval>>

\* Bug: the grant is stamped with the round the assessment is in by now.
GrantForRoundNow(j) ==
    [id |-> j.doc.id, round |-> aiia[j.uc].round, by |-> j.by]

\* The ATO: stamped with the round whose approval the request has seen.
Grant(j) == [id |-> j.doc.id, round |-> j.doc.round, by |-> j.by]

\* The foreign key of the ATO keeps the assessment it names.
CommitAuthorise(w) ==
    LET j == job[w] IN
    /\ Ready(w, "authorise")
    /\ aiia[j.uc].id = j.doc.id
    /\ atos' = [atos EXCEPT ![j.uc] = @ \cup {Grant(j)}]
    /\ apply_transition(j.uc, j.row.state, j.move)
    /\ Respond(w)
    /\ UNCHANGED <<eu_tier, snapshot, docVars, submissions, reviews, approval>>

\* Bug: the status UPDATE checks the status and no longer If-Match.
UpdateWithoutIfMatch(j, from, row) ==
    /\ aiia[j.uc].id = j.doc.id
    /\ aiia[j.uc].status \in from
    /\ aiia' = [aiia EXCEPT ![j.uc] = [row EXCEPT !.lock_version = @ + 1]]

\* The UPDATE of the row the request read, by If-Match and from-status.
conditional_status_update(j, from, row) ==
    /\ aiia[j.uc].id = j.doc.id
    /\ aiia[j.uc].lock_version = j.doc.lock_version
    /\ aiia[j.uc].status \in from
    /\ aiia' = [aiia EXCEPT ![j.uc] = [row EXCEPT !.lock_version = @ + 1]]

CommitSubmit(w) ==
    LET j == job[w] IN
    /\ Ready(w, "submit_for_review")
    /\ j.doc.round < MaxRound
    /\ conditional_status_update(j, {"DRAFT", "NEEDS_REFRESH"},
          [j.doc EXCEPT !.status = "IN_REVIEW", !.round = @ + 1,
                        !.submitted_by = j.by])
    /\ submissions' = [submissions EXCEPT ![j.uc] =
          @ \cup {[id |-> j.doc.id, round |-> j.doc.round + 1, by |-> j.by]}]
    /\ Respond(w)
    /\ UNCHANGED <<useCaseVars, snapshot, nextAiia, itemVars, reviews, atos, approval>>

RecordReview(j, decision) ==
    reviews' = [reviews EXCEPT ![j.uc] =
        @ \cup {[id |-> j.doc.id, round |-> j.doc.round, by |-> j.by,
                 decision |-> decision]}]

CommitReviewApproved(w) ==
    LET j == job[w] IN
    /\ Ready(w, "review_approved")
    /\ conditional_status_update(j, {"IN_REVIEW"},
          [j.doc EXCEPT !.status = "APPROVED", !.approved_by = j.by])
    /\ RecordReview(j, "APPROVED")
    /\ apply_transition(j.uc, j.row.state, j.move)
    /\ Respond(w)
    /\ UNCHANGED <<eu_tier, snapshot, nextAiia, itemVars, submissions, atos, approval>>

\* It drives nothing and, like the reopening, reads nothing more: both go
\* from the load to the UPDATE.
CommitReviewChanges(w) ==
    LET j == job[w] IN
    /\ At(w, "review_changes_requested")
    /\ conditional_status_update(j, {"IN_REVIEW"}, [j.doc EXCEPT !.status = "DRAFT"])
    /\ RecordReview(j, "CHANGES_REQUESTED")
    /\ Respond(w)
    /\ UNCHANGED <<useCaseVars, snapshot, nextAiia, itemVars, submissions, atos, approval>>

CommitReopen(w) ==
    LET j == job[w] IN
    /\ At(w, "reopen")
    /\ conditional_status_update(j, {"APPROVED"},
          [j.doc EXCEPT !.status = "NEEDS_REFRESH"])
    /\ Respond(w)
    /\ UNCHANGED <<useCaseVars, snapshot, nextAiia, itemVars, recordVars, approval>>

\* uq_current_classification: the current row is still the one set aside.
CommitOverride(w) ==
    LET j == job[w] IN
    /\ Ready(w, "override_classification")
    /\ snapshot[j.uc].version = j.seen
    /\ j.seen < MaxVersion
    /\ InsertSnapshot(j.uc, j.tier, "PENDING_REVIEW")
    /\ StampTier(j.uc, j.row, j.tier)
    /\ apply_transition(j.uc, j.row.state, j.move)
    /\ Respond(w)
    /\ UNCHANGED <<docVars, recordVars, approval>>

CommitCompute(w) ==
    LET j == job[w] IN
    /\ Ready(w, "compute_classification")
    /\ snapshot[j.uc].version = j.seen
    /\ j.seen < MaxVersion
    /\ InsertSnapshot(j.uc, j.tier, "PENDING_REVIEW")
    /\ apply_transition(j.uc, j.row.state, j.move)
    /\ Respond(w)
    /\ UNCHANGED <<eu_tier, docVars, recordVars, approval>>

(***************************************************************************)
(* The status UPDATE names the row by its key alone: a snapshot superseded *)
(* since it was loaded is approved all the same, and its tier stamped.     *)
(* When the gates still saw it as current, its row was locked by then.     *)
(***************************************************************************)
CommitSignOff(w) ==
    LET j == job[w] IN
    /\ Ready(w, "sign_off_classification")
    /\ j.seen = j.snap.version => snapshot[j.uc].version = j.seen
    /\ snapshot' = [snapshot EXCEPT ![j.uc] =
          IF @.version = j.snap.version THEN [@ EXCEPT !.status = "APPROVED"] ELSE @]
    /\ StampTier(j.uc, j.row, j.snap.tier)
    /\ apply_transition(j.uc, j.row.state, j.move)
    /\ Respond(w)
    /\ UNCHANGED <<docVars, recordVars, approval>>

\* What the items of use case u come to after a write.
SetItems(u, complete, decided, touched) ==
    /\ structural' = [structural EXCEPT ![u] = complete]
    /\ treated' = [treated EXCEPT ![u] = decided]
    /\ worked' = [worked EXCEPT ![u] = touched]

\* uq_one_aiia_per_use_case.  The proposed risks are AI_SUGGESTED items; a
\* tier without any, and without required feeders, is complete at once.
CommitCreateAiia(w) ==
    LET j == job[w] IN
    /\ Ready(w, "create_aiia")
    /\ aiia[j.uc].id = 0
    /\ nextAiia[j.uc] < MaxAiia
    /\ nextAiia' = [nextAiia EXCEPT ![j.uc] = @ + 1]
    /\ aiia' = [aiia EXCEPT ![j.uc] =
                  [NoAiia EXCEPT !.id = nextAiia[j.uc] + 1, !.status = "DRAFT"]]
    /\ \E complete \in BOOLEAN : SetItems(j.uc, complete, TRUE, FALSE)
    /\ Respond(w)
    /\ UNCHANGED <<useCaseVars, snapshot, recordVars, approval>>

\* Bug: the foreign keys cascade where they should restrict.
DeletableWithReviews(j) == aiia[j.uc].id = j.doc.id

\* The DELETE names the row by its key; only the RESTRICT foreign keys of
\* assessment_review and deployment_authorisation are checked with it.
Deletable(j) ==
    /\ aiia[j.uc].id = j.doc.id
    /\ \A r \in reviews[j.uc] \cup atos[j.uc] : r.id # j.doc.id

CommitDelete(w) ==
    LET j == job[w] IN
    /\ Ready(w, "delete_assessment")
    /\ Deletable(j)
    /\ aiia' = [aiia EXCEPT ![j.uc] = NoAiia]
    /\ SetItems(j.uc, FALSE, TRUE, FALSE)
    /\ Respond(w)
    /\ UNCHANGED <<useCaseVars, snapshot, nextAiia, recordVars, approval>>

-----------------------------------------------------------------------------
(***************************************************************************)
(* Item writes, as far as the gates can tell them apart.                   *)
(* The first three check the lock of _assert_authoring_unlocked on the     *)
(* assessment as loaded; what comes after is one step, since the UPDATE of *)
(* the item and that of the state validate it.                             *)
(***************************************************************************)
StillThere(w) == aiia[job[w].uc].id = job[w].doc.id

\* advance_use_case at the end of an item write: the use case is read now,
\* the assessment as loaded.
AdvanceAfterItems(j, complete, decided) ==
    apply_transition(j.uc, state[j.uc],
        advance_use_case(state[j.uc],
            full_vector(j.uc, snapshot[j.uc].tier, eu_tier[j.uc], j.doc,
                        complete, decided)))

\* A proposed risk becomes a dispositioned one, without a decision yet.
CommitConfirmItem(w) ==
    LET j == job[w] IN
    /\ At(w, "confirm_item") /\ StillThere(w)
    /\ ~structural[j.uc]
    /\ \E complete \in BOOLEAN :
          /\ SetItems(j.uc, complete, FALSE, TRUE)
          /\ AdvanceAfterItems(j, complete, FALSE)
    /\ Respond(w)
    /\ UNCHANGED <<eu_tier, snapshot, aiia, nextAiia, recordVars, approval>>

\* Treatment fields drive the lifecycle; authoring fields (mitigation_plan
\* among them) do not.  Without a worked item there is no decision to change.
CommitAmendItem(w) ==
    LET j == job[w] IN
    /\ At(w, "amend_item") /\ StillThere(w)
    /\ \E decided \in IF worked[j.uc] THEN BOOLEAN ELSE {TRUE},
          touched \in {worked[j.uc], TRUE} :
          /\ SetItems(j.uc, structural[j.uc], decided, touched)
          /\ \/ AdvanceAfterItems(j, structural[j.uc], decided)
             \/ UNCHANGED <<state, held_from>>
    /\ Respond(w)
    /\ UNCHANGED <<eu_tier, snapshot, aiia, nextAiia, recordVars, approval>>

\* A control link may substantiate a MITIGATE decision; an evidence link or
\* a new section item only adds work.  None drives the lifecycle.
CommitControlLink(w) ==
    LET j == job[w] IN
    /\ At(w, "create_control_link") /\ StillThere(w)
    /\ \E decided \in {treated[j.uc], TRUE} :
          SetItems(j.uc, structural[j.uc], decided, TRUE)
    /\ Respond(w)
    /\ UNCHANGED <<useCaseVars, snapshot, aiia, nextAiia, recordVars, approval>>

(***************************************************************************)
(* The writes below check no lock at all and drive nothing.                *)
(***************************************************************************)
UnguardedWrite(u, op) ==
    /\ op \in Handlers
    /\ aiia[u].id # 0
    /\ UNCHANGED <<useCaseVars, snapshot, aiia, nextAiia, recordVars, approval, job>>

\* Without worked items nothing awaits a decision.
Consistent(decided, touched) == touched \/ decided

delete_item(u) ==
    /\ \E complete \in {structural[u], TRUE}, decided \in {treated[u], TRUE},
          touched \in {worked[u], FALSE} :
          /\ Consistent(decided, touched)
          /\ SetItems(u, complete, decided, touched)
    /\ UnguardedWrite(u, "delete_item")

delete_control_link(u) ==
    /\ worked[u]
    /\ \E decided \in {treated[u], FALSE}, touched \in BOOLEAN :
          /\ Consistent(decided, touched)
          /\ SetItems(u, structural[u], decided, touched)
    /\ UnguardedWrite(u, "delete_control_link")

\* A feeder may be the one required, and brings proposed risks of its own.
create_feeder(u) ==
    /\ \E complete \in BOOLEAN : SetItems(u, complete, treated[u], TRUE)
    /\ UnguardedWrite(u, "create_feeder")

\* delete_assessment on a feeder that is pristine itself.
delete_feeder(u) ==
    /\ worked[u]
    /\ \E complete \in BOOLEAN, touched \in BOOLEAN :
          /\ Consistent(treated[u], touched)
          /\ SetItems(u, complete, treated[u], touched)
    /\ UnguardedWrite(u, "delete_feeder")

-----------------------------------------------------------------------------
(***************************************************************************)
(* Clearance.  The approval is committed first; then each linked use case  *)
(* is re-evaluated in a transaction of its own, in no particular order.    *)
(* The first one that fails ends the request.                              *)
(***************************************************************************)
Linked(p) ==
    {u \in UseCases : p \in {VendorOf[u], ProductOf[u]} /\ state[u] # "UNREGISTERED"}

set_approval(w) ==
    /\ "set_approval" \in Handlers
    /\ job[w].phase = "idle"
    /\ \E p \in Parties, x \in {"NOT_APPROVED", "APPROVED"} :
          /\ approval' = [approval EXCEPT ![p] = x]
          /\ job' = [job EXCEPT ![w] = Rest(Linked(p))]
    /\ UNCHANGED <<useCaseVars, snapshot, docVars, recordVars>>

fan_out(w) ==
    LET j == job[w] IN
    /\ j.phase = "fan_out"
    /\ \E u \in j.todo :
          job' = [job EXCEPT ![w] = Loaded("re_evaluate", u, NoUser,
                                           "REQUIRES_CONTEXT", j.todo \ {u})]
    /\ UNCHANGED <<useCaseVars, snapshot, docVars, recordVars, approval>>

\* valid_until passes; no event tells anyone.
ApprovalLapses(p) ==
    /\ approval[p] = "APPROVED"
    /\ approval' = [approval EXCEPT ![p] = "LAPSED"]
    /\ UNCHANGED <<useCaseVars, snapshot, docVars, recordVars, job>>

-----------------------------------------------------------------------------
Commit(w) ==
    \/ CommitRegister(w)
    \/ CommitReEvaluate(w)
    \/ CommitAuthorise(w)
    \/ CommitSubmit(w)
    \/ CommitReviewApproved(w)
    \/ CommitReviewChanges(w)
    \/ CommitReopen(w)
    \/ CommitOverride(w)
    \/ CommitCompute(w)
    \/ CommitSignOff(w)
    \/ CommitCreateAiia(w)
    \/ CommitDelete(w)
    \/ CommitConfirmItem(w)
    \/ CommitAmendItem(w)
    \/ CommitControlLink(w)

Request(w) ==
    \/ EvaluateRegister(w)
    \/ Load(w)
    \/ Evaluate(w)
    \/ Commit(w)
    \/ Abort(w)
    \/ set_approval(w)
    \/ fan_out(w)

ItemWrite(u) ==
    \/ delete_item(u)
    \/ delete_control_link(u)
    \/ create_feeder(u)
    \/ delete_feeder(u)

Next ==
    \/ \E w \in Workers : Request(w)
    \/ \E u \in UseCases : ItemWrite(u)
    \/ \E p \in Parties : ApprovalLapses(p)

Spec == Init /\ [][Next]_vars

-----------------------------------------------------------------------------
(***************************************************************************)
(* Properties.                                                             *)
(***************************************************************************)

(***************************************************************************)
(* A use case whose current classification is PROHIBITED is halted, in     *)
(* every committed state: no interleaving of a classification write with   *)
(* an advance, a hold, a restore or an authorisation leaves it live.       *)
(***************************************************************************)
ProhibitedHalts ==
    \A u \in UseCases :
        state[u] # "UNREGISTERED" /\ snapshot[u].tier = "PROHIBITED"
          => state[u] = "HALTED_PROHIBITED"

(***************************************************************************)
(* Separation of duties of a grant (inv 30): the user of an authorisation  *)
(* neither submitted the round it is given for nor approved it, judged by  *)
(* the records of that round and not by the row the request had read.      *)
(***************************************************************************)
SeparationOfDuties ==
    \A u \in UseCases : \A a \in atos[u] :
        /\ \A s \in submissions[u] :
              s.id = a.id /\ s.round = a.round => s.by # a.by
        /\ \A r \in reviews[u] :
              /\ r.id = a.id /\ r.round = a.round /\ r.decision = "APPROVED"
              => r.by # a.by

(***************************************************************************)
(* A round of an assessment is submitted once and decided at most once,    *)
(* and never by its submitter, whatever two reviewers do at the same time. *)
(***************************************************************************)
ReviewIndependence ==
    \A u \in UseCases :
        /\ \A r1, r2 \in reviews[u] :
              r1.id = r2.id /\ r1.round = r2.round => r1 = r2
        /\ \A s1, s2 \in submissions[u] :
              s1.id = s2.id /\ s1.round = s2.round => s1 = s2
        /\ \A r \in reviews[u] : \E s \in submissions[u] :
              s.id = r.id /\ s.round = r.round /\ s.by # r.by

(***************************************************************************)
(* An authorised use case holds a grant for a round of its assessment that *)
(* a reviewer approved (inv 35, inv 37), however old the row was that the  *)
(* authoriser's request had read.                                          *)
(***************************************************************************)
AuthorisedHasGrant ==
    \A u \in UseCases : state[u] = "AUTHORISED" =>
        \E a \in atos[u] : \E r \in reviews[u] :
            /\ r.id = a.id /\ r.round = a.round /\ r.decision = "APPROVED"
            /\ a.id = aiia[u].id

(***************************************************************************)
(* No use case gets past the assessment gate, by whatever request, without *)
(* a review that approved its assessment as it is now or as it was.        *)
(***************************************************************************)
PastAssessmentMeansReviewed ==
    \A u \in UseCases :
        state[u] \in {"TREATMENT_PENDING", "PENDING_AUTHORISATION", "AUTHORISED"}
          => \E r \in reviews[u] : r.decision = "APPROVED" /\ r.id = aiia[u].id

(***************************************************************************)
(* The review trail outlives every request: a reviewed or authorised       *)
(* assessment is never deleted, even by a request that found it pristine.  *)
(***************************************************************************)
ReviewedNeverDeleted ==
    \A u \in UseCases : \A r \in reviews[u] \cup atos[u] : r.id = aiia[u].id

(***************************************************************************)
(* The hold hint is there exactly while the use case is held: it is set    *)
(* and cleared with the state, through every way out of HELD.              *)
(***************************************************************************)
HeldHint ==
    \A u \in UseCases : (state[u] = "HELD") <=> (held_from[u] # "NONE")

(***************************************************************************)
(* The committed positions and grants follow the lifecycle's contract.     *)
(***************************************************************************)
Contract == INSTANCE LifecycleContract WITH
    cursor <- state, grants <- atos

ImplementsContract == Contract!Spec

(***************************************************************************)
(* What _is_pristine's comment says: an assessment that has ever entered   *)
(* the review workflow is never deleted.                                   *)
(***************************************************************************)
SubmittedNeverDeleted ==
    \A u \in UseCases : \A s \in submissions[u] : s.id = aiia[u].id
=============================================================================
