# Verification of the irontrust AI-governance platform

A TLA+ development beside the code of the platform: modules that model its
governed lifecycle, TLC runs that check small instances, and theorems that
TLAPS proves for every value of the constants. Paths are relative to the
repository, line numbers are in `PROJECT.json` ("map", "hazards").

## 1. The system

A multi-tenant service (FastAPI, SQLAlchemy, Postgres) with two Next.js
applications in front of it. A tenant registers *use cases* of AI systems; each
is classified under the EU AI Act, assessed (an AIIA with risk items), reviewed,
treated and finally authorised by a person. `use_case.state` is the position on
that ladder, and *gates* decide whether it may move.

### 1.1 Components

| Component (code) | State it keeps | Operations | What makes it correct |
|---|---|---|---|
| Lifecycle engine (`services/lifecycle_service.py`) | `use_case.state`, `held_from_state`, transition and audit rows | `apply_transition`, `advance_use_case`, `full_vector`, `re_evaluate`, approval writes and their fan-out | every written row is a legal edge; re-evaluation settles; only a person's act enters AUTHORISED; PROHIBITED halts |
| Gates (`services/lifecycle_gates.py`) | none (reads) | vendor, product, classification, assessment, treatment, authorisation gates | total; only the intake gate can halt |
| Review workflow (`services/assessment_review_service.py`) | `assessment.status`, `submission_round`, `lock_version`, `submitted_by`, `approved_by`; `assessment_review` rows | submit, review, reopen, queue | a round is decided once, never by its submitter |
| Authorisation (`services/authorisation_service.py`) | `deployment_authorisation` rows | authorise | the grant names an approved round, its user is neither submitter nor approver of it |
| Assessment authoring (`services/assessment_service.py`) | assessments, items, provenance, control and evidence links, feeders | create, confirm, amend, delete, link, unlink, feeders | nothing under review changes; only drafts never submitted are deleted |
| Classification (`services/classification.py`, `context_classification.py`, `routers/v1/use_cases.py`) | `classification` snapshots with one current row, `use_case.eu_tier` | register, override, compute, sign off | one current row; PROHIBITED halts at once, before ratification |
| Registration (`routers/v1/registrations.py`, `use_cases.py`) | system, use case, intake, first snapshot | register, resolve, discard a draft | all or nothing; classified before it advances |
| Clearance (`models/domain.py`, `lifecycle_service.py`, `system_service.py`) | vendor and product approvals with `valid_until`, the vendor a system is linked to | set approval, fan out, relink, clearance queue | linked use cases follow the approval, or it is known which do not; the queue shows every party somebody waits for |
| Roles (`services/governance.py`, `routers/v1/governance_roles.py`) | governance role assignments and the conflict matrix | grant, revoke, distinct-actor check | no member holds conflicting roles; no admin holds any |
| Tenant context (`auth/context.py`, `db/session.py`) | the transaction-local tenant setting | one transaction per request | commit or roll back as a whole |
| Evidence (`services/evidence_service.py`, `storage.py`) | evidence rows, S3 objects | upload, download, delete | no row without its object; orphans compensated |
| Provisioning (`services/*provisioning.py`) | identity rows, Cognito users | create member, tenant, operator | no Cognito user without its rows |
| Drafts (`routers/v1/draft_registrations.py`) | one draft per member | get or create, save, discard | one per member, never back once it is used up |
| Registration wizard (`apps/tenant/app/systems/new`) | the wizard state of every open page, its requests under way | seed, edit, confirm, resume, register | a confirmation on record is one the user gave for that value; the page enables what the server accepts |
| Coverage and export (`services/coverage_service.py`, `export_service.py`) | none but the `export.generated` event | coverage roll-up, audit packs | verdicts follow from the record, the trail explains it, the hash repeats |
| Systems and prefill (`services/system_service.py`, `prefill_service.py`) | systems, prefill dispositions | create, update, defaults | an amended value loses its confirmation |
| Operator plane, other pages, migrations, reference data | sessions, static roles, schema, catalogues | | |

### 1.2 How they interact

A handler runs in one READ COMMITTED transaction (`get_tenant_db`). Services
call each other inside it: a review calls `advance_use_case`, which reads the
gates, which read the rows of the other components. Requests of different users
meet only in the database, and only what an UPDATE, a unique index or a foreign
key checks is protected:

- `apply_transition` updates `use_case` **where state = the state it read**;
- `_conditional_status_update` updates `assessment` **where lock_version = If-Match and status is the from-status**;
- `uq_current_classification` and `uq_one_aiia_per_use_case` keep one current snapshot and one AIIA;
- `assessment_review` and `deployment_authorisation` restrict the deletion of the assessment they name.

Everything else a handler checks, it checks on rows that may be stale when it
commits: the ORM's identity map keeps the attributes of a loaded row for the
rest of the request (`autoflush=False`, `expire_on_commit=False`). Approval
requests commit first and then run one transaction per linked use case.

### 1.3 What is hard here

Two requests between load and commit; a row read before another request's
commit and used after it; grants and reviews that must agree with rounds that
move on; holds and restores from several callers; unguarded item writes under
review; approvals that lapse without an event; a fan-out that stops half-way; a
commit in mid-request that ends the tenant setting; two writers of the current
snapshot; a pack read in many statements while others write; saves of an old
page that arrive after the draft is gone; a Cognito or S3 call between two
database steps. `PROJECT.json` lists each as a hazard at its line, with the
properties that would catch it.

## 2. Modules

| Module | Models | Correspondence |
|---|---|---|
| `LifecycleEngine` | `_ADVANCE_TABLE`, `_is_legal`, `_target_from_vector`, `advance_use_case`, `re_evaluate` | pure operators from a position and a gate vector to a *move* (the event and the resting state); no variables |
| `ReEvaluation` | one use case and a vector the rest of the system changes at will | actions: the gate inputs change, a triggered advance, the lever, the act of authorisation |
| `Clearance` | a portfolio of use cases behind vendor and product clearances: the decision, its fan-out, the lever, lapses, relinking, the queue | section 2.4 |
| `MCPortfolio` | instances of the two | one variable, `part`, picks which of them runs |
| `LifecycleContract` | what the lifecycle promises of committed positions and grants | the abstract specification |
| `UseCaseLifecycle` | the handlers under concurrency, over the rows they share | section 2.1 |
| `MCLifecycle` | instances of `UseCaseLifecycle` | constants of the runs |
| `Dossier` | the assessment row by row, its audit events, coverage and audit packs | section 2.5 |
| `ClassificationRules` | both resolvers: the catalogue mappings and the decision tree | pure operators; no variables |
| `ClassificationInquiry` | what is asked of them: every catalogue, every list of answers | section 2.6 |
| `ClassificationRecords` | the snapshots of one use case and its `eu_tier` under concurrent writers | section 2.6 |
| `IntakeWizard` | the registration wizard, the draft, the dispositions of a registration | section 2.7 |
| `MCDossier` | instances of the last five | `part` picks which of them runs |
| `EvidenceStore` | the evidence repository over S3 and Postgres | section 2.2 |
| `Provisioning` | tenants, members and operators over Cognito and Postgres | section 2.3 |
| `RoleGrants` | governance roles of the accounts `Provisioning` creates; composes the two | section 2.3 |
| `MCAccess` | instances of `RoleGrants` and `EvidenceStore` | `part` picks which of them runs |
| `LifecycleEngineProofs`, `ClearanceProofs` | theorems about `LifecycleEngine`, `ReEvaluation` and `Clearance` | section 4.1 |
| `UseCaseLifecycleProofs`, `ReviewTrailProofs` | theorems about `UseCaseLifecycle` | section 4.2 |
| `AccessProofs` | theorems about `EvidenceStore`, `Provisioning` and `RoleGrants` | section 4.3 |
| `ClassificationProofs` | theorems about `ClassificationInquiry` and `ClassificationRecords` | section 4.4 |
| `DossierProofs`, `WizardProofs` | theorems about `Dossier` and `IntakeWizard` | sections 4.5, 4.6 |

`MCPortfolio`, `MCDossier` and `MCAccess` put components side by side that share
no state. Their `part` is chosen in the initial state, so one run explores each
component by itself and their state spaces add up rather than multiply.

### 2.1 `UseCaseLifecycle`

Variables are columns: `state`, `held_from`, `eu_tier` (the use case),
`snapshot` (the current classification row, `version` counting the rows),
`aiia` (the assessment row; id 0 when there is none), `submissions`, `reviews`,
`atos` (rows that are only added), `approval` (per vendor or product). `job[w]`
is what request `w` has read so far.

A handler is three steps, with those of other requests in between:

- **Load** reads the rows the handler loads first and makes the checks it makes
  on them alone (`Accepts`); a request that fails them ends without effect.
- **Evaluate** reads the gates *now* (other rows are read fresh) but the loaded
  rows *as they were*, and fixes the engine's move. `VectorNow` takes the
  possibly stale ratified tier and assessment as arguments, the rest from the
  committed state; each handler passes what its code passes.
- **Commit** applies all writes, each under the condition the database checks:
  a zero-row UPDATE, an `IntegrityError` or a RESTRICT violation is a commit
  that is not enabled, and the request ends in `Abort`. A row stays locked from
  its UPDATE to the commit, so checking all at the commit equals checking each
  at its UPDATE; the next paragraph names the one place where that matters.

`CommitSignOff` has a guard for a lock: a sign-off whose gates still saw its own
snapshot as current had locked that row, so nobody superseded it meanwhile.
Registration works on rows nobody else sees, so it is an Evaluate and a Commit.

Abstractions. HIGH, LIMITED and MINIMAL are one tier, RATED. Items are two
booleans per use case, `structural` (no open proposal, required feeders there)
and `treated` (every dispositioned risk has a substantiated decision), with
`worked` for what `_is_pristine` looks at; every item write may set them to any
value its code can reach. A member may act in any role, because roles may be
regranted between two acts. `REQUESTED` is passed inside the registering
transaction, so no committed row holds it. `DEPLOYED` and `RETIRED` are enum
values no code enters and are left out.

### 2.2 `EvidenceStore`

An upload draws an id, puts the object with no transaction open
(`put_object`), and inserts its row in a transaction of its own
(`InsertRow`); if that fails it deletes the object (`delete_object`). `Faults`
says what may go wrong: the put or the commit takes effect and raises all the
same, the commit fails, the clean-up fails, the process ends. `issued`,
`retired`, `lost` and `torn` are histories: URLs handed out, rows deleted,
objects a fault left behind, commits that took effect and raised.

Linking and deleting are modelled with the locks Postgres takes. An inserted
link holds its evidence row `FOR KEY SHARE` until its commit (phase `linked`).
`DELETE ... WHERE NOT EXISTS` takes its snapshot (`StartDelete`), waits while
such a lock is held, and then deletes: at READ COMMITTED the condition is looked
at again only if the row was updated meanwhile, not if it was merely locked. The
foreign key cascades to the links there are by then.

### 2.3 `Provisioning` and `RoleGrants`

The three choreographies share their steps: pre-checks (`provision_*`), the
first flush, which a unique key makes wait for another open transaction with the
same key (`FlushFirstRow`: the tenant's slug, or the placeholder sub of an
operator), the Cognito call with the transaction open (`create_cognito_user`),
the flush of the identity rows, the commit, and the compensating delete, which
names the user by email (`delete_cognito_user`). A member's request has no first
flush, an operator's no second one. `pool` is the users of both pools by email,
`subs` counts the subs drawn, `lost` and `torn` are histories as above. An
account is an `app_user` row with its membership: both are written by one commit
and never deleted.

A grant is a check and an insert (`CheckGrant`, `CommitGrant`): the roles held
are read at the check, the unique index is checked at the insert. `knew` records
what the check saw. Roles are numbers in the order of their ids; the matrix is a
parameter.

### 2.4 `Clearance`

`set_approval` writes the clearance and commits; the request is then `decided`.
The commit ended the transaction-local tenant setting (`scoped`), and
`set_tenant_context` makes it again; without it `enumerate` would select no use
case. `fan_out` re-evaluates the selected use cases one by one, each in a
transaction of two steps (`Evaluated`, `Commit`), and stops for good at the first
409 (`Conflict`) or with the process (`Crash`). Registrations, gates of a use
case's own that come to pass, the act of authorisation, the lever, relinked
systems and lapses happen in between. `missed` is a history: the use cases that
no request is going to re-evaluate although something about them changed. The
other gates are sets (`met`) that only grow here, so what goes out of step does
so through clearances.

`vendor_ids_to_show` and `products_shown` are the two read models of the
clearance queue, with the vendor a product has in the catalogue and the vendor a
system is linked to kept apart, as in the code.

### 2.5 `Dossier`

`db` is the committed rows: assessments, items, links and the audit events as a
bag. A handler that checks something its write does not check again takes two
steps: `Begin...` makes the checks, `Commit...` the write, with what the database
validates (the WHERE of an UPDATE, unique indexes, foreign keys, RESTRICT). A
DELETE that finds its row gone stages its event all the same, as the code does;
`TrailAccountsForTheRecord` compares which links were removed and not how often
that was written, so it says nothing about such a second event.
`late` marks a request whose assessment was locked after it made its checks. An
export takes its snapshot (`BeginExport`), assembles the body and closes the trail
in separate steps, in the one REPEATABLE READ transaction the export service
opens, and commits its own event.

An assessment starts with the items `Prefills` gives it; a text is present or
absent; a framework has one clause. Controls, evidence and tiers are parameters.

### 2.6 `ClassificationRules`, `ClassificationInquiry`, `ClassificationRecords`

The rules are translated as they stand: the worst-case mapping of a product and
the disposition of a declared subcategory (`resolve_classification`), and the
weighing of answers in the order they come, with duplicates, unknown options and
unknown questions (`Weigh`, `resolve_context_classification`): `FoundUpTo` is the loop, as a
recursive function of the place in the list. `ClassificationInquiry` runs them
for every catalogue and every list of answers. `SelfApprovedIsHighest` is about
registration alone: afterwards a system owner may override the tier, and
`override_classification` stamps a milder one with nobody's review, which
`ClassificationRecords` and `UseCaseLifecycle` model as it is.

`ClassificationRecords` follows the statements: a writer reads the use case,
starts its UPDATE of the current row (`Aim`), waits for the row lock and looks
again (`Unset`), inserts under `uq_current_classification` and commits. The ORM
writes `eu_tier` only if it differs from what the request read; `Stamp` models
that, and `outdated` remembers that a stamp was decided on superseded data.
`UseCaseLifecycle` merges the tiers below PROHIBITED and stamps without that
optimisation; the lost stamp is therefore only here.

### 2.7 `IntakeWizard`

`page` is the reducer state of every open page, `wire` the requests and answers
under way. The user edits, confirms, leaves and resumes; the server handles a
request in one transaction; an answer reaches the page if it still waits for it.
Any message may be lost (`Lose`), delayed or overtaken, and a page may be loaded
again while its requests are under way (`Reload`). `clicked` is a history of what
the user confirmed, with the value it had then. A system that is not from the
catalogue has no defaults and nothing to confirm, so the wizard modelled is that
of a catalogue product.

## 3. Runs

| Run | Question | Bounds and why they are enough |
|---|---|---|
| Idempotence | is `re_evaluate` idempotent, as `_fan_out`'s docstring says? | none; **violated**: a hold is followed by a restore |
| Review | are reviews and grants separated and permanent under races? | 2 requests, 3 members, 2 rounds, 2 assessments: a stale request needs one request to overtake it, the overtaking history needs a submitter, a reviewer and an authoriser in two rounds |
| Positions | do the handlers implement the contract; does PROHIBITED always halt; is the hold hint exact? | every handler that moves a use case, every first classification, 2 snapshots, 1 round with a reopening, one vendor set, withdrawn and lapsing: override, compute and sign-off can each supersede the other between load and commit |
| Items | does nobody pass the assessment gate without an approving review? | 2 rounds, every item write |
| Submitted | does `_is_pristine` keep a submitted assessment from being deleted? | **violated**: the check is made before the submission commits, the DELETE names only the key |
| Portfolio, engine | does the engine write only legal rows, settle, and never authorise by itself? | none: every position and every vector |
| Portfolio, clearance | is every use case that is out of step with its gates known; does a fan-out catch up; does the lever mend everything; does the queue show everybody who waits? | 2 use cases of 2 systems behind one vendor and one product, 2 requests, 2 decisions, lapses, relinks or crashes: a fan-out over two use cases can stop between them, a second decision or a registration can come in between |
| Access, accounts | do accounts and Cognito users stay paired, do admins hold no role, do only overlapping grants conflict? | 2 provisioning requests for 2 tenants and 2 emails, 2 users created, 2 granting requests, all faults: an email can be lost and provisioned again, two requests can meet in one email or slug, and an owner and a member are enough for two grants to overlap |
| Access, evidence | does every pointer keep its bytes, is every orphan accounted for, does no link dangle? | 2 requests, 2 uploads, 2 links, all faults: ids are never drawn twice, so two tell one object from another, and a deletion meets a link; more requests at once are covered by the proofs |
| AccessConflicts | can nobody hold conflicting roles, as WKF-5 requires? | the same instance; **violated** by two overlapping grants |
| EvidenceRace | does a deletion never strip a link, as its docstring says? | 2 requests, no faults; **violated**: the deletion waits for the link's lock and cascades to it |
| Dossier, assessment | do suggestions stay out until confirmed once; does the lock hold; do the packs' trail, verdicts and hash agree with the record? | from four dossiers (empty, started, evidenced, approved), each made by the module's own writes, 2 writes follow, by two racing requests or by one and an export; 3 items are one per kind of origin, 2 controls share one of two frameworks |
| Dossier, records | is there one current snapshot, the newest; was the effective tier ratified? | 2 writers, 3 snapshots, of which HIGH stands for the lower tiers in the first: records only tell PROHIBITED and equal tiers apart |
| Dossier, inquiry | is the computed tier the worst asserted; does a registration approve only the highest tier by itself? | every catalogue of two categories, every list of 3 answers to 2 questions of the tree or a third it does not have: a duplicate, a contradiction and an unknown option fit in |
| Dossier, wizard | is a confirmation genuine; does a spent draft stay spent? | one page loaded again once, 2 messages under way, one derived field of two values and one fact, shown before the reload only: the page before and the page after the reload are the two clients that race |
| LockedContent | does the content of a locked assessment stay as it was, as INV-31 says? | the dossier instance; **violated** by `delete_item` and the two unlinks, which check no lock |
| WizardGate | does the server accept what the page enables, as INV-83 says? | the wizard instance; **violated** by a field edited back to its default |

The bounds in the guards: `MaxRound`, `MaxVersion` and `MaxAiia` (submissions,
snapshots, assessments of `UseCaseLifecycle`), `MaxChanges` (decisions, lapses,
relinks and crashes of `Clearance`), `MaxWrites`, `MaxItems` and `MaxRounds`
(`Dossier`), `MaxSnapshots` (`ClassificationRecords`), `MaxAnswers`
(`ClassificationRules`), `MaxDrafts`, `MaxSystems`, `MaxReloads` and `MaxUnderWay`
(`IntakeWizard`), `MaxEvidence`, `MaxLinks` and `MaxSub` (uploads, links, Cognito
users). Requests and members of `MCLifecycle` and the actors of `MCAccess` are symmetric; there is no symmetry where liveness is checked. One use case is enough
for Review, Positions and Items: each property relates rows of one use case, and
what use cases share, the clearances, is `Clearance`'s. Deadlock is checked in
every run of `MCLifecycle` and in Idempotence, and switched off where a system
comes to rest by itself: when the bounded ids, writes or changes are used up, or
when the question has been answered.

**Fairness.** The engine of requests is weakly fair in one place: `Progress(w)`
of `Clearance`, the steps a server takes by itself once a request has come in
(select, re-evaluate the next one, commit or give up). Nothing else is fair: no
user need act, nothing lapses or is decided on schedule, and `Crash` may end a
request at any point. `FanOutCatchesUp` needs no more. `LeverMends` is an
implication: *if* somebody pulls the lever again and again on every use case it
can move, then once the changes cease all come to rest at the gate that blocks
them; the strong fairness is its antecedent, not an assumption of the system. The
docstring of `_fan_out` says that what a failed fan-out leaves behind is caught
"on the next consequential read/operation"; in the model that is true of use cases
that can advance, but a use case *ahead* of a withdrawn clearance is taken back
by a re-evaluation only.

The six violated runs are disagreements between the code and what its docstring,
comment, design, invariant list or requirement says; `PROJECT.json` quotes the
lines under "findings". Each has a property that says what remains true:
`ConflictsComeFromRaces` for WKF-5, `LockHolds` for INV-31, `ReEvaluateSettles`
for the idempotence, `ReviewedNeverDeleted` for the deletions, `NoDanglingLink`
for the stripped links, `ConfirmationIsGenuine` for the wizard.

Smaller observations, of which no run is made: an unlink that finds its row gone
stages a second `evidence.unlinked` event (so `TrailAccountsForTheRecord`
compares sets of link ids, not counts); a feeder can be submitted on its own,
which only the AIIA's lock expects; the PATCH that follows the creation of a
draft goes to the draft the page knew before, that is to nobody the first time;
a registration whose answer is lost can be sent again and makes a second system.

## 4. Proofs

Every invariant and every action property of the passing runs is a theorem, and
so is the refinement: for any values of the constants that satisfy the named
assumptions, with any bounds. What stays with TLC is at the end of this section.

### 4.1 The engine and the clearances

`ReEvaluateIsLegal`: from any position and any vector `re_evaluate` asks for a
legal transition and never authorises. `OneReEvaluationSettles`: where it leads,
another one stays, unless it led to the hold (the walk stops at the first gate
that blocks, and that gate is the target).

For one use case and a vector that changes at will (`ClearanceProofs`:
`ReEvaluateAlwaysSettles`, `OnlyTheActAuthorises`, `TrailsAreAlwaysLegal`), the
invariant is only that a registered use case never goes back to REQUESTED. The
trail is about the loop of `advance_use_case`, which reads the gate again after
each row. The recursive function `AdvanceLoop` exists because it can be written
out from the ceiling down (`AdvanceLoopIsDefined`); a row whose hop is legal, put
before a trail, is a trail (`TrailGrowsAtItsHead`); and where a gate passes, the
walk from its state rests where the walk from the next one does
(`WalkRestsAtFirstStop`), so the loop ends where the walk says.

Clearances (`StaleIsAlwaysKnown`, `QueueAlwaysShowsTheParked`,
`ClearanceTypes`), from `ClearanceAssumption`. `StaleIsKnown` is not inductive: a
fan-out that has just found a use case in step still has it on its list, but will
drop it without writing. `Owed(w)` is what a request is really going to write
for; everything out of step is missed or owed (`StaleIsOwed`), and a commit that
was owed leaves its use case in step or held, because one re-evaluation is enough
(`OneReEvaluationSettles`). For the queue, a use case that waits at a
clearance gate, or that a transaction is about to send there, has such a party
(`ParkedHaveParty`); a system may change its vendor and never loses it.

### 4.2 The lifecycle under concurrent requests

From `LifecycleAssumption` alone (any number of use cases, members, requests and
parties): `InvariantAlways`, and from it `TypeCorrect`, `ProhibitedAlwaysHalts`,
`HintIsExact`; and `HandlersImplementContract`: the handlers implement
`LifecycleContract` with `cursor <- state` and `grants <- atos`, step by step.

`ProhibitedHalts` is not inductive by itself: a commit writes a
move computed earlier from rows that may be stale by then. `Sound(j, st)` says
what a request may hold while the committed positions are `st`: a legal move
from the state it read; the halt if it carries a PROHIBITED tier, unless the row
it read was halted; a row it read as halted is halted still. It reads `st` only
through two facts nothing undoes (a use case stays registered; a halted one
stays halted, `Later`), so a request stays sound under everybody else's commits
(`SoundnessLasts`), and each commit needs an argument only about itself
(`TransitionIsSafe`).

The review trail (`ReviewTrailProofs`: `DutiesAreSeparated`,
`ReviewsAreIndependent`, `TrailIsPermanent`). The rows of the trail only grow,
and an assessment row a request holds is the committed one for as long as its
`lock_version` is unchanged, which is what the conditional UPDATE asks. A row
that is older still tells the truth about its own round: whoever it names as
submitter or approver is in the trail under that round, and no other. So a grant
made from a stale row is compared with the right people for the round it names.

The assessment gate (`ReviewTrailProofs`: `NobodySkipsTheReview`,
`AuthorisedIsGranted`). A move past the gate rests on a row read as APPROVED,
and behind every such row is an approving review that nobody deletes, even if
the row has been reopened since; a grant is entered together with the one edge
of the contract that leads into AUTHORISED.

### 4.3 Evidence, provisioning and roles

Evidence (`PointersAlwaysResolve`, `OrphansAlwaysKnown`,
`LinksNeverDangle`, `EvidenceTypes`), from `EvidenceAssumption`. Ids are drawn
once, so two uploads never share an object, and nobody has seen the row of an
upload still in progress unless its commit went unanswered: a compensation
therefore only takes away what nobody refers to. A link being inserted keeps its
evidence row alive.

Provisioning and roles (`AccountsAlwaysSignIn`,
`StrandedAlwaysKnown`, `AdminsNeverHoldRoles`, `ConflictsAlwaysRaced`,
`AccessTypes`), from `ProvisioningAssumption` and `RolesAssumption`. A request
with a Cognito user on its hands still finds that user under its email
(`UsersInHand`): the name is taken, and only the request itself removes it. With
subs drawn once, the compensating delete by email meets its own user and nobody
else's. An open tenant request holds its slug alone and the slug is new, so a
tenant has one admin (`TenantInv`), to whom nobody else can grant. Each grant
keeps what its check saw (`GrantsAreChecked`), which gives
`ConflictsComeFromRaces` for every matrix.

### 4.4 Classification

The rules (`SelfApprovedAlwaysHighest`, `ComputedTierAlwaysAsserted`), from
`ClassificationRulesAssumption`: every catalogue, every decision tree, every list
of answers, to questions of the tree or not. The second is an induction over the list, made by hand on sets of
numbers: the natural numbers are well ordered (`LeastNumber`), so a set with 0
and every successor has them all (`CountingUp`), and `FoundUpTo` is defined at
every place (`FoundUpToIsDefined`). What has been found up to a place is the
worst rung that the answers up to there assert (`WeighingJudges`,
`ListIsJudged`). The loop takes an answer only if it is the one the map keeps for
its question, and the map keeps the last (`MapKeepsTheLast`), so at the end it
has judged the last answer to each question and no other.

The records (`OneIsCurrent`, `EffectiveTierWasRatified`, `RecordsTypes`), from
`ClassificationRecordsAssumption`.
The inductive part is about what requests hold: the tier a request read as
`eu_tier` was ratified then and stays ratified, since rows are never rewritten
but for their approval (`ReadsAreRatified`), and a sign-off carries the tier of
the row it is going to approve (`SignOffsNameTheirRow`). A writer that gets past
the unique index had every current row in its UPDATE, so its own becomes the only
one (`NewRowKeeps`).

### 4.5 The dossier

From `DossierAssumption` (any requests, items, links, controls, frameworks):
`DossierTypes`, `SuggestionsAlwaysStayOut`, `LockAlwaysHolds`,
`TrailAlwaysAccounts`, `HashIsAlwaysOfTheRecord`, `VerdictsAlwaysRest`, all from
one inductive invariant, `DossierInvariant`. The properties do not carry
themselves: that a confirmed item has one confirmation in the trail needs that
no event is about an id not yet drawn; that a trail explains a record read
earlier needs that an export sees one state of both. The invariant has three
parts.

- `Sound`, of the committed rows: each refers to rows that exist, ids are below
  the counters they are drawn from, and the trail accounts for the rows (an item
  has as many versions as events, its links are those created and not deleted,
  a round for every submission).
- `Holds`, of a request between its check and its write: what is left of the
  check whatever others commit meanwhile. What it names was drawn and is never
  drawn again, an item that was no suggestion is none, a link id means the link
  it meant; and unless the request is `late`, what it found unlocked is unlocked.
- `ExportSound` and `PackSound`, of an export and its pack: record and trail
  were read from one `Sound` state.

Every write leads to rows that follow those before it (`Follows`): sound again,
nothing drawn twice, no item turned back into a suggestion, and content touched
only in a named set of assessments. One lemma per write shows that
(`...Follows`), and one lemma, `HoldsLater`, that `Holds` survives any such step
of somebody else; the commits then concern only their own request.
`LockHolds` adds that the assessments touched were under no lock unless the
writer was late (`Lawful`). What the packs promise is proved of every `Sound`
state, so it holds of the pack whatever is written during the export. For the
hash, the events an export adds are the ones the hash leaves out
(`HashOfGoverned`); for the roll-up, the links of a control are parted into the
four counts of its breakdown (`BreakdownAddsUp`).

### 4.6 The wizard

For any number of pages, fields, facts, drafts and messages (`WizardProofs`:
`WizardTypes`, `SpentStaysSpent`, `ConfirmationIsAlwaysGenuine`, from
`WizardInvariant` and `IntakeWizardAssumption`). A confirmation on record cannot be traced to the page it
came from: the page may have been edited, reloaded or have gone on to another
draft since. The invariant follows it instead. A page claims only what was
clicked in it at the value it shows now (`Earned`: the reducer takes a
confirmation back when the value changes, and wherever a page starts afresh its
claims go with its clicks), and a registration carries the claims together with the
clicks it was sent with (`Sealed`), which do not change on the wire. `Waited`
says that a page that shows a registration as pending has its request or its
answer under way: a request that is refused or lost takes the waiting with it.

### 4.7 Only model-checked

The two liveness properties, `FanOutCatchesUp` and `LeverMends`: fairness and
ENABLED are beyond the prover. The six violated claims, which are no theorems. No
module declares a RECURSIVE operator: the two loops of the code are recursive
functions, over the positions of the ladder and the places of a list, which is
what makes them accessible to the proofs above.

## 5. Not modelled

- *Coverage and export*: the lifecycle trail, the grants and approvals and the
  classification history of a pack (rows that other modules show to be only
  added, copied as they are), the authorisation document, rendering and the
  download. The unordered SELECTs behind a pack make its hash depend on the
  order the database answers in; the model compares sets.
- *Systems and prefill*: owners, vocabularies and the detail reads.
- *Web applications*: every page but the registration wizard; they read and
  post, and keep no state of their own that a handler relies on. A prefill query
  that fails leaves the use-case step waiting, which the model has as a page that
  is never seeded.
- *Tenant context*: token verification and row-level security as such; a query
  without the tenant setting sees nothing (`Clearance`).
- *Operator plane, migrations and seed data, reference data*: permission checks
  over static roles, schema changes, reads of catalogues. The indexes and foreign
  keys they create are in the commits that rely on them.

Of the modelled components, the wording of reasons, transition and audit rows
other than those of the dossier, the role row of a new operator and the listing
of evidence are left out. Locks taken in opposite orders (use case and
classification) end in the abort of one request, which every request may end in
anyway. Cognito, S3 and Postgres are modelled from how the code uses them: user
names are unique in a pool, keys are never reused, and locks and snapshots are
those of READ COMMITTED, or REPEATABLE READ for exports.

## 6. What could come next

1. `UseCaseLifecycle` as a refinement: its `structural` and `treated` computed
   from a `Dossier`, its snapshot from `ClassificationRecords`.
2. The safety half of the two liveness properties: that a fan-out's list only
   shrinks, and that a pull of the lever on a use case out of step is a step
   towards the gate that blocks it.
3. The packs' remaining sections, and `build_ato_document`.
