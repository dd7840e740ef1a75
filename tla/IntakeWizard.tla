---------------------------- MODULE IntakeWizard ----------------------------
(***************************************************************************)
(* The registration wizard of one system owner: the reducer of             *)
(* apps/tenant/app/systems/new/wizard-state.ts in every open page, the     *)
(* draft of app/routers/v1/draft_registrations.py and the dispositions of  *)
(* app/routers/v1/registrations.py.  Pages and server exchange requests    *)
(* and answers that may be lost, delayed or overtaken.                     *)
(*                                                                         *)
(* A field is one of the intake fields that get a default: derived ones    *)
(* have to be confirmed, catalogue ones are confirmed by leaving them as   *)
(* they are.  The wizard is that of a system with a catalogue product;     *)
(* others have no defaults and nothing to confirm.  A page that shows the  *)
(* front door has resolved no draft yet.                                   *)
(***************************************************************************)
EXTENDS Naturals, FiniteSets

CONSTANTS
    Pages,              \* open pages of the one user
    NoPage,
    DerivedFields,      \* operator_role_id, lifecycle_stage
    CatalogueFields,    \* hosting_model_id, purpose, name
    FactKeys,           \* the product's catalogue facts
    Values,             \* of a field
    NoValue,
    Seeds,              \* the defaults get_prefill_by_product gives
    MaxDrafts,          \* bound: drafts ever made
    MaxSystems,         \* bound: systems registered
    MaxReloads,         \* bound: pages loaded again
    MaxUnderWay         \* bound: messages under way

Fields == DerivedFields \cup CatalogueFields

ASSUME IntakeWizardAssumption ==
    /\ DerivedFields \cap CatalogueFields = {}
    /\ FactKeys \cap Fields = {}
    /\ NoValue \notin Values /\ NoPage \notin Pages
    /\ Seeds \in [Fields -> Values]
    /\ {MaxDrafts, MaxSystems, MaxReloads, MaxUnderWay} \subseteq Nat

VARIABLES
    page,       \* the WizardState of every page
    clicked,    \* what the user has confirmed in a page, with its value (history)
    wire,       \* requests and answers under way
    draft,      \* the user's draft row
    draftsMade,
    reloads,
    systems     \* the registered systems, by number

wizardVars == <<page, clicked, wire, draft, draftsMade, reloads, systems>>
serverVars == <<draft, draftsMade, systems>>

Steps == {"drill-down", "intake", "prefill", "use-case", "registered"}
Bases == {"none", "derived", "catalogue", "user-set"}
Provenances == {"none", "USER_CONFIRMED", "USER_AMENDED"}

\* The part of a page toDraftBlob saves.
Forms == [step : Steps \ {"registered"}, value : [Fields -> Values \cup {NoValue}]]

\* draft_blob = {} restores the first step.
EmptyForm == [step |-> "drill-down", value |-> [f \in Fields |-> NoValue]]

Drafts == [id : 1 .. MaxDrafts, blob : Forms]
NoDraft == [id |-> 0, blob |-> EmptyForm]

(***************************************************************************)
(* A page: its form, the basis of every field (none until it is seeded),   *)
(* what is confirmed, the facts as the review left them, the draft it      *)
(* knows (0: none), whether the front door is resolved, the draft the      *)
(* front door offers, whether the defaults have come (seeded), and whether *)
(* a registration is pending.                                              *)
(***************************************************************************)
PageStates ==
    [step : Steps, value : [Fields -> Values \cup {NoValue}],
     basis : [Fields -> Bases], confirmed : SUBSET Fields,
     factsConfirmed : SUBSET FactKeys, factsAmended : SUBSET FactKeys,
     draftId : 0 .. MaxDrafts, resolved : BOOLEAN, offer : Drafts \cup {NoDraft},
     seeded : BOOLEAN, isPending : BOOLEAN]

initialWizardState ==
    [step |-> "drill-down", value |-> [f \in Fields |-> NoValue],
     basis |-> [f \in Fields |-> "none"], confirmed |-> {},
     factsConfirmed |-> {}, factsAmended |-> {}, draftId |-> 0,
     resolved |-> FALSE, offer |-> NoDraft, seeded |-> FALSE, isPending |-> FALSE]

FormOf(s, step) ==
    [step |-> step, value |-> s.value]

\* The steps are shown once the front door offers no draft.
Shows(t, step) == page[t].step = step /\ page[t].offer = NoDraft

-----------------------------------------------------------------------------
(***************************************************************************)
(* Messages.  to is the page that waits for the answer, NoPage once it is  *)
(* closed or loaded again.                                                 *)
(***************************************************************************)
Message(kind, to, id, form) == [kind |-> kind, to |-> to, id |-> id, form |-> form]

Registration(t) ==
    [kind |-> "register", to |-> t, id |-> page[t].draftId,
     form |-> FormOf(page[t], "use-case"), confirmed |-> page[t].confirmed,
     factsConfirmed |-> page[t].factsConfirmed, factsAmended |-> page[t].factsAmended,
     clicked |-> clicked[t]]

Send(m) == Cardinality(wire) < MaxUnderWay /\ wire' = wire \cup {m}

\* persistTransition: create the draft first, or save what is there now.
Persist(t, step) ==
    LET form == FormOf(page'[t], step) IN
    Send(IF page[t].draftId = 0 THEN Message("create", t, 0, form)
         ELSE Message("patch", NoPage, page[t].draftId, form))

WizardInit ==
    /\ page = [t \in Pages |-> initialWizardState]
    /\ clicked = [t \in Pages |-> {}]
    /\ wire = {}
    /\ draft = NoDraft /\ draftsMade = 0
    /\ reloads = 0
    /\ systems = [i \in {} |-> 0]

-----------------------------------------------------------------------------
(***************************************************************************)
(* The front door.                                                         *)
(***************************************************************************)
\* An answer to GET /draft-registrations/active, while nothing is resolved.
OfferDraft(t) ==
    /\ ~page[t].resolved /\ draft # NoDraft /\ page[t].offer # draft
    /\ page[t].step # "registered"
    /\ page' = [page EXCEPT ![t].offer = draft]
    /\ UNCHANGED <<clicked, wire, serverVars, reloads>>

\* RESUME_FROM_DRAFT.
Restore(s, d) ==
    [initialWizardState EXCEPT
        !.step = d.blob.step, !.value = d.blob.value,
        !.draftId = d.id, !.resolved = TRUE]

ResumeFromDraft(t) ==
    /\ page[t].offer # NoDraft
    /\ page' = [page EXCEPT ![t] = Restore(page[t], page[t].offer)]
    /\ clicked' = [clicked EXCEPT ![t] = {}]
    /\ UNCHANGED <<wire, serverVars, reloads>>

AskDiscard(t) ==
    /\ page[t].offer # NoDraft
    /\ Send(Message("discard", t, page[t].offer.id, EmptyForm))
    /\ UNCHANGED <<page, clicked, serverVars, reloads>>

-----------------------------------------------------------------------------
(***************************************************************************)
(* The steps.                                                              *)
(***************************************************************************)
DrillDownComplete(t) ==
    /\ Shows(t, "drill-down")
    /\ page' = [page EXCEPT ![t].step = "intake"]
    /\ Persist(t, "intake")
    /\ UNCHANGED <<clicked, serverVars, reloads>>

\* SEED_INTAKE: the defaults fill what is empty and the bases are derived
\* by comparing the values with them.
Seeded(s) ==
    LET filled == [f \in Fields |-> IF s.value[f] = NoValue THEN Seeds[f] ELSE s.value[f]]
    IN [s EXCEPT !.value = filled, !.seeded = TRUE,
                 !.basis = [f \in Fields |->
                     IF filled[f] # Seeds[f] THEN "user-set"
                     ELSE IF f \in DerivedFields THEN "derived" ELSE "catalogue"]]

\* The answer of the prefill query comes; it may not come for long.
SeedIntake(t) ==
    /\ page[t].step # "drill-down" /\ ~page[t].seeded /\ page[t].step # "registered"
    /\ page' = [page EXCEPT ![t] = Seeded(page[t])]
    /\ UNCHANGED <<clicked, wire, serverVars, reloads>>

\* Bug: an edited field stays confirmed.
EditKeepingConfirmed(s, f, v) ==
    [s EXCEPT !.value[f] = v,
              !.basis[f] = IF s.seeded THEN "user-set" ELSE @]

\* SET_INTAKE_FIELD.
Edit(s, f, v) ==
    [s EXCEPT !.value[f] = v, !.confirmed = @ \ {f},
              !.basis[f] = IF s.seeded THEN "user-set" ELSE @]

\* The use-case step shows the derived fields only, while they are derived.
Editable(t, f) ==
    \/ Shows(t, "intake")
    \/ Shows(t, "use-case") /\ page[t].basis[f] = "derived"

SetIntakeField(t, f, v) ==
    /\ Editable(t, f) /\ v # page[t].value[f]
    /\ page' = [page EXCEPT ![t] = Edit(page[t], f, v)]
    /\ UNCHANGED <<clicked, wire, serverVars, reloads>>

ConfirmIntakeField(t, f) ==
    /\ Shows(t, "intake") \/ Shows(t, "use-case")
    /\ page[t].basis[f] = "derived" /\ f \notin page[t].confirmed
    /\ page' = [page EXCEPT ![t].confirmed = @ \cup {f}]
    /\ clicked' = [clicked EXCEPT ![t] = @ \cup {<<f, page[t].value[f]>>}]
    /\ UNCHANGED <<wire, serverVars, reloads>>

derivedUnconfirmed(s) == {f \in DerivedFields : s.basis[f] = "derived"} \ s.confirmed

IntakeDone(t) ==
    /\ Shows(t, "intake") /\ derivedUnconfirmed(page[t]) = {}
    /\ page' = [page EXCEPT ![t].step = "prefill"]
    /\ Persist(t, "prefill")
    /\ UNCHANGED <<clicked, serverVars, reloads>>

\* The review of the facts: what is not amended is confirmed.  Without facts
\* to show, and when reading them failed, there is nothing to review.
PrefillDone(t) ==
    /\ Shows(t, "prefill")
    /\ \E facts \in {{}} \cup {K \in {FactKeys} : page[t].seeded} :
       \E amended \in SUBSET facts :
          /\ page' = [page EXCEPT ![t].step = "use-case",
                         ![t].factsConfirmed = facts \ amended, ![t].factsAmended = amended]
          /\ clicked' = [clicked EXCEPT ![t] = @ \cup {<<k, NoValue>> : k \in facts \ amended}]
    /\ Persist(t, "use-case")
    /\ UNCHANGED <<serverVars, reloads>>

\* The form of the use-case step waits for the bases.
FormShown(t) == Shows(t, "use-case") /\ page[t].seeded

CanRegister(t) == FormShown(t) /\ derivedUnconfirmed(page[t]) = {} /\ ~page[t].isPending

ReviewFacts(t) ==
    /\ FormShown(t) /\ derivedUnconfirmed(page[t]) # {}
    /\ page' = [page EXCEPT ![t].step = "prefill"]
    /\ UNCHANGED <<clicked, wire, serverVars, reloads>>

Register(t) ==
    /\ CanRegister(t)
    /\ page' = [page EXCEPT ![t].isPending = TRUE]
    /\ Send(Registration(t))
    /\ UNCHANGED <<clicked, serverVars, reloads>>

-----------------------------------------------------------------------------
(***************************************************************************)
(* The server handles a request: one transaction.                          *)
(***************************************************************************)
Answer(m, answers) == wire' = (wire \ {m}) \cup {a \in answers : a.to # NoPage}

\* get_or_create_draft: the unique row of the user.
get_or_create_draft(m) ==
    /\ m.kind = "create"
    /\ IF draft # NoDraft
       THEN /\ Answer(m, {Message("created", m.to, draft.id, m.form)})
            /\ UNCHANGED serverVars
       ELSE /\ draftsMade < MaxDrafts
            /\ draftsMade' = draftsMade + 1
            /\ draft' = [id |-> draftsMade + 1, blob |-> EmptyForm]
            /\ Answer(m, {Message("created", m.to, draftsMade + 1, m.form)})
            /\ UNCHANGED systems
    /\ UNCHANGED <<page, clicked, reloads>>

\* Bug: a PATCH makes the row it does not find.
PatchMakingRow(d, id, blob) == [id |-> id, blob |-> blob]

\* The row after a PATCH: 404 leaves it alone.
Patched(d, id, blob) == IF d.id = id THEN [d EXCEPT !.blob = blob] ELSE d

patch_draft(m) ==
    /\ m.kind = "patch"
    /\ draft' = Patched(draft, m.id, m.form)
    /\ Answer(m, {})
    /\ UNCHANGED <<page, clicked, draftsMade, systems, reloads>>

Without(d, id) == IF d.id = id THEN NoDraft ELSE d

discard_draft(m) ==
    /\ m.kind = "discard"
    /\ draft' = Without(draft, m.id)
    /\ Answer(m, IF draft.id = m.id THEN {Message("discarded", m.to, m.id, EmptyForm)} ELSE {})
    /\ UNCHANGED <<page, clicked, draftsMade, systems, reloads>>

-----------------------------------------------------------------------------
(***************************************************************************)
(* POST /registrations.  The server compares what is submitted with the    *)
(* defaults it computes now.                                               *)
(***************************************************************************)
Submitted(r) == {f \in Fields : r.form.value[f] # NoValue}

undispositioned(r) ==
    {f \in DerivedFields \cap Submitted(r) :
        r.form.value[f] = Seeds[f] /\ f \notin r.confirmed}

Confirms(r, f) ==
    IF f \in DerivedFields THEN f \in r.confirmed ELSE r.form.value[f] = Seeds[f]

\* _dispose_intake_prefill and _dispose_fact_prefill.
Dispositions(r) ==
    [x \in Fields \cup FactKeys |->
        CASE x \in r.factsConfirmed     -> "USER_CONFIRMED"
          [] x \in r.factsAmended       -> "USER_AMENDED"
          [] x \in Submitted(r)         -> IF Confirms(r, x) THEN "USER_CONFIRMED"
                                           ELSE "USER_AMENDED"
          [] OTHER                      -> "none"]

\* The pages are in use until the last system the bound allows is registered.
InUse == Cardinality(DOMAIN systems) < MaxSystems

\* The system row and its prefill_disposition rows.
SystemOf(r) == [value |-> r.form.value, provenance |-> Dispositions(r)]

register(m) ==
    /\ m.kind = "register"
    /\ IF undispositioned(m) # {}
       THEN /\ Answer(m, {Message("refused", m.to, m.id, EmptyForm)})
            /\ UNCHANGED serverVars
       ELSE /\ InUse
            /\ systems' = [i \in 1 .. Cardinality(DOMAIN systems) + 1 |->
                              IF i \in DOMAIN systems THEN systems[i] ELSE SystemOf(m)]
            /\ draft' = Without(draft, m.id)
            /\ Answer(m, {Message("registered", m.to, m.id, EmptyForm)})
            /\ UNCHANGED draftsMade
    /\ UNCHANGED <<page, clicked, reloads>>

\* A field that update_system changes is USER_AMENDED from then on.
Amend(s, f, v) ==
    [s EXCEPT !.value[f] = v, !.provenance[f] = "USER_AMENDED"]

update_system(i, f, v) ==
    /\ systems[i].value[f] # v
    /\ systems' = [systems EXCEPT ![i] = Amend(systems[i], f, v)]
    /\ UNCHANGED <<page, clicked, wire, draft, draftsMade, reloads>>

-----------------------------------------------------------------------------
(***************************************************************************)
(* Answers come to the page that waits for them.                           *)
(***************************************************************************)
\* DRAFT_CREATED resolves the front door: an offer is shown no longer.  The
\* PATCH that follows goes to the draft the page knew before, and to nobody
\* if it knew none.
DraftCreated(m) ==
    /\ m.kind = "created"
    /\ page' = [page EXCEPT ![m.to].draftId = m.id, ![m.to].resolved = TRUE,
                            ![m.to].offer = NoDraft]
    /\ wire' = (wire \ {m}) \cup
          {p \in {Message("patch", NoPage, page[m.to].draftId, m.form)} : p.id # 0}
    /\ UNCHANGED <<clicked, serverVars, reloads>>

\* DRAFT_DISCARDED.
DraftDiscarded(m) ==
    /\ m.kind = "discarded"
    /\ page' = [page EXCEPT ![m.to] = [initialWizardState EXCEPT !.resolved = TRUE]]
    /\ clicked' = [clicked EXCEPT ![m.to] = {}]
    /\ wire' = wire \ {m}
    /\ UNCHANGED <<serverVars, reloads>>

\* Bug: an error leaves the registration pending.
SettledBySuccess(s, kind) ==
    IF kind = "registered"
    THEN [s EXCEPT !.isPending = FALSE, !.step = "registered", !.draftId = 0] ELSE s

Settled(s, kind) ==
    IF kind = "registered"
    THEN [s EXCEPT !.isPending = FALSE, !.step = "registered", !.draftId = 0]
    ELSE [s EXCEPT !.isPending = FALSE]

\* REGISTERED, or the error of the mutation.
Registered(m) ==
    /\ m.kind \in {"registered", "refused"}
    /\ page' = [page EXCEPT ![m.to] = Settled(page[m.to], m.kind)]
    /\ wire' = wire \ {m}
    /\ UNCHANGED <<clicked, serverVars, reloads>>

\* A request or an answer is lost; the page that waits reads an error.
Lose(m) ==
    /\ wire' = wire \ {m}
    /\ page' = IF m.to # NoPage /\ m.kind \in {"register", "registered", "refused"}
               THEN [page EXCEPT ![m.to] = Settled(@, "error")] ELSE page
    /\ UNCHANGED <<clicked, serverVars, reloads>>

\* The page is loaded again: its requests are under way, their answers are not awaited.
Reload(t) ==
    /\ reloads < MaxReloads
    /\ reloads' = reloads + 1
    /\ page' = [page EXCEPT ![t] = initialWizardState]
    /\ clicked' = [clicked EXCEPT ![t] = {}]
    /\ wire' = {IF m.to = t THEN [m EXCEPT !.to = NoPage] ELSE m :
                  m \in {n \in wire : n.to = t =>
                            n.kind \in {"create", "discard", "register"}}}
    /\ UNCHANGED <<serverVars>>

-----------------------------------------------------------------------------
User(t) ==
    \/ OfferDraft(t) \/ ResumeFromDraft(t) \/ AskDiscard(t)
    \/ DrillDownComplete(t) \/ SeedIntake(t) \/ IntakeDone(t) \/ PrefillDone(t)
    \/ ReviewFacts(t) \/ Register(t) \/ Reload(t)
    \/ \E f \in Fields : ConfirmIntakeField(t, f) \/ \E v \in Values : SetIntakeField(t, f, v)

Deliver(m) ==
    \/ get_or_create_draft(m) \/ patch_draft(m) \/ discard_draft(m) \/ register(m)
    \/ DraftCreated(m) \/ DraftDiscarded(m) \/ Registered(m) \/ Lose(m)

WizardNext ==
    \/ InUse /\ \E t \in Pages : User(t)
    \/ \E m \in wire : Deliver(m)
    \/ \E i \in DOMAIN systems, f \in Fields, v \in Values : update_system(i, f, v)

WizardSpec == WizardInit /\ [][WizardNext]_wizardVars

-----------------------------------------------------------------------------
(***************************************************************************)
(* Properties.                                                             *)
(***************************************************************************)
\* Types of the pages and the rows, and who waits for which answer.
WizardTypeOK ==
    /\ page \in [Pages -> PageStates]
    /\ draft \in Drafts \cup {NoDraft} /\ draftsMade \in 0 .. MaxDrafts
    /\ \A i \in DOMAIN systems :
          /\ systems[i].value \in [Fields -> Values \cup {NoValue}]
          /\ systems[i].provenance \in [Fields \cup FactKeys -> Provenances]
    /\ \A t \in Pages : page[t].isPending =>
          \E m \in wire : m.to = t /\ m.kind \in {"register", "registered", "refused"}

(***************************************************************************)
(* No confirmation is made up: a derived default or a fact that goes on    *)
(* record as USER_CONFIRMED was confirmed by the user in the page that     *)
(* registers it, since the page was loaded or resumed, at the value the    *)
(* system gets; and a later update of the value takes it off that record.  *)
(***************************************************************************)
Confirmed(system) ==
    {x \in DerivedFields \cup FactKeys : system.provenance[x] = "USER_CONFIRMED"}

ValueOf(system, x) == IF x \in FactKeys THEN NoValue ELSE system.value[x]

ConfirmationIsGenuine ==
    [][\A i \in DOMAIN systems' : \A x \in Confirmed(systems'[i]) :
          IF i \in DOMAIN systems THEN ValueOf(systems'[i], x) = ValueOf(systems[i], x)
          ELSE \E m \in wire \ wire' :
                  m.kind = "register" /\ <<x, ValueOf(systems'[i], x)>> \in m.clicked]_wizardVars

(***************************************************************************)
(* A draft that a registration used up, or the user discarded, never comes *)
(* back, whatever saves of other pages are still under way: a draft row    *)
(* that appears is a new one.                                              *)
(***************************************************************************)
SpentDraftStaysSpent ==
    [][draft'.id \in {0, draft.id} \/ draft'.id > draftsMade]_wizardVars

(***************************************************************************)
(* INV-83: the page and the server agree on what still has to be           *)
(* confirmed; a registration the page enables is not refused for it.       *)
(***************************************************************************)
EnabledRegisterIsAccepted ==
    \A t \in Pages : CanRegister(t) => undispositioned(Registration(t)) = {}
=============================================================================
