---------------------------- MODULE WizardProofs ----------------------------
(***************************************************************************)
(* Theorems about the registration wizard (IntakeWizard): no confirmation  *)
(* is made up, a spent draft stays spent, and whatever is pending is       *)
(* waited for.  For any number of pages, fields, facts, drafts and         *)
(* messages under way, and whatever is lost or overtaken.                  *)
(*                                                                         *)
(* The record rests on the request and the request on the page: a page     *)
(* holds as confirmed only what was clicked in it at the value it shows    *)
(* now (Earned), and a registration carries the page's claims together     *)
(* with its clicks (Sealed), so that they still agree when it arrives,     *)
(* whatever became of the page.                                            *)
(***************************************************************************)
EXTENDS IntakeWizard, TLAPS

-----------------------------------------------------------------------------
(***************************************************************************)
(* The inductive invariant.                                                *)
(***************************************************************************)
Given == Values \cup {NoValue}
Clicks == (Fields \cup FactKeys) \X Given

AnswerKinds == {"created", "discarded", "registered", "refused"}
PlainKinds == {"create", "patch", "discard"} \cup AnswerKinds
PendingKinds == {"register", "registered", "refused"}

Plain == [kind : PlainKinds, to : Pages \cup {NoPage}, id : 0 .. MaxDrafts, form : Forms]

Registrations ==
    [kind : {"register"}, to : Pages \cup {NoPage}, id : 0 .. MaxDrafts, form : Forms,
     confirmed : SUBSET Fields, factsConfirmed : SUBSET FactKeys,
     factsAmended : SUBSET FactKeys, clicked : SUBSET Clicks]

\* What a page claims, the user clicked in it, at the value it shows now;
\* before the defaults have come there is nothing to confirm.
Earned(s, c) ==
    /\ \A f \in s.confirmed : <<f, s.value[f]>> \in c
    /\ \A x \in s.factsConfirmed : <<x, NoValue>> \in c
    /\ ~s.seeded => s.confirmed = {} /\ \A f \in Fields : s.basis[f] = "none"

\* The claims of a registration agree with the clicks it was sent with.
Sealed(m) ==
    /\ \A f \in m.confirmed : <<f, m.form.value[f]>> \in m.clicked
    /\ \A x \in m.factsConfirmed : <<x, NoValue>> \in m.clicked

\* Answers have a page to come to, and a save names the row it saves.
Addressed(m) ==
    /\ m.kind \in AnswerKinds => m.to \in Pages
    /\ m.kind = "patch" => m.id # 0

PagesHold ==
    /\ page \in [Pages -> PageStates]
    /\ clicked \in [Pages -> SUBSET Clicks]
    /\ \A t \in Pages : Earned(page[t], clicked[t])

Fit(m) ==
    \/ m \in Plain /\ Addressed(m)
    \/ m \in Registrations /\ Sealed(m)

AllFit(S) == \A m \in S : Fit(m)

WireHolds == AllFit(wire)

RowsHold ==
    /\ draft \in Drafts \cup {NoDraft} /\ draftsMade \in 0 .. MaxDrafts
    /\ \A i \in DOMAIN systems :
          /\ systems[i].value \in [Fields -> Given]
          /\ systems[i].provenance \in [Fields \cup FactKeys -> Provenances]

Awaits(t, W) == \E m \in W : m.to = t /\ m.kind \in PendingKinds

Waited == \A t \in Pages : page[t].isPending => Awaits(t, wire)

WizardInv == PagesHold /\ WireHolds /\ RowsHold /\ Waited

-----------------------------------------------------------------------------
(***************************************************************************)
(* Forms, messages and pages.                                              *)
(***************************************************************************)
\* The empty form is a form, and a page just loaded claims nothing.
LEMMA FreshTypes ==
    /\ EmptyForm \in Forms
    /\ initialWizardState \in PageStates
    /\ Earned(initialWizardState, {})
    /\ ~initialWizardState.isPending
<1>1. EmptyForm \in Forms
  BY DEF EmptyForm, Forms, Steps
<1>2. initialWizardState \in PageStates
  <2>1. [f \in Fields |-> "none"] \in [Fields -> Bases]
    BY DEF Bases
  <2>2. [f \in Fields |-> NoValue] \in [Fields -> Values \cup {NoValue}]
    OBVIOUS
  <2> QED
    BY <2>1, <2>2, IntakeWizardAssumption DEF initialWizardState, PageStates, Steps
<1>3. Earned(initialWizardState, {})
  BY DEF Earned, initialWizardState
<1>4. ~initialWizardState.isPending
  BY DEF initialWizardState
<1> QED
  BY <1>1, <1>2, <1>3, <1>4

\* What a page saves is a form.
LEMMA FormOfTypes ==
  ASSUME NEW s \in PageStates, NEW step \in Steps \ {"registered"}
  PROVE  FormOf(s, step) \in Forms
BY DEF FormOf, Forms, PageStates

\* A message sent with a form and an addressee that its kind allows is fit.
LEMMA MessageFits ==
  ASSUME NEW kind \in PlainKinds, NEW to \in Pages \cup {NoPage},
         NEW id \in 0 .. MaxDrafts, NEW form \in Forms,
         kind \in AnswerKinds => to \in Pages,
         kind = "patch" => id # 0
  PROVE  Fit(Message(kind, to, id, form))
BY DEF Fit, Message, Plain, Addressed

\* What any message has.
LEMMA FitTypes ==
  ASSUME NEW m, Fit(m)
  PROVE  /\ m.to \in Pages \cup {NoPage}
         /\ m.id \in 0 .. MaxDrafts
         /\ m.form \in Forms
         /\ m.kind \in AnswerKinds => m.to \in Pages
         /\ m.kind = "patch" => m.id # 0
         /\ m.kind = "register" => m \in Registrations /\ Sealed(m)
BY DEF Fit, Plain, Registrations, Addressed, AnswerKinds, PlainKinds

\* A page that is given a state with what it earned leaves the pages holding.
LEMMA PageSet ==
  ASSUME PagesHold, NEW t \in Pages, NEW s \in PageStates, NEW c \in SUBSET Clicks,
         Earned(s, c),
         page' = [page EXCEPT ![t] = s], clicked' = [clicked EXCEPT ![t] = c]
  PROVE  PagesHold'
<1>1. page' \in [Pages -> PageStates] /\ clicked' \in [Pages -> SUBSET Clicks]
  BY DEF PagesHold
<1>2. ASSUME NEW u \in Pages
      PROVE  Earned(page'[u], clicked'[u])
  <2>1. CASE u = t
    <3>1. page'[u] = s /\ clicked'[u] = c
      BY <2>1 DEF PagesHold
    <3> QED
      BY <3>1
  <2>2. CASE u # t
    <3>1. page'[u] = page[u] /\ clicked'[u] = clicked[u]
      BY <2>2 DEF PagesHold
    <3> QED
      BY <3>1 DEF PagesHold
  <2> QED
    BY <2>1, <2>2
<1> QED
  BY <1>1, <1>2 DEF PagesHold

\* The same when nothing is clicked.
LEMMA PageSetUnclicked ==
  ASSUME PagesHold, NEW t \in Pages, NEW s \in PageStates, Earned(s, clicked[t]),
         page' = [page EXCEPT ![t] = s], clicked' = clicked
  PROVE  PagesHold'
<1>1. clicked' = [clicked EXCEPT ![t] = clicked[t]] /\ clicked[t] \in SUBSET Clicks
  BY DEF PagesHold
<1> QED
  BY <1>1, PageSet

\* A page that is not touched, or only in the parts its claims say nothing of.
LEMMA EarnedSame ==
  ASSUME NEW s, NEW r, NEW c, Earned(s, c),
         r.value = s.value, r.confirmed = s.confirmed,
         r.factsConfirmed = s.factsConfirmed, r.seeded = s.seeded, r.basis = s.basis
  PROVE  Earned(r, c)
BY DEF Earned

\* One message alone.
LEMMA FitAlone ==
  ASSUME NEW m, Fit(m)
  PROVE  AllFit({m})
BY DEF AllFit

\* What is added to the wire must fit, the rest does already.
LEMMA WireGrows ==
  ASSUME WireHolds, NEW S, AllFit(S), wire' \subseteq wire \cup S
  PROVE  WireHolds'
BY DEF WireHolds, AllFit, Fit, Plain, Registrations, Addressed, Sealed

\* A step that takes nothing off the wire and makes no page wait.
LEMMA StillWaited ==
  ASSUME Waited, PagesHold, NEW t \in Pages, NEW s, s.isPending => page[t].isPending,
         page' = [page EXCEPT ![t] = s], wire \subseteq wire'
  PROVE  Waited'
<1> SUFFICES ASSUME NEW u \in Pages, page'[u].isPending
             PROVE  Awaits(u, wire')
  BY DEF Waited
<1>1. page[u].isPending
  <2>1. CASE u = t
    BY <2>1 DEF PagesHold
  <2>2. CASE u # t
    BY <2>2 DEF PagesHold
  <2> QED
    BY <2>1, <2>2
<1> QED
  BY <1>1 DEF Waited, Awaits

\* A message that is taken off the wire, unless the page it was for still waits.
LEMMA TakenOff ==
  ASSUME Waited, NEW m, wire \ {m} \subseteq wire',
         \A u \in Pages : page'[u].isPending => page[u].isPending,
         m.kind \in PendingKinds /\ m.to \in Pages =>
             ~page'[m.to].isPending \/ Awaits(m.to, wire')
  PROVE  Waited'
<1> SUFFICES ASSUME NEW u \in Pages, page'[u].isPending
             PROVE  Awaits(u, wire')
  BY DEF Waited
<1>1. PICK n \in wire : n.to = u /\ n.kind \in PendingKinds
  BY DEF Waited, Awaits
<1>2. CASE n # m
  BY <1>1, <1>2 DEF Awaits
<1>3. CASE n = m
  BY <1>1, <1>3
<1> QED
  BY <1>2, <1>3

-----------------------------------------------------------------------------
(***************************************************************************)
(* The steps of the user, one lemma each.                                  *)
(***************************************************************************)
\* Rows that nobody touches hold.
LEMMA RowsSame ==
  ASSUME RowsHold, UNCHANGED serverVars
  PROVE  RowsHold'
BY DEF RowsHold, serverVars

\* A step of one page that makes nobody wait and sends what fits.
LEMMA UserStep ==
  ASSUME WizardInv, NEW t \in Pages, NEW s \in PageStates, NEW c \in SUBSET Clicks, NEW S,
         Earned(s, c), s.isPending => page[t].isPending,
         page' = [page EXCEPT ![t] = s], clicked' = [clicked EXCEPT ![t] = c],
         AllFit(S), wire' = wire \cup S, UNCHANGED serverVars
  PROVE  WizardInv'
<1>1. PagesHold'
  BY PageSet DEF WizardInv
<1>2. WireHolds'
  BY WireGrows DEF WizardInv
<1>3. RowsHold'
  BY RowsSame DEF WizardInv
<1>4. Waited'
  BY StillWaited DEF WizardInv
<1> QED
  BY <1>1, <1>2, <1>3, <1>4 DEF WizardInv

\* The same when nothing is clicked.
LEMMA QuietUserStep ==
  ASSUME WizardInv, NEW t \in Pages, NEW s \in PageStates, NEW S,
         Earned(s, clicked[t]), s.isPending => page[t].isPending,
         page' = [page EXCEPT ![t] = s], clicked' = clicked,
         AllFit(S), wire' = wire \cup S, UNCHANGED serverVars
  PROVE  WizardInv'
<1>1. clicked' = [clicked EXCEPT ![t] = clicked[t]] /\ clicked[t] \in SUBSET Clicks
  BY DEF WizardInv, PagesHold
<1> QED
  BY <1>1, UserStep

\* What the front door offers is the row of the moment; the page keeps its claims.
LEMMA OfferKeeps ==
  ASSUME WizardInv, NEW t \in Pages, OfferDraft(t)
  PROVE  WizardInv'
<1> DEFINE s == [page[t] EXCEPT !.offer = draft]
<1>1. page[t] \in PageStates /\ Earned(page[t], clicked[t]) /\ draft \in Drafts \cup {NoDraft}
  BY DEF WizardInv, PagesHold, RowsHold
<1>2. s \in PageStates
  BY <1>1 DEF PageStates
<1>3. Earned(s, clicked[t])
  <2>1. /\ s.value = page[t].value /\ s.confirmed = page[t].confirmed
        /\ s.factsConfirmed = page[t].factsConfirmed
        /\ s.seeded = page[t].seeded /\ s.basis = page[t].basis
    BY <1>1 DEF PageStates
  <2> QED
    BY <1>1, <2>1, EarnedSame
<1>4. s.isPending = page[t].isPending
  BY <1>1 DEF PageStates
<1>5. /\ page' = [page EXCEPT ![t] = s] /\ clicked' = clicked
      /\ wire' = wire \cup {} /\ AllFit({}) /\ UNCHANGED serverVars
  BY DEF OfferDraft, serverVars, AllFit
<1> HIDE DEF s
<1> QED
  BY <1>2, <1>3, <1>4, <1>5, QuietUserStep

\* A page that resumes a draft claims nothing of what was confirmed before.
LEMMA ResumeKeeps ==
  ASSUME WizardInv, NEW t \in Pages, ResumeFromDraft(t)
  PROVE  WizardInv'
<1> DEFINE d == page[t].offer
           s == Restore(page[t], d)
<1>1. page[t] \in PageStates /\ d \in Drafts
  BY DEF WizardInv, PagesHold, PageStates, ResumeFromDraft
<1>2. d.id \in 0 .. MaxDrafts /\ d.blob \in Forms
  BY <1>1, IntakeWizardAssumption DEF Drafts
<1>3. initialWizardState \in PageStates
  BY FreshTypes
<1> HIDE DEF d
<1>4. s \in PageStates
  BY <1>2, <1>3 DEF Restore, PageStates, Forms
<1>5. Earned(s, {}) /\ ~s.isPending
  BY DEF Restore, initialWizardState, Earned
<1>6. /\ page' = [page EXCEPT ![t] = s] /\ clicked' = [clicked EXCEPT ![t] = {}]
      /\ wire' = wire \cup {} /\ AllFit({}) /\ UNCHANGED serverVars
  BY DEF ResumeFromDraft, serverVars, d, AllFit
<1> HIDE DEF s
<1> QED
  BY <1>4, <1>5, <1>6, UserStep

\* The user asks to discard what the front door offers.
LEMMA AskDiscardKeeps ==
  ASSUME WizardInv, NEW t \in Pages, AskDiscard(t)
  PROVE  WizardInv'
<1> DEFINE m == Message("discard", t, page[t].offer.id, EmptyForm)
<1>1. page[t] \in PageStates /\ page[t].offer \in Drafts
  BY DEF WizardInv, PagesHold, PageStates, AskDiscard
<1>2. page[t].offer.id \in 0 .. MaxDrafts
  BY <1>1, IntakeWizardAssumption DEF Drafts
<1>3. AllFit({m})
  BY <1>2, FreshTypes, MessageFits, FitAlone DEF PlainKinds, AnswerKinds
<1>4. /\ page' = [page EXCEPT ![t] = page[t]] /\ clicked' = clicked
      /\ wire' = wire \cup {m} /\ UNCHANGED serverVars
  BY DEF AskDiscard, serverVars, Send, WizardInv, PagesHold
<1>5. Earned(page[t], clicked[t])
  BY DEF WizardInv, PagesHold
<1> HIDE DEF m
<1> QED
  BY <1>1, <1>3, <1>4, <1>5, QuietUserStep

\* What a step of the page saves, with the draft or without one, fits.
LEMMA PersistFits ==
  ASSUME WizardInv, NEW t \in Pages, NEW step \in Steps \ {"registered"},
         page'[t] \in PageStates, Persist(t, step)
  PROVE  \E m : AllFit({m}) /\ wire' = wire \cup {m}
<1> DEFINE form == FormOf(page'[t], step)
<1>1. form \in Forms
  BY FormOfTypes
<1>2. page[t].draftId \in 0 .. MaxDrafts
  BY DEF WizardInv, PagesHold, PageStates
<1>3. CASE page[t].draftId = 0
  <2> DEFINE m == Message("create", t, 0, form)
  <2>1. wire' = wire \cup {m}
    BY <1>3 DEF Persist, Send
  <2>2. Fit(m)
    <3>1. 0 \in 0 .. MaxDrafts
      BY IntakeWizardAssumption
    <3> HIDE DEF form
    <3> QED
      BY <3>1, <1>1, MessageFits DEF PlainKinds, AnswerKinds
  <2> QED
    BY <2>1, <2>2, FitAlone
<1>4. CASE page[t].draftId # 0
  <2> DEFINE m == Message("patch", NoPage, page[t].draftId, form)
  <2>1. wire' = wire \cup {m}
    BY <1>4 DEF Persist, Send
  <2>2. Fit(m)
    <3> HIDE DEF form
    <3> QED
      BY <1>1, <1>2, <1>4, MessageFits DEF PlainKinds, AnswerKinds
  <2> QED
    BY <2>1, <2>2, FitAlone
<1> QED
  BY <1>3, <1>4

\* A page that goes to another step keeps its claims.
LEMMA StepKeepsClaims ==
  ASSUME WizardInv, NEW t \in Pages, NEW step \in Steps
  PROVE  /\ [page[t] EXCEPT !.step = step] \in PageStates
         /\ Earned([page[t] EXCEPT !.step = step], clicked[t])
         /\ [page[t] EXCEPT !.step = step].isPending = page[t].isPending
<1> DEFINE s == [page[t] EXCEPT !.step = step]
<1>1. page[t] \in PageStates /\ Earned(page[t], clicked[t])
  BY DEF WizardInv, PagesHold
<1>2. s \in PageStates /\ s.isPending = page[t].isPending
  BY <1>1 DEF PageStates
<1>3. /\ s.value = page[t].value /\ s.confirmed = page[t].confirmed
      /\ s.factsConfirmed = page[t].factsConfirmed
      /\ s.seeded = page[t].seeded /\ s.basis = page[t].basis
  BY <1>1 DEF PageStates
<1> QED
  BY <1>1, <1>2, <1>3, EarnedSame

\* Going on to the next step saves the page.
LEMMA GoOnKeeps ==
  ASSUME WizardInv, NEW t \in Pages, NEW step \in Steps \ {"registered"},
         page' = [page EXCEPT ![t].step = step], Persist(t, step),
         clicked' = clicked, UNCHANGED serverVars
  PROVE  WizardInv'
<1> DEFINE s == [page[t] EXCEPT !.step = step]
<1>1. s \in PageStates /\ Earned(s, clicked[t]) /\ s.isPending = page[t].isPending
  BY StepKeepsClaims
<1>2. page' = [page EXCEPT ![t] = s]
  OBVIOUS
<1> HIDE DEF s
<1>3. page'[t] \in PageStates
  BY <1>1, <1>2 DEF WizardInv, PagesHold
<1>4. PICK m : AllFit({m}) /\ wire' = wire \cup {m}
  BY <1>3, PersistFits
<1> QED
  BY <1>1, <1>2, <1>4, QuietUserStep

\* The defaults come to a page in which nothing is confirmed yet.
LEMMA SeedKeeps ==
  ASSUME WizardInv, NEW t \in Pages, SeedIntake(t)
  PROVE  WizardInv'
<1> DEFINE s == Seeded(page[t])
           filled == [f \in Fields |->
                        IF page[t].value[f] = NoValue THEN Seeds[f] ELSE page[t].value[f]]
           basis == [f \in Fields |->
                        IF filled[f] # Seeds[f] THEN "user-set"
                        ELSE IF f \in DerivedFields THEN "derived" ELSE "catalogue"]
<1>1. page[t] \in PageStates /\ Earned(page[t], clicked[t]) /\ ~page[t].seeded
  BY DEF WizardInv, PagesHold, SeedIntake
<1>2. filled \in [Fields -> Given] /\ basis \in [Fields -> Bases]
  <2>1. page[t].value \in [Fields -> Given]
    BY <1>1 DEF PageStates, Given
  <2>2. filled \in [Fields -> Given]
    BY <2>1, IntakeWizardAssumption DEF Given
  <2>3. basis \in [Fields -> Bases]
    <3> HIDE DEF filled
    <3> QED
      BY DEF Bases
  <2> QED
    BY <2>2, <2>3
<1>3. s = [page[t] EXCEPT !.value = filled, !.seeded = TRUE, !.basis = basis]
  BY DEF Seeded
<1> HIDE DEF s, filled, basis
<1>4. s \in PageStates
  BY <1>1, <1>2, <1>3 DEF PageStates, Given
<1>5. /\ s.confirmed = page[t].confirmed /\ s.factsConfirmed = page[t].factsConfirmed
      /\ s.seeded = TRUE /\ s.isPending = page[t].isPending
  BY <1>1, <1>3 DEF PageStates
<1>6. Earned(s, clicked[t])
  BY <1>1, <1>5 DEF Earned
<1>7. /\ page' = [page EXCEPT ![t] = s] /\ clicked' = clicked
      /\ wire' = wire \cup {} /\ AllFit({}) /\ UNCHANGED serverVars
  BY DEF SeedIntake, serverVars, AllFit, s
<1> QED
  BY <1>4, <1>5, <1>6, <1>7, QuietUserStep

\* An edited field is not confirmed any more, the others are at their values.
LEMMA EditKeeps ==
  ASSUME WizardInv, NEW t \in Pages, NEW f \in Fields, NEW v \in Values,
         SetIntakeField(t, f, v)
  PROVE  WizardInv'
<1> DEFINE s == Edit(page[t], f, v)
           p == page[t]
<1>1. p \in PageStates /\ Earned(p, clicked[t])
  BY DEF WizardInv, PagesHold
<1>2. /\ p.value \in [Fields -> Given] /\ p.basis \in [Fields -> Bases]
      /\ p.confirmed \in SUBSET Fields /\ p.seeded \in BOOLEAN
  BY <1>1 DEF PageStates, Given
<1> HIDE DEF p
<1>3. PICK b \in Bases : (b = IF p.seeded THEN "user-set" ELSE p.basis[f])
  BY <1>2 DEF Bases
<1>4. s = [p EXCEPT !.value = [p.value EXCEPT ![f] = v], !.confirmed = p.confirmed \ {f},
                    !.basis = [p.basis EXCEPT ![f] = b]]
  BY <1>3 DEF Edit, p
<1> HIDE DEF s
<1>5. s \in PageStates
  <2>1. [p.value EXCEPT ![f] = v] \in [Fields -> Given]
    BY <1>2 DEF Given
  <2>2. [p.basis EXCEPT ![f] = b] \in [Fields -> Bases]
    BY <1>2
  <2> QED
    BY <1>1, <1>2, <1>4, <2>1, <2>2 DEF PageStates, Given
<1>6. /\ s.value = [p.value EXCEPT ![f] = v] /\ s.confirmed = p.confirmed \ {f}
      /\ s.basis = [p.basis EXCEPT ![f] = b] /\ s.seeded = p.seeded
      /\ s.factsConfirmed = p.factsConfirmed /\ s.isPending = p.isPending
  BY <1>1, <1>4 DEF PageStates
<1>7. Earned(s, clicked[t])
  <2>1. ASSUME NEW g \in s.confirmed
        PROVE  <<g, s.value[g]>> \in clicked[t]
    <3>1. g \in p.confirmed /\ g # f /\ g \in Fields
      BY <1>2, <1>6
    <3>2. s.value[g] = p.value[g]
      BY <1>2, <1>6, <3>1
    <3> QED
      BY <1>1, <3>1, <3>2 DEF Earned
  <2>2. ~s.seeded => s.confirmed = {} /\ \A g \in Fields : s.basis[g] = "none"
    BY <1>1, <1>2, <1>3, <1>6 DEF Earned
  <2>3. \A x \in s.factsConfirmed : <<x, NoValue>> \in clicked[t]
    BY <1>1, <1>6 DEF Earned
  <2> QED
    BY <2>1, <2>2, <2>3 DEF Earned
<1>8. /\ page' = [page EXCEPT ![t] = s] /\ clicked' = clicked
      /\ wire' = wire \cup {} /\ AllFit({}) /\ UNCHANGED serverVars
  BY DEF SetIntakeField, serverVars, AllFit, s, p
<1>9. s.isPending => page[t].isPending
  BY <1>6 DEF p
<1> QED
  BY <1>5, <1>7, <1>8, <1>9, QuietUserStep

\* What is confirmed is clicked at the value the page shows.
LEMMA ConfirmKeeps ==
  ASSUME WizardInv, NEW t \in Pages, NEW f \in Fields, ConfirmIntakeField(t, f)
  PROVE  WizardInv'
<1> DEFINE p == page[t]
           s == [p EXCEPT !.confirmed = p.confirmed \cup {f}]
           c == clicked[t] \cup {<<f, p.value[f]>>}
<1>1. p \in PageStates /\ Earned(p, clicked[t]) /\ clicked[t] \in SUBSET Clicks
  BY DEF WizardInv, PagesHold
<1>2. p.value \in [Fields -> Given] /\ p.confirmed \in SUBSET Fields
  BY <1>1 DEF PageStates, Given
<1>3. p.basis[f] = "derived"
  BY DEF ConfirmIntakeField
<1>4. /\ page' = [page EXCEPT ![t] = s] /\ clicked' = [clicked EXCEPT ![t] = c]
      /\ wire' = wire \cup {} /\ AllFit({}) /\ UNCHANGED serverVars
  BY DEF ConfirmIntakeField, serverVars, AllFit
<1> HIDE DEF p
<1>5. s \in PageStates
  BY <1>1, <1>2 DEF PageStates
<1>6. /\ s.value = p.value /\ s.confirmed = p.confirmed \cup {f}
      /\ s.factsConfirmed = p.factsConfirmed /\ s.seeded = p.seeded
      /\ s.isPending = p.isPending
  BY <1>1 DEF PageStates
<1>7. c \in SUBSET Clicks
  BY <1>1, <1>2 DEF Clicks
<1>8. s.seeded
  BY <1>1, <1>3, <1>6 DEF Earned
<1> HIDE DEF s
<1>9. Earned(s, c)
  BY <1>1, <1>6, <1>8 DEF Earned
<1>10. s.isPending => page[t].isPending
  BY <1>6 DEF p
<1> HIDE DEF c
<1> QED
  BY <1>4, <1>5, <1>7, <1>9, <1>10, UserStep

\* The review of the facts confirms by a click what it does not amend.
LEMMA ReviewedFactsKeep ==
  ASSUME WizardInv, NEW t \in Pages, PrefillDone(t)
  PROVE  WizardInv'
<1> DEFINE p == page[t]
<1>1. p \in PageStates /\ Earned(p, clicked[t]) /\ clicked[t] \in SUBSET Clicks
  BY DEF WizardInv, PagesHold
<1>2. PICK facts \in {{}} \cup {K \in {FactKeys} : p.seeded} :
      \E amended \in SUBSET facts :
         /\ page' = [page EXCEPT ![t].step = "use-case",
                        ![t].factsConfirmed = facts \ amended, ![t].factsAmended = amended]
         /\ clicked' = [clicked EXCEPT ![t] = @ \cup {<<k, NoValue>> : k \in facts \ amended}]
  BY DEF PrefillDone
<1>3. PICK amended \in SUBSET facts :
         /\ page' = [page EXCEPT ![t].step = "use-case",
                        ![t].factsConfirmed = facts \ amended, ![t].factsAmended = amended]
         /\ clicked' = [clicked EXCEPT ![t] = @ \cup {<<k, NoValue>> : k \in facts \ amended}]
  BY <1>2
<1> DEFINE done == facts \ amended
           s == [p EXCEPT !.step = "use-case", !.factsConfirmed = done,
                          !.factsAmended = amended]
           c == clicked[t] \cup {<<k, NoValue>> : k \in done}
<1>4. page' = [page EXCEPT ![t] = s] /\ clicked' = [clicked EXCEPT ![t] = c]
  BY <1>1, <1>3 DEF WizardInv, PagesHold
<1>5. facts \subseteq FactKeys /\ done \subseteq FactKeys /\ amended \subseteq FactKeys
  BY <1>2
<1> HIDE DEF p, done
<1>6. s \in PageStates
  BY <1>1, <1>5 DEF PageStates, Steps
<1>7. /\ s.value = p.value /\ s.confirmed = p.confirmed /\ s.basis = p.basis
      /\ s.factsConfirmed = done /\ s.seeded = p.seeded /\ s.isPending = p.isPending
  BY <1>1 DEF PageStates
<1>8. c \in SUBSET Clicks
  BY <1>1, <1>5 DEF Clicks, Given
<1> HIDE DEF s
<1>9. Earned(s, c)
  BY <1>1, <1>7 DEF Earned
<1>10. s.isPending => page[t].isPending
  BY <1>7 DEF p
<1> HIDE DEF c
<1>11. page'[t] \in PageStates
  BY <1>4, <1>6 DEF WizardInv, PagesHold
<1>12. PICK m : AllFit({m}) /\ wire' = wire \cup {m}
  BY <1>11, PersistFits DEF PrefillDone, Steps
<1>13. UNCHANGED serverVars
  BY DEF PrefillDone
<1> QED
  BY <1>4, <1>6, <1>8, <1>9, <1>10, <1>12, <1>13, UserStep

\* Going back to the review of the facts.
LEMMA ReviewFactsKeeps ==
  ASSUME WizardInv, NEW t \in Pages, ReviewFacts(t)
  PROVE  WizardInv'
<1> DEFINE s == [page[t] EXCEPT !.step = "prefill"]
<1>1. s \in PageStates /\ Earned(s, clicked[t]) /\ s.isPending = page[t].isPending
  BY StepKeepsClaims DEF Steps
<1>2. /\ page' = [page EXCEPT ![t] = s] /\ clicked' = clicked
      /\ wire' = wire \cup {} /\ AllFit({}) /\ UNCHANGED serverVars
  BY DEF ReviewFacts, serverVars, AllFit
<1> HIDE DEF s
<1> QED
  BY <1>1, <1>2, QuietUserStep

\* A registration carries the claims of the page with its clicks, and the
\* page waits for it.
LEMMA RegisterKeeps ==
  ASSUME WizardInv, NEW t \in Pages, Register(t)
  PROVE  WizardInv'
<1> DEFINE p == page[t]
           s == [p EXCEPT !.isPending = TRUE]
           m == Registration(t)
<1>1. p \in PageStates /\ Earned(p, clicked[t]) /\ clicked[t] \in SUBSET Clicks
  BY DEF WizardInv, PagesHold
<1>2. /\ page' = [page EXCEPT ![t] = s] /\ clicked' = clicked
      /\ wire' = wire \cup {m} /\ UNCHANGED serverVars
  BY DEF Register, Send, serverVars
<1>3. FormOf(p, "use-case") \in Forms /\ FormOf(p, "use-case").value = p.value
  BY <1>1, FormOfTypes DEF Steps, FormOf
<1>4. m \in Registrations
  <2>1. /\ p.draftId \in 0 .. MaxDrafts /\ p.confirmed \in SUBSET Fields
        /\ p.factsConfirmed \in SUBSET FactKeys /\ p.factsAmended \in SUBSET FactKeys
    BY <1>1 DEF PageStates
  <2> QED
    BY <1>1, <1>3, <2>1 DEF Registration, Registrations
<1>5. Sealed(m)
  BY <1>1, <1>3 DEF Sealed, Registration, Earned
<1>6. m.to = t /\ m.kind = "register"
  BY DEF Registration
<1>7. AllFit({m})
  BY <1>4, <1>5, FitAlone DEF Fit
<1> HIDE DEF p, m
<1>8. s \in PageStates
  BY <1>1 DEF PageStates
<1>9. /\ s.value = p.value /\ s.confirmed = p.confirmed /\ s.basis = p.basis
      /\ s.factsConfirmed = p.factsConfirmed /\ s.seeded = p.seeded
  BY <1>1 DEF PageStates
<1> HIDE DEF s
<1>10. Earned(s, clicked[t])
  BY <1>1, <1>9, EarnedSame
<1>11. PagesHold'
  BY <1>2, <1>8, <1>10, PageSetUnclicked DEF WizardInv
<1>12. WireHolds'
  BY <1>2, <1>7, WireGrows DEF WizardInv
<1>13. RowsHold'
  BY <1>2, RowsSame DEF WizardInv
<1>14. Waited'
  <2> SUFFICES ASSUME NEW u \in Pages, page'[u].isPending
               PROVE  Awaits(u, wire')
    BY DEF Waited
  <2>1. CASE u = t
    BY <1>2, <1>6, <2>1 DEF Awaits, PendingKinds
  <2>2. CASE u # t
    <3>1. page'[u] = page[u]
      BY <1>2, <2>2 DEF WizardInv, PagesHold
    <3> QED
      BY <1>2, <3>1 DEF WizardInv, Waited, Awaits
  <2> QED
    BY <2>1, <2>2
<1> QED
  BY <1>11, <1>12, <1>13, <1>14 DEF WizardInv

\* A request whose page is gone fits without an addressee.
LEMMA Orphaned ==
  ASSUME NEW m, Fit(m), m.kind \in {"create", "discard", "register"}
  PROVE  Fit([m EXCEPT !.to = NoPage])
<1> DEFINE n == [m EXCEPT !.to = NoPage]
<1>1. CASE m \in Plain /\ Addressed(m)
  <2>1. n \in Plain /\ n.kind = m.kind /\ n.id = m.id
    BY <1>1 DEF Plain
  <2> QED
    BY <1>1, <2>1 DEF Fit, Addressed, AnswerKinds
<1>2. CASE m \in Registrations /\ Sealed(m)
  <2>1. /\ n \in Registrations /\ n.confirmed = m.confirmed /\ n.form = m.form
        /\ n.factsConfirmed = m.factsConfirmed /\ n.clicked = m.clicked
    BY <1>2 DEF Registrations
  <2> QED
    BY <1>2, <2>1 DEF Fit, Sealed
<1> QED
  BY <1>1, <1>2 DEF Fit

\* A page loaded again claims nothing and waits for nothing; what it has sent
\* goes on without it.
LEMMA ReloadKeeps ==
  ASSUME WizardInv, NEW t \in Pages, Reload(t)
  PROVE  WizardInv'
<1> DEFINE kept == {n \in wire : n.to = t => n.kind \in {"create", "discard", "register"}}
           cut(m) == IF m.to = t THEN [m EXCEPT !.to = NoPage] ELSE m
<1>1. /\ page' = [page EXCEPT ![t] = initialWizardState]
      /\ clicked' = [clicked EXCEPT ![t] = {}]
      /\ wire' = {cut(m) : m \in kept} /\ UNCHANGED serverVars
  BY DEF Reload
<1>2. PagesHold'
  BY <1>1, FreshTypes, PageSet DEF WizardInv
<1>3. ASSUME NEW m \in kept
      PROVE  Fit(cut(m))
  <2>1. Fit(m)
    BY DEF WizardInv, WireHolds, AllFit
  <2>2. CASE m.to = t
    BY <2>1, <2>2, Orphaned
  <2>3. CASE m.to # t
    BY <2>1, <2>3
  <2> QED
    BY <2>2, <2>3
<1>4. WireHolds'
  <2> SUFFICES ASSUME NEW a \in wire'
               PROVE  Fit(a)
    BY DEF WireHolds, AllFit, Fit, Plain, Registrations, Addressed, Sealed
  <2>1. PICK m \in kept : a = cut(m)
    BY <1>1
  <2> HIDE DEF cut, kept
  <2> QED
    BY <1>3, <2>1
<1>5. RowsHold'
  BY <1>1, RowsSame DEF WizardInv
<1>6. Waited'
  <2> SUFFICES ASSUME NEW u \in Pages, page'[u].isPending
               PROVE  Awaits(u, wire')
    BY DEF Waited
  <2>1. u # t
    BY <1>1, FreshTypes DEF WizardInv, PagesHold
  <2>2. page'[u] = page[u]
    BY <1>1, <2>1 DEF WizardInv, PagesHold
  <2>3. PICK n \in wire : n.to = u /\ n.kind \in PendingKinds
    BY <2>2 DEF WizardInv, Waited, Awaits
  <2>4. n \in kept /\ cut(n) = n
    BY <2>1, <2>3
  <2>5. n \in wire'
    BY <1>1, <2>4
  <2> QED
    BY <2>3, <2>5 DEF Awaits
<1> QED
  BY <1>2, <1>4, <1>5, <1>6 DEF WizardInv

\* Whatever the user does in a page.
LEMMA UserKeeps ==
  ASSUME WizardInv, NEW t \in Pages, User(t)
  PROVE  WizardInv'
<1>1. CASE OfferDraft(t)
  BY <1>1, OfferKeeps
<1>2. CASE ResumeFromDraft(t)
  BY <1>2, ResumeKeeps
<1>3. CASE AskDiscard(t)
  BY <1>3, AskDiscardKeeps
<1>4. CASE DrillDownComplete(t)
  BY <1>4, GoOnKeeps DEF DrillDownComplete, Steps
<1>5. CASE SeedIntake(t)
  BY <1>5, SeedKeeps
<1>6. CASE IntakeDone(t)
  BY <1>6, GoOnKeeps DEF IntakeDone, Steps
<1>7. CASE PrefillDone(t)
  BY <1>7, ReviewedFactsKeep
<1>8. CASE ReviewFacts(t)
  BY <1>8, ReviewFactsKeeps
<1>9. CASE Register(t)
  BY <1>9, RegisterKeeps
<1>10. CASE Reload(t)
  BY <1>10, ReloadKeeps
<1>11. ASSUME NEW f \in Fields, ConfirmIntakeField(t, f)
       PROVE  WizardInv'
  BY <1>11, ConfirmKeeps
<1>12. ASSUME NEW f \in Fields, NEW v \in Values, SetIntakeField(t, f, v)
       PROVE  WizardInv'
  BY <1>12, EditKeeps
<1> QED
  BY <1>1, <1>2, <1>3, <1>4, <1>5, <1>6, <1>7, <1>8, <1>9, <1>10, <1>11, <1>12 DEF User

-----------------------------------------------------------------------------
(***************************************************************************)
(* The server handles a request, one lemma per endpoint.                   *)
(***************************************************************************)
\* An answer has a page to come to, or is not sent.
LEMMA AnswerFits ==
  ASSUME NEW m, Fit(m), NEW kind \in AnswerKinds, NEW id \in 0 .. MaxDrafts,
         NEW form \in Forms
  PROVE  AllFit({a \in {Message(kind, m.to, id, form)} : a.to # NoPage})
<1> SUFFICES ASSUME m.to # NoPage
             PROVE  Fit(Message(kind, m.to, id, form))
  BY DEF AllFit, Message
<1>1. m.to \in Pages
  BY FitTypes
<1> QED
  BY <1>1, MessageFits DEF AnswerKinds, PlainKinds

\* A request handled: its answers fit, the rows hold, and a page that waited
\* for it waits for the answer.
LEMMA ServerStep ==
  ASSUME WizardInv, NEW m, NEW A, AllFit(A), UNCHANGED <<page, clicked>>,
         wire' = (wire \ {m}) \cup A, RowsHold',
         m.kind \in PendingKinds /\ m.to \in Pages => Awaits(m.to, A)
  PROVE  WizardInv'
<1>1. PagesHold'
  BY DEF WizardInv, PagesHold
<1>2. WireHolds'
  BY WireGrows DEF WizardInv
<1>3. Waited'
  <2>1. m.kind \in PendingKinds /\ m.to \in Pages => Awaits(m.to, wire')
    BY DEF Awaits
  <2> QED
    BY <2>1, TakenOff DEF WizardInv
<1> QED
  BY <1>1, <1>2, <1>3 DEF WizardInv

\* get_or_create_draft answers with the row there is, or with a new one.
LEMMA CreateKeeps ==
  ASSUME WizardInv, NEW m \in wire, get_or_create_draft(m)
  PROVE  WizardInv'
<1>1. Fit(m) /\ m.kind = "create" /\ m.form \in Forms
  BY FitTypes DEF WizardInv, WireHolds, AllFit, get_or_create_draft
<1>2. CASE draft # NoDraft
  <2> DEFINE A == {a \in {Message("created", m.to, draft.id, m.form)} : a.to # NoPage}
  <2>1. draft.id \in 0 .. MaxDrafts
    BY <1>2, IntakeWizardAssumption DEF WizardInv, RowsHold, Drafts
  <2>2. AllFit(A)
    BY <1>1, <2>1, AnswerFits DEF AnswerKinds
  <2>3. wire' = (wire \ {m}) \cup A /\ UNCHANGED <<page, clicked>> /\ UNCHANGED serverVars
    BY <1>2 DEF get_or_create_draft, Answer
  <2>4. RowsHold'
    BY <2>3, RowsSame DEF WizardInv
  <2> HIDE DEF A
  <2> QED
    BY <1>1, <2>2, <2>3, <2>4, ServerStep DEF PendingKinds
<1>3. CASE draft = NoDraft
  <2> DEFINE id == draftsMade + 1
             A == {a \in {Message("created", m.to, id, m.form)} : a.to # NoPage}
  <2>1. /\ draftsMade < MaxDrafts /\ draftsMade' = id
        /\ draft' = [id |-> id, blob |-> EmptyForm]
        /\ wire' = (wire \ {m}) \cup A /\ UNCHANGED systems
        /\ UNCHANGED <<page, clicked>>
    BY <1>3 DEF get_or_create_draft, Answer
  <2>2. id \in 1 .. MaxDrafts
    BY <2>1, IntakeWizardAssumption DEF WizardInv, RowsHold
  <2>3. id \in 0 .. MaxDrafts
    BY <2>2
  <2> HIDE DEF id
  <2>4. AllFit(A)
    BY <1>1, <2>3, AnswerFits DEF AnswerKinds
  <2>5. RowsHold'
    <3>1. draft' \in Drafts
      BY <2>1, <2>2, FreshTypes DEF Drafts
    <3> QED
      BY <2>1, <2>3, <3>1 DEF WizardInv, RowsHold
  <2> HIDE DEF A
  <2> QED
    BY <1>1, <2>1, <2>4, <2>5, ServerStep DEF PendingKinds
<1> QED
  BY <1>2, <1>3

\* A PATCH saves to the row it names, if it is still there.
LEMMA PatchKeeps ==
  ASSUME WizardInv, NEW m \in wire, patch_draft(m)
  PROVE  WizardInv'
<1>1. m.kind = "patch" /\ m.form \in Forms /\ m.id # 0
  BY FitTypes DEF WizardInv, WireHolds, AllFit, patch_draft
<1>2. /\ draft' = Patched(draft, m.id, m.form) /\ wire' = (wire \ {m}) \cup {}
      /\ UNCHANGED <<page, clicked, draftsMade, systems>>
  BY DEF patch_draft, Answer
<1>3. draft \in Drafts \cup {NoDraft}
  BY DEF WizardInv, RowsHold
<1>4. draft' \in Drafts \cup {NoDraft}
  <2>1. CASE draft.id = m.id
    <3>1. draft \in Drafts
      BY <1>1, <1>3, <2>1 DEF NoDraft
    <3> QED
      BY <1>1, <1>2, <2>1, <3>1 DEF Patched, Drafts
  <2>2. CASE draft.id # m.id
    BY <1>2, <1>3, <2>2 DEF Patched
  <2> QED
    BY <2>1, <2>2
<1>5. RowsHold'
  BY <1>2, <1>4 DEF WizardInv, RowsHold
<1>6. AllFit({})
  BY DEF AllFit
<1> QED
  BY <1>1, <1>2, <1>5, <1>6, ServerStep DEF PendingKinds

\* A discarded draft is a row or none.
LEMMA WithoutTypes ==
  ASSUME NEW d \in Drafts \cup {NoDraft}, NEW id
  PROVE  Without(d, id) \in Drafts \cup {NoDraft}
BY DEF Without

\* discard_draft deletes the row it names, and answers if it did.
LEMMA DiscardKeeps ==
  ASSUME WizardInv, NEW m \in wire, discard_draft(m)
  PROVE  WizardInv'
<1> DEFINE one == {a \in {Message("discarded", m.to, m.id, EmptyForm)} : a.to # NoPage}
           A == IF draft.id = m.id THEN one ELSE {}
<1>1. Fit(m) /\ m.kind = "discard" /\ m.id \in 0 .. MaxDrafts
  BY FitTypes DEF WizardInv, WireHolds, AllFit, discard_draft
<1>2. /\ draft' = Without(draft, m.id) /\ wire' = (wire \ {m}) \cup A
      /\ UNCHANGED <<page, clicked, draftsMade, systems>>
  BY DEF discard_draft, Answer
<1>3. AllFit(one)
  BY <1>1, FreshTypes, AnswerFits DEF AnswerKinds
<1> HIDE DEF one
<1>4. AllFit(A)
  BY <1>3 DEF AllFit
<1>5. RowsHold'
  BY <1>2, WithoutTypes DEF WizardInv, RowsHold
<1> HIDE DEF A
<1> QED
  BY <1>1, <1>2, <1>4, <1>5, ServerStep DEF PendingKinds

\* A page that waits for an answer is sent one.
LEMMA AnswerAwaited ==
  ASSUME NEW to \in Pages, NEW kind \in PendingKinds, NEW id, NEW form
  PROVE  Awaits(to, {a \in {Message(kind, to, id, form)} : a.to # NoPage})
<1> DEFINE a == Message(kind, to, id, form)
<1>1. a.to = to /\ a.kind = kind
  BY DEF Message
<1>2. to # NoPage
  BY IntakeWizardAssumption
<1> HIDE DEF a
<1>3. a \in {b \in {a} : b.to # NoPage}
  BY <1>1, <1>2
<1>4. Awaits(to, {b \in {a} : b.to # NoPage})
  BY <1>1, <1>3 DEF Awaits
<1> QED
  BY <1>4 DEF a

\* The system and the dispositions a registration makes.
LEMMA SystemTypes ==
  ASSUME NEW m \in Registrations
  PROVE  /\ SystemOf(m).value \in [Fields -> Given]
         /\ SystemOf(m).provenance \in [Fields \cup FactKeys -> Provenances]
<1>1. SystemOf(m).value = m.form.value /\ SystemOf(m).provenance = Dispositions(m)
  BY DEF SystemOf
<1>2. m.form.value \in [Fields -> Given]
  BY DEF Registrations, Forms, Given
<1>3. Dispositions(m) \in [Fields \cup FactKeys -> Provenances]
  BY DEF Dispositions, Provenances
<1> QED
  BY <1>1, <1>2, <1>3

\* A registration is refused, or becomes a system and uses its draft up.
LEMMA RegistrationKeeps ==
  ASSUME WizardInv, NEW m \in wire, register(m)
  PROVE  WizardInv'
<1>1. /\ Fit(m) /\ m.kind = "register" /\ m.id \in 0 .. MaxDrafts /\ m \in Registrations
  BY FitTypes DEF WizardInv, WireHolds, AllFit, register
<1>2. CASE undispositioned(m) # {}
  <2> DEFINE A == {a \in {Message("refused", m.to, m.id, EmptyForm)} : a.to # NoPage}
  <2>1. wire' = (wire \ {m}) \cup A /\ UNCHANGED <<page, clicked>> /\ UNCHANGED serverVars
    BY <1>2 DEF register, Answer
  <2>2. AllFit(A)
    BY <1>1, FreshTypes, AnswerFits DEF AnswerKinds
  <2>3. m.to \in Pages => Awaits(m.to, A)
    BY AnswerAwaited DEF PendingKinds
  <2>4. RowsHold'
    BY <2>1, RowsSame DEF WizardInv
  <2> HIDE DEF A
  <2> QED
    BY <2>1, <2>2, <2>3, <2>4, ServerStep
<1>3. CASE undispositioned(m) = {}
  <2> DEFINE A == {a \in {Message("registered", m.to, m.id, EmptyForm)} : a.to # NoPage}
             last == Cardinality(DOMAIN systems) + 1
  <2>1. /\ wire' = (wire \ {m}) \cup A /\ UNCHANGED <<page, clicked>>
        /\ UNCHANGED draftsMade /\ draft' = Without(draft, m.id)
        /\ systems' = [i \in 1 .. last |->
                          IF i \in DOMAIN systems THEN systems[i] ELSE SystemOf(m)]
    BY <1>3 DEF register, Answer
  <2>2. AllFit(A)
    BY <1>1, FreshTypes, AnswerFits DEF AnswerKinds
  <2>3. m.to \in Pages => Awaits(m.to, A)
    BY AnswerAwaited DEF PendingKinds
  <2> HIDE DEF A, last
  <2>4. RowsHold'
    <3>1. ASSUME NEW i \in DOMAIN systems'
          PROVE  /\ systems'[i].value \in [Fields -> Given]
                 /\ systems'[i].provenance \in [Fields \cup FactKeys -> Provenances]
      <4>1. CASE i \in DOMAIN systems
        <5>1. systems'[i] = systems[i]
          BY <2>1, <4>1
        <5> QED
          BY <4>1, <5>1 DEF WizardInv, RowsHold
      <4>2. CASE i \notin DOMAIN systems
        <5>1. systems'[i] = SystemOf(m)
          BY <2>1, <4>2
        <5> QED
          BY <1>1, <5>1, SystemTypes
      <4> QED
        BY <4>1, <4>2
    <3> QED
      BY <2>1, <3>1, WithoutTypes DEF WizardInv, RowsHold
  <2> QED
    BY <2>1, <2>2, <2>3, <2>4, ServerStep
<1> QED
  BY <1>2, <1>3

\* A later update of a system keeps its row a row.
LEMMA UpdateKeeps ==
  ASSUME WizardInv, NEW i \in DOMAIN systems, NEW f \in Fields, NEW v \in Values,
         update_system(i, f, v)
  PROVE  WizardInv'
<1>1. /\ systems' = [systems EXCEPT ![i] = Amend(systems[i], f, v)]
      /\ UNCHANGED <<page, clicked, wire, draft, draftsMade>>
  BY DEF update_system
<1>2. ASSUME NEW j \in DOMAIN systems'
      PROVE  /\ systems'[j].value \in [Fields -> Given]
             /\ systems'[j].provenance \in [Fields \cup FactKeys -> Provenances]
  <2> DEFINE s == systems[i]
             r == Amend(s, f, v)
  <2>1. j \in DOMAIN systems
    BY <1>1
  <2>2. /\ s.value \in [Fields -> Given]
        /\ s.provenance \in [Fields \cup FactKeys -> Provenances]
    BY DEF WizardInv, RowsHold
  <2>3. CASE j = i
    <3>1. systems'[j] = r
      BY <1>1, <2>1, <2>3
    <3>2. r.value = [s.value EXCEPT ![f] = v] \/ r.value = s.value
      BY DEF Amend
    <3>3. \/ r.provenance = [s.provenance EXCEPT ![f] = "USER_AMENDED"]
          \/ r.provenance = s.provenance
      BY DEF Amend
    <3> HIDE DEF s, r
    <3> QED
      BY <2>2, <3>1, <3>2, <3>3 DEF Given, Provenances
  <2>4. CASE j # i
    <3>1. systems'[j] = systems[j]
      BY <1>1, <2>1, <2>4
    <3> QED
      BY <2>1, <3>1 DEF WizardInv, RowsHold
  <2> QED
    BY <2>3, <2>4
<1>3. RowsHold'
  BY <1>1, <1>2 DEF WizardInv, RowsHold
<1>4. PagesHold' /\ WireHolds' /\ Waited'
  BY <1>1 DEF WizardInv, PagesHold, WireHolds, AllFit, Waited
<1> QED
  BY <1>3, <1>4 DEF WizardInv

-----------------------------------------------------------------------------
(***************************************************************************)
(* Answers come to their page, or are lost.                                *)
(***************************************************************************)
\* A message that has come: it changes the page it was for, which waits no
\* longer if it was what the page waited for.
LEMMA ArrivalStep ==
  ASSUME WizardInv, NEW m, NEW t \in Pages, NEW s \in PageStates, NEW c \in SUBSET Clicks,
         NEW A, Earned(s, c), s.isPending => page[t].isPending,
         page' = [page EXCEPT ![t] = s], clicked' = [clicked EXCEPT ![t] = c],
         AllFit(A), wire' = (wire \ {m}) \cup A, UNCHANGED serverVars,
         m.kind \in PendingKinds => m.to = t /\ ~s.isPending
  PROVE  WizardInv'
<1>1. PagesHold'
  BY PageSet DEF WizardInv
<1>2. WireHolds'
  BY WireGrows DEF WizardInv
<1>3. RowsHold'
  BY RowsSame DEF WizardInv
<1>4. Waited'
  <2>1. ASSUME NEW u \in Pages, page'[u].isPending
        PROVE  page[u].isPending
    <3>1. CASE u = t
      BY <2>1, <3>1 DEF WizardInv, PagesHold
    <3>2. CASE u # t
      BY <2>1, <3>2 DEF WizardInv, PagesHold
    <3> QED
      BY <3>1, <3>2
  <2>2. page'[t] = s
    BY DEF WizardInv, PagesHold
  <2>3. m.kind \in PendingKinds /\ m.to \in Pages =>
            ~page'[m.to].isPending \/ Awaits(m.to, wire')
    BY <2>2
  <2> QED
    BY <2>1, <2>3, TakenOff DEF WizardInv
<1> QED
  BY <1>1, <1>2, <1>3, <1>4 DEF WizardInv

\* The page learns its draft, and saves to the one it knew before.
LEMMA CreatedKeeps ==
  ASSUME WizardInv, NEW m \in wire, DraftCreated(m)
  PROVE  WizardInv'
<1> DEFINE t == m.to
           p == page[t]
           s == [p EXCEPT !.draftId = m.id, !.resolved = TRUE, !.offer = NoDraft]
           old == p.draftId
           A == {n \in {Message("patch", NoPage, old, m.form)} : n.id # 0}
<1>1. /\ m.kind = "created" /\ m.id \in 0 .. MaxDrafts /\ m.form \in Forms /\ t \in Pages
  BY FitTypes DEF WizardInv, WireHolds, AllFit, DraftCreated, AnswerKinds
<1>2. /\ p \in PageStates /\ Earned(p, clicked[t]) /\ clicked[t] \in SUBSET Clicks
      /\ clicked' = [clicked EXCEPT ![t] = clicked[t]]
  BY <1>1 DEF WizardInv, PagesHold, DraftCreated
<1>3. /\ page' = [page EXCEPT ![t] = s]
      /\ wire' = (wire \ {m}) \cup A /\ UNCHANGED serverVars
  BY <1>1 DEF DraftCreated, WizardInv, PagesHold
<1> HIDE DEF t, p
<1>4. old \in 0 .. MaxDrafts
  BY <1>2 DEF PageStates
<1>5. s \in PageStates
  BY <1>1, <1>2 DEF PageStates
<1>6. /\ s.value = p.value /\ s.confirmed = p.confirmed /\ s.basis = p.basis
      /\ s.factsConfirmed = p.factsConfirmed /\ s.seeded = p.seeded
      /\ s.isPending = p.isPending
  BY <1>2 DEF PageStates
<1> HIDE DEF s, old
<1>7. Earned(s, clicked[t])
  BY <1>2, <1>6, EarnedSame
<1>8. AllFit(A)
  <2> SUFFICES ASSUME old # 0
               PROVE  Fit(Message("patch", NoPage, old, m.form))
    BY DEF AllFit, Message
  <2> QED
    BY <1>1, <1>4, MessageFits DEF PlainKinds, AnswerKinds
<1>9. s.isPending => page[t].isPending
  BY <1>6 DEF p
<1> HIDE DEF A
<1> QED
  BY <1>1, <1>2, <1>3, <1>5, <1>7, <1>8, <1>9, ArrivalStep DEF PendingKinds

\* The page of a discarded draft starts again, with nothing confirmed.
LEMMA DiscardedKeeps ==
  ASSUME WizardInv, NEW m \in wire, DraftDiscarded(m)
  PROVE  WizardInv'
<1> DEFINE t == m.to
           s == [initialWizardState EXCEPT !.resolved = TRUE]
<1>1. m.kind = "discarded" /\ t \in Pages
  BY FitTypes DEF WizardInv, WireHolds, AllFit, DraftDiscarded, AnswerKinds
<1>2. /\ page' = [page EXCEPT ![t] = s] /\ clicked' = [clicked EXCEPT ![t] = {}]
      /\ wire' = (wire \ {m}) \cup {} /\ UNCHANGED serverVars
  BY DEF DraftDiscarded
<1>3. s \in PageStates /\ ~s.isPending
  BY FreshTypes DEF PageStates
<1>4. Earned(s, {})
  BY DEF initialWizardState, Earned
<1>5. AllFit({})
  BY DEF AllFit
<1> HIDE DEF t, s
<1> QED
  BY <1>1, <1>2, <1>3, <1>4, <1>5, ArrivalStep DEF PendingKinds

\* A registration settled: the page waits no longer and keeps its claims.
LEMMA SettledTypes ==
  ASSUME NEW s \in PageStates, NEW c, Earned(s, c), NEW kind
  PROVE  /\ Settled(s, kind) \in PageStates
         /\ Earned(Settled(s, kind), c)
         /\ ~Settled(s, kind).isPending
<1> DEFINE r == Settled(s, kind)
<1>1. r \in PageStates /\ ~r.isPending
  <2>1. CASE kind = "registered"
    <3>1. r = [s EXCEPT !.isPending = FALSE, !.step = "registered", !.draftId = 0]
      BY <2>1 DEF Settled
    <3>2. 0 \in 0 .. MaxDrafts
      BY IntakeWizardAssumption
    <3> HIDE DEF r
    <3>3. r \in PageStates
      BY <3>1, <3>2 DEF PageStates, Steps
    <3>4. r.isPending = FALSE
      BY <3>1 DEF PageStates
    <3> QED
      BY <3>3, <3>4
  <2>2. CASE kind # "registered"
    <3>1. r = [s EXCEPT !.isPending = FALSE]
      BY <2>2 DEF Settled
    <3> HIDE DEF r
    <3> QED
      BY <3>1 DEF PageStates
  <2> QED
    BY <2>1, <2>2
<1>2. /\ r.value = s.value /\ r.confirmed = s.confirmed /\ r.basis = s.basis
      /\ r.factsConfirmed = s.factsConfirmed /\ r.seeded = s.seeded
  BY DEF Settled, PageStates
<1>3. Earned(r, c)
  BY <1>2, EarnedSame
<1> QED
  BY <1>1, <1>3

\* An answer to a registration, or its error, settles the page that waits.
LEMMA SettlementKeeps ==
  ASSUME WizardInv, NEW m \in wire, NEW kind, m.to \in Pages,
         page' = [page EXCEPT ![m.to] = Settled(page[m.to], kind)],
         wire' = wire \ {m}, UNCHANGED clicked, UNCHANGED serverVars
  PROVE  WizardInv'
<1> DEFINE t == m.to
           s == Settled(page[t], kind)
<1>1. /\ page[t] \in PageStates /\ Earned(page[t], clicked[t]) /\ clicked[t] \in SUBSET Clicks
      /\ clicked' = [clicked EXCEPT ![t] = clicked[t]]
  BY DEF WizardInv, PagesHold
<1>2. s \in PageStates /\ Earned(s, clicked[t]) /\ ~s.isPending
  BY <1>1, SettledTypes
<1>3. page' = [page EXCEPT ![t] = s] /\ wire' = (wire \ {m}) \cup {} /\ AllFit({})
  BY DEF AllFit
<1> HIDE DEF s
<1> QED
  BY <1>1, <1>2, <1>3, ArrivalStep

\* REGISTERED, or the error of the mutation.
LEMMA RegisteredKeeps ==
  ASSUME WizardInv, NEW m \in wire, Registered(m)
  PROVE  WizardInv'
<1>1. m.to \in Pages
  BY FitTypes DEF WizardInv, WireHolds, AllFit, Registered, AnswerKinds
<1> QED
  BY <1>1, SettlementKeeps DEF Registered

\* Lost: the page that waits reads an error.
LEMMA LossKeeps ==
  ASSUME WizardInv, NEW m \in wire, Lose(m)
  PROVE  WizardInv'
<1>1. CASE m.to # NoPage /\ m.kind \in PendingKinds
  <2>1. m.to \in Pages
    BY <1>1, FitTypes DEF WizardInv, WireHolds, AllFit
  <2>2. page' = [page EXCEPT ![m.to] = Settled(page[m.to], "error")]
    BY <1>1, <2>1 DEF Lose, PendingKinds, WizardInv, PagesHold
  <2> QED
    BY <2>1, <2>2, SettlementKeeps DEF Lose
<1>2. CASE ~(m.to # NoPage /\ m.kind \in PendingKinds)
  <2>1. UNCHANGED <<page, clicked>> /\ UNCHANGED serverVars /\ wire' = wire \ {m}
    BY <1>2 DEF Lose, PendingKinds
  <2>2. ~(m.kind \in PendingKinds /\ m.to \in Pages)
    BY <1>2, IntakeWizardAssumption
  <2>3. PagesHold' /\ RowsHold'
    BY <2>1, RowsSame DEF WizardInv, PagesHold
  <2>4. WireHolds'
    BY <2>1 DEF WizardInv, WireHolds, AllFit, Fit, Plain, Registrations, Addressed, Sealed
  <2>5. Waited'
    <3>1. \A u \in Pages : page'[u].isPending => page[u].isPending
      BY <2>1
    <3>2. wire \ {m} \subseteq wire'
      BY <2>1
    <3> QED
      BY <2>2, <3>1, <3>2, TakenOff DEF WizardInv
  <2> QED
    BY <2>3, <2>4, <2>5 DEF WizardInv
<1> QED
  BY <1>1, <1>2

\* Whatever comes of a message.
LEMMA DeliverKeeps ==
  ASSUME WizardInv, NEW m \in wire, Deliver(m)
  PROVE  WizardInv'
BY CreateKeeps, PatchKeeps, DiscardKeeps, RegistrationKeeps, CreatedKeeps,
   DiscardedKeeps, RegisteredKeeps, LossKeeps DEF Deliver

-----------------------------------------------------------------------------
(***************************************************************************)
(* The invariant.                                                          *)
(***************************************************************************)
LEMMA InvInitial ==
  ASSUME WizardInit
  PROVE  WizardInv
<1>1. PagesHold
  BY FreshTypes DEF WizardInit, PagesHold
<1>2. WireHolds /\ Waited
  BY FreshTypes DEF WizardInit, WireHolds, AllFit, Waited
<1>3. RowsHold
  BY IntakeWizardAssumption DEF WizardInit, RowsHold
<1> QED
  BY <1>1, <1>2, <1>3 DEF WizardInv

LEMMA InvStep ==
  ASSUME WizardInv, [WizardNext]_wizardVars
  PROVE  WizardInv'
<1>1. ASSUME NEW t \in Pages, User(t)
      PROVE  WizardInv'
  BY <1>1, UserKeeps
<1>2. ASSUME NEW m \in wire, Deliver(m)
      PROVE  WizardInv'
  BY <1>2, DeliverKeeps
<1>3. ASSUME NEW i \in DOMAIN systems, NEW f \in Fields, NEW v \in Values,
             update_system(i, f, v)
      PROVE  WizardInv'
  BY <1>3, UpdateKeeps
<1>4. CASE UNCHANGED wizardVars
  BY <1>4 DEF wizardVars, WizardInv, PagesHold, WireHolds, AllFit, RowsHold, Waited
<1> QED
  BY <1>1, <1>2, <1>3, <1>4 DEF WizardNext

\* Pages claim only what was clicked in them, registrations carry the clicks
\* they claim, and what is pending is waited for.
THEOREM WizardInvariant == WizardSpec => []WizardInv
<1>1. WizardInit => WizardInv
  BY InvInitial
<1>2. WizardInv /\ [WizardNext]_wizardVars => WizardInv'
  BY InvStep
<1> QED
  BY <1>1, <1>2, PTL DEF WizardSpec

\* Pages, the draft row and the systems keep their types, and a page that
\* shows a registration as pending has its request or answer under way: no
\* page hangs on a message that was lost.
THEOREM WizardTypes == WizardSpec => []WizardTypeOK
<1>1. WizardInv => WizardTypeOK
  BY DEF WizardInv, PagesHold, RowsHold, Waited, Awaits, PendingKinds, Given, WizardTypeOK
<1> QED
  BY <1>1, WizardInvariant, PTL

-----------------------------------------------------------------------------
(***************************************************************************)
(* The draft.                                                              *)
(***************************************************************************)
\* No save brings a row back: a PATCH leaves the row's id alone.
LEMMA PatchedId ==
  ASSUME NEW d \in Drafts \cup {NoDraft}, NEW id, NEW blob
  PROVE  Patched(d, id, blob).id = d.id
BY DEF Patched, Drafts, NoDraft

LEMMA WithoutId ==
  ASSUME NEW d, NEW id
  PROVE  Without(d, id).id \in {0, d.id}
BY DEF Without, NoDraft

\* What any step does to the row of the user.
LEMMA DraftStep ==
  ASSUME WizardInv, [WizardNext]_wizardVars
  PROVE  draft'.id \in {0, draft.id} \/ draft'.id > draftsMade
<1>1. ASSUME NEW t \in Pages, User(t)
      PROVE  draft' = draft
  BY <1>1 DEF User, OfferDraft, ResumeFromDraft, AskDiscard, DrillDownComplete, SeedIntake,
     IntakeDone, PrefillDone, ReviewFacts, Register, Reload, ConfirmIntakeField,
     SetIntakeField, serverVars
<1>2. ASSUME NEW m \in wire, Deliver(m)
      PROVE  draft'.id \in {0, draft.id} \/ draft'.id > draftsMade
  <2>1. CASE get_or_create_draft(m)
    <3>1. draftsMade \in Nat
      BY IntakeWizardAssumption DEF WizardInv, RowsHold
    <3>2. CASE draft # NoDraft
      BY <2>1, <3>2 DEF get_or_create_draft, serverVars
    <3>3. CASE draft = NoDraft
      <4>1. draft' = [id |-> draftsMade + 1, blob |-> EmptyForm]
        BY <2>1, <3>3 DEF get_or_create_draft
      <4>2. draft'.id = draftsMade + 1
        BY <4>1
      <4> QED
        BY <3>1, <4>2
    <3> QED
      BY <3>2, <3>3
  <2>2. CASE patch_draft(m)
    <3>1. draft' = Patched(draft, m.id, m.form)
      BY <2>2 DEF patch_draft
    <3> QED
      BY <3>1, PatchedId DEF WizardInv, RowsHold
  <2>3. CASE discard_draft(m)
    BY <2>3, WithoutId DEF discard_draft
  <2>4. CASE register(m)
    <3>1. draft' = draft \/ draft' = Without(draft, m.id)
      BY <2>4 DEF register, serverVars
    <3> QED
      BY <3>1, WithoutId
  <2>5. CASE DraftCreated(m) \/ DraftDiscarded(m) \/ Registered(m) \/ Lose(m)
    BY <2>5 DEF DraftCreated, DraftDiscarded, Registered, Lose, serverVars
  <2> QED
    BY <1>2, <2>1, <2>2, <2>3, <2>4, <2>5 DEF Deliver
<1>3. ASSUME NEW i \in DOMAIN systems, NEW f \in Fields, NEW v \in Values,
             update_system(i, f, v)
      PROVE  draft' = draft
  BY <1>3 DEF update_system
<1>4. CASE UNCHANGED wizardVars
  BY <1>4 DEF wizardVars
<1> QED
  BY <1>1, <1>2, <1>3, <1>4 DEF WizardNext

\* A draft that a registration used up, or the user discarded, never comes
\* back, however late the saves of the other pages arrive.
THEOREM SpentStaysSpent == WizardSpec => SpentDraftStaysSpent
<1>1. WizardInv /\ [WizardNext]_wizardVars =>
        [draft'.id \in {0, draft.id} \/ draft'.id > draftsMade]_wizardVars
  BY DraftStep
<1> QED
  BY <1>1, WizardInvariant, PTL DEF WizardSpec, SpentDraftStaysSpent

-----------------------------------------------------------------------------
(***************************************************************************)
(* The record of what was confirmed.                                       *)
(***************************************************************************)
\* A fact is no field, so that the four rules of the dispositions never
\* compete for one name.
LEMMA FactsAreNoFields ==
  ASSUME NEW x
  PROVE  ~(x \in Fields /\ x \in FactKeys)
BY IntakeWizardAssumption

\* What a registration records as confirmed, it claimed with its click.
LEMMA RecordedIsClicked ==
  ASSUME NEW m \in Registrations, Sealed(m), NEW x \in Confirmed(SystemOf(m))
  PROVE  <<x, ValueOf(SystemOf(m), x)>> \in m.clicked
<1>1. /\ x \in DerivedFields \cup FactKeys /\ Dispositions(m)[x] = "USER_CONFIRMED"
      /\ SystemOf(m).value = m.form.value
  BY DEF Confirmed, SystemOf
<1>2. m.confirmed \subseteq Fields /\ m.factsConfirmed \subseteq FactKeys
  BY DEF Registrations
<1>3. \/ x \in m.factsConfirmed
      \/ x \in Submitted(m) /\ Confirms(m, x)
  BY <1>1 DEF Dispositions, Fields
<1>4. CASE x \in m.factsConfirmed
  BY <1>2, <1>4 DEF ValueOf, Sealed
<1>5. CASE x \in Submitted(m) /\ Confirms(m, x)
  <2>1. x \in Fields /\ x \notin FactKeys
    BY <1>5, FactsAreNoFields DEF Submitted
  <2>2. x \in DerivedFields
    BY <1>1, <2>1
  <2>3. x \in m.confirmed
    BY <1>5, <2>2 DEF Confirms
  <2> QED
    BY <1>1, <2>1, <2>3 DEF ValueOf, Sealed
<1> QED
  BY <1>3, <1>4, <1>5

\* A confirmation on record is old, at its value, or came with a registration
\* that claims it by a click.
Genuine(i) ==
    \A x \in Confirmed(systems'[i]) :
        IF i \in DOMAIN systems THEN ValueOf(systems'[i], x) = ValueOf(systems[i], x)
        ELSE \E m \in wire \ wire' :
                m.kind = "register" /\ <<x, ValueOf(systems'[i], x)>> \in m.clicked

\* What any step does to the record of a system.
LEMMA RecordStep ==
  ASSUME WizardInv, [WizardNext]_wizardVars, NEW i \in DOMAIN systems'
  PROVE  Genuine(i)
<1>1. CASE systems' = systems
  BY <1>1 DEF Genuine
<1>2. ASSUME NEW m \in wire, register(m)
      PROVE  Genuine(i)
  <2>1. /\ m.kind = "register" /\ m \in Registrations /\ Sealed(m)
    BY <1>2, FitTypes DEF WizardInv, WireHolds, AllFit, register
  <2>2. CASE undispositioned(m) # {}
    BY <1>1, <1>2, <2>2 DEF register, serverVars
  <2>3. CASE undispositioned(m) = {}
    <3> DEFINE A == {a \in {Message("registered", m.to, m.id, EmptyForm)} : a.to # NoPage}
               last == Cardinality(DOMAIN systems) + 1
    <3>1. /\ wire' = (wire \ {m}) \cup A
          /\ systems' = [j \in 1 .. last |->
                            IF j \in DOMAIN systems THEN systems[j] ELSE SystemOf(m)]
      BY <1>2, <2>3 DEF register, Answer
    <3>2. m \notin A
      BY <2>1 DEF Message
    <3> HIDE DEF A, last
    <3>3. CASE i \in DOMAIN systems
      <4>1. systems'[i] = systems[i]
        BY <3>1, <3>3
      <4> QED
        BY <3>3, <4>1 DEF Genuine
    <3>4. CASE i \notin DOMAIN systems
      <4>1. systems'[i] = SystemOf(m)
        BY <3>1, <3>4
      <4>2. m \in wire \ wire'
        BY <1>2, <3>1, <3>2
      <4>3. ASSUME NEW x \in Confirmed(systems'[i])
            PROVE  <<x, ValueOf(systems'[i], x)>> \in m.clicked
        BY <2>1, <4>1, <4>3, RecordedIsClicked
      <4> QED
        BY <2>1, <3>4, <4>2, <4>3 DEF Genuine
    <3> QED
      BY <3>3, <3>4
  <2> QED
    BY <2>2, <2>3
<1>3. ASSUME NEW j \in DOMAIN systems, NEW f \in Fields, NEW v \in Values,
             update_system(j, f, v)
      PROVE  Genuine(i)
  <2> DEFINE s == systems[j]
             r == Amend(s, f, v)
  <2>1. systems' = [systems EXCEPT ![j] = r]
    BY <1>3 DEF update_system
  <2>2. i \in DOMAIN systems
    BY <2>1
  <2>3. CASE i # j
    <3>1. systems'[i] = systems[i]
      BY <2>1, <2>2, <2>3
    <3> QED
      BY <2>2, <3>1 DEF Genuine
  <2>4. CASE i = j
    <3>1. systems'[i] = r
      BY <2>1, <2>2, <2>4
    <3>2. s.value \in [Fields -> Given] /\ s.provenance \in [Fields \cup FactKeys -> Provenances]
      BY DEF WizardInv, RowsHold
    <3>3. r.value = s.value \/ r.value = [s.value EXCEPT ![f] = v]
      BY DEF Amend
    <3>4. \/ r.provenance = [s.provenance EXCEPT ![f] = "USER_AMENDED"]
          \/ r = s
      BY DEF Amend
    <3> HIDE DEF r
    <3>5. ASSUME NEW x \in Confirmed(r)
          PROVE  ValueOf(r, x) = ValueOf(s, x)
      <4>1. CASE r = s
        BY <4>1
      <4>2. CASE r.provenance = [s.provenance EXCEPT ![f] = "USER_AMENDED"]
        <5>1. x \in DerivedFields \cup FactKeys /\ r.provenance[x] = "USER_CONFIRMED"
          BY DEF Confirmed
        <5>2. x # f
          BY <3>2, <4>2, <5>1
        <5>3. CASE x \in FactKeys
          BY <5>3 DEF ValueOf
        <5>4. CASE x \notin FactKeys
          <6>1. x \in Fields
            BY <5>1, <5>4 DEF Fields
          <6>2. r.value[x] = s.value[x]
            BY <3>2, <3>3, <5>2, <6>1
          <6> QED
            BY <5>4, <6>2 DEF ValueOf
        <5> QED
          BY <5>3, <5>4
      <4> QED
        BY <3>4, <4>1, <4>2
    <3> QED
      BY <2>2, <2>4, <3>1, <3>5 DEF Genuine
  <2> QED
    BY <2>3, <2>4
<1>4. ASSUME NEW t \in Pages, User(t)
      PROVE  systems' = systems
  BY <1>4 DEF User, OfferDraft, ResumeFromDraft, AskDiscard, DrillDownComplete, SeedIntake,
     IntakeDone, PrefillDone, ReviewFacts, Register, Reload, ConfirmIntakeField,
     SetIntakeField, serverVars
<1>5. ASSUME NEW m \in wire, Deliver(m)
      PROVE  systems' = systems \/ register(m)
  BY <1>5 DEF Deliver, get_or_create_draft, patch_draft, discard_draft, DraftCreated,
     DraftDiscarded, Registered, Lose, serverVars
<1>6. CASE UNCHANGED wizardVars
  BY <1>1, <1>6 DEF wizardVars
<1> QED
  BY <1>1, <1>2, <1>3, <1>4, <1>5, <1>6 DEF WizardNext

\* What goes on record as USER_CONFIRMED the user confirmed in the page that
\* registers it, at the value the system gets, for any pages, fields and
\* facts; a later update of the value takes it off the record.
THEOREM ConfirmationIsAlwaysGenuine == WizardSpec => ConfirmationIsGenuine
<1>1. WizardInv /\ [WizardNext]_wizardVars =>
        [\A i \in DOMAIN systems' : \A x \in Confirmed(systems'[i]) :
          IF i \in DOMAIN systems THEN ValueOf(systems'[i], x) = ValueOf(systems[i], x)
          ELSE \E m \in wire \ wire' :
                  m.kind = "register" /\ <<x, ValueOf(systems'[i], x)>> \in m.clicked]_wizardVars
  BY RecordStep DEF Genuine
<1> QED
  BY <1>1, WizardInvariant, PTL DEF WizardSpec, ConfirmationIsGenuine
=============================================================================
