---------------------------- MODULE MCDossier ----------------------------
(***************************************************************************)
(* What a use case has before its lifecycle: the registration wizard, its  *)
(* classification and its assessment, each on its own.  part picks one     *)
(* when a behaviour starts; the others stay in one initial state.  The     *)
(* assessment is in two parts: two requests at once, or one request and an *)
(* export.                                                                 *)
(***************************************************************************)
EXTENDS Dossier, ClassificationRecords, ClassificationInquiry, IntakeWizard, TLC

CONSTANTS r1, r2, c1, c2, f1, f2, e1,
          w1, w2, sP, sH, sL, q1, q2, q3, yes, no, maybe, role, k

MCPrefills == [type \in Types |->
    IF type = "AIIA" THEN <<"risk">> ELSE <<"fact">>]

MCFrameworksOf == (c1 :> {f1}) @@ (c2 :> {f1, f2})

\* q1 asks for a high-risk use, q2 for a prohibited one; maybe is an
\* option of neither, q3 no question of the tree.
MCAsserts ==
    (q1 :> ((yes :> [rung |-> "HIGH", sub |-> sH]) @@ (no :> [rung |-> "NONE", sub |-> "NONE"])))
    @@ (q2 :> ((yes :> [rung |-> "PROHIBITED", sub |-> sP])
               @@ (no :> [rung |-> "LIMITED", sub |-> sL])))

MCTierOf == (sP :> "PROHIBITED") @@ (sH :> "HIGH") @@ (sL :> "LIMITED")

MCSeeds == [x \in Fields |-> "v0"]

\* The dossiers behaviours start from, made by the writes of Dossier.
Started == aiia_created(EmptyDossier, "HIGH")

Treated ==
    control_linked(treatment_set(item_confirmed(Started, 1), 1, "MITIGATE", FALSE),
                   1, c1, "SATISFIED")

Evidenced ==
    evidence_linked(control_linked(feeder_created(Treated, 1, "FRIA"), 2, c2, "SATISFIED"), 2, e1)

Approved == review_recorded(assessment_submitted(Evidenced, 1), 1, "APPROVED")

VARIABLE part

mcVars == <<part, dossierVars, recordsVars, inquiryVars, wizardVars>>

\* HIGH stands for the tiers below PROHIBITED in the first snapshot.
Init ==
    /\ part \in {"requests", "export", "records", "inquiry", "wizard"}
    /\ \E d \in {EmptyDossier, Started, Evidenced, Approved} :
          /\ part \notin {"requests", "export"} => d = EmptyDossier
          /\ DossierFrom(d)
    /\ part # "records" => snapshots = <<CHOOSE s \in FirstSnapshots : TRUE>>
    /\ RecordsInit
    /\ snapshots[1].tier \notin {"LIMITED", "MINIMAL"}
    /\ part # "inquiry" => inquiry = CHOOSE i \in Inquiries : TRUE
    /\ InquiryInit
    /\ WizardInit

OneRequest == \A q, r \in Requests : q # r => NoRequest \in {req[q], req[r]}

DossierStep ==
    /\ part \in {"requests", "export"} /\ DossierNext
    /\ part = "requests" => export' = NoExport
    /\ part = "export" => OneRequest'
    /\ UNCHANGED <<recordsVars, inquiryVars, wizardVars>>

RecordsStep ==
    part = "records" /\ RecordsNext /\ UNCHANGED <<dossierVars, inquiryVars, wizardVars>>

InquiryStep ==
    part = "inquiry" /\ InquiryNext /\ UNCHANGED <<dossierVars, recordsVars, wizardVars>>

\* Bound: a page that was loaded again shows no facts.
NoFacts == \A t \in Pages : page[t].factsConfirmed \cup page[t].factsAmended = {}

WizardStep ==
    /\ part = "wizard" /\ WizardNext /\ (reloads > 0 => NoFacts)'
    /\ UNCHANGED <<dossierVars, recordsVars, inquiryVars>>

Next == UNCHANGED part /\ (DossierStep \/ RecordsStep \/ InquiryStep \/ WizardStep)

Spec == Init /\ [][Next]_mcVars

=============================================================================
