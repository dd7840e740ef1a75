----------------------- MODULE ClassificationInquiry -----------------------
(***************************************************************************)
(* One use case asks for its tier: registration reads the catalogue, and a *)
(* wizard asks POST /classification/context/preview (and then              *)
(* /classification/context) after every answer, sending the questions in   *)
(* any order, changing an answer by sending the question again, and naming *)
(* questions the tree, and options a question, may not have.               *)
(***************************************************************************)
EXTENDS ClassificationRules

VARIABLES
    inquiry,    \* what resolve_classification reads of the use case
    supplied,   \* the answers of the request
    preview     \* their outcome

inquiryVars == <<inquiry, supplied, preview>>

InquiryInit ==
    /\ inquiry \in Inquiries
    /\ supplied = <<>>
    /\ preview = resolve_context_classification(<<>>)

\* register_snapshot with the catalogue as it is; the answers come for a use
\* case the catalogue does not rate.
Preview(q, o) ==
    /\ register_snapshot(inquiry).tier = "REQUIRES_CONTEXT"
    /\ Len(supplied) < MaxAnswers
    /\ supplied' = Append(supplied, <<q, o>>)
    /\ preview' = resolve_context_classification(supplied')
    /\ UNCHANGED inquiry

InquiryNext == \E q \in QuestionCodes, o \in OptionCodes : Preview(q, o)

InquirySpec == InquiryInit /\ [][InquiryNext]_inquiryVars

-----------------------------------------------------------------------------
LastAnswers ==
    {supplied[i] : i \in {i \in DOMAIN supplied :
        \A j \in DOMAIN supplied : j > i => supplied[j][1] # supplied[i][1]}}

AssertedRungs == {Asserts[a[1]][a[2]].rung : a \in LastAnswers} \ {"NONE"}

OptionsNameTheirBasis ==
    \A q \in Questions : \A o \in DOMAIN Asserts[q] :
        LET a == Asserts[q][o] IN
        a.rung # "NONE" => a.sub # "NONE" /\ TierOf[a.sub] = a.rung

(***************************************************************************)
(* The order in which a wizard sends the answers, or sends one again, does *)
(* not matter: the computed tier is the highest one that the last answers  *)
(* assert, a prohibited practice counts whatever is still unanswered, no   *)
(* other tier is computed before every question is answered, MINIMAL needs *)
(* that nothing higher is asserted, and the subcategory recorded as the    *)
(* basis is one of that tier, when every option that asserts a rung names  *)
(* one.  An answer to a question the tree does not have is always refused, *)
(* a prohibited practice notwithstanding (resolve_context_classification). *)
(***************************************************************************)
ComputedTierIsAsserted ==
    LET named == {a[1] : a \in LastAnswers} \subseteq Questions
        known == \A a \in LastAnswers : a[2] \in DOMAIN Asserts[a[1]]
        complete == {a[1] : a \in LastAnswers} = Questions
        computed == preview.kind \in {"RESOLVED", "PROHIBITED_HALT"}
        rungs == AssertedRungs
    IN  IF ~named THEN preview.kind = "REJECTED"
        ELSE IF ~known THEN preview.kind \in {"REJECTED", "PROHIBITED_HALT"}
        ELSE /\ preview.kind # "REJECTED"
             /\ preview.kind = "PROHIBITED_HALT" <=> "PROHIBITED" \in rungs
             /\ preview.kind = "RESOLVED" <=> complete /\ "PROHIBITED" \notin rungs
             /\ computed =>
                   preview.tier = IF rungs = {} THEN "MINIMAL" ELSE Governing(rungs)
             /\ OptionsNameTheirBasis /\ computed /\ rungs # {} =>
                   TierOf[preview.sub] = preview.tier

(***************************************************************************)
(* A registration approves its snapshot without a reviewer only at the     *)
(* product's highest tier: a narrower declaration (down-selection) waits   *)
(* unstamped for sign-off (register; docs/INVARIANTS.md, INV-82).  This is *)
(* about registration alone: afterwards a system owner may stamp a milder  *)
(* tier with nobody's review (override_classification).                    *)
(***************************************************************************)
SelfApprovedIsHighest ==
    LET s == register_snapshot(inquiry)
        rungs == primary_mappings_for_product(inquiry)
    IN  /\ s.status = "APPROVED" =>
              /\ inquiry.product /\ rungs # {}
              /\ \A r \in rungs : tier_rank(s.tier) <= tier_rank(r)
        /\ s.stamped /\ s.status # "APPROVED" => s.tier = "REQUIRES_CONTEXT"

=============================================================================
