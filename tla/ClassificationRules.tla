------------------------ MODULE ClassificationRules ------------------------
(***************************************************************************)
(* How an EU AI Act tier is derived: from the product's catalogue mappings *)
(* when a use case is registered (app/services/classification.py), and     *)
(* from the answers to the decision tree afterwards                        *)
(* (app/services/context_classification.py).  Both are pure reads; the     *)
(* rows they lead to are in ClassificationRecords, what they promise is in  *)
(* ClassificationInquiry.                                                  *)
(***************************************************************************)
EXTENDS Naturals, Sequences

CONSTANTS
    Categories,     \* product categories of the catalogue
    NoCategory,
    QuestionCodes,  \* the codes an answer may name
    Questions,      \* of the decision tree
    OptionCodes,
    Asserts,        \* the rung and the subcategory of every option of the tree
    TierOf,         \* the tier of every subcategory
    MaxAnswers      \* bound: answers supplied in one request

StorableTiers == {"PROHIBITED", "HIGH", "LIMITED", "MINIMAL"}
Rungs == StorableTiers \cup {"NONE"}
Subcategories == DOMAIN TierOf

tier_rank(t) ==
    CASE t = "PROHIBITED" -> 0
      [] t = "HIGH"       -> 1
      [] t = "LIMITED"    -> 2
      [] t = "MINIMAL"    -> 3
      [] OTHER            -> 4

\* A question of the tree has the options Asserts[q] is defined for; an
\* option that asserts no rung has rung NONE.  A tree without a question is a
\* defect of the seed (RuntimeError).
ASSUME ClassificationRulesAssumption ==
    /\ NoCategory \notin Categories
    /\ "NONE" \notin Subcategories
    /\ TierOf \in [Subcategories -> StorableTiers]
    /\ DOMAIN Asserts = Questions /\ Questions # {} /\ Questions \subseteq QuestionCodes
    /\ \A q \in Questions :
          /\ DOMAIN Asserts[q] \subseteq OptionCodes
          /\ \A o \in DOMAIN Asserts[q] :
                Asserts[q][o] \in [rung : Rungs, sub : Subcategories \cup {"NONE"}]
    /\ MaxAnswers \in Nat

-----------------------------------------------------------------------------
(***************************************************************************)
(* From the catalogue.  An inquiry is what resolve_classification reads:   *)
(* whether the system has a product, the intended-use category the use     *)
(* case declares, and the tiers of the primary mappings of each category   *)
(* the product is a member of (none for the others).                       *)
(***************************************************************************)
Inquiries ==
    {inq \in [product : BOOLEAN, declared : Categories \cup {NoCategory},
              primary : [Categories -> SUBSET StorableTiers]] :
        ~inq.product => \A c \in Categories : inq.primary[c] = {}}

\* min(rows, key=_tier_rank)
Governing(S) == CHOOSE t \in S : \A r \in S : tier_rank(t) <= tier_rank(r)

primary_mappings_for_product(inq) == UNION {inq.primary[c] : c \in Categories}

RequiresContext == [tier |-> "REQUIRES_CONTEXT", disposition |-> "AUTHORITATIVE"]

resolve_classification(inq) ==
    LET all == primary_mappings_for_product(inq)
        rows == IF inq.declared = NoCategory THEN all ELSE inq.primary[inq.declared]
    IN  IF ~inq.product \/ rows = {} THEN RequiresContext
        ELSE [tier |-> Governing(rows),
              disposition |->
                 IF tier_rank(Governing(rows)) <= tier_rank(Governing(all))
                 THEN "AUTHORITATIVE" ELSE "DOWN_SELECTION"]

\* Bug: every tier the catalogue gives is approved at once.
RegisterApproving(inq) ==
    LET p == resolve_classification(inq)
        rated == p.tier # "REQUIRES_CONTEXT"
    IN  [tier |-> p.tier, status |-> IF rated THEN "APPROVED" ELSE "PENDING_REVIEW",
         stamped |-> TRUE, off_label |-> ~rated /\ inq.product]

\* The snapshot registrations.register writes: its status, and whether it
\* stamps use_case.eu_tier at once.
register_snapshot(inq) ==
    LET p == resolve_classification(inq) IN
    IF p.tier = "REQUIRES_CONTEXT"
    THEN [tier |-> p.tier, status |-> "PENDING_REVIEW", stamped |-> TRUE,
          off_label |-> inq.product /\ inq.declared = NoCategory]
    ELSE [tier |-> p.tier,
          status |-> IF p.disposition = "AUTHORITATIVE" THEN "APPROVED"
                     ELSE "PENDING_REVIEW",
          stamped |-> p.disposition = "AUTHORITATIVE", off_label |-> FALSE]

\* The snapshot use_cases.register_use_case writes; it declares no category.
register_use_case_snapshot(inq) ==
    [tier |-> resolve_classification([inq EXCEPT !.declared = NoCategory]).tier,
     status |-> "PENDING_REVIEW", stamped |-> TRUE, off_label |-> FALSE]

-----------------------------------------------------------------------------
(***************************************************************************)
(* From the answers.  They come as a list; answer_map keeps the last       *)
(* option of a question, at the place of its first answer.                 *)
(***************************************************************************)
AnswerLists ==
    UNION {[1 .. n -> QuestionCodes \X OptionCodes] : n \in 0 .. MaxAnswers}

answered_codes(answers) == {answers[i][1] : i \in DOMAIN answers}

answer_map(answers) ==
    [q \in answered_codes(answers) |->
        LET places == {i \in DOMAIN answers : answers[i][1] = q}
        IN  answers[CHOOSE i \in places : \A j \in places : j <= i][2]]

get_context_questions(answers) == Questions \ answered_codes(answers)

\* What one answer adds; halt is the return at PROHIBITED, unknown the 422
\* for an option its question does not have.
NothingFound == [rung |-> "NONE", sub |-> "NONE", halt |-> FALSE, unknown |-> FALSE]

\* Bug: the last rung asserted wins.
WeighLast(found, q, o) ==
    IF found.halt \/ found.unknown THEN found
    ELSE IF o \notin DOMAIN Asserts[q] THEN [found EXCEPT !.unknown = TRUE]
    ELSE IF Asserts[q][o].rung = "NONE" THEN found
    ELSE [rung |-> Asserts[q][o].rung, sub |-> Asserts[q][o].sub,
          halt |-> Asserts[q][o].rung = "PROHIBITED", unknown |-> FALSE]

Weigh(found, q, o) ==
    IF found.halt \/ found.unknown THEN found
    ELSE IF o \notin DOMAIN Asserts[q] THEN [found EXCEPT !.unknown = TRUE]
    ELSE IF tier_rank(Asserts[q][o].rung) >= tier_rank(found.rung) THEN found
    ELSE [rung |-> Asserts[q][o].rung,
          sub |-> IF Asserts[q][o].sub # "NONE" THEN Asserts[q][o].sub ELSE found.sub,
          halt |-> Asserts[q][o].rung = "PROHIBITED", unknown |-> FALSE]

\* A question is weighed at the place of its first answer, with its last option.
WeighedAt(answers, i, found) ==
    IF \E j \in 1 .. i - 1 : answers[j][1] = answers[i][1] THEN found
    ELSE Weigh(found, answers[i][1], answer_map(answers)[answers[i][1]])

\* What is found up to every place of the list.
FoundUpTo(answers) ==
    LET found[i \in 0 .. Len(answers)] ==
            IF i = 0 THEN NothingFound ELSE WeighedAt(answers, i, found[i - 1])
    IN  found

\* An answer to a question the tree does not have is refused (422) before
\* any is weighed.
resolve_context_classification(answers) ==
    LET found == FoundUpTo(answers)[Len(answers)]
        outcome(kind, tier, sub) == [kind |-> kind, tier |-> tier, sub |-> sub]
    IN  IF ~(answered_codes(answers) \subseteq Questions) \/ found.unknown
        THEN outcome("REJECTED", "NONE", "NONE")
        ELSE IF found.halt THEN outcome("PROHIBITED_HALT", "PROHIBITED", found.sub)
        ELSE IF get_context_questions(answers) # {}
             THEN outcome("UNRESOLVED", "NONE", "NONE")
        ELSE IF found.rung = "NONE" THEN outcome("RESOLVED", "MINIMAL", "NONE")
        ELSE outcome("RESOLVED", found.rung, found.sub)

\* Bug: an unresolved outcome is stored too.
StoredUnresolved(answers) ==
    {resolve_context_classification(answers).tier} \cup StorableTiers

\* The tier compute_and_record_classification stores: the computed one, or a
\* system owner's override, or none.
stored_tiers(answers) ==
    IF resolve_context_classification(answers).kind \in {"UNRESOLVED", "REJECTED"}
    THEN {} ELSE StorableTiers

=============================================================================
