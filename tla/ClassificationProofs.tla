------------------------ MODULE ClassificationProofs ------------------------
(***************************************************************************)
(* Proofs about ClassificationRules and ClassificationRecords, for every   *)
(* catalogue and every decision tree, any number of racing writers and any *)
(* number of snapshots.                                                    *)
(***************************************************************************)
EXTENDS ClassificationRecords, ClassificationInquiry, WellFoundedInduction, TLAPS

USE ClassificationRulesAssumption, ClassificationRecordsAssumption

-----------------------------------------------------------------------------
(***************************************************************************)
(* Rules.  Every non-empty set of tiers has a worst one, and none of the   *)
(* set is worse.                                                           *)
(***************************************************************************)
LEMMA GoverningIsWorst ==
    ASSUME NEW S \in SUBSET StorableTiers, S # {}
    PROVE  /\ Governing(S) \in S
           /\ \A t \in S : tier_rank(Governing(S)) <= tier_rank(t)
<1>1. \E s \in S : \A t \in S : tier_rank(s) <= tier_rank(t)
  <2> DEFINE Worst(s) == \A t \in S : tier_rank(s) <= tier_rank(t)
  <2> USE DEF StorableTiers, tier_rank
  <2>1. CASE "PROHIBITED" \in S
    <3>1. Worst("PROHIBITED") OBVIOUS
    <3> QED BY <2>1, <3>1
  <2>2. CASE "PROHIBITED" \notin S /\ "HIGH" \in S
    <3>1. Worst("HIGH") BY <2>2
    <3> QED BY <2>2, <3>1
  <2>3. CASE S \cap {"PROHIBITED", "HIGH"} = {} /\ "LIMITED" \in S
    <3>1. Worst("LIMITED") BY <2>3
    <3> QED BY <2>3, <3>1
  <2>4. CASE S = {"MINIMAL"}
    <3>1. Worst("MINIMAL") BY <2>4
    <3> QED BY <2>4, <3>1
  <2> QED BY <2>1, <2>2, <2>3, <2>4
<1> QED BY <1>1 DEF Governing

\* What the catalogue gives is a tier, or the question put to the context.
LEMMA ResolvedTier ==
    ASSUME NEW inq \in Inquiries
    PROVE  resolve_classification(inq).tier \in StorableTiers \cup {"REQUIRES_CONTEXT"}
<1> DEFINE all == primary_mappings_for_product(inq)
           rows == IF inq.declared = NoCategory THEN all ELSE inq.primary[inq.declared]
<1>1. /\ inq.primary \in [Categories -> SUBSET StorableTiers]
      /\ inq.declared \in Categories \cup {NoCategory}
  BY DEF Inquiries
<1>2. all \subseteq StorableTiers BY <1>1 DEF primary_mappings_for_product
<1>3. rows \in SUBSET StorableTiers BY <1>1, <1>2
<1>4. CASE ~inq.product \/ rows = {}
  BY <1>4 DEF resolve_classification, RequiresContext
<1>5. CASE inq.product /\ rows # {}
  <2>1. Governing(rows) \in StorableTiers BY <1>3, <1>5, GoverningIsWorst
  <2>2. resolve_classification(inq).tier = Governing(rows)
    BY <1>5 DEF resolve_classification
  <2> QED BY <2>1, <2>2
<1> QED BY <1>4, <1>5

-----------------------------------------------------------------------------
(***************************************************************************)
(* What a registration approves by itself, for one inquiry.                *)
(***************************************************************************)
LEMMA OnlyTheWorstIsSelfApproved ==
    ASSUME NEW inq \in Inquiries, register_snapshot(inq).status = "APPROVED"
    PROVE  /\ inq.product /\ primary_mappings_for_product(inq) # {}
           /\ \A t \in primary_mappings_for_product(inq) :
                 tier_rank(register_snapshot(inq).tier) <= tier_rank(t)
<1> DEFINE all == primary_mappings_for_product(inq)
           rows == IF inq.declared = NoCategory THEN all ELSE inq.primary[inq.declared]
           p == resolve_classification(inq)
<1>1. /\ inq.primary \in [Categories -> SUBSET StorableTiers]
      /\ inq.declared \in Categories \cup {NoCategory}
  BY DEF Inquiries
<1>2. all \in SUBSET StorableTiers BY <1>1 DEF primary_mappings_for_product
<1>3. rows \in SUBSET StorableTiers BY <1>1, <1>2
<1>4. rows \subseteq all BY <1>1 DEF primary_mappings_for_product
<1>5. /\ p.tier # "REQUIRES_CONTEXT" /\ p.disposition = "AUTHORITATIVE"
      /\ register_snapshot(inq).tier = p.tier
  <2>1. p.tier # "REQUIRES_CONTEXT"
    <3>1. SUFFICES ASSUME p.tier = "REQUIRES_CONTEXT" PROVE FALSE OBVIOUS
    <3>2. register_snapshot(inq).status = "PENDING_REVIEW" BY <3>1 DEF register_snapshot
    <3> QED BY <3>2
  <2>2. register_snapshot(inq).status =
            IF p.disposition = "AUTHORITATIVE" THEN "APPROVED" ELSE "PENDING_REVIEW"
    BY <2>1 DEF register_snapshot
  <2>3. register_snapshot(inq).tier = p.tier BY <2>1 DEF register_snapshot
  <2> QED BY <2>1, <2>2, <2>3
<1>6. inq.product /\ rows # {} /\ all # {}
  BY <1>4, <1>5 DEF resolve_classification, RequiresContext
<1>7. p = [tier |-> Governing(rows),
           disposition |-> IF tier_rank(Governing(rows)) <= tier_rank(Governing(all))
                           THEN "AUTHORITATIVE" ELSE "DOWN_SELECTION"]
  BY <1>6 DEF resolve_classification
<1>8. p.tier = Governing(rows) /\ tier_rank(Governing(rows)) <= tier_rank(Governing(all))
  BY <1>5, <1>7
<1>9. /\ Governing(rows) \in StorableTiers /\ Governing(all) \in all
      /\ \A t \in all : tier_rank(Governing(all)) <= tier_rank(t)
  BY <1>2, <1>3, <1>4, <1>6, GoverningIsWorst
<1>10. \A t \in StorableTiers : tier_rank(t) \in Nat BY DEF StorableTiers, tier_rank
<1>11. \A t \in all : tier_rank(Governing(rows)) <= tier_rank(t)
  <2> TAKE t \in all
  <2>1. /\ tier_rank(Governing(rows)) \in Nat /\ tier_rank(Governing(all)) \in Nat
        /\ tier_rank(t) \in Nat
    BY <1>2, <1>9, <1>10
  <2> QED BY <1>8, <1>9, <2>1
<1> QED BY <1>5, <1>6, <1>8, <1>11

\* The status decides the stamp, but for what the context still has to rate.
LEMMA StampedWithoutApproval ==
    ASSUME NEW inq \in Inquiries
    PROVE  LET s == register_snapshot(inq) IN
           /\ s.tier \in Tiers /\ s.stamped \in BOOLEAN
           /\ s.status \in {"PENDING_REVIEW", "APPROVED"}
           /\ s.status = "APPROVED" => s.stamped
           /\ s.stamped /\ s.status # "APPROVED" => s.tier = "REQUIRES_CONTEXT"
<1> DEFINE p == resolve_classification(inq)
<1>1. p.tier \in Tiers BY ResolvedTier DEF Tiers
<1>2. CASE p.tier = "REQUIRES_CONTEXT" BY <1>1, <1>2 DEF register_snapshot
<1>3. CASE p.tier # "REQUIRES_CONTEXT" /\ p.disposition = "AUTHORITATIVE"
  BY <1>1, <1>3 DEF register_snapshot
<1>4. CASE p.tier # "REQUIRES_CONTEXT" /\ p.disposition # "AUTHORITATIVE"
  BY <1>1, <1>4 DEF register_snapshot
<1> QED BY <1>2, <1>3, <1>4

(***************************************************************************)
(* A registration approves its own snapshot only if the intended use is as *)
(* bad as the worst use of the product; the snapshot of a milder one is    *)
(* written pending and unstamped, whatever the catalogue says (the         *)
(* disposition in classification.py, the status it becomes in              *)
(* registrations.py).                                                      *)
(***************************************************************************)
THEOREM SelfApprovedAlwaysHighest == InquirySpec => []SelfApprovedIsHighest
<1>1. InquiryInit => inquiry \in Inquiries BY DEF InquiryInit
<1>2. inquiry \in Inquiries /\ [InquiryNext]_inquiryVars => (inquiry \in Inquiries)'
  BY DEF InquiryNext, Preview, inquiryVars
<1>3. inquiry \in Inquiries => SelfApprovedIsHighest
  BY OnlyTheWorstIsSelfApproved, StampedWithoutApproval DEF SelfApprovedIsHighest
<1> QED BY <1>1, <1>2, <1>3, PTL DEF InquirySpec

-----------------------------------------------------------------------------
(***************************************************************************)
(* Counting.  The library's induction rules quantify over a predicate; a   *)
(* set of numbers in its place needs no more than that < is well-founded.  *)
(***************************************************************************)
LEMMA LeastNumber ==
    ASSUME NEW S \in SUBSET Nat, S # {}
    PROVE  \E n \in S : \A m \in S : n <= m
<1> DEFINE below == {ss \in Nat \X Nat : ss[1] < ss[2]}
<1>1. IsWellFoundedOn(below, Nat) BY NatLessThanWellFounded DEF OpToRel
<1> HIDE DEF below
<1>2. PICK n \in S : \A m \in S : ~(<<m, n>> \in below) BY <1>1, WFMin
<1>3. ASSUME NEW m \in S PROVE n <= m
  <2>1. <<m, n>> \in Nat \X Nat /\ <<m, n>>[1] = m /\ <<m, n>>[2] = n OBVIOUS
  <2>2. ~(m < n) BY <1>2, <2>1 DEF below
  <2>3. m \in Nat /\ n \in Nat OBVIOUS
  <2> QED BY <2>2, <2>3
<1> QED BY <1>3

\* A set of numbers with 0 and every successor has them all.
LEMMA CountingUp ==
    ASSUME NEW S, 0 \in S, \A n \in Nat : n \in S => n + 1 \in S
    PROVE  \A n \in Nat : n \in S
<1> SUFFICES ASSUME Nat \ S # {} PROVE FALSE OBVIOUS
<1> DEFINE others == Nat \ S
<1>1. PICK n \in others : \A m \in others : n <= m BY LeastNumber
<1>2. n \in Nat /\ n # 0 BY <1>1
<1>3. n - 1 \in Nat /\ (n - 1) + 1 = n /\ ~(n <= n - 1) BY <1>2
<1>4. n - 1 \in S BY <1>1, <1>3
<1>5. n \in S BY <1>3, <1>4
<1> QED BY <1>1, <1>5

\* The numbers up to a bound have a greatest one of every kind they have.
LEMMA GreatestNumber ==
    ASSUME NEW n \in Nat, NEW S \in SUBSET (1 .. n), S # {}
    PROVE  \E i \in S : \A j \in S : j <= i
<1> DEFINE rest == {n - i : i \in S}
<1>1. rest \in SUBSET Nat /\ rest # {}
  <2>1. \A i \in 1 .. n : n - i \in Nat OBVIOUS
  <2>2. PICK i \in S : TRUE OBVIOUS
  <2>3. n - i \in rest OBVIOUS
  <2>4. rest \subseteq Nat BY <2>1
  <2> QED BY <2>3, <2>4
<1>2. PICK m \in rest : \A k \in rest : m <= k BY <1>1, LeastNumber
<1>3. PICK i \in S : m = n - i BY <1>2
<1>4. ASSUME NEW j \in S PROVE j <= i
  <2>1. n - j \in rest BY <1>4
  <2> HIDE DEF rest
  <2>2. n - i <= n - j BY <1>2, <1>3, <2>1
  <2>3. i \in 1 .. n /\ j \in 1 .. n BY <1>4
  <2>4. i \in Int /\ j \in Int BY <2>3
  <2> QED BY <2>2, <2>4
<1> QED BY <1>4

-----------------------------------------------------------------------------
(***************************************************************************)
(* The answers.  What is found up to every place of a list is defined.     *)
(***************************************************************************)
Answers == Seq(QuestionCodes \X OptionCodes)

LEMMA FoundUpToIsDefined ==
    ASSUME NEW a \in Answers
    PROVE  FoundUpTo(a) = [i \in 0 .. Len(a) |->
               IF i = 0 THEN NothingFound ELSE WeighedAt(a, i, FoundUpTo(a)[i - 1])]
<1> DEFINE Solves(g, n) == g = [i \in 0 .. n |->
               IF i = 0 THEN NothingFound ELSE WeighedAt(a, i, g[i - 1])]
           solved == {n \in Nat : \E g : Solves(g, n)}
<1>1. 0 \in solved
  <2> DEFINE g == [i \in 0 .. 0 |-> NothingFound]
  <2>1. \A i \in 0 .. 0 : i = 0 OBVIOUS
  <2>2. Solves(g, 0) BY <2>1
  <2> QED BY <2>2
<1>2. ASSUME NEW n \in Nat, n \in solved
      PROVE  n + 1 \in solved
  <2>1. PICK g : Solves(g, n) BY <1>2
  <2> DEFINE h == [i \in 0 .. n + 1 |->
                     IF i = n + 1 THEN WeighedAt(a, n + 1, g[n]) ELSE g[i]]
             f == [i \in 0 .. n + 1 |->
                     IF i = 0 THEN NothingFound ELSE WeighedAt(a, i, h[i - 1])]
  <2>2. ASSUME NEW i \in 0 .. n + 1 PROVE h[i] = f[i]
    <3>1. CASE i = 0
      <4>1. h[i] = g[0] BY <3>1
      <4>2. g[0] = NothingFound BY <2>1
      <4> QED BY <3>1, <4>1, <4>2
    <3>2. CASE i \in 1 .. n
      <4>1. i # 0 /\ i # n + 1 /\ i \in 0 .. n /\ i - 1 \in 0 .. n + 1 /\ i - 1 # n + 1
        BY <3>2
      <4>2. h[i] = g[i] /\ h[i - 1] = g[i - 1] BY <4>1
      <4>3. g[i] = WeighedAt(a, i, g[i - 1]) BY <2>1, <4>1
      <4> HIDE DEF h
      <4>4. f[i] = WeighedAt(a, i, h[i - 1]) BY <4>1
      <4> QED BY <4>2, <4>3, <4>4
    <3>3. CASE i = n + 1
      <4>1. i # 0 /\ i - 1 = n /\ n \in 0 .. n + 1 /\ n # n + 1 BY <3>3
      <4>2. h[n] = g[n] BY <4>1
      <4>3. h[i] = WeighedAt(a, i, g[n]) BY <3>3
      <4> HIDE DEF h
      <4>4. f[i] = WeighedAt(a, i, h[n]) BY <4>1
      <4> QED BY <4>2, <4>3, <4>4
    <3> QED BY <3>1, <3>2, <3>3
  <2>3. h = f BY <2>2
  <2> HIDE DEF h
  <2>4. Solves(h, n + 1) BY <2>3
  <2> QED BY <2>4
<1>3. Len(a) \in Nat BY DEF Answers
<1> HIDE DEF solved
<1>4. Len(a) \in solved BY <1>1, <1>2, <1>3, CountingUp
<1>5. PICK g : Solves(g, Len(a)) BY <1>4 DEF solved
<1> QED BY <1>5 DEF FoundUpTo

Findings ==
    [rung : Rungs, sub : Subcategories \cup {"NONE"}, halt : BOOLEAN, unknown : BOOLEAN]

\* The option c chooses for q is one of q's, and asserts the rung r.
Known(c, q) == c[q] \in DOMAIN Asserts[q]

AssertsRung(c, q, r) == Known(c, q) /\ Asserts[q][c[q]].rung = r

\* A prohibited practice was found among the questions of S.
HaltJudged(S, c, x) ==
    x.halt => ~x.unknown /\ x.rung = "PROHIBITED" /\ \E q \in S : AssertsRung(c, q, "PROHIBITED")

\* All of S was weighed, and what was found is as bad as any of it.
GoesOn(S, c, x) ==
    ~x.halt /\ ~x.unknown =>
        /\ x.rung # "PROHIBITED"
        /\ \A q \in S : /\ Known(c, q)
                        /\ tier_rank(x.rung) <= tier_rank(Asserts[q][c[q]].rung)

\* Nothing is found that was not asserted, and the basis is one of its tier.
Grounded(S, c, x) ==
    /\ x.unknown => \E q \in S : ~Known(c, q)
    /\ x.rung # "NONE" => \E q \in S : AssertsRung(c, q, x.rung)
    /\ OptionsNameTheirBasis /\ x.rung # "NONE" => x.sub # "NONE" /\ TierOf[x.sub] = x.rung

Judged(S, c, x) ==
    x \in Findings /\ HaltJudged(S, c, x) /\ GoesOn(S, c, x) /\ Grounded(S, c, x)

\* An option of a question of the tree.
LEMMA OptionTypes ==
    ASSUME NEW q \in Questions, NEW o \in DOMAIN Asserts[q]
    PROVE  /\ Asserts[q][o].rung \in Rungs
           /\ Asserts[q][o].sub \in Subcategories \cup {"NONE"}
           /\ OptionsNameTheirBasis /\ Asserts[q][o].rung # "NONE" =>
                 Asserts[q][o].sub # "NONE" /\ TierOf[Asserts[q][o].sub] = Asserts[q][o].rung
<1>1. Asserts[q][o] \in [rung : Rungs, sub : Subcategories \cup {"NONE"}]
  BY DEF ClassificationRulesAssumption
<1> QED BY <1>1 DEF OptionsNameTheirBasis

LEMMA RanksOfRungs ==
    /\ \A r \in Rungs : tier_rank(r) \in 0 .. 4
    /\ \A r \in Rungs : tier_rank(r) = 0 <=> r = "PROHIBITED"
    /\ \A r, s \in Rungs : tier_rank(r) = tier_rank(s) => r = s
<1>1. Rungs = {"PROHIBITED", "HIGH", "LIMITED", "MINIMAL", "NONE"} BY DEF Rungs, StorableTiers
<1>2. /\ tier_rank("PROHIBITED") = 0 /\ tier_rank("HIGH") = 1 /\ tier_rank("LIMITED") = 2
      /\ tier_rank("MINIMAL") = 3 /\ tier_rank("NONE") = 4
  BY DEF tier_rank
<1> QED BY <1>1, <1>2

\* A prohibited practice or an unknown option ends the weighing.
LEMMA EndedStaysJudged ==
    ASSUME NEW S, NEW c, NEW x, Judged(S, c, x), x.halt \/ x.unknown, NEW q
    PROVE  Judged(S \cup {q}, c, x)
<1>1. HaltJudged(S \cup {q}, c, x) BY DEF Judged, HaltJudged
<1>2. GoesOn(S \cup {q}, c, x) BY DEF GoesOn
<1>3. Grounded(S \cup {q}, c, x) BY DEF Judged, Grounded
<1> QED BY <1>1, <1>2, <1>3 DEF Judged

\* The weighing of one more question.
LEMMA WeighingJudges ==
    ASSUME NEW S \in SUBSET Questions, NEW c, NEW x, Judged(S, c, x), NEW q \in Questions
    PROVE  Judged(S \cup {q}, c, Weigh(x, q, c[q]))
<1> DEFINE y == Weigh(x, q, c[q])
           a == Asserts[q][c[q]]
<1>1. x \in Findings BY DEF Judged
<1>2. CASE x.halt \/ x.unknown
  <2>1. y = x BY <1>2 DEF Weigh
  <2> QED BY <1>2, <2>1, EndedStaysJudged
<1>3. CASE ~x.halt /\ ~x.unknown /\ ~Known(c, q)
  <2>1. y = [x EXCEPT !.unknown = TRUE] BY <1>3 DEF Weigh, Known
  <2> HIDE DEF y
  <2>2. /\ y \in Findings /\ y.unknown /\ y.halt = x.halt /\ y.rung = x.rung
        /\ y.sub = x.sub
    BY <1>1, <2>1 DEF Findings
  <2>3. HaltJudged(S \cup {q}, c, y) BY <1>3, <2>2 DEF HaltJudged
  <2>4. GoesOn(S \cup {q}, c, y) BY <2>2 DEF GoesOn
  <2>5. Grounded(S \cup {q}, c, y) BY <1>3, <2>2 DEF Judged, Grounded
  <2> QED BY <2>2, <2>3, <2>4, <2>5 DEF Judged, y
<1>4. CASE /\ ~x.halt /\ ~x.unknown /\ Known(c, q)
           /\ tier_rank(a.rung) >= tier_rank(x.rung)
  <2>1. y = x BY <1>4 DEF Weigh, Known
  <2>2. a.rung \in Rungs /\ x.rung \in Rungs BY <1>1, <1>4, OptionTypes DEF Known, Findings
  <2>3. tier_rank(x.rung) <= tier_rank(a.rung) BY <1>4, <2>2, RanksOfRungs
  <2>4. HaltJudged(S \cup {q}, c, x) BY <1>4 DEF HaltJudged
  <2>5. GoesOn(S \cup {q}, c, x)
    BY <1>4, <2>3 DEF Judged, GoesOn
  <2>6. Grounded(S \cup {q}, c, x) BY DEF Judged, Grounded
  <2> QED BY <1>1, <2>1, <2>4, <2>5, <2>6 DEF Judged
<1>5. CASE /\ ~x.halt /\ ~x.unknown /\ Known(c, q)
           /\ ~(tier_rank(a.rung) >= tier_rank(x.rung))
  <2>1. y = [rung |-> a.rung, sub |-> IF a.sub # "NONE" THEN a.sub ELSE x.sub,
             halt |-> a.rung = "PROHIBITED", unknown |-> FALSE]
    BY <1>5 DEF Weigh, Known
  <2>2. /\ a.rung \in Rungs /\ x.rung \in Rungs /\ a.sub \in Subcategories \cup {"NONE"}
        /\ x.sub \in Subcategories \cup {"NONE"}
        /\ OptionsNameTheirBasis /\ a.rung # "NONE" => a.sub # "NONE" /\ TierOf[a.sub] = a.rung
    BY <1>1, <1>5, OptionTypes DEF Known, Findings
  <2>3. /\ y.rung = a.rung /\ ~y.unknown /\ y.halt = (a.rung = "PROHIBITED")
        /\ y.sub = IF a.sub # "NONE" THEN a.sub ELSE x.sub
        /\ AssertsRung(c, q, a.rung)
    BY <1>5, <2>1 DEF AssertsRung
  <2>4. y \in Findings
    <3>1. (a.rung = "PROHIBITED") \in BOOLEAN OBVIOUS
    <3>2. (IF a.sub # "NONE" THEN a.sub ELSE x.sub) \in Subcategories \cup {"NONE"} BY <2>2
    <3> HIDE DEF a
    <3> QED BY <2>1, <2>2, <3>1, <3>2 DEF Findings
  <2>5. \A r \in Rungs : tier_rank(x.rung) <= tier_rank(r) => tier_rank(a.rung) <= tier_rank(r)
    BY <1>5, <2>2, RanksOfRungs
  <2>6. tier_rank(a.rung) <= tier_rank(a.rung) BY <2>2, RanksOfRungs
  <2> HIDE DEF y
  <2>7. HaltJudged(S \cup {q}, c, y) BY <2>3 DEF HaltJudged
  <2>8. GoesOn(S \cup {q}, c, y)
    <3> SUFFICES ASSUME ~y.halt
                 PROVE  /\ y.rung # "PROHIBITED"
                        /\ \A p \in S \cup {q} :
                              /\ Known(c, p)
                              /\ tier_rank(y.rung) <= tier_rank(Asserts[p][c[p]].rung)
      BY DEF GoesOn
    <3>1. ASSUME NEW p \in S
          PROVE  Known(c, p) /\ tier_rank(a.rung) <= tier_rank(Asserts[p][c[p]].rung)
      <4>1. Known(c, p) /\ tier_rank(x.rung) <= tier_rank(Asserts[p][c[p]].rung)
        BY <1>5 DEF Judged, GoesOn
      <4>2. Asserts[p][c[p]].rung \in Rungs BY <4>1, OptionTypes DEF Known
      <4> QED BY <2>5, <4>1, <4>2
    <3> QED BY <1>5, <2>3, <2>6, <3>1
  <2>9. Grounded(S \cup {q}, c, y) BY <2>2, <2>3 DEF Grounded
  <2> QED BY <2>4, <2>7, <2>8, <2>9 DEF Judged, y
<1> QED BY <1>2, <1>3, <1>4, <1>5

\* The questions answered up to a place of the list.
Codes(a, n) == {a[i][1] : i \in 1 .. n}

LEMMA AnswersAre ==
    ASSUME NEW a \in Answers
    PROVE  /\ Len(a) \in Nat /\ DOMAIN a = 1 .. Len(a)
           /\ \A i \in 1 .. Len(a) : a[i] \in QuestionCodes \X OptionCodes
           /\ answered_codes(a) = Codes(a, Len(a))
BY DEF Answers, answered_codes, Codes

\* Every place of the list leaves the questions up to it weighed.
LEMMA ListIsJudged ==
    ASSUME NEW a \in Answers, answered_codes(a) \subseteq Questions
    PROVE  Judged(answered_codes(a), answer_map(a), FoundUpTo(a)[Len(a)])
<1> DEFINE c == answer_map(a)
           F == FoundUpTo(a)
           last == Len(a)
           judged == {n \in Nat : n <= last => Judged(Codes(a, n), c, F[n])}
<1>1. /\ last \in Nat /\ answered_codes(a) = Codes(a, last)
      /\ \A i \in 1 .. last : a[i][1] \in Questions
  BY AnswersAre DEF answered_codes
<1>2. F = [i \in 0 .. last |->
             IF i = 0 THEN NothingFound ELSE WeighedAt(a, i, F[i - 1])]
  BY FoundUpToIsDefined
<1> HIDE DEF c, F, last
<1>3. Judged(Codes(a, 0), c, NothingFound)
  <2>1. Codes(a, 0) = {} BY DEF Codes
  <2>2. NothingFound \in Findings BY DEF NothingFound, Findings, Rungs
  <2>3. HaltJudged({}, c, NothingFound) BY DEF NothingFound, HaltJudged
  <2>4. GoesOn({}, c, NothingFound) BY DEF NothingFound, GoesOn
  <2>5. Grounded({}, c, NothingFound) BY DEF NothingFound, Grounded
  <2> QED BY <2>1, <2>2, <2>3, <2>4, <2>5 DEF Judged
<1>4. 0 \in judged
  <2>1. F[0] = NothingFound BY <1>1, <1>2
  <2> QED BY <1>3, <2>1
<1>5. ASSUME NEW n \in Nat, n \in judged
      PROVE  n + 1 \in judged
  <2> SUFFICES ASSUME n + 1 <= last
               PROVE  Judged(Codes(a, n + 1), c, F[n + 1])
    OBVIOUS
  <2> DEFINE m == n + 1
             q == a[m][1]
  <2>1. n <= last /\ m \in 1 .. last /\ m \in 0 .. last /\ m # 0 /\ m - 1 = n BY <1>1
  <2>2. Judged(Codes(a, n), c, F[n]) BY <1>5, <2>1
  <2> HIDE DEF m
  <2>3. F[m] = WeighedAt(a, m, F[n]) BY <1>2, <2>1
  <2>4. q \in Questions BY <1>1, <2>1
  <2>5. Codes(a, n) \in SUBSET Questions
    <3>1. \A i \in 1 .. n : i \in 1 .. last BY <1>1, <2>1
    <3> QED BY <1>1, <3>1 DEF Codes
  <2>6. Codes(a, m) = Codes(a, n) \cup {q}
    <3>1. 1 .. m = (1 .. n) \cup {m} BY <2>1 DEF m
    <3> QED BY <3>1 DEF Codes
  <2>7. CASE \E j \in 1 .. m - 1 : a[j][1] = q
    <3>1. F[m] = F[n] BY <2>3, <2>7 DEF WeighedAt
    <3>2. q \in Codes(a, n) BY <2>1, <2>7 DEF Codes
    <3>3. Codes(a, m) = Codes(a, n) BY <2>6, <3>2
    <3> QED BY <2>2, <3>1, <3>3 DEF m
  <2>8. CASE ~(\E j \in 1 .. m - 1 : a[j][1] = q)
    <3>1. F[m] = Weigh(F[n], q, c[q]) BY <2>3, <2>8 DEF WeighedAt, c
    <3> HIDE DEF q
    <3>2. Judged(Codes(a, n) \cup {q}, c, Weigh(F[n], q, c[q]))
      BY <2>2, <2>4, <2>5, WeighingJudges
    <3> QED BY <2>6, <3>1, <3>2 DEF m
  <2> QED BY <2>7, <2>8
<1> HIDE DEF judged
<1>6. last \in judged BY <1>1, <1>4, <1>5, CountingUp
<1>7. Judged(Codes(a, last), c, F[last]) BY <1>1, <1>6 DEF judged
<1> QED BY <1>1, <1>7 DEF c, F, last

\* The last answer to a question is the one the map keeps.
LEMMA MapKeepsTheLast ==
    ASSUME NEW a \in Answers, NEW q \in answered_codes(a)
    PROVE  \E i \in DOMAIN a : /\ a[i] = <<q, answer_map(a)[q]>>
                               /\ \A j \in DOMAIN a : j > i => a[j][1] # q
<1> DEFINE places == {i \in DOMAIN a : a[i][1] = q}
           last == CHOOSE i \in places : \A j \in places : j <= i
<1>1. /\ Len(a) \in Nat /\ DOMAIN a = 1 .. Len(a)
      /\ \A i \in DOMAIN a : a[i] \in QuestionCodes \X OptionCodes
  BY AnswersAre
<1>2. places \in SUBSET (1 .. Len(a)) /\ places # {} BY <1>1 DEF answered_codes
<1>3. \E i \in places : \A j \in places : j <= i
  <2> HIDE DEF places
  <2> QED BY <1>1, <1>2, GreatestNumber
<1>4. last \in places /\ \A j \in places : j <= last BY <1>3
<1>5. answer_map(a)[q] = a[last][2] BY DEF answer_map
<1> HIDE DEF last
<1>6. a[last] = <<q, answer_map(a)[q]>> BY <1>1, <1>4, <1>5
<1>7. ASSUME NEW j \in DOMAIN a, j > last PROVE a[j][1] # q
  <2>1. j \in Nat /\ last \in Nat /\ ~(j <= last) BY <1>1, <1>4, <1>7
  <2> QED BY <1>4, <2>1
<1> QED BY <1>4, <1>6, <1>7

LEMMA LastAnswersAreMapped ==
    ASSUME supplied \in Answers
    PROVE  LastAnswers = {<<q, answer_map(supplied)[q]>> : q \in answered_codes(supplied)}
<1> DEFINE c == answer_map(supplied)
           mapped == {<<q, c[q]>> : q \in answered_codes(supplied)}
           IsLast(i) == \A j \in DOMAIN supplied : j > i => supplied[j][1] # supplied[i][1]
<1>1. /\ DOMAIN supplied = 1 .. Len(supplied) /\ Len(supplied) \in Nat
      /\ \A i \in DOMAIN supplied : supplied[i] \in QuestionCodes \X OptionCodes
  BY AnswersAre
<1>2. LastAnswers = {supplied[i] : i \in {i \in DOMAIN supplied : IsLast(i)}}
  BY DEF LastAnswers
<1>3. ASSUME NEW x \in LastAnswers PROVE x \in mapped
  <2>1. PICK i \in DOMAIN supplied : x = supplied[i] /\ IsLast(i) BY <1>2
  <2> DEFINE q == supplied[i][1]
  <2>2. q \in answered_codes(supplied) BY DEF answered_codes
  <2>3. PICK k \in DOMAIN supplied : /\ supplied[k] = <<q, c[q]>>
                                     /\ \A j \in DOMAIN supplied : j > k => supplied[j][1] # q
    BY <2>2, MapKeepsTheLast
  <2>4. supplied[k][1] = q BY <2>3
  <2>5. ~(k > i) /\ ~(i > k) BY <2>1, <2>3, <2>4
  <2>6. k = i BY <1>1, <2>5
  <2>7. x = <<q, c[q]>> BY <2>1, <2>3, <2>6
  <2> HIDE DEF q, c
  <2> QED BY <2>2, <2>7
<1>4. ASSUME NEW x \in mapped PROVE x \in LastAnswers
  <2>1. PICK q \in answered_codes(supplied) : x = <<q, c[q]>> BY <1>4
  <2>2. PICK k \in DOMAIN supplied : /\ supplied[k] = <<q, c[q]>>
                                     /\ \A j \in DOMAIN supplied : j > k => supplied[j][1] # q
    BY MapKeepsTheLast
  <2>3. supplied[k][1] = q BY <2>2
  <2>4. IsLast(k) BY <2>2, <2>3
  <2> HIDE DEF IsLast, c
  <2> QED BY <1>2, <2>1, <2>2, <2>4
<1> QED BY <1>3, <1>4

\* The worst of a set of tiers is the only one of its rank.
LEMMA OnlyOneGoverns ==
    ASSUME NEW S \in SUBSET StorableTiers, NEW t \in S,
           \A r \in S : tier_rank(t) <= tier_rank(r)
    PROVE  t = Governing(S)
<1>1. Governing(S) \in S /\ \A r \in S : tier_rank(Governing(S)) <= tier_rank(r)
  BY GoverningIsWorst
<1>2. t \in Rungs /\ Governing(S) \in Rungs BY <1>1 DEF Rungs
<1>3. /\ tier_rank(t) <= tier_rank(Governing(S)) /\ tier_rank(Governing(S)) <= tier_rank(t)
      /\ tier_rank(t) \in 0 .. 4 /\ tier_rank(Governing(S)) \in 0 .. 4
  BY <1>1, <1>2, RanksOfRungs
<1>4. tier_rank(t) = tier_rank(Governing(S)) BY <1>3
<1> QED BY <1>2, <1>4, RanksOfRungs

\* What was judged decides the outcome: rungs are the ones asserted in S.
LEMMA JudgedDecides ==
    ASSUME NEW S \in SUBSET Questions, NEW c, NEW x, Judged(S, c, x),
           \A q \in S : Known(c, q)
    PROVE  LET rungs == {Asserts[q][c[q]].rung : q \in S} \ {"NONE"} IN
           /\ ~x.unknown
           /\ x.halt <=> "PROHIBITED" \in rungs
           /\ x.halt => x.rung = "PROHIBITED"
           /\ x.rung = "NONE" <=> rungs = {}
           /\ rungs # {} => x.rung = Governing(rungs)
           /\ OptionsNameTheirBasis /\ rungs # {} => TierOf[x.sub] = x.rung
<1> DEFINE rungs == {Asserts[q][c[q]].rung : q \in S} \ {"NONE"}
<1>1. ~x.unknown BY DEF Judged, Grounded
<1>2. /\ x.rung \in Rungs /\ \A q \in S : Asserts[q][c[q]].rung \in Rungs
  BY OptionTypes DEF Known, Judged, Findings
<1>3. rungs \in SUBSET StorableTiers BY <1>2 DEF Rungs
<1>4. x.rung # "NONE" => x.rung \in rungs BY DEF Judged, Grounded, AssertsRung
<1>5. x.halt => x.rung = "PROHIBITED" BY DEF Judged, HaltJudged
<1>6. ~x.halt => /\ x.rung # "PROHIBITED"
                 /\ \A r \in rungs : tier_rank(x.rung) <= tier_rank(r)
  BY <1>1 DEF Judged, GoesOn
<1>7. \A r \in rungs : tier_rank(x.rung) <= tier_rank(r)
  <2>1. tier_rank("PROHIBITED") = 0 BY DEF tier_rank
  <2>2. \A r \in rungs : 0 <= tier_rank(r) BY <1>3, RanksOfRungs DEF Rungs
  <2> HIDE DEF rungs
  <2> QED BY <1>5, <1>6, <2>1, <2>2
<1> HIDE DEF rungs
<1>8. x.rung = "NONE" <=> rungs = {}
  <2>1. ASSUME x.rung = "NONE", NEW r \in rungs PROVE FALSE
    <3>1. tier_rank("NONE") = 4 BY DEF tier_rank
    <3>2. r \in StorableTiers /\ 4 <= tier_rank(r) BY <1>3, <1>7, <2>1, <3>1
    <3> QED BY <3>2 DEF StorableTiers, tier_rank
  <2> QED BY <1>4, <2>1
<1>9. rungs # {} => x.rung = Governing(rungs)
  BY <1>3, <1>4, <1>7, <1>8, OnlyOneGoverns
<1>10. x.halt <=> "PROHIBITED" \in rungs
  <2>1. x.halt => "PROHIBITED" \in rungs BY <1>4, <1>5
  <2>2. ASSUME "PROHIBITED" \in rungs, ~x.halt PROVE FALSE
    <3>1. tier_rank("PROHIBITED") = 0 BY DEF tier_rank
    <3>2. tier_rank(x.rung) <= 0 BY <1>7, <2>2, <3>1
    <3>3. tier_rank(x.rung) \in 0 .. 4 BY <1>2, RanksOfRungs
    <3>4. tier_rank(x.rung) = 0 BY <3>2, <3>3
    <3>5. x.rung = "PROHIBITED" BY <1>2, <3>4, RanksOfRungs
    <3> QED BY <1>6, <2>2, <3>5
  <2> QED BY <2>1, <2>2
<1>11. OptionsNameTheirBasis /\ rungs # {} => TierOf[x.sub] = x.rung
  BY <1>8 DEF Judged, Grounded
<1> QED BY <1>1, <1>5, <1>8, <1>9, <1>10, <1>11 DEF rungs

\* The outcome of a list of answers.
LEMMA OutcomeIsAsserted ==
    ASSUME supplied \in Answers, preview = resolve_context_classification(supplied)
    PROVE  ComputedTierIsAsserted
<1> DEFINE S == answered_codes(supplied)
           c == answer_map(supplied)
           x == FoundUpTo(supplied)[Len(supplied)]
           rungs == {Asserts[q][c[q]].rung : q \in S} \ {"NONE"}
           named == {a[1] : a \in LastAnswers} \subseteq Questions
           known == \A a \in LastAnswers : a[2] \in DOMAIN Asserts[a[1]]
           complete == {a[1] : a \in LastAnswers} = Questions
<1>1. S \subseteq Questions => Judged(S, c, x) BY ListIsJudged
<1>2. LastAnswers = {<<q, c[q]>> : q \in S} BY LastAnswersAreMapped
<1>3. preview = IF ~(S \subseteq Questions) \/ x.unknown
                THEN [kind |-> "REJECTED", tier |-> "NONE", sub |-> "NONE"]
                ELSE IF x.halt
                THEN [kind |-> "PROHIBITED_HALT", tier |-> "PROHIBITED", sub |-> x.sub]
                ELSE IF Questions \ S # {}
                THEN [kind |-> "UNRESOLVED", tier |-> "NONE", sub |-> "NONE"]
                ELSE IF x.rung = "NONE"
                THEN [kind |-> "RESOLVED", tier |-> "MINIMAL", sub |-> "NONE"]
                ELSE [kind |-> "RESOLVED", tier |-> x.rung, sub |-> x.sub]
  BY DEF resolve_context_classification, get_context_questions
<1> HIDE DEF S, c, x
<1>4. \A a \in LastAnswers : a[1] \in S /\ a[2] = c[a[1]]
  <2> SUFFICES ASSUME NEW a \in LastAnswers PROVE a[1] \in S /\ a[2] = c[a[1]] OBVIOUS
  <2>1. PICK q \in S : a = <<q, c[q]>> BY <1>2
  <2>2. a[1] = q /\ a[2] = c[q] BY <2>1
  <2> QED BY <2>2
<1>5. \A q \in S : \E a \in LastAnswers : a[1] = q /\ a[2] = c[q]
  <2> SUFFICES ASSUME NEW q \in S PROVE \E a \in LastAnswers : a[1] = q /\ a[2] = c[q]
    OBVIOUS
  <2> DEFINE b == <<q, c[q]>>
  <2>1. b[1] = q /\ b[2] = c[q] OBVIOUS
  <2>2. b \in LastAnswers BY <1>2
  <2> QED BY <2>1, <2>2
<1>6. known <=> \A q \in S : Known(c, q)
  <2>1. ASSUME known, NEW q \in S PROVE Known(c, q)
    <3>1. PICK a \in LastAnswers : a[1] = q /\ a[2] = c[q] BY <1>5
    <3> QED BY <2>1, <3>1 DEF Known
  <2>2. ASSUME \A q \in S : Known(c, q) PROVE known
    BY <1>4, <2>2 DEF Known
  <2> QED BY <2>1, <2>2
<1>7. {a[1] : a \in LastAnswers} = S BY <1>4, <1>5
<1>8. S \subseteq Questions => (complete <=> Questions \ S = {}) BY <1>7
<1>9. named <=> S \subseteq Questions BY <1>7
<1>10. AssertedRungs = rungs
  <2> DEFINE all == {Asserts[a[1]][a[2]].rung : a \in LastAnswers}
             mapped == {Asserts[q][c[q]].rung : q \in S}
  <2>1. ASSUME NEW r \in all PROVE r \in mapped
    <3>1. PICK a \in LastAnswers : r = Asserts[a[1]][a[2]].rung BY <2>1
    <3>2. r = Asserts[a[1]][c[a[1]]].rung /\ a[1] \in S BY <1>4, <3>1
    <3> QED BY <3>2
  <2>2. ASSUME NEW r \in mapped PROVE r \in all
    <3>1. PICK q \in S : r = Asserts[q][c[q]].rung BY <2>2
    <3>2. PICK a \in LastAnswers : a[1] = q /\ a[2] = c[q] BY <1>5
    <3>3. r = Asserts[a[1]][a[2]].rung BY <3>1, <3>2
    <3> QED BY <3>3
  <2>3. all = mapped BY <2>1, <2>2
  <2> HIDE DEF all, mapped
  <2>4. AssertedRungs = all \ {"NONE"} BY DEF AssertedRungs, all
  <2> QED BY <2>3, <2>4 DEF mapped
<1> HIDE DEF named, known, complete
<1>11. CASE ~named
  <2>1. preview.kind = "REJECTED" BY <1>3, <1>9, <1>11
  <2> QED BY <1>11, <2>1 DEF ComputedTierIsAsserted, named
<1>12. CASE named /\ ~known
  <2>1. x.unknown \/ x.halt BY <1>1, <1>6, <1>12, <1>9 DEF Judged, GoesOn
  <2>2. preview.kind \in {"REJECTED", "PROHIBITED_HALT"} BY <1>3, <1>12, <1>9, <2>1
  <2> QED BY <1>12, <2>2 DEF ComputedTierIsAsserted, named, known
<1>13. CASE named /\ known
  <2> HIDE DEF rungs
  <2>1. /\ ~x.unknown /\ (x.halt <=> "PROHIBITED" \in rungs)
        /\ x.halt => x.rung = "PROHIBITED"
        /\ x.rung = "NONE" <=> rungs = {}
        /\ rungs # {} => x.rung = Governing(rungs)
        /\ OptionsNameTheirBasis /\ rungs # {} => TierOf[x.sub] = x.rung
    BY <1>1, <1>6, <1>13, <1>9, JudgedDecides DEF rungs
  <2> S \subseteq Questions BY <1>13, <1>9
  <2>2. preview.kind # "REJECTED" BY <1>3, <2>1
  <2>3. preview.kind = "PROHIBITED_HALT" <=> "PROHIBITED" \in rungs BY <1>3, <2>1
  <2>4. preview.kind = "RESOLVED" <=> complete /\ "PROHIBITED" \notin rungs
    BY <1>3, <1>8, <2>1
  <2>5. preview.kind \in {"RESOLVED", "PROHIBITED_HALT"} =>
           preview.tier = IF rungs = {} THEN "MINIMAL" ELSE Governing(rungs)
    BY <1>3, <2>1
  <2>6. /\ preview.kind \in {"RESOLVED", "PROHIBITED_HALT"} /\ OptionsNameTheirBasis
        /\ rungs # {}
        => TierOf[preview.sub] = preview.tier
    BY <1>3, <2>1
  <2> QED BY <1>10, <1>13, <2>2, <2>3, <2>4, <2>5, <2>6 DEF ComputedTierIsAsserted, named, known, complete
<1> QED BY <1>11, <1>12, <1>13

\* The outcome a preview shows is that of its answers.
PreviewOfAnswers ==
    supplied \in Answers /\ preview = resolve_context_classification(supplied)

LEMMA PreviewKept ==
    ASSUME PreviewOfAnswers, [InquiryNext]_inquiryVars
    PROVE  PreviewOfAnswers'
<1>1. CASE UNCHANGED inquiryVars BY <1>1 DEF inquiryVars, PreviewOfAnswers
<1>2. ASSUME NEW q \in QuestionCodes, NEW o \in OptionCodes, Preview(q, o)
      PROVE  PreviewOfAnswers'
  <2>1. /\ supplied' = Append(supplied, <<q, o>>)
        /\ preview' = resolve_context_classification(supplied')
    BY <1>2 DEF Preview
  <2>2. supplied' \in Answers BY <2>1 DEF PreviewOfAnswers, Answers
  <2> QED BY <2>1, <2>2 DEF PreviewOfAnswers
<1> QED BY <1>1, <1>2 DEF InquiryNext

(***************************************************************************)
(* For any decision tree and any answers in any order, however long the    *)
(* list: the computed tier is the worst one the last answers assert, a     *)
(* prohibited practice halts whatever is unanswered, and nothing else is   *)
(* computed before the tree is complete (resolve_context_classification).  *)
(***************************************************************************)
THEOREM ComputedTierAlwaysAsserted == InquirySpec => []ComputedTierIsAsserted
<1>1. InquiryInit => PreviewOfAnswers
  BY DEF InquiryInit, PreviewOfAnswers, Answers
<1>2. PreviewOfAnswers /\ [InquiryNext]_inquiryVars => PreviewOfAnswers'
  BY PreviewKept
<1>3. PreviewOfAnswers => ComputedTierIsAsserted
  BY OutcomeIsAsserted DEF PreviewOfAnswers
<1> QED BY <1>1, <1>2, <1>3, PTL DEF InquirySpec

-----------------------------------------------------------------------------
(***************************************************************************)
(* Records.  The first snapshot is stamped if it is approved.              *)
(***************************************************************************)
LEMMA FirstSnapshotIsTyped ==
    ASSUME NEW s \in FirstSnapshots
    PROVE  s \in Snapshots /\ (s.status = "APPROVED" => s.stamped)
<1>1. CASE \E inq \in Inquiries : s = SnapshotOf(register_snapshot(inq))
  <2> PICK inq \in Inquiries : s = SnapshotOf(register_snapshot(inq)) BY <1>1
  <2> QED BY StampedWithoutApproval DEF SnapshotOf, Snapshots
<1>2. CASE \E inq \in Inquiries : s = SnapshotOf(register_use_case_snapshot(inq))
  <2> PICK inq \in Inquiries : s = SnapshotOf(register_use_case_snapshot(inq)) BY <1>2
  <2>1. [inq EXCEPT !.declared = NoCategory] \in Inquiries BY DEF Inquiries
  <2>2. register_use_case_snapshot(inq).tier \in Tiers
    BY <2>1, ResolvedTier DEF register_use_case_snapshot, Tiers
  <2> QED BY <2>2 DEF register_use_case_snapshot, SnapshotOf, Snapshots
<1> QED BY <1>1, <1>2 DEF FirstSnapshots

LEMMA ComputedTiersAreStorable == ComputedTiers \subseteq StorableTiers
BY DEF ComputedTiers, stored_tiers

(***************************************************************************)
(* What a request carries: the tier it read is the effective tier of then, *)
(* so that something was ratified unless the use case was unclassified,    *)
(* and a sign-off approves one snapshot and stamps the tier of that one.   *)
(***************************************************************************)
SomethingIsRatified == \E v \in DOMAIN snapshots : Ratified(v)

ReadsAreRatified ==
    \A w \in Writers : transaction[w].read # "UNCLASSIFIED" => SomethingIsRatified

SignOffsNameTheirRow ==
    \A w \in Writers : transaction[w].op = "sign_off" =>
        /\ transaction[w].phase = "loaded"
        /\ \E v \in DOMAIN snapshots :
              transaction[w].aim = {v} /\ snapshots[v].tier = transaction[w].tier

RecordsInv ==
    /\ RecordsTypeOK /\ OneCurrent
    /\ ReadsAreRatified /\ SignOffsNameTheirRow
    /\ EffectiveTierIsRatified

LEMMA RecordsInitially == RecordsInit => RecordsInv
<1> SUFFICES ASSUME RecordsInit PROVE RecordsInv OBVIOUS
<1>1. PICK s \in FirstSnapshots :
          snapshots = <<s>> /\ eu_tier = IF s.stamped THEN s.tier ELSE "UNCLASSIFIED"
  BY DEF RecordsInit
<1>2. s \in Snapshots /\ (s.status = "APPROVED" => s.stamped) BY FirstSnapshotIsTyped
<1>3. /\ snapshots \in Seq(Snapshots) /\ Len(snapshots) = 1
      /\ DOMAIN snapshots = {1} /\ snapshots[1] = s
  BY <1>1, <1>2
<1>4. Idle \in Transactions BY DEF Idle, Transactions, Tiers
<1>5. RecordsTypeOK
  <2>1. snapshots \in Seq(Snapshots) /\ Len(snapshots) \in Versions /\ {1} \subseteq Versions
    BY <1>3 DEF Versions
  <2>2. eu_tier \in Tiers BY <1>1, <1>2 DEF Snapshots, Tiers
  <2>3. current = {1} /\ outdated = FALSE /\ transaction = [w \in Writers |-> Idle]
    BY DEF RecordsInit
  <2> QED BY <1>4, <2>1, <2>2, <2>3 DEF RecordsTypeOK
<1>6. OneCurrent BY <1>3 DEF RecordsInit, OneCurrent
<1>7. ReadsAreRatified /\ SignOffsNameTheirRow
  BY DEF RecordsInit, ReadsAreRatified, SignOffsNameTheirRow, Idle
<1>8. EffectiveTierIsRatified
  <2>1. \A v \in DOMAIN snapshots : Ratified(v) <=> s.stamped
    BY <1>2, <1>3 DEF Ratified
  <2>2. CASE s.stamped
    <3>1. eu_tier = s.tier BY <1>1, <2>2
    <3>2. 1 \in DOMAIN snapshots /\ Ratified(1) /\ eu_tier = snapshots[1].tier
      BY <1>3, <2>1, <2>2, <3>1
    <3>3. \A v \in DOMAIN snapshots : eu_tier = snapshots[v].tier BY <1>3, <3>1
    <3> QED BY <3>2, <3>3 DEF EffectiveTierIsRatified
  <2>3. CASE ~s.stamped
    BY <1>1, <2>1, <2>3 DEF EffectiveTierIsRatified, NewestRatified
  <2> QED BY <2>2, <2>3
<1> QED BY <1>5, <1>6, <1>7, <1>8 DEF RecordsInv

\* A step that touches no row keeps what is said of the rows.
LEMMA RowsAside ==
    ASSUME RecordsInv, UNCHANGED <<snapshots, current, eu_tier, outdated>>
    PROVE  OneCurrent' /\ EffectiveTierIsRatified' /\ (SomethingIsRatified' <=> SomethingIsRatified)
BY DEF RecordsInv, OneCurrent, EffectiveTierIsRatified, NewestRatified, Ratified,
       SomethingIsRatified

\* Neither does the end of a request disturb the other requests.
LEMMA RequestEnds ==
    ASSUME RecordsInv, NEW w \in Writers,
           transaction' = [transaction EXCEPT ![w] = Idle],
           SomethingIsRatified => SomethingIsRatified',
           \A v \in DOMAIN snapshots :
               v \in DOMAIN snapshots' /\ snapshots'[v].tier = snapshots[v].tier
    PROVE  /\ (transaction \in [Writers -> Transactions])'
           /\ ReadsAreRatified' /\ SignOffsNameTheirRow'
<1>1. transaction \in [Writers -> Transactions] BY DEF RecordsInv, RecordsTypeOK
<1>2. Idle \in Transactions BY DEF Idle, Transactions, Tiers
<1>3. (transaction \in [Writers -> Transactions])' BY <1>1, <1>2
<1>4. \A o \in Writers : transaction'[o] = IF o = w THEN Idle ELSE transaction[o]
  BY <1>1
<1>5. ReadsAreRatified'
  BY <1>4 DEF RecordsInv, ReadsAreRatified, Idle
<1>6. SignOffsNameTheirRow'
  BY <1>4 DEF RecordsInv, SignOffsNameTheirRow, Idle
<1> QED BY <1>3, <1>5, <1>6

\* A request that has read the use case.
LEMMA LoadKeeps ==
    ASSUME RecordsInv, NEW w \in Writers, NEW op \in {"override", "compute", "sign_off"},
           NEW tier \in Tiers, NEW aim \in SUBSET Versions, LoadFor(w, op, tier, aim),
           op = "sign_off" =>
               \E v \in DOMAIN snapshots : aim = {v} /\ snapshots[v].tier = tier
    PROVE  RecordsInv'
<1> DEFINE t == [phase |-> "loaded", op |-> op, tier |-> tier, read |-> eu_tier, aim |-> aim]
<1>1. /\ transaction \in [Writers -> Transactions] /\ eu_tier \in Tiers
      /\ transaction' = [transaction EXCEPT ![w] = t]
      /\ UNCHANGED <<snapshots, current, eu_tier, outdated>>
  BY DEF RecordsInv, RecordsTypeOK, LoadFor
<1>2. t \in Transactions BY <1>1 DEF Transactions
<1>3. \A o \in Writers : transaction'[o] = IF o = w THEN t ELSE transaction[o] BY <1>1
<1>4. RecordsTypeOK' BY <1>1, <1>2 DEF RecordsInv, RecordsTypeOK
<1>5. eu_tier # "UNCLASSIFIED" => SomethingIsRatified
  BY DEF RecordsInv, EffectiveTierIsRatified, SomethingIsRatified
<1>6. OneCurrent' /\ EffectiveTierIsRatified' /\ (SomethingIsRatified' <=> SomethingIsRatified)
  BY <1>1, RowsAside
<1>7. ReadsAreRatified' BY <1>3, <1>5, <1>6 DEF RecordsInv, ReadsAreRatified
<1>8. SignOffsNameTheirRow' BY <1>1, <1>3 DEF RecordsInv, SignOffsNameTheirRow
<1> QED BY <1>4, <1>6, <1>7, <1>8 DEF RecordsInv

\* What a writer's INSERT does to the rows.
RowIsAdded(n, row) ==
    /\ DOMAIN snapshots' = DOMAIN snapshots \cup {n}
    /\ \A v \in DOMAIN snapshots :
          /\ v < n /\ snapshots'[v] = snapshots[v]
          /\ Ratified(v)' <=> Ratified(v)
    /\ snapshots'[n] = row /\ n \in Nat

(***************************************************************************)
(* A new current row.  Whoever writes it has every current row in its aim, *)
(* so that it becomes the only one.                                        *)
(***************************************************************************)
LEMMA NewRowKeeps ==
    ASSUME RecordsInv, NEW w \in Writers, NEW row \in Snapshots,
           NEW n \in Nat, n = NextVersion, n <= MaxSnapshots, NoOtherCurrent(transaction[w].aim),
           snapshots' = Append(snapshots, row),
           current' = (current \ transaction[w].aim) \cup {n},
           transaction' = [transaction EXCEPT ![w] = Idle],
           eu_tier' \in Tiers, outdated' \in BOOLEAN
    PROVE  /\ RecordsTypeOK' /\ OneCurrent' /\ ReadsAreRatified' /\ SignOffsNameTheirRow'
           /\ RowIsAdded(n, row)
<1>1. /\ snapshots \in Seq(Snapshots) /\ Len(snapshots) \in Versions
      /\ Len(snapshots) \in Nat /\ DOMAIN snapshots = 1 .. Len(snapshots)
  BY DEF RecordsInv, RecordsTypeOK, Versions
<1>2. /\ snapshots' \in Seq(Snapshots) /\ Len(snapshots') = n
      /\ DOMAIN snapshots' = 1 .. n
      /\ \A v \in DOMAIN snapshots : snapshots'[v] = snapshots[v]
      /\ snapshots'[n] = row
  BY <1>1 DEF NextVersion
<1>3. n \in Versions /\ n \in Nat BY <1>1 DEF NextVersion, Versions
<1>4. current' = {n} BY DEF NoOtherCurrent
<1>5. OneCurrent' BY <1>2, <1>4 DEF OneCurrent
<1>6. DOMAIN snapshots' = DOMAIN snapshots \cup {n}
  BY <1>1, <1>2, <1>3 DEF NextVersion
<1>7. \A v \in DOMAIN snapshots :
          /\ v < n /\ snapshots'[v] = snapshots[v]
          /\ Ratified(v)' <=> Ratified(v)
  BY <1>1, <1>2 DEF NextVersion, Ratified
<1>8. SomethingIsRatified => SomethingIsRatified'
  BY <1>6, <1>7 DEF SomethingIsRatified
<1>9. /\ (transaction \in [Writers -> Transactions])'
      /\ ReadsAreRatified' /\ SignOffsNameTheirRow'
  BY <1>6, <1>7, <1>8, RequestEnds
<1>10. RecordsTypeOK' BY <1>2, <1>3, <1>4, <1>9 DEF RecordsTypeOK
<1>11. RowIsAdded(n, row) BY <1>2, <1>3, <1>6, <1>7 DEF RowIsAdded
<1> QED BY <1>5, <1>9, <1>10, <1>11

LEMMA OverrideKeeps ==
    ASSUME RecordsInv, NEW w \in Writers, CommitOverride(w)
    PROVE  RecordsInv'
<1> DEFINE t == transaction[w]
           row == [tier |-> t.tier, status |-> "PENDING_REVIEW", stamped |-> TRUE]
<1>n. PICK n \in Nat : n = NextVersion
  BY DEF NextVersion, RecordsInv, RecordsTypeOK
<1>1. /\ t \in Transactions /\ eu_tier \in Tiers /\ outdated \in BOOLEAN
  BY DEF RecordsInv, RecordsTypeOK
<1>2. t.tier \in Tiers /\ row \in Snapshots BY <1>1 DEF Transactions, Snapshots
<1>3. /\ eu_tier' = IF t.tier = t.read THEN eu_tier ELSE t.tier
      /\ outdated' = (t.tier = t.read /\ t.tier # eu_tier)
  BY DEF CommitOverride, Stamp, StampIsLost
<1>t. /\ RecordsTypeOK' /\ OneCurrent' /\ ReadsAreRatified' /\ SignOffsNameTheirRow'
      /\ RowIsAdded(n, row)
  <2>1. eu_tier' \in Tiers /\ outdated' \in BOOLEAN BY <1>1, <1>2, <1>3
  <2>2. /\ n <= MaxSnapshots /\ NoOtherCurrent(transaction[w].aim)
        /\ snapshots' = Append(snapshots, row)
        /\ current' = (current \ transaction[w].aim) \cup {n}
        /\ transaction' = [transaction EXCEPT ![w] = Idle]
    BY <1>n DEF CommitOverride
  <2> HIDE DEF row
  <2> QED BY <1>2, <1>n, <2>1, <2>2, NewRowKeeps
<1>4. /\ DOMAIN snapshots' = DOMAIN snapshots \cup {n}
      /\ \A v \in DOMAIN snapshots :
            /\ v < n /\ snapshots'[v] = snapshots[v]
            /\ Ratified(v)' <=> Ratified(v)
      /\ snapshots'[n] = row /\ n \in Nat
  BY <1>t DEF RowIsAdded
<1>5. n \in DOMAIN snapshots' /\ snapshots'[n].stamped BY <1>4
<1>6. \/ eu_tier' = t.tier
      \/ outdated' /\ eu_tier' = eu_tier /\ SomethingIsRatified
  BY <1>3 DEF RecordsInv, EffectiveTierIsRatified, ReadsAreRatified, SomethingIsRatified
<1>7. EffectiveTierIsRatified'
  <2>1. CASE eu_tier' = t.tier
    <3>1. Ratified(n)' BY <1>5, <1>4 DEF Ratified
    <3>2. \A v \in DOMAIN snapshots' : NewestRatified(v)' => v = n
      BY <1>4, <3>1 DEF NewestRatified
    <3>3. snapshots'[n].tier = t.tier BY <1>4
    <3> QED BY <2>1, <1>5, <3>1, <3>2, <3>3 DEF EffectiveTierIsRatified
  <2>2. CASE outdated' /\ eu_tier' = eu_tier /\ SomethingIsRatified
    <3>1. PICK v \in DOMAIN snapshots : Ratified(v) /\ eu_tier = snapshots[v].tier
      BY <2>2 DEF RecordsInv, EffectiveTierIsRatified, SomethingIsRatified
    <3>2. v \in DOMAIN snapshots' /\ Ratified(v)' /\ snapshots'[v] = snapshots[v]
      BY <1>4, <3>1
    <3> QED BY <2>2, <3>1, <3>2 DEF EffectiveTierIsRatified
  <2> QED BY <1>6, <2>1, <2>2
<1> QED BY <1>t, <1>7 DEF RecordsInv

LEMMA ComputeKeeps ==
    ASSUME RecordsInv, NEW w \in Writers, CommitCompute(w)
    PROVE  RecordsInv'
<1> DEFINE t == transaction[w]
           row == [tier |-> t.tier, status |-> "PENDING_REVIEW", stamped |-> FALSE]
<1>n. PICK n \in Nat : n = NextVersion
  BY DEF NextVersion, RecordsInv, RecordsTypeOK
<1>1. /\ t \in Transactions /\ eu_tier \in Tiers /\ outdated \in BOOLEAN
  BY DEF RecordsInv, RecordsTypeOK
<1>2. row \in Snapshots BY <1>1 DEF Transactions, Snapshots
<1>3. eu_tier' = eu_tier /\ outdated' = outdated BY DEF CommitCompute
<1>t. /\ RecordsTypeOK' /\ OneCurrent' /\ ReadsAreRatified' /\ SignOffsNameTheirRow'
      /\ RowIsAdded(n, row)
  <2>1. eu_tier' \in Tiers /\ outdated' \in BOOLEAN BY <1>1, <1>3
  <2>2. /\ n <= MaxSnapshots /\ NoOtherCurrent(transaction[w].aim)
        /\ snapshots' = Append(snapshots, row)
        /\ current' = (current \ transaction[w].aim) \cup {n}
        /\ transaction' = [transaction EXCEPT ![w] = Idle]
    BY <1>n DEF CommitCompute
  <2> HIDE DEF row
  <2> QED BY <1>2, <1>n, <2>1, <2>2, NewRowKeeps
<1>4. /\ DOMAIN snapshots' = DOMAIN snapshots \cup {n}
      /\ \A v \in DOMAIN snapshots :
            /\ v < n /\ snapshots'[v] = snapshots[v]
            /\ Ratified(v)' <=> Ratified(v)
      /\ snapshots'[n] = row /\ n \in Nat
  BY <1>t DEF RowIsAdded
<1>5. ~Ratified(n)' BY <1>4 DEF Ratified
<1>6. \A v \in DOMAIN snapshots' : Ratified(v)' => v \in DOMAIN snapshots
  BY <1>4, <1>5
<1>7. \A v \in DOMAIN snapshots' :
          NewestRatified(v)' => v \in DOMAIN snapshots /\ NewestRatified(v)
  BY <1>4, <1>6 DEF NewestRatified
<1>8. EffectiveTierIsRatified
  BY DEF RecordsInv
<1>9. EffectiveTierIsRatified'
  <2>1. (\A v \in DOMAIN snapshots : ~Ratified(v)) =>
            \A v \in DOMAIN snapshots' : ~Ratified(v)'
    BY <1>4, <1>6
  <2>2. \A v \in DOMAIN snapshots : Ratified(v) /\ eu_tier = snapshots[v].tier =>
            v \in DOMAIN snapshots' /\ Ratified(v)' /\ eu_tier' = snapshots'[v].tier
    BY <1>3, <1>4
  <2>3. ~outdated => \A v \in DOMAIN snapshots' : NewestRatified(v)' =>
            eu_tier' = snapshots'[v].tier
    BY <1>3, <1>4, <1>7, <1>8 DEF EffectiveTierIsRatified
  <2> QED BY <1>3, <1>8, <2>1, <2>2, <2>3 DEF EffectiveTierIsRatified
<1> QED BY <1>t, <1>9 DEF RecordsInv

(***************************************************************************)
(* A sign-off stamps the tier of the row it approves; unless that row is   *)
(* superseded or the stamp lost, it is the newest there is.                *)
(***************************************************************************)
LEMMA SignOffKeeps ==
    ASSUME RecordsInv, NEW w \in Writers, CommitSignOff(w)
    PROVE  RecordsInv'
<1> DEFINE t == transaction[w]
<1>1. /\ t \in Transactions /\ eu_tier \in Tiers /\ t.tier \in Tiers
      /\ snapshots \in Seq(Snapshots) /\ Len(snapshots) \in Versions
      /\ DOMAIN snapshots = 1 .. Len(snapshots) /\ Len(snapshots) \in Nat
  BY DEF RecordsInv, RecordsTypeOK, Transactions, Versions
<1>2. PICK x \in DOMAIN snapshots : t.aim = {x} /\ snapshots[x].tier = t.tier
  BY DEF RecordsInv, SignOffsNameTheirRow, CommitSignOff
<1>3. /\ snapshots' = [v \in DOMAIN snapshots |->
            IF v = x THEN [snapshots[v] EXCEPT !.status = "APPROVED"] ELSE snapshots[v]]
      /\ eu_tier' = IF t.tier = t.read THEN eu_tier ELSE t.tier
      /\ outdated' = ((t.tier = t.read /\ t.tier # eu_tier) \/ ~({x} \subseteq current))
      /\ transaction' = [transaction EXCEPT ![w] = Idle] /\ current' = current
  BY <1>2 DEF CommitSignOff, Stamp, StampIsLost
<1>4. \A v \in DOMAIN snapshots : snapshots[v] \in Snapshots BY <1>1
<1>5. /\ snapshots' \in Seq(Snapshots) /\ Len(snapshots') = Len(snapshots)
      /\ DOMAIN snapshots' = DOMAIN snapshots
  <2>1. \A v \in DOMAIN snapshots : snapshots'[v] \in Snapshots
    BY <1>3, <1>4 DEF Snapshots
  <2>2. snapshots' \in [1 .. Len(snapshots) -> Snapshots] BY <1>1, <1>3, <2>1
  <2> QED BY <1>1, <2>2
<1>6. \A v \in DOMAIN snapshots : snapshots'[v].tier = snapshots[v].tier
  BY <1>3, <1>4 DEF Snapshots
<1>7. \A v \in DOMAIN snapshots : Ratified(v)' <=> v = x \/ Ratified(v)
  BY <1>3, <1>4 DEF Ratified, Snapshots
<1>8. SomethingIsRatified' BY <1>5, <1>7 DEF SomethingIsRatified
<1>9. /\ (transaction \in [Writers -> Transactions])'
      /\ ReadsAreRatified' /\ SignOffsNameTheirRow'
  BY <1>3, <1>5, <1>6, <1>8, RequestEnds
<1>10. RecordsTypeOK'
  <2>1. eu_tier' \in Tiers /\ outdated' \in BOOLEAN BY <1>1, <1>3
  <2> QED BY <1>1, <1>3, <1>5, <1>9, <2>1 DEF RecordsInv, RecordsTypeOK
<1>11. OneCurrent' BY <1>3, <1>5 DEF RecordsInv, OneCurrent
<1>12. EffectiveTierIsRatified'
  <2>1. \/ eu_tier' = t.tier
        \/ outdated' /\ eu_tier' = eu_tier /\ SomethingIsRatified
    BY <1>3 DEF RecordsInv, EffectiveTierIsRatified, ReadsAreRatified, SomethingIsRatified
  <2>2. CASE eu_tier' = t.tier
    <3>1. x \in DOMAIN snapshots' /\ Ratified(x)' /\ eu_tier' = snapshots'[x].tier
      BY <1>2, <1>5, <1>6, <1>7, <2>2
    <3>2. ASSUME ~outdated', NEW v \in DOMAIN snapshots', NewestRatified(v)'
          PROVE  v = x
      <4>1. x = Len(snapshots) BY <1>3, <3>2 DEF RecordsInv, OneCurrent
      <4>2. ~(x > v) BY <1>5, <3>1, <3>2 DEF NewestRatified
      <4> QED BY <1>1, <1>5, <3>2, <4>1, <4>2
    <3> QED BY <3>1, <3>2 DEF EffectiveTierIsRatified
  <2>3. CASE outdated' /\ eu_tier' = eu_tier /\ SomethingIsRatified
    <3>1. PICK v \in DOMAIN snapshots : Ratified(v) /\ eu_tier = snapshots[v].tier
      BY <2>3 DEF RecordsInv, EffectiveTierIsRatified, SomethingIsRatified
    <3>2. v \in DOMAIN snapshots' /\ Ratified(v)' /\ eu_tier' = snapshots'[v].tier
      BY <1>5, <1>6, <1>7, <2>3, <3>1
    <3> QED BY <2>3, <3>2 DEF EffectiveTierIsRatified
  <2> QED BY <2>1, <2>2, <2>3
<1> QED BY <1>9, <1>10, <1>11, <1>12 DEF RecordsInv

\* The UPDATE that unsets the current row touches nothing but the request.
LEMMA UpdateKeeps ==
    ASSUME RecordsInv, NEW w \in Writers, Aim(w) \/ Unset(w)
    PROVE  RecordsInv'
<1> DEFINE t == transaction[w]
<1>1. /\ transaction \in [Writers -> Transactions] /\ t \in Transactions
      /\ current \subseteq Versions
  BY DEF RecordsInv, RecordsTypeOK
<1>2. PICK phase \in {"updating", "holding"}, aim \in SUBSET Versions :
          transaction' = [transaction EXCEPT ![w] = [t EXCEPT !.phase = phase, !.aim = aim]]
  <2>1. CASE Aim(w)
    <3>1. transaction' = [transaction EXCEPT ![w] =
                             [t EXCEPT !.phase = "updating", !.aim = current]]
      BY <1>1, <2>1 DEF Aim, Transactions
    <3> QED BY <1>1, <3>1
  <2>2. CASE Unset(w)
    <3>1. transaction' = [transaction EXCEPT ![w] =
                             [t EXCEPT !.phase = "holding", !.aim = t.aim \cap current]]
      BY <1>1, <2>2 DEF Unset, Transactions
    <3>2. t.aim \cap current \in SUBSET Versions BY <1>1
    <3> QED BY <3>1, <3>2
  <2> QED BY <2>1, <2>2
<1>3. UNCHANGED <<snapshots, current, eu_tier, outdated>> BY DEF Aim, Unset
<1>4. \A o \in Writers : transaction'[o] =
          IF o = w THEN [t EXCEPT !.phase = phase, !.aim = aim] ELSE transaction[o]
  BY <1>1, <1>2
<1>5. [t EXCEPT !.phase = phase, !.aim = aim] \in Transactions BY <1>1 DEF Transactions
<1>6. RecordsTypeOK' BY <1>1, <1>2, <1>3, <1>5 DEF RecordsInv, RecordsTypeOK
<1>7. OneCurrent' /\ EffectiveTierIsRatified' /\ (SomethingIsRatified' <=> SomethingIsRatified)
  BY <1>3, RowsAside
<1>8. transaction'[w].read = t.read /\ transaction'[w].op = t.op
  BY <1>1, <1>4 DEF Transactions
<1>9. ReadsAreRatified' BY <1>4, <1>7, <1>8 DEF RecordsInv, ReadsAreRatified
<1>10. SignOffsNameTheirRow'
  <2>1. t.op # "sign_off" BY DEF Aim, Unset, RecordsInv, SignOffsNameTheirRow
  <2> QED BY <1>3, <1>4, <1>8, <2>1 DEF RecordsInv, SignOffsNameTheirRow
<1> QED BY <1>6, <1>7, <1>9, <1>10 DEF RecordsInv

LEMMA RecordsKept == RecordsInv /\ [RecordsNext]_recordsVars => RecordsInv'
<1> SUFFICES ASSUME RecordsInv, [RecordsNext]_recordsVars PROVE RecordsInv' OBVIOUS
<1>1. ASSUME NEW w \in Writers, LoadOverride(w) PROVE RecordsInv'
  <2>1. PICK c \in Subcategories : LoadFor(w, "override", TierOf[c], {})
    BY <1>1 DEF LoadOverride
  <2>2. TierOf[c] \in Tiers BY DEF Tiers
  <2> QED BY <2>1, <2>2, LoadKeeps
<1>2. ASSUME NEW w \in Writers, LoadCompute(w) PROVE RecordsInv'
  <2>1. PICK t \in ComputedTiers : LoadFor(w, "compute", t, {}) BY <1>2 DEF LoadCompute
  <2>2. t \in Tiers BY ComputedTiersAreStorable DEF Tiers
  <2> QED BY <2>1, <2>2, LoadKeeps
<1>3. ASSUME NEW w \in Writers, LoadSignOff(w) PROVE RecordsInv'
  <2>1. PICK v \in current : LoadFor(w, "sign_off", snapshots[v].tier, {v})
    BY <1>3 DEF LoadSignOff
  <2>2. /\ snapshots \in Seq(Snapshots) /\ v \in Versions
        /\ Len(snapshots) \in Versions /\ v = Len(snapshots)
    BY DEF RecordsInv, RecordsTypeOK, OneCurrent
  <2>3. v \in DOMAIN snapshots /\ snapshots[v] \in Snapshots
    BY <2>2 DEF Versions
  <2>4. snapshots[v].tier \in Tiers /\ {v} \in SUBSET Versions BY <2>2, <2>3 DEF Snapshots
  <2> QED BY <2>1, <2>3, <2>4, LoadKeeps
<1>4. ASSUME NEW w \in Writers, RollBack(w) PROVE RecordsInv'
  <2>1. /\ transaction' = [transaction EXCEPT ![w] = Idle]
        /\ UNCHANGED <<snapshots, current, eu_tier, outdated>>
    BY <1>4 DEF RollBack
  <2>2. OneCurrent' /\ EffectiveTierIsRatified' /\ (SomethingIsRatified' <=> SomethingIsRatified)
    BY <2>1, RowsAside
  <2>3. /\ (transaction \in [Writers -> Transactions])'
        /\ ReadsAreRatified' /\ SignOffsNameTheirRow'
    BY <2>1, <2>2, RequestEnds
  <2>4. RecordsTypeOK' BY <2>1, <2>3 DEF RecordsInv, RecordsTypeOK
  <2> QED BY <2>2, <2>3, <2>4 DEF RecordsInv
<1>5. CASE UNCHANGED recordsVars
  <2>1. UNCHANGED <<snapshots, current, eu_tier, outdated>> /\ UNCHANGED transaction
    BY <1>5 DEF recordsVars
  <2>2. OneCurrent' /\ EffectiveTierIsRatified' /\ (SomethingIsRatified' <=> SomethingIsRatified)
    BY <2>1, RowsAside
  <2> QED BY <2>1, <2>2
      DEF RecordsInv, RecordsTypeOK, ReadsAreRatified, SignOffsNameTheirRow
<1> QED BY <1>1, <1>2, <1>3, <1>4, <1>5, UpdateKeeps, OverrideKeeps, ComputeKeeps, SignOffKeeps
    DEF RecordsNext

(***************************************************************************)
(* The three invariants, for any number of writers and snapshots.          *)
(***************************************************************************)
THEOREM RecordsInvAlways == RecordsSpec => []RecordsInv
BY RecordsInitially, RecordsKept, PTL DEF RecordsSpec

\* Rows and requests keep their types (ClassificationRecords).
THEOREM RecordsTypes == RecordsSpec => []RecordsTypeOK
<1>1. RecordsInv => RecordsTypeOK BY DEF RecordsInv
<1> QED BY <1>1, RecordsInvAlways, PTL

(***************************************************************************)
(* One current snapshot, the newest: because whoever inserts one has every *)
(* current row in the UPDATE before it, or the index refuses the row.      *)
(***************************************************************************)
THEOREM OneIsCurrent == RecordsSpec => []OneCurrent
<1>1. RecordsInv => OneCurrent BY DEF RecordsInv
<1> QED BY <1>1, RecordsInvAlways, PTL

(***************************************************************************)
(* The effective tier was ratified, and by the newest ratification unless  *)
(* the last stamp came from an overtaken request.                          *)
(***************************************************************************)
THEOREM EffectiveTierWasRatified == RecordsSpec => []EffectiveTierIsRatified
<1>1. RecordsInv => EffectiveTierIsRatified BY DEF RecordsInv
<1> QED BY <1>1, RecordsInvAlways, PTL

=============================================================================
