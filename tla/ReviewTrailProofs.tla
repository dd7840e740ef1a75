------------------------- MODULE ReviewTrailProofs -------------------------
(***************************************************************************)
(* The review trail, for any number of use cases, users, workers and       *)
(* parties and any bounds: a round is decided once and not by its          *)
(* submitter, a grant is given by neither of the two, what was reviewed is *)
(* never deleted.                                                          *)
(*                                                                         *)
(* The records (submissions, reviews, grants) only grow, the assessment    *)
(* row moves on.  Records says how they agree.  A request writes a record  *)
(* from a row it read earlier; Holds says what that row is still worth:    *)
(* it is the committed row while the lock version has not moved, and what  *)
(* it says of its own round is on record for good.                         *)
(*                                                                         *)
(* The last part draws the consequence for the position: past the gate of  *)
(* the assessment there is an approving review, in AUTHORISED a grant.     *)
(***************************************************************************)
EXTENDS UseCaseLifecycleProofs

-----------------------------------------------------------------------------
(***************************************************************************)
(* The inductive invariant.                                                *)
(***************************************************************************)
SubmissionOf(d) == [id |-> d.id, round |-> d.round, by |-> d.submitted_by]

ApprovalOf(d) == [id |-> d.id, round |-> d.round, by |-> d.approved_by,
                  decision |-> "APPROVED"]

\* What the row d says of its round is on record.
Documented(d, subs, revs) ==
    /\ d.status \in {"IN_REVIEW", "APPROVED"} => SubmissionOf(d) \in subs
    /\ d.status = "APPROVED" => ApprovalOf(d) \in revs

\* No record is ahead of the row d, and n ids have been used.
UpToRow(d, n, subs, revs) ==
    /\ d.id <= n
    /\ \A s \in subs : s.id # 0 /\ s.id <= n /\ (s.id = d.id => s.round <= d.round)
    /\ \A r \in revs :
          /\ r.id = d.id /\ r.id # 0 /\ r.round <= d.round
          /\ d.status = "IN_REVIEW" => r.round # d.round

\* A round is submitted once, and decided at most once by somebody else.
Independent(subs, revs) ==
    /\ \A r1, r2 \in revs : r1.id = r2.id /\ r1.round = r2.round => r1 = r2
    /\ \A s1, s2 \in subs : s1.id = s2.id /\ s1.round = s2.round => s1 = s2
    /\ \A r \in revs : \E s \in subs : s.id = r.id /\ s.round = r.round /\ s.by # r.by

\* A grant names an approved round, of which its user is no author.
Separated(subs, revs, grants) ==
    \A g \in grants :
        /\ \E r \in revs : r.id = g.id /\ r.round = g.round /\ r.decision = "APPROVED"
        /\ \A s \in subs : s.id = g.id /\ s.round = g.round => s.by # g.by
        /\ \A r \in revs : r.id = g.id /\ r.round = g.round => r.by # g.by

Records(d, n, subs, revs, grants) ==
    /\ Documented(d, subs, revs)
    /\ UpToRow(d, n, subs, revs)
    /\ Independent(subs, revs)
    /\ Separated(subs, revs, grants)

\* What the row a request has read is worth while the committed one is d.
Holds(j, d, n, subs, revs) ==
    /\ j.doc.id # 0 /\ j.doc.id <= n
    /\ Documented(j.doc, subs, revs)
    /\ j.doc.id = d.id => /\ j.doc.lock_version <= d.lock_version
                          /\ j.doc.lock_version = d.lock_version => j.doc = d
    /\ j.op \in {"review_approved", "review_changes_requested"} =>
          j.by # j.doc.submitted_by
    /\ j.op = "authorise" => j.by \notin {j.doc.submitted_by, j.doc.approved_by}
    /\ j.op = "authorise" /\ j.phase = "evaluated" => j.doc.status = "APPROVED"

\* The requests that have read an assessment row.
HasRow(j) == j.phase \in {"loaded", "evaluated"} /\ j.op \in LoadsAiia

RecordsAgree ==
    \A u \in UseCases :
        Records(aiia[u], nextAiia[u], submissions[u], reviews[u], atos[u])

RowsHold ==
    \A w \in Workers : HasRow(job[w]) =>
        Holds(job[w], aiia[job[w].uc], nextAiia[job[w].uc],
              submissions[job[w].uc], reviews[job[w].uc])

TrailInv == RecordsAgree /\ RowsHold

-----------------------------------------------------------------------------
(***************************************************************************)
(* The records of one use case under each write.                           *)
(***************************************************************************)

\* The row under review goes to another status of the same round.
LEMMA ReopenedRecords ==
    ASSUME NEW d \in AiiaRows, NEW e \in AiiaRows, NEW n, NEW subs, NEW revs, NEW grants,
           Records(d, n, subs, revs, grants),
           e.id = d.id, e.round = d.round, e.status \notin {"IN_REVIEW", "APPROVED"}
    PROVE  Records(e, n, subs, revs, grants)
BY DEF Records, Documented, UpToRow

\* A submission opens the next round.
LEMMA SubmittedRecords ==
    ASSUME NEW d \in AiiaRows, NEW e \in AiiaRows, NEW n \in Nat,
           NEW subs \in SUBSET Submissions, NEW revs \in SUBSET Reviews,
           NEW grants \in SUBSET Atos, Records(d, n, subs, revs, grants),
           e.id = d.id, d.id # 0, e.round = d.round + 1, e.status = "IN_REVIEW"
    PROVE  Records(e, n, subs \cup {SubmissionOf(e)}, revs, grants)
<1> DEFINE new == SubmissionOf(e)
           later == subs \cup {new}
<1>1. /\ d.round \in Nat /\ e.round > d.round /\ d.id \in Nat
      /\ new.id = d.id /\ new.round = e.round
  BY DEF AiiaRows, SubmissionOf
<1>2. /\ \A s \in subs : s.round \in Nat /\ (s.id = d.id => s.round < e.round)
      /\ \A r \in revs : r.round \in Nat /\ r.id = d.id /\ r.id # 0 /\ r.round < e.round
  BY <1>1 DEF Records, UpToRow, Submissions, Reviews
<1>3. UpToRow(e, n, later, revs)
  BY <1>1, <1>2 DEF Records, UpToRow
<1>4. Documented(e, later, revs)
  BY DEF Documented
<1> HIDE DEF new
<1>5. Independent(later, revs)
  BY <1>1, <1>2 DEF Records, Independent
<1>6. ASSUME NEW g \in grants, new.id = g.id, new.round = g.round PROVE FALSE
  <2>1. PICK r \in revs : r.round = g.round
    BY DEF Records, Separated
  <2> QED BY <1>1, <1>2, <1>6, <2>1
<1>7. Separated(later, revs, grants)
  BY <1>6 DEF Records, Separated
<1> QED BY <1>3, <1>4, <1>5, <1>7 DEF Records, new

\* A review closes the round it is given for, by somebody else than its
\* submitter.
LEMMA ReviewedRecords ==
    ASSUME NEW d \in AiiaRows, NEW e \in AiiaRows, NEW n \in Nat,
           NEW subs \in SUBSET Submissions, NEW revs \in SUBSET Reviews,
           NEW grants \in SUBSET Atos, Records(d, n, subs, revs, grants),
           d.status = "IN_REVIEW", d.id # 0, NEW new \in Reviews,
           new.id = d.id, new.round = d.round, new.by # d.submitted_by,
           e.id = d.id, e.round = d.round, e.status # "IN_REVIEW",
           e.submitted_by = d.submitted_by,
           e.status = "APPROVED" => new = ApprovalOf(e)
    PROVE  Records(e, n, subs, revs \cup {new}, grants)
<1> DEFINE later == revs \cup {new}
<1>1. d.round \in Nat /\ \A r \in revs : r.round # d.round
  BY DEF Records, UpToRow, AiiaRows
<1>2. SubmissionOf(d) \in subs /\ SubmissionOf(e) = SubmissionOf(d)
  BY DEF Records, Documented, SubmissionOf
<1>3. /\ SubmissionOf(d).id = d.id /\ SubmissionOf(d).round = d.round
      /\ SubmissionOf(d).by = d.submitted_by
  BY DEF SubmissionOf
<1>4. Documented(e, subs, later)
  BY <1>2 DEF Documented
<1>5. UpToRow(e, n, subs, later)
  BY <1>1 DEF Records, UpToRow
<1>6. Independent(subs, later)
  BY <1>1, <1>2, <1>3 DEF Records, Independent
<1>7. ASSUME NEW g \in grants, new.round = g.round PROVE FALSE
  <2>1. PICK r \in revs : r.round = g.round
    BY DEF Records, Separated
  <2> QED BY <1>1, <1>7, <2>1
<1>8. Separated(subs, later, grants)
  BY <1>7 DEF Records, Separated
<1> QED BY <1>4, <1>5, <1>6, <1>8 DEF Records

\* A grant for the approved round of a row that is documented, by neither of
\* its authors, even when the row has moved on.
LEMMA GrantedRecords ==
    ASSUME NEW d, NEW e \in AiiaRows, NEW n,
           NEW subs, NEW revs, NEW grants, Records(d, n, subs, revs, grants),
           Documented(e, subs, revs), e.status = "APPROVED", NEW new \in Atos,
           new.id = e.id, new.round = e.round,
           new.by \notin {e.submitted_by, e.approved_by}
    PROVE  Records(d, n, subs, revs, grants \cup {new})
<1>1. /\ SubmissionOf(e) \in subs /\ ApprovalOf(e) \in revs
  BY DEF Documented
<1>2. /\ SubmissionOf(e).id = e.id /\ SubmissionOf(e).round = e.round
      /\ SubmissionOf(e).by = e.submitted_by
      /\ ApprovalOf(e).id = e.id /\ ApprovalOf(e).round = e.round
      /\ ApprovalOf(e).by = e.approved_by /\ ApprovalOf(e).decision = "APPROVED"
  BY DEF SubmissionOf, ApprovalOf
<1>3. /\ \A s \in subs : s.id = new.id /\ s.round = new.round => s = SubmissionOf(e)
      /\ \A r \in revs : r.id = new.id /\ r.round = new.round => r = ApprovalOf(e)
  BY <1>1, <1>2 DEF Records, Independent
<1>4. Separated(subs, revs, grants \cup {new})
  BY <1>1, <1>2, <1>3 DEF Records, Separated
<1> QED BY <1>4 DEF Records

\* Without reviews there are no grants: a row that comes or goes leaves only
\* submissions of ids used before.
LEMMA ReplacedRecords ==
    ASSUME NEW d \in AiiaRows, NEW e \in AiiaRows, NEW n \in Nat, NEW m \in Nat,
           NEW subs \in SUBSET Submissions, NEW grants, NEW revs,
           Records(d, n, subs, revs, grants), revs = {}, n <= m, e.id <= m,
           e.status \notin {"IN_REVIEW", "APPROVED"},
           \A s \in subs : s.id # e.id
    PROVE  Records(e, m, subs, revs, grants)
<1>1. \A s \in subs : s.id \in Nat /\ s.id <= n
  BY DEF Records, UpToRow, Submissions
<1>2. UpToRow(e, m, subs, revs)
  BY <1>1 DEF Records, UpToRow
<1> QED BY <1>2 DEF Records, Documented

-----------------------------------------------------------------------------
(***************************************************************************)
(* What a request holds lasts, however the others overtake it.             *)
(***************************************************************************)
Overtakes(d1, n1, subs1, revs1, d2, n2, subs2, revs2) ==
    /\ n1 <= n2 /\ subs1 \subseteq subs2 /\ revs1 \subseteq revs2
    /\ \/ d2 = d1
       \/ d2.id = 0
       \/ d2.id > n1
       \/ d2.id = d1.id /\ d2.lock_version > d1.lock_version

LEMMA HoldsLasts ==
    ASSUME NEW j, j.doc \in AiiaRows, NEW d1 \in AiiaRows, NEW d2 \in AiiaRows,
           NEW n1 \in Nat, NEW n2 \in Nat, NEW subs1, NEW revs1, NEW subs2, NEW revs2,
           Holds(j, d1, n1, subs1, revs1),
           Overtakes(d1, n1, subs1, revs1, d2, n2, subs2, revs2)
    PROVE  Holds(j, d2, n2, subs2, revs2)
<1>1. /\ j.doc.id \in Nat /\ j.doc.lock_version \in Nat
      /\ d1.id \in Nat /\ d2.id \in Nat
      /\ d1.lock_version \in Nat /\ d2.lock_version \in Nat
  BY DEF AiiaRows
<1>2. Documented(j.doc, subs2, revs2)
  BY DEF Holds, Overtakes, Documented
<1>3. /\ j.doc.id <= n2
      /\ j.doc.id = d2.id => /\ j.doc.lock_version <= d2.lock_version
                             /\ j.doc.lock_version = d2.lock_version => j.doc = d2
  BY <1>1 DEF Holds, Overtakes
<1> QED BY <1>2, <1>3 DEF Holds

\* Nobody is overtaken by nothing.
LEMMA NothingOvertakes ==
    ASSUME NEW d, NEW n \in Nat, NEW subs, NEW revs
    PROVE  Overtakes(d, n, subs, revs, d, n, subs, revs)
BY DEF Overtakes

\* A request that has no row, or whose row holds, goes on.
LEMMA RowsHoldOn ==
    ASSUME IInv, IInv', RowsHold, NEW w \in Workers, NEW k,
           job' = [job EXCEPT ![w] = k],
           HasRow(k) => Holds(k, aiia'[k.uc], nextAiia'[k.uc],
                              submissions'[k.uc], reviews'[k.uc]),
           \A u \in UseCases :
              Overtakes(aiia[u], nextAiia[u], submissions[u], reviews[u],
                        aiia'[u], nextAiia'[u], submissions'[u], reviews'[u])
    PROVE  RowsHold'
<1> SUFFICES ASSUME NEW x \in Workers, HasRow(job'[x])
             PROVE  Holds(job'[x], aiia'[job'[x].uc], nextAiia'[job'[x].uc],
                          submissions'[job'[x].uc], reviews'[job'[x].uc])
  BY DEF RowsHold
<1>1. CASE x = w
  BY <1>1 DEF IInv, TypeOK
<1>2. CASE x # w
  <2> DEFINE j == job[x]
  <2>1. job'[x] = j /\ j \in Jobs /\ Sound(j, state)
    BY <1>2 DEF IInv, TypeOK, JobsSound
  <2>2. j.uc \in UseCases /\ j.doc \in AiiaRows
    BY <2>1 DEF HasRow, Sound, Jobs
  <2>3. /\ aiia[j.uc] \in AiiaRows /\ aiia'[j.uc] \in AiiaRows
        /\ nextAiia[j.uc] \in Nat /\ nextAiia'[j.uc] \in Nat
    BY <2>2 DEF IInv, TypeOK
  <2>4. Holds(j, aiia[j.uc], nextAiia[j.uc], submissions[j.uc], reviews[j.uc])
    BY <2>1 DEF RowsHold
  <2>5. Overtakes(aiia[j.uc], nextAiia[j.uc], submissions[j.uc], reviews[j.uc],
                  aiia'[j.uc], nextAiia'[j.uc], submissions'[j.uc], reviews'[j.uc])
    BY <2>2
  <2> HIDE DEF j
  <2> QED BY <2>1, <2>2, <2>3, <2>4, <2>5, HoldsLasts
<1> QED BY <1>1, <1>2

trailVars == <<aiia, nextAiia, submissions, reviews, atos>>

\* A step that leaves the trail alone.
LEMMA QuietStep ==
    ASSUME IInv, IInv', TrailInv, UNCHANGED trailVars, NEW w \in Workers, NEW k,
           job' = [job EXCEPT ![w] = k],
           HasRow(k) => Holds(k, aiia[k.uc], nextAiia[k.uc],
                              submissions[k.uc], reviews[k.uc])
    PROVE  TrailInv'
<1>1. RecordsAgree'
  BY DEF TrailInv, RecordsAgree, trailVars
<1>2. ASSUME NEW u \in UseCases
      PROVE  Overtakes(aiia[u], nextAiia[u], submissions[u], reviews[u],
                       aiia'[u], nextAiia'[u], submissions'[u], reviews'[u])
  BY NothingOvertakes DEF IInv, TypeOK, trailVars
<1>3. RowsHold'
  BY <1>2, RowsHoldOn DEF TrailInv, trailVars
<1> QED BY <1>1, <1>3 DEF TrailInv

\* The end of a request holds no row.
LEMMA NoRowLeft ==
    ASSUME NEW todo PROVE ~HasRow(Rest(todo)) /\ ~HasRow(Idle)
<1>1. Idle.phase = "idle"
  BY DEF Idle
<1>2. todo # {} => Rest(todo).phase = "fan_out"
  BY DEF Rest, Idle
<1> QED BY <1>1, <1>2 DEF HasRow, Rest

\* A commit that writes to the trail of the one use case u.
LEMMA WritingStep ==
    ASSUME IInv, IInv', TrailInv, NEW w \in Workers, Respond(w), NEW u \in UseCases,
           \A x \in UseCases \ {u} :
              /\ aiia'[x] = aiia[x] /\ nextAiia'[x] = nextAiia[x] /\ atos'[x] = atos[x]
              /\ submissions'[x] = submissions[x] /\ reviews'[x] = reviews[x],
           Records(aiia'[u], nextAiia'[u], submissions'[u], reviews'[u], atos'[u]),
           Overtakes(aiia[u], nextAiia[u], submissions[u], reviews[u],
                     aiia'[u], nextAiia'[u], submissions'[u], reviews'[u])
    PROVE  TrailInv'
<1>1. RecordsAgree'
  <2> SUFFICES ASSUME NEW x \in UseCases
               PROVE  Records(aiia'[x], nextAiia'[x], submissions'[x], reviews'[x],
                              atos'[x])
    BY DEF RecordsAgree
  <2>1. CASE x = u BY <2>1
  <2>2. CASE x # u BY <2>2 DEF TrailInv, RecordsAgree
  <2> QED BY <2>1, <2>2
<1>2. ASSUME NEW x \in UseCases
      PROVE  Overtakes(aiia[x], nextAiia[x], submissions[x], reviews[x],
                       aiia'[x], nextAiia'[x], submissions'[x], reviews'[x])
  <2>1. CASE x = u BY <2>1
  <2>2. CASE x # u
    <3>1. nextAiia[x] \in Nat
      BY DEF IInv, TypeOK
    <3> QED BY <2>2, <3>1, NothingOvertakes
  <2> QED BY <2>1, <2>2
<1>3. job' = [job EXCEPT ![w] = Rest(job[w].todo)] /\ ~HasRow(Rest(job[w].todo))
  BY NoRowLeft DEF Respond
<1>4. RowsHold'
  BY <1>2, <1>3, RowsHoldOn DEF TrailInv
<1> QED BY <1>1, <1>4 DEF TrailInv

-----------------------------------------------------------------------------
(***************************************************************************)
(* Loads and evaluations.                                                  *)
(***************************************************************************)
LEMMA TrailLoad ==
    ASSUME IInv, IInv', TrailInv, NEW w \in Workers, Load(w) PROVE TrailInv'
<1>1. PICK op \in Handlers \cap (LoadsUseCase \cup LoadsAiia), u \in UseCases,
           by \in Users \cup {NoUser}, t \in Tiers :
         /\ op \in LoadsAiia => aiia[u].id # 0
         /\ Accepts(Loaded(op, u, by, t, {}))
         /\ job' = [job EXCEPT ![w] = Loaded(op, u, by, t, {})]
  BY ZenonT(60) DEF Load, Tiers
<1> DEFINE k == Loaded(op, u, by, t, {})
<1>2. /\ k.phase = "loaded" /\ k.op = op /\ k.uc = u /\ k.by = by
      /\ op \in LoadsAiia => k.doc = aiia[u]
  BY DEF Loaded
<1>3. Accepts(k) /\ job' = [job EXCEPT ![w] = k]
  BY <1>1
<1>4. UNCHANGED trailVars
  BY DEF Load, docVars, recordVars, trailVars
<1> HIDE DEF k
<1>5. ASSUME HasRow(k)
      PROVE  Holds(k, aiia[k.uc], nextAiia[k.uc], submissions[k.uc], reviews[k.uc])
  <2>1. k.doc = aiia[u] /\ aiia[u].id # 0
    BY <1>1, <1>2, <1>5 DEF HasRow
  <2>2. aiia[u].lock_version \in Nat
    BY DEF IInv, TypeOK, AiiaRows
  <2>3. Documented(aiia[u], submissions[u], reviews[u]) /\ aiia[u].id <= nextAiia[u]
    BY DEF TrailInv, RecordsAgree, Records, UpToRow
  <2>4. /\ op \in {"review_approved", "review_changes_requested"}
              => k.by # k.doc.submitted_by
        /\ op = "authorise" => k.by \notin {k.doc.submitted_by, k.doc.approved_by}
    BY <1>2, <1>3 DEF Accepts, DistinctFromSubmitter, DistinctFromAuthors
  <2> QED BY <1>2, <2>1, <2>2, <2>3, <2>4 DEF Holds
<1> QED BY <1>3, <1>4, <1>5, QuietStep

\* The assessment gate passes only an approved row.
LEMMA AssessmentGatePasses ==
    ASSUME NEW u, NEW snapTier, NEW ratified, NEW doc, NEW complete, NEW decided,
           full_vector(u, snapTier, ratified, doc, complete, decided)
              ["UNDER_ASSESSMENT"] = "advance"
    PROVE  doc.status = "APPROVED"
<1>1. verdict("UNDER_ASSESSMENT", u, snapTier, ratified, doc, complete, decided)
        = "advance"
  BY DEF full_vector, VectorStates, GuardedStates
<1>2. assessment_gate(doc, complete) = "advance"
  BY <1>1 DEF verdict
<1> QED BY <1>2 DEF assessment_gate, assessment_approved, Passes

LEMMA TrailEvaluate ==
    ASSUME IInv, IInv', TrailInv, NEW w \in Workers, Evaluate(w) PROVE TrailInv'
<1> DEFINE j == job[w]
<1>1. \E row, seen, m : EvaluateAs(w, row, seen, m)
  BY DEF Evaluate, EvaluateReEvaluate, EvaluateAuthorise, EvaluateSubmit,
     EvaluateReviewApproved, EvaluateOverride, EvaluateCompute, EvaluateSignOff,
     EvaluateCreateAiia, EvaluateDelete, EvaluateChecks
<1>2. PICK row, seen, m : EvaluateAs(w, row, seen, m)
  BY <1>1
<1>3. j.phase = "loaded" /\ (j.op = "authorise" => EvaluateAuthorise(w))
  BY DEF Evaluate, EvaluateReEvaluate, EvaluateAuthorise, EvaluateSubmit,
     EvaluateReviewApproved, EvaluateOverride, EvaluateCompute, EvaluateSignOff,
     EvaluateCreateAiia, EvaluateDelete, At
<1>4. j.op = "authorise" => j.doc.status = "APPROVED"
  BY <1>3, AssessmentGatePasses DEF EvaluateAuthorise, VectorNow, GuardedStates
<1> DEFINE k == Evaluated(j, row, seen, m)
<1>5. job' = [job EXCEPT ![w] = k] /\ UNCHANGED trailVars
  BY <1>2 DEF EvaluateAs, docVars, recordVars, trailVars
<1>6. k.phase = "evaluated" /\ k.op = j.op /\ k.uc = j.uc /\ k.by = j.by /\ k.doc = j.doc
  <2>1. j \in Jobs
    BY DEF IInv, TypeOK
  <2> QED BY <2>1 DEF Evaluated, Jobs
<1> HIDE DEF k
<1>7. ASSUME HasRow(k)
      PROVE  Holds(k, aiia[k.uc], nextAiia[k.uc], submissions[k.uc], reviews[k.uc])
  <2>1. Holds(j, aiia[j.uc], nextAiia[j.uc], submissions[j.uc], reviews[j.uc])
    BY <1>3, <1>6, <1>7 DEF HasRow, TrailInv, RowsHold
  <2> QED BY <1>4, <1>6, <2>1 DEF Holds
<1> QED BY <1>5, <1>7, QuietStep

-----------------------------------------------------------------------------
(***************************************************************************)
(* Commits.                                                                *)
(***************************************************************************)

\* What a request may rely on when it commits.
LEMMA RowFacts ==
    ASSUME IInv, TrailInv, NEW w \in Workers, HasRow(job[w])
    PROVE  /\ job[w].uc \in UseCases /\ job[w].doc \in AiiaRows
           /\ job[w].op \in RecordsActor => job[w].by \in Users
           /\ aiia[job[w].uc] \in AiiaRows /\ nextAiia[job[w].uc] \in Nat
           /\ submissions[job[w].uc] \in SUBSET Submissions
           /\ reviews[job[w].uc] \in SUBSET Reviews
           /\ atos[job[w].uc] \in SUBSET Atos
           /\ Holds(job[w], aiia[job[w].uc], nextAiia[job[w].uc],
                    submissions[job[w].uc], reviews[job[w].uc])
           /\ Records(aiia[job[w].uc], nextAiia[job[w].uc], submissions[job[w].uc],
                      reviews[job[w].uc], atos[job[w].uc])
<1>1. /\ job[w].uc \in UseCases /\ job[w].doc \in AiiaRows
      /\ job[w].op \in RecordsActor => job[w].by \in Users
  BY EvaluatedFacts DEF HasRow
<1>2. Holds(job[w], aiia[job[w].uc], nextAiia[job[w].uc],
            submissions[job[w].uc], reviews[job[w].uc])
  BY DEF TrailInv, RowsHold
<1> QED BY <1>1, <1>2 DEF TrailInv, RecordsAgree, IInv, TypeOK

\* The conditional UPDATE of the status finds the very row the request read.
LEMMA StatusUpdate ==
    ASSUME IInv, TrailInv, NEW w \in Workers, HasRow(job[w]),
           NEW from, NEW row \in AiiaRows,
           row.id = job[w].doc.id, row.lock_version = job[w].doc.lock_version,
           conditional_status_update(job[w], from, row)
    PROVE  LET u == job[w].uc IN
           /\ job[w].doc = aiia[u] /\ aiia[u].status \in from /\ aiia[u].id # 0
           /\ aiia'[u] \in AiiaRows
           /\ aiia'[u].id = row.id /\ aiia'[u].status = row.status
           /\ aiia'[u].round = row.round /\ aiia'[u].submitted_by = row.submitted_by
           /\ aiia'[u].approved_by = row.approved_by
           /\ aiia'[u].id = aiia[u].id
           /\ aiia'[u].lock_version > aiia[u].lock_version
           /\ \A x \in UseCases \ {u} : aiia'[x] = aiia[x]
<1> DEFINE u == job[w].uc
           e == [row EXCEPT !.lock_version = @ + 1]
<1>1. /\ u \in UseCases /\ aiia \in [UseCases -> AiiaRows]
      /\ Holds(job[w], aiia[u], nextAiia[u], submissions[u], reviews[u])
  BY RowFacts DEF IInv, TypeOK
<1>2. /\ job[w].doc = aiia[u] /\ aiia[u].status \in from /\ aiia[u].id # 0
      /\ aiia' = [aiia EXCEPT ![u] = e]
  BY <1>1 DEF conditional_status_update, Holds
<1>3. row.lock_version \in Nat
  BY DEF AiiaRows
<1>4. /\ e \in AiiaRows /\ e.id = row.id /\ e.status = row.status
      /\ e.round = row.round /\ e.submitted_by = row.submitted_by
      /\ e.approved_by = row.approved_by
      /\ e.lock_version = row.lock_version + 1
  <2>1. row.lock_version + 1 \in Nat
    BY <1>3
  <2> QED BY <2>1 DEF AiiaRows
<1> HIDE DEF e
<1>5. aiia'[u] = e /\ \A x \in UseCases \ {u} : aiia'[x] = aiia[x]
  BY <1>1, <1>2
<1>6. e.lock_version > aiia[u].lock_version
  BY <1>2, <1>3, <1>4
<1> QED BY <1>2, <1>4, <1>5, <1>6

LEMMA TrailSubmit ==
    ASSUME IInv, IInv', TrailInv, NEW w \in Workers, CommitSubmit(w) PROVE TrailInv'
<1> DEFINE j == job[w]
           u == j.uc
           row == [j.doc EXCEPT !.status = "IN_REVIEW", !.round = @ + 1,
                                !.submitted_by = j.by]
           new == [id |-> j.doc.id, round |-> j.doc.round + 1, by |-> j.by]
<1>1. HasRow(j) /\ j.op = "submit_for_review"
  BY DEF CommitSubmit, Ready, HasRow, LoadsAiia
<1>2. /\ u \in UseCases /\ j.doc \in AiiaRows /\ j.by \in Users
      /\ aiia[u] \in AiiaRows /\ nextAiia[u] \in Nat
      /\ submissions[u] \in SUBSET Submissions /\ reviews[u] \in SUBSET Reviews
      /\ atos[u] \in SUBSET Atos
      /\ Records(aiia[u], nextAiia[u], submissions[u], reviews[u], atos[u])
  BY <1>1, RowFacts DEF RecordsActor
<1>3. /\ row \in AiiaRows /\ row.id = j.doc.id /\ row.round = j.doc.round + 1
      /\ row.status = "IN_REVIEW" /\ row.submitted_by = j.by
      /\ row.lock_version = j.doc.lock_version
  <2>1. j.doc.round + 1 \in Nat /\ "IN_REVIEW" \in AiiaStatuses
    BY <1>2 DEF AiiaRows, AiiaStatuses
  <2> HIDE DEF j
  <2> QED BY <1>2, <2>1 DEF AiiaRows
<1>4. conditional_status_update(j, {"DRAFT", "NEEDS_REFRESH"}, row)
  BY DEF CommitSubmit
<1> HIDE DEF row
<1>5. /\ j.doc = aiia[u] /\ aiia'[u] \in AiiaRows /\ aiia[u].id # 0
      /\ aiia'[u].id = aiia[u].id /\ aiia'[u].status = "IN_REVIEW"
      /\ aiia'[u].round = aiia[u].round + 1 /\ aiia'[u].submitted_by = j.by
      /\ aiia'[u].lock_version > aiia[u].lock_version
      /\ \A x \in UseCases \ {u} : aiia'[x] = aiia[x]
  BY <1>1, <1>3, <1>4, StatusUpdate
<1>6. new = SubmissionOf(aiia'[u])
  BY <1>5 DEF SubmissionOf
<1>7. /\ submissions' = [submissions EXCEPT ![u] = @ \cup {new}]
      /\ UNCHANGED <<nextAiia, reviews, atos>> /\ Respond(w)
  BY DEF CommitSubmit
<1>8. /\ submissions'[u] = submissions[u] \cup {new}
      /\ \A x \in UseCases \ {u} : submissions'[x] = submissions[x]
  BY <1>2, <1>7 DEF IInv, TypeOK
<1> HIDE DEF new, j
<1>9. Records(aiia'[u], nextAiia[u], submissions'[u], reviews[u], atos[u])
  BY <1>2, <1>5, <1>6, <1>8, SubmittedRecords
<1>10. Overtakes(aiia[u], nextAiia[u], submissions[u], reviews[u],
                 aiia'[u], nextAiia[u], submissions'[u], reviews[u])
  BY <1>2, <1>5, <1>8 DEF Overtakes
<1> QED BY <1>2, <1>5, <1>7, <1>8, <1>9, <1>10, WritingStep

\* Both decisions of a review write one record and close the round.
LEMMA TrailReview ==
    ASSUME IInv, IInv', TrailInv, NEW w \in Workers, HasRow(job[w]), Respond(w),
           job[w].op \in {"review_approved", "review_changes_requested"},
           NEW decision \in {"APPROVED", "CHANGES_REQUESTED"}, NEW row \in AiiaRows,
           row.id = job[w].doc.id, row.lock_version = job[w].doc.lock_version,
           row.round = job[w].doc.round, row.submitted_by = job[w].doc.submitted_by,
           row.status # "IN_REVIEW",
           row.status = "APPROVED" => /\ row.approved_by = job[w].by
                                      /\ decision = "APPROVED",
           conditional_status_update(job[w], {"IN_REVIEW"}, row),
           RecordReview(job[w], decision), UNCHANGED <<nextAiia, submissions, atos>>
    PROVE  TrailInv'
<1> DEFINE j == job[w]
           u == j.uc
           new == [id |-> j.doc.id, round |-> j.doc.round, by |-> j.by,
                   decision |-> decision]
<1>1. /\ u \in UseCases /\ j.doc \in AiiaRows /\ j.by \in Users
      /\ aiia[u] \in AiiaRows /\ nextAiia[u] \in Nat
      /\ submissions[u] \in SUBSET Submissions /\ reviews[u] \in SUBSET Reviews
      /\ atos[u] \in SUBSET Atos
      /\ Records(aiia[u], nextAiia[u], submissions[u], reviews[u], atos[u])
      /\ Holds(j, aiia[u], nextAiia[u], submissions[u], reviews[u])
  BY RowFacts DEF RecordsActor
<1>2. /\ j.doc = aiia[u] /\ aiia[u].status = "IN_REVIEW" /\ aiia[u].id # 0
      /\ aiia'[u] \in AiiaRows
      /\ aiia'[u].id = aiia[u].id /\ aiia'[u].status = row.status
      /\ aiia'[u].round = aiia[u].round
      /\ aiia'[u].submitted_by = aiia[u].submitted_by
      /\ aiia'[u].approved_by = row.approved_by
      /\ aiia'[u].lock_version > aiia[u].lock_version
      /\ \A x \in UseCases \ {u} : aiia'[x] = aiia[x]
  <2>1. conditional_status_update(job[w], {"IN_REVIEW"}, row)
    OBVIOUS
  <2>2. /\ j.doc = aiia[u] /\ aiia[u].status \in {"IN_REVIEW"} /\ aiia[u].id # 0
        /\ aiia'[u] \in AiiaRows
        /\ aiia'[u].id = row.id /\ aiia'[u].status = row.status
        /\ aiia'[u].round = row.round /\ aiia'[u].submitted_by = row.submitted_by
        /\ aiia'[u].approved_by = row.approved_by
        /\ aiia'[u].id = aiia[u].id
        /\ aiia'[u].lock_version > aiia[u].lock_version
        /\ \A x \in UseCases \ {u} : aiia'[x] = aiia[x]
    BY <2>1, StatusUpdate
  <2>3. row.round = j.doc.round /\ row.submitted_by = j.doc.submitted_by
    OBVIOUS
  <2> HIDE DEF j
  <2> QED BY <2>2, <2>3
<1>3. /\ new \in Reviews /\ new.id = aiia[u].id /\ new.round = aiia[u].round
      /\ new.by # aiia[u].submitted_by
  BY <1>1, <1>2 DEF Reviews, AiiaRows, Holds
<1>4. aiia'[u].status = "APPROVED" => new = ApprovalOf(aiia'[u])
  BY <1>2 DEF ApprovalOf
<1>5. /\ reviews'[u] = reviews[u] \cup {new}
      /\ \A x \in UseCases \ {u} : reviews'[x] = reviews[x]
  BY <1>1 DEF RecordReview, IInv, TypeOK
<1> HIDE DEF new, j
<1>6. Records(aiia'[u], nextAiia[u], submissions[u], reviews'[u], atos[u])
  BY <1>1, <1>2, <1>3, <1>4, <1>5, ReviewedRecords
<1>7. Overtakes(aiia[u], nextAiia[u], submissions[u], reviews[u],
                aiia'[u], nextAiia[u], submissions[u], reviews'[u])
  BY <1>1, <1>2, <1>5 DEF Overtakes
<1> QED BY <1>1, <1>2, <1>5, <1>6, <1>7, WritingStep

LEMMA TrailReviewApproved ==
    ASSUME IInv, IInv', TrailInv, NEW w \in Workers, CommitReviewApproved(w)
    PROVE  TrailInv'
<1> DEFINE j == job[w]
           row == [j.doc EXCEPT !.status = "APPROVED", !.approved_by = j.by]
<1>1. HasRow(j) /\ j.op = "review_approved"
  BY DEF CommitReviewApproved, Ready, HasRow, LoadsAiia
<1>2. j.doc \in AiiaRows /\ j.by \in Users
  BY <1>1, RowFacts DEF RecordsActor
<1>3. /\ row \in AiiaRows /\ row.id = j.doc.id /\ row.round = j.doc.round
      /\ row.status = "APPROVED" /\ row.submitted_by = j.doc.submitted_by
      /\ row.lock_version = j.doc.lock_version /\ row.approved_by = j.by
  <2>1. "APPROVED" \in AiiaStatuses
    BY DEF AiiaStatuses
  <2> HIDE DEF j
  <2> QED BY <1>2, <2>1 DEF AiiaRows
<1>4. /\ conditional_status_update(j, {"IN_REVIEW"}, row)
      /\ RecordReview(j, "APPROVED") /\ Respond(w)
      /\ UNCHANGED <<nextAiia, submissions, atos>>
  BY DEF CommitReviewApproved
<1> HIDE DEF row
<1> QED BY <1>1, <1>3, <1>4, TrailReview

LEMMA TrailReviewChanges ==
    ASSUME IInv, IInv', TrailInv, NEW w \in Workers, CommitReviewChanges(w)
    PROVE  TrailInv'
<1> DEFINE j == job[w]
           row == [j.doc EXCEPT !.status = "DRAFT"]
<1>1. HasRow(j) /\ j.op = "review_changes_requested"
  BY DEF CommitReviewChanges, At, HasRow, LoadsAiia
<1>2. j.doc \in AiiaRows
  BY <1>1, RowFacts
<1>3. /\ row \in AiiaRows /\ row.id = j.doc.id /\ row.round = j.doc.round
      /\ row.status = "DRAFT" /\ row.submitted_by = j.doc.submitted_by
      /\ row.lock_version = j.doc.lock_version
  <2>1. "DRAFT" \in AiiaStatuses
    BY DEF AiiaStatuses
  <2> HIDE DEF j
  <2> QED BY <1>2, <2>1 DEF AiiaRows
<1>4. /\ conditional_status_update(j, {"IN_REVIEW"}, row)
      /\ RecordReview(j, "CHANGES_REQUESTED") /\ Respond(w)
      /\ UNCHANGED <<nextAiia, submissions, atos>>
  BY DEF CommitReviewChanges
<1> HIDE DEF row
<1> QED BY <1>1, <1>3, <1>4, TrailReview

LEMMA TrailReopen ==
    ASSUME IInv, IInv', TrailInv, NEW w \in Workers, CommitReopen(w) PROVE TrailInv'
<1> DEFINE j == job[w]
           u == j.uc
           row == [j.doc EXCEPT !.status = "NEEDS_REFRESH"]
<1>1. HasRow(j)
  BY DEF CommitReopen, At, HasRow, LoadsAiia
<1>2. /\ u \in UseCases /\ j.doc \in AiiaRows
      /\ aiia[u] \in AiiaRows /\ nextAiia[u] \in Nat
      /\ Records(aiia[u], nextAiia[u], submissions[u], reviews[u], atos[u])
  BY <1>1, RowFacts
<1>3. /\ row \in AiiaRows /\ row.id = j.doc.id /\ row.round = j.doc.round
      /\ row.status = "NEEDS_REFRESH" /\ row.lock_version = j.doc.lock_version
  <2>1. "NEEDS_REFRESH" \in AiiaStatuses
    BY DEF AiiaStatuses
  <2> HIDE DEF j
  <2> QED BY <1>2, <2>1 DEF AiiaRows
<1>4. conditional_status_update(j, {"APPROVED"}, row)
  BY DEF CommitReopen
<1> HIDE DEF row
<1>5. /\ j.doc = aiia[u] /\ aiia'[u] \in AiiaRows
      /\ aiia'[u].id = aiia[u].id /\ aiia'[u].status = row.status
      /\ aiia'[u].round = row.round
      /\ aiia'[u].lock_version > aiia[u].lock_version
      /\ \A x \in UseCases \ {u} : aiia'[x] = aiia[x]
  BY <1>1, <1>3, <1>4, StatusUpdate
<1>6. UNCHANGED <<nextAiia, submissions, reviews, atos>> /\ Respond(w)
  BY DEF CommitReopen, recordVars
<1> HIDE DEF j
<1>7. Records(aiia'[u], nextAiia[u], submissions[u], reviews[u], atos[u])
  BY <1>2, <1>3, <1>5, ReopenedRecords
<1>8. Overtakes(aiia[u], nextAiia[u], submissions[u], reviews[u],
                aiia'[u], nextAiia[u], submissions[u], reviews[u])
  BY <1>2, <1>5 DEF Overtakes
<1> QED BY <1>2, <1>5, <1>6, <1>7, <1>8, WritingStep

\* The grant rests on a row that may be stale; its round's records are not.
LEMMA TrailAuthorise ==
    ASSUME IInv, IInv', TrailInv, NEW w \in Workers, CommitAuthorise(w) PROVE TrailInv'
<1> DEFINE j == job[w]
           u == j.uc
<1>1. HasRow(j) /\ j.op = "authorise" /\ j.phase = "evaluated"
  BY DEF CommitAuthorise, Ready, HasRow, LoadsAiia
<1>2. /\ u \in UseCases /\ j.doc \in AiiaRows /\ j.by \in Users
      /\ nextAiia[u] \in Nat
      /\ Records(aiia[u], nextAiia[u], submissions[u], reviews[u], atos[u])
      /\ Holds(j, aiia[u], nextAiia[u], submissions[u], reviews[u])
  BY <1>1, RowFacts DEF RecordsActor
<1>3. /\ Grant(j) \in Atos /\ Grant(j).id = j.doc.id /\ Grant(j).round = j.doc.round
      /\ Grant(j).by = j.by
  BY <1>2 DEF Grant, Atos, AiiaRows
<1>4. /\ j.doc.status = "APPROVED" /\ j.by \notin {j.doc.submitted_by, j.doc.approved_by}
      /\ Documented(j.doc, submissions[u], reviews[u])
  BY <1>1, <1>2 DEF Holds
<1>5. Records(aiia[u], nextAiia[u], submissions[u], reviews[u], atos[u] \cup {Grant(j)})
  BY <1>2, <1>3, <1>4, GrantedRecords
<1>6. /\ UNCHANGED <<aiia, nextAiia, submissions, reviews>> /\ Respond(w)
      /\ atos' = [atos EXCEPT ![u] = @ \cup {Grant(j)}]
  BY DEF CommitAuthorise, docVars
<1>7. /\ atos'[u] = atos[u] \cup {Grant(j)}
      /\ \A x \in UseCases \ {u} : atos'[x] = atos[x]
  BY <1>2, <1>6 DEF IInv, TypeOK
<1>8. Overtakes(aiia[u], nextAiia[u], submissions[u], reviews[u],
                aiia[u], nextAiia[u], submissions[u], reviews[u])
  BY <1>2, NothingOvertakes
<1> HIDE DEF j
<1> QED BY <1>2, <1>5, <1>6, <1>7, <1>8, WritingStep

\* A new row takes an id nobody has used; there was no row, hence no review.
LEMMA TrailCreateAiia ==
    ASSUME IInv, IInv', TrailInv, NEW w \in Workers, CommitCreateAiia(w)
    PROVE  TrailInv'
<1> DEFINE u == job[w].uc
           n == nextAiia[u]
           new == [NoAiia EXCEPT !.id = n + 1, !.status = "DRAFT"]
<1>1. /\ u \in UseCases /\ aiia[u] \in AiiaRows /\ n \in Nat
      /\ submissions[u] \in SUBSET Submissions
      /\ Records(aiia[u], n, submissions[u], reviews[u], atos[u])
  <2>1. u \in UseCases
    BY EvaluatedFacts DEF CommitCreateAiia, Ready
  <2> QED BY <2>1 DEF IInv, TypeOK, TrailInv, RecordsAgree
<1>2. /\ aiia[u].id = 0 /\ aiia' = [aiia EXCEPT ![u] = new]
      /\ nextAiia' = [nextAiia EXCEPT ![u] = @ + 1]
      /\ UNCHANGED <<submissions, reviews, atos>> /\ Respond(w)
  BY DEF CommitCreateAiia, recordVars
<1>3. new.id = n + 1 /\ new.status = "DRAFT"
  BY DEF NoAiia
<1> HIDE DEF new
<1>4. /\ aiia'[u] = new /\ nextAiia'[u] = n + 1 /\ aiia'[u] \in AiiaRows
      /\ \A x \in UseCases \ {u} : aiia'[x] = aiia[x] /\ nextAiia'[x] = nextAiia[x]
  BY <1>1, <1>2 DEF IInv, TypeOK
<1>5. reviews[u] = {}
  BY <1>1, <1>2 DEF Records, UpToRow
<1>6. \A s \in submissions[u] : s.id # n + 1
  BY <1>1 DEF Records, UpToRow, Submissions
<1>7. Records(aiia'[u], nextAiia'[u], submissions[u], reviews[u], atos[u])
  BY <1>1, <1>3, <1>4, <1>5, <1>6, ReplacedRecords
<1>8. Overtakes(aiia[u], nextAiia[u], submissions[u], reviews[u],
                aiia'[u], nextAiia'[u], submissions[u], reviews[u])
  BY <1>1, <1>3, <1>4 DEF Overtakes
<1> HIDE DEF u
<1> QED BY <1>1, <1>2, <1>4, <1>7, <1>8, WritingStep

\* The foreign keys let a row go only while nothing was reviewed.
LEMMA TrailDelete ==
    ASSUME IInv, IInv', TrailInv, NEW w \in Workers, CommitDelete(w) PROVE TrailInv'
<1> DEFINE j == job[w]
           u == j.uc
<1>1. HasRow(j)
  BY DEF CommitDelete, Ready, HasRow, LoadsAiia
<1>2. /\ u \in UseCases /\ aiia[u] \in AiiaRows /\ nextAiia[u] \in Nat
      /\ submissions[u] \in SUBSET Submissions
      /\ Records(aiia[u], nextAiia[u], submissions[u], reviews[u], atos[u])
  BY <1>1, RowFacts
<1>3. /\ aiia' = [aiia EXCEPT ![u] = NoAiia]
      /\ UNCHANGED <<nextAiia, submissions, reviews, atos>> /\ Respond(w)
      /\ aiia[u].id = j.doc.id
      /\ \A r \in reviews[u] \cup atos[u] : r.id # j.doc.id
  BY DEF CommitDelete, recordVars, Deletable
<1>4. NoAiia.id = 0 /\ NoAiia.status = "NONE"
  BY DEF NoAiia
<1> HIDE DEF j
<1>5. /\ aiia'[u] = NoAiia /\ aiia'[u] \in AiiaRows
      /\ \A x \in UseCases \ {u} : aiia'[x] = aiia[x]
  BY <1>2, <1>3 DEF IInv, TypeOK
<1>6. reviews[u] = {}
  BY <1>2, <1>3 DEF Records, UpToRow
<1>7. \A s \in submissions[u] : s.id # 0
  BY <1>2 DEF Records, UpToRow
<1>8. Records(aiia'[u], nextAiia[u], submissions[u], reviews[u], atos[u])
  BY <1>2, <1>4, <1>5, <1>6, <1>7, ReplacedRecords
<1>9. Overtakes(aiia[u], nextAiia[u], submissions[u], reviews[u],
                aiia'[u], nextAiia[u], submissions[u], reviews[u])
  BY <1>2, <1>4, <1>5 DEF Overtakes
<1> QED BY <1>2, <1>3, <1>5, <1>8, <1>9, WritingStep

\* The other commits leave the trail alone.
LEMMA TrailOtherCommits ==
    ASSUME IInv, IInv', TrailInv, NEW w \in Workers,
           \/ CommitRegister(w) \/ CommitReEvaluate(w) \/ CommitOverride(w)
           \/ CommitCompute(w) \/ CommitSignOff(w) \/ CommitConfirmItem(w)
           \/ CommitAmendItem(w) \/ CommitControlLink(w)
    PROVE  TrailInv'
<1>1. Respond(w) /\ UNCHANGED trailVars
  BY DEF CommitRegister, CommitReEvaluate, CommitOverride, CommitCompute, CommitSignOff,
     CommitConfirmItem, CommitAmendItem, CommitControlLink, docVars, recordVars, trailVars
<1>2. job' = [job EXCEPT ![w] = Rest(job[w].todo)] /\ ~HasRow(Rest(job[w].todo))
  BY <1>1, NoRowLeft DEF Respond
<1> QED BY <1>1, <1>2, QuietStep

-----------------------------------------------------------------------------
(***************************************************************************)
(* The theorems.                                                           *)
(***************************************************************************)
LEMMA TrailInit == Init => TrailInv
<1> SUFFICES ASSUME Init PROVE TrailInv
  OBVIOUS
<1>1. ASSUME NEW u \in UseCases
      PROVE  Records(aiia[u], nextAiia[u], submissions[u], reviews[u], atos[u])
  <2>1. /\ aiia[u] = NoAiia /\ nextAiia[u] = 0 /\ submissions[u] = {}
        /\ reviews[u] = {} /\ atos[u] = {}
    BY DEF Init
  <2>2. NoAiia.id = 0 /\ NoAiia.status = "NONE"
    BY DEF NoAiia
  <2> QED
    BY <2>1, <2>2 DEF Records, Documented, UpToRow, Independent, Separated
<1>2. \A w \in Workers : ~HasRow(job[w])
  BY NoRowLeft DEF Init
<1> QED BY <1>1, <1>2 DEF TrailInv, RecordsAgree, RowsHold

LEMMA TrailStep == IInv /\ IInv' /\ TrailInv /\ [Next]_vars => TrailInv'
<1> SUFFICES ASSUME IInv, IInv', TrailInv, [Next]_vars PROVE TrailInv'
  OBVIOUS
<1>1. CASE UNCHANGED vars
  BY <1>1 DEF vars, docVars, recordVars, TrailInv, RecordsAgree, RowsHold
<1>2. ASSUME NEW w \in Workers, Request(w) PROVE TrailInv'
  <2>1. CASE EvaluateRegister(w)
    <3>1. PICK u \in UseCases, first \in Intakes :
            LET ratified == IF first.stamped THEN first.tier ELSE "REQUIRES_CONTEXT"
                v == full_vector(u, first.tier, ratified, NoAiia, FALSE, TRUE)
            IN  /\ state[u] = "UNREGISTERED"
                /\ job' = [job EXCEPT ![w] =
                       Registered(u, ratified, FirstRow(first),
                                  advance_use_case("REQUESTED", v))]
      BY <2>1 DEF EvaluateRegister
    <3> DEFINE ratified == IF first.stamped THEN first.tier ELSE "REQUIRES_CONTEXT"
               v == full_vector(u, first.tier, ratified, NoAiia, FALSE, TRUE)
               k == Registered(u, ratified, FirstRow(first),
                               advance_use_case("REQUESTED", v))
    <3>2. job' = [job EXCEPT ![w] = k] /\ k.op = "register"
      BY <3>1 DEF Registered
    <3> HIDE DEF k
    <3>3. ~HasRow(k) /\ UNCHANGED trailVars
      BY <2>1, <3>2 DEF HasRow, LoadsAiia, EvaluateRegister, docVars, recordVars,
         trailVars
    <3> QED BY <3>2, <3>3, QuietStep
  <2>2. CASE Load(w) BY <2>2, TrailLoad
  <2>3. CASE Evaluate(w) BY <2>3, TrailEvaluate
  <2>4. CASE Abort(w) \/ set_approval(w)
    <3>1. PICK k : job' = [job EXCEPT ![w] = k] /\ ~HasRow(k)
      BY <2>4, NoRowLeft DEF Abort, set_approval
    <3>2. UNCHANGED trailVars
      BY <2>4 DEF Abort, set_approval, docVars, recordVars, trailVars
    <3> QED BY <3>1, <3>2, QuietStep
  <2>5. CASE fan_out(w)
    <3>1. PICK u : job' = [job EXCEPT ![w] = Loaded("re_evaluate", u, NoUser,
                                                   "REQUIRES_CONTEXT",
                                                   job[w].todo \ {u})]
      BY <2>5 DEF fan_out
    <3> DEFINE k == Loaded("re_evaluate", u, NoUser, "REQUIRES_CONTEXT", job[w].todo \ {u})
    <3>2. k.op = "re_evaluate"
      BY DEF Loaded
    <3>3. ~HasRow(k) /\ UNCHANGED trailVars
      BY <2>5, <3>2 DEF HasRow, LoadsAiia, fan_out, docVars, recordVars, trailVars
    <3>4. job' = [job EXCEPT ![w] = k]
      BY <3>1
    <3> HIDE DEF k
    <3> QED BY <3>3, <3>4, QuietStep
  <2>6. CASE Commit(w)
    BY <2>6, TrailSubmit, TrailReviewApproved, TrailReviewChanges, TrailReopen,
       TrailAuthorise, TrailCreateAiia, TrailDelete, TrailOtherCommits DEF Commit
  <2> QED BY <1>2, <2>1, <2>2, <2>3, <2>4, <2>5, <2>6 DEF Request
<1>3. ASSUME NEW u \in UseCases, ItemWrite(u) PROVE TrailInv'
  BY <1>3 DEF ItemWrite, delete_item, delete_control_link, create_feeder, delete_feeder,
     UnguardedWrite, recordVars, TrailInv, RecordsAgree, RowsHold
<1>4. ASSUME NEW p \in Parties, ApprovalLapses(p) PROVE TrailInv'
  BY <1>4 DEF ApprovalLapses, docVars, recordVars, TrailInv, RecordsAgree, RowsHold
<1> QED BY <1>1, <1>2, <1>3, <1>4 DEF Next

\* The records agree with each other and with the row in every behaviour.
THEOREM TrailAlways == Spec => []TrailInv
<1>1. Init => TrailInv
  BY TrailInit
<1>2. IInv /\ IInv' /\ TrailInv /\ [Next]_vars => TrailInv'
  BY TrailStep
<1> QED BY <1>1, <1>2, InvariantAlways, PTL DEF Spec

\* The user of an authorisation neither submitted nor approved the round it
\* is given for, whatever row their request had read.
THEOREM DutiesAreSeparated == Spec => []SeparationOfDuties
<1>1. TrailInv => SeparationOfDuties
  BY DEF TrailInv, RecordsAgree, Records, Separated, SeparationOfDuties
<1> QED BY <1>1, TrailAlways, PTL

\* A round is decided once, and not by its submitter, however many reviewers
\* decide it at the same time.
THEOREM ReviewsAreIndependent == Spec => []ReviewIndependence
<1>1. TrailInv => ReviewIndependence
  BY DEF TrailInv, RecordsAgree, Records, Independent, ReviewIndependence
<1> QED BY <1>1, TrailAlways, PTL

\* A reviewed or authorised assessment is never deleted.
THEOREM TrailIsPermanent == Spec => []ReviewedNeverDeleted
<1>1. TrailInv => ReviewedNeverDeleted
  BY DEF TrailInv, RecordsAgree, Records, UpToRow, Separated, ReviewedNeverDeleted
<1> QED BY <1>1, TrailAlways, PTL

-----------------------------------------------------------------------------
(***************************************************************************)
(* What the assessment gate and the act of authorisation leave behind, for *)
(* any number of use cases, users, workers and parties: past the gate      *)
(* there is an approving review, in AUTHORISED there is a grant.           *)
(*                                                                         *)
(* A move past the gate may be committed from a vector that is stale by    *)
(* then.  The vector was computed from an assessment row that said         *)
(* APPROVED; such a row is documented for good (Holds), so the review      *)
(* outlives the vector.                                                    *)
(***************************************************************************)

Past == {"TREATMENT_PENDING", "PENDING_AUTHORISATION", "AUTHORISED"}

Reviewed(revs) == \E r \in revs : r.decision = "APPROVED"

\* A request that is past the gate, or goes past it, rests on a review; the
\* approving review itself brings its own.
Substantiated(j, revs) ==
    /\ j.row.state \in Past => Reviewed(revs)
    /\ /\ j.phase = "evaluated" /\ j.op \notin {"register", "review_approved"}
       /\ j.move.to \in Past
       => Reviewed(revs)

UnderWay(j) == j.phase \in {"loaded", "evaluated"}

PastInv ==
    /\ \A u \in UseCases : state[u] \in Past => Reviewed(reviews[u])
    /\ \A w \in Workers : UnderWay(job[w]) =>
          Substantiated(job[w], reviews[job[w].uc])

-----------------------------------------------------------------------------
(***************************************************************************)
(* The engine: no move past the gate of the assessment unless it passes.   *)
(***************************************************************************)
LEMMA AdvancePassesAssessment ==
    ASSUME NEW s \in LifecycleStates \ Past, NEW v \in Vectors,
           advance_use_case(s, v).to \in Past
    PROVE  v["UNDER_ASSESSMENT"] = "advance"
<1> SUFFICES ASSUME v["UNDER_ASSESSMENT"] # "advance" PROVE FALSE
  OBVIOUS
<1>1. ~Halts(s, v)
  BY DEF advance_use_case, Halt, Past
<1>2. Walk(s, v).to \in Past
  BY <1>1 DEF advance_use_case
<1>3. /\ s \in GuardedStates \cup {"REQUESTED"}
      /\ Walk(s, v).to = Earliest(Stops(s, v))
  BY <1>2 DEF Walk, Stay
<1>4. "UNDER_ASSESSMENT" \in Stops(s, v)
  BY <1>3 DEF Stops, VectorStates, GuardedStates, Rank, Past
<1>5. Stops(s, v) \in SUBSET VectorStates
  BY DEF Stops
<1>6. Rank(Earliest(Stops(s, v))) <= Rank("UNDER_ASSESSMENT")
  BY <1>4, <1>5, EarliestIsFirst
<1> QED BY <1>2, <1>3, <1>6 DEF Past, Rank

LEMMA TargetPassesAssessment ==
    ASSUME NEW v \in Vectors, target_from_vector(v) \in Past
    PROVE  v["UNDER_ASSESSMENT"] = "advance"
<1> SUFFICES ASSUME v["UNDER_ASSESSMENT"] # "advance" PROVE FALSE
  OBVIOUS
<1>1. "UNDER_ASSESSMENT" \in Blocked(v) /\ Blocked(v) \in SUBSET VectorStates
  BY DEF Blocked, VectorStates, GuardedStates
<1>2. Rank(target_from_vector(v)) <= Rank("UNDER_ASSESSMENT")
  BY <1>1, EarliestIsFirst DEF target_from_vector
<1> QED BY <1>2 DEF Past, Rank

LEMMA ReEvaluatePassesAssessment ==
    ASSUME NEW s \in LifecycleStates \ Past, NEW v \in Vectors,
           re_evaluate(s, v).to \in Past
    PROVE  v["UNDER_ASSESSMENT"] = "advance"
<1>1. CASE s \in TerminalStates
  BY <1>1 DEF re_evaluate, Stay
<1>2. CASE s \notin TerminalStates /\ Halts(s, v)
  BY <1>2 DEF re_evaluate, Halt, Past
<1>3. CASE s = "HELD" /\ ~Halts(s, v)
  <2>1. target_from_vector(v) \in Past
    BY <1>3 DEF re_evaluate, Restore, TerminalStates
  <2> QED BY <2>1, TargetPassesAssessment
<1>4. CASE s \notin TerminalStates \cup {"HELD"} /\ ~Halts(s, v)
  <2>1. re_evaluate(s, v) = TowardsTarget(s, v)
    BY <1>4 DEF re_evaluate, Past
  <2>2. TowardsTarget(s, v).to = advance_use_case(s, v).to
    BY <2>1 DEF TowardsTarget, Hold, Stay, Past
  <2> QED BY <2>1, <2>2, AdvancePassesAssessment
<1> QED BY <1>1, <1>2, <1>3, <1>4

\* A vector that passes the assessment read an APPROVED row; a documented one
\* has its review on record.
LEMMA ApprovedIsReviewed ==
    ASSUME NEW d, NEW subs, NEW revs, Documented(d, subs, revs), d.status = "APPROVED"
    PROVE  Reviewed(revs)
<1>1. ApprovalOf(d) \in revs /\ ApprovalOf(d).decision = "APPROVED"
  BY DEF Documented, ApprovalOf
<1> QED BY <1>1 DEF Reviewed

LEMMA RowIsDocumented ==
    ASSUME TrailInv, NEW u \in UseCases
    PROVE  Documented(aiia[u], submissions[u], reviews[u])
BY DEF TrailInv, RecordsAgree, Records

-----------------------------------------------------------------------------
(***************************************************************************)
(* Steps.                                                                  *)
(***************************************************************************)
ReviewsGrow == \A u \in UseCases : reviews[u] \subseteq reviews'[u]

\* One request goes on substantiated; whatever it moves past the gate is
\* reviewed.
LEMMA SubstantiatedStep ==
    ASSUME IInv, PastInv, ReviewsGrow, NEW w \in Workers, NEW k,
           job' = [job EXCEPT ![w] = k],
           UnderWay(k) => Substantiated(k, reviews'[k.uc]),
           \A u \in UseCases :
              state'[u] \in Past => state[u] \in Past \/ Reviewed(reviews'[u])
    PROVE  PastInv'
<1>1. ASSUME NEW u \in UseCases, state'[u] \in Past PROVE Reviewed(reviews'[u])
  BY <1>1 DEF PastInv, ReviewsGrow, Reviewed
<1>2. ASSUME NEW x \in Workers, UnderWay(job'[x])
      PROVE  Substantiated(job'[x], reviews'[job'[x].uc])
  <2>1. CASE x = w
    BY <1>2, <2>1 DEF IInv, TypeOK
  <2>2. CASE x # w
    <3>1. job'[x] = job[x] /\ Sound(job[x], state)
      BY <2>2 DEF IInv, TypeOK, JobsSound
    <3>2. job[x].uc \in UseCases
      BY <1>2, <3>1 DEF UnderWay, Sound
    <3>3. Substantiated(job[x], reviews[job[x].uc])
      BY <1>2, <3>1 DEF PastInv
    <3> QED BY <3>1, <3>2, <3>3 DEF Substantiated, ReviewsGrow, Reviewed
  <2> QED BY <2>1, <2>2
<1> QED BY <1>1, <1>2 DEF PastInv

\* No step takes a review back.
LEMMA ReviewsOnlyGrow == ASSUME IInv, [Next]_vars PROVE ReviewsGrow
<1> USE DEF recordVars
<1>1. CASE UNCHANGED vars
  BY <1>1 DEF vars, ReviewsGrow
<1>2. ASSUME NEW w \in Workers, Request(w) PROVE ReviewsGrow
  <2>1. CASE EvaluateRegister(w) \/ Load(w) \/ Abort(w) \/ set_approval(w) \/ fan_out(w)
    BY <2>1 DEF EvaluateRegister, Load, Abort, set_approval, fan_out, ReviewsGrow
  <2>2. CASE Evaluate(w)
    BY <2>2 DEF Evaluate, EvaluateReEvaluate, EvaluateAuthorise, EvaluateSubmit,
       EvaluateReviewApproved, EvaluateOverride, EvaluateCompute, EvaluateSignOff,
       EvaluateCreateAiia, EvaluateDelete, EvaluateChecks, EvaluateAs, ReviewsGrow
  <2>3. CASE CommitReviewApproved(w) \/ CommitReviewChanges(w)
    BY <2>3 DEF CommitReviewApproved, CommitReviewChanges, RecordReview, ReviewsGrow,
       IInv, TypeOK
  <2>4. CASE Commit(w) /\ ~CommitReviewApproved(w) /\ ~CommitReviewChanges(w)
    BY <2>4 DEF Commit, CommitRegister, CommitReEvaluate, CommitAuthorise, CommitSubmit,
       CommitReopen, CommitOverride, CommitCompute, CommitSignOff, CommitCreateAiia,
       CommitDelete, CommitConfirmItem, CommitAmendItem, CommitControlLink, ReviewsGrow
  <2> QED BY <1>2, <2>1, <2>2, <2>3, <2>4 DEF Request
<1>3. ASSUME NEW u \in UseCases, ItemWrite(u) PROVE ReviewsGrow
  BY <1>3 DEF ItemWrite, delete_item, delete_control_link, create_feeder,
     delete_feeder, UnguardedWrite, ReviewsGrow
<1>4. ASSUME NEW p \in Parties, ApprovalLapses(p) PROVE ReviewsGrow
  BY <1>4 DEF ApprovalLapses, ReviewsGrow
<1> QED BY <1>1, <1>2, <1>3, <1>4 DEF Next

LEMMA PastLoaded ==
    ASSUME IInv, PastInv, ReviewsGrow, NEW w \in Workers, UNCHANGED <<state, reviews>>,
           NEW op, NEW u \in UseCases, NEW by, NEW t, NEW todo,
           job' = [job EXCEPT ![w] = Loaded(op, u, by, t, todo)]
    PROVE  PastInv'
<1> DEFINE k == Loaded(op, u, by, t, todo)
<1>1. /\ k.phase = "loaded" /\ k.uc = u
      /\ k.row.state \in {state[u], "UNREGISTERED"}
  BY DEF Loaded, RowNow, NoRow
<1>2. job' = [job EXCEPT ![w] = k]
  OBVIOUS
<1> HIDE DEF k
<1>3. Substantiated(k, reviews'[k.uc])
  BY <1>1 DEF Substantiated, PastInv, Past
<1> QED BY <1>2, <1>3, SubstantiatedStep

LEMMA PastLoad ==
    ASSUME IInv, PastInv, ReviewsGrow, NEW w \in Workers, Load(w) \/ fan_out(w)
    PROVE  PastInv'
<1>1. UNCHANGED <<state, reviews>>
  BY DEF Load, fan_out, useCaseVars, recordVars
<1>2. CASE Load(w)
  <2>1. PICK op \in Handlers \cap (LoadsUseCase \cup LoadsAiia), u \in UseCases,
             by \in Users \cup {NoUser}, t \in Tiers :
           job' = [job EXCEPT ![w] = Loaded(op, u, by, t, {})]
    BY <1>2, ZenonT(60) DEF Load, Tiers
  <2> QED BY <1>1, <2>1, PastLoaded
<1>3. CASE fan_out(w)
  <2>1. PICK u \in job[w].todo :
           job' = [job EXCEPT ![w] = Loaded("re_evaluate", u, NoUser,
                                            "REQUIRES_CONTEXT", job[w].todo \ {u})]
    BY <1>3 DEF fan_out
  <2>2. u \in UseCases
    <3>1. job[w] \in Jobs
      BY DEF IInv, TypeOK
    <3> QED BY <2>1, <3>1 DEF Jobs
  <2> QED BY <1>1, <2>1, <2>2, PastLoaded
<1> QED BY <1>2, <1>3

\* An evaluation whose move goes past the gate only on a review.
LEMMA PastEvaluateAs ==
    ASSUME IInv, PastInv, ReviewsGrow, NEW w \in Workers, job[w].phase = "loaded",
           NEW row, NEW seen, NEW m, EvaluateAs(w, row, seen, m),
           row.state \in Past => Reviewed(reviews[job[w].uc]),
           job[w].op # "review_approved" /\ m.to \in Past
              => Reviewed(reviews[job[w].uc])
    PROVE  PastInv'
<1> DEFINE j == job[w]
           k == Evaluated(j, row, seen, m)
<1>1. k.op = j.op /\ k.uc = j.uc /\ k.row = row /\ k.move = m
  <2>1. j \in Jobs
    BY DEF IInv, TypeOK
  <2> QED BY <2>1 DEF Evaluated, Jobs
<1>2. job' = [job EXCEPT ![w] = k] /\ UNCHANGED <<state, reviews>>
  BY DEF EvaluateAs, useCaseVars, recordVars
<1> HIDE DEF k
<1>3. Substantiated(k, reviews'[k.uc])
  BY <1>1, <1>2 DEF Substantiated
<1> QED BY <1>2, <1>3, SubstantiatedStep

LEMMA PastSnapshotDriver ==
    ASSUME IInv, TrailInv, PastInv, NEW w \in Workers, job[w].phase = "loaded",
           job[w].op \in LoadsUseCase, NEW snapTier, NEW ratified,
           AdvanceOnSnapshot(job[w], snapTier, ratified).to \in Past
    PROVE  Reviewed(reviews[job[w].uc])
<1> DEFINE j == job[w]
           v == full_vector(j.uc, snapTier, ratified, aiia[j.uc],
                            structural[j.uc], treated[j.uc])
<1>1. j.uc \in UseCases /\ j.row.state \in LifecycleStates
  BY LoadedFacts
<1>2. j.row.state \in Past => Reviewed(reviews[j.uc])
  BY DEF PastInv, UnderWay, Substantiated
<1>3. v \in Vectors
  BY GatesGiveAVector
<1>4. advance_use_case(j.row.state, v).to \in Past
  BY DEF AdvanceOnSnapshot
<1>5. CASE j.row.state \notin Past
  <2>1. v["UNDER_ASSESSMENT"] = "advance"
    <3> HIDE DEF v
    <3> QED BY <1>1, <1>3, <1>4, <1>5, AdvancePassesAssessment
  <2> QED BY <1>1, <2>1, AssessmentGatePasses, RowIsDocumented, ApprovedIsReviewed
<1> QED BY <1>2, <1>5

LEMMA PastEvaluate ==
    ASSUME IInv, TrailInv, PastInv, ReviewsGrow, NEW w \in Workers, Evaluate(w)
    PROVE  PastInv'
<1> DEFINE j == job[w]
<1>1. j.phase = "loaded"
  BY DEF Evaluate, EvaluateReEvaluate, EvaluateAuthorise, EvaluateSubmit,
     EvaluateReviewApproved, EvaluateOverride, EvaluateCompute, EvaluateSignOff,
     EvaluateCreateAiia, EvaluateDelete, At
<1>2. /\ j.uc \in UseCases /\ j.move = Stay("REQUESTED")
      /\ j.op \in LoadsUseCase => j.row.state \in LifecycleStates
      /\ j.row.state \in Past => Reviewed(reviews[j.uc])
      /\ Sound(j, state)
  BY <1>1, LoadedFacts DEF PastInv, UnderWay, Substantiated
<1>3. CASE EvaluateReEvaluate(w)
  <2> DEFINE v == VectorNow(j.uc, j.row.eu_tier, aiia[j.uc])
             m == re_evaluate(j.row.state, v)
  <2>1. EvaluateAs(w, j.row, j.seen, m) /\ j.row.state \in LifecycleStates
    BY <1>2, <1>3 DEF EvaluateReEvaluate, At, LoadsUseCase
  <2>2. v \in Vectors
    BY GatesGiveAVector DEF VectorNow
  <2>3. v["UNDER_ASSESSMENT"] = "advance" => Reviewed(reviews[j.uc])
    BY <1>2, AssessmentGatePasses, RowIsDocumented, ApprovedIsReviewed DEF VectorNow
  <2>4. m.to \in Past => Reviewed(reviews[j.uc])
    <3> HIDE DEF v
    <3> QED BY <1>2, <2>1, <2>2, <2>3, ReEvaluatePassesAssessment
  <2> HIDE DEF m
  <2> QED BY <1>1, <1>2, <2>1, <2>4, PastEvaluateAs
<1>4. CASE EvaluateAuthorise(w)
  <2> DEFINE m == [event |-> "authorise", to |-> "AUTHORISED"]
  <2>1. EvaluateAs(w, j.row, j.seen, m) /\ j.op = "authorise"
    BY <1>4 DEF EvaluateAuthorise, At
  <2>2. j.row.state \in Past
    BY <1>1, <1>2, <2>1 DEF Sound, Past
  <2> HIDE DEF m
  <2> QED BY <1>1, <1>2, <2>1, <2>2, PastEvaluateAs
<1>5. CASE EvaluateSubmit(w) \/ EvaluateCreateAiia(w) \/ EvaluateDelete(w)
  <2>1. EvaluateAs(w, j.row, j.seen, j.move)
    BY <1>5 DEF EvaluateSubmit, EvaluateCreateAiia, EvaluateDelete, EvaluateChecks
  <2>2. j.move.to \notin Past
    BY <1>2 DEF Stay, Past
  <2> QED BY <1>1, <1>2, <2>1, <2>2, PastEvaluateAs
<1>6. CASE EvaluateReviewApproved(w)
  <2> DEFINE row == RowNow(j.uc)
             m == advance_use_case(state[j.uc],
                     VectorNow(j.uc, eu_tier[j.uc], [j.doc EXCEPT !.status = "APPROVED"]))
  <2>1. EvaluateAs(w, row, j.seen, m) /\ j.op = "review_approved"
    BY <1>6 DEF EvaluateReviewApproved, At
  <2>2. row.state \in Past => Reviewed(reviews[j.uc])
    BY <1>2 DEF RowNow, PastInv
  <2> HIDE DEF row, m
  <2> QED BY <1>1, <2>1, <2>2, PastEvaluateAs
<1>7. CASE EvaluateOverride(w) \/ EvaluateCompute(w) \/ EvaluateSignOff(w)
  <2>1. PICK snapTier, ratified :
           EvaluateAs(w, j.row, snapshot[j.uc].version,
                      AdvanceOnSnapshot(j, snapTier, ratified))
    BY <1>7 DEF EvaluateOverride, EvaluateCompute, EvaluateSignOff
  <2>2. j.op \in LoadsUseCase
    BY <1>7 DEF EvaluateOverride, EvaluateCompute, EvaluateSignOff, At, LoadsUseCase
  <2>3. AdvanceOnSnapshot(j, snapTier, ratified).to \in Past => Reviewed(reviews[j.uc])
    BY <1>1, <2>2, PastSnapshotDriver
  <2> QED BY <1>1, <1>2, <2>1, <2>3, PastEvaluateAs
<1> QED BY <1>3, <1>4, <1>5, <1>6, <1>7 DEF Evaluate

-----------------------------------------------------------------------------
(***************************************************************************)
(* Commits.                                                                *)
(***************************************************************************)

\* A response, with the positions moved past the gate only on a review.
LEMMA PastRespond ==
    ASSUME IInv, PastInv, ReviewsGrow, NEW w \in Workers, Respond(w),
           \A u \in UseCases :
              state'[u] \in Past => state[u] \in Past \/ Reviewed(reviews'[u])
    PROVE  PastInv'
<1>1. ~UnderWay(Rest(job[w].todo))
  BY DEF UnderWay, Rest, Idle
<1> QED BY <1>1, SubstantiatedStep DEF Respond

\* A move of the engine changes one position, to where it leads.
LEMMA AppliedMove ==
    ASSUME TypeOK, NEW u \in UseCases, NEW from, NEW m, apply_transition(u, from, m)
    PROVE  /\ \A x \in UseCases \ {u} : state'[x] = state[x]
           /\ state'[u] \in {state[u], m.to}
BY DEF apply_transition, TypeOK

LEMMA PastMovingCommit ==
    ASSUME IInv, PastInv, ReviewsGrow, NEW w \in Workers, job[w].phase = "evaluated",
           job[w].op # "register", Respond(w),
           apply_transition(job[w].uc, job[w].row.state, job[w].move),
           job[w].op = "review_approved" => Reviewed(reviews'[job[w].uc])
    PROVE  PastInv'
<1> DEFINE j == job[w]
<1>1. j.uc \in UseCases
  BY EvaluatedFacts
<1>2. /\ \A x \in UseCases \ {j.uc} : state'[x] = state[x]
      /\ state'[j.uc] \in {state[j.uc], j.move.to}
  BY <1>1, AppliedMove DEF IInv
<1>3. j.op # "review_approved" /\ j.move.to \in Past => Reviewed(reviews[j.uc])
  BY DEF PastInv, UnderWay, Substantiated
<1>4. ASSUME NEW u \in UseCases, state'[u] \in Past, state[u] \notin Past
      PROVE  Reviewed(reviews'[u])
  BY <1>1, <1>2, <1>3, <1>4 DEF ReviewsGrow, Reviewed
<1> QED BY <1>4, PastRespond

\* An item write drives the use case from where it is, on the row as read.
LEMMA PastItemCommit ==
    ASSUME IInv, TrailInv, PastInv, ReviewsGrow, NEW w \in Workers, HasRow(job[w]),
           job[w].phase = "loaded", Respond(w), NEW complete, NEW decided,
           AdvanceAfterItems(job[w], complete, decided)
    PROVE  PastInv'
<1> DEFINE j == job[w]
           v == full_vector(j.uc, snapshot[j.uc].tier, eu_tier[j.uc], j.doc,
                            complete, decided)
           m == advance_use_case(state[j.uc], v)
<1>1. j.uc \in UseCases /\ state[j.uc] \in LifecycleStates
  BY LoadedFacts
<1>2. apply_transition(j.uc, state[j.uc], m)
  BY DEF AdvanceAfterItems
<1>3. v \in Vectors
  BY GatesGiveAVector
<1>4. Documented(j.doc, submissions[j.uc], reviews[j.uc])
  BY RowFacts DEF Holds
<1>5. v["UNDER_ASSESSMENT"] = "advance" => Reviewed(reviews[j.uc])
  BY <1>4, AssessmentGatePasses, ApprovedIsReviewed
<1>6. m.to \in Past => state[j.uc] \in Past \/ Reviewed(reviews[j.uc])
  <2> HIDE DEF v
  <2> QED BY <1>1, <1>3, <1>5, AdvancePassesAssessment
<1> HIDE DEF m
<1>7. /\ \A x \in UseCases \ {j.uc} : state'[x] = state[x]
      /\ state'[j.uc] \in {state[j.uc], m.to}
  BY <1>1, <1>2, AppliedMove DEF IInv
<1>8. ASSUME NEW u \in UseCases, state'[u] \in Past, state[u] \notin Past
      PROVE  Reviewed(reviews'[u])
  BY <1>1, <1>6, <1>7, <1>8 DEF ReviewsGrow, Reviewed
<1> QED BY <1>8, PastRespond

LEMMA PastCommit ==
    ASSUME IInv, TrailInv, PastInv, ReviewsGrow, NEW w \in Workers, Commit(w)
    PROVE  PastInv'
<1> DEFINE j == job[w]
<1>1. CASE CommitRegister(w)
  <2>1. j.uc \in UseCases /\ Sound(j, state)
    BY <1>1, EvaluatedFacts DEF CommitRegister, Ready
  <2>2. j.move.to \notin Past
    BY <1>1, <2>1 DEF CommitRegister, Ready, Sound, Past, Rank
  <2>3. Respond(w) /\ state' = [state EXCEPT ![j.uc] = j.move.to]
    BY <1>1 DEF CommitRegister
  <2>4. \A u \in UseCases : state'[u] \in Past => state[u] \in Past
    BY <2>1, <2>2, <2>3 DEF IInv, TypeOK
  <2> QED BY <2>3, <2>4, PastRespond
<1>2. CASE CommitReviewApproved(w)
  <2>1. j.op = "review_approved" /\ j.phase = "evaluated" /\ j.uc \in UseCases
    BY <1>2, EvaluatedFacts DEF CommitReviewApproved, Ready
  <2>2. RecordReview(j, "APPROVED")
    BY <1>2 DEF CommitReviewApproved
  <2>3. Reviewed(reviews'[j.uc])
    <3> DEFINE new == [id |-> j.doc.id, round |-> j.doc.round, by |-> j.by,
                       decision |-> "APPROVED"]
    <3>1. new \in reviews'[j.uc] /\ new.decision = "APPROVED"
      BY <2>1, <2>2 DEF RecordReview, IInv, TypeOK
    <3> QED BY <3>1 DEF Reviewed
  <2> QED BY <1>2, <2>1, <2>3, PastMovingCommit DEF CommitReviewApproved
<1>3. CASE \/ CommitReEvaluate(w) \/ CommitAuthorise(w) \/ CommitOverride(w)
           \/ CommitCompute(w) \/ CommitSignOff(w)
  <2>1. /\ j.phase = "evaluated" /\ j.op \notin {"register", "review_approved"}
        /\ Respond(w) /\ apply_transition(j.uc, j.row.state, j.move)
    BY <1>3 DEF CommitReEvaluate, CommitAuthorise, CommitOverride, CommitCompute,
       CommitSignOff, Ready
  <2> QED BY <2>1, PastMovingCommit
<1>4. CASE \/ CommitSubmit(w) \/ CommitReviewChanges(w) \/ CommitReopen(w)
           \/ CommitCreateAiia(w) \/ CommitDelete(w) \/ CommitControlLink(w)
  <2>1. Respond(w) /\ UNCHANGED state
    BY <1>4 DEF CommitSubmit, CommitReviewChanges, CommitReopen, CommitCreateAiia,
       CommitDelete, CommitControlLink, useCaseVars
  <2> QED BY <2>1, PastRespond
<1>5. CASE CommitConfirmItem(w)
  <2>1. HasRow(j) /\ j.phase = "loaded" /\ Respond(w)
    BY <1>5 DEF CommitConfirmItem, At, HasRow, LoadsAiia
  <2>2. PICK complete \in BOOLEAN : AdvanceAfterItems(j, complete, FALSE)
    BY <1>5 DEF CommitConfirmItem
  <2> QED BY <2>1, <2>2, PastItemCommit
<1>6. CASE CommitAmendItem(w)
  <2>1. HasRow(j) /\ j.phase = "loaded" /\ Respond(w)
    BY <1>6 DEF CommitAmendItem, At, HasRow, LoadsAiia
  <2>2. \/ UNCHANGED state
        \/ \E decided \in BOOLEAN : AdvanceAfterItems(j, structural[j.uc], decided)
    BY <1>6 DEF CommitAmendItem
  <2>3. CASE UNCHANGED state
    BY <2>1, <2>3, PastRespond
  <2>4. CASE \E decided \in BOOLEAN : AdvanceAfterItems(j, structural[j.uc], decided)
    BY <2>1, <2>4, PastItemCommit
  <2> QED BY <2>2, <2>3, <2>4
<1> QED BY <1>1, <1>2, <1>3, <1>4, <1>5, <1>6 DEF Commit

-----------------------------------------------------------------------------
(***************************************************************************)
(* The theorems.                                                           *)
(***************************************************************************)
LEMMA PastInit == Init => PastInv
<1>1. Idle.phase = "idle" /\ "UNREGISTERED" \notin Past
  BY DEF Idle, Past
<1> QED BY <1>1 DEF Init, PastInv, UnderWay

LEMMA PastStep == IInv /\ TrailInv /\ PastInv /\ [Next]_vars => PastInv'
<1> SUFFICES ASSUME IInv, TrailInv, PastInv, [Next]_vars PROVE PastInv'
  OBVIOUS
<1>1. ReviewsGrow
  BY ReviewsOnlyGrow
<1>2. CASE UNCHANGED vars
  BY <1>2 DEF vars, useCaseVars, recordVars, PastInv
<1>3. ASSUME NEW w \in Workers, Request(w) PROVE PastInv'
  <2>1. CASE EvaluateRegister(w)
    <3>1. PICK u \in UseCases, first \in Intakes :
            LET ratified == IF first.stamped THEN first.tier ELSE "REQUIRES_CONTEXT"
                v == full_vector(u, first.tier, ratified, NoAiia, FALSE, TRUE)
            IN  /\ state[u] = "UNREGISTERED"
                /\ job' = [job EXCEPT ![w] =
                       Registered(u, ratified, FirstRow(first),
                                  advance_use_case("REQUESTED", v))]
      BY <2>1 DEF EvaluateRegister
    <3> DEFINE ratified == IF first.stamped THEN first.tier ELSE "REQUIRES_CONTEXT"
               v == full_vector(u, first.tier, ratified, NoAiia, FALSE, TRUE)
               k == Registered(u, ratified, FirstRow(first),
                               advance_use_case("REQUESTED", v))
    <3>2. /\ job' = [job EXCEPT ![w] = k] /\ k.op = "register"
          /\ k.row.state = "UNREGISTERED"
      BY <3>1 DEF Registered, NoRow
    <3>3. UNCHANGED <<state, reviews>>
      BY <2>1 DEF EvaluateRegister, useCaseVars, recordVars
    <3> HIDE DEF k
    <3>4. Substantiated(k, reviews'[k.uc])
      BY <3>2 DEF Substantiated, Past
    <3> QED BY <1>1, <3>2, <3>3, <3>4, SubstantiatedStep
  <2>2. CASE Load(w) \/ fan_out(w) BY <1>1, <2>2, PastLoad
  <2>3. CASE Evaluate(w) BY <1>1, <2>3, PastEvaluate
  <2>4. CASE Abort(w) \/ set_approval(w)
    <3>1. /\ ~UnderWay(Idle) /\ \A todo : ~UnderWay(Rest(todo))
      BY DEF UnderWay, Rest, Idle
    <3>2. PICK k : job' = [job EXCEPT ![w] = k] /\ ~UnderWay(k)
      BY <2>4, <3>1 DEF Abort, set_approval
    <3>3. UNCHANGED state
      BY <2>4 DEF Abort, set_approval, useCaseVars
    <3> QED BY <1>1, <3>2, <3>3, SubstantiatedStep
  <2>5. CASE Commit(w) BY <1>1, <2>5, PastCommit
  <2> QED BY <1>3, <2>1, <2>2, <2>3, <2>4, <2>5 DEF Request
<1>4. ASSUME NEW u \in UseCases, ItemWrite(u) PROVE PastInv'
  BY <1>4 DEF ItemWrite, delete_item, delete_control_link, create_feeder, delete_feeder,
     UnguardedWrite, useCaseVars, recordVars, PastInv
<1>5. ASSUME NEW p \in Parties, ApprovalLapses(p) PROVE PastInv'
  BY <1>5 DEF ApprovalLapses, useCaseVars, recordVars, PastInv
<1> QED BY <1>2, <1>3, <1>4, <1>5 DEF Next

LEMMA PastAlways == Spec => []PastInv
<1>1. Init => PastInv
  BY PastInit
<1>2. IInv /\ TrailInv /\ PastInv /\ [Next]_vars => PastInv'
  BY PastStep
<1> QED BY <1>1, <1>2, InvariantAlways, TrailAlways, PTL DEF Spec

\* No use case is past the assessment gate without a review that approved its
\* assessment, by whatever stale vector it got there.
THEOREM NobodySkipsTheReview == Spec => []PastAssessmentMeansReviewed
<1>1. TrailInv /\ PastInv => PastAssessmentMeansReviewed
  BY DEF TrailInv, RecordsAgree, Records, UpToRow, PastInv, Past, Reviewed,
     PastAssessmentMeansReviewed
<1> QED BY <1>1, TrailAlways, PastAlways, PTL

\* A use case in AUTHORISED holds a grant: the contract's only edge into it
\* leaves one, and no step takes a grant back.
Granted == \A u \in UseCases : state[u] = "AUTHORISED" => atos[u] # {}

LEMMA GrantedAlways == Spec => []Granted
<1>1. Init => Granted
  BY DEF Init, Granted
<1>2. IInv /\ Granted /\ [Contract!Next]_(Contract!vars) => Granted'
  <2> SUFFICES ASSUME IInv, Granted, [Contract!Next]_(Contract!vars),
                      NEW u \in UseCases, state'[u] = "AUTHORISED"
               PROVE  atos'[u] # {}
    BY DEF Granted
  <2>1. CASE UNCHANGED Contract!vars
    BY <2>1 DEF Contract!vars, Granted
  <2>2. ASSUME NEW x \in UseCases, NEW s, Contract!Move(x, s), s # "AUTHORISED"
        PROVE  atos'[u] # {}
    <3>1. /\ UNCHANGED atos /\ state'[x] = s
          /\ x # u => state'[u] = state[u]
      BY <2>2 DEF Contract!Move, IInv, TypeOK
    <3> QED BY <2>2, <3>1 DEF Granted
  <2>3. ASSUME NEW x \in UseCases, Contract!Authorise(x) PROVE atos'[u] # {}
    <3>1. PICK g \in atos'[x] : atos' = [atos EXCEPT ![x] = @ \cup {g}]
      BY <2>3 DEF Contract!Authorise
    <3>2. x # u => state'[u] = state[u]
      BY <2>3 DEF Contract!Authorise, IInv, TypeOK
    <3> QED BY <3>1, <3>2 DEF Granted, IInv, TypeOK
  <2>4. "AUTHORISED" \notin Contract!VectorStates \cup Contract!GuardedStates
    BY DEF Contract!VectorStates, Contract!GuardedStates
  <2>5. ASSUME NEW x \in UseCases,
               \/ Contract!Register(x) \/ Contract!Advance(x) \/ Contract!Regress(x)
               \/ Contract!Unhold(x) \/ Contract!Prohibit(x)
        PROVE  \E s : Contract!Move(x, s) /\ s # "AUTHORISED"
    <3>1. CASE Contract!Register(x)
      BY <2>4, <3>1 DEF Contract!Register
    <3>2. CASE Contract!Advance(x) \/ Contract!Unhold(x)
      BY <2>4, <3>2 DEF Contract!Advance, Contract!Unhold
    <3>3. CASE Contract!Regress(x) \/ Contract!Prohibit(x)
      BY <3>3 DEF Contract!Regress, Contract!Prohibit
    <3> QED BY <2>5, <3>1, <3>2, <3>3
  <2>6. CASE Contract!Next
    <3>1. PICK x \in UseCases :
             \/ Contract!Register(x) \/ Contract!Advance(x) \/ Contract!Regress(x)
             \/ Contract!Unhold(x) \/ Contract!Prohibit(x) \/ Contract!Authorise(x)
      BY <2>6 DEF Contract!Next
    <3> QED BY <2>2, <2>3, <2>5, <3>1
  <2> QED BY <2>1, <2>6
<1>3. IInv /\ [Next]_vars => [Contract!Next]_(Contract!vars)
  BY StepImplements
<1> QED BY <1>1, <1>2, <1>3, InvariantAlways, PTL DEF Spec

\* An authorised use case holds a grant for a round of its assessment that a
\* reviewer approved.
THEOREM AuthorisedIsGranted == Spec => []AuthorisedHasGrant
<1>1. TrailInv /\ Granted => AuthorisedHasGrant
  BY DEF TrailInv, RecordsAgree, Records, UpToRow, Separated, Granted, AuthorisedHasGrant
<1> QED BY <1>1, TrailAlways, GrantedAlways, PTL
=============================================================================
