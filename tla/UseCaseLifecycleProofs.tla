---------------------- MODULE UseCaseLifecycleProofs ----------------------
(***************************************************************************)
(* Theorems about UseCaseLifecycle, for any number of use cases, users,    *)
(* workers and parties and any bounds.                                     *)
(*                                                                         *)
(* Type correctness, the prohibited rule and the hold hint are not         *)
(* inductive by themselves: a commit writes what a request worked out      *)
(* earlier, from rows that may be stale by now.  What a request may be     *)
(* holding (Sound) completes them.  Sound reads the committed positions    *)
(* only through two facts that are never undone (Later), so a request      *)
(* stays sound under the commits of every other one.                       *)
(***************************************************************************)
EXTENDS UseCaseLifecycle, LifecycleEngineProofs

-----------------------------------------------------------------------------
(***************************************************************************)
(* The inductive invariant.                                                *)
(***************************************************************************)

\* Positions st2 come after positions st1: nothing is unregistered again and
\* nothing leaves the halt.
Later(st1, st2) ==
    \A u \in UseCases :
        /\ st1[u] # "UNREGISTERED" => st2[u] # "UNREGISTERED"
        /\ st1[u] = "HALTED_PROHIBITED" => st2[u] = "HALTED_PROHIBITED"

\* What a request may hold while the committed positions are st.
Sound(j, st) ==
    /\ \A u \in j.todo : st[u] # "UNREGISTERED"
    /\ j.phase \in {"loaded", "evaluated"} =>
          /\ j.uc \in UseCases
          /\ j.op # "register" => st[j.uc] # "UNREGISTERED"
          /\ j.op \in LoadsUseCase => j.row.state # "UNREGISTERED"
          /\ j.row.state = "HALTED_PROHIBITED" => st[j.uc] = "HALTED_PROHIBITED"
          /\ j.op = "authorise" => j.row.state = "PENDING_AUTHORISATION"
          /\ j.op \in RecordsActor => j.by \in Users
    /\ j.phase = "loaded" => j.op # "register" /\ j.move = Stay("REQUESTED")
    /\ j.phase = "evaluated" =>
          /\ j.op = "register" =>
                /\ \/ j.move.to \in GuardedStates
                      /\ Rank(j.move.to) <= Rank("UNDER_ASSESSMENT")
                   \/ j.move.to = "HALTED_PROHIBITED"
                /\ j.snap.tier = "PROHIBITED" => j.move.to = "HALTED_PROHIBITED"
          /\ j.op # "register" => LegalMove(j.row.state, j.move)
          /\ (j.op # "register" /\ j.move.event = "authorise") => j.op = "authorise"
          /\ j.op = "authorise" => j.move = [event |-> "authorise", to |-> "AUTHORISED"]
          /\ (j.op \in TakesTier /\ j.tier = "PROHIBITED") =>
                j.move = Halt \/ j.row.state = "HALTED_PROHIBITED"

JobsSound == \A w \in Workers : Sound(job[w], state)

IInv == TypeOK /\ JobsSound /\ ProhibitedHalts /\ HeldHint

-----------------------------------------------------------------------------
(***************************************************************************)
(* Lemmas about the operators.                                             *)
(***************************************************************************)
LEMMA GatesGiveAVector ==
    ASSUME NEW u, NEW snapTier, NEW ratified, NEW doc, NEW complete, NEW decided
    PROVE  /\ full_vector(u, snapTier, ratified, doc, complete, decided) \in Vectors
           /\ snapTier = "PROHIBITED" =>
                full_vector(u, snapTier, ratified, doc, complete, decided)["INTAKE"]
                  = "halt"
<1> DEFINE gate(s) == verdict(s, u, snapTier, ratified, doc, complete, decided)
<1>1. \A b : Passes(b) \in Verdicts
  BY DEF Passes, Verdicts
<1>2. classification_readiness(snapTier, ratified) \in Verdicts
  BY <1>1 DEF classification_readiness, Verdicts
<1>3. \A s \in VectorStates : gate(s) \in Verdicts
  BY <1>1, <1>2 DEF verdict, VectorStates, GuardedStates, approval_verdict,
     assessment_gate, authorisation_gate
<1>4. gate("INTAKE") = classification_readiness(snapTier, ratified)
  BY DEF verdict
<1> HIDE DEF gate
<1>5. full_vector(u, snapTier, ratified, doc, complete, decided)
        = [s \in VectorStates |-> gate(s)]
  BY DEF full_vector, gate
<1> QED
  BY <1>3, <1>4, <1>5 DEF Vectors, VectorStates, GuardedStates,
     classification_readiness

LEMMA LaterIsReflexive == ASSUME NEW st PROVE Later(st, st)
BY DEF Later

\* A request stays sound under the commits of the others.
LEMMA SoundnessLasts ==
    ASSUME NEW j \in Jobs, NEW st1, NEW st2, Sound(j, st1), Later(st1, st2)
    PROVE  Sound(j, st2)
BY DEF Sound, Later, Jobs

LEMMA IdleIsSound ==
    ASSUME NEW todo \in SUBSET UseCases, NEW st,
           \A u \in todo : st[u] # "UNREGISTERED"
    PROVE  /\ Idle \in Jobs /\ Sound(Idle, st)
           /\ Rest(todo) \in Jobs /\ Sound(Rest(todo), st)
<1>1. Idle \in Jobs
  BY DEF Idle, Jobs, NoRow, UseCaseRows, Positions, Tiers, NoAiia, AiiaRows, AiiaStatuses,
     NoSnapshot, Snapshots, Stay, Moves, Events, LifecycleStates
<1>2. Rest(todo) \in Jobs
  BY <1>1 DEF Rest, Jobs
<1>3. Sound(Idle, st)
  BY DEF Idle, Sound
<1>4. Sound(Rest(todo), st)
  BY <1>3 DEF Rest, Idle, Sound
<1> QED BY <1>1, <1>2, <1>3, <1>4

(***************************************************************************)
(* A legal move, committed from the state the request read, keeps the      *)
(* positions typed, the hint exact and the halt final.                     *)
(***************************************************************************)
LEMMA TransitionIsSafe ==
    ASSUME TypeOK, HeldHint,
           NEW u \in UseCases, NEW from, NEW m \in Moves,
           LegalMove(from, m), apply_transition(u, from, m)
    PROVE  /\ state' \in [UseCases -> Positions]
           /\ held_from' \in [UseCases -> AdvancedStates \cup {"NONE"}]
           /\ HeldHint'
           /\ Later(state, state')
           /\ \A x \in UseCases \ {u} : state'[x] = state[x]
           /\ m.event # "none" => state[u] = from /\ state'[u] = m.to
           /\ m.event = "none" => state'[u] = state[u]
<1>1. CASE m.event = "none"
  <2>1. state' = state /\ held_from' = held_from
    BY <1>1 DEF apply_transition
  <2> QED
    BY <1>1, <2>1, LaterIsReflexive DEF TypeOK, HeldHint
<1>2. CASE m.event # "none"
  <2>1. /\ state[u] = from
        /\ state' = [state EXCEPT ![u] = m.to]
        /\ held_from' = [held_from EXCEPT ![u] =
                           IF m.event = "hold" THEN from
                           ELSE IF from = "HELD" THEN "NONE" ELSE @]
    BY <1>2 DEF apply_transition
  <2>2. m.to \in Positions /\ m.to # "UNREGISTERED"
    BY <1>2 DEF LegalMove, Positions, LifecycleStates, VectorStates, GuardedStates
  <2>3. m.event = "hold" => from \in AdvancedStates /\ m.to = "HELD"
    BY <1>2 DEF LegalMove
  <2>4. m.event # "hold" => m.to # "HELD"
    BY <1>2 DEF LegalMove, VectorStates, GuardedStates
  <2>5. from # "HALTED_PROHIBITED"
    BY <1>2 DEF LegalMove, GuardedStates, AdvancedStates, VectorStates, TerminalStates
  <2>6. "NONE" \notin AdvancedStates /\ "HELD" \notin AdvancedStates
    BY DEF AdvancedStates, VectorStates, GuardedStates
  <2>7. state' \in [UseCases -> Positions]
    BY <2>1, <2>2 DEF TypeOK
  <2>8. held_from' \in [UseCases -> AdvancedStates \cup {"NONE"}]
    BY <2>1, <2>3 DEF TypeOK
  <2>9. HeldHint'
    <3> SUFFICES ASSUME NEW x \in UseCases
                 PROVE  (state'[x] = "HELD") <=> (held_from'[x] # "NONE")
      BY DEF HeldHint
    <3>1. CASE x # u
      BY <2>1, <3>1 DEF HeldHint, TypeOK
    <3>2. CASE x = u
      <4>1. state'[u] = m.to
        BY <2>1 DEF TypeOK
      <4>2. held_from'[u] = IF m.event = "hold" THEN from
                            ELSE IF from = "HELD" THEN "NONE" ELSE held_from[u]
        BY <2>1 DEF TypeOK
      <4> QED
        BY <2>1, <2>3, <2>4, <2>6, <3>2, <4>1, <4>2 DEF HeldHint
    <3> QED BY <3>1, <3>2
  <2>10. Later(state, state')
    BY <2>1, <2>2, <2>5 DEF Later, TypeOK
  <2> QED
    BY <1>2, <2>1, <2>7, <2>8, <2>9, <2>10 DEF TypeOK
<1> QED BY <1>1, <1>2

-----------------------------------------------------------------------------
(***************************************************************************)
(* Lemmas about one request.                                               *)
(***************************************************************************)

\* A request that goes on from its load with a legal move is sound.
LEMMA EvaluatedIsSound ==
    ASSUME NEW j \in Jobs, NEW st, Sound(j, st), j.phase = "loaded",
           NEW row \in UseCaseRows, NEW seen \in Nat, NEW m \in Moves,
           LegalMove(row.state, m),
           j.op \in LoadsUseCase => row.state # "UNREGISTERED",
           row.state = "HALTED_PROHIBITED" => st[j.uc] = "HALTED_PROHIBITED",
           m.event = "authorise" => j.op = "authorise",
           j.op = "authorise" =>
              /\ m = [event |-> "authorise", to |-> "AUTHORISED"]
              /\ row.state = "PENDING_AUTHORISATION",
           (j.op \in TakesTier /\ j.tier = "PROHIBITED") =>
              m = Halt \/ row.state = "HALTED_PROHIBITED"
    PROVE  /\ Evaluated(j, row, seen, m) \in Jobs
           /\ Sound(Evaluated(j, row, seen, m), st)
<1> DEFINE k == Evaluated(j, row, seen, m)
<1>1. k \in Jobs
  BY DEF Evaluated, Jobs
<1>2. /\ k.phase = "evaluated" /\ k.row = row /\ k.move = m
      /\ k.op = j.op /\ k.uc = j.uc /\ k.tier = j.tier /\ k.todo = j.todo
      /\ k.by = j.by
  BY DEF Evaluated, Jobs
<1> HIDE DEF k
<1>3. Sound(k, st)
  BY <1>2 DEF Sound
<1> QED BY <1>1, <1>3 DEF k

\* One worker goes on; every request stays sound.
LEMMA OneRequestGoesOn ==
    ASSUME TypeOK, JobsSound, Later(state, state'),
           NEW w \in Workers, NEW k \in Jobs, Sound(k, state'),
           job' = [job EXCEPT ![w] = k]
    PROVE  job' \in [Workers -> Jobs] /\ JobsSound'
<1>1. job' \in [Workers -> Jobs]
  BY DEF TypeOK
<1>2. ASSUME NEW x \in Workers PROVE Sound(job'[x], state')
  <2>1. CASE x = w
    BY <2>1 DEF TypeOK
  <2>2. CASE x # w
    <3>1. job'[x] = job[x] /\ job[x] \in Jobs /\ Sound(job[x], state)
      BY <2>2 DEF TypeOK, JobsSound
    <3> QED BY <3>1, SoundnessLasts
  <2> QED BY <2>1, <2>2
<1> QED BY <1>1, <1>2 DEF JobsSound

LEMMA RespondIsSound ==
    ASSUME TypeOK, JobsSound, Later(state, state'), NEW w \in Workers, Respond(w)
    PROVE  job' \in [Workers -> Jobs] /\ JobsSound'
<1>1. job[w] \in Jobs /\ Sound(job[w], state)
  BY DEF TypeOK, JobsSound
<1>2. job[w].todo \in SUBSET UseCases
  BY <1>1 DEF Jobs
<1>3. \A u \in job[w].todo : state'[u] # "UNREGISTERED"
  BY <1>1, <1>2 DEF Sound, Later
<1>4. Rest(job[w].todo) \in Jobs /\ Sound(Rest(job[w].todo), state')
  BY <1>2, <1>3, IdleIsSound
<1> QED BY <1>4, OneRequestGoesOn DEF Respond

\* A step of one request that writes nothing.
LEMMA ReadStep ==
    ASSUME IInv, NEW w \in Workers, NEW k \in Jobs, Sound(k, state),
           job' = [job EXCEPT ![w] = k],
           UNCHANGED <<useCaseVars, snapshot, docVars, recordVars, approval>>
    PROVE  IInv'
<1> USE DEF useCaseVars, docVars, itemVars, recordVars
<1>1. Later(state, state') /\ Sound(k, state')
  BY LaterIsReflexive
<1>2. job' \in [Workers -> Jobs] /\ JobsSound'
  BY <1>1, OneRequestGoesOn DEF IInv
<1>3. TypeOK'
  BY <1>2 DEF TypeOK, IInv
<1>4. ProhibitedHalts' /\ HeldHint'
  BY DEF IInv, ProhibitedHalts, HeldHint
<1> QED BY <1>2, <1>3, <1>4 DEF IInv

\* The prohibited rule survives whatever registers nothing and makes no
\* current snapshot PROHIBITED without halting.
LEMMA ProhibitedRuleLasts ==
    ASSUME ProhibitedHalts, Later(state, state'),
           \A u \in UseCases :
              \/ state[u] # "UNREGISTERED" /\ snapshot'[u].tier = snapshot[u].tier
              \/ state'[u] = "UNREGISTERED"
              \/ snapshot'[u].tier = "PROHIBITED" => state'[u] = "HALTED_PROHIBITED"
    PROVE  ProhibitedHalts'
BY DEF ProhibitedHalts, Later

-----------------------------------------------------------------------------
(***************************************************************************)
(* Init, and the steps that write no row.                                  *)
(***************************************************************************)
LEMMA InitIsSound == Init => IInv
<1> SUFFICES ASSUME Init PROVE IInv
  OBVIOUS
<1>1. Idle \in Jobs /\ Sound(Idle, state)
  <2>1. {} \in SUBSET UseCases /\ \A u \in {} : state[u] # "UNREGISTERED"
    OBVIOUS
  <2> QED BY <2>1, IdleIsSound
<1>2. NoAiia \in AiiaRows /\ NoSnapshot \in Snapshots
  BY DEF NoAiia, AiiaRows, AiiaStatuses, NoSnapshot, Snapshots, Tiers
<1>3. TypeOK
  BY <1>1, <1>2 DEF Init, TypeOK, Positions, Tiers, Approvals
<1>4. JobsSound
  BY <1>1 DEF Init, JobsSound
<1>5. ProhibitedHalts /\ HeldHint
  BY DEF Init, ProhibitedHalts, HeldHint
<1> QED BY <1>3, <1>4, <1>5 DEF IInv

LEMMA RegisterEvaluation ==
    ASSUME IInv, NEW w \in Workers, EvaluateRegister(w)
    PROVE  IInv'
<1>1. PICK u \in UseCases, first \in Intakes :
        LET ratified == IF first.stamped THEN first.tier ELSE "REQUIRES_CONTEXT"
            v == full_vector(u, first.tier, ratified, NoAiia, FALSE, TRUE)
        IN  /\ state[u] = "UNREGISTERED"
            /\ job' = [job EXCEPT ![w] =
                   Registered(u, ratified, FirstRow(first),
                              advance_use_case("REQUESTED", v))]
  BY DEF EvaluateRegister
<1> DEFINE ratified == IF first.stamped THEN first.tier ELSE "REQUIRES_CONTEXT"
           v == full_vector(u, first.tier, ratified, NoAiia, FALSE, TRUE)
           m == advance_use_case("REQUESTED", v)
           k == Registered(u, ratified, FirstRow(first), m)
<1>2. /\ first.tier \in Tiers /\ first.status \in {"PENDING_REVIEW", "APPROVED"}
      /\ ratified \in Tiers
  <2>1. first \in FirstSnapshots
    BY LifecycleAssumption DEF LifecycleAssumption
  <2>2. CASE first = [tier |-> "REQUIRES_CONTEXT", status |-> "PENDING_REVIEW",
                      stamped |-> TRUE]
    BY <2>2 DEF Tiers
  <2>3. CASE first \in [tier : {"PROHIBITED", "RATED"},
                        status : {"PENDING_REVIEW", "APPROVED"}, stamped : BOOLEAN]
    <3>1. first.tier \in {"PROHIBITED", "RATED"}
          /\ first.status \in {"PENDING_REVIEW", "APPROVED"}
      BY <2>3
    <3> QED BY <3>1 DEF Tiers
  <2> QED BY <2>1, <2>2, <2>3 DEF FirstSnapshots
<1>3. v \in Vectors /\ (first.tier = "PROHIBITED" => v["INTAKE"] = "halt")
  BY GatesGiveAVector
<1>4. v["UNDER_ASSESSMENT"] = "park"
  BY DEF full_vector, verdict, VectorStates, GuardedStates, assessment_gate,
     structural_assessment_readiness, NoAiia, Passes
<1> HIDE DEF v
<1>5. /\ m \in Moves /\ LegalMove("REQUESTED", m)
      /\ first.tier = "PROHIBITED" => m = Halt
  BY <1>3, AdvanceIsLegal DEF LifecycleStates
<1>6. \/ m.to \in GuardedStates /\ Rank(m.to) <= Rank("UNDER_ASSESSMENT")
      \/ m.to = "HALTED_PROHIBITED"
  <2>1. CASE Halts("REQUESTED", v)
    BY <2>1 DEF advance_use_case, Halt
  <2>2. CASE ~Halts("REQUESTED", v)
    <3>1. m = Walk("REQUESTED", v)
      BY <2>2 DEF advance_use_case
    <3>2. Stops("REQUESTED", v) \in SUBSET VectorStates
      BY DEF Stops
    <3>3. "UNDER_ASSESSMENT" \in Stops("REQUESTED", v)
      BY <1>4 DEF Stops, VectorStates, GuardedStates, Rank
    <3>4. /\ Earliest(Stops("REQUESTED", v)) \in VectorStates
          /\ Rank(Earliest(Stops("REQUESTED", v))) <= Rank("UNDER_ASSESSMENT")
      BY <3>2, <3>3, EarliestIsFirst
    <3>5. "REQUESTED" \notin VectorStates
      BY DEF VectorStates, GuardedStates
    <3>6. m.to = Earliest(Stops("REQUESTED", v))
      BY <3>1, <3>4, <3>5 DEF Walk
    <3> QED
      BY <3>4, <3>6 DEF VectorStates, GuardedStates, Rank
  <2> QED BY <2>1, <2>2
<1> HIDE DEF m
<1>7. NoRow \in UseCaseRows /\ NoAiia \in AiiaRows /\ FirstRow(first) \in Snapshots
  BY <1>2 DEF NoRow, UseCaseRows, Positions, Tiers, NoAiia, AiiaRows, AiiaStatuses,
     FirstRow, Snapshots
<1> HIDE DEF ratified
<1>8. k \in Jobs
  BY <1>2, <1>5, <1>7 DEF Registered, Jobs
<1>9. Sound(k, state)
  BY <1>5, <1>6 DEF Registered, Sound, NoRow, FirstRow, Halt, LoadsUseCase, TakesTier,
     RecordsActor
<1>10. job' = [job EXCEPT ![w] = k]
  BY <1>1 DEF ratified, v, m
<1> QED
  BY <1>8, <1>9, <1>10, ReadStep DEF EvaluateRegister

LEMMA LoadedIsSound ==
    ASSUME TypeOK, NEW op \in AllHandlers, NEW u \in UseCases,
           NEW by \in Users \cup {NoUser}, NEW t \in Tiers, NEW todo \in SUBSET UseCases,
           \A x \in todo : state[x] # "UNREGISTERED", state[u] # "UNREGISTERED",
           op \in RecordsActor => by \in Users,
           Accepts(Loaded(op, u, by, t, todo))
    PROVE  Loaded(op, u, by, t, todo) \in Jobs /\ Sound(Loaded(op, u, by, t, todo), state)
<1> DEFINE row  == IF op \in LoadsUseCase THEN RowNow(u) ELSE NoRow
           doc  == IF op \in LoadsAiia THEN aiia[u] ELSE NoAiia
           snap == IF op = "sign_off_classification" THEN snapshot[u] ELSE NoSnapshot
           k    == Loaded(op, u, by, t, todo)
<1>1. row \in UseCaseRows
  BY DEF TypeOK, RowNow, NoRow, UseCaseRows, Positions, Tiers
<1>2. doc \in AiiaRows
  BY DEF TypeOK, NoAiia, AiiaRows, AiiaStatuses
<1>3. snap \in Snapshots
  BY DEF TypeOK, NoSnapshot, Snapshots, Tiers
<1>4. Stay("REQUESTED") \in Moves
  BY DEF Stay, Moves, Events, LifecycleStates
<1>5. row.state = IF op \in LoadsUseCase THEN state[u] ELSE "UNREGISTERED"
  BY DEF RowNow, NoRow
<1>6. k = [phase |-> "loaded", op |-> op, by |-> by, uc |-> u, tier |-> t, row |-> row,
           doc |-> doc, snap |-> snap, seen |-> 0, move |-> Stay("REQUESTED"),
           todo |-> todo]
  BY DEF Loaded
<1> HIDE DEF row, doc, snap, k
<1>7. k \in Jobs
  BY <1>1, <1>2, <1>3, <1>4, <1>6 DEF Jobs
<1>8. k.op = "authorise" => k.row.state = "PENDING_AUTHORISATION"
  BY DEF Accepts, k
<1>9. op # "register"
  BY DEF AllHandlers
<1>10. Sound(k, state)
  BY <1>5, <1>6, <1>8, <1>9 DEF Sound
<1> QED BY <1>7, <1>10 DEF k

LEMMA LoadStep == ASSUME IInv, NEW w \in Workers, Load(w) PROVE IInv'
<1>1. PICK op \in Handlers \cap (LoadsUseCase \cup LoadsAiia), u \in UseCases :
      \E by \in IF op \in RecordsActor THEN Users ELSE {NoUser},
         t \in IF op \in TakesTier THEN {"PROHIBITED", "RATED"}
               ELSE {"REQUIRES_CONTEXT"} :
         /\ state[u] # "UNREGISTERED"
         /\ Accepts(Loaded(op, u, by, t, {}))
         /\ job' = [job EXCEPT ![w] = Loaded(op, u, by, t, {})]
  BY ZenonT(60) DEF Load
<1>2. PICK by \in Users \cup {NoUser}, t \in Tiers :
         /\ op \in RecordsActor => by \in Users
         /\ state[u] # "UNREGISTERED"
         /\ Accepts(Loaded(op, u, by, t, {}))
         /\ job' = [job EXCEPT ![w] = Loaded(op, u, by, t, {})]
  BY <1>1 DEF Tiers
<1>3. op \in AllHandlers /\ {} \in SUBSET UseCases
      /\ \A x \in {} : state[x] # "UNREGISTERED"
  BY LifecycleAssumption DEF LifecycleAssumption
<1>4. Loaded(op, u, by, t, {}) \in Jobs /\ Sound(Loaded(op, u, by, t, {}), state)
  BY <1>2, <1>3, LoadedIsSound DEF IInv
<1> QED BY <1>2, <1>4, ReadStep DEF Load

LEMMA AbortStep == ASSUME IInv, NEW w \in Workers, Abort(w) PROVE IInv'
<1>1. {} \in SUBSET UseCases /\ \A x \in {} : state[x] # "UNREGISTERED"
  OBVIOUS
<1>2. Idle \in Jobs /\ Sound(Idle, state)
  BY <1>1, IdleIsSound
<1> QED BY <1>2, ReadStep DEF Abort

LEMMA FanOutStep == ASSUME IInv, NEW w \in Workers, fan_out(w) PROVE IInv'
<1>1. PICK u \in job[w].todo :
        job' = [job EXCEPT ![w] = Loaded("re_evaluate", u, NoUser, "REQUIRES_CONTEXT",
                                         job[w].todo \ {u})]
  BY DEF fan_out
<1> DEFINE todo == job[w].todo \ {u}
           k == Loaded("re_evaluate", u, NoUser, "REQUIRES_CONTEXT", todo)
<1>2. job[w] \in Jobs /\ Sound(job[w], state)
  BY DEF IInv, TypeOK, JobsSound
<1>3. /\ u \in UseCases /\ todo \in SUBSET UseCases
      /\ state[u] # "UNREGISTERED" /\ \A x \in todo : state[x] # "UNREGISTERED"
  BY <1>2 DEF Jobs, Sound
<1>4. "re_evaluate" \in AllHandlers /\ "REQUIRES_CONTEXT" \in Tiers
      /\ "re_evaluate" \notin RecordsActor
  BY DEF AllHandlers, Tiers, RecordsActor
<1>5. k.op = "re_evaluate"
  BY DEF Loaded
<1>6. Accepts(k)
  BY <1>5 DEF Accepts
<1>7. k \in Jobs /\ Sound(k, state)
  BY <1>3, <1>4, <1>6, LoadedIsSound DEF IInv
<1> QED BY <1>1, <1>7, ReadStep DEF fan_out

(***************************************************************************)
(* Evaluations.  Each one below only says why its move is legal.           *)
(***************************************************************************)

\* What a loaded request may rely on.
LEMMA LoadedFacts ==
    ASSUME IInv, NEW w \in Workers, job[w].phase = "loaded"
    PROVE  /\ job[w] \in Jobs /\ Sound(job[w], state)
           /\ job[w].uc \in UseCases
           /\ state[job[w].uc] \in LifecycleStates \ {"REQUESTED"}
           /\ job[w].row \in UseCaseRows
           /\ job[w].seen \in Nat
           /\ job[w].op \in LoadsUseCase =>
                 job[w].row.state \in LifecycleStates \ {"REQUESTED"}
           /\ job[w].row.state = "HALTED_PROHIBITED" =>
                 state[job[w].uc] = "HALTED_PROHIBITED"
           /\ job[w].move = Stay("REQUESTED") /\ job[w].move \in Moves
<1>1. job[w] \in Jobs /\ Sound(job[w], state)
  BY DEF IInv, TypeOK, JobsSound
<1>2. job[w].row \in UseCaseRows /\ job[w].seen \in Nat /\ job[w].move \in Moves
  BY <1>1 DEF Jobs
<1>3. job[w].uc \in UseCases /\ state[job[w].uc] \in Positions
      /\ job[w].row.state \in Positions
  BY <1>1, <1>2 DEF Sound, IInv, TypeOK, UseCaseRows
<1> QED BY <1>1, <1>2, <1>3 DEF Sound, Positions

LEMMA EvaluateStep ==
    ASSUME IInv, NEW w \in Workers, job[w].phase = "loaded",
           NEW row \in UseCaseRows, NEW seen \in Nat, NEW m \in Moves,
           EvaluateAs(w, row, seen, m),
           LegalMove(row.state, m),
           job[w].op \in LoadsUseCase => row.state # "UNREGISTERED",
           row.state = "HALTED_PROHIBITED" => state[job[w].uc] = "HALTED_PROHIBITED",
           m.event = "authorise" => job[w].op = "authorise",
           job[w].op = "authorise" =>
              /\ m = [event |-> "authorise", to |-> "AUTHORISED"]
              /\ row.state = "PENDING_AUTHORISATION",
           (job[w].op \in TakesTier /\ job[w].tier = "PROHIBITED") =>
              m = Halt \/ row.state = "HALTED_PROHIBITED"
    PROVE  IInv'
<1>1. job[w] \in Jobs /\ Sound(job[w], state)
  BY LoadedFacts
<1>2. /\ Evaluated(job[w], row, seen, m) \in Jobs
      /\ Sound(Evaluated(job[w], row, seen, m), state)
  BY <1>1, EvaluatedIsSound
<1> QED BY <1>2, ReadStep DEF EvaluateAs

\* The driver after a classification write.
LEMMA SnapshotDriverIsLegal ==
    ASSUME NEW j, NEW snapTier, NEW ratified,
           j.row.state \in LifecycleStates
    PROVE  /\ AdvanceOnSnapshot(j, snapTier, ratified) \in Moves
           /\ LegalMove(j.row.state, AdvanceOnSnapshot(j, snapTier, ratified))
           /\ AdvanceOnSnapshot(j, snapTier, ratified).event # "authorise"
           /\ snapTier = "PROHIBITED" =>
                 \/ j.row.state = "HALTED_PROHIBITED"
                 \/ AdvanceOnSnapshot(j, snapTier, ratified) = Halt
<1> DEFINE v == full_vector(j.uc, snapTier, ratified, aiia[j.uc],
                            structural[j.uc], treated[j.uc])
<1>1. v \in Vectors /\ (snapTier = "PROHIBITED" => v["INTAKE"] = "halt")
  BY GatesGiveAVector
<1>2. AdvanceOnSnapshot(j, snapTier, ratified) = advance_use_case(j.row.state, v)
  BY DEF AdvanceOnSnapshot
<1> HIDE DEF v
<1> QED BY <1>1, <1>2, AdvanceIsLegal

\* The handlers that call no engine keep the move they were loaded with.
LEMMA ChecksStep ==
    ASSUME IInv, NEW w \in Workers, job[w].phase = "loaded", EvaluateChecks(w),
           job[w].op \notin TakesTier \cup {"authorise"}
    PROVE  IInv'
<1> DEFINE j == job[w]
<1>1. /\ Sound(j, state) /\ j.row \in UseCaseRows /\ j.seen \in Nat /\ j.move \in Moves
      /\ j.move = Stay("REQUESTED")
      /\ j.row.state = "HALTED_PROHIBITED" => state[j.uc] = "HALTED_PROHIBITED"
  BY LoadedFacts
<1>2. j.op \in LoadsUseCase => j.row.state # "UNREGISTERED"
  BY <1>1 DEF Sound
<1>3. j.move.event = "none" /\ LegalMove(j.row.state, j.move)
  BY <1>1 DEF Stay, LegalMove
<1> QED
  BY <1>1, <1>2, <1>3, EvaluateStep DEF EvaluateChecks

LEMMA EvaluationStep == ASSUME IInv, NEW w \in Workers, Evaluate(w) PROVE IInv'
<1> DEFINE j == job[w]
<1>1. j.phase = "loaded"
  BY DEF Evaluate, EvaluateReEvaluate, EvaluateAuthorise, EvaluateSubmit,
     EvaluateReviewApproved, EvaluateOverride, EvaluateCompute, EvaluateSignOff,
     EvaluateCreateAiia, EvaluateDelete, At
<1>2. /\ Sound(j, state) /\ j \in Jobs
      /\ j.uc \in UseCases
      /\ state[j.uc] \in LifecycleStates \ {"REQUESTED"}
      /\ j.row \in UseCaseRows /\ j.seen \in Nat
      /\ j.op \in LoadsUseCase => j.row.state \in LifecycleStates \ {"REQUESTED"}
      /\ j.row.state = "HALTED_PROHIBITED" => state[j.uc] = "HALTED_PROHIBITED"
  BY <1>1, LoadedFacts
<1>3. snapshot[j.uc].version \in Nat
  BY <1>2 DEF IInv, TypeOK, Snapshots
<1>4. "UNREGISTERED" \notin LifecycleStates
  BY DEF LifecycleStates, VectorStates, GuardedStates
<1>5. CASE EvaluateReEvaluate(w)
  <2> DEFINE v == VectorNow(j.uc, j.row.eu_tier, aiia[j.uc])
             m == re_evaluate(j.row.state, v)
  <2>1. j.op = "re_evaluate" /\ EvaluateAs(w, j.row, j.seen, m)
    BY <1>5 DEF EvaluateReEvaluate, At
  <2>2. v \in Vectors
    BY GatesGiveAVector DEF VectorNow
  <2>3. m \in Moves /\ LegalMove(j.row.state, m) /\ m.event # "authorise"
    BY <1>2, <2>1, <2>2, ReEvaluateIsLegal DEF LoadsUseCase
  <2> HIDE DEF m
  <2> QED
    BY <1>1, <1>2, <1>4, <2>1, <2>3, EvaluateStep DEF LoadsUseCase, TakesTier
<1>6. CASE EvaluateAuthorise(w)
  <2> DEFINE m == [event |-> "authorise", to |-> "AUTHORISED"]
  <2>1. j.op = "authorise" /\ EvaluateAs(w, j.row, j.seen, m)
    BY <1>6 DEF EvaluateAuthorise, At
  <2>2. j.row.state = "PENDING_AUTHORISATION"
    BY <1>1, <1>2, <2>1 DEF Sound
  <2>3. m \in Moves /\ LegalMove(j.row.state, m)
    BY <2>2 DEF LegalMove, Moves, Events, LifecycleStates
  <2> QED
    BY <1>1, <1>2, <1>4, <2>1, <2>2, <2>3, EvaluateStep DEF TakesTier
<1>7. CASE EvaluateSubmit(w) \/ EvaluateCreateAiia(w) \/ EvaluateDelete(w)
  <2>1. /\ j.op \in {"submit_for_review", "create_aiia", "delete_assessment"}
        /\ EvaluateChecks(w)
    BY <1>7 DEF EvaluateSubmit, EvaluateCreateAiia, EvaluateDelete, At
  <2> QED
    BY <1>1, <2>1, ChecksStep DEF TakesTier
<1>8. CASE EvaluateReviewApproved(w)
  <2> DEFINE row == RowNow(j.uc)
             v == VectorNow(j.uc, eu_tier[j.uc], [j.doc EXCEPT !.status = "APPROVED"])
             m == advance_use_case(state[j.uc], v)
  <2>1. j.op = "review_approved" /\ EvaluateAs(w, row, j.seen, m)
    BY <1>8 DEF EvaluateReviewApproved, At
  <2>2. v \in Vectors
    BY GatesGiveAVector DEF VectorNow
  <2>3. row \in UseCaseRows /\ row.state = state[j.uc]
    BY <1>2 DEF RowNow, UseCaseRows, IInv, TypeOK
  <2>4. m \in Moves /\ LegalMove(row.state, m) /\ m.event # "authorise"
    BY <1>2, <2>2, <2>3, AdvanceIsLegal
  <2> HIDE DEF m, row
  <2> QED
    BY <1>1, <1>2, <2>1, <2>3, <2>4, EvaluateStep DEF LoadsUseCase, TakesTier
<1>9. CASE EvaluateOverride(w)
  <2> DEFINE m == AdvanceOnSnapshot(j, j.tier, j.tier)
  <2>1. j.op = "override_classification"
        /\ EvaluateAs(w, j.row, snapshot[j.uc].version, m)
    BY <1>9 DEF EvaluateOverride, At
  <2>2. j.row.state \in LifecycleStates
    BY <1>2, <2>1 DEF LoadsUseCase
  <2>3. /\ m \in Moves /\ LegalMove(j.row.state, m) /\ m.event # "authorise"
        /\ j.tier = "PROHIBITED" => m = Halt \/ j.row.state = "HALTED_PROHIBITED"
    BY <2>2, SnapshotDriverIsLegal
  <2> HIDE DEF m
  <2> QED
    BY <1>1, <1>2, <1>3, <1>4, <2>1, <2>2, <2>3, EvaluateStep
<1>10. CASE EvaluateCompute(w)
  <2> DEFINE m == AdvanceOnSnapshot(j, j.tier, j.row.eu_tier)
  <2>1. j.op = "compute_classification"
        /\ EvaluateAs(w, j.row, snapshot[j.uc].version, m)
    BY <1>10 DEF EvaluateCompute, At
  <2>2. j.row.state \in LifecycleStates
    BY <1>2, <2>1 DEF LoadsUseCase
  <2>3. /\ m \in Moves /\ LegalMove(j.row.state, m) /\ m.event # "authorise"
        /\ j.tier = "PROHIBITED" => m = Halt \/ j.row.state = "HALTED_PROHIBITED"
    BY <2>2, SnapshotDriverIsLegal
  <2> HIDE DEF m
  <2> QED
    BY <1>1, <1>2, <1>3, <1>4, <2>1, <2>2, <2>3, EvaluateStep
<1>11. CASE EvaluateSignOff(w)
  <2> DEFINE m == AdvanceOnSnapshot(j, snapshot[j.uc].tier, j.snap.tier)
  <2>1. j.op = "sign_off_classification"
        /\ EvaluateAs(w, j.row, snapshot[j.uc].version, m)
    BY <1>11 DEF EvaluateSignOff, At
  <2>2. j.row.state \in LifecycleStates
    BY <1>2, <2>1 DEF LoadsUseCase
  <2>3. m \in Moves /\ LegalMove(j.row.state, m) /\ m.event # "authorise"
    BY <2>2, SnapshotDriverIsLegal
  <2> HIDE DEF m
  <2> QED
    BY <1>1, <1>2, <1>3, <1>4, <2>1, <2>2, <2>3, EvaluateStep DEF TakesTier
<1> QED
  BY <1>5, <1>6, <1>7, <1>8, <1>9, <1>10, <1>11 DEF Evaluate

-----------------------------------------------------------------------------
(***************************************************************************)
(* Commits.                                                                *)
(***************************************************************************)

\* What an evaluated request may rely on.
LEMMA EvaluatedFacts ==
    ASSUME IInv, NEW w \in Workers, job[w].phase \in {"loaded", "evaluated"}
    PROVE  /\ job[w] \in Jobs /\ Sound(job[w], state)
           /\ job[w].uc \in UseCases /\ job[w].move \in Moves
           /\ job[w].tier \in Tiers /\ job[w].doc \in AiiaRows
           /\ job[w].snap \in Snapshots /\ job[w].seen \in Nat
           /\ job[w].doc.id \in Nat /\ job[w].doc.round \in Nat
           /\ job[w].snap.tier \in Tiers
           /\ job[w].op # "register" => state[job[w].uc] # "UNREGISTERED"
           /\ job[w].by \in Users \cup {NoUser}
           /\ job[w].op \in RecordsActor => job[w].by \in Users
<1>1. job[w] \in Jobs /\ Sound(job[w], state)
  BY DEF IInv, TypeOK, JobsSound
<1>2. /\ job[w].doc \in AiiaRows /\ job[w].snap \in Snapshots
      /\ job[w].move \in Moves /\ job[w].tier \in Tiers /\ job[w].seen \in Nat
      /\ job[w].by \in Users \cup {NoUser}
  BY <1>1 DEF Jobs
<1>3. job[w].doc.id \in Nat /\ job[w].doc.round \in Nat
  BY <1>2 DEF AiiaRows
<1>4. job[w].snap.tier \in Tiers
  BY <1>2 DEF Snapshots
<1> QED BY <1>1, <1>2, <1>3, <1>4 DEF Sound

\* A commit that moves the use case: its positions, its hint and the requests.
LEMMA MovingCommit ==
    ASSUME IInv, NEW w \in Workers, job[w].phase = "evaluated",
           job[w].op # "register", Respond(w),
           apply_transition(job[w].uc, job[w].row.state, job[w].move)
    PROVE  /\ state' \in [UseCases -> Positions]
           /\ held_from' \in [UseCases -> AdvancedStates \cup {"NONE"}]
           /\ job' \in [Workers -> Jobs]
           /\ JobsSound' /\ HeldHint' /\ Later(state, state')
           /\ \A x \in UseCases \ {job[w].uc} : state'[x] = state[x]
           /\ job[w].move.event # "none" => state'[job[w].uc] = job[w].move.to
           /\ job[w].move.event = "none" => state'[job[w].uc] = state[job[w].uc]
<1> DEFINE j == job[w]
<1>1. j.uc \in UseCases /\ j.move \in Moves /\ Sound(j, state)
  BY EvaluatedFacts
<1>2. LegalMove(j.row.state, j.move)
  BY <1>1 DEF Sound
<1>3. TypeOK /\ HeldHint /\ JobsSound
  BY DEF IInv
<1>4. /\ state' \in [UseCases -> Positions]
      /\ held_from' \in [UseCases -> AdvancedStates \cup {"NONE"}]
      /\ HeldHint' /\ Later(state, state')
      /\ \A x \in UseCases \ {j.uc} : state'[x] = state[x]
      /\ j.move.event # "none" => state'[j.uc] = j.move.to
      /\ j.move.event = "none" => state'[j.uc] = state[j.uc]
  BY <1>1, <1>2, <1>3, TransitionIsSafe
<1> QED BY <1>3, <1>4, RespondIsSound

\* A commit that leaves the positions alone.
LEMMA RestingCommit ==
    ASSUME IInv, NEW w \in Workers, Respond(w), UNCHANGED <<state, held_from>>
    PROVE  /\ state' \in [UseCases -> Positions]
           /\ held_from' \in [UseCases -> AdvancedStates \cup {"NONE"}]
           /\ job' \in [Workers -> Jobs]
           /\ JobsSound' /\ HeldHint' /\ Later(state, state')
<1>1. Later(state, state')
  BY LaterIsReflexive
<1>2. HeldHint'
  BY DEF IInv, HeldHint
<1> QED BY <1>1, <1>2, RespondIsSound DEF IInv, TypeOK

\* With the snapshots left alone, the prohibited rule follows.
LEMMA ProhibitedRuleKept ==
    ASSUME IInv, Later(state, state'), UNCHANGED snapshot,
           \A x \in UseCases : state[x] = "UNREGISTERED" => state'[x] = "UNREGISTERED"
    PROVE  ProhibitedHalts'
BY DEF IInv, ProhibitedHalts, Later

LEMMA StatusUpdateTyped ==
    ASSUME TypeOK, NEW j \in Jobs, NEW from, NEW row \in AiiaRows,
           conditional_status_update(j, from, row)
    PROVE  aiia' \in [UseCases -> AiiaRows]
<1>1. [row EXCEPT !.lock_version = @ + 1] \in AiiaRows
  <2>1. row.lock_version + 1 \in Nat
    BY DEF AiiaRows
  <2> QED BY <2>1 DEF AiiaRows
<1> QED BY <1>1 DEF conditional_status_update, TypeOK

LEMMA CommitRegisterStep == ASSUME IInv, NEW w \in Workers, CommitRegister(w) PROVE IInv'
<1> DEFINE j == job[w]
<1> USE DEF docVars, itemVars, recordVars
<1>1. j.phase = "evaluated" /\ j.op = "register"
  BY DEF CommitRegister, Ready
<1>2. j.uc \in UseCases /\ j.tier \in Tiers /\ j.snap \in Snapshots /\ Sound(j, state)
  BY <1>1, EvaluatedFacts
<1>3. /\ \/ j.move.to \in GuardedStates
         \/ j.move.to = "HALTED_PROHIBITED"
      /\ j.snap.tier = "PROHIBITED" => j.move.to = "HALTED_PROHIBITED"
  BY <1>1, <1>2 DEF Sound
<1>4. j.move.to \in Positions \ {"UNREGISTERED", "HELD"}
  BY <1>3 DEF Positions, LifecycleStates, VectorStates, GuardedStates
<1>5. /\ state[j.uc] = "UNREGISTERED"
      /\ state' = [state EXCEPT ![j.uc] = j.move.to]
      /\ eu_tier' = [eu_tier EXCEPT ![j.uc] = j.tier]
      /\ snapshot' = [snapshot EXCEPT ![j.uc] = j.snap]
      /\ Respond(w) /\ held_from' = held_from
      /\ UNCHANGED <<aiia, nextAiia, structural, treated, worked, submissions, reviews,
                     atos, approval>>
  BY DEF CommitRegister
<1>6. Later(state, state')
  BY <1>2, <1>4, <1>5 DEF Later, IInv, TypeOK
<1>7. job' \in [Workers -> Jobs] /\ JobsSound'
  BY <1>5, <1>6, RespondIsSound DEF IInv
<1>8. TypeOK'
  BY <1>2, <1>4, <1>5, <1>7 DEF IInv, TypeOK
<1>9. HeldHint'
  BY <1>2, <1>4, <1>5 DEF IInv, TypeOK, HeldHint
<1>10. ProhibitedHalts'
  BY <1>2, <1>3, <1>5 DEF IInv, TypeOK, ProhibitedHalts
<1> QED BY <1>7, <1>8, <1>9, <1>10 DEF IInv

LEMMA CommitReEvaluateStep ==
    ASSUME IInv, NEW w \in Workers, CommitReEvaluate(w) PROVE IInv'
<1> DEFINE j == job[w]
<1> USE DEF docVars, itemVars, recordVars
<1>1. /\ j.phase = "evaluated" /\ j.op = "re_evaluate" /\ Respond(w)
      /\ apply_transition(j.uc, j.row.state, j.move)
  BY DEF CommitReEvaluate, Ready
<1>2. /\ state' \in [UseCases -> Positions]
      /\ held_from' \in [UseCases -> AdvancedStates \cup {"NONE"}]
      /\ job' \in [Workers -> Jobs]
      /\ JobsSound' /\ HeldHint' /\ Later(state, state')
      /\ \A x \in UseCases \ {j.uc} : state'[x] = state[x]
  BY <1>1, MovingCommit
<1>3. state[j.uc] # "UNREGISTERED"
  BY <1>1, EvaluatedFacts
<1>4. TypeOK'
  BY <1>2 DEF CommitReEvaluate, IInv, TypeOK
<1>5. ProhibitedHalts'
  BY <1>2, <1>3, ProhibitedRuleKept DEF CommitReEvaluate
<1> QED BY <1>2, <1>4, <1>5 DEF IInv

LEMMA CommitAuthoriseStep ==
    ASSUME IInv, NEW w \in Workers, CommitAuthorise(w) PROVE IInv'
<1> DEFINE j == job[w]
<1> USE DEF docVars, itemVars, recordVars
<1>1. /\ j.phase = "evaluated" /\ j.op = "authorise" /\ Respond(w)
      /\ apply_transition(j.uc, j.row.state, j.move)
  BY DEF CommitAuthorise, Ready
<1>2. /\ state' \in [UseCases -> Positions]
      /\ held_from' \in [UseCases -> AdvancedStates \cup {"NONE"}]
      /\ job' \in [Workers -> Jobs]
      /\ JobsSound' /\ HeldHint' /\ Later(state, state')
      /\ \A x \in UseCases \ {j.uc} : state'[x] = state[x]
  BY <1>1, MovingCommit
<1>3. state[j.uc] # "UNREGISTERED" /\ j.uc \in UseCases /\ Grant(j) \in Atos
  BY <1>1, EvaluatedFacts DEF Grant, Atos, RecordsActor
<1>4. atos' \in [UseCases -> SUBSET Atos]
  BY <1>3 DEF CommitAuthorise, IInv, TypeOK
<1>5. TypeOK'
  BY <1>2, <1>4 DEF CommitAuthorise, IInv, TypeOK
<1>6. ProhibitedHalts'
  BY <1>2, <1>3, ProhibitedRuleKept DEF CommitAuthorise
<1> QED BY <1>2, <1>5, <1>6 DEF IInv

LEMMA CommitSubmitStep ==
    ASSUME IInv, NEW w \in Workers, CommitSubmit(w) PROVE IInv'
<1> DEFINE j == job[w]
           row == [j.doc EXCEPT !.status = "IN_REVIEW", !.round = @ + 1,
                                !.submitted_by = j.by]
           s == [id |-> j.doc.id, round |-> j.doc.round + 1, by |-> j.by]
<1> USE DEF useCaseVars, docVars, itemVars, recordVars
<1>1. /\ j.phase = "evaluated" /\ j.op = "submit_for_review" /\ Respond(w)
      /\ conditional_status_update(j, {"DRAFT", "NEEDS_REFRESH"}, row)
      /\ submissions' = [submissions EXCEPT ![j.uc] = @ \cup {s}]
  BY DEF CommitSubmit, Ready
<1>2. /\ j \in Jobs /\ j.uc \in UseCases /\ j.by \in Users /\ j.doc \in AiiaRows
      /\ j.doc.id \in Nat /\ j.doc.round + 1 \in Nat
  BY <1>1, EvaluatedFacts DEF RecordsActor
<1>3. row \in AiiaRows
  BY <1>2 DEF AiiaRows, AiiaStatuses
<1>4. aiia' \in [UseCases -> AiiaRows]
  BY <1>1, <1>2, <1>3, StatusUpdateTyped DEF IInv
<1>5. s \in Submissions
  BY <1>2 DEF Submissions
<1>6. submissions' \in [UseCases -> SUBSET Submissions]
  BY <1>1, <1>5 DEF IInv, TypeOK
<1>7. /\ state' \in [UseCases -> Positions]
      /\ held_from' \in [UseCases -> AdvancedStates \cup {"NONE"}]
      /\ job' \in [Workers -> Jobs]
      /\ JobsSound' /\ HeldHint' /\ Later(state, state')
  BY <1>1, RestingCommit DEF CommitSubmit
<1>8. TypeOK'
  BY <1>4, <1>6, <1>7 DEF CommitSubmit, IInv, TypeOK
<1>9. ProhibitedHalts'
  BY <1>7, ProhibitedRuleKept DEF CommitSubmit
<1> QED BY <1>7, <1>8, <1>9 DEF IInv

LEMMA ReviewTyped ==
    ASSUME IInv, NEW w \in Workers, job[w].phase \in {"loaded", "evaluated"},
           job[w].op \in RecordsActor,
           NEW decision \in {"APPROVED", "CHANGES_REQUESTED"},
           RecordReview(job[w], decision)
    PROVE  reviews' \in [UseCases -> SUBSET Reviews]
<1> DEFINE j == job[w]
           r == [id |-> j.doc.id, round |-> j.doc.round, by |-> j.by,
                 decision |-> decision]
<1>1. r \in Reviews
  BY EvaluatedFacts DEF Reviews
<1>2. reviews' = [reviews EXCEPT ![j.uc] = @ \cup {r}]
  BY DEF RecordReview
<1> QED BY <1>1, <1>2 DEF IInv, TypeOK

LEMMA CommitReviewApprovedStep ==
    ASSUME IInv, NEW w \in Workers, CommitReviewApproved(w) PROVE IInv'
<1> DEFINE j == job[w]
           row == [j.doc EXCEPT !.status = "APPROVED", !.approved_by = j.by]
<1> USE DEF docVars, itemVars, recordVars
<1>1. /\ j.phase = "evaluated" /\ j.op = "review_approved" /\ Respond(w)
      /\ conditional_status_update(j, {"IN_REVIEW"}, row)
      /\ RecordReview(j, "APPROVED")
      /\ apply_transition(j.uc, j.row.state, j.move)
  BY DEF CommitReviewApproved, Ready
<1>2. /\ j \in Jobs /\ j.by \in Users /\ j.doc \in AiiaRows
      /\ state[j.uc] # "UNREGISTERED"
  BY <1>1, EvaluatedFacts DEF RecordsActor
<1>3. row \in AiiaRows
  BY <1>2 DEF AiiaRows, AiiaStatuses
<1>4. aiia' \in [UseCases -> AiiaRows]
  BY <1>1, <1>2, <1>3, StatusUpdateTyped DEF IInv
<1>5. reviews' \in [UseCases -> SUBSET Reviews]
  BY <1>1, ReviewTyped DEF RecordsActor
<1>6. /\ state' \in [UseCases -> Positions]
      /\ held_from' \in [UseCases -> AdvancedStates \cup {"NONE"}]
      /\ job' \in [Workers -> Jobs]
      /\ JobsSound' /\ HeldHint' /\ Later(state, state')
      /\ \A x \in UseCases \ {j.uc} : state'[x] = state[x]
  BY <1>1, MovingCommit
<1>7. TypeOK'
  BY <1>4, <1>5, <1>6 DEF CommitReviewApproved, IInv, TypeOK
<1>8. ProhibitedHalts'
  BY <1>2, <1>6, ProhibitedRuleKept DEF CommitReviewApproved
<1> QED BY <1>6, <1>7, <1>8 DEF IInv

LEMMA CommitReviewChangesStep ==
    ASSUME IInv, NEW w \in Workers, CommitReviewChanges(w) PROVE IInv'
<1> DEFINE j == job[w]
           row == [j.doc EXCEPT !.status = "DRAFT"]
<1> USE DEF useCaseVars, docVars, itemVars, recordVars
<1>1. /\ j.phase = "loaded" /\ j.op = "review_changes_requested" /\ Respond(w)
      /\ conditional_status_update(j, {"IN_REVIEW"}, row)
      /\ RecordReview(j, "CHANGES_REQUESTED")
  BY DEF CommitReviewChanges, At
<1>2. j \in Jobs /\ j.doc \in AiiaRows
  BY <1>1, EvaluatedFacts
<1>3. row \in AiiaRows
  BY <1>2 DEF AiiaRows, AiiaStatuses
<1>4. aiia' \in [UseCases -> AiiaRows]
  BY <1>1, <1>2, <1>3, StatusUpdateTyped DEF IInv
<1>5. reviews' \in [UseCases -> SUBSET Reviews]
  BY <1>1, ReviewTyped DEF RecordsActor
<1>6. /\ state' \in [UseCases -> Positions]
      /\ held_from' \in [UseCases -> AdvancedStates \cup {"NONE"}]
      /\ job' \in [Workers -> Jobs]
      /\ JobsSound' /\ HeldHint' /\ Later(state, state')
  BY <1>1, RestingCommit DEF CommitReviewChanges
<1>7. TypeOK'
  BY <1>4, <1>5, <1>6 DEF CommitReviewChanges, IInv, TypeOK
<1>8. ProhibitedHalts'
  BY <1>6, ProhibitedRuleKept DEF CommitReviewChanges
<1> QED BY <1>6, <1>7, <1>8 DEF IInv

LEMMA CommitReopenStep ==
    ASSUME IInv, NEW w \in Workers, CommitReopen(w) PROVE IInv'
<1> DEFINE j == job[w]
           row == [j.doc EXCEPT !.status = "NEEDS_REFRESH"]
<1> USE DEF useCaseVars, docVars, itemVars, recordVars
<1>1. /\ j.phase = "loaded" /\ Respond(w)
      /\ conditional_status_update(j, {"APPROVED"}, row)
  BY DEF CommitReopen, At
<1>2. j \in Jobs /\ j.doc \in AiiaRows
  BY <1>1, EvaluatedFacts
<1>3. row \in AiiaRows
  BY <1>2 DEF AiiaRows, AiiaStatuses
<1>4. aiia' \in [UseCases -> AiiaRows]
  BY <1>1, <1>2, <1>3, StatusUpdateTyped DEF IInv
<1>5. /\ state' \in [UseCases -> Positions]
      /\ held_from' \in [UseCases -> AdvancedStates \cup {"NONE"}]
      /\ job' \in [Workers -> Jobs]
      /\ JobsSound' /\ HeldHint' /\ Later(state, state')
  BY <1>1, RestingCommit DEF CommitReopen
<1>6. TypeOK'
  BY <1>4, <1>5 DEF CommitReopen, IInv, TypeOK
<1>7. ProhibitedHalts'
  BY <1>5, ProhibitedRuleKept DEF CommitReopen
<1> QED BY <1>5, <1>6, <1>7 DEF IInv

(***************************************************************************)
(* The classification writes: the tier a request carries as PROHIBITED     *)
(* halts with its row, or found the use case halted already.               *)
(***************************************************************************)
LEMMA InsertedSnapshot ==
    ASSUME TypeOK, NEW u \in UseCases, NEW t \in Tiers, InsertSnapshot(u, t, "PENDING_REVIEW")
    PROVE  /\ snapshot' \in [UseCases -> Snapshots]
           /\ snapshot'[u].tier = t
           /\ \A x \in UseCases \ {u} : snapshot'[x] = snapshot[x]
<1> DEFINE row == [tier |-> t, status |-> "PENDING_REVIEW",
                   version |-> snapshot[u].version + 1]
<1>1. row \in Snapshots /\ row.tier = t
  BY DEF TypeOK, Snapshots
<1>2. snapshot' = [snapshot EXCEPT ![u] = row]
  BY DEF InsertSnapshot
<1> HIDE DEF row
<1> QED BY <1>1, <1>2 DEF TypeOK

LEMMA StampedTier ==
    ASSUME TypeOK, NEW u \in UseCases, NEW row, NEW t \in Tiers, StampTier(u, row, t)
    PROVE  eu_tier' \in [UseCases -> Tiers]
BY DEF StampTier, TypeOK

LEMMA NewSnapshotStep ==
    ASSUME IInv, NEW w \in Workers, job[w].phase = "evaluated",
           job[w].op \in TakesTier, Respond(w),
           InsertSnapshot(job[w].uc, job[w].tier, "PENDING_REVIEW"),
           apply_transition(job[w].uc, job[w].row.state, job[w].move),
           eu_tier' \in [UseCases -> Tiers],
           UNCHANGED <<docVars, recordVars, approval>>
    PROVE  IInv'
<1> DEFINE j == job[w]
<1> USE DEF docVars, itemVars, recordVars
<1>1. /\ j.uc \in UseCases /\ j.tier \in Tiers /\ Sound(j, state)
      /\ j.op # "register" /\ state[j.uc] # "UNREGISTERED"
  BY EvaluatedFacts DEF TakesTier
<1>2. /\ state' \in [UseCases -> Positions]
      /\ held_from' \in [UseCases -> AdvancedStates \cup {"NONE"}]
      /\ job' \in [Workers -> Jobs]
      /\ JobsSound' /\ HeldHint' /\ Later(state, state')
      /\ \A x \in UseCases \ {j.uc} : state'[x] = state[x]
      /\ j.move.event # "none" => state'[j.uc] = j.move.to
  BY <1>1, MovingCommit
<1>3. /\ snapshot' \in [UseCases -> Snapshots]
      /\ snapshot'[j.uc].tier = j.tier
      /\ \A x \in UseCases \ {j.uc} : snapshot'[x] = snapshot[x]
  BY <1>1, InsertedSnapshot DEF IInv
<1>4. j.tier = "PROHIBITED" => state'[j.uc] = "HALTED_PROHIBITED"
  BY <1>1, <1>2 DEF Sound, Halt, Later
<1>5. TypeOK'
  BY <1>2, <1>3 DEF IInv, TypeOK
<1>6. ProhibitedHalts'
  BY <1>2, <1>3, <1>4, ProhibitedRuleLasts DEF IInv
<1> QED BY <1>2, <1>5, <1>6 DEF IInv

LEMMA CommitOverrideStep ==
    ASSUME IInv, NEW w \in Workers, CommitOverride(w) PROVE IInv'
<1> DEFINE j == job[w]
<1>1. j.phase = "evaluated" /\ j.op \in TakesTier
  BY DEF CommitOverride, Ready, TakesTier
<1>2. j.uc \in UseCases /\ j.tier \in Tiers
  BY <1>1, EvaluatedFacts
<1>3. eu_tier' \in [UseCases -> Tiers]
  BY <1>2, StampedTier DEF CommitOverride, IInv
<1> QED BY <1>1, <1>3, NewSnapshotStep DEF CommitOverride

LEMMA CommitComputeStep ==
    ASSUME IInv, NEW w \in Workers, CommitCompute(w) PROVE IInv'
<1>1. job[w].phase = "evaluated" /\ job[w].op \in TakesTier
  BY DEF CommitCompute, Ready, TakesTier
<1>2. eu_tier' \in [UseCases -> Tiers]
  BY DEF CommitCompute, IInv, TypeOK
<1> QED BY <1>1, <1>2, NewSnapshotStep DEF CommitCompute

LEMMA CommitSignOffStep ==
    ASSUME IInv, NEW w \in Workers, CommitSignOff(w) PROVE IInv'
<1> DEFINE j == job[w]
           old == snapshot[j.uc]
           new == IF old.version = j.snap.version
                  THEN [old EXCEPT !.status = "APPROVED"] ELSE old
<1> USE DEF docVars, itemVars, recordVars
<1>1. /\ j.phase = "evaluated" /\ j.op = "sign_off_classification" /\ Respond(w)
      /\ apply_transition(j.uc, j.row.state, j.move)
      /\ snapshot' = [snapshot EXCEPT ![j.uc] = new]
      /\ StampTier(j.uc, j.row, j.snap.tier)
      /\ UNCHANGED <<docVars, recordVars, approval>>
  BY DEF CommitSignOff, Ready
<1>2. /\ j.uc \in UseCases /\ j.snap.tier \in Tiers
      /\ state[j.uc] # "UNREGISTERED"
  BY <1>1, EvaluatedFacts
<1>3. /\ state' \in [UseCases -> Positions]
      /\ held_from' \in [UseCases -> AdvancedStates \cup {"NONE"}]
      /\ job' \in [Workers -> Jobs]
      /\ JobsSound' /\ HeldHint' /\ Later(state, state')
      /\ \A x \in UseCases \ {j.uc} : state'[x] = state[x]
  BY <1>1, MovingCommit
<1>4. old \in Snapshots
  BY <1>2 DEF IInv, TypeOK
<1>5. new \in Snapshots /\ new.tier = old.tier
  BY <1>4 DEF Snapshots
<1>6. eu_tier' \in [UseCases -> Tiers]
  BY <1>1, <1>2, StampedTier DEF IInv
<1> HIDE DEF new
<1>7. /\ snapshot' \in [UseCases -> Snapshots]
      /\ \A x \in UseCases : snapshot'[x].tier = snapshot[x].tier
  BY <1>1, <1>2, <1>5 DEF IInv, TypeOK
<1>8. TypeOK'
  BY <1>1, <1>3, <1>6, <1>7 DEF IInv, TypeOK
<1>9. ProhibitedHalts'
  <2>1. \A x \in UseCases : \/ state[x] # "UNREGISTERED"
                            \/ state'[x] = "UNREGISTERED"
    BY <1>2, <1>3
  <2> QED BY <1>3, <1>7, <2>1, ProhibitedRuleLasts DEF IInv
<1> QED BY <1>3, <1>8, <1>9 DEF IInv

LEMMA ItemsTyped ==
    ASSUME TypeOK, NEW u, NEW complete \in BOOLEAN, NEW decided \in BOOLEAN,
           NEW touched \in BOOLEAN, SetItems(u, complete, decided, touched)
    PROVE  /\ structural' \in [UseCases -> BOOLEAN]
           /\ treated' \in [UseCases -> BOOLEAN]
           /\ worked' \in [UseCases -> BOOLEAN]
BY DEF SetItems, TypeOK

LEMMA CommitCreateAiiaStep ==
    ASSUME IInv, NEW w \in Workers, CommitCreateAiia(w) PROVE IInv'
<1> DEFINE j == job[w]
           row == [NoAiia EXCEPT !.id = nextAiia[j.uc] + 1, !.status = "DRAFT"]
<1> USE DEF useCaseVars, recordVars
<1>1. /\ j.phase = "evaluated" /\ Respond(w)
      /\ nextAiia' = [nextAiia EXCEPT ![j.uc] = @ + 1]
      /\ aiia' = [aiia EXCEPT ![j.uc] = row]
  BY DEF CommitCreateAiia, Ready
<1>2. j.uc \in UseCases
  BY <1>1, EvaluatedFacts
<1>3. nextAiia[j.uc] + 1 \in Nat /\ nextAiia' \in [UseCases -> Nat]
  BY <1>1, <1>2 DEF IInv, TypeOK
<1>4. row \in AiiaRows
  <2>1. NoAiia \in AiiaRows
    BY DEF NoAiia, AiiaRows, AiiaStatuses
  <2>2. [NoAiia EXCEPT !.id = nextAiia[j.uc] + 1] \in AiiaRows
    BY <1>3, <2>1 DEF AiiaRows
  <2> QED BY <2>2 DEF AiiaRows, AiiaStatuses
<1> HIDE DEF row
<1>5. aiia' \in [UseCases -> AiiaRows]
  BY <1>1, <1>4 DEF IInv, TypeOK
<1>6. /\ structural' \in [UseCases -> BOOLEAN]
      /\ treated' \in [UseCases -> BOOLEAN]
      /\ worked' \in [UseCases -> BOOLEAN]
  <2>1. PICK complete \in BOOLEAN : SetItems(j.uc, complete, TRUE, FALSE)
    BY DEF CommitCreateAiia
  <2> QED BY <2>1, ItemsTyped DEF IInv
<1>7. /\ state' \in [UseCases -> Positions]
      /\ held_from' \in [UseCases -> AdvancedStates \cup {"NONE"}]
      /\ job' \in [Workers -> Jobs]
      /\ JobsSound' /\ HeldHint' /\ Later(state, state')
  BY <1>1, RestingCommit DEF CommitCreateAiia
<1>8. TypeOK'
  BY <1>3, <1>5, <1>6, <1>7 DEF CommitCreateAiia, IInv, TypeOK
<1>9. ProhibitedHalts'
  BY <1>7, ProhibitedRuleKept DEF CommitCreateAiia
<1> QED BY <1>7, <1>8, <1>9 DEF IInv

LEMMA CommitDeleteStep ==
    ASSUME IInv, NEW w \in Workers, CommitDelete(w) PROVE IInv'
<1> DEFINE j == job[w]
<1> USE DEF useCaseVars, recordVars
<1>1. /\ Respond(w) /\ SetItems(j.uc, FALSE, TRUE, FALSE)
      /\ aiia' = [aiia EXCEPT ![j.uc] = NoAiia]
  BY DEF CommitDelete
<1>2. aiia' \in [UseCases -> AiiaRows]
  BY <1>1 DEF IInv, TypeOK, NoAiia, AiiaRows, AiiaStatuses
<1>3. /\ structural' \in [UseCases -> BOOLEAN]
      /\ treated' \in [UseCases -> BOOLEAN]
      /\ worked' \in [UseCases -> BOOLEAN]
  BY <1>1, ItemsTyped DEF IInv
<1>4. /\ state' \in [UseCases -> Positions]
      /\ held_from' \in [UseCases -> AdvancedStates \cup {"NONE"}]
      /\ job' \in [Workers -> Jobs]
      /\ JobsSound' /\ HeldHint' /\ Later(state, state')
  BY <1>1, RestingCommit DEF CommitDelete
<1>5. TypeOK'
  BY <1>2, <1>3, <1>4 DEF CommitDelete, IInv, TypeOK
<1>6. ProhibitedHalts'
  BY <1>4, ProhibitedRuleKept DEF CommitDelete
<1> QED BY <1>4, <1>5, <1>6 DEF IInv

-----------------------------------------------------------------------------
(***************************************************************************)
(* Item writes and clearance.                                              *)
(***************************************************************************)

\* An item write of a request, whether or not it drives the lifecycle.
LEMMA ItemCommit ==
    ASSUME IInv, NEW w \in Workers, job[w].phase = "loaded", Respond(w),
           NEW complete \in BOOLEAN, NEW decided \in BOOLEAN, NEW touched \in BOOLEAN,
           SetItems(job[w].uc, complete, decided, touched),
           \/ AdvanceAfterItems(job[w], complete, decided)
           \/ UNCHANGED <<state, held_from>>,
           UNCHANGED <<eu_tier, snapshot, aiia, nextAiia, recordVars, approval>>
    PROVE  IInv'
<1> DEFINE j == job[w]
<1> USE DEF recordVars
<1>1. /\ j.uc \in UseCases /\ state[j.uc] \in LifecycleStates
      /\ state[j.uc] # "UNREGISTERED"
  BY LoadedFacts DEF LifecycleStates, VectorStates, GuardedStates
<1>2. /\ state' \in [UseCases -> Positions]
      /\ held_from' \in [UseCases -> AdvancedStates \cup {"NONE"}]
      /\ HeldHint' /\ Later(state, state')
      /\ \A x \in UseCases \ {j.uc} : state'[x] = state[x]
  <2>1. CASE AdvanceAfterItems(j, complete, decided)
    <3> DEFINE v == full_vector(j.uc, snapshot[j.uc].tier, eu_tier[j.uc], j.doc,
                                complete, decided)
               m == advance_use_case(state[j.uc], v)
    <3>1. v \in Vectors
      BY GatesGiveAVector
    <3>2. m \in Moves /\ LegalMove(state[j.uc], m)
      BY <1>1, <3>1, AdvanceIsLegal
    <3>3. apply_transition(j.uc, state[j.uc], m)
      BY <2>1 DEF AdvanceAfterItems
    <3> HIDE DEF m
    <3> QED
      BY <1>1, <3>2, <3>3, TransitionIsSafe DEF IInv
  <2>2. CASE UNCHANGED <<state, held_from>>
    BY <2>2, LaterIsReflexive DEF IInv, TypeOK, HeldHint
  <2> QED BY <2>1, <2>2
<1>3. job' \in [Workers -> Jobs] /\ JobsSound'
  BY <1>2, RespondIsSound DEF IInv
<1>4. /\ structural' \in [UseCases -> BOOLEAN]
      /\ treated' \in [UseCases -> BOOLEAN]
      /\ worked' \in [UseCases -> BOOLEAN]
  BY ItemsTyped DEF IInv
<1>5. TypeOK'
  BY <1>2, <1>3, <1>4 DEF IInv, TypeOK
<1>6. ProhibitedHalts'
  BY <1>1, <1>2, ProhibitedRuleKept
<1> QED BY <1>2, <1>3, <1>5, <1>6 DEF IInv

LEMMA ItemCommitsStep ==
    ASSUME IInv, NEW w \in Workers,
           CommitConfirmItem(w) \/ CommitAmendItem(w) \/ CommitControlLink(w)
    PROVE  IInv'
<1> DEFINE j == job[w]
<1>1. j.phase = "loaded"
  BY DEF CommitConfirmItem, CommitAmendItem, CommitControlLink, At
<1>2. /\ j.uc \in UseCases /\ structural[j.uc] \in BOOLEAN
      /\ treated[j.uc] \in BOOLEAN /\ worked[j.uc] \in BOOLEAN
  BY <1>1, LoadedFacts DEF IInv, TypeOK
<1>3. CASE CommitConfirmItem(w)
  <2>1. PICK complete \in BOOLEAN :
          /\ SetItems(j.uc, complete, FALSE, TRUE)
          /\ AdvanceAfterItems(j, complete, FALSE)
    BY <1>3 DEF CommitConfirmItem
  <2> QED
    BY <1>1, <1>3, <2>1, ItemCommit DEF CommitConfirmItem
<1>4. CASE CommitAmendItem(w)
  <2>1. PICK decided \in BOOLEAN, touched \in BOOLEAN :
          /\ SetItems(j.uc, structural[j.uc], decided, touched)
          /\ \/ AdvanceAfterItems(j, structural[j.uc], decided)
             \/ UNCHANGED <<state, held_from>>
    BY <1>2, <1>4 DEF CommitAmendItem
  <2> QED
    BY <1>1, <1>2, <1>4, <2>1, ItemCommit DEF CommitAmendItem
<1>5. CASE CommitControlLink(w)
  <2>1. PICK decided \in BOOLEAN : SetItems(j.uc, structural[j.uc], decided, TRUE)
    BY <1>2, <1>5 DEF CommitControlLink
  <2>2. UNCHANGED <<state, held_from, eu_tier, snapshot, aiia, nextAiia, recordVars, approval>>
    BY <1>5 DEF CommitControlLink, useCaseVars
  <2>3. Respond(w)
    BY <1>5 DEF CommitControlLink
  <2> QED
    BY <1>1, <1>2, <2>1, <2>2, <2>3, ItemCommit
<1> QED BY <1>3, <1>4, <1>5

LEMMA UnguardedStep ==
    ASSUME IInv, NEW u \in UseCases, ItemWrite(u) PROVE IInv'
<1> USE DEF useCaseVars, recordVars
<1>1. UNCHANGED <<useCaseVars, snapshot, aiia, nextAiia, recordVars, approval, job>>
  BY DEF ItemWrite, delete_item, delete_control_link, create_feeder, delete_feeder,
     UnguardedWrite
<1>2. structural[u] \in BOOLEAN /\ treated[u] \in BOOLEAN /\ worked[u] \in BOOLEAN
  BY DEF IInv, TypeOK
<1>3. \E complete, decided, touched \in BOOLEAN : SetItems(u, complete, decided, touched)
  <2>1. CASE delete_item(u)
    BY <1>2, <2>1 DEF delete_item
  <2>2. CASE delete_control_link(u)
    BY <1>2, <2>2 DEF delete_control_link
  <2>3. CASE create_feeder(u)
    BY <1>2, <2>3 DEF create_feeder
  <2>4. CASE delete_feeder(u)
    BY <1>2, <2>4 DEF delete_feeder
  <2> QED BY <2>1, <2>2, <2>3, <2>4 DEF ItemWrite
<1>4. /\ structural' \in [UseCases -> BOOLEAN]
      /\ treated' \in [UseCases -> BOOLEAN]
      /\ worked' \in [UseCases -> BOOLEAN]
  BY <1>3, ItemsTyped DEF IInv
<1>5. TypeOK'
  BY <1>1, <1>4 DEF IInv, TypeOK
<1>6. JobsSound' /\ ProhibitedHalts' /\ HeldHint'
  BY <1>1 DEF IInv, JobsSound, ProhibitedHalts, HeldHint
<1> QED BY <1>5, <1>6 DEF IInv

LEMMA SetApprovalStep ==
    ASSUME IInv, NEW w \in Workers, set_approval(w) PROVE IInv'
<1> USE DEF useCaseVars, docVars, itemVars, recordVars
<1>1. PICK p \in Parties, x \in {"NOT_APPROVED", "APPROVED"} :
        /\ approval' = [approval EXCEPT ![p] = x]
        /\ job' = [job EXCEPT ![w] = Rest(Linked(p))]
  BY DEF set_approval
<1>2. Linked(p) \in SUBSET UseCases /\ \A u \in Linked(p) : state[u] # "UNREGISTERED"
  BY DEF Linked
<1>3. UNCHANGED <<useCaseVars, snapshot, docVars, recordVars>>
  BY DEF set_approval
<1>4. Rest(Linked(p)) \in Jobs /\ Sound(Rest(Linked(p)), state')
  BY <1>2, <1>3, IdleIsSound
<1>5. job' \in [Workers -> Jobs] /\ JobsSound'
  BY <1>1, <1>3, <1>4, LaterIsReflexive, OneRequestGoesOn DEF IInv
<1>6. TypeOK'
  BY <1>1, <1>3, <1>5 DEF IInv, TypeOK, Approvals
<1>7. ProhibitedHalts' /\ HeldHint'
  BY <1>3 DEF IInv, ProhibitedHalts, HeldHint
<1> QED BY <1>5, <1>6, <1>7 DEF IInv

LEMMA LapseStep ==
    ASSUME IInv, NEW p \in Parties, ApprovalLapses(p) PROVE IInv'
<1> USE DEF useCaseVars, docVars, itemVars, recordVars
<1>1. TypeOK'
  BY DEF ApprovalLapses, IInv, TypeOK, Approvals
<1>2. JobsSound' /\ ProhibitedHalts' /\ HeldHint'
  BY DEF ApprovalLapses, IInv, JobsSound, ProhibitedHalts, HeldHint
<1> QED BY <1>1, <1>2 DEF IInv

-----------------------------------------------------------------------------
(***************************************************************************)
(* The theorems.                                                           *)
(***************************************************************************)

\* The invariant survives every step, one action at a time.
LEMMA InvariantIsInductive == IInv /\ [Next]_vars => IInv'
<1> SUFFICES ASSUME IInv, [Next]_vars PROVE IInv'
  OBVIOUS
<1>1. CASE UNCHANGED vars
  BY <1>1 DEF vars, useCaseVars, docVars, itemVars, recordVars, IInv, TypeOK, JobsSound,
     ProhibitedHalts, HeldHint
<1>2. ASSUME NEW w \in Workers, Request(w) PROVE IInv'
  <2>1. CASE EvaluateRegister(w) BY <2>1, RegisterEvaluation
  <2>2. CASE Load(w) BY <2>2, LoadStep
  <2>3. CASE Evaluate(w) BY <2>3, EvaluationStep
  <2>4. CASE Abort(w) BY <2>4, AbortStep
  <2>5. CASE set_approval(w) BY <2>5, SetApprovalStep
  <2>6. CASE fan_out(w) BY <2>6, FanOutStep
  <2>7. CASE Commit(w)
    <3>1. CASE CommitRegister(w) BY <3>1, CommitRegisterStep
    <3>2. CASE CommitReEvaluate(w) BY <3>2, CommitReEvaluateStep
    <3>3. CASE CommitAuthorise(w) BY <3>3, CommitAuthoriseStep
    <3>4. CASE CommitSubmit(w) BY <3>4, CommitSubmitStep
    <3>5. CASE CommitReviewApproved(w) BY <3>5, CommitReviewApprovedStep
    <3>6. CASE CommitReviewChanges(w) BY <3>6, CommitReviewChangesStep
    <3>7. CASE CommitReopen(w) BY <3>7, CommitReopenStep
    <3>8. CASE CommitOverride(w) BY <3>8, CommitOverrideStep
    <3>9. CASE CommitCompute(w) BY <3>9, CommitComputeStep
    <3>10. CASE CommitSignOff(w) BY <3>10, CommitSignOffStep
    <3>11. CASE CommitCreateAiia(w) BY <3>11, CommitCreateAiiaStep
    <3>12. CASE CommitDelete(w) BY <3>12, CommitDeleteStep
    <3>13. CASE CommitConfirmItem(w) \/ CommitAmendItem(w) \/ CommitControlLink(w)
      BY <3>13, ItemCommitsStep
    <3> QED
      BY <2>7, <3>1, <3>2, <3>3, <3>4, <3>5, <3>6, <3>7, <3>8, <3>9, <3>10, <3>11,
         <3>12, <3>13 DEF Commit
  <2> QED
    BY <1>2, <2>1, <2>2, <2>3, <2>4, <2>5, <2>6, <2>7 DEF Request
<1>3. ASSUME NEW u \in UseCases, ItemWrite(u) PROVE IInv'
  BY <1>3, UnguardedStep
<1>4. ASSUME NEW p \in Parties, ApprovalLapses(p) PROVE IInv'
  BY <1>4, LapseStep
<1> QED BY <1>1, <1>2, <1>3, <1>4 DEF Next

\* The inductive invariant holds in every behaviour, for every number of use
\* cases, users, workers and parties.
THEOREM InvariantAlways == Spec => []IInv
<1>1. Init => IInv
  BY InitIsSound
<1>2. IInv /\ [Next]_vars => IInv'
  BY InvariantIsInductive
<1> QED BY <1>1, <1>2, PTL DEF Spec

\* Every row and every request keeps its type (TypeOK).
THEOREM TypeCorrect == Spec => []TypeOK
<1>1. IInv => TypeOK
  BY DEF IInv
<1> QED BY <1>1, InvariantAlways, PTL

\* A PROHIBITED use case is halted in every committed state, whatever
\* requests are under way and however stale the rows they hold.
THEOREM ProhibitedAlwaysHalts == Spec => []ProhibitedHalts
<1>1. IInv => ProhibitedHalts
  BY DEF IInv
<1> QED BY <1>1, InvariantAlways, PTL

\* The hold hint is there exactly while the use case is held.
THEOREM HintIsExact == Spec => []HeldHint
<1>1. IInv => HeldHint
  BY DEF IInv
<1> QED BY <1>1, InvariantAlways, PTL

-----------------------------------------------------------------------------
(***************************************************************************)
(* The handlers implement the lifecycle's contract: read as a cursor per   *)
(* use case and the grants given for it, every committed transaction is a  *)
(* step of LifecycleContract and every other step stutters.  The mapping   *)
(* is cursor <- state, grants <- atos; the argument is the legality of the *)
(* move a request holds (Sound) and the conditional UPDATE that writes it  *)
(* only from the state the move was computed for (apply_transition).       *)
(***************************************************************************)
\* A step that moves nothing and grants nothing.
LEMMA StutterImplements ==
    ASSUME UNCHANGED <<state, atos>>
    PROVE  [Contract!Next]_(Contract!vars)
BY DEF Contract!vars

\* A legal move that authorises nothing is an edge of the contract.
LEMMA MoveImplements ==
    ASSUME TypeOK, NEW u \in UseCases, NEW from, NEW m \in Moves,
           LegalMove(from, m), m.event # "authorise",
           apply_transition(u, from, m), UNCHANGED atos
    PROVE  [Contract!Next]_(Contract!vars)
<1>1. CASE m.event = "none"
  BY <1>1, StutterImplements DEF apply_transition
<1>2. CASE m.event # "none"
  <2>1. state[u] = from /\ state' = [state EXCEPT ![u] = m.to] /\ from \in Positions
    BY <1>2 DEF apply_transition, TypeOK
  <2>2. Contract!Move(u, m.to)
    BY <2>1 DEF Contract!Move
  <2>3. CASE m.event = "advance"
    <3>1. /\ from \in GuardedStates /\ m.to \in VectorStates
          /\ Rank(from) < Rank(m.to)
      BY <2>1, <2>3 DEF LegalMove, Positions
    <3>2. Contract!Advance(u)
      BY <2>1, <2>2, <3>1 DEF Contract!Advance, Contract!GuardedStates,
         Contract!VectorStates, GuardedStates, VectorStates, Contract!Rank, Rank
    <3> QED BY <3>2 DEF Contract!Next
  <2>4. CASE m.event = "hold"
    <3>1. from \in AdvancedStates \ {"VENDOR_CHECK"} /\ m.to = "HELD"
      BY <2>4 DEF LegalMove
    <3>2. Contract!Regress(u)
      BY <2>1, <2>2, <3>1 DEF Contract!Regress, Contract!AdvancedStates,
         Contract!VectorStates, Contract!GuardedStates, AdvancedStates, VectorStates,
         GuardedStates
    <3> QED BY <3>2 DEF Contract!Next
  <2>5. CASE m.event = "restore"
    <3>1. from = "HELD" /\ m.to \in VectorStates
      BY <2>5 DEF LegalMove
    <3>2. Contract!Unhold(u)
      BY <2>1, <2>2, <3>1 DEF Contract!Unhold, Contract!VectorStates,
         Contract!GuardedStates, VectorStates, GuardedStates
    <3> QED BY <3>2 DEF Contract!Next
  <2>6. CASE m.event = "halt"
    <3>1. from \in LifecycleStates \ TerminalStates /\ m.to = "HALTED_PROHIBITED"
      BY <2>6 DEF LegalMove
    <3>2. Contract!Prohibit(u)
      BY <2>1, <2>2, <3>1 DEF Contract!Prohibit, Contract!LifecycleStates,
         Contract!TerminalStates, Contract!VectorStates, Contract!GuardedStates,
         LifecycleStates, TerminalStates, VectorStates, GuardedStates
    <3> QED BY <3>2 DEF Contract!Next
  <2> QED
    BY <1>2, <2>3, <2>4, <2>5, <2>6 DEF LegalMove
<1> QED BY <1>1, <1>2

\* The initial states agree.
LEMMA InitImplements == Init => Contract!Init
BY DEF Init, Contract!Init

\* An evaluated request, other than an authorisation or a registration,
\* commits an edge.
LEMMA MovingCommitImplements ==
    ASSUME IInv, NEW w \in Workers, job[w].phase = "evaluated",
           job[w].op \notin {"register", "authorise"}, UNCHANGED atos,
           apply_transition(job[w].uc, job[w].row.state, job[w].move)
    PROVE  [Contract!Next]_(Contract!vars)
<1> DEFINE j == job[w]
<1>1. j.uc \in UseCases /\ j.move \in Moves /\ Sound(j, state)
  BY EvaluatedFacts
<1>2. LegalMove(j.row.state, j.move) /\ j.move.event # "authorise"
  BY <1>1 DEF Sound
<1> QED BY <1>1, <1>2, MoveImplements DEF IInv

LEMMA RegisterImplements ==
    ASSUME IInv, NEW w \in Workers, CommitRegister(w)
    PROVE  Contract!Next
<1> DEFINE j == job[w]
<1>1. j.phase = "evaluated" /\ j.op = "register"
  BY DEF CommitRegister, Ready
<1>2. j.uc \in UseCases /\ Sound(j, state)
  BY <1>1, EvaluatedFacts
<1>3. \/ j.move.to \in GuardedStates /\ Rank(j.move.to) <= Rank("UNDER_ASSESSMENT")
      \/ j.move.to = "HALTED_PROHIBITED"
  BY <1>1, <1>2 DEF Sound
<1>4. /\ state[j.uc] = "UNREGISTERED" /\ state' = [state EXCEPT ![j.uc] = j.move.to]
      /\ UNCHANGED atos
  BY DEF CommitRegister, recordVars
<1>5. j.move.to \in LifecycleStates
  BY <1>3 DEF LifecycleStates, VectorStates, GuardedStates
<1>6. Contract!Register(j.uc)
  BY <1>3, <1>4, <1>5 DEF Contract!Register, Contract!Move, Contract!LifecycleStates,
     Contract!VectorStates, Contract!GuardedStates, Contract!Rank, Rank,
     LifecycleStates, VectorStates, GuardedStates
<1> QED BY <1>2, <1>6 DEF Contract!Next

LEMMA AuthoriseImplements ==
    ASSUME IInv, NEW w \in Workers, CommitAuthorise(w)
    PROVE  Contract!Next
<1> DEFINE j == job[w]
<1>1. j.phase = "evaluated" /\ j.op = "authorise"
  BY DEF CommitAuthorise, Ready
<1>2. j.uc \in UseCases /\ Sound(j, state)
  BY <1>1, EvaluatedFacts
<1>3. /\ j.row.state = "PENDING_AUTHORISATION"
      /\ j.move = [event |-> "authorise", to |-> "AUTHORISED"]
  BY <1>1, <1>2 DEF Sound
<1>4. /\ state[j.uc] = "PENDING_AUTHORISATION"
      /\ state' = [state EXCEPT ![j.uc] = "AUTHORISED"]
      /\ atos' = [atos EXCEPT ![j.uc] = @ \cup {Grant(j)}]
  BY <1>3 DEF CommitAuthorise, apply_transition
<1>5. Grant(j) \in atos'[j.uc]
  BY <1>2, <1>4 DEF IInv, TypeOK
<1>6. Contract!Authorise(j.uc)
  BY <1>4, <1>5 DEF Contract!Authorise
<1> QED BY <1>2, <1>6 DEF Contract!Next

LEMMA ItemDriverImplements ==
    ASSUME IInv, NEW w \in Workers, job[w].phase = "loaded",
           NEW complete, NEW decided, UNCHANGED atos,
           AdvanceAfterItems(job[w], complete, decided)
    PROVE  [Contract!Next]_(Contract!vars)
<1> DEFINE j == job[w]
           v == full_vector(j.uc, snapshot[j.uc].tier, eu_tier[j.uc], j.doc,
                            complete, decided)
           m == advance_use_case(state[j.uc], v)
<1>1. j.uc \in UseCases /\ state[j.uc] \in LifecycleStates
  BY LoadedFacts
<1>2. v \in Vectors
  BY GatesGiveAVector
<1>3. m \in Moves /\ LegalMove(state[j.uc], m) /\ m.event # "authorise"
  BY <1>1, <1>2, AdvanceIsLegal
<1>4. apply_transition(j.uc, state[j.uc], m)
  BY DEF AdvanceAfterItems
<1> HIDE DEF m
<1> QED BY <1>1, <1>3, <1>4, MoveImplements DEF IInv

LEMMA CommitImplements ==
    ASSUME IInv, NEW w \in Workers, Commit(w)
    PROVE  [Contract!Next]_(Contract!vars)
<1> USE DEF useCaseVars, recordVars
<1>1. CASE CommitRegister(w) BY <1>1, RegisterImplements
<1>2. CASE CommitAuthorise(w) BY <1>2, AuthoriseImplements
<1>3. CASE CommitReEvaluate(w)
  BY <1>3, MovingCommitImplements DEF CommitReEvaluate, Ready
<1>4. CASE CommitReviewApproved(w)
  BY <1>4, MovingCommitImplements DEF CommitReviewApproved, Ready
<1>5. CASE CommitOverride(w)
  BY <1>5, MovingCommitImplements DEF CommitOverride, Ready
<1>6. CASE CommitCompute(w)
  BY <1>6, MovingCommitImplements DEF CommitCompute, Ready
<1>7. CASE CommitSignOff(w)
  BY <1>7, MovingCommitImplements DEF CommitSignOff, Ready
<1>8. CASE \/ CommitSubmit(w) \/ CommitReviewChanges(w) \/ CommitReopen(w)
           \/ CommitCreateAiia(w) \/ CommitDelete(w) \/ CommitControlLink(w)
  BY <1>8, StutterImplements DEF CommitSubmit, CommitReviewChanges, CommitReopen,
     CommitCreateAiia, CommitDelete, CommitControlLink
<1>9. CASE CommitConfirmItem(w)
  BY <1>9, ItemDriverImplements DEF CommitConfirmItem, At
<1>10. CASE CommitAmendItem(w)
  <2>1. CASE UNCHANGED <<state, held_from>>
    BY <1>10, <2>1, StutterImplements DEF CommitAmendItem
  <2>2. CASE ~UNCHANGED <<state, held_from>>
    BY <1>10, <2>2, ItemDriverImplements DEF CommitAmendItem, At
  <2> QED BY <2>1, <2>2
<1> QED
  BY <1>1, <1>2, <1>3, <1>4, <1>5, <1>6, <1>7, <1>8, <1>9, <1>10 DEF Commit

LEMMA StepImplements ==
    IInv /\ [Next]_vars => [Contract!Next]_(Contract!vars)
<1> SUFFICES ASSUME IInv, [Next]_vars PROVE [Contract!Next]_(Contract!vars)
  OBVIOUS
<1> USE DEF useCaseVars, recordVars
<1>1. CASE UNCHANGED vars
  BY <1>1, StutterImplements DEF vars
<1>2. ASSUME NEW w \in Workers, Request(w) PROVE [Contract!Next]_(Contract!vars)
  <2>1. CASE Commit(w) BY <2>1, CommitImplements
  <2>2. CASE EvaluateRegister(w) \/ Load(w) \/ Abort(w) \/ set_approval(w) \/ fan_out(w)
    BY <2>2, StutterImplements DEF EvaluateRegister, Load, Abort, set_approval, fan_out
  <2>3. CASE Evaluate(w)
    <3>1. UNCHANGED <<state, atos>>
      BY <2>3 DEF Evaluate, EvaluateReEvaluate, EvaluateAuthorise, EvaluateSubmit,
         EvaluateReviewApproved, EvaluateOverride, EvaluateCompute, EvaluateSignOff,
         EvaluateCreateAiia, EvaluateDelete, EvaluateChecks, EvaluateAs
    <3> QED BY <3>1, StutterImplements
  <2> QED BY <1>2, <2>1, <2>2, <2>3 DEF Request
<1>3. ASSUME NEW u \in UseCases, ItemWrite(u) PROVE [Contract!Next]_(Contract!vars)
  BY <1>3, StutterImplements DEF ItemWrite, delete_item, delete_control_link,
     create_feeder, delete_feeder, UnguardedWrite
<1>4. ASSUME NEW p \in Parties, ApprovalLapses(p)
      PROVE  [Contract!Next]_(Contract!vars)
  BY <1>4, StutterImplements DEF ApprovalLapses
<1> QED BY <1>1, <1>2, <1>3, <1>4 DEF Next

\* The handlers implement the contract: no interleaving of requests moves a
\* use case along an edge the lifecycle does not have, or into AUTHORISED
\* without a grant.
THEOREM HandlersImplementContract == Spec => ImplementsContract
<1>1. Init => Contract!Init
  BY InitImplements
<1>2. IInv /\ [Next]_vars => [Contract!Next]_(Contract!vars)
  BY StepImplements
<1> QED
  BY <1>1, <1>2, InvariantAlways, PTL DEF Spec, ImplementsContract, Contract!Spec
=============================================================================
