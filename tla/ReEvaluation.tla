---------------------------- MODULE ReEvaluation ----------------------------
(***************************************************************************)
(* One use case under the engine, alone: its cursor (use_case.state) and   *)
(* the gate vector, which the rest of the system changes at will.  The     *)
(* engine is called by a triggering write (advance_use_case), by the       *)
(* manual lever or an approval fan-out (re_evaluate) and by the            *)
(* authoriser's act.  The runs over this module decide the engine for      *)
(* every position and every vector: both are finite.                       *)
(***************************************************************************)
EXTENDS LifecycleEngine, Sequences

VARIABLES
    cursor,   \* use_case.state
    vector    \* what full_vector would return now

vars == <<cursor, vector>>

\* Only the intake gate can answer "halt" (classification_readiness).
PossibleVectors ==
    {v \in Vectors : \A s \in VectorStates \ {"INTAKE"} : v[s] # "halt"}

\* A new use case has no assessment, hence no risk item and no grant.
Init ==
    /\ vector \in PossibleVectors
    /\ vector["UNDER_ASSESSMENT"] = "park"
    /\ vector["TREATMENT_PENDING"] = "advance"
    /\ vector["PENDING_AUTHORISATION"] = "park"
    /\ cursor = advance_use_case("REQUESTED", vector).to

\* A gate's inputs change: an approval is set or lapses, a tier is ratified,
\* an item is treated, an assessment is approved or reopened.  Only the act
\* of authorisation makes the authorisation gate pass.
GateChanges ==
    /\ \E s \in VectorStates, x \in Verdicts :
          /\ s = "PENDING_AUTHORISATION" => x = "park"
          /\ vector' = [vector EXCEPT ![s] = x]
          /\ vector' \in PossibleVectors
    /\ UNCHANGED cursor

TriggeredAdvance ==
    /\ cursor' = advance_use_case(cursor, vector).to
    /\ UNCHANGED vector

ReEvaluate ==
    /\ cursor' = re_evaluate(cursor, vector).to
    /\ UNCHANGED vector

\* Bug: the act is accepted on the cursor alone.
AuthoriseOnCursorOnly ==
    /\ cursor = "PENDING_AUTHORISATION"
    /\ cursor' = "AUTHORISED"
    /\ vector' = [vector EXCEPT !["PENDING_AUTHORISATION"] = "advance"]

\* authorise_use_case: the ATO it writes makes the authorisation gate pass.
Authorise ==
    /\ cursor = "PENDING_AUTHORISATION"
    /\ \A s \in GuardedStates : vector[s] = "advance"
    /\ cursor' = "AUTHORISED"
    /\ vector' = [vector EXCEPT !["PENDING_AUTHORISATION"] = "advance"]

Next == GateChanges \/ TriggeredAdvance \/ ReEvaluate \/ Authorise

Spec == Init /\ [][Next]_vars

-----------------------------------------------------------------------------
(***************************************************************************)
(* The loop of advance_use_case as the code writes it: one transition row  *)
(* per hop, the gate read again after each.                                *)
(***************************************************************************)
AdvanceLoop(v) ==
    LET rows[s \in LifecycleStates] ==
            IF s = "REQUESTED" \/ (s \in GuardedStates /\ v[s] = "advance")
            THEN LET t == CHOOSE t \in VectorStates : NextState(s, t)
                 IN  <<[from |-> s, event |-> "advance", to |-> t]>> \o rows[t]
            ELSE <<>>
    IN  rows

\* The transition rows apply_transition writes for a move from s.
Rows(s, move, v) ==
    CASE move.event = "none"    -> <<>>
      [] move.event = "advance" -> AdvanceLoop(v)[s]
      [] OTHER -> <<[from |-> s, event |-> move.event, to |-> move.to]>>

\* The rows lead from s to the move's state over legal edges only.
LegalTrail(s, move, v) ==
    LET rows == Rows(s, move, v) IN
    /\ \A i \in 1..Len(rows) :
          /\ IsLegal(rows[i].from, rows[i].event, rows[i].to)
          /\ rows[i].from = IF i = 1 THEN s ELSE rows[i - 1].to
    /\ move.to = IF rows = <<>> THEN s ELSE rows[Len(rows)].to

(***************************************************************************)
(* The engine never asks apply_transition for an undefined transition (its *)
(* ValueError, "a caller bug") from any position the use case can be in    *)
(* and any vector, and the hop-by-hop loop, with the gate read again after *)
(* each row, rests exactly where the walk says.                            *)
(***************************************************************************)
EngineWritesLegalTrails ==
    /\ LegalTrail(cursor, re_evaluate(cursor, vector), vector)
    /\ LegalTrail(cursor, advance_use_case(cursor, vector), vector)

(***************************************************************************)
(* re_evaluate settles: whatever the position and the vector, a second run *)
(* (the un-hold that follows a hold) ends at a position a third run keeps, *)
(* and that position is the target of the vector, AUTHORISED with every    *)
(* gate passing, or halted.                                                *)
(***************************************************************************)
ReEvaluateSettles ==
    LET once  == re_evaluate(cursor, vector).to
        twice == re_evaluate(once, vector).to
    IN  /\ re_evaluate(twice, vector).to = twice
        /\ \/ twice = target_from_vector(vector)
           \/ twice = "AUTHORISED" /\ Blocked(vector) = {}
           \/ twice = "HALTED_PROHIBITED"

(***************************************************************************)
(* An act of authorisation is never given against a failing gate, and no   *)
(* run of the engine enters AUTHORISED: only the act does (INV-35).        *)
(***************************************************************************)
AuthorisedOnlyByTheAct ==
    [][cursor' = "AUTHORISED" /\ cursor # "AUTHORISED"
         => /\ cursor = "PENDING_AUTHORISATION"
            /\ Blocked(vector') = {}]_vars

(***************************************************************************)
(* What _fan_out's docstring says of a second run: re_evaluate applied to  *)
(* its own result changes nothing.                                         *)
(***************************************************************************)
ReEvaluateIsIdempotent ==
    LET once == re_evaluate(cursor, vector).to
    IN  re_evaluate(once, vector).to = once
=============================================================================
