-------------------------- MODULE LifecycleEngine --------------------------
(***************************************************************************)
(* The lifecycle engine of app/services/lifecycle_service.py as pure       *)
(* operators: the legality table of apply_transition, the auto-advance     *)
(* walk (advance_use_case), the gate vector's target (_target_from_vector) *)
(* and the re-evaluation decision (re_evaluate).                           *)
(*                                                                         *)
(* A use case's position is a LifecycleState.  A gate vector v gives the   *)
(* verdict of every gate by the state it guards; the last entry is the     *)
(* authorisation gate, which full_vector appends and the walk never reads. *)
(* The outcome of the engine is a Move: the event of the transition rows   *)
(* the call writes and the state it rests in.  A forward move may stand    *)
(* for several rows, one per hop of the ladder, written in one             *)
(* transaction: NextState is the hop.                                      *)
(***************************************************************************)
EXTENDS Integers

(***************************************************************************)
(* Positions.  UNREGISTERED is the absence of the use_case row.            *)
(***************************************************************************)
GuardedStates == {"VENDOR_CHECK", "PRODUCT_CHECK", "INTAKE",
                  "UNDER_ASSESSMENT", "TREATMENT_PENDING"}

\* The states full_vector reports on: _VECTOR_STATES and the ceiling.
VectorStates == GuardedStates \cup {"PENDING_AUTHORISATION"}

LifecycleStates == VectorStates \cup
    {"REQUESTED", "AUTHORISED", "HELD", "HALTED_PROHIBITED"}

TerminalStates == {"HALTED_PROHIBITED"}

\* _ADVANCED_STATES: the values of _ADVANCE_TABLE, and AUTHORISED.
AdvancedStates == VectorStates \cup {"AUTHORISED"}

\* _RANK: the position on the canonical forward ladder.
Rank(s) ==
    CASE s = "REQUESTED"             -> 0
      [] s = "VENDOR_CHECK"          -> 1
      [] s = "PRODUCT_CHECK"         -> 2
      [] s = "INTAKE"                -> 3
      [] s = "UNDER_ASSESSMENT"      -> 4
      [] s = "TREATMENT_PENDING"     -> 5
      [] s = "PENDING_AUTHORISATION" -> 6
      [] s = "AUTHORISED"            -> 7

\* _ADVANCE_TABLE: is t the single forward hop from s?
NextState(s, t) ==
    /\ s \in GuardedStates \cup {"REQUESTED"}
    /\ t \in VectorStates
    /\ Rank(t) = Rank(s) + 1

-----------------------------------------------------------------------------
(***************************************************************************)
(* Legality (_is_legal).                                                   *)
(***************************************************************************)
IsLegal(from, event, to) ==
    \/ event = "advance"   /\ NextState(from, to)
    \/ event = "halt"      /\ to = "HALTED_PROHIBITED" /\ from \notin TerminalStates
    \/ event = "hold"      /\ to = "HELD" /\ from \in AdvancedStates
    \/ event = "restore"   /\ from = "HELD" /\ to \in AdvancedStates
    \/ event = "authorise" /\ from = "PENDING_AUTHORISATION" /\ to = "AUTHORISED"

Verdicts == {"advance", "park", "halt"}

Vectors == [VectorStates -> Verdicts]

Events == {"none", "advance", "halt", "hold", "restore", "authorise"}

Moves == [event : Events, to : LifecycleStates]

Stay(s) == [event |-> "none", to |-> s]

-----------------------------------------------------------------------------
(***************************************************************************)
(* The earliest of a non-empty set of vector states.                       *)
(***************************************************************************)
Earliest(S) == CHOOSE s \in S : \A t \in S : Rank(s) <= Rank(t)

\* The gates that do not pass.
Blocked(v) == {s \in VectorStates : v[s] # "advance"}

\* The state of the earliest unsatisfied gate; the ceiling if there is none.
target_from_vector(v) ==
    IF Blocked(v) = {} THEN "PENDING_AUTHORISATION" ELSE Earliest(Blocked(v))

(***************************************************************************)
(* The walk from a state that has a gate: where it stops is the first      *)
(* state from there on whose gate does not pass, or the ceiling, which has *)
(* no gate in the walk (_gate_for_state returns None there).  REQUESTED    *)
(* always passes.                                                          *)
(***************************************************************************)
Stops(s, v) ==
    {t \in VectorStates : /\ Rank(s) <= Rank(t)
                          /\ t = "PENDING_AUTHORISATION" \/ v[t] # "advance"}

\* Step 0: a PROHIBITED snapshot halts from every state that is not terminal.
Halts(s, v) == s \notin TerminalStates /\ v["INTAKE"] = "halt"

Halt == [event |-> "halt", to |-> "HALTED_PROHIBITED"]

\* Bug: the walk goes on to the ceiling once the first gate passes.
WalkIgnoringLaterGates(s, v) ==
    IF s \in GuardedStates \cup {"REQUESTED"} /\ Earliest(Stops(s, v)) # s
    THEN [event |-> "advance", to |-> "PENDING_AUTHORISATION"]
    ELSE Stay(s)

\* The walk without step 0.
Walk(s, v) ==
    IF /\ s \in GuardedStates \cup {"REQUESTED"}
       /\ Earliest(Stops(s, v)) # s
    THEN [event |-> "advance", to |-> Earliest(Stops(s, v))]
    ELSE Stay(s)

advance_use_case(s, v) == IF Halts(s, v) THEN Halt ELSE Walk(s, v)

(***************************************************************************)
(* re_evaluate: halt, restore a held use case to its target, keep or hold  *)
(* an authorised one, and move any other towards its target.               *)
(***************************************************************************)
Hold == [event |-> "hold", to |-> "HELD"]

Restore(v) == [event |-> "restore", to |-> target_from_vector(v)]

\* AUTHORISED outranks every target, so it is kept or held, never compared.
KeepOrHold(v) == IF Blocked(v) = {} THEN Stay("AUTHORISED") ELSE Hold

TowardsTarget(s, v) ==
    LET target == target_from_vector(v) IN
    IF Rank(target) > Rank(s) THEN advance_use_case(s, v)
    ELSE IF Rank(target) < Rank(s) THEN Hold
    ELSE Stay(s)

\* Bug: a held use case is restored to the ceiling rather than to its target.
ReEvaluateRestoringToCeiling(s, v) ==
    IF s \in TerminalStates THEN Stay(s)
    ELSE IF Halts(s, v) THEN Halt
    ELSE IF s = "HELD" THEN [event |-> "restore", to |-> "PENDING_AUTHORISATION"]
    ELSE IF s = "AUTHORISED" THEN KeepOrHold(v)
    ELSE TowardsTarget(s, v)

re_evaluate(s, v) ==
    IF s \in TerminalStates THEN Stay(s)
    ELSE IF Halts(s, v) THEN Halt
    ELSE IF s = "HELD" THEN Restore(v)
    ELSE IF s = "AUTHORISED" THEN KeepOrHold(v)
    ELSE TowardsTarget(s, v)
=============================================================================
