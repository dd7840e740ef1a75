----------------------- MODULE LifecycleEngineProofs -----------------------
(***************************************************************************)
(* What the engine may answer, for every position and every gate vector.   *)
(***************************************************************************)
EXTENDS LifecycleEngine, TLAPS

(***************************************************************************)
(* The moves that respect the lifecycle, hop by hop: forward from a gated  *)
(* state, back into HELD from a state behind the first gate, out of HELD   *)
(* to a state of the vector, and into the halt from wherever one is live.  *)
(***************************************************************************)
LegalMove(from, m) ==
    \/ m.event = "none"
    \/ /\ m.event = "advance"
       /\ from \in GuardedStates \cup {"REQUESTED"}
       /\ m.to \in VectorStates
       /\ Rank(from) < Rank(m.to)
    \/ /\ m.event = "hold"
       /\ from \in AdvancedStates \ {"VENDOR_CHECK"}
       /\ m.to = "HELD"
    \/ /\ m.event = "restore"
       /\ from = "HELD"
       /\ m.to \in VectorStates
    \/ /\ m.event = "halt"
       /\ from \in LifecycleStates \ TerminalStates
       /\ m.to = "HALTED_PROHIBITED"
    \/ /\ m.event = "authorise"
       /\ from = "PENDING_AUTHORISATION"
       /\ m.to = "AUTHORISED"

(***************************************************************************)
(* The ladder has a first state in every non-empty set of its states.      *)
(***************************************************************************)
LEMMA EarliestIsFirst ==
    ASSUME NEW S \in SUBSET VectorStates, S # {}
    PROVE  /\ Earliest(S) \in S
           /\ \A t \in S : Rank(Earliest(S)) <= Rank(t)
<1>1. \E s \in S : \A t \in S : Rank(s) <= Rank(t)
  <2> DEFINE First(s) == \A t \in S : Rank(s) <= Rank(t)
  <2> USE DEF VectorStates, GuardedStates, Rank
  <2>1. CASE "VENDOR_CHECK" \in S
    <3>1. First("VENDOR_CHECK") OBVIOUS
    <3> QED BY <2>1, <3>1
  <2>2. CASE "VENDOR_CHECK" \notin S /\ "PRODUCT_CHECK" \in S
    <3>1. First("PRODUCT_CHECK") BY <2>2
    <3> QED BY <2>2, <3>1
  <2>3. CASE {"VENDOR_CHECK", "PRODUCT_CHECK"} \cap S = {} /\ "INTAKE" \in S
    <3>1. First("INTAKE") BY <2>3
    <3> QED BY <2>3, <3>1
  <2>4. CASE /\ {"VENDOR_CHECK", "PRODUCT_CHECK", "INTAKE"} \cap S = {}
             /\ "UNDER_ASSESSMENT" \in S
    <3>1. First("UNDER_ASSESSMENT") BY <2>4
    <3> QED BY <2>4, <3>1
  <2>5. CASE /\ {"VENDOR_CHECK", "PRODUCT_CHECK", "INTAKE",
                 "UNDER_ASSESSMENT"} \cap S = {}
             /\ "TREATMENT_PENDING" \in S
    <3>1. First("TREATMENT_PENDING") BY <2>5
    <3> QED BY <2>5, <3>1
  <2>6. CASE GuardedStates \cap S = {}
    <3>1. S = {"PENDING_AUTHORISATION"} BY <2>6
    <3> QED BY <3>1
  <2> QED BY <2>1, <2>2, <2>3, <2>4, <2>5, <2>6
<1> QED BY <1>1 DEF Earliest

(***************************************************************************)
(* The walk moves forward along the ladder or not at all.                  *)
(***************************************************************************)
LEMMA WalkIsForward ==
    ASSUME NEW s \in LifecycleStates, NEW v \in Vectors
    PROVE  LegalMove(s, Walk(s, v)) /\ Walk(s, v) \in Moves
<1>1. CASE Walk(s, v) = Stay(s)
  BY <1>1 DEF LegalMove, Stay, Moves, Events
<1>2. CASE Walk(s, v) # Stay(s)
  <2>1. /\ s \in GuardedStates \cup {"REQUESTED"}
        /\ Earliest(Stops(s, v)) # s
        /\ Walk(s, v) = [event |-> "advance", to |-> Earliest(Stops(s, v))]
    BY <1>2 DEF Walk
  <2>2. Stops(s, v) \in SUBSET VectorStates
    BY DEF Stops
  <2>3. "PENDING_AUTHORISATION" \in Stops(s, v)
    BY <2>1 DEF Stops, VectorStates, GuardedStates, Rank
  <2>4. Earliest(Stops(s, v)) \in Stops(s, v)
    BY <2>2, <2>3, EarliestIsFirst
  <2>5. /\ Earliest(Stops(s, v)) \in VectorStates
        /\ Rank(s) <= Rank(Earliest(Stops(s, v)))
    BY <2>4 DEF Stops
  <2>6. Rank(s) < Rank(Earliest(Stops(s, v)))
    BY <2>1, <2>5 DEF VectorStates, GuardedStates, Rank
  <2> QED
    BY <2>1, <2>5, <2>6 DEF LegalMove, Moves, Events, LifecycleStates
<1> QED BY <1>1, <1>2

(***************************************************************************)
(* The driver only makes legal moves, and never holds, restores or         *)
(* authorises; a PROHIBITED snapshot halts every use case that is live.    *)
(***************************************************************************)
LEMMA AdvanceIsLegal ==
    ASSUME NEW s \in LifecycleStates, NEW v \in Vectors
    PROVE  /\ LegalMove(s, advance_use_case(s, v))
           /\ advance_use_case(s, v) \in Moves
           /\ advance_use_case(s, v).event \in {"none", "advance", "halt"}
           /\ v["INTAKE"] = "halt" =>
                \/ s = "HALTED_PROHIBITED"
                \/ advance_use_case(s, v) = Halt
<1>1. CASE Halts(s, v)
  BY <1>1 DEF advance_use_case, Halts, Halt, LegalMove, Moves, Events, LifecycleStates
<1>2. CASE ~Halts(s, v)
  <2>1. advance_use_case(s, v) = Walk(s, v)
    BY <1>2 DEF advance_use_case
  <2>2. Walk(s, v).event \in {"none", "advance"}
    BY DEF Walk, Stay
  <2> QED
    BY <1>2, <2>1, <2>2, WalkIsForward DEF Halts, TerminalStates
<1> QED BY <1>1, <1>2

(***************************************************************************)
(* re_evaluate never asks for an undefined transition and never            *)
(* authorises: the caller bug apply_transition raises a ValueError for     *)
(* does not exist.                                                         *)
(***************************************************************************)
THEOREM ReEvaluateIsLegal ==
    ASSUME NEW s \in LifecycleStates \ {"REQUESTED"}, NEW v \in Vectors
    PROVE  /\ LegalMove(s, re_evaluate(s, v))
           /\ re_evaluate(s, v) \in Moves
           /\ re_evaluate(s, v).event # "authorise"
<1> DEFINE target == target_from_vector(v)
<1>1. target \in VectorStates
  <2>1. Blocked(v) \in SUBSET VectorStates
    BY DEF Blocked
  <2> QED
    BY <2>1, EarliestIsFirst DEF target_from_vector, VectorStates
<1>2. CASE s \in TerminalStates
  BY <1>2 DEF re_evaluate, Stay, LegalMove, Moves, Events
<1>3. CASE s \notin TerminalStates /\ Halts(s, v)
  BY <1>3 DEF re_evaluate, Halts, Halt, LegalMove, Moves, Events, LifecycleStates
<1>4. CASE s = "HELD" /\ ~Halts(s, v)
  BY <1>1, <1>4 DEF re_evaluate, Restore, TerminalStates, LegalMove, Moves, Events,
     LifecycleStates
<1>5. CASE s = "AUTHORISED" /\ ~Halts(s, v)
  BY <1>5 DEF re_evaluate, KeepOrHold, Hold, Stay, TerminalStates, LegalMove, Moves,
     Events, LifecycleStates, AdvancedStates
<1>6. CASE s \in VectorStates /\ ~Halts(s, v)
  <2>1. re_evaluate(s, v) = TowardsTarget(s, v)
    BY <1>6 DEF re_evaluate, TerminalStates, VectorStates, GuardedStates
  <2>2. CASE Rank(target) > Rank(s)
    BY <1>6, <2>1, <2>2, AdvanceIsLegal DEF TowardsTarget
  <2>3. CASE ~(Rank(target) > Rank(s)) /\ Rank(target) < Rank(s)
    <3>1. s # "VENDOR_CHECK"
      BY <1>1, <2>3 DEF Rank, VectorStates, GuardedStates
    <3>2. re_evaluate(s, v) = Hold
      BY <2>1, <2>3 DEF TowardsTarget
    <3> QED
      BY <1>6, <3>1, <3>2 DEF Hold, LegalMove, Moves, Events, LifecycleStates, AdvancedStates
  <2>4. CASE ~(Rank(target) > Rank(s)) /\ ~(Rank(target) < Rank(s))
    BY <2>1, <2>4 DEF TowardsTarget, Stay, LegalMove, Moves, Events
  <2> QED BY <2>2, <2>3, <2>4
<1> QED
  BY <1>2, <1>3, <1>4, <1>5, <1>6 DEF LifecycleStates, TerminalStates

-----------------------------------------------------------------------------
(***************************************************************************)
(* Where a move leads.  A vector is quiet if it does not halt.             *)
(***************************************************************************)
Quiet(v) == v["INTAKE"] # "halt"

After(s, m) == IF m.event = "none" THEN s ELSE m.to

Settled(s, v) == re_evaluate(s, v) = Stay(s)

\* s is on the ladder at or before every gate that does not pass.
NothingBlockedBefore(s, v) == \A b \in Blocked(v) : Rank(s) <= Rank(b)

LEMMA RanksDiffer ==
    /\ \A s \in VectorStates \cup {"REQUESTED"} : Rank(s) \in 0 .. 6
    /\ \A s, t \in VectorStates : Rank(s) = Rank(t) => s = t
    /\ \A s \in VectorStates \cup {"REQUESTED"} : Rank(s) <= Rank("PENDING_AUTHORISATION")
    /\ \A s \in VectorStates \ {"PENDING_AUTHORISATION"} :
          s \in GuardedStates /\ Rank(s) < Rank("PENDING_AUTHORISATION")
<1>1. \A s \in VectorStates \cup {"REQUESTED"} : Rank(s) \in 0 .. 6
  BY DEF VectorStates, GuardedStates, Rank
<1>2. \A s \in VectorStates : s = CASE Rank(s) = 1 -> "VENDOR_CHECK"
                                     [] Rank(s) = 2 -> "PRODUCT_CHECK"
                                     [] Rank(s) = 3 -> "INTAKE"
                                     [] Rank(s) = 4 -> "UNDER_ASSESSMENT"
                                     [] Rank(s) = 5 -> "TREATMENT_PENDING"
                                     [] OTHER       -> "PENDING_AUTHORISATION"
  BY DEF VectorStates, GuardedStates, Rank
<1>3. \A s, t \in VectorStates : Rank(s) = Rank(t) => s = t BY <1>2
<1>4. Rank("PENDING_AUTHORISATION") = 6 BY DEF Rank
<1>5. \A s \in VectorStates \cup {"REQUESTED"} : Rank(s) <= Rank("PENDING_AUTHORISATION")
  BY <1>1, <1>4
<1>6. \A s \in VectorStates \ {"PENDING_AUTHORISATION"} :
          s \in GuardedStates /\ Rank(s) < Rank("PENDING_AUTHORISATION")
  BY <1>4 DEF VectorStates, GuardedStates, Rank
<1> QED BY <1>1, <1>3, <1>5, <1>6

\* The target is the first gate that does not pass, or else the ceiling.
LEMMA TargetIsFirst ==
    ASSUME NEW v \in Vectors
    PROVE  /\ target_from_vector(v) \in VectorStates
           /\ NothingBlockedBefore(target_from_vector(v), v)
           /\ Blocked(v) # {} => target_from_vector(v) \in Blocked(v)
           /\ Blocked(v) = {} => target_from_vector(v) = "PENDING_AUTHORISATION"
<1>1. Blocked(v) \in SUBSET VectorStates BY DEF Blocked
<1>2. CASE Blocked(v) = {}
  BY <1>2 DEF target_from_vector, NothingBlockedBefore, VectorStates
<1>3. CASE Blocked(v) # {}
  BY <1>1, <1>3, EarliestIsFirst DEF target_from_vector, NothingBlockedBefore
<1> QED BY <1>2, <1>3

(***************************************************************************)
(* From a state with nothing blocked before it, the walk goes exactly to   *)
(* the target.                                                             *)
(***************************************************************************)
LEMMA WalkReachesTarget ==
    ASSUME NEW v \in Vectors, Quiet(v), NEW s \in VectorStates \cup {"REQUESTED"},
           NothingBlockedBefore(s, v)
    PROVE  /\ After(s, advance_use_case(s, v)) = target_from_vector(v)
           /\ advance_use_case(s, v) =
                 IF s = target_from_vector(v) THEN Stay(s)
                 ELSE [event |-> "advance", to |-> target_from_vector(v)]
<1> DEFINE target == target_from_vector(v)
           ceiling == "PENDING_AUTHORISATION"
<1>1. advance_use_case(s, v) = Walk(s, v) BY DEF advance_use_case, Halts, Quiet
<1>2. /\ target \in VectorStates /\ NothingBlockedBefore(target, v)
      /\ Blocked(v) # {} => target \in Blocked(v)
      /\ Blocked(v) = {} => target = ceiling
  BY TargetIsFirst
<1>3. Blocked(v) \subseteq VectorStates BY DEF Blocked
<1>4. Rank(s) <= Rank(ceiling) /\ ceiling \in VectorStates
  BY RanksDiffer DEF VectorStates
<1>5. Stops(s, v) = Blocked(v) \cup {ceiling}
  <2>1. \A t \in Blocked(v) : Rank(s) <= Rank(t) BY DEF NothingBlockedBefore
  <2> QED BY <1>4, <2>1 DEF Stops, Blocked
<1>6. Earliest(Stops(s, v)) = target
  <2> DEFINE first == Earliest(Stops(s, v))
  <2>1. first \in Stops(s, v) /\ \A t \in Stops(s, v) : Rank(first) <= Rank(t)
    BY <1>3, <1>4, <1>5, EarliestIsFirst
  <2>2. first \in VectorStates /\ target \in Stops(s, v) BY <1>2, <1>3, <1>4, <1>5, <2>1
  <2>3. Rank(first) <= Rank(target) BY <2>1, <2>2
  <2>4. Rank(target) <= Rank(first)
    <3>1. CASE first \in Blocked(v) BY <1>2, <3>1 DEF NothingBlockedBefore
    <3>2. CASE first = ceiling BY <1>2, <3>2, RanksDiffer
    <3> QED BY <1>5, <2>1, <3>1, <3>2
  <2>5. Rank(first) \in 0 .. 6 /\ Rank(target) \in 0 .. 6 BY <1>2, <2>2, RanksDiffer
  <2>6. Rank(first) = Rank(target) BY <2>3, <2>4, <2>5
  <2> QED BY <1>2, <2>2, <2>6, RanksDiffer
<1>7. CASE s \in GuardedStates \cup {"REQUESTED"}
  <2>1. CASE s = target BY <1>1, <1>6, <2>1 DEF Walk, After, Stay
  <2>2. CASE s # target BY <1>1, <1>6, <1>7, <2>2 DEF Walk, After
  <2> QED BY <2>1, <2>2
<1>8. CASE s = ceiling
  <2>1. target = ceiling
    <3>1. CASE Blocked(v) = {} BY <1>2, <3>1
    <3>2. CASE Blocked(v) # {}
      <4>1. Rank(ceiling) <= Rank(target) /\ Rank(target) <= Rank(ceiling)
        BY <1>2, <1>8, <3>2, RanksDiffer DEF NothingBlockedBefore
      <4>2. Rank(ceiling) = Rank(target) BY <1>2, <1>4, <4>1, RanksDiffer
      <4> QED BY <1>2, <1>4, <4>2, RanksDiffer
    <3> QED BY <3>1, <3>2
  <2>2. Walk(s, v) = Stay(s) BY <1>8 DEF Walk, GuardedStates
  <2> QED BY <1>1, <1>8, <2>1, <2>2 DEF After, Stay
<1> QED BY <1>7, <1>8, RanksDiffer

\* On the ladder, being settled is being at the target.
LEMMA SettledIsAtTarget ==
    ASSUME NEW v \in Vectors, Quiet(v), NEW s \in VectorStates
    PROVE  Settled(s, v) <=> s = target_from_vector(v)
<1> DEFINE target == target_from_vector(v)
<1>1. re_evaluate(s, v) = TowardsTarget(s, v)
  BY DEF re_evaluate, Halts, Quiet, TerminalStates, VectorStates, GuardedStates
<1>2. target \in VectorStates /\ NothingBlockedBefore(target, v) BY TargetIsFirst
<1>3. Rank(s) \in 0 .. 6 /\ Rank(target) \in 0 .. 6 BY <1>2, RanksDiffer
<1>4. CASE Rank(target) > Rank(s)
  <2>1. NothingBlockedBefore(s, v)
    <3> SUFFICES ASSUME NEW b \in Blocked(v) PROVE Rank(s) <= Rank(b)
        BY DEF NothingBlockedBefore
    <3>1. Rank(target) <= Rank(b) /\ Rank(b) \in 0 .. 6
      BY <1>2, RanksDiffer DEF NothingBlockedBefore, Blocked
    <3> QED BY <1>3, <1>4, <3>1
  <2>2. s # target BY <1>3, <1>4
  <2>3. re_evaluate(s, v) = [event |-> "advance", to |-> target]
    BY <1>1, <1>4, <2>1, <2>2, WalkReachesTarget DEF TowardsTarget
  <2> QED BY <2>2, <2>3 DEF Settled, Stay
<1>5. CASE Rank(target) < Rank(s)
  <2>1. re_evaluate(s, v) = Hold BY <1>1, <1>3, <1>5 DEF TowardsTarget
  <2>2. s # target BY <1>3, <1>5
  <2> QED BY <2>1, <2>2 DEF Settled, Hold, Stay
<1>6. CASE Rank(target) = Rank(s)
  <2>1. s = target BY <1>2, <1>6, RanksDiffer
  <2>2. re_evaluate(s, v) = Stay(s) BY <1>1, <1>3, <1>6 DEF TowardsTarget
  <2> QED BY <2>1, <2>2 DEF Settled
<1> QED BY <1>3, <1>4, <1>5, <1>6

(***************************************************************************)
(* One re-evaluation is enough: where it leads, another one with the same  *)
(* gates would leave the use case, unless it leads to the hold, from where *)
(* the next one restores it (re_evaluate in lifecycle_service.py; TLC      *)
(* checks the same as ReEvaluateSettles).                                  *)
(***************************************************************************)
THEOREM OneReEvaluationSettles ==
    ASSUME NEW s \in LifecycleStates \ {"REQUESTED"}, NEW v \in Vectors
    PROVE  LET after == After(s, re_evaluate(s, v)) IN
           after = "HELD" \/ Settled(after, v)
<1> DEFINE target == target_from_vector(v)
           after == After(s, re_evaluate(s, v))
<1>1. CASE s = "HALTED_PROHIBITED" \/ Halts(s, v)
  <2>1. after = "HALTED_PROHIBITED"
    BY <1>1 DEF re_evaluate, Halts, Halt, After, Stay, TerminalStates
  <2> QED BY <2>1 DEF Settled, re_evaluate, TerminalStates
<1>2. CASE s # "HALTED_PROHIBITED" /\ ~Halts(s, v)
  <2>1. Quiet(v) BY <1>2 DEF Halts, Quiet, TerminalStates
  <2>2. target \in VectorStates /\ NothingBlockedBefore(target, v) BY TargetIsFirst
  <2>3. Settled(target, v) BY <2>1, <2>2, SettledIsAtTarget
  <2>4. CASE s = "HELD"
    <3>1. after = target BY <1>2, <2>4 DEF re_evaluate, Restore, After, TerminalStates
    <3> QED BY <2>3, <3>1
  <2>5. CASE s = "AUTHORISED"
    <3>1. re_evaluate(s, v) = KeepOrHold(v) BY <1>2, <2>5 DEF re_evaluate, TerminalStates
    <3>2. CASE Blocked(v) = {}
      <4>1. re_evaluate(s, v) = Stay(s) BY <2>5, <3>1, <3>2 DEF KeepOrHold
      <4>2. after = s BY <4>1 DEF After, Stay
      <4> QED BY <4>1, <4>2 DEF Settled
    <3>3. CASE Blocked(v) # {}
      BY <3>1, <3>3 DEF KeepOrHold, Hold, After
    <3> QED BY <3>2, <3>3
  <2>6. CASE s \in VectorStates
    <3>1. re_evaluate(s, v) = TowardsTarget(s, v)
      BY <1>2, <2>6 DEF re_evaluate, TerminalStates, VectorStates, GuardedStates
    <3>2. Rank(s) \in 0 .. 6 /\ Rank(target) \in 0 .. 6 BY <2>2, <2>6, RanksDiffer
    <3>3. CASE Rank(target) > Rank(s)
      <4>1. NothingBlockedBefore(s, v)
        <5> SUFFICES ASSUME NEW b \in Blocked(v) PROVE Rank(s) <= Rank(b)
            BY DEF NothingBlockedBefore
        <5>1. Rank(target) <= Rank(b) /\ Rank(b) \in 0 .. 6
          BY <2>2, RanksDiffer DEF NothingBlockedBefore, Blocked
        <5> QED BY <3>2, <3>3, <5>1
      <4>2. after = target
        BY <2>1, <2>6, <3>1, <3>3, <4>1, WalkReachesTarget DEF TowardsTarget
      <4> QED BY <2>3, <4>2
    <3>4. CASE Rank(target) < Rank(s)
      BY <3>1, <3>2, <3>4 DEF TowardsTarget, Hold, After
    <3>5. CASE Rank(target) = Rank(s)
      <4>1. re_evaluate(s, v) = Stay(s) BY <3>1, <3>2, <3>5 DEF TowardsTarget
      <4>2. after = s BY <4>1 DEF After, Stay
      <4> QED BY <4>1, <4>2 DEF Settled
    <3> QED BY <3>2, <3>3, <3>4, <3>5
  <2> QED BY <1>2, <2>4, <2>5, <2>6 DEF LifecycleStates
<1> QED BY <1>1, <1>2

(***************************************************************************)
(* A gate that comes to pass lets a settled use case walk on, and it is    *)
(* settled again at the end of the walk.                                   *)
(***************************************************************************)
LEMMA AdvanceSettles ==
    ASSUME NEW v \in Vectors, NEW w \in Vectors, Quiet(v), Quiet(w),
           Blocked(w) \subseteq Blocked(v),
           NEW s \in LifecycleStates \ {"REQUESTED"}, s = "HELD" \/ Settled(s, v)
    PROVE  LET after == After(s, advance_use_case(s, w)) IN
           after = "HELD" \/ Settled(after, w)
<1>1. advance_use_case(s, w) = Walk(s, w) BY DEF advance_use_case, Halts, Quiet
<1>2. CASE s \in VectorStates
  <2>1. s = target_from_vector(v)
    BY <1>2, SettledIsAtTarget DEF VectorStates, GuardedStates
  <2>2. NothingBlockedBefore(s, w) BY <2>1, TargetIsFirst DEF NothingBlockedBefore
  <2>3. After(s, advance_use_case(s, w)) = target_from_vector(w)
    BY <1>2, <2>2, WalkReachesTarget
  <2> QED BY <2>3, TargetIsFirst, SettledIsAtTarget
<1>3. CASE s \in {"HELD", "AUTHORISED", "HALTED_PROHIBITED"}
  <2>1. Walk(s, w) = Stay(s) BY <1>3 DEF Walk, GuardedStates
  <2>2. After(s, advance_use_case(s, w)) = s BY <1>1, <2>1 DEF After, Stay
  <2>3. s = "AUTHORISED" => Settled(s, w)
    BY DEF Settled, re_evaluate, TerminalStates, Halts, Quiet, KeepOrHold, Hold, Stay
  <2>4. s = "HALTED_PROHIBITED" => Settled(s, w) BY DEF Settled, re_evaluate, TerminalStates
  <2> QED BY <1>3, <2>2, <2>3, <2>4
<1> QED BY <1>2, <1>3 DEF LifecycleStates
=============================================================================
