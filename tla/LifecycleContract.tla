-------------------------- MODULE LifecycleContract --------------------------
(***************************************************************************)
(* What the lifecycle promises of a use case, whoever asks and however     *)
(* requests interleave: the edges its cursor may move along and what must  *)
(* happen with them.  A step of the contract is a committed transaction,   *)
(* so a forward step may cross several hops of the ladder.                 *)
(***************************************************************************)
EXTENDS LifecycleEngine

CONSTANT UseCases

VARIABLES
    cursor,    \* the committed position of each use case
    grants     \* the authorisations given for it, never taken back

vars == <<cursor, grants>>

Init ==
    /\ cursor = [u \in UseCases |-> "UNREGISTERED"]
    /\ grants = [u \in UseCases |-> {}]

Move(u, s) == cursor' = [cursor EXCEPT ![u] = s] /\ UNCHANGED grants

\* A new use case has no assessment: it parks there at the latest, or halts.
Register(u) ==
    /\ cursor[u] = "UNREGISTERED"
    /\ \E s \in LifecycleStates :
          /\ \/ s \in GuardedStates /\ Rank(s) <= Rank("UNDER_ASSESSMENT")
             \/ s = "HALTED_PROHIBITED"
          /\ Move(u, s)

\* Forward along the ladder, up to the ceiling and never into AUTHORISED.
Advance(u) ==
    /\ cursor[u] \in GuardedStates
    /\ \E s \in VectorStates : Rank(cursor[u]) < Rank(s) /\ Move(u, s)

\* A gate behind the use case fails; before the first gate there is none.
Regress(u) ==
    /\ cursor[u] \in AdvancedStates \ {"VENDOR_CHECK"}
    /\ Move(u, "HELD")

Unhold(u) ==
    /\ cursor[u] = "HELD"
    /\ \E s \in VectorStates : Move(u, s)

Prohibit(u) ==
    /\ cursor[u] \in LifecycleStates \ TerminalStates
    /\ Move(u, "HALTED_PROHIBITED")

\* The only way in is an act that leaves its grant behind.
Authorise(u) ==
    /\ cursor[u] = "PENDING_AUTHORISATION"
    /\ cursor' = [cursor EXCEPT ![u] = "AUTHORISED"]
    /\ \E g \in grants'[u] : grants' = [grants EXCEPT ![u] = @ \cup {g}]

Next == \E u \in UseCases :
    \/ Register(u)
    \/ Advance(u)
    \/ Regress(u)
    \/ Unhold(u)
    \/ Prohibit(u)
    \/ Authorise(u)

Spec == Init /\ [][Next]_vars
=============================================================================
