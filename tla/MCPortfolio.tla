---------------------------- MODULE MCPortfolio ----------------------------
(***************************************************************************)
(* The engine on its own (ReEvaluation: every position and every vector)   *)
(* and at work for a portfolio of use cases (Clearance), for TLC.  They    *)
(* share no state; part picks one when a behaviour starts, the other stays *)
(* in one initial state.                                                   *)
(***************************************************************************)
EXTENDS ReEvaluation, Clearance, TLC

CONSTANTS w1, w2, u1, u2, s1, s2, v1, p1

\* u1 is a use of a catalogue product, u2 of a system the tenant describes.
MCSystemOf == (u1 :> s1) @@ (u2 :> s2)
MCProductOf == (s1 :> p1) @@ (s2 :> NoParty)
MCCatalogueVendorOf == (p1 :> v1)
MCVendorAtFirst == (s1 :> v1) @@ (s2 :> NoParty)
MCMetAtRegistration ==
    (u1 :> {"INTAKE", "TREATMENT_PENDING"})
    @@ (u2 :> {"INTAKE", "TREATMENT_PENDING", "UNDER_ASSESSMENT"})

VARIABLE part

PortfolioInit ==
    /\ part \in {"engine", "clearance"}
    /\ part = "clearance" => vector = [s \in VectorStates |->
          IF s = "TREATMENT_PENDING" THEN "advance" ELSE "park"]
    /\ Init
    /\ ClearanceInit

PortfolioNext ==
    /\ UNCHANGED part
    /\ \/ part = "engine" /\ Next /\ UNCHANGED clearanceVars
       \/ part = "clearance" /\ ClearanceNext /\ UNCHANGED vars

PortfolioSpec ==
    /\ PortfolioInit /\ [][PortfolioNext]_<<part, vars, clearanceVars>>
    /\ \A w \in Workers : WF_clearanceVars(part = "clearance" /\ Progress(w))
=============================================================================
