---------------------------- MODULE MCLifecycle ----------------------------
(***************************************************************************)
(* Instances of UseCaseLifecycle for TLC.                                  *)
(***************************************************************************)
EXTENDS UseCaseLifecycle, TLC

CONSTANTS u1, u2, alice, bob, carol, w1, w2, acme

\* No vendor and no product to clear.
Unlinked == [u \in UseCases |-> NoLink]

\* Every system comes from the same vendor.
LinkedToAcme == [u \in UseCases |-> acme]

\* Requests and members are interchangeable.
RequestSymmetry == Permutations(Workers) \cup Permutations(Users)

\* The tier is settled at registration.
Ratified == [tier : {"RATED"}, status : {"APPROVED"}, stamped : {TRUE}]

\* Settled at registration, left to the reviewer, halted before ratification,
\* and waiting for the context.
FourIntakes ==
    Ratified
    \cup [tier : {"RATED", "PROHIBITED"}, status : {"PENDING_REVIEW"}, stamped : {FALSE}]
    \cup {i \in FirstSnapshots : i.tier = "REQUIRES_CONTEXT"}

ReviewHandlers ==
    {"create_aiia", "delete_assessment", "submit_for_review", "review_approved",
     "review_changes_requested", "reopen", "authorise", "re_evaluate"}

PositionHandlers ==
    {"override_classification", "compute_classification",
     "sign_off_classification", "set_approval", "re_evaluate", "create_aiia",
     "submit_for_review", "review_approved", "authorise"}

ItemHandlers ==
    {"create_aiia", "confirm_item", "amend_item", "create_control_link",
     "delete_item", "delete_control_link", "create_feeder", "delete_feeder",
     "delete_assessment", "submit_for_review", "review_approved", "reopen", "re_evaluate"}
=============================================================================
