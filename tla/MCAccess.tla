------------------------------ MODULE MCAccess ------------------------------
(***************************************************************************)
(* Instances of RoleGrants, and with it of Provisioning, and of            *)
(* EvidenceStore for TLC: accounts with their roles and the evidence       *)
(* repository, each a database next to another service (Cognito, S3).      *)
(* They share no state; part picks one when a behaviour starts, the other  *)
(* stays in its initial state.                                             *)
(***************************************************************************)
EXTENDS RoleGrants, EvidenceStore, TLC

CONSTANTS w1, w2, g1, g2, t1, t2, ann, ben, k1, k2, i1

\* Two roles that conflict.
OneConflict == {<<1, 2>>}

VARIABLE part

AccessInit == part \in {"accounts", "evidence"} /\ Init /\ StoreInit

AccessNext ==
    /\ UNCHANGED part
    /\ \/ part = "accounts" /\ Next /\ UNCHANGED storeVars
       \/ part = "evidence" /\ StoreNext /\ UNCHANGED vars

AccessSpec == AccessInit /\ [][AccessNext]_<<part, vars, storeVars>>

\* Requests for accounts are interchangeable, and so are tenants and emails.
AccessSymmetry ==
    Permutations(Workers) \cup Permutations(Granters)
    \cup Permutations(Tenants) \cup Permutations(Emails)
=============================================================================
