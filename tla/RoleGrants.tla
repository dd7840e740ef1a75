----------------------------- MODULE RoleGrants -----------------------------
(***************************************************************************)
(* Governance roles of the accounts that Provisioning creates: an admin    *)
(* grants them in his tenant and revokes them, under a matrix of           *)
(* conflicting roles that each grant checks against the roles held when it *)
(* reads them.  Nothing asks that the grantee belongs to that tenant.      *)
(***************************************************************************)
EXTENDS Provisioning

CONSTANTS
    Roles,         \* governance roles, by the order of their ids
    ConflictRows,  \* governance_role_conflict, smaller id first
    Granters       \* concurrent requests that grant roles

ASSUME RolesAssumption ==
    /\ Roles \subseteq Nat
    /\ ConflictRows \subseteq {c \in Roles \X Roles : c[1] < c[2]}

VARIABLES
    grants,    \* governance_role_assignment rows
    pending    \* the grant each request is about to insert

vars == <<provisioningVars, grants, pending>>

\* knew: the roles the subject held when the grant was checked (history).
Grants == [member : Accounts, role : Roles, by : Accounts, knew : SUBSET Roles]

TypeOK ==
    /\ ProvisioningTypeOK
    /\ grants \subseteq Grants
    /\ pending \in [Granters -> Grants \cup {Nothing}]

Init ==
    /\ ProvisioningInit
    /\ grants = {}
    /\ pending = [g \in Granters |-> Nothing]

Rows(tenant, member) == {g \in grants : g.by.tenant = tenant /\ g.member = member}
HeldBy(tenant, member) == {g.role : g \in Rows(tenant, member)}

Smaller(a, b) == IF a < b THEN a ELSE b
Larger(a, b) == IF a < b THEN b ELSE a

\* Bug: the pair is looked up as it comes.
ConflictsInGivenOrder(a, b) == <<a, b>> \in ConflictRows

\* The lookup puts the smaller id first, as the rows have it.
Conflicts(a, b) == <<Smaller(a, b), Larger(a, b)>> \in ConflictRows

\* Bug: the self-assignment check is left out.
AssignableBySelf(by, member, role) ==
    \A held \in HeldBy(by.tenant, member) : ~Conflicts(held, role)

assert_governance_assignable(by, member, role) ==
    /\ by # member
    /\ \A held \in HeldBy(by.tenant, member) : ~Conflicts(held, role)

\* assign_role up to its insert.
CheckGrant(g) ==
    /\ pending[g] = Nothing
    /\ \E by, member \in accounts, role \in Roles :
          /\ by.role = "ADMIN"
          /\ assert_governance_assignable(by, member, role)
          /\ pending' = [pending EXCEPT ![g] =
                [member |-> member, role |-> role, by |-> by,
                 knew |-> HeldBy(by.tenant, member)]]
    /\ UNCHANGED <<provisioningVars, grants>>

\* The insert, under uq_governance_role_assignment.
CommitGrant(g) ==
    /\ pending[g] # Nothing
    /\ pending[g].role \notin HeldBy(pending[g].by.tenant, pending[g].member)
    /\ grants' = grants \cup {pending[g]}
    /\ pending' = [pending EXCEPT ![g] = Nothing]
    /\ UNCHANGED provisioningVars

AbortGrant(g) ==
    /\ pending[g] # Nothing
    /\ pending' = [pending EXCEPT ![g] = Nothing]
    /\ UNCHANGED <<provisioningVars, grants>>

\* revoke_role deletes by key; a row that is gone by then is no error.
revoke_role(row) ==
    /\ row \in grants
    /\ grants' = grants \ {row}
    /\ UNCHANGED <<provisioningVars, pending>>

Next ==
    \/ \E w \in Workers : Provision(w) /\ UNCHANGED <<grants, pending>>
    \/ \E g \in Granters : CheckGrant(g) \/ CommitGrant(g) \/ AbortGrant(g)
    \/ \E row \in grants : revoke_role(row)

Spec == Init /\ [][Next]_vars

-----------------------------------------------------------------------------
(***************************************************************************)
(* Properties.                                                             *)
(***************************************************************************)

(***************************************************************************)
(* The administrative and the governance axis stay apart: no admin holds a *)
(* governance role in his own tenant, because a tenant has the one admin   *)
(* it was provisioned with, and he cannot grant to himself.                *)
(***************************************************************************)
AdminsHoldNoRole ==
    \A g \in grants : g.by.tenant = g.member.tenant => g.member.role = "MEMBER"

InConflict(g, h) ==
    /\ g.by.tenant = h.by.tenant /\ g.member = h.member
    /\ <<g.role, h.role>> \in ConflictRows

(***************************************************************************)
(* Two conflicting roles come to be held together only by grants that      *)
(* overlapped: each was checked before the other was there to be seen.     *)
(***************************************************************************)
ConflictsComeFromRaces ==
    \A g, h \in grants :
        InConflict(g, h) => g.role \notin h.knew /\ h.role \notin g.knew

(***************************************************************************)
(* What WKF-5 of the requirements says of the assignment of roles: nobody  *)
(* holds conflicting ones.                                                 *)
(***************************************************************************)
NoConflictingRoles == \A g, h \in grants : ~InConflict(g, h)
=============================================================================
