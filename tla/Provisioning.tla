---------------------------- MODULE Provisioning ----------------------------
(***************************************************************************)
(* Tenants with their owners, members of a tenant, and platform operators: *)
(* each is a user of a Cognito pool and rows in Postgres, written by one   *)
(* request that keeps its transaction open across the Cognito call and     *)
(* takes the Cognito user away again when the commit fails.                *)
(*                                                                         *)
(* The app_user and the membership row are written together and never      *)
(* deleted, so they are one account here.  Audit rows are left out.        *)
(***************************************************************************)
EXTENDS Naturals

CONSTANTS
    Tenants,   \* tenants, by their slug
    Emails,
    Workers,   \* concurrent requests
    Kinds,     \* what a run provisions
    Faults,    \* what may go wrong around a request
    MaxSub,    \* bound: Cognito users ever created
    Nothing

AllKinds == {"tenant", "member", "operator"}

(***************************************************************************)
(* cognito_unanswered  the user is created, the call raises (a time-out is *)
(*                     no ClientError, but the session is closed all the   *)
(*                     same)                                               *)
(* flush_failed        the rows cannot be written after the Cognito call   *)
(* commit_failed       the transaction rolls back                          *)
(* commit_unanswered   it commits, the call raises all the same            *)
(* clean_up_failed     the compensating delete fails, silently             *)
(* crash               the process ends                                    *)
(***************************************************************************)
AllFaults == {"cognito_unanswered", "flush_failed", "commit_failed",
              "commit_unanswered", "clean_up_failed", "crash"}

ASSUME ProvisioningAssumption ==
    /\ Kinds \subseteq AllKinds /\ Faults \subseteq AllFaults
    /\ MaxSub \in Nat
    /\ Nothing \notin [sub : 1 .. MaxSub, tenant : Tenants \cup {Nothing}]

VARIABLES
    tenants,    \* committed tenant rows
    accounts,   \* committed app_user and membership rows
    operators,  \* committed operator rows
    pool,       \* the users of the two Cognito pools, by email
    subs,       \* Cognito subs handed out so far
    lost,       \* subs a fault left behind (history)
    torn,       \* subs whose commit took effect and raised (history)
    job         \* what each worker's request is at

rowVars == <<tenants, accounts, operators>>
poolVars == <<pool, subs>>
historyVars == <<lost, torn>>
provisioningVars == <<rowVars, poolVars, historyVars, job>>

Subs == 1 .. MaxSub
Pools == {"tenant_plane", "operator_plane"}
PoolOf(kind) == IF kind = "operator" THEN "operator_plane" ELSE "tenant_plane"

Accounts == [sub : Subs, tenant : Tenants, email : Emails, role : {"ADMIN", "MEMBER"}]
Operators == [sub : Subs, email : Emails]

\* custom:tenant_id is fixed at creation; operators have none.
Identities == [sub : Subs, tenant : Tenants \cup {Nothing}]

Idle == [phase |-> "idle", kind |-> "none", tenant |-> Nothing,
         email |-> Nothing, sub |-> 0]

\* While the transaction is open, and while a Cognito user hangs on it.
Open == {"open", "created", "staged"}
Holding == {"created", "staged", "compensating"}

JobsOf(kinds, ts) ==
    [phase : {"checked", "open"}, kind : kinds, tenant : ts, email : Emails, sub : {0}]
    \cup [phase : Holding, kind : kinds, tenant : ts, email : Emails, sub : Subs]

Jobs ==
    {Idle} \cup JobsOf({"tenant", "member"}, Tenants) \cup JobsOf({"operator"}, {Nothing})

ProvisioningTypeOK ==
    /\ tenants \subseteq Tenants
    /\ accounts \subseteq Accounts
    /\ operators \subseteq Operators
    /\ pool \in [Pools -> [Emails -> Identities \cup {Nothing}]]
    /\ subs \in 0 .. MaxSub
    /\ lost \subseteq Subs /\ torn \subseteq Subs
    /\ job \in [Workers -> Jobs]

ProvisioningInit ==
    /\ tenants = {} /\ accounts = {} /\ operators = {}
    /\ pool = [p \in Pools |-> [e \in Emails |-> Nothing]]
    /\ subs = 0 /\ lost = {} /\ torn = {}
    /\ job = [w \in Workers |-> Idle]

At(w, phase) == job[w].phase = phase

Goto(w, phase, sub) ==
    job' = [job EXCEPT ![w] = [phase |-> phase, kind |-> job[w].kind, tenant |-> job[w].tenant,
                               email |-> job[w].email, sub |-> sub]]

\* Bug: what the request held is not let go of.
RespondHolding(w) == job' = [job EXCEPT ![w].phase = "idle"]

Respond(w) == job' = [job EXCEPT ![w] = Idle]

-----------------------------------------------------------------------------
(***************************************************************************)
(* The pre-checks, before any row is written.                              *)
(***************************************************************************)
Starts(w, phase, kind, t, e) ==
    /\ At(w, "idle")
    /\ kind \in Kinds
    /\ job' = [job EXCEPT ![w] = [phase |-> phase, kind |-> kind, tenant |-> t,
                                  email |-> e, sub |-> 0]]
    /\ UNCHANGED <<rowVars, poolVars, historyVars>>

provision_tenant(w) ==
    \E t \in Tenants, e \in Emails :
        /\ t \notin tenants
        /\ \A a \in accounts : a.email # e
        /\ Starts(w, "checked", "tenant", t, e)

\* An admin of the tenant asks; the check looks at this tenant only.
provision_member(w) ==
    \E t \in Tenants, e \in Emails :
        /\ t \in tenants
        /\ \A a \in accounts : ~(a.email = e /\ a.tenant = t)
        /\ Starts(w, "open", "member", t, e)

provision_operator(w) ==
    \E e \in Emails :
        /\ \A o \in operators : o.email # e
        /\ Starts(w, "checked", "operator", Nothing, e)

(***************************************************************************)
(* The flush before the Cognito call: the tenant row under its unique slug *)
(* or the operator row under the placeholder sub, unique as well.  It      *)
(* waits while another open transaction holds the same key.                *)
(***************************************************************************)
HoldsKeyOf(o, j) ==
    /\ job[o].phase \in Open
    /\ job[o].kind = j.kind
    /\ j.kind = "tenant" => job[o].tenant = j.tenant

FlushFirstRow(w) ==
    /\ At(w, "checked")
    /\ job[w].kind = "tenant" => job[w].tenant \notin tenants
    /\ \A o \in Workers : ~HoldsKeyOf(o, job[w])
    /\ Goto(w, "open", 0)
    /\ UNCHANGED <<rowVars, poolVars, historyVars>>

-----------------------------------------------------------------------------
(***************************************************************************)
(* The Cognito call.  UsernameExistsException and every other ClientError  *)
(* roll back and change nothing (Abort).                                   *)
(***************************************************************************)
UserOf(w) == pool[PoolOf(job[w].kind)][job[w].email]

AddUser(w) ==
    /\ At(w, "open")
    /\ UserOf(w) = Nothing
    /\ subs < MaxSub
    /\ subs' = subs + 1
    /\ pool' = [pool EXCEPT ![PoolOf(job[w].kind)][job[w].email] =
                  [sub |-> subs + 1, tenant |-> job[w].tenant]]

create_cognito_user(w) ==
    /\ AddUser(w)
    /\ Goto(w, "created", subs + 1)
    /\ UNCHANGED <<rowVars, historyVars>>

CognitoUnanswered(w) ==
    /\ "cognito_unanswered" \in Faults
    /\ AddUser(w)
    /\ lost' = lost \cup {subs + 1}
    /\ Respond(w)
    /\ UNCHANGED <<rowVars, torn>>

(***************************************************************************)
(* The identity rows are flushed outside the compensated block; those of   *)
(* an operator are written by the commit.                                  *)
(***************************************************************************)
FlushIdentity(w) ==
    /\ At(w, "created")
    /\ Goto(w, "staged", job[w].sub)
    /\ UNCHANGED <<rowVars, poolVars, historyVars>>

FlushFails(w) ==
    /\ "flush_failed" \in Faults
    /\ At(w, "created")
    /\ job[w].kind # "operator"
    /\ lost' = lost \cup {job[w].sub}
    /\ Respond(w)
    /\ UNCHANGED <<rowVars, poolVars, torn>>

\* What the transaction of request w commits.
WriteRows(w) ==
    LET j == job[w] IN
    /\ tenants' = IF j.kind = "tenant" THEN tenants \cup {j.tenant} ELSE tenants
    /\ accounts' = IF j.kind = "operator" THEN accounts
                   ELSE accounts \cup
                     {[sub |-> j.sub, tenant |-> j.tenant, email |-> j.email,
                       role |-> IF j.kind = "tenant" THEN "ADMIN" ELSE "MEMBER"]}
    /\ operators' = IF j.kind = "operator"
                    THEN operators \cup {[sub |-> j.sub, email |-> j.email]}
                    ELSE operators

CommitRows(w) ==
    /\ At(w, "staged")
    /\ WriteRows(w)
    /\ Respond(w)
    /\ UNCHANGED <<poolVars, historyVars>>

\* Bug: the failed commit is raised without the compensating delete.
CommitFailsUncompensated(w) ==
    /\ "commit_failed" \in Faults
    /\ At(w, "staged")
    /\ Respond(w)
    /\ UNCHANGED <<rowVars, poolVars, historyVars>>

CommitFails(w) ==
    /\ "commit_failed" \in Faults
    /\ At(w, "staged")
    /\ Goto(w, "compensating", job[w].sub)
    /\ UNCHANGED <<rowVars, poolVars, historyVars>>

CommitUnanswered(w) ==
    /\ "commit_unanswered" \in Faults
    /\ At(w, "staged")
    /\ WriteRows(w)
    /\ torn' = torn \cup {job[w].sub}
    /\ Goto(w, "compensating", job[w].sub)
    /\ UNCHANGED <<poolVars, lost>>

\* The delete names the user by email, not by sub.
delete_cognito_user(w) ==
    /\ At(w, "compensating")
    /\ pool' = [pool EXCEPT ![PoolOf(job[w].kind)][job[w].email] = Nothing]
    /\ Respond(w)
    /\ UNCHANGED <<rowVars, subs, historyVars>>

CleanUpFails(w) ==
    /\ "clean_up_failed" \in Faults
    /\ At(w, "compensating")
    /\ lost' = lost \cup {job[w].sub}
    /\ Respond(w)
    /\ UNCHANGED <<rowVars, poolVars, torn>>

\* Bug: UsernameExistsException is compensated like a failed commit.
AbortCompensating(w) ==
    /\ job[w].phase \in {"checked", "open"}
    /\ Goto(w, "compensating", 0)
    /\ UNCHANGED <<rowVars, poolVars, historyVars>>

\* Any end before the Cognito user exists: the transaction rolls back.
Abort(w) ==
    /\ job[w].phase \in {"checked", "open"}
    /\ Respond(w)
    /\ UNCHANGED <<rowVars, poolVars, historyVars>>

Crash(w) ==
    /\ "crash" \in Faults
    /\ job[w].phase \in Holding
    /\ lost' = lost \cup {job[w].sub}
    /\ Respond(w)
    /\ UNCHANGED <<rowVars, poolVars, torn>>

Provision(w) ==
    \/ provision_tenant(w) \/ provision_member(w) \/ provision_operator(w)
    \/ FlushFirstRow(w)
    \/ create_cognito_user(w) \/ CognitoUnanswered(w)
    \/ FlushIdentity(w) \/ FlushFails(w)
    \/ CommitRows(w) \/ CommitFails(w) \/ CommitUnanswered(w)
    \/ delete_cognito_user(w) \/ CleanUpFails(w)
    \/ Abort(w) \/ Crash(w)

-----------------------------------------------------------------------------
(***************************************************************************)
(* Properties.                                                             *)
(***************************************************************************)

(***************************************************************************)
(* Every account can sign in: its email is a Cognito user with its sub and *)
(* its tenant claim, which get_tenant_context compares with the rows.  So  *)
(* no request ever compensates somebody else's user away, and no email has *)
(* two accounts; only a commit that took effect and raised breaks it.      *)
(***************************************************************************)
AccountsCanSignIn ==
    /\ \A a \in accounts : a.sub \notin torn =>
          pool["tenant_plane"][a.email] = [sub |-> a.sub, tenant |-> a.tenant]
    /\ \A o \in operators : o.sub \notin torn =>
          pool["operator_plane"][o.email] = [sub |-> o.sub, tenant |-> Nothing]

(***************************************************************************)
(* A Cognito user without rows is in the hands of a request that will      *)
(* write them or take the user away, or a fault left it behind.            *)
(***************************************************************************)
InHand == {job[w].sub : w \in {o \in Workers : job[o].phase \in Holding}}

Registered == {a.sub : a \in accounts} \cup {o.sub : o \in operators}

StrandedUsersAreKnown ==
    \A p \in Pools, e \in Emails :
        pool[p][e] # Nothing => pool[p][e].sub \in Registered \cup InHand \cup lost
=============================================================================
