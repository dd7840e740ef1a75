---------------------------- MODULE AccessProofs ----------------------------
(***************************************************************************)
(* Proofs about Provisioning and RoleGrants, for any number of tenants,    *)
(* emails, roles and requests and any matrix, and about EvidenceStore, for *)
(* any number of requests, items, uploads and links; both for every set of *)
(* faults.                                                                 *)
(***************************************************************************)
EXTENDS RoleGrants, EvidenceStore, TLAPS

USE ProvisioningAssumption

\* A request with a Cognito user on its hands.
WithUser(j) == j.phase \in Holding

(***************************************************************************)
(* Why a compensating delete, which names its user by email, only ever     *)
(* meets the user of its own request: the user is there under that email   *)
(* for as long as the request runs, subs are drawn once, and rows with     *)
(* that sub exist only if the commit took effect and raised.               *)
(***************************************************************************)
UsersInHand ==
    \A w \in Workers : WithUser(job[w]) =>
        UserOf(w) = [sub |-> job[w].sub, tenant |-> job[w].tenant]

SubsAreDrawn ==
    /\ \A p \in Pools, e \in Emails : pool[p][e] # Nothing => pool[p][e].sub \in 1 .. subs
    /\ \A a \in accounts : a.sub \in 1 .. subs
    /\ \A o \in operators : o.sub \in 1 .. subs
    /\ \A w \in Workers : WithUser(job[w]) => job[w].sub \in 1 .. subs

SubsAreApart ==
    \A p, q \in Pools, e, f \in Emails :
        pool[p][e] # Nothing /\ pool[q][f] # Nothing /\ pool[p][e].sub = pool[q][f].sub
            => p = q /\ e = f

RequestsAreApart ==
    \A v, w \in Workers :
        WithUser(job[v]) /\ WithUser(job[w]) /\ job[v].sub = job[w].sub => v = w

IsRegistered(s) ==
    \/ \E a \in accounts : a.sub = s
    \/ \E o \in operators : o.sub = s

RequestsAreUnwritten ==
    \A w \in Workers : WithUser(job[w]) /\ IsRegistered(job[w].sub) =>
        job[w].phase = "compensating" /\ job[w].sub \in torn

IsInHand(s) == \E w \in Workers : WithUser(job[w]) /\ job[w].sub = s

UsersAreKnown ==
    \A p \in Pools, e \in Emails : pool[p][e] # Nothing =>
        LET s == pool[p][e].sub IN IsRegistered(s) \/ IsInHand(s) \/ s \in lost

UserInv ==
    /\ UsersInHand /\ SubsAreDrawn /\ SubsAreApart /\ RequestsAreApart
    /\ RequestsAreUnwritten /\ UsersAreKnown /\ AccountsCanSignIn

-----------------------------------------------------------------------------
(***************************************************************************)
(* Every step keeps the types.                                             *)
(***************************************************************************)
LEMMA JobFields ==
    ASSUME job \in [Workers -> Jobs], NEW w \in Workers, ~At(w, "idle")
    PROVE  /\ job[w].email \in Emails
           /\ job[w].kind \in AllKinds
           /\ job[w].kind = "operator" => job[w].tenant = Nothing
           /\ job[w].kind # "operator" => job[w].tenant \in Tenants
           /\ job[w].phase \in Holding => job[w].sub \in Subs
           /\ job[w].phase \notin Holding => job[w].phase \in {"checked", "open"}
<1>1. job[w] \in Jobs OBVIOUS
<1>2. job[w] # Idle BY DEF Idle, At
<1>3. CASE job[w] \in JobsOf({"tenant", "member"}, Tenants)
  BY <1>3 DEF JobsOf, AllKinds, Holding
<1>4. CASE job[w] \in JobsOf({"operator"}, {Nothing})
  BY <1>4 DEF JobsOf, AllKinds, Holding
<1> QED BY <1>1, <1>2, <1>3, <1>4 DEF Jobs

LEMMA GotoKeepsJobs ==
    ASSUME job \in [Workers -> Jobs], NEW w \in Workers, ~At(w, "idle"), NEW p, NEW s,
           \/ p \in Holding /\ s \in Subs
           \/ p \in {"checked", "open"} /\ s = 0,
           Goto(w, p, s)
    PROVE  job' \in [Workers -> Jobs]
<1> DEFINE j == [phase |-> p, kind |-> job[w].kind, tenant |-> job[w].tenant,
                 email |-> job[w].email, sub |-> s]
<1>1. /\ job[w].email \in Emails /\ job[w].kind \in AllKinds
      /\ job[w].kind = "operator" => job[w].tenant = Nothing
      /\ job[w].kind # "operator" => job[w].tenant \in Tenants
  BY JobFields
<1>2. CASE job[w].kind = "operator"
  <2>1. j \in JobsOf({"operator"}, {Nothing}) BY <1>1, <1>2 DEF JobsOf
  <2> QED BY <2>1 DEF Jobs, Goto
<1>3. CASE job[w].kind # "operator"
  <2>1. j \in JobsOf({"tenant", "member"}, Tenants) BY <1>1, <1>3 DEF JobsOf, AllKinds
  <2> QED BY <2>1 DEF Jobs, Goto
<1> QED BY <1>2, <1>3

LEMMA GotoUserKeepsJobs ==
    ASSUME job \in [Workers -> Jobs], NEW w \in Workers, ~At(w, "idle"),
           NEW p \in Holding, NEW s \in Subs, Goto(w, p, s)
    PROVE  job' \in [Workers -> Jobs]
BY GotoKeepsJobs

LEMMA RespondKeepsJobs ==
    ASSUME job \in [Workers -> Jobs], NEW w \in Workers, Respond(w)
    PROVE  job' \in [Workers -> Jobs]
BY DEF Respond, Jobs

LEMMA ProvisionKeepsTypes ==
    ASSUME ProvisioningTypeOK, NEW w \in Workers, Provision(w)
    PROVE  ProvisioningTypeOK'
<1>t. /\ job \in [Workers -> Jobs] /\ subs \in 0 .. MaxSub /\ MaxSub \in Nat
      /\ accounts \subseteq Accounts /\ operators \subseteq Operators
      /\ tenants \subseteq Tenants
      /\ pool \in [Pools -> [Emails -> Identities \cup {Nothing}]]
    BY DEF ProvisioningTypeOK
<1>1. ASSUME NEW p, NEW k, NEW t, NEW e \in Emails, Starts(w, p, k, t, e),
             \/ p = "checked" /\ k = "operator" /\ t = Nothing
             \/ p \in {"checked", "open"} /\ k \in {"tenant", "member"} /\ t \in Tenants
      PROVE  ProvisioningTypeOK'
  <2>1. [phase |-> p, kind |-> k, tenant |-> t, email |-> e, sub |-> 0] \in Jobs
    <3>1. CASE k = "operator"
      <4>1. [phase |-> p, kind |-> k, tenant |-> t, email |-> e, sub |-> 0]
               \in JobsOf({"operator"}, {Nothing})
        BY <1>1, <3>1 DEF JobsOf
      <4> QED BY <4>1 DEF Jobs
    <3>2. CASE k # "operator"
      <4>1. [phase |-> p, kind |-> k, tenant |-> t, email |-> e, sub |-> 0]
               \in JobsOf({"tenant", "member"}, Tenants)
        BY <1>1, <3>2 DEF JobsOf
      <4> QED BY <4>1 DEF Jobs
    <3> QED BY <3>1, <3>2
  <2>2. job' \in [Workers -> Jobs] BY <1>1, <1>t, <2>1 DEF Starts
  <2> QED BY <1>1, <2>2 DEF Starts, ProvisioningTypeOK, rowVars, poolVars, historyVars
<1>2. ASSUME AddUser(w) PROVE /\ pool' \in [Pools -> [Emails -> Identities \cup {Nothing}]]
                              /\ subs' \in 0 .. MaxSub /\ subs + 1 \in Subs
                              /\ At(w, "open")
  <2>1. job[w].email \in Emails /\ job[w].tenant \in Tenants \cup {Nothing}
    BY <1>2, <1>t, JobFields DEF AddUser, At
  <2>2. subs + 1 \in Subs /\ subs + 1 \in 0 .. MaxSub BY <1>2, <1>t DEF AddUser, Subs
  <2>3. [sub |-> subs + 1, tenant |-> job[w].tenant] \in Identities
    BY <2>1, <2>2 DEF Identities
  <2>4. PoolOf(job[w].kind) \in Pools BY DEF PoolOf, Pools
  <2> QED BY <1>2, <1>t, <2>1, <2>2, <2>3, <2>4 DEF AddUser
<1>3. CASE provision_tenant(w)
  BY <1>3, <1>1 DEF provision_tenant
<1>4. CASE provision_member(w)
  BY <1>4, <1>1 DEF provision_member
<1>5. CASE provision_operator(w)
  BY <1>5, <1>1 DEF provision_operator
<1>6. CASE FlushFirstRow(w)
  <2>1. job' \in [Workers -> Jobs]
    BY <1>6, <1>t, GotoKeepsJobs DEF FlushFirstRow, At
  <2> QED BY <1>6, <2>1 DEF FlushFirstRow, ProvisioningTypeOK, rowVars, poolVars, historyVars
<1>7. CASE create_cognito_user(w)
  <2>1. /\ pool' \in [Pools -> [Emails -> Identities \cup {Nothing}]]
        /\ subs' \in 0 .. MaxSub /\ subs + 1 \in Subs /\ At(w, "open")
    BY <1>7, <1>2 DEF create_cognito_user
  <2>2. ~At(w, "idle") /\ Goto(w, "created", subs + 1)
    BY <1>7, <2>1 DEF At, create_cognito_user
  <2>3. "created" \in Holding BY DEF Holding
  <2>4. job' \in [Workers -> Jobs] BY ONLY <1>t, <2>1, <2>2, <2>3, GotoUserKeepsJobs
  <2> QED BY <1>7, <2>1, <2>4 DEF create_cognito_user, ProvisioningTypeOK, rowVars, historyVars
<1>8. CASE CognitoUnanswered(w)
  <2>1. /\ pool' \in [Pools -> [Emails -> Identities \cup {Nothing}]]
        /\ subs' \in 0 .. MaxSub /\ subs + 1 \in Subs
    BY <1>8, <1>2 DEF CognitoUnanswered
  <2>2. job' \in [Workers -> Jobs] BY <1>8, <1>t, RespondKeepsJobs DEF CognitoUnanswered
  <2> QED BY <1>8, <2>1, <2>2 DEF CognitoUnanswered, ProvisioningTypeOK, rowVars
<1>9. ASSUME WithUser(job[w]) PROVE /\ job[w].sub \in Subs /\ job[w].email \in Emails
                                    /\ ~At(w, "idle")
                                    /\ job[w].kind = "operator" => job[w].tenant = Nothing
                                    /\ job[w].kind # "operator" => job[w].tenant \in Tenants
  <2>1. ~At(w, "idle") BY <1>9 DEF WithUser, Holding, At
  <2> QED BY <1>9, <1>t, <2>1, JobFields DEF WithUser
<1>10. ASSUME WithUser(job[w]), NEW p \in Holding, Goto(w, p, job[w].sub)
       PROVE  job' \in [Workers -> Jobs]
  <2>1. ~At(w, "idle") /\ job[w].sub \in Subs BY <1>9, <1>10
  <2> QED BY ONLY <1>10, <2>1, <1>t, GotoUserKeepsJobs
<1>11. ASSUME WithUser(job[w]), WriteRows(w)
       PROVE  tenants' \subseteq Tenants /\ accounts' \subseteq Accounts
                 /\ operators' \subseteq Operators
  <2>1. /\ job[w].sub \in Subs /\ job[w].email \in Emails
        /\ job[w].kind # "operator" => job[w].tenant \in Tenants
    BY <1>11, <1>9
  <2>2. tenants' \subseteq Tenants BY <2>1, <1>11, <1>t DEF WriteRows
  <2>3. operators' \subseteq Operators BY <2>1, <1>11, <1>t DEF WriteRows, Operators
  <2>4. accounts' \subseteq Accounts
    <3>1. CASE job[w].kind = "operator" BY <3>1, <1>11, <1>t DEF WriteRows
    <3>2. CASE job[w].kind # "operator"
      BY <3>2, <2>1, <1>11, <1>t DEF WriteRows, Accounts
    <3> QED BY <3>1, <3>2
  <2> QED BY <2>2, <2>3, <2>4
<1>12. /\ At(w, "created") \/ At(w, "staged") \/ At(w, "compensating") => WithUser(job[w])
       /\ "staged" \in Holding /\ "compensating" \in Holding
  BY DEF At, WithUser, Holding
<1>13. CASE FlushIdentity(w)
  BY <1>13, <1>10, <1>12
  DEF FlushIdentity, ProvisioningTypeOK, rowVars, poolVars, historyVars
<1>14. CASE FlushFails(w)
  BY <1>14, <1>9, <1>12, <1>t, RespondKeepsJobs
  DEF FlushFails, ProvisioningTypeOK, rowVars, poolVars
<1>15. CASE CommitRows(w)
  BY <1>15, <1>11, <1>12, <1>t, RespondKeepsJobs
  DEF CommitRows, ProvisioningTypeOK, poolVars, historyVars
<1>16. CASE CommitFails(w)
  BY <1>16, <1>10, <1>12
  DEF CommitFails, ProvisioningTypeOK, rowVars, poolVars, historyVars
<1>17. CASE CommitUnanswered(w)
  <2>1. job' \in [Workers -> Jobs] BY <1>17, <1>10, <1>12 DEF CommitUnanswered
  <2> QED BY <1>17, <1>9, <1>11, <1>12, <2>1
          DEF CommitUnanswered, ProvisioningTypeOK, poolVars
<1>18. CASE delete_cognito_user(w)
  <2>1. PoolOf(job[w].kind) \in Pools BY DEF PoolOf, Pools
  <2>2. pool' \in [Pools -> [Emails -> Identities \cup {Nothing}]]
    BY <1>18, <2>1, <1>t DEF delete_cognito_user
  <2> QED BY <1>18, <2>2, <1>t, RespondKeepsJobs
          DEF delete_cognito_user, ProvisioningTypeOK, rowVars, historyVars
<1>19. CASE CleanUpFails(w)
  BY <1>19, <1>9, <1>12, <1>t, RespondKeepsJobs
  DEF CleanUpFails, ProvisioningTypeOK, rowVars, poolVars
<1>20. CASE Abort(w)
  BY <1>20, <1>t, RespondKeepsJobs
  DEF Abort, ProvisioningTypeOK, rowVars, poolVars, historyVars
<1>21. CASE Crash(w)
  BY <1>21, <1>9, <1>t, RespondKeepsJobs
  DEF Crash, ProvisioningTypeOK, rowVars, poolVars, WithUser
<1> QED BY <1>3, <1>4, <1>5, <1>6, <1>7, <1>8, <1>13, <1>14, <1>15, <1>16, <1>17, <1>18,
           <1>19, <1>20, <1>21 DEF Provision

-----------------------------------------------------------------------------
(***************************************************************************)
(* Every step keeps UserInv.  One lemma for each way a step may change the *)
(* users, the rows and the requests that hold users.                       *)
(***************************************************************************)
Others(w) == \A o \in Workers \ {w} : job'[o] = job[o]

LEMMA GotoMoves ==
    ASSUME job \in [Workers -> Jobs], NEW w \in Workers, NEW p, NEW s, Goto(w, p, s)
    PROVE  /\ Others(w)
           /\ job'[w].phase = p /\ job'[w].sub = s /\ job'[w].kind = job[w].kind
           /\ job'[w].tenant = job[w].tenant /\ job'[w].email = job[w].email
BY DEF Goto, Others

LEMMA RespondEnds ==
    ASSUME job \in [Workers -> Jobs], NEW w \in Workers, Respond(w)
    PROVE  Others(w) /\ job'[w] = Idle /\ ~WithUser(job'[w])
BY DEF Respond, Others, Idle, WithUser, Holding

\* Only the request moves, and it holds no user before or after.
LEMMA WithoutUser ==
    ASSUME ProvisioningTypeOK, UserInv, NEW w \in Workers, Others(w),
           ~WithUser(job[w]), ~WithUser(job'[w]),
           UNCHANGED <<rowVars, poolVars, historyVars>>
    PROVE  UserInv'
<1>1. \A o \in Workers : WithUser(job'[o]) => o # w /\ job'[o] = job[o]
  BY DEF Others
<1>2. \A o \in Workers : WithUser(job[o]) => o # w /\ job'[o] = job[o]
  BY DEF Others
<1>3. UsersInHand' BY <1>1 DEF UserInv, UsersInHand, UserOf, PoolOf, poolVars
<1>4. SubsAreDrawn' BY <1>1 DEF UserInv, SubsAreDrawn, rowVars, poolVars
<1>5. SubsAreApart' /\ AccountsCanSignIn'
  BY DEF UserInv, SubsAreApart, AccountsCanSignIn, rowVars, poolVars, historyVars
<1>6. RequestsAreApart' BY <1>1 DEF UserInv, RequestsAreApart
<1>7. RequestsAreUnwritten'
  BY <1>1 DEF UserInv, RequestsAreUnwritten, IsRegistered, rowVars, historyVars
<1>8. UsersAreKnown'
  BY <1>2 DEF UserInv, UsersAreKnown, IsRegistered, IsInHand, rowVars, poolVars, historyVars
<1> QED BY <1>3, <1>4, <1>5, <1>6, <1>7, <1>8 DEF UserInv

\* The request moves on with the user it holds.
LEMMA WithSameUser ==
    ASSUME ProvisioningTypeOK, UserInv, NEW w \in Workers, NEW p \in Holding,
           WithUser(job[w]), job[w].phase # "compensating", Goto(w, p, job[w].sub),
           UNCHANGED <<rowVars, poolVars, historyVars>>
    PROVE  UserInv'
<1>1. /\ Others(w) /\ job'[w].phase = p /\ job'[w].sub = job[w].sub
      /\ job'[w].kind = job[w].kind /\ job'[w].tenant = job[w].tenant
      /\ job'[w].email = job[w].email
  BY GotoMoves DEF ProvisioningTypeOK
<1>2. \A o \in Workers :
        /\ WithUser(job'[o]) <=> WithUser(job[o])
        /\ job'[o].sub = job[o].sub /\ job'[o].kind = job[o].kind
        /\ job'[o].tenant = job[o].tenant /\ job'[o].email = job[o].email
        /\ o # w => job'[o] = job[o]
  BY <1>1 DEF Others, WithUser
<1>3. UsersInHand' BY <1>2 DEF UserInv, UsersInHand, UserOf, PoolOf, poolVars
<1>4. SubsAreDrawn' BY <1>2 DEF UserInv, SubsAreDrawn, rowVars, poolVars
<1>5. SubsAreApart' /\ AccountsCanSignIn'
  BY DEF UserInv, SubsAreApart, AccountsCanSignIn, rowVars, poolVars, historyVars
<1>6. RequestsAreApart' BY <1>2 DEF UserInv, RequestsAreApart
<1>7. RequestsAreUnwritten'
  BY <1>2 DEF UserInv, RequestsAreUnwritten, IsRegistered, rowVars, historyVars
<1>8. UsersAreKnown'
  BY <1>2 DEF UserInv, UsersAreKnown, IsRegistered, IsInHand, rowVars, poolVars, historyVars
<1> QED BY <1>3, <1>4, <1>5, <1>6, <1>7, <1>8 DEF UserInv

\* A fault ends the request and leaves its user behind.
LEMMA UserIsLost ==
    ASSUME ProvisioningTypeOK, UserInv, NEW w \in Workers, WithUser(job[w]), Respond(w),
           lost' = lost \cup {job[w].sub},
           UNCHANGED <<rowVars, poolVars, torn>>
    PROVE  UserInv'
<1>1. Others(w) /\ ~WithUser(job'[w]) BY RespondEnds DEF ProvisioningTypeOK
<1>2. \A o \in Workers : WithUser(job'[o]) => o # w /\ job'[o] = job[o]
  BY <1>1 DEF Others
<1>3. \A o \in Workers : o # w => job'[o] = job[o] BY <1>1 DEF Others
<1>4. UsersInHand' BY <1>2 DEF UserInv, UsersInHand, UserOf, PoolOf, poolVars
<1>5. SubsAreDrawn' BY <1>2 DEF UserInv, SubsAreDrawn, rowVars, poolVars
<1>6. SubsAreApart' /\ AccountsCanSignIn'
  BY DEF UserInv, SubsAreApart, AccountsCanSignIn, rowVars, poolVars
<1>7. RequestsAreApart' BY <1>2 DEF UserInv, RequestsAreApart
<1>8. RequestsAreUnwritten'
  BY <1>2 DEF UserInv, RequestsAreUnwritten, IsRegistered, rowVars
<1>9. \A s : IsRegistered(s) => IsRegistered(s)' BY DEF IsRegistered, rowVars
<1>10. \A s : IsInHand(s) => IsInHand(s)' \/ s \in lost' BY <1>3 DEF IsInHand
<1>11. UsersAreKnown'
  BY <1>9, <1>10 DEF UserInv, UsersAreKnown, poolVars
<1> QED BY <1>4, <1>5, <1>6, <1>7, <1>8, <1>11 DEF UserInv

\* A user is created, for the request to hold or left behind at once.
LEMMA UserIsAdded ==
    ASSUME ProvisioningTypeOK, UserInv, NEW w \in Workers, AddUser(w), Others(w),
           UNCHANGED <<rowVars, torn>>,
           \/ /\ job'[w].phase = "created" /\ job'[w].sub = subs + 1
              /\ job'[w].kind = job[w].kind /\ job'[w].tenant = job[w].tenant
              /\ job'[w].email = job[w].email
              /\ lost' = lost
           \/ ~WithUser(job'[w]) /\ lost' = lost \cup {subs + 1}
    PROVE  UserInv'
<1> DEFINE P == PoolOf(job[w].kind)
           E == job[w].email
           u == [sub |-> subs + 1, tenant |-> job[w].tenant]
<1>t. /\ job \in [Workers -> Jobs] /\ subs \in 0 .. MaxSub /\ MaxSub \in Nat
      /\ pool \in [Pools -> [Emails -> Identities \cup {Nothing}]]
  BY DEF ProvisioningTypeOK
<1>w. ~WithUser(job[w]) BY DEF AddUser, At, WithUser, Holding
<1>e. P \in Pools /\ E \in Emails
  BY <1>t, JobFields DEF AddUser, At, PoolOf, Pools
<1>n. u # Nothing /\ u.sub = subs + 1
  <2>1. subs + 1 \in 1 .. MaxSub BY <1>t DEF AddUser
  <2>2. job[w].tenant \in Tenants \cup {Nothing}
    BY <1>t, JobFields DEF AddUser, At
  <2> QED BY <2>1, <2>2
<1>p. /\ pool[P][E] = Nothing /\ pool'[P][E] = u
      /\ \A q \in Pools, f \in Emails : q # P \/ f # E => pool'[q][f] = pool[q][f]
  BY <1>t, <1>e DEF AddUser, UserOf
<1>o. \A o \in Workers : WithUser(job[o]) => o # w /\ job'[o] = job[o]
  BY <1>w DEF Others
<1>u. \A o \in Workers : o # w => job'[o] = job[o] BY DEF Others
<1>j. WithUser(job'[w]) => /\ job'[w].sub = subs + 1 /\ job'[w].phase = "created"
                           /\ job'[w].kind = job[w].kind /\ job'[w].email = job[w].email
                           /\ job'[w].tenant = job[w].tenant
  OBVIOUS
<1> HIDE DEF u
<1>s. subs' = subs + 1 /\ 1 .. subs \subseteq 1 .. subs' /\ subs + 1 \in 1 .. subs'
         /\ subs + 1 \notin 1 .. subs
  BY <1>t DEF AddUser
<1>1. UsersInHand'
  <2>1. ASSUME NEW o \in Workers, WithUser(job'[o])
        PROVE  UserOf(o)' = [sub |-> job'[o].sub, tenant |-> job'[o].tenant]
    <3>1. CASE o = w BY <3>1, <2>1, <1>j, <1>p DEF UserOf, u
    <3>2. CASE o # w
      <4>1. job'[o] = job[o] /\ WithUser(job[o]) BY <3>2, <2>1, <1>u
      <4>2. UserOf(o) = [sub |-> job[o].sub, tenant |-> job[o].tenant]
        BY <4>1 DEF UserInv, UsersInHand
      <4>3. PoolOf(job[o].kind) \in Pools /\ job[o].email \in Emails
        BY <1>t, <4>1, JobFields DEF PoolOf, Pools, WithUser, Holding, At
      <4>4. job[o].sub \in 1 .. MaxSub /\ job[o].tenant \in Tenants \cup {Nothing}
        BY <1>t, <4>1, JobFields DEF WithUser, Holding, At, Subs
      <4>5. UserOf(o) # Nothing BY <4>2, <4>4
      <4>6. UserOf(o)' = UserOf(o) BY <1>p, <4>1, <4>3, <4>5 DEF UserOf
      <4> QED BY <4>1, <4>2, <4>6
    <3> QED BY <3>1, <3>2
  <2> QED BY <2>1 DEF UsersInHand
<1>2. SubsAreDrawn'
  <2>1. \A q \in Pools, f \in Emails : pool'[q][f] # Nothing => pool'[q][f].sub \in 1 .. subs'
    BY <1>p, <1>s, <1>n DEF UserInv, SubsAreDrawn
  <2>2. \A o \in Workers : WithUser(job'[o]) => job'[o].sub \in 1 .. subs'
    BY <1>u, <1>j, <1>s DEF UserInv, SubsAreDrawn
  <2> QED BY <2>1, <2>2, <1>s DEF UserInv, SubsAreDrawn, rowVars
<1>3. SubsAreApart'
  BY <1>p, <1>s, <1>n DEF UserInv, SubsAreDrawn, SubsAreApart
<1>4. RequestsAreApart'
  BY <1>u, <1>j, <1>s DEF UserInv, SubsAreDrawn, RequestsAreApart
<1>5. RequestsAreUnwritten'
  <2>1. \A s : IsRegistered(s)' <=> IsRegistered(s) BY DEF IsRegistered, rowVars
  <2>2. ~IsRegistered(subs + 1) BY <1>s DEF UserInv, SubsAreDrawn, IsRegistered
  <2> QED BY <1>u, <1>j, <2>1, <2>2 DEF UserInv, RequestsAreUnwritten
<1>6. UsersAreKnown'
  <2>1. \A s : IsRegistered(s) => IsRegistered(s)' BY DEF IsRegistered, rowVars
  <2>2. \A s : IsInHand(s) => IsInHand(s)' BY <1>o DEF IsInHand
  <2>3. \A s : s = subs + 1 => IsInHand(s)' \/ s \in lost'
    BY DEF IsInHand, WithUser, Holding
  <2>4. lost \subseteq lost' OBVIOUS
  <2>5. \A q \in Pools, f \in Emails : pool'[q][f] # Nothing =>
          pool'[q][f] = pool[q][f] \/ pool'[q][f].sub = subs + 1
    BY <1>p, <1>n
  <2> QED BY <2>1, <2>2, <2>3, <2>4, <2>5 DEF UserInv, UsersAreKnown
<1>7. AccountsCanSignIn'
  <2>1. \A a \in accounts : a.email \in Emails /\ a.sub \in 1 .. MaxSub /\ a.tenant \in Tenants
    BY DEF ProvisioningTypeOK, Accounts, Subs
  <2>2. \A o \in operators : o.email \in Emails /\ o.sub \in 1 .. MaxSub
    BY DEF ProvisioningTypeOK, Operators, Subs
  <2>3. \A a \in accounts : a.sub \notin torn =>
          pool'["tenant_plane"][a.email] = [sub |-> a.sub, tenant |-> a.tenant]
    BY <1>p, <2>1 DEF UserInv, AccountsCanSignIn, Pools
  <2>4. \A o \in operators : o.sub \notin torn =>
          pool'["operator_plane"][o.email] = [sub |-> o.sub, tenant |-> Nothing]
    BY <1>p, <2>2 DEF UserInv, AccountsCanSignIn, Pools
  <2> QED BY <2>3, <2>4 DEF AccountsCanSignIn, rowVars
<1> QED BY <1>1, <1>2, <1>3, <1>4, <1>5, <1>6, <1>7 DEF UserInv

\* The rows are committed, and the answer may be lost.
LEMMA RowsAreWritten ==
    ASSUME ProvisioningTypeOK, UserInv, NEW w \in Workers, At(w, "staged"), WriteRows(w),
           Others(w), UNCHANGED <<poolVars, lost>>,
           \/ ~WithUser(job'[w]) /\ torn' = torn
           \/ /\ job'[w].phase = "compensating" /\ job'[w].sub = job[w].sub
              /\ job'[w].kind = job[w].kind /\ job'[w].tenant = job[w].tenant
              /\ job'[w].email = job[w].email
              /\ torn' = torn \cup {job[w].sub}
    PROVE  UserInv'
<1>t. job \in [Workers -> Jobs] BY DEF ProvisioningTypeOK
<1>w. WithUser(job[w]) /\ job[w].phase = "staged" BY DEF At, WithUser, Holding
<1>f. /\ job[w].kind = "operator" => job[w].tenant = Nothing
      /\ UserOf(w) = [sub |-> job[w].sub, tenant |-> job[w].tenant]
      /\ job[w].sub \in 1 .. subs
  BY <1>t, <1>w, JobFields DEF At, UserInv, UsersInHand, SubsAreDrawn
<1>u. \A o \in Workers : o # w => job'[o] = job[o] BY DEF Others
<1>h. \A o \in Workers : WithUser(job'[o]) =>
        /\ WithUser(job[o]) /\ job'[o].sub = job[o].sub /\ job'[o].kind = job[o].kind
        /\ job'[o].tenant = job[o].tenant /\ job'[o].email = job[o].email
  BY <1>u, <1>w
<1>a. \A a \in accounts' : a \notin accounts =>
        /\ job[w].kind # "operator"
        /\ a.sub = job[w].sub /\ a.tenant = job[w].tenant /\ a.email = job[w].email
  BY DEF WriteRows
<1>b. \A o \in operators' : o \notin operators =>
        job[w].kind = "operator" /\ o.sub = job[w].sub /\ o.email = job[w].email
  BY DEF WriteRows
<1>r. /\ accounts \subseteq accounts' /\ operators \subseteq operators'
      /\ \/ \E a \in accounts' : a.sub = job[w].sub
         \/ \E o \in operators' : o.sub = job[w].sub
  <2>1. CASE job[w].kind = "operator"
    BY <2>1 DEF WriteRows
  <2>2. CASE job[w].kind # "operator"
    <3>1. \E role : [sub |-> job[w].sub, tenant |-> job[w].tenant,
                     email |-> job[w].email, role |-> role] \in accounts'
      BY <2>2 DEF WriteRows
    <3>2. \E a \in accounts' : a.sub = job[w].sub BY <3>1
    <3> QED BY <2>2, <3>2 DEF WriteRows
  <2> QED BY <2>1, <2>2
<1>s. /\ \A s : IsRegistered(s) => IsRegistered(s)'
      /\ \A s : IsRegistered(s)' => IsRegistered(s) \/ s = job[w].sub
      /\ \A s : s = job[w].sub => IsRegistered(s)'
  BY <1>a, <1>b, <1>r DEF IsRegistered
<1>1. UsersInHand' BY <1>h DEF UserInv, UsersInHand, UserOf, PoolOf, poolVars
<1>2. SubsAreDrawn'
  BY <1>h, <1>f, <1>a, <1>b DEF UserInv, SubsAreDrawn, poolVars
<1>3. SubsAreApart' BY DEF UserInv, SubsAreApart, poolVars
<1>4. RequestsAreApart' BY <1>h DEF UserInv, RequestsAreApart
<1>5. RequestsAreUnwritten'
  <2>1. ASSUME NEW o \in Workers, WithUser(job'[o]),
               NEW s, s = job'[o].sub, IsRegistered(s)'
        PROVE  job'[o].phase = "compensating" /\ s \in torn'
    <3>1. CASE o = w BY <3>1, <2>1
    <3>2. CASE o # w
      <4>1. job'[o] = job[o] /\ WithUser(job[o]) BY <3>2, <2>1, <1>u
      <4>2. job[o].sub # job[w].sub BY <3>2, <4>1, <1>w DEF UserInv, RequestsAreApart
      <4>3. IsRegistered(job[o].sub) BY <2>1, <4>1, <4>2, <1>s
      <4> QED BY <2>1, <4>1, <4>3 DEF UserInv, RequestsAreUnwritten
    <3> QED BY <3>1, <3>2
  <2> QED BY <2>1 DEF RequestsAreUnwritten, IsRegistered
<1>6. UsersAreKnown'
  <2>1. \A s : IsInHand(s) => IsInHand(s)' \/ s = job[w].sub BY <1>u DEF IsInHand
  <2>2. \A s : IsRegistered(s) \/ IsInHand(s) \/ s \in lost =>
                 IsRegistered(s)' \/ IsInHand(s)' \/ s \in lost'
    BY <2>1, <1>s
  <2> QED BY <2>2 DEF UserInv, UsersAreKnown, poolVars
<1>7. AccountsCanSignIn'
  <2>1. \A a \in accounts' : a.sub \notin torn' =>
          pool'["tenant_plane"][a.email] = [sub |-> a.sub, tenant |-> a.tenant]
    BY <1>a, <1>f DEF UserInv, AccountsCanSignIn, UserOf, PoolOf, poolVars
  <2>2. \A o \in operators' : o.sub \notin torn' =>
          pool'["operator_plane"][o.email] = [sub |-> o.sub, tenant |-> Nothing]
    BY <1>b, <1>f DEF UserInv, AccountsCanSignIn, UserOf, PoolOf, poolVars
  <2> QED BY <2>1, <2>2 DEF AccountsCanSignIn
<1> QED BY <1>1, <1>2, <1>3, <1>4, <1>5, <1>6, <1>7 DEF UserInv

\* The compensating delete takes away the user of the request itself.
LEMMA UserIsDeleted ==
    ASSUME ProvisioningTypeOK, UserInv, NEW w \in Workers, delete_cognito_user(w)
    PROVE  UserInv'
<1> DEFINE P == PoolOf(job[w].kind)
           E == job[w].email
<1>t. /\ job \in [Workers -> Jobs]
      /\ pool \in [Pools -> [Emails -> Identities \cup {Nothing}]]
  BY DEF ProvisioningTypeOK
<1>w. /\ WithUser(job[w]) /\ job[w].phase = "compensating"
      /\ Others(w) /\ ~WithUser(job'[w])
      /\ UNCHANGED <<rowVars, subs, historyVars>>
  BY <1>t, RespondEnds DEF delete_cognito_user, At, WithUser, Holding
<1>e. /\ P \in Pools /\ E \in Emails
      /\ job[w].sub \in 1 .. MaxSub /\ job[w].tenant \in Tenants \cup {Nothing}
  BY <1>t, <1>w, JobFields DEF At, PoolOf, Pools, Subs, WithUser
<1>p. /\ pool[P][E] = [sub |-> job[w].sub, tenant |-> job[w].tenant]
      /\ pool[P][E] # Nothing /\ pool[P][E].sub = job[w].sub
      /\ pool'[P][E] = Nothing
      /\ \A q \in Pools, f \in Emails : q # P \/ f # E => pool'[q][f] = pool[q][f]
  <2>1. pool[P][E] = [sub |-> job[w].sub, tenant |-> job[w].tenant]
    BY <1>w DEF UserInv, UsersInHand, UserOf
  <2>2. /\ pool'[P][E] = Nothing
        /\ \A q \in Pools, f \in Emails : q # P \/ f # E => pool'[q][f] = pool[q][f]
    BY <1>t, <1>e DEF delete_cognito_user
  <2> HIDE DEF P, E
  <2> QED BY <2>1, <2>2, <1>e
<1>o. \A o \in Workers : WithUser(job'[o]) => o # w /\ job'[o] = job[o]
  BY <1>w DEF Others
<1>u. \A o \in Workers : o # w => job'[o] = job[o] BY <1>w DEF Others
<1>1. UsersInHand'
  <2>1. ASSUME NEW o \in Workers, WithUser(job'[o])
        PROVE  UserOf(o)' = [sub |-> job'[o].sub, tenant |-> job'[o].tenant]
    <3>1. o # w /\ job'[o] = job[o] /\ WithUser(job[o]) BY <2>1, <1>o
    <3>2. UserOf(o) = [sub |-> job[o].sub, tenant |-> job[o].tenant]
      BY <3>1 DEF UserInv, UsersInHand
    <3>3. job[o].sub # job[w].sub BY <3>1, <1>w DEF UserInv, RequestsAreApart
    <3>4. PoolOf(job[o].kind) \in Pools /\ job[o].email \in Emails
      BY <1>t, <3>1, JobFields DEF PoolOf, Pools, WithUser, Holding, At
    <3>5. PoolOf(job[o].kind) # P \/ job[o].email # E
      BY <3>2, <3>3, <1>p DEF UserOf
    <3>6. UserOf(o)' = UserOf(o) BY <1>p, <3>1, <3>4, <3>5 DEF UserOf
    <3> QED BY <3>1, <3>2, <3>6
  <2> QED BY <2>1 DEF UsersInHand
<1> HIDE DEF P, E
<1>k. \A q \in Pools, f \in Emails : pool'[q][f] # Nothing =>
        pool'[q][f] = pool[q][f] /\ (q # P \/ f # E)
  BY <1>p
<1>2. SubsAreDrawn' BY <1>k, <1>o, <1>w DEF UserInv, SubsAreDrawn, rowVars
<1>3. SubsAreApart' BY <1>k DEF UserInv, SubsAreApart
<1>4. RequestsAreApart' BY <1>o DEF UserInv, RequestsAreApart
<1>5. RequestsAreUnwritten'
  BY <1>o, <1>w DEF UserInv, RequestsAreUnwritten, IsRegistered, rowVars, historyVars
<1>6. UsersAreKnown'
  <2>1. \A q \in Pools, f \in Emails : pool'[q][f] # Nothing =>
          pool'[q][f].sub # job[w].sub
    BY <1>k, <1>p, <1>e DEF UserInv, SubsAreApart
  <2>2. \A s : IsInHand(s) => IsInHand(s)' \/ s = job[w].sub BY <1>u DEF IsInHand
  <2>3. /\ \A s : IsRegistered(s) => IsRegistered(s)'
        /\ lost' = lost
    BY <1>w DEF IsRegistered, rowVars, historyVars
  <2> QED BY <1>k, <2>1, <2>2, <2>3 DEF UserInv, UsersAreKnown
<1>7. AccountsCanSignIn'
  <2>1. ASSUME NEW s, s \notin torn, IsRegistered(s) PROVE s # job[w].sub
    BY <2>1, <1>w DEF UserInv, RequestsAreUnwritten
  <2>2. \A a \in accounts : a.email \in Emails BY DEF ProvisioningTypeOK, Accounts
  <2>3. \A o \in operators : o.email \in Emails BY DEF ProvisioningTypeOK, Operators
  <2>4. ASSUME NEW a \in accounts, a.sub \notin torn
        PROVE  pool'["tenant_plane"][a.email] = [sub |-> a.sub, tenant |-> a.tenant]
    <3>1. a.sub # job[w].sub BY <2>1, <2>4 DEF IsRegistered
    <3>2. pool["tenant_plane"][a.email] = [sub |-> a.sub, tenant |-> a.tenant]
      BY <2>4 DEF UserInv, AccountsCanSignIn
    <3>3. P # "tenant_plane" \/ E # a.email BY <3>1, <3>2, <1>p
    <3> QED BY <3>2, <3>3, <2>2, <1>p DEF Pools
  <2>5. ASSUME NEW o \in operators, o.sub \notin torn
        PROVE  pool'["operator_plane"][o.email] = [sub |-> o.sub, tenant |-> Nothing]
    <3>1. o.sub # job[w].sub BY <2>1, <2>5 DEF IsRegistered
    <3>2. pool["operator_plane"][o.email] = [sub |-> o.sub, tenant |-> Nothing]
      BY <2>5 DEF UserInv, AccountsCanSignIn
    <3>3. P # "operator_plane" \/ E # o.email BY <3>1, <3>2, <1>p
    <3> QED BY <3>2, <3>3, <2>3, <1>p DEF Pools
  <2> QED BY <2>4, <2>5, <1>w DEF AccountsCanSignIn, rowVars, historyVars
<1> QED BY <1>1, <1>2, <1>3, <1>4, <1>5, <1>6, <1>7 DEF UserInv

LEMMA ProvisionKeepsUsers ==
    ASSUME ProvisioningTypeOK, UserInv, NEW w \in Workers, Provision(w)
    PROVE  UserInv'
<1>t. job \in [Workers -> Jobs] BY DEF ProvisioningTypeOK
<1>1. ASSUME NEW p \in {"checked", "open"}, NEW k, NEW t, NEW e, Starts(w, p, k, t, e)
      PROVE  UserInv'
  BY <1>1, <1>t, WithoutUser DEF Starts, Others, At, WithUser, Holding
<1>2. CASE provision_tenant(w) \/ provision_member(w) \/ provision_operator(w)
  BY <1>2, <1>1 DEF provision_tenant, provision_member, provision_operator
<1>3. CASE FlushFirstRow(w)
  <2>1. Others(w) /\ job'[w].phase = "open" BY <1>3, <1>t, GotoMoves DEF FlushFirstRow
  <2> QED BY <1>3, <2>1, WithoutUser DEF FlushFirstRow, At, WithUser, Holding
<1>4. CASE create_cognito_user(w)
  <2>1. /\ Others(w) /\ job'[w].phase = "created" /\ job'[w].sub = subs + 1
        /\ job'[w].kind = job[w].kind /\ job'[w].tenant = job[w].tenant
        /\ job'[w].email = job[w].email
    BY <1>4, <1>t, GotoMoves DEF create_cognito_user
  <2> QED BY <1>4, <2>1, UserIsAdded DEF create_cognito_user, historyVars
<1>5. CASE CognitoUnanswered(w)
  <2>1. Others(w) /\ ~WithUser(job'[w])
    BY <1>5, <1>t, RespondEnds DEF CognitoUnanswered
  <2> QED BY <1>5, <2>1, UserIsAdded DEF CognitoUnanswered
<1>6. CASE FlushIdentity(w) \/ CommitFails(w)
  BY <1>6, WithSameUser DEF FlushIdentity, CommitFails, At, WithUser, Holding
<1>7. CASE FlushFails(w) \/ CleanUpFails(w) \/ Crash(w)
  BY <1>7, UserIsLost DEF FlushFails, CleanUpFails, Crash, At, WithUser, Holding
<1>8. CASE CommitRows(w)
  <2>1. Others(w) /\ ~WithUser(job'[w]) BY <1>8, <1>t, RespondEnds DEF CommitRows
  <2> QED BY <1>8, <2>1, RowsAreWritten DEF CommitRows, historyVars
<1>9. CASE CommitUnanswered(w)
  <2>1. /\ Others(w) /\ job'[w].phase = "compensating" /\ job'[w].sub = job[w].sub
        /\ job'[w].kind = job[w].kind /\ job'[w].tenant = job[w].tenant
        /\ job'[w].email = job[w].email
    BY <1>9, <1>t, GotoMoves DEF CommitUnanswered
  <2> QED BY <1>9, <2>1, RowsAreWritten DEF CommitUnanswered
<1>10. CASE delete_cognito_user(w) BY <1>10, UserIsDeleted
<1>11. CASE Abort(w)
  <2>1. Others(w) /\ ~WithUser(job'[w]) BY <1>11, <1>t, RespondEnds DEF Abort
  <2> QED BY <1>11, <2>1, WithoutUser DEF Abort, WithUser, Holding
<1> QED BY <1>2, <1>3, <1>4, <1>5, <1>6, <1>7, <1>8, <1>9, <1>10, <1>11 DEF Provision

-----------------------------------------------------------------------------
(***************************************************************************)
(* A tenant has one admin: its slug is held by one open transaction and    *)
(* refused once it is committed.                                           *)
(***************************************************************************)
ForTenant(j) == j.phase \in Open /\ j.kind = "tenant"

TenantInv ==
    /\ \A w \in Workers : ForTenant(job[w]) => job[w].tenant \notin tenants
    /\ \A v, w \in Workers :
          ForTenant(job[v]) /\ ForTenant(job[w]) /\ job[v].tenant = job[w].tenant => v = w
    /\ \A a \in accounts : a.role = "ADMIN" => a.tenant \in tenants
    /\ \A a, b \in accounts :
          a.role = "ADMIN" /\ b.role = "ADMIN" /\ a.tenant = b.tenant => a = b

LEMMA TenantsUntouched ==
    ASSUME TenantInv, NEW w \in Workers, Others(w), UNCHANGED <<tenants, accounts>>,
           ForTenant(job'[w]) => ForTenant(job[w]) /\ job'[w].tenant = job[w].tenant
    PROVE  TenantInv'
BY DEF TenantInv, Others

LEMMA TenantsWritten ==
    ASSUME TenantInv, NEW w \in Workers, Others(w), At(w, "staged"), WriteRows(w),
           ~ForTenant(job'[w])
    PROVE  TenantInv'
<1>1. \A o \in Workers : ForTenant(job'[o]) => o # w /\ job'[o] = job[o]
  BY DEF Others
<1>2. CASE job[w].kind = "tenant"
  <2>1. ForTenant(job[w]) BY <1>2 DEF ForTenant, Open, At
  <2>2. tenants' = tenants \cup {job[w].tenant} BY <1>2 DEF WriteRows
  <2>3. \A a \in accounts' : a \notin accounts => a.tenant = job[w].tenant
    BY <1>2 DEF WriteRows
  <2>4. \A a, b \in accounts' : a \notin accounts /\ b \notin accounts => a = b
    BY <1>2 DEF WriteRows
  <2>5. /\ \A o \in Workers : ForTenant(job'[o]) => job'[o].tenant \notin tenants'
        /\ \A u, v \in Workers :
              ForTenant(job'[u]) /\ ForTenant(job'[v]) /\ job'[u].tenant = job'[v].tenant
                 => u = v
    BY <1>1, <2>1, <2>2 DEF TenantInv
  <2>6. \A a \in accounts' : a.role = "ADMIN" => a.tenant \in tenants'
    BY <2>2, <2>3 DEF TenantInv
  <2>7. job[w].tenant \notin tenants BY <2>1 DEF TenantInv
  <2>8. \A a, b \in accounts' :
          a.role = "ADMIN" /\ b.role = "ADMIN" /\ a.tenant = b.tenant => a = b
    BY <2>3, <2>4, <2>7 DEF TenantInv
  <2> QED BY <2>5, <2>6, <2>8 DEF TenantInv
<1>3. CASE job[w].kind # "tenant"
  <2>1. tenants' = tenants /\ \A a \in accounts' : a \notin accounts => a.role = "MEMBER"
    BY <1>3 DEF WriteRows
  <2> QED BY <1>1, <2>1 DEF TenantInv
<1> QED BY <1>2, <1>3

LEMMA ProvisionKeepsTenants ==
    ASSUME ProvisioningTypeOK, TenantInv, NEW w \in Workers, Provision(w)
    PROVE  TenantInv'
<1>t. job \in [Workers -> Jobs] BY DEF ProvisioningTypeOK
<1>r. ASSUME Respond(w) PROVE Others(w) /\ ~ForTenant(job'[w])
  BY <1>r, <1>t, RespondEnds DEF ForTenant, Idle, Open
<1>1. ASSUME NEW p, NEW k, NEW t, NEW e, Starts(w, p, k, t, e), k = "tenant" => p = "checked"
      PROVE  TenantInv'
  <2>1. Others(w) /\ job'[w].phase = p /\ job'[w].kind = k
    BY <1>1, <1>t DEF Starts, Others
  <2> QED BY <1>1, <2>1, TenantsUntouched DEF Starts, ForTenant, Open, rowVars
<1>2. CASE provision_tenant(w) \/ provision_member(w) \/ provision_operator(w)
  BY <1>2, <1>1 DEF provision_tenant, provision_member, provision_operator
<1>3. CASE FlushFirstRow(w)
  <2>1. /\ Others(w) /\ job'[w].phase = "open"
        /\ job'[w].kind = job[w].kind /\ job'[w].tenant = job[w].tenant
    BY <1>3, <1>t, GotoMoves DEF FlushFirstRow
  <2>2. CASE job[w].kind = "tenant"
    <3>1. /\ job[w].tenant \notin tenants
          /\ \A o \in Workers : ForTenant(job[o]) => job[o].tenant # job[w].tenant
      BY <1>3, <2>2 DEF FlushFirstRow, HoldsKeyOf, ForTenant
    <3>2. \A o \in Workers : o # w => job'[o] = job[o] BY <2>1 DEF Others
    <3> QED BY <1>3, <2>1, <3>1, <3>2 DEF FlushFirstRow, TenantInv, rowVars
  <2>3. CASE job[w].kind # "tenant"
    BY <1>3, <2>1, <2>3, TenantsUntouched DEF FlushFirstRow, ForTenant, rowVars
  <2> QED BY <2>2, <2>3
<1>4. ASSUME NEW p, NEW s, Goto(w, p, s), job[w].phase \in Open
      PROVE  Others(w) /\ (ForTenant(job'[w]) =>
                              ForTenant(job[w]) /\ job'[w].tenant = job[w].tenant)
  BY <1>4, <1>t, GotoMoves DEF ForTenant
<1>5. CASE create_cognito_user(w)
  <2>1. job[w].phase \in Open BY <1>5 DEF create_cognito_user, AddUser, At, Open
  <2> QED BY <1>5, <1>4, <2>1, TenantsUntouched DEF create_cognito_user, rowVars
<1>6. CASE FlushIdentity(w) \/ CommitFails(w)
  <2>1. job[w].phase \in Open BY <1>6 DEF FlushIdentity, CommitFails, At, Open
  <2> QED BY <1>6, <1>4, <2>1, TenantsUntouched DEF FlushIdentity, CommitFails, rowVars
<1>7. CASE CognitoUnanswered(w)
  BY <1>7, <1>r, TenantsUntouched DEF CognitoUnanswered, rowVars
<1>8. CASE FlushFails(w) \/ CleanUpFails(w) \/ Crash(w) \/ Abort(w) \/ delete_cognito_user(w)
  BY <1>8, <1>r, TenantsUntouched
  DEF FlushFails, CleanUpFails, Crash, Abort, delete_cognito_user, rowVars
<1>9. CASE CommitRows(w) BY <1>9, <1>r, TenantsWritten DEF CommitRows
<1>10. CASE CommitUnanswered(w)
  <2>1. Others(w) /\ job'[w].phase = "compensating"
    BY <1>10, <1>t, GotoMoves DEF CommitUnanswered
  <2> QED BY <1>10, <2>1, TenantsWritten DEF CommitUnanswered, ForTenant, Open
<1> QED BY <1>2, <1>3, <1>5, <1>6, <1>7, <1>8, <1>9, <1>10 DEF Provision

-----------------------------------------------------------------------------
(***************************************************************************)
(* A grant, inserted or pending, went through the checks: by an admin, to  *)
(* another account, of a role that the roles then held do not exclude.     *)
(***************************************************************************)
Checked(g) ==
    /\ g.by \in accounts /\ g.member \in accounts
    /\ g.by.role = "ADMIN" /\ g.by # g.member
    /\ \A held \in g.knew : ~Conflicts(held, g.role)

GrantsAreChecked ==
    /\ \A g \in grants : Checked(g)
    /\ \A x \in Granters : pending[x] # Nothing => Checked(pending[x])

Inv == TypeOK /\ UserInv /\ TenantInv /\ GrantsAreChecked

LEMMA AccountsStay ==
    ASSUME NEW w \in Workers, Provision(w)
    PROVE  accounts \subseteq accounts'
<1>1. WriteRows(w) => accounts \subseteq accounts' BY DEF WriteRows
<1> QED BY <1>1 DEF Provision, provision_tenant, provision_member, provision_operator, Starts,
        FlushFirstRow, create_cognito_user, CognitoUnanswered, FlushIdentity, FlushFails,
        CommitRows, CommitFails, CommitUnanswered, delete_cognito_user, CleanUpFails, Abort,
        Crash, rowVars

LEMMA InvInitially == Init => Inv
<1> SUFFICES ASSUME Init PROVE Inv OBVIOUS
<1>1. TypeOK
  BY DEF Init, ProvisioningInit, TypeOK, ProvisioningTypeOK, Jobs
<1>2. \A w \in Workers : job[w] = Idle /\ ~WithUser(job[w]) /\ ~ForTenant(job[w])
  BY DEF Init, ProvisioningInit, Idle, WithUser, Holding, ForTenant, Open
<1>3. \A p \in Pools, e \in Emails : pool[p][e] = Nothing
  BY DEF Init, ProvisioningInit
<1>4. accounts = {} /\ operators = {} /\ grants = {}
         /\ \A x \in Granters : pending[x] = Nothing
  BY DEF Init, ProvisioningInit
<1>5. UserInv
  BY <1>2, <1>3, <1>4
  DEF UserInv, UsersInHand, SubsAreDrawn, SubsAreApart, RequestsAreApart,
      RequestsAreUnwritten, UsersAreKnown, AccountsCanSignIn
<1>6. TenantInv /\ GrantsAreChecked BY <1>2, <1>4 DEF TenantInv, GrantsAreChecked
<1> QED BY <1>1, <1>5, <1>6 DEF Inv

LEMMA ProvisioningUntouched ==
    ASSUME UNCHANGED provisioningVars, ProvisioningTypeOK, UserInv, TenantInv
    PROVE  ProvisioningTypeOK' /\ UserInv' /\ TenantInv' /\ accounts' = accounts
BY DEF provisioningVars, rowVars, poolVars, historyVars, ProvisioningTypeOK, TenantInv,
       UserInv, UsersInHand, SubsAreDrawn, SubsAreApart, RequestsAreApart,
       RequestsAreUnwritten, UsersAreKnown, AccountsCanSignIn, IsRegistered, IsInHand, UserOf

LEMMA InvKept == Inv /\ [Next]_vars => Inv'
<1> SUFFICES ASSUME Inv, [Next]_vars PROVE Inv'
    OBVIOUS
<1>t. TypeOK /\ ProvisioningTypeOK /\ UserInv /\ TenantInv /\ GrantsAreChecked
  BY DEF Inv, TypeOK
<1>0. CASE UNCHANGED vars
  <2>1. UNCHANGED provisioningVars /\ grants' = grants /\ pending' = pending
    BY <1>0 DEF vars
  <2>2. ProvisioningTypeOK' /\ UserInv' /\ TenantInv' /\ accounts' = accounts
    BY <2>1, <1>t, ProvisioningUntouched
  <2> QED BY <2>1, <2>2, <1>t DEF Inv, TypeOK, GrantsAreChecked, Checked
<1>1. ASSUME NEW w \in Workers, Provision(w), UNCHANGED <<grants, pending>> PROVE Inv'
  <2>1. ProvisioningTypeOK' BY <1>1, <1>t, ProvisionKeepsTypes
  <2>2. UserInv' BY <1>1, <1>t, ProvisionKeepsUsers
  <2>3. TenantInv' BY <1>1, <1>t, ProvisionKeepsTenants
  <2>4. accounts \subseteq accounts' BY <1>1, AccountsStay
  <2>5. GrantsAreChecked' BY <1>1, <1>t, <2>4 DEF GrantsAreChecked, Checked
  <2> QED BY <1>1, <1>t, <2>1, <2>2, <2>3, <2>5 DEF Inv, TypeOK
<1>2. ASSUME NEW x \in Granters, CheckGrant(x) PROVE Inv'
  <2>1. UNCHANGED provisioningVars /\ grants' = grants BY <1>2 DEF CheckGrant
  <2>2. ProvisioningTypeOK' /\ UserInv' /\ TenantInv' /\ accounts' = accounts
    BY <2>1, <1>t, ProvisioningUntouched
  <2>3. PICK by \in accounts, member \in accounts, role \in Roles :
          /\ by.role = "ADMIN"
          /\ assert_governance_assignable(by, member, role)
          /\ pending' = [pending EXCEPT ![x] =
                [member |-> member, role |-> role, by |-> by,
                 knew |-> HeldBy(by.tenant, member)]]
    BY <1>2 DEF CheckGrant
  <2> DEFINE g == [member |-> member, role |-> role, by |-> by,
                   knew |-> HeldBy(by.tenant, member)]
  <2>4. HeldBy(by.tenant, member) \subseteq Roles
    BY <1>t DEF HeldBy, Rows, TypeOK, Grants
  <2>5. g \in Grants
    BY <2>4, <1>t DEF Grants, ProvisioningTypeOK
  <2>6. Checked(g)
    BY <2>3 DEF Checked, assert_governance_assignable
  <2> HIDE DEF g
  <2>7. pending' = [pending EXCEPT ![x] = g] BY <2>3 DEF g
  <2>8. TypeOK' BY <2>1, <2>2, <2>5, <2>7, <1>t DEF TypeOK
  <2>9. GrantsAreChecked'
    BY <2>1, <2>2, <2>6, <2>7, <1>t DEF GrantsAreChecked, Checked, TypeOK
  <2> QED BY <2>2, <2>8, <2>9 DEF Inv
<1>3. ASSUME NEW x \in Granters, CommitGrant(x) \/ AbortGrant(x) PROVE Inv'
  <2>1. /\ UNCHANGED provisioningVars /\ pending[x] # Nothing
        /\ grants' \subseteq grants \cup {pending[x]}
        /\ pending' = [pending EXCEPT ![x] = Nothing]
    BY <1>3 DEF CommitGrant, AbortGrant
  <2>2. ProvisioningTypeOK' /\ UserInv' /\ TenantInv' /\ accounts' = accounts
    BY <2>1, <1>t, ProvisioningUntouched
  <2>3. TypeOK' BY <2>1, <2>2, <1>t DEF TypeOK
  <2>4. GrantsAreChecked' BY <2>1, <2>2, <1>t DEF GrantsAreChecked, Checked, TypeOK
  <2> QED BY <2>2, <2>3, <2>4 DEF Inv
<1>4. ASSUME NEW row \in grants, revoke_role(row) PROVE Inv'
  <2>1. /\ UNCHANGED provisioningVars /\ grants' \subseteq grants /\ pending' = pending
    BY <1>4 DEF revoke_role
  <2>2. ProvisioningTypeOK' /\ UserInv' /\ TenantInv' /\ accounts' = accounts
    BY <2>1, <1>t, ProvisioningUntouched
  <2> QED BY <2>1, <2>2, <1>t DEF Inv, TypeOK, GrantsAreChecked, Checked
<1> QED BY <1>0, <1>1, <1>2, <1>3, <1>4 DEF Next

THEOREM InvAlways == Spec => []Inv
BY InvInitially, InvKept, PTL DEF Spec

-----------------------------------------------------------------------------
(***************************************************************************)
(* Rows, requests and grants keep their types.                             *)
(***************************************************************************)
THEOREM AccessTypes == Spec => []TypeOK
<1>1. Inv => TypeOK BY DEF Inv
<1> QED BY <1>1, InvAlways, PTL

(***************************************************************************)
(* Every account and every operator signs in with the user that was made   *)
(* for it, unless its commit took effect and was answered with an error.   *)
(***************************************************************************)
THEOREM AccountsAlwaysSignIn == Spec => []AccountsCanSignIn
<1>1. Inv => AccountsCanSignIn BY DEF Inv, UserInv
<1> QED BY <1>1, InvAlways, PTL

(***************************************************************************)
(* The choreography of provisioning strands no Cognito user by itself.     *)
(***************************************************************************)
THEOREM StrandedAlwaysKnown == Spec => []StrandedUsersAreKnown
<1>1. Inv => StrandedUsersAreKnown
  <2> SUFFICES ASSUME Inv, NEW p \in Pools, NEW e \in Emails, pool[p][e] # Nothing
               PROVE  pool[p][e].sub \in Registered \cup InHand \cup lost
      BY DEF StrandedUsersAreKnown
  <2>1. \A s : IsRegistered(s) => s \in Registered BY DEF IsRegistered, Registered
  <2>2. \A s : IsInHand(s) => s \in InHand BY DEF IsInHand, InHand, WithUser
  <2> QED BY <2>1, <2>2 DEF Inv, UserInv, UsersAreKnown
<1> QED BY <1>1, InvAlways, PTL

(***************************************************************************)
(* Self-assignment being refused is enough to keep every admin without a   *)
(* role in his tenant, since nobody else there is an admin.                *)
(***************************************************************************)
THEOREM AdminsNeverHoldRoles == Spec => []AdminsHoldNoRole
<1>1. Inv => AdminsHoldNoRole
  <2> SUFFICES ASSUME Inv, NEW g \in grants, g.by.tenant = g.member.tenant,
                      g.member.role # "MEMBER"
               PROVE  FALSE
      BY DEF AdminsHoldNoRole
  <2>1. /\ g.by \in accounts /\ g.member \in accounts
        /\ g.by.role = "ADMIN" /\ g.by # g.member
    BY DEF Inv, GrantsAreChecked, Checked
  <2>2. g.member.role = "ADMIN"
    BY <2>1 DEF Inv, TypeOK, ProvisioningTypeOK, Accounts
  <2> QED BY <2>1, <2>2 DEF Inv, TenantInv
<1> QED BY <1>1, InvAlways, PTL

(***************************************************************************)
(* Conflicting roles meet in one member only through grants that did not   *)
(* see each other, whatever the matrix.                                    *)
(***************************************************************************)
THEOREM ConflictsAlwaysRaced == Spec => []ConflictsComeFromRaces
<1>1. Inv => ConflictsComeFromRaces
  <2> SUFFICES ASSUME Inv, NEW g \in grants, NEW h \in grants, InConflict(g, h)
               PROVE  g.role \notin h.knew /\ h.role \notin g.knew
      BY DEF ConflictsComeFromRaces
  <2>1. /\ <<g.role, h.role>> \in ConflictRows
        /\ g.role \in Nat /\ h.role \in Nat /\ g.role < h.role
    BY RolesAssumption DEF InConflict
  <2>2. Smaller(g.role, h.role) = g.role /\ Larger(g.role, h.role) = h.role
           /\ Smaller(h.role, g.role) = g.role /\ Larger(h.role, g.role) = h.role
    BY <2>1 DEF Smaller, Larger
  <2>3. Conflicts(g.role, h.role) /\ Conflicts(h.role, g.role)
    BY <2>1, <2>2 DEF Conflicts
  <2> QED BY <2>3 DEF Inv, GrantsAreChecked, Checked
<1> QED BY <1>1, InvAlways, PTL

-----------------------------------------------------------------------------
(***************************************************************************)
(* The evidence repository.                                                *)
(***************************************************************************)
USE EvidenceAssumption

\* An upload between its put and the end of its request.
Uploading(j) == j.phase \in {"stored", "compensating"}

(***************************************************************************)
(* What keeps compensation away from what others have seen: ids are drawn  *)
(* once, so two uploads never share an object, and nobody has seen the row *)
(* of an upload in progress, unless its commit went unanswered.            *)
(***************************************************************************)
IdsAreDrawn == objects \cup rows \cup issued \subseteq 1 .. used

UploadsAreApart ==
    \A v, w \in Callers :
        Uploading(task[v]) /\ Uploading(task[w]) /\ task[v].ev = task[w].ev => v = w

UploadsAreUnseen ==
    \A w \in Callers : Uploading(task[w]) =>
        /\ task[w].ev \in 1 .. used
        /\ task[w].ev \in rows \cup issued => task[w].ev \in unanswered
        /\ task[w].phase = "stored" => task[w].ev \in objects

PointerInv == StoreTypeOK /\ IdsAreDrawn /\ UploadsAreApart /\ UploadsAreUnseen /\ PointersResolve

\* A link in the making holds its evidence row.
LinkInv == StoreTypeOK /\ NoDanglingLink /\ \A w \in Callers : IsAt(w, "linked") => task[w].ev \in rows

-----------------------------------------------------------------------------
(***************************************************************************)
(* Every step keeps the types.                                             *)
(***************************************************************************)
LEMMA MoveKeepsTasks ==
    ASSUME task \in [Callers -> StoreJobs], NEW w \in Callers, NEW p, NEW e, NEW i, NEW l,
           [phase |-> p, ev |-> e, item |-> i, id |-> l] \in StoreJobs,
           MoveTo(w, p, e, i, l)
    PROVE  task' \in [Callers -> StoreJobs]
BY DEF MoveTo

LEMMA AnswerKeepsTasks ==
    ASSUME task \in [Callers -> StoreJobs], NEW w \in Callers, Answer(w)
    PROVE  task' \in [Callers -> StoreJobs]
BY DEF Answer, StoreJobs

LEMMA TaskFields ==
    ASSUME task \in [Callers -> StoreJobs], NEW w \in Callers
    PROVE  /\ ~IsAt(w, "idle") => task[w].ev \in EvidenceIds
           /\ IsAt(w, "linking") => task[w].item \in Items
           /\ IsAt(w, "linked") => LinkOf(task[w]) \in LinkRows
           /\ IsAt(w, "unlinking") => LinkOf(task[w]) \in LinkRows
<1>1. task[w] \in StoreJobs OBVIOUS
<1>2. CASE task[w] = NoJob BY <1>2 DEF NoJob, IsAt
<1>3. CASE task[w] \in [phase : {"stored", "compensating", "deleting"},
                       ev : EvidenceIds, item : {NoItem}, id : {0}]
  BY <1>3 DEF IsAt
<1>4. CASE task[w] \in [phase : {"linking"}, ev : EvidenceIds, item : Items, id : {0}]
  BY <1>4 DEF IsAt
<1>5. CASE task[w] \in [phase : {"linked", "unlinking"}, ev : EvidenceIds,
                       item : Items, id : 1 .. MaxLinks]
  BY <1>5 DEF IsAt, LinkOf, LinkRows
<1> QED BY <1>1, <1>2, <1>3, <1>4, <1>5 DEF StoreJobs

LEMMA TypesKept == StoreTypeOK /\ [StoreNext]_storeVars => StoreTypeOK'
<1> SUFFICES ASSUME StoreTypeOK, [StoreNext]_storeVars PROVE StoreTypeOK'
    OBVIOUS
<1>t. /\ task \in [Callers -> StoreJobs] /\ used \in 0 .. MaxEvidence
      /\ serial \in 0 .. MaxLinks /\ MaxEvidence \in Nat /\ MaxLinks \in Nat
      /\ rows \subseteq EvidenceIds
    BY DEF StoreTypeOK
<1>j. \A e \in EvidenceIds :
        /\ [phase |-> "stored", ev |-> e, item |-> NoItem, id |-> 0] \in StoreJobs
        /\ [phase |-> "compensating", ev |-> e, item |-> NoItem, id |-> 0] \in StoreJobs
        /\ [phase |-> "deleting", ev |-> e, item |-> NoItem, id |-> 0] \in StoreJobs
        /\ \A i \in Items :
              /\ [phase |-> "linking", ev |-> e, item |-> i, id |-> 0] \in StoreJobs
              /\ \A n \in 1 .. MaxLinks :
                    /\ [phase |-> "linked", ev |-> e, item |-> i, id |-> n] \in StoreJobs
                    /\ [phase |-> "unlinking", ev |-> e, item |-> i, id |-> n] \in StoreJobs
    BY DEF StoreJobs
<1>1. ASSUME NEW w \in Callers, Upload(w) PROVE StoreTypeOK'
  <2>e. ~IsAt(w, "idle") => task[w].ev \in EvidenceIds BY <1>t, TaskFields
  <2>u. used < MaxEvidence => used + 1 \in EvidenceIds /\ used + 1 \in 0 .. MaxEvidence
    BY <1>t DEF EvidenceIds
  <2>1. CASE put_object(w)
    <3>1. task' \in [Callers -> StoreJobs]
      BY <2>1, <2>u, <1>t, <1>j, MoveKeepsTasks DEF put_object
    <3> QED BY <2>1, <2>u, <3>1 DEF put_object, StoreTypeOK, linkVars, storeHistoryVars
  <2>2. CASE PutUnanswered(w)
    BY <2>2, <2>u DEF PutUnanswered, StoreTypeOK, linkVars
  <2>3. CASE InsertRow(w)
    <3>1. task' \in [Callers -> StoreJobs] BY <2>3, <1>t, AnswerKeepsTasks DEF InsertRow
    <3>2. task[w].ev \in EvidenceIds BY <2>3, <2>e DEF InsertRow, IsAt
    <3> QED BY <2>3, <3>1, <3>2 DEF InsertRow, StoreTypeOK, linkVars, storeHistoryVars
  <2>4. CASE InsertFails(w)
    <3>1. task[w].ev \in EvidenceIds BY <2>4, <2>e DEF InsertFails, IsAt
    <3>2. task' \in [Callers -> StoreJobs]
      BY <2>4, <3>1, <1>t, <1>j, MoveKeepsTasks DEF InsertFails
    <3> QED BY <2>4, <3>2 DEF InsertFails, StoreTypeOK, linkVars, storeHistoryVars, blobVars
  <2>5. CASE InsertUnanswered(w)
    <3>1. task[w].ev \in EvidenceIds BY <2>5, <2>e DEF InsertUnanswered, IsAt
    <3>2. task' \in [Callers -> StoreJobs]
      BY <2>5, <3>1, <1>t, <1>j, MoveKeepsTasks DEF InsertUnanswered
    <3> QED BY <2>5, <3>1, <3>2 DEF InsertUnanswered, StoreTypeOK, linkVars
  <2>6. CASE delete_object(w)
    <3>1. task' \in [Callers -> StoreJobs] BY <2>6, <1>t, AnswerKeepsTasks DEF delete_object
    <3> QED BY <2>6, <3>1 DEF delete_object, StoreTypeOK, linkVars, storeHistoryVars
  <2>7. CASE CompensationFails(w)
    <3>1. task' \in [Callers -> StoreJobs] BY <2>7, <1>t, AnswerKeepsTasks DEF CompensationFails
    <3>2. task[w].ev \in EvidenceIds BY <2>7, <2>e DEF CompensationFails, IsAt
    <3> QED BY <2>7, <3>1, <3>2 DEF CompensationFails, StoreTypeOK, linkVars, blobVars
  <2>8. CASE ServerEnds(w)
    <3>1. task' \in [Callers -> StoreJobs] BY <2>8, <1>t, AnswerKeepsTasks DEF ServerEnds
    <3>2. task[w].ev \in EvidenceIds BY <2>8, <2>e DEF ServerEnds, IsAt
    <3> QED BY <2>8, <3>1, <3>2 DEF ServerEnds, StoreTypeOK, linkVars, blobVars
  <2> QED BY <1>1, <2>1, <2>2, <2>3, <2>4, <2>5, <2>6, <2>7, <2>8 DEF Upload
<1>2. ASSUME NEW w \in Callers, LinkOrDelete(w) PROVE StoreTypeOK'
  <2>e. /\ ~IsAt(w, "idle") => task[w].ev \in EvidenceIds
        /\ IsAt(w, "linking") => task[w].item \in Items
        /\ IsAt(w, "linked") => LinkOf(task[w]) \in LinkRows
    BY <1>t, TaskFields
  <2>1. CASE LoadForLink(w)
    <3>1. PICK e \in rows, i \in Items : MoveTo(w, "linking", e, i, 0)
      BY <2>1 DEF LoadForLink
    <3>2. task' \in [Callers -> StoreJobs] BY <3>1, <1>t, <1>j, MoveKeepsTasks
    <3> QED BY <2>1, <3>2 DEF LoadForLink, StoreTypeOK, linkVars, storeHistoryVars, blobVars
  <2>2. CASE InsertLink(w)
    <3>1. task[w].ev \in EvidenceIds /\ task[w].item \in Items
      BY <2>2, <2>e DEF InsertLink, IsAt
    <3>2. serial + 1 \in 1 .. MaxLinks BY <2>2, <1>t DEF InsertLink
    <3>3. task' \in [Callers -> StoreJobs]
      BY <2>2, <3>1, <3>2, <1>t, <1>j, MoveKeepsTasks DEF InsertLink
    <3> QED BY <2>2, <3>2, <3>3 DEF InsertLink, StoreTypeOK, storeHistoryVars, blobVars
  <2>3. CASE CommitLink(w)
    <3>1. task' \in [Callers -> StoreJobs] BY <2>3, <1>t, AnswerKeepsTasks DEF CommitLink
    <3> QED BY <2>3, <2>e, <3>1 DEF CommitLink, StoreTypeOK, storeHistoryVars, blobVars
  <2>4. CASE LoadForUnlink(w)
    <3>1. PICK l \in links : MoveTo(w, "unlinking", l.ev, l.item, l.id)
      BY <2>4 DEF LoadForUnlink
    <3>2. l.ev \in EvidenceIds /\ l.item \in Items /\ l.id \in 1 .. MaxLinks
      BY DEF StoreTypeOK, LinkRows
    <3>3. task' \in [Callers -> StoreJobs] BY <3>1, <3>2, <1>t, <1>j, MoveKeepsTasks
    <3> QED BY <2>4, <3>3 DEF LoadForUnlink, StoreTypeOK, linkVars, storeHistoryVars, blobVars
  <2>5. CASE delete_evidence_link(w)
    <3>1. task' \in [Callers -> StoreJobs]
      BY <2>5, <1>t, AnswerKeepsTasks DEF delete_evidence_link
    <3> QED BY <2>5, <3>1 DEF delete_evidence_link, StoreTypeOK, storeHistoryVars, blobVars
  <2>6. CASE StartDelete(w)
    <3>1. PICK e \in rows : MoveTo(w, "deleting", e, NoItem, 0) BY <2>6 DEF StartDelete
    <3>2. task' \in [Callers -> StoreJobs] BY <3>1, <1>t, <1>j, MoveKeepsTasks
    <3> QED BY <2>6, <3>2 DEF StartDelete, StoreTypeOK, linkVars, storeHistoryVars, blobVars
  <2>7. CASE delete_evidence(w)
    <3>1. task' \in [Callers -> StoreJobs]
      BY <2>7, <1>t, AnswerKeepsTasks DEF delete_evidence
    <3>2. task[w].ev \in EvidenceIds BY <2>7, <2>e DEF delete_evidence, IsAt
    <3> QED BY <2>7, <3>1, <3>2 DEF delete_evidence, StoreTypeOK
  <2>8. CASE Refuse(w)
    <3>1. task' \in [Callers -> StoreJobs] BY <2>8, <1>t, AnswerKeepsTasks DEF Refuse
    <3> QED BY <2>8, <3>1 DEF Refuse, StoreTypeOK, linkVars, storeHistoryVars, blobVars
  <2> QED BY <1>2, <2>1, <2>2, <2>3, <2>4, <2>5, <2>6, <2>7, <2>8 DEF LinkOrDelete
<1>3. ASSUME NEW e \in EvidenceIds, get_evidence(e) PROVE StoreTypeOK'
  BY <1>3 DEF get_evidence, StoreTypeOK, blobVars, linkVars
<1>4. CASE UNCHANGED storeVars
  BY <1>4 DEF storeVars, StoreTypeOK, blobVars, linkVars, storeHistoryVars
<1> QED BY <1>1, <1>2, <1>3, <1>4 DEF StoreNext

-----------------------------------------------------------------------------
(***************************************************************************)
(* Pointers.  What the requests of one upload do, one action at a time.    *)
(***************************************************************************)
LEMMA PointersInit == StoreInit => PointerInv
<1> SUFFICES ASSUME StoreInit PROVE PointerInv
    OBVIOUS
<1>1. \A w \in Callers : task[w] = NoJob BY DEF StoreInit
<1>2. StoreTypeOK BY DEF StoreInit, StoreTypeOK, StoreJobs
<1> QED BY <1>1, <1>2 DEF StoreInit, PointerInv, IdsAreDrawn, UploadsAreApart, UploadsAreUnseen,
                          PointersResolve, Uploading, NoJob

\* A request that is no upload before or after its step disturbs none of it.
LEMMA PointersAside ==
    ASSUME PointerInv, StoreTypeOK', NEW w \in Callers, ~Uploading(task[w]),
           ~Uploading(task'[w]), \A v \in Callers \ {w} : task'[v] = task[v],
           UNCHANGED <<objects, used, issued, unanswered>>, rows' \subseteq rows
    PROVE  PointerInv'
BY DEF PointerInv, IdsAreDrawn, UploadsAreApart, UploadsAreUnseen, PointersResolve,
       Uploading

LEMMA PointersKept == PointerInv /\ [StoreNext]_storeVars => PointerInv'
<1> SUFFICES ASSUME PointerInv, [StoreNext]_storeVars PROVE PointerInv'
    OBVIOUS
<1>t. StoreTypeOK /\ StoreTypeOK' BY TypesKept DEF PointerInv
<1>j. task \in [Callers -> StoreJobs] /\ used \in 0 .. MaxEvidence BY <1>t DEF StoreTypeOK
<1>1. ASSUME NEW w \in Callers, Upload(w) PROVE PointerInv'
  <2> USE DEF PointerInv, IdsAreDrawn, UploadsAreApart, UploadsAreUnseen,
              PointersResolve, Uploading
  <2>o. \A v \in Callers \ {w} : task'[v] = task[v]
    BY <1>1, <1>j DEF Upload, put_object, PutUnanswered, InsertRow, InsertFails,
       InsertUnanswered, delete_object, CompensationFails, ServerEnds, MoveTo, Answer
  <2>r. Answer(w) => ~Uploading(task'[w]) BY <1>j DEF Answer, NoJob
  <2>1. CASE put_object(w)
    <3>1. task'[w].phase = "stored" /\ task'[w].ev = used + 1
      BY <2>1, <1>j DEF put_object, MoveTo
    <3>2. used + 1 \notin 1 .. used /\ used + 1 \in 1 .. used' /\ 1 .. used \subseteq 1 .. used'
      BY <2>1, <1>j DEF put_object
    <3> QED BY <2>1, <2>o, <3>1, <3>2, <1>t DEF put_object, linkVars, storeHistoryVars
  <2>2. CASE PutUnanswered(w)
    <3>1. 1 .. used \subseteq 1 .. used' /\ used + 1 \in 1 .. used'
      BY <2>2, <1>j DEF PutUnanswered
    <3> QED BY <2>2, <3>1, <1>t DEF PutUnanswered, linkVars
  <2>3. CASE InsertRow(w)
    BY <2>3, <2>o, <2>r, <1>t DEF InsertRow, IsAt, linkVars, storeHistoryVars
  <2>4. CASE InsertFails(w)
    <3>1. task'[w].phase = "compensating" /\ task'[w].ev = task[w].ev
      BY <2>4, <1>j DEF InsertFails, MoveTo
    <3> QED BY <2>4, <2>o, <3>1, <1>t DEF InsertFails, IsAt, linkVars, storeHistoryVars, blobVars
  <2>5. CASE InsertUnanswered(w)
    <3>1. task'[w].phase = "compensating" /\ task'[w].ev = task[w].ev
      BY <2>5, <1>j DEF InsertUnanswered, MoveTo
    <3> QED BY <2>5, <2>o, <3>1, <1>t DEF InsertUnanswered, IsAt, linkVars
  <2>6. CASE delete_object(w)
    BY <2>6, <2>o, <2>r, <1>t DEF delete_object, IsAt, linkVars, storeHistoryVars
  <2>7. CASE CompensationFails(w)
    BY <2>7, <2>o, <2>r, <1>t DEF CompensationFails, IsAt, linkVars, blobVars
  <2>8. CASE ServerEnds(w)
    BY <2>8, <2>o, <2>r, <1>t DEF ServerEnds, linkVars, blobVars
  <2> QED BY <1>1, <2>1, <2>2, <2>3, <2>4, <2>5, <2>6, <2>7, <2>8 DEF Upload
<1>2. ASSUME NEW w \in Callers, LinkOrDelete(w) PROVE PointerInv'
  <2>1. \A v \in Callers \ {w} : task'[v] = task[v]
    BY <1>2, <1>j DEF LinkOrDelete, LoadForLink, InsertLink, CommitLink, LoadForUnlink,
       delete_evidence_link, StartDelete, delete_evidence, Refuse, MoveTo, Answer
  <2>2. ~Uploading(task[w]) /\ ~Uploading(task'[w])
    BY <1>2, <1>j DEF LinkOrDelete, LoadForLink, InsertLink, CommitLink, LoadForUnlink,
       delete_evidence_link, StartDelete, delete_evidence, Refuse, MoveTo, Answer, IsAt,
       Uploading, NoJob
  <2>3. UNCHANGED <<objects, used, issued, unanswered>> /\ rows' \subseteq rows
    BY <1>2 DEF LinkOrDelete, LoadForLink, InsertLink, CommitLink, LoadForUnlink,
       delete_evidence_link, StartDelete, delete_evidence, Refuse, blobVars, storeHistoryVars
  <2> QED BY <2>1, <2>2, <2>3, <1>t, PointersAside
<1>3. ASSUME NEW e \in EvidenceIds, get_evidence(e) PROVE PointerInv'
  BY <1>3, <1>t DEF get_evidence, blobVars, linkVars, PointerInv, IdsAreDrawn,
     UploadsAreApart, UploadsAreUnseen, PointersResolve, Uploading
<1>4. CASE UNCHANGED storeVars
  BY <1>4, <1>t DEF storeVars, blobVars, linkVars, storeHistoryVars, PointerInv, IdsAreDrawn,
     UploadsAreApart, UploadsAreUnseen, PointersResolve, Uploading
<1> QED BY <1>1, <1>2, <1>3, <1>4 DEF StoreNext

(***************************************************************************)
(* Every committed row and every URL handed out resolves to an object, but *)
(* for rows whose commit was reported as failed and was not.               *)
(***************************************************************************)
THEOREM PointersAlwaysResolve == StoreSpec => []PointersResolve
<1>1. PointerInv => PointersResolve BY DEF PointerInv
<1> QED BY PointersInit, PointersKept, <1>1, PTL DEF StoreSpec

-----------------------------------------------------------------------------
(***************************************************************************)
(* The choreography loses no object: whoever lets go of one has given it a *)
(* row, removed it, or is a fault.                                         *)
(***************************************************************************)
OrphanInv == StoreTypeOK /\ OrphansAreKnown

LEMMA OrphansKept == OrphanInv /\ [StoreNext]_storeVars => OrphanInv'
<1> SUFFICES ASSUME OrphanInv, [StoreNext]_storeVars PROVE OrphanInv'
    OBVIOUS
<1>t. StoreTypeOK /\ StoreTypeOK' BY TypesKept DEF OrphanInv
<1>j. task \in [Callers -> StoreJobs] BY <1>t DEF StoreTypeOK
<1>h. \A e : e \in Owned <=>
        \E w \in Callers : task[w].phase \in {"stored", "compensating"} /\ task[w].ev = e
    BY DEF Owned
<1>H. \A e : e \in Owned' <=>
        \E w \in Callers : task'[w].phase \in {"stored", "compensating"} /\ task'[w].ev = e
    BY DEF Owned
<1> USE DEF OrphanInv, OrphansAreKnown
<1>1. ASSUME NEW w \in Callers, Upload(w) PROVE OrphanInv'
  <2>o. \A v \in Callers \ {w} : task'[v] = task[v]
    BY <1>1, <1>j DEF Upload, put_object, PutUnanswered, InsertRow, InsertFails,
       InsertUnanswered, delete_object, CompensationFails, ServerEnds, MoveTo, Answer
  <2>h. \A e \in Owned : e \in Owned' \/ e = task[w].ev
    BY <2>o, <1>h, <1>H
  <2>1. CASE put_object(w)
    <3>1. used + 1 \in Owned' BY <2>1, <1>j, <1>H DEF put_object, MoveTo
    <3>2. task[w].phase = "idle" BY <2>1 DEF put_object, IsAt
    <3>3. \A e \in Owned : e \in Owned' BY <3>2, <2>o, <1>h, <1>H
    <3> QED BY <2>1, <3>1, <3>3, <1>t DEF put_object, linkVars, storeHistoryVars
  <2>2. CASE PutUnanswered(w)
    <3>1. \A e \in Owned : e \in Owned' BY <2>2, <1>h, <1>H DEF PutUnanswered
    <3> QED BY <2>2, <3>1, <1>t DEF PutUnanswered, linkVars
  <2>3. CASE InsertRow(w)
    BY <2>3, <2>h, <1>t DEF InsertRow, linkVars, storeHistoryVars
  <2>4. CASE InsertFails(w)
    <3>1. task[w].ev \in Owned' BY <2>4, <1>j, <1>H DEF InsertFails, MoveTo
    <3> QED BY <2>4, <2>h, <3>1, <1>t DEF InsertFails, linkVars, storeHistoryVars, blobVars
  <2>5. CASE InsertUnanswered(w)
    <3>1. task[w].ev \in Owned' BY <2>5, <1>j, <1>H DEF InsertUnanswered, MoveTo
    <3> QED BY <2>5, <2>h, <3>1, <1>t DEF InsertUnanswered, linkVars
  <2>6. CASE delete_object(w)
    BY <2>6, <2>h, <1>t DEF delete_object, linkVars, storeHistoryVars
  <2>7. CASE CompensationFails(w)
    BY <2>7, <2>h, <1>t DEF CompensationFails, linkVars, blobVars
  <2>8. CASE ServerEnds(w)
    BY <2>8, <2>h, <1>t DEF ServerEnds, linkVars, blobVars
  <2> QED BY <1>1, <2>1, <2>2, <2>3, <2>4, <2>5, <2>6, <2>7, <2>8 DEF Upload
<1>2. ASSUME NEW w \in Callers, LinkOrDelete(w) PROVE OrphanInv'
  <2>1. \A v \in Callers \ {w} : task'[v] = task[v]
    BY <1>2, <1>j DEF LinkOrDelete, LoadForLink, InsertLink, CommitLink, LoadForUnlink,
       delete_evidence_link, StartDelete, delete_evidence, Refuse, MoveTo, Answer
  <2>2. task[w].phase \notin {"stored", "compensating"}
    BY <1>2 DEF LinkOrDelete, LoadForLink, InsertLink, CommitLink, LoadForUnlink,
       delete_evidence_link, StartDelete, delete_evidence, Refuse, IsAt
  <2>3. \A e \in Owned : e \in Owned' BY <2>1, <2>2, <1>h, <1>H
  <2>4. /\ objects' = objects /\ stray' = stray
        /\ \/ rows' = rows /\ retired' = retired
           \/ \E e : rows' = rows \ {e} /\ retired' = retired \cup {e}
    BY <1>2 DEF LinkOrDelete, LoadForLink, InsertLink, CommitLink, LoadForUnlink,
       delete_evidence_link, StartDelete, delete_evidence, Refuse, blobVars, storeHistoryVars
  <2> QED BY <2>3, <2>4, <1>t
<1>3. ASSUME NEW e \in EvidenceIds, get_evidence(e) PROVE OrphanInv'
  BY <1>3, <1>t, <1>h, <1>H DEF get_evidence, blobVars, linkVars
<1>4. CASE UNCHANGED storeVars
  BY <1>4, <1>t, <1>h, <1>H DEF storeVars, blobVars, linkVars, storeHistoryVars
<1> QED BY <1>1, <1>2, <1>3, <1>4 DEF StoreNext

(***************************************************************************)
(* Every object without a row is in the hands of a running upload, or its  *)
(* row was deleted, or a fault left it behind.                             *)
(***************************************************************************)
THEOREM OrphansAlwaysKnown == StoreSpec => []OrphansAreKnown
<1>1. StoreInit => OrphanInv
  BY PointersInit DEF StoreInit, OrphanInv, PointerInv, OrphansAreKnown
<1>2. OrphanInv => OrphansAreKnown BY DEF OrphanInv
<1> QED BY <1>1, <1>2, OrphansKept, PTL DEF StoreSpec

-----------------------------------------------------------------------------
(***************************************************************************)
(* A link and a deletion of its evidence, in either order: the insert sees *)
(* the deletion, or the deletion waits for the lock and cascades.          *)
(***************************************************************************)
LEMMA LinksKept == LinkInv /\ [StoreNext]_storeVars => LinkInv'
<1> SUFFICES ASSUME LinkInv, [StoreNext]_storeVars PROVE LinkInv'
    OBVIOUS
<1>t. StoreTypeOK /\ StoreTypeOK' BY TypesKept DEF LinkInv
<1>j. task \in [Callers -> StoreJobs] BY <1>t DEF StoreTypeOK
<1> USE DEF LinkInv, NoDanglingLink, IsAt
<1>1. ASSUME NEW w \in Callers, Upload(w) PROVE LinkInv'
  <2>1. /\ rows \subseteq rows' /\ links' = links
        /\ \A v \in Callers : task'[v].phase = "linked" => task'[v] = task[v]
    BY <1>1, <1>j DEF Upload, put_object, PutUnanswered, InsertRow, InsertFails,
       InsertUnanswered, delete_object, CompensationFails, ServerEnds, MoveTo, Answer, NoJob,
       linkVars, storeHistoryVars, blobVars
  <2> QED BY <2>1, <1>t
<1>2. ASSUME NEW w \in Callers, LinkOrDelete(w) PROVE LinkInv'
  <2>o. \A v \in Callers \ {w} : task'[v] = task[v]
    BY <1>2, <1>j DEF LinkOrDelete, LoadForLink, InsertLink, CommitLink, LoadForUnlink,
       delete_evidence_link, StartDelete, delete_evidence, Refuse, MoveTo, Answer
  <2>r. Answer(w) => task'[w].phase = "idle" BY <1>j DEF Answer, NoJob
  <2>1. CASE LoadForLink(w) \/ LoadForUnlink(w) \/ StartDelete(w) \/ Refuse(w)
    <3>1. task'[w].phase # "linked" /\ UNCHANGED <<rows, links>>
      BY <2>1, <2>r, <1>j DEF LoadForLink, LoadForUnlink, StartDelete, Refuse, MoveTo,
         linkVars, blobVars
    <3> QED BY <2>o, <3>1, <1>t
  <2>2. CASE InsertLink(w)
    <3>1. task'[w].ev = task[w].ev BY <2>2, <1>j DEF InsertLink, MoveTo
    <3> QED BY <2>2, <2>o, <3>1, <1>t DEF InsertLink, blobVars
  <2>3. CASE CommitLink(w)
    BY <2>3, <2>o, <2>r, <1>t DEF CommitLink, LinkOf, blobVars
  <2>4. CASE delete_evidence_link(w)
    BY <2>4, <2>o, <2>r, <1>t DEF delete_evidence_link, blobVars
  <2>5. CASE delete_evidence(w)
    BY <2>5, <2>o, <2>r, <1>t DEF delete_evidence, HoldsKey
  <2> QED BY <1>2, <2>1, <2>2, <2>3, <2>4, <2>5 DEF LinkOrDelete
<1>3. ASSUME NEW e \in EvidenceIds, get_evidence(e) PROVE LinkInv'
  BY <1>3, <1>t DEF get_evidence, blobVars, linkVars
<1>4. CASE UNCHANGED storeVars BY <1>4, <1>t DEF storeVars, blobVars, linkVars
<1> QED BY <1>1, <1>2, <1>3, <1>4 DEF StoreNext

(***************************************************************************)
(* No link refers to evidence that is gone.                                *)
(***************************************************************************)
THEOREM LinksNeverDangle == StoreSpec => []NoDanglingLink
<1>1. StoreInit => LinkInv
  BY PointersInit DEF StoreInit, LinkInv, PointerInv, NoDanglingLink, IsAt, NoJob
<1>2. LinkInv => NoDanglingLink BY DEF LinkInv
<1> QED BY <1>1, <1>2, LinksKept, PTL DEF StoreSpec

(***************************************************************************)
(* Every row, history and request keeps its type.                          *)
(***************************************************************************)
THEOREM EvidenceTypes == StoreSpec => []StoreTypeOK
<1>1. StoreInit => StoreTypeOK BY PointersInit DEF PointerInv
<1> QED BY <1>1, TypesKept, PTL DEF StoreSpec
=============================================================================
