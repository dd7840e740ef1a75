----------------------- MODULE ClassificationRecords -----------------------
(***************************************************************************)
(* The classification snapshots of one use case and its denormalised       *)
(* eu_tier, written by concurrent requests: overrides                      *)
(* (classification.snapshot_classification), computations from answers     *)
(* (context_classification.compute_and_record_classification) and reviewer *)
(* sign-offs (sign_off_classification).                                    *)
(*                                                                         *)
(* The requests run at READ COMMITTED.  UPDATE ... WHERE is_current finds  *)
(* the rows that are current when it starts, waits for whoever has locked  *)
(* one of them and then skips those that are current no more; the row the  *)
(* other has inserted is not in its view.  The partial unique index        *)
(* uq_current_classification refuses the second current row.  The ORM      *)
(* writes use_case.eu_tier only if it differs from what the request read.  *)
(***************************************************************************)
EXTENDS ClassificationRules

CONSTANTS
    Writers,        \* concurrent requests
    MaxSnapshots    \* bound: snapshots of the use case

VARIABLES
    snapshots,      \* the rows, by version; never rewritten but for the status
    current,        \* the versions with is_current
    eu_tier,        \* use_case.eu_tier
    transaction,    \* what each request has read and locked
    outdated        \* history: the last stamp was decided on superseded data

recordsVars == <<snapshots, current, eu_tier, transaction, outdated>>

Tiers == StorableTiers \cup {"REQUIRES_CONTEXT", "UNCLASSIFIED"}
Versions == 1 .. MaxSnapshots

\* stamped: the row was written together with eu_tier.
Snapshots == [tier : Tiers, status : {"PENDING_REVIEW", "APPROVED"}, stamped : BOOLEAN]

ASSUME ClassificationRecordsAssumption == MaxSnapshots \in Nat \ {0}

\* loaded: has read the use case (and a sign-off its snapshot); updating: in
\* the UPDATE that unsets the current row; holding: has that row's lock.
Idle == [phase |-> "idle", op |-> "none", tier |-> "UNCLASSIFIED",
         read |-> "UNCLASSIFIED", aim |-> {}]

Transactions ==
    [phase : {"idle", "loaded", "updating", "holding"},
     op : {"none", "override", "compute", "sign_off"}, tier : Tiers, read : Tiers,
     aim : SUBSET Versions]

SnapshotOf(s) == [tier |-> s.tier, status |-> s.status, stamped |-> s.stamped]

FirstSnapshots ==
    {SnapshotOf(register_snapshot(inq)) : inq \in Inquiries}
    \cup {SnapshotOf(register_use_case_snapshot(inq)) : inq \in Inquiries}

ComputedTiers == UNION {stored_tiers(answers) : answers \in AnswerLists}

RecordsInit ==
    \E s \in FirstSnapshots :
        /\ snapshots = <<s>>
        /\ current = {1}
        /\ eu_tier = IF s.stamped THEN s.tier ELSE "UNCLASSIFIED"
        /\ transaction = [w \in Writers |-> Idle]
        /\ outdated = FALSE

-----------------------------------------------------------------------------
LoadFor(w, op, tier, aim) ==
    /\ transaction[w] = Idle
    /\ transaction' = [transaction EXCEPT ![w] =
          [phase |-> "loaded", op |-> op, tier |-> tier, read |-> eu_tier, aim |-> aim]]
    /\ UNCHANGED <<snapshots, current, eu_tier, outdated>>

\* The tier of an override is that of an existing subcategory.
LoadOverride(w) ==
    /\ Len(snapshots) < MaxSnapshots
    /\ \E c \in Subcategories : LoadFor(w, "override", TierOf[c], {})

LoadCompute(w) ==
    /\ Len(snapshots) < MaxSnapshots
    /\ \E t \in ComputedTiers : LoadFor(w, "compute", t, {})

LoadSignOff(w) ==
    \E v \in current :
        /\ snapshots[v].status = "PENDING_REVIEW"
        /\ LoadFor(w, "sign_off", snapshots[v].tier, {v})

\* The UPDATE takes its view of the current rows.
Aim(w) ==
    /\ transaction[w].phase = "loaded" /\ transaction[w].op # "sign_off"
    /\ transaction' = [transaction EXCEPT ![w].phase = "updating", ![w].aim = current]
    /\ UNCHANGED <<snapshots, current, eu_tier, outdated>>

Unlocked(w, versions) ==
    \A o \in Writers \ {w} :
        transaction[o].phase = "holding" => transaction[o].aim \cap versions = {}

\* It gets the row locks and looks at the rows again.
Unset(w) ==
    LET t == transaction[w] IN
    /\ t.phase = "updating" /\ Unlocked(w, t.aim)
    /\ transaction' = [transaction EXCEPT ![w].phase = "holding", ![w].aim = t.aim \cap current]
    /\ UNCHANGED <<snapshots, current, eu_tier, outdated>>

-----------------------------------------------------------------------------
Stamp(t) == eu_tier' = IF t.tier = t.read THEN eu_tier ELSE t.tier

StampIsLost(t) == t.tier = t.read /\ t.tier # eu_tier

NextVersion == Len(snapshots) + 1

\* Bug: no unique index on the current row.
NoIndex(aim) == aim \subseteq DOMAIN snapshots

\* uq_current_classification
NoOtherCurrent(aim) == current \subseteq aim

\* snapshot_classification as override_classification calls it
CommitOverride(w) ==
    LET t == transaction[w] IN
    /\ t.phase = "holding" /\ t.op = "override"
    /\ NextVersion <= MaxSnapshots
    /\ NoOtherCurrent(t.aim)
    /\ snapshots' = Append(snapshots,
          [tier |-> t.tier, status |-> "PENDING_REVIEW", stamped |-> TRUE])
    /\ current' = (current \ t.aim) \cup {NextVersion}
    /\ Stamp(t)
    /\ outdated' = StampIsLost(t)
    /\ transaction' = [transaction EXCEPT ![w] = Idle]

\* Bug: the computed tier takes effect before its review.
ComputeStamping(w) ==
    LET t == transaction[w] IN
    /\ t.phase = "holding" /\ t.op = "compute"
    /\ NextVersion <= MaxSnapshots
    /\ NoOtherCurrent(t.aim)
    /\ snapshots' = Append(snapshots,
          [tier |-> t.tier, status |-> "PENDING_REVIEW", stamped |-> FALSE])
    /\ current' = (current \ t.aim) \cup {NextVersion}
    /\ Stamp(t)
    /\ transaction' = [transaction EXCEPT ![w] = Idle]
    /\ UNCHANGED outdated

\* compute_and_record_classification leaves eu_tier to the sign-off
CommitCompute(w) ==
    LET t == transaction[w] IN
    /\ t.phase = "holding" /\ t.op = "compute"
    /\ NextVersion <= MaxSnapshots
    /\ NoOtherCurrent(t.aim)
    /\ snapshots' = Append(snapshots,
          [tier |-> t.tier, status |-> "PENDING_REVIEW", stamped |-> FALSE])
    /\ current' = (current \ t.aim) \cup {NextVersion}
    /\ transaction' = [transaction EXCEPT ![w] = Idle]
    /\ UNCHANGED <<eu_tier, outdated>>

\* The UPDATEs of sign_off_classification are by primary key.
CommitSignOff(w) ==
    LET t == transaction[w] IN
    /\ t.phase = "loaded" /\ t.op = "sign_off" /\ Unlocked(w, t.aim)
    /\ snapshots' = [v \in DOMAIN snapshots |->
          IF v \in t.aim THEN [snapshots[v] EXCEPT !.status = "APPROVED"]
          ELSE snapshots[v]]
    /\ Stamp(t)
    /\ outdated' = (StampIsLost(t) \/ ~(t.aim \subseteq current))
    /\ transaction' = [transaction EXCEPT ![w] = Idle]
    /\ UNCHANGED current

\* An IntegrityError, a deadlock, advance_use_case's 409, a crash.
RollBack(w) ==
    /\ transaction[w] # Idle
    /\ transaction' = [transaction EXCEPT ![w] = Idle]
    /\ UNCHANGED <<snapshots, current, eu_tier, outdated>>

RecordsNext ==
    \E w \in Writers :
        \/ LoadOverride(w) \/ LoadCompute(w) \/ LoadSignOff(w)
        \/ Aim(w) \/ Unset(w)
        \/ CommitOverride(w) \/ CommitCompute(w) \/ CommitSignOff(w)
        \/ RollBack(w)

RecordsSpec == RecordsInit /\ [][RecordsNext]_recordsVars

-----------------------------------------------------------------------------
(***************************************************************************)
(* Rows, requests and the effective tier have their types.                 *)
(***************************************************************************)
RecordsTypeOK ==
    /\ snapshots \in Seq(Snapshots) /\ Len(snapshots) \in Versions
    /\ current \subseteq Versions
    /\ eu_tier \in Tiers
    /\ transaction \in [Writers -> Transactions]
    /\ outdated \in BOOLEAN

(***************************************************************************)
(* Whatever the requests do to each other, the use case has exactly one    *)
(* current snapshot, and it is the newest: a writer that lost the race for *)
(* the row does not leave two current rows, nor an older one, nor none     *)
(* (snapshot_classification; the index uq_current_classification).         *)
(***************************************************************************)
OneCurrent == current = {Len(snapshots)}

(***************************************************************************)
(* The effective tier of the use case is one somebody ratified: a snapshot *)
(* stamped with it when it was written or a reviewer approved it, never    *)
(* the tier of a down-selection or of a computation still under review.    *)
(* It is the newest of those, unless the request that stamped it last had  *)
(* been overtaken: its sign-off approved a superseded snapshot, or the ORM *)
(* skipped the stamp because the tier it had read was the one to write.    *)
(***************************************************************************)
Ratified(v) == snapshots[v].stamped \/ snapshots[v].status = "APPROVED"

NewestRatified(v) ==
    /\ Ratified(v)
    /\ \A n \in DOMAIN snapshots : n > v => ~Ratified(n)

EffectiveTierIsRatified ==
    /\ \/ eu_tier = "UNCLASSIFIED" /\ \A v \in DOMAIN snapshots : ~Ratified(v)
       \/ \E v \in DOMAIN snapshots : Ratified(v) /\ eu_tier = snapshots[v].tier
    /\ ~outdated =>
          \A v \in DOMAIN snapshots : NewestRatified(v) => eu_tier = snapshots[v].tier

=============================================================================
