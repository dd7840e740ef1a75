--------------------------- MODULE EvidenceStore ---------------------------
(***************************************************************************)
(* The evidence repository: bytes in an object store, pointers in          *)
(* Postgres, links from assessment items.  An upload puts the object with  *)
(* no transaction open, then inserts its row; a failure of the second      *)
(* step is compensated by deleting the object.  Links and deletions are    *)
(* ordinary transactions that meet in the row they lock.  Audit rows are   *)
(* left out; the guards on the item (its lock, its disposition) only       *)
(* reject, which is Refuse.                                                *)
(***************************************************************************)
EXTENDS Naturals

CONSTANTS
    Callers,      \* concurrent requests
    Items,        \* assessment items whose risk is dispositioned
    NoItem,
    MaxEvidence,  \* bound: uploads
    MaxLinks,     \* bound: links ever inserted
    StoreFaults   \* what may go wrong around a request

(***************************************************************************)
(* put_unanswered     the object is stored, the call raises all the same   *)
(* commit_failed      the transaction of the row rolls back                *)
(* commit_unanswered  it commits, the call raises all the same             *)
(* clean_up_failed    the compensating delete raises                       *)
(* crash              the process ends                                     *)
(***************************************************************************)
AllStoreFaults == {"put_unanswered", "commit_failed", "commit_unanswered",
              "clean_up_failed", "crash"}

ASSUME EvidenceAssumption == MaxEvidence \in Nat /\ MaxLinks \in Nat /\ StoreFaults \subseteq AllStoreFaults

VARIABLES
    objects,   \* keys of the bucket, one for each evidence id
    rows,      \* committed evidence rows
    links,     \* committed assessment_item_evidence rows
    used,      \* evidence ids drawn so far
    serial,    \* ids of link rows drawn so far
    issued,    \* ids a presigned URL was handed out for (history)
    retired,   \* ids whose row was deleted (history)
    stray,     \* objects a fault left behind (history)
    unanswered, \* ids whose commit took effect and raised (history)
    task       \* what each caller's request is at

blobVars == <<objects, rows, used>>
linkVars == <<links, serial>>
storeHistoryVars == <<issued, retired, stray, unanswered>>
storeVars == <<blobVars, linkVars, storeHistoryVars, task>>

EvidenceIds == 1 .. MaxEvidence

LinkRows == [item : Items, ev : EvidenceIds, id : 1 .. MaxLinks]

\* The evidence a request is about, and the link row it inserts or has read.
NoJob == [phase |-> "idle", ev |-> 0, item |-> NoItem, id |-> 0]

StoreJobs ==
    {NoJob}
    \cup [phase : {"stored", "compensating", "deleting"}, ev : EvidenceIds,
          item : {NoItem}, id : {0}]
    \cup [phase : {"linking"}, ev : EvidenceIds, item : Items, id : {0}]
    \cup [phase : {"linked", "unlinking"}, ev : EvidenceIds, item : Items,
          id : 1 .. MaxLinks]

StoreTypeOK ==
    /\ objects \subseteq EvidenceIds /\ rows \subseteq EvidenceIds
    /\ links \subseteq LinkRows
    /\ used \in 0 .. MaxEvidence /\ serial \in 0 .. MaxLinks
    /\ issued \subseteq EvidenceIds /\ retired \subseteq EvidenceIds
    /\ stray \subseteq EvidenceIds /\ unanswered \subseteq EvidenceIds
    /\ task \in [Callers -> StoreJobs]

StoreInit ==
    /\ objects = {} /\ rows = {} /\ links = {} /\ used = 0 /\ serial = 0
    /\ issued = {} /\ retired = {} /\ stray = {} /\ unanswered = {}
    /\ task = [w \in Callers |-> NoJob]

IsAt(w, phase) == task[w].phase = phase

MoveTo(w, phase, ev, item, id) ==
    task' = [task EXCEPT ![w] = [phase |-> phase, ev |-> ev, item |-> item, id |-> id]]

\* Bug: what the request held is not let go of.
AnswerHolding(w) == task' = [task EXCEPT ![w].phase = "idle"]

Answer(w) == task' = [task EXCEPT ![w] = NoJob]

-----------------------------------------------------------------------------
(***************************************************************************)
(* upload_evidence.  The role check and the hashing before the put change  *)
(* nothing.  The id is a fresh UUID and the key is made of it.             *)
(***************************************************************************)
put_object(w) ==
    /\ IsAt(w, "idle")
    /\ used < MaxEvidence
    /\ used' = used + 1
    /\ objects' = objects \cup {used + 1}
    /\ MoveTo(w, "stored", used + 1, NoItem, 0)
    /\ UNCHANGED <<rows, linkVars, storeHistoryVars>>

\* The put stands outside the try block: nobody takes its object away.
PutUnanswered(w) ==
    /\ IsAt(w, "idle")
    /\ "put_unanswered" \in StoreFaults
    /\ used < MaxEvidence
    /\ used' = used + 1
    /\ objects' = objects \cup {used + 1}
    /\ stray' = stray \cup {used + 1}
    /\ UNCHANGED <<rows, linkVars, issued, retired, unanswered, task>>

\* The row and its audit row, in a transaction of their own.
InsertRow(w) ==
    /\ IsAt(w, "stored")
    /\ rows' = rows \cup {task[w].ev}
    /\ Answer(w)
    /\ UNCHANGED <<objects, used, linkVars, storeHistoryVars>>

\* Bug: the exception is let through without the compensating delete.
InsertFailsUncompensated(w) ==
    /\ IsAt(w, "stored")
    /\ "commit_failed" \in StoreFaults
    /\ Answer(w)
    /\ UNCHANGED <<blobVars, linkVars, storeHistoryVars>>

InsertFails(w) ==
    /\ IsAt(w, "stored")
    /\ "commit_failed" \in StoreFaults
    /\ MoveTo(w, "compensating", task[w].ev, NoItem, 0)
    /\ UNCHANGED <<blobVars, linkVars, storeHistoryVars>>

InsertUnanswered(w) ==
    /\ IsAt(w, "stored")
    /\ "commit_unanswered" \in StoreFaults
    /\ rows' = rows \cup {task[w].ev}
    /\ unanswered' = unanswered \cup {task[w].ev}
    /\ MoveTo(w, "compensating", task[w].ev, NoItem, 0)
    /\ UNCHANGED <<objects, used, linkVars, issued, retired, stray>>

delete_object(w) ==
    /\ IsAt(w, "compensating")
    /\ objects' = objects \ {task[w].ev}
    /\ Answer(w)
    /\ UNCHANGED <<rows, used, linkVars, storeHistoryVars>>

CompensationFails(w) ==
    /\ IsAt(w, "compensating")
    /\ "clean_up_failed" \in StoreFaults
    /\ stray' = stray \cup {task[w].ev}
    /\ Answer(w)
    /\ UNCHANGED <<blobVars, linkVars, issued, retired, unanswered>>

-----------------------------------------------------------------------------
(***************************************************************************)
(* get_evidence reads the row and signs a URL for its object.              *)
(***************************************************************************)
get_evidence(e) ==
    /\ e \in rows
    /\ issued' = issued \cup {e}
    /\ UNCHANGED <<blobVars, linkVars, retired, stray, unanswered, task>>

(***************************************************************************)
(* create_evidence_link reads the evidence row, then inserts: the foreign  *)
(* key takes a KEY SHARE lock on that row until the commit, and the unique *)
(* index makes a second insert of the same pair wait.                      *)
(***************************************************************************)
LoadForLink(w) ==
    /\ IsAt(w, "idle")
    /\ \E e \in rows, i \in Items : MoveTo(w, "linking", e, i, 0)
    /\ UNCHANGED <<blobVars, linkVars, storeHistoryVars>>

HoldsKey(w, e) == IsAt(w, "linked") /\ task[w].ev = e

\* uq_assessment_item_evidence, committed rows and those of other requests.
PairIsFree(i, e) ==
    /\ \A l \in links : ~(l.item = i /\ l.ev = e)
    /\ \A o \in Callers : ~(HoldsKey(o, e) /\ task[o].item = i)

\* Bug: the insert does not see that the row is gone.
InsertLinkUnchecked(w) ==
    LET j == task[w] IN
    /\ IsAt(w, "linking")
    /\ PairIsFree(j.item, j.ev)
    /\ serial < MaxLinks
    /\ serial' = serial + 1
    /\ MoveTo(w, "linked", j.ev, j.item, serial + 1)
    /\ UNCHANGED <<blobVars, links, storeHistoryVars>>

InsertLink(w) ==
    LET j == task[w] IN
    /\ IsAt(w, "linking")
    /\ j.ev \in rows
    /\ PairIsFree(j.item, j.ev)
    /\ serial < MaxLinks
    /\ serial' = serial + 1
    /\ MoveTo(w, "linked", j.ev, j.item, serial + 1)
    /\ UNCHANGED <<blobVars, links, storeHistoryVars>>

LinkOf(j) == [item |-> j.item, ev |-> j.ev, id |-> j.id]

CommitLink(w) ==
    /\ IsAt(w, "linked")
    /\ links' = links \cup {LinkOf(task[w])}
    /\ Answer(w)
    /\ UNCHANGED <<blobVars, serial, storeHistoryVars>>

(***************************************************************************)
(* delete_evidence_link reads the link and deletes it by its key; a row    *)
(* that is gone by then is no error.                                       *)
(***************************************************************************)
LoadForUnlink(w) ==
    /\ IsAt(w, "idle")
    /\ \E l \in links : MoveTo(w, "unlinking", l.ev, l.item, l.id)
    /\ UNCHANGED <<blobVars, linkVars, storeHistoryVars>>

delete_evidence_link(w) ==
    /\ IsAt(w, "unlinking")
    /\ links' = links \ {LinkOf(task[w])}
    /\ Answer(w)
    /\ UNCHANGED <<blobVars, serial, storeHistoryVars>>

(***************************************************************************)
(* delete_evidence: one DELETE ... WHERE NOT EXISTS (a link).  Its         *)
(* snapshot is taken when the statement starts.  A row that others hold    *)
(* locked is waited for; a row that was locked but not changed is then     *)
(* deleted without looking at the condition again, and the foreign key     *)
(* cascades to every link there is by then.  The object stays.             *)
(***************************************************************************)
Linked(e) == \E l \in links : l.ev = e

StartDelete(w) ==
    /\ IsAt(w, "idle")
    /\ \E e \in rows : ~Linked(e) /\ MoveTo(w, "deleting", e, NoItem, 0)
    /\ UNCHANGED <<blobVars, linkVars, storeHistoryVars>>

\* Bug: the bytes go with the row, as if no URL were out.
DeleteWithObject(w) ==
    LET e == task[w].ev IN
    /\ IsAt(w, "deleting")
    /\ e \in rows
    /\ \A o \in Callers : ~HoldsKey(o, e)
    /\ rows' = rows \ {e}
    /\ links' = {l \in links : l.ev # e}
    /\ retired' = retired \cup {e}
    /\ objects' = objects \ {e}
    /\ Answer(w)
    /\ UNCHANGED <<used, serial, issued, stray, unanswered>>

delete_evidence(w) ==
    LET e == task[w].ev IN
    /\ IsAt(w, "deleting")
    /\ e \in rows
    /\ \A o \in Callers : ~HoldsKey(o, e)
    /\ rows' = rows \ {e}
    /\ links' = {l \in links : l.ev # e}
    /\ retired' = retired \cup {e}
    /\ Answer(w)
    /\ UNCHANGED <<objects, used, serial, issued, stray, unanswered>>

-----------------------------------------------------------------------------
\* A check fails or the transaction rolls back; nothing is outside it.
Refuse(w) ==
    /\ task[w].phase \in {"linking", "linked", "unlinking", "deleting"}
    /\ Answer(w)
    /\ UNCHANGED <<blobVars, linkVars, storeHistoryVars>>

\* The process ends between the put and the row, or before the clean-up.
ServerEnds(w) ==
    /\ "crash" \in StoreFaults
    /\ task[w].phase \in {"stored", "compensating"}
    /\ stray' = stray \cup {task[w].ev}
    /\ Answer(w)
    /\ UNCHANGED <<blobVars, linkVars, issued, retired, unanswered>>

Upload(w) ==
    \/ put_object(w) \/ PutUnanswered(w)
    \/ InsertRow(w) \/ InsertFails(w) \/ InsertUnanswered(w)
    \/ delete_object(w) \/ CompensationFails(w) \/ ServerEnds(w)

LinkOrDelete(w) ==
    \/ LoadForLink(w) \/ InsertLink(w) \/ CommitLink(w)
    \/ LoadForUnlink(w) \/ delete_evidence_link(w)
    \/ StartDelete(w) \/ delete_evidence(w)
    \/ Refuse(w)

StoreNext ==
    \/ \E w \in Callers : Upload(w) \/ LinkOrDelete(w)
    \/ \E e \in EvidenceIds : get_evidence(e)

StoreSpec == StoreInit /\ [][StoreNext]_storeVars

-----------------------------------------------------------------------------
(***************************************************************************)
(* Properties.                                                             *)
(***************************************************************************)

(***************************************************************************)
(* A row points at an object, and so does every URL handed out, even when  *)
(* the row is deleted later: no compensation takes away an object that     *)
(* another request could have seen, unless the commit of its row was       *)
(* reported as failed and was not.                                         *)
(***************************************************************************)
PointersResolve == (rows \cup issued) \ unanswered \subseteq objects

(***************************************************************************)
(* Every object without a row is in the hands of a request that will       *)
(* insert the row or remove the object, or its row was deleted, or a fault *)
(* left it behind: the choreography itself loses nothing.                  *)
(***************************************************************************)
Owned == {task[w].ev : w \in {o \in Callers : task[o].phase \in {"stored", "compensating"}}}

OrphansAreKnown == objects \ rows \subseteq Owned \cup retired \cup stray

(***************************************************************************)
(* No link refers to evidence that is gone, whichever of a link and a      *)
(* deletion that overlap comes first.                                      *)
(***************************************************************************)
NoDanglingLink == \A l \in links : l.ev \in rows

(***************************************************************************)
(* What delete_evidence's docstring says of a concurrent link insert: the  *)
(* deletion strips no link, links go only through delete_evidence_link.    *)
(***************************************************************************)
DeleteStripsNoLink ==
    [][\A l \in links : l \notin links' =>
          \E w \in Callers : IsAt(w, "unlinking") /\ LinkOf(task[w]) = l]_storeVars
=============================================================================
