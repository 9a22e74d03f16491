------------------------------ MODULE Library ------------------------------
(***************************************************************************)
(* The library of one account: rows of library_items in D1 and the XTC     *)
(* objects they name in R2.  saveJobToLibrary and deleteLibrary of         *)
(* src/src/library/service.ts, and deleteAccountCompletely of              *)
(* src/src/auth/account-deletion.ts, one D1 statement or R2 call per       *)
(* action.  The two stores share no transaction: every order of the        *)
(* statements of concurrent requests is possible, an R2 delete may fail,   *)
(* and a request may stop between any two statements.                      *)
(*                                                                         *)
(* Data: a save draws a fresh item id, so items are named by the save      *)
(* request that would create them; the R2 key is derived from the id.      *)
(***************************************************************************)
EXTENDS Integers, FiniteSetsExt

CONSTANTS
  Item,            \* save requests, and the item ids they draw
  NoItem,
  Job,             \* conversion jobs
  JobOf,           \* JobOf[s]: the job that save s names
  Size,            \* Size[j]: bytes of the output of job j
  Deleter,         \* delete requests
  MaxItems,        \* MAX_LIBRARY_ITEMS_PER_ACCOUNT
  MaxBytes,        \* MAX_LIBRARY_BYTES_PER_ACCOUNT
  InsertFails,     \* D1 may refuse an INSERT that breaks no constraint
  LostInsert       \* D1 may report an error for an INSERT that it committed

ASSUME NoItemAssumption == NoItem \notin Item
ASSUME JobAssumption == JobOf \in [Item -> Job] /\ Size \in [Job -> Nat]
ASSUME BoundAssumption == MaxItems \in Nat /\ MaxBytes \in Nat
ASSUME FailureAssumption == InsertFails \in BOOLEAN /\ LostInsert \in BOOLEAN

VARIABLES
  account,   \* the accounts row: "exists" or "gone"
  row,       \* row[s]: "none", "live" or "soft" (deleted_at set)
  object,    \* R2 objects under library/
  orphans,   \* keys recorded in orphaned_r2_objects
  pc,        \* next statement of a save
  answer,    \* the item a save was answered with
  dpc,       \* next statement of a delete request
  target,    \* the item it deletes
  apc,       \* next statement of the account deletion
  doomed,    \* R2 keys it has still to delete
  inserted,  \* history: items that had a row
  touched,   \* history: items that a delete request or the account deletion
             \* has marked deleted
  crowded,   \* history: a save passed the item quota between another's two checks
             \* and its insert
  listed     \* history: the live items when the account deletion last began

stores   == <<account, row, object, orphans>>
saves    == <<pc, answer>>
deletes  == <<dpc, target>>
closing  == <<apc, doomed>>
history  == <<inserted, touched, crowded, listed>>
vars     == <<stores, saves, deletes, closing, history>>

SaveLabels == {"idle", "find", "count", "copy", "sum", "discard", "insert",
               "undo", "findAgain", "read", "done", "refused", "error",
               "stopped"}
DeleteLabels == {"idle", "softDelete", "deleteObject", "hardDelete", "done",
                 "stopped"}
CloseLabels == {"idle", "objects", "stopped", "done"}

Live == {s \in Item : row[s] = "live"}
LiveOf(j) == {s \in Live : JobOf[s] = j}

\* SUM(size_bytes) over the live rows.
Bytes == MapThenSumSet(LAMBDA s : Size[JobOf[s]], Live)

TypeOK ==
  /\ account \in {"exists", "gone"}
  /\ row \in [Item -> {"none", "live", "soft"}]
  /\ object \in SUBSET Item
  /\ orphans \in SUBSET Item
  /\ pc \in [Item -> SaveLabels]
  /\ answer \in [Item -> Item \union {NoItem}]
  /\ dpc \in [Deleter -> DeleteLabels]
  /\ target \in [Deleter -> Item \union {NoItem}]
  /\ apc \in CloseLabels
  /\ doomed \in SUBSET Item
  /\ inserted \in SUBSET Item
  /\ touched \in SUBSET Item
  /\ crowded \in BOOLEAN
  /\ listed \in SUBSET Item

Init ==
  /\ account = "exists"
  /\ row = [s \in Item |-> "none"]
  /\ object = {} /\ orphans = {}
  /\ pc = [s \in Item |-> "idle"]
  /\ answer = [s \in Item |-> NoItem]
  /\ dpc = [d \in Deleter |-> "idle"]
  /\ target = [d \in Deleter |-> NoItem]
  /\ apc = "idle" /\ doomed = {}
  /\ inserted = {} /\ touched = {}
  /\ crowded = FALSE /\ listed = {}

-----------------------------------------------------------------------------
(* POST /api/library/items/from-job: saveJobToLibrary.                     *)

GoTo(s, l) == pc' = [pc EXCEPT ![s] = l]
AnswerWith(s, k) == GoTo(s, "done") /\ answer' = [answer EXCEPT ![s] = k]

\* requireAccount: the session row went with the account.
StartSave(s) ==
  /\ pc[s] = "idle" /\ account = "exists"
  /\ GoTo(s, "find")
  /\ UNCHANGED <<stores, answer, deletes, closing, history>>

\* Mutant: the query forgets the job id.
FindAny(s) ==
  /\ pc[s] = "find"
  /\ \/ \E k \in Live : AnswerWith(s, k)
     \/ Live = {} /\ GoTo(s, "count") /\ UNCHANGED answer
  /\ UNCHANGED <<stores, deletes, closing, history>>

\* A job that was already saved is answered with its item.
Find(s) ==
  /\ pc[s] = "find"
  /\ \/ \E k \in LiveOf(JobOf[s]) : AnswerWith(s, k)
     \/ LiveOf(JobOf[s]) = {} /\ GoTo(s, "count") /\ UNCHANGED answer
  /\ UNCHANGED <<stores, deletes, closing, history>>

\* Saves that have counted the items and may still insert one.
Counted == {s \in Item : pc[s] \in {"copy", "sum", "insert"}}

Count(s) ==
  /\ pc[s] = "count"
  /\ \/ /\ Cardinality(Live) >= MaxItems
        /\ GoTo(s, "refused")
        /\ UNCHANGED crowded
     \/ /\ Cardinality(Live) < MaxItems
        /\ GoTo(s, "copy")
        /\ crowded' = (crowded \/ Counted # {})
  /\ UNCHANGED <<stores, answer, deletes, closing, inserted, touched, listed>>

\* The output of the job may be missing.
Copy(s) ==
  /\ pc[s] = "copy"
  /\ \/ object' = object \union {s} /\ GoTo(s, "sum")
     \/ GoTo(s, "refused") /\ UNCHANGED object
  /\ UNCHANGED <<account, row, orphans, answer, deletes, closing, history>>

\* Mutant: the bytes of the new item are not added.
SumWithoutNew(s) ==
  /\ pc[s] = "sum"
  /\ GoTo(s, IF Bytes > MaxBytes THEN "discard" ELSE "insert")
  /\ UNCHANGED <<stores, answer, deletes, closing, history>>

Sum(s) ==
  /\ pc[s] = "sum"
  /\ GoTo(s, IF Bytes + Size[JobOf[s]] > MaxBytes THEN "discard" ELSE "insert")
  /\ UNCHANGED <<stores, answer, deletes, closing, history>>

\* deleteLibraryStorageBestEffort: a failure is swallowed.
DropObject(s) == object' = object \ {s} \/ UNCHANGED object

Discard(s) ==
  /\ pc[s] = "discard"
  /\ DropObject(s)
  /\ GoTo(s, "refused")
  /\ UNCHANGED <<account, row, orphans, answer, deletes, closing, history>>

\* Foreign key on accounts, unique index on (account_id, source_job_id).
MayInsert(s) == account = "exists" /\ LiveOf(JobOf[s]) = {}

Store(s) ==
  /\ MayInsert(s)
  /\ row' = [row EXCEPT ![s] = "live"]
  /\ inserted' = inserted \union {s}

Insert(s) ==
  /\ pc[s] = "insert"
  /\ \/ Store(s) /\ GoTo(s, "read")
     \/ LostInsert /\ Store(s) /\ GoTo(s, "undo")
     \/ /\ ~ MayInsert(s) \/ InsertFails
        /\ GoTo(s, "undo")
        /\ UNCHANGED <<row, inserted>>
  /\ UNCHANGED <<account, object, orphans, answer, deletes, closing, touched,
                 crowded, listed>>

Undo(s) ==
  /\ pc[s] = "undo"
  /\ DropObject(s)
  /\ GoTo(s, "findAgain")
  /\ UNCHANGED <<account, row, orphans, answer, deletes, closing, history>>

\* Mutant: a failed insert is an error, without looking for the winner's item.
FindNoWinner(s) ==
  /\ pc[s] = "findAgain"
  /\ GoTo(s, "error")
  /\ UNCHANGED <<stores, answer, deletes, closing, history>>

\* The save that won the race, if that is why the insert failed.
FindAgain(s) ==
  /\ pc[s] = "findAgain"
  /\ \/ \E k \in LiveOf(JobOf[s]) : AnswerWith(s, k)
     \/ LiveOf(JobOf[s]) = {} /\ GoTo(s, "error") /\ UNCHANGED answer
  /\ UNCHANGED <<stores, deletes, closing, history>>

Read(s) ==
  /\ pc[s] = "read"
  /\ IF row[s] = "live"
     THEN AnswerWith(s, s)
     ELSE GoTo(s, "error") /\ UNCHANGED answer
  /\ UNCHANGED <<stores, deletes, closing, history>>

StopSave(s) ==
  /\ pc[s] \notin {"idle", "done", "refused", "error", "stopped"}
  /\ GoTo(s, "stopped")
  /\ UNCHANGED <<stores, answer, deletes, closing, history>>

-----------------------------------------------------------------------------
(* DELETE /api/library/items/:itemId: deleteLibrary.  Its two statements   *)
(* on the device lists are in DeviceLibrary.                               *)

Then(d, l) == dpc' = [dpc EXCEPT ![d] = l]

StartDelete(d, s) ==
  /\ dpc[d] = "idle"
  /\ row[s] = "live"
  /\ target' = [target EXCEPT ![d] = s]
  /\ Then(d, "softDelete")
  /\ UNCHANGED <<stores, saves, closing, history>>

\* Mutant: the object goes while the item is still listed.
DeleteObjectFirst(d) ==
  /\ dpc[d] = "softDelete"
  /\ object' = object \ {target[d]}
  /\ Then(d, "deleteObject")
  /\ UNCHANGED <<account, row, orphans, saves, target, closing, history>>

SoftDelete(d) ==
  /\ dpc[d] = "softDelete"
  /\ IF row[target[d]] = "live"
     THEN /\ row' = [row EXCEPT ![target[d]] = "soft"]
          /\ touched' = touched \union {target[d]}
          /\ Then(d, "deleteObject")
     ELSE Then(d, "done") /\ UNCHANGED <<row, touched>>
  /\ UNCHANGED <<account, object, orphans, saves, target, closing, inserted,
                 crowded, listed>>

\* A failed R2 delete is logged and leaves the soft-deleted row.
DeleteObject(d) ==
  /\ dpc[d] = "deleteObject"
  /\ \/ object' = object \ {target[d]} /\ Then(d, "hardDelete")
     \/ Then(d, "done") /\ UNCHANGED object
  /\ UNCHANGED <<account, row, orphans, saves, target, closing, history>>

HardDelete(d) ==
  /\ dpc[d] = "hardDelete"
  /\ row' = [row EXCEPT ![target[d]] = "none"]
  /\ Then(d, "done")
  /\ UNCHANGED <<account, object, orphans, saves, target, closing, history>>

StopDelete(d) ==
  /\ dpc[d] \notin {"idle", "done", "stopped"}
  /\ Then(d, "stopped")
  /\ UNCHANGED <<stores, saves, target, closing, history>>

-----------------------------------------------------------------------------
(* DELETE /api/me/account: deleteAccountCompletely.                        *)

\* The live items at this moment; the devices are revoked (Pairing).
StartClosing ==
  /\ apc \in {"idle", "stopped"}
  /\ doomed' = Live
  /\ listed' = Live
  /\ apc' = "objects"
  /\ UNCHANGED <<stores, saves, deletes, inserted, touched, crowded>>

\* Mutant: a key that R2 does not delete is only logged.
CloseObjectForgets(s) ==
  /\ apc = "objects" /\ s \in doomed
  /\ doomed' = doomed \ {s}
  /\ DropObject(s)
  /\ UNCHANGED <<account, row, orphans, apc, saves, deletes, history>>

\* A key that R2 does not delete is recorded, unless that fails as well.
CloseObject(s) ==
  /\ apc = "objects" /\ s \in doomed
  /\ doomed' = doomed \ {s}
  /\ \/ object' = object \ {s} /\ UNCHANGED orphans
     \/ orphans' = orphans \union {s} /\ UNCHANGED object
     \/ InsertFails /\ UNCHANGED <<object, orphans>>
  /\ UNCHANGED <<account, row, apc, saves, deletes, history>>

\* deleteAccountById: every row of the account cascades.
CloseAccount ==
  /\ apc = "objects" /\ doomed = {}
  /\ account' = "gone"
  /\ row' = [s \in Item |-> "none"]
  /\ touched' = touched \union inserted
  /\ apc' = "done"
  /\ UNCHANGED <<object, orphans, saves, deletes, doomed, inserted, crowded,
                 listed>>

\* The request stops; the account stays and may be deleted later.
StopClosing ==
  /\ apc = "objects"
  /\ apc' = "stopped" /\ doomed' = {}
  /\ UNCHANGED <<stores, saves, deletes, history>>

SaveStep(s) ==
  \/ StartSave(s) \/ Find(s) \/ Count(s) \/ Copy(s) \/ Sum(s) \/ Discard(s)
  \/ Insert(s) \/ Undo(s) \/ FindAgain(s) \/ Read(s)
DeleteStep(d) ==
  SoftDelete(d) \/ DeleteObject(d) \/ HardDelete(d)
Close == StartClosing \/ (\E s \in Item : CloseObject(s)) \/ CloseAccount
         \/ StopClosing

Next ==
  \/ \E s \in Item : SaveStep(s) \/ StopSave(s)
  \/ \E d \in Deleter :
       DeleteStep(d) \/ StopDelete(d) \/ \E s \in Item : StartDelete(d, s)
  \/ Close

Spec == Init /\ [][Next]_vars

-----------------------------------------------------------------------------
(* Safety.                                                                 *)

\* No deletion of the account has begun to take objects away.
Kept == apc = "idle"

\* A listed item can be downloaded: saveJobToLibrary writes the object before
\* the row and takes it back only if there is no row; deleteLibrary hides the
\* row before it touches the object.
LiveRowHasObject == Kept => Live \subseteq object

\* An object of an item that ever had a row still has one: deleteLibrary removes
\* the row only after the object, so a failed or interrupted deletion leaves a
\* record of the object.
DeletionKeepsRecord == Kept => \A s \in object \intersect inserted : row[s] # "none"

\* Concurrent saves of a job end with one item (idx_library_items_account_job).
OneItemPerJob ==
  \A s, t \in Live : JobOf[s] = JobOf[t] => s = t

\* The item that a save was answered with is one of that job, and stays listed
\* until a request deletes it, whoever won the race to insert it.
AnsweredItemStands ==
  \A s \in Item : answer[s] # NoItem =>
    /\ JobOf[answer[s]] = JobOf[s]
    /\ row[answer[s]] = "live" \/ answer[s] \in touched

\* A save that loses the race for the insert is answered with the winner's item;
\* it ends in an error only if an item of this job was deleted meanwhile or the
\* account is gone (saveJobToLibrary, raced).
FailedSaveHasCause ==
  ~ InsertFails =>
    \A s \in Item : pc[s] = "error" =>
      account = "gone" \/ \E k \in touched : JobOf[k] = JobOf[s]

\* The quotas, checked before the copy and before the insert, are exceeded only
\* by saves that ran between each other's checks and inserts.
ItemQuota == ~ crowded => Cardinality(Live) <= MaxItems
ByteQuota == ~ crowded => Bytes <= MaxBytes
QuotaUnlessCrowded == ItemQuota /\ ByteQuota

\* An object whose item had a row and has none, and which no record of orphans
\* names, is one the account deletion did not see: its item was not live when the
\* deletion began (deleteAccountCompletely reads the live items once).
UnrecordedObjectHasCause ==
  ~ InsertFails =>
    \A s \in object \intersect inserted :
      row[s] # "none" \/ s \in orphans \/ s \in doomed
        \/ (account = "gone" /\ s \notin listed)
=============================================================================
