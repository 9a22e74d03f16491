--------------------------- MODULE LibraryProofs ---------------------------
(***************************************************************************)
(* Theorems about Library, for any number of jobs, saves and delete        *)
(* requests.                                                               *)
(*                                                                         *)
(* What is inductive: history records every row and every deletion         *)
(* (Recorded); a save has no row before its insert, and its object is      *)
(* there to be named (Saving); a delete request past its soft delete works *)
(* on a row that is no longer live, and removes the row only without an    *)
(* object (Deleting); a save whose insert was refused has seen a row of    *)
(* its job (Raced).  An object without a row but with a past belongs to an *)
(* account that is gone, and not to an item its deletion listed (Closing). *)
(* As long as no two saves are between count and insert, the one that is   *)
(* there still has room (Room), also for its bytes once they are added up  *)
(* (Afford).                                                               *)
(***************************************************************************)
EXTENDS Library, FiniteSetTheorems, TLAPS

Recorded ==
  /\ \A s \in Item : row[s] # "none" => s \in inserted
  /\ \A s \in inserted : row[s] = "live" \/ s \in touched
  /\ touched \subseteq inserted

SavingItem(s) ==
  /\ pc[s] \in {"idle", "find", "count", "copy", "sum", "discard", "insert"}
       => s \notin inserted
  /\ pc[s] \in {"sum", "insert"} /\ Kept => s \in object
  /\ pc[s] = "undo" /\ ~ LostInsert => s \notin inserted
  /\ pc[s] = "read" => s \in inserted

Saving == \A s \in Item : SavingItem(s)

DeletingItem(d) ==
  /\ dpc[d] \in {"softDelete", "deleteObject", "hardDelete"} => target[d] \in Item
  /\ dpc[d] \in {"deleteObject", "hardDelete"} =>
       target[d] \in touched /\ row[target[d]] # "live"
  /\ dpc[d] = "hardDelete" => target[d] \notin object

Deleting == \A d \in Deleter : DeletingItem(d)

RacedItem(s) ==
  pc[s] \in {"undo", "findAgain"} /\ ~ InsertFails =>
    account = "gone" \/ \E k \in inserted : JobOf[k] = JobOf[s]

Raced == \A s \in Item : RacedItem(s)

Downloadable == ~ LostInsert => LiveRowHasObject

ClosingDone == InsertFails \/ \A s \in listed : s \in orphans \/ s \notin object

Closing ==
  /\ listed \subseteq inserted
  /\ account = "gone" => apc = "done"
  /\ account # "gone" => \A s \in object \intersect inserted : row[s] # "none"
  /\ apc = "objects" =>
       InsertFails \/ \A s \in listed : s \in doomed \/ s \in orphans \/ s \notin object
  /\ apc = "done" => ClosingDone

Room ==
  /\ IsFiniteSet(Live)
  /\ ~ crowded =>
       /\ \A s, t \in Counted : s = t
       /\ Cardinality(Live) <= MaxItems
       /\ Counted # {} => Cardinality(Live) < MaxItems

IInv ==
  /\ TypeOK /\ Recorded /\ Saving /\ Deleting /\ Raced
  /\ Downloadable /\ DeletionKeepsRecord /\ OneItemPerJob
  /\ AnsweredItemStands /\ FailedSaveHasCause /\ Closing /\ Room

-----------------------------------------------------------------------------
LEMMA InitIInv == Init => IInv
<1> SUFFICES ASSUME Init
             PROVE  IInv
  OBVIOUS
<1>1. TypeOK
  BY DEF Init, TypeOK, SaveLabels, DeleteLabels, CloseLabels
<1>2. Recorded /\ Saving /\ Deleting /\ Raced
  BY DEF Init, Recorded, Saving, SavingItem, Deleting, DeletingItem, Raced,
     RacedItem
<1>3. /\ Downloadable /\ DeletionKeepsRecord /\ OneItemPerJob
      /\ AnsweredItemStands /\ FailedSaveHasCause
  BY DEF Init, Downloadable, LiveRowHasObject, Live, DeletionKeepsRecord,
     OneItemPerJob, AnsweredItemStands, FailedSaveHasCause
<1>4. Closing
  BY DEF Init, Closing
<1>5. Room
  <2>1. Live = {} /\ Counted = {}
    BY DEF Init, Live, Counted
  <2> QED
    BY <2>1, FS_EmptySet, BoundAssumption DEF Room
<1> QED
  BY <1>1, <1>2, <1>3, <1>4, <1>5 DEF IInv

\* Only the actor's program counters move.
LEMMA StepTypes ==
  ASSUME TypeOK, Deleting, [Next]_vars
  PROVE  TypeOK'
<1> USE DEF TypeOK, SaveLabels, DeleteLabels, CloseLabels, stores, saves,
        deletes, closing, history
<1>1. ASSUME NEW s \in Item, StartSave(s) \/ Find(s) \/ Copy(s)
      PROVE  TypeOK'
  BY <1>1 DEF StartSave, Find, Copy, GoTo, AnswerWith, LiveOf, Live
<1>0. ASSUME NEW s \in Item, Count(s)
      PROVE  TypeOK'
  <2>1. crowded' \in BOOLEAN
    BY <1>0 DEF Count
  <2>2. CASE GoTo(s, "refused")
    BY <1>0, <2>1, <2>2 DEF Count, GoTo
  <2>3. CASE GoTo(s, "copy")
    BY <1>0, <2>1, <2>3 DEF Count, GoTo
  <2> QED
    BY <1>0, <2>2, <2>3 DEF Count
<1>2. ASSUME NEW s \in Item, Sum(s) \/ Discard(s) \/ Insert(s) \/ Undo(s)
      PROVE  TypeOK'
  BY <1>2 DEF Sum, Discard, Insert, Store, Undo, DropObject, GoTo
<1>3. ASSUME NEW s \in Item, FindAgain(s) \/ Read(s) \/ StopSave(s)
      PROVE  TypeOK'
  BY <1>3 DEF FindAgain, Read, StopSave, GoTo, AnswerWith, LiveOf, Live
<1>4. ASSUME NEW d \in Deleter,
             DeleteStep(d) \/ StopDelete(d) \/ \E s \in Item : StartDelete(d, s)
      PROVE  TypeOK'
  BY <1>4 DEF DeleteStep, SoftDelete, DeleteObject, HardDelete, StopDelete,
     StartDelete, Then, Deleting, DeletingItem
<1>5. CASE Close
  BY <1>5 DEF Close, StartClosing, CloseObject, CloseAccount, StopClosing, Live
<1>6. CASE UNCHANGED vars
  BY <1>6 DEF vars
<1> QED
  BY <1>0, <1>1, <1>2, <1>3, <1>4, <1>5, <1>6 DEF Next, SaveStep

-----------------------------------------------------------------------------
(* What a step can change.                                                 *)

DeleteAct(d) ==
  DeleteStep(d) \/ StopDelete(d) \/ \E s \in Item : StartDelete(d, s)

SaveAct(s) == SaveStep(s) \/ StopSave(s)

\* Rows: a save inserts its own, deletes hide and remove, the account takes all.
LEMMA RowsChange ==
  ASSUME TypeOK, Deleting, [Next]_vars
  PROVE  \/ UNCHANGED <<row, inserted, touched, account>>
         \/ \E s \in Item :
              /\ pc[s] = "insert" /\ Store(s)
              /\ UNCHANGED <<object, touched, account, answer, dpc, target, apc>>
              /\ \/ pc' = [pc EXCEPT ![s] = "read"]
                 \/ LostInsert /\ pc' = [pc EXCEPT ![s] = "undo"]
         \/ \E d \in Deleter :
              /\ dpc[d] = "softDelete" /\ row[target[d]] = "live"
              /\ target[d] \in Item
              /\ row' = [row EXCEPT ![target[d]] = "soft"]
              /\ touched' = touched \union {target[d]}
              /\ dpc' = [dpc EXCEPT ![d] = "deleteObject"]
              /\ UNCHANGED <<object, inserted, account, pc, answer, target, apc>>
         \/ \E d \in Deleter :
              /\ dpc[d] = "hardDelete"
              /\ target[d] \in Item
              /\ row' = [row EXCEPT ![target[d]] = "none"]
              /\ dpc' = [dpc EXCEPT ![d] = "done"]
              /\ UNCHANGED <<object, inserted, touched, account, pc, answer,
                             target, apc>>
         \/ /\ account' = "gone" /\ apc' = "done"
            /\ row' = [s \in Item |-> "none"]
            /\ touched' = touched \union inserted
            /\ UNCHANGED <<object, inserted, pc, answer, dpc, target>>
<1> USE DEF stores, saves, deletes, closing, history
<1>1. ASSUME NEW s \in Item, Insert(s), ~ UNCHANGED <<row, inserted, touched, account>>
      PROVE  /\ pc[s] = "insert" /\ Store(s)
             /\ UNCHANGED <<object, touched, account, answer, dpc, target, apc>>
             /\ \/ pc' = [pc EXCEPT ![s] = "read"]
                \/ LostInsert /\ pc' = [pc EXCEPT ![s] = "undo"]
  BY <1>1 DEF Insert, GoTo
<1>2. ASSUME NEW s \in Item, SaveAct(s), ~ Insert(s)
      PROVE  UNCHANGED <<row, inserted, touched, account>>
  BY <1>2 DEF SaveAct, SaveStep, StopSave, StartSave, Find, Count, Copy, Sum,
     Discard, Undo, FindAgain, Read
<1>3. ASSUME NEW d \in Deleter, SoftDelete(d), ~ UNCHANGED <<row, touched>>
      PROVE  /\ dpc[d] = "softDelete" /\ row[target[d]] = "live"
             /\ target[d] \in Item
             /\ row' = [row EXCEPT ![target[d]] = "soft"]
             /\ touched' = touched \union {target[d]}
             /\ dpc' = [dpc EXCEPT ![d] = "deleteObject"]
             /\ UNCHANGED <<object, inserted, account, pc, answer, target, apc>>
  BY <1>3 DEF SoftDelete, Then, Deleting, DeletingItem
<1>4. ASSUME NEW d \in Deleter, HardDelete(d)
      PROVE  /\ dpc[d] = "hardDelete"
             /\ target[d] \in Item
             /\ row' = [row EXCEPT ![target[d]] = "none"]
             /\ dpc' = [dpc EXCEPT ![d] = "done"]
             /\ UNCHANGED <<object, inserted, touched, account, pc, answer,
                            target, apc>>
  BY <1>4 DEF HardDelete, Then, Deleting, DeletingItem
<1>5. ASSUME NEW d \in Deleter, DeleteAct(d),
             ~ HardDelete(d), ~ (SoftDelete(d) /\ ~ UNCHANGED <<row, touched>>)
      PROVE  UNCHANGED <<row, inserted, touched, account>>
  BY <1>5 DEF DeleteAct, DeleteStep, SoftDelete, DeleteObject, StopDelete,
     StartDelete
<1>6. CASE Close
  BY <1>6 DEF Close, StartClosing, CloseObject, CloseAccount, StopClosing
<1>7. CASE UNCHANGED vars
  BY <1>7 DEF vars
<1> QED
  BY <1>1, <1>2, <1>3, <1>4, <1>5, <1>6, <1>7 DEF Next, SaveAct, DeleteAct

\* Objects: a save adds or drops its own, a delete that of its target, and the
\* account deletion any.
LEMMA ObjectsChange ==
  ASSUME TypeOK, [Next]_vars
  PROVE  \/ UNCHANGED object
         \/ \E s \in Item :
              /\ pc[s] = "copy" /\ pc' = [pc EXCEPT ![s] = "sum"]
              /\ object' = object \union {s}
              /\ UNCHANGED <<row, inserted, touched, dpc, target, apc>>
         \/ \E s \in Item :
              /\ pc[s] \in {"discard", "undo"}
              /\ pc'[s] \in {"refused", "findAgain"}
              /\ object' = object \ {s}
              /\ UNCHANGED <<row, inserted, touched, dpc, target, apc>>
         \/ \E d \in Deleter :
              /\ dpc[d] = "deleteObject"
              /\ dpc' = [dpc EXCEPT ![d] = "hardDelete"]
              /\ object' = object \ {target[d]}
              /\ UNCHANGED <<row, inserted, touched, pc, target, apc>>
         \/ /\ apc = "objects" /\ object' \subseteq object
            /\ UNCHANGED <<row, inserted, touched, pc, dpc, target, apc>>
<1> USE DEF stores, saves, deletes, closing, history
<1>1. ASSUME NEW s \in Item, Copy(s), ~ UNCHANGED object
      PROVE  /\ pc[s] = "copy" /\ pc' = [pc EXCEPT ![s] = "sum"]
             /\ object' = object \union {s}
             /\ UNCHANGED <<row, inserted, touched, dpc, target, apc>>
  BY <1>1 DEF Copy, GoTo
<1>2. ASSUME NEW s \in Item, Discard(s) \/ Undo(s), ~ UNCHANGED object
      PROVE  /\ pc[s] \in {"discard", "undo"}
             /\ pc'[s] \in {"refused", "findAgain"}
             /\ object' = object \ {s}
             /\ UNCHANGED <<row, inserted, touched, dpc, target, apc>>
  BY <1>2 DEF Discard, Undo, DropObject, GoTo, TypeOK
<1>3. ASSUME NEW s \in Item, SaveAct(s), ~ Copy(s), ~ Discard(s), ~ Undo(s)
      PROVE  UNCHANGED object
  BY <1>3 DEF SaveAct, SaveStep, StopSave, StartSave, Find, Count, Sum, Insert,
     FindAgain, Read
<1>4. ASSUME NEW d \in Deleter, DeleteObject(d), ~ UNCHANGED object
      PROVE  /\ dpc[d] = "deleteObject"
             /\ dpc' = [dpc EXCEPT ![d] = "hardDelete"]
             /\ object' = object \ {target[d]}
             /\ UNCHANGED <<row, inserted, touched, pc, target, apc>>
  BY <1>4 DEF DeleteObject, Then
<1>5. ASSUME NEW d \in Deleter, DeleteAct(d), ~ DeleteObject(d)
      PROVE  UNCHANGED object
  BY <1>5 DEF DeleteAct, DeleteStep, SoftDelete, HardDelete, StopDelete,
     StartDelete
<1>6. CASE Close
  BY <1>6 DEF Close, StartClosing, CloseObject, CloseAccount, StopClosing
<1>7. CASE UNCHANGED vars
  BY <1>7 DEF vars
<1> QED
  BY <1>1, <1>2, <1>3, <1>4, <1>5, <1>6, <1>7 DEF Next, SaveAct, DeleteAct

-----------------------------------------------------------------------------
(* Each part of the invariant, step by step.                               *)

LEMMA StepRecorded ==
  ASSUME TypeOK, Recorded, Deleting, [Next]_vars
  PROVE  Recorded'
<1> USE DEF Recorded, TypeOK
<1>1. CASE UNCHANGED <<row, inserted, touched, account>>
  BY <1>1
<1>2. ASSUME NEW s \in Item, pc[s] = "insert", Store(s), UNCHANGED touched
      PROVE  Recorded'
  BY <1>2 DEF Store
<1>3. ASSUME NEW d \in Deleter, target[d] \in Item, row[target[d]] = "live",
             row' = [row EXCEPT ![target[d]] = "soft"],
             touched' = touched \union {target[d]}, UNCHANGED inserted
      PROVE  Recorded'
  BY <1>3
<1>4. ASSUME NEW d \in Deleter, dpc[d] = "hardDelete", target[d] \in Item,
             row' = [row EXCEPT ![target[d]] = "none"],
             UNCHANGED <<inserted, touched>>
      PROVE  Recorded'
  BY <1>4 DEF Deleting, DeletingItem
<1>5. CASE /\ row' = [s \in Item |-> "none"]
           /\ touched' = touched \union inserted
           /\ UNCHANGED inserted
  BY <1>5
<1> QED
  BY <1>1, <1>2, <1>3, <1>4, <1>5, RowsChange

\* What an action of another actor leaves alone.
LEMMA SaversApart ==
  ASSUME TypeOK, [Next]_vars, NEW s \in Item, pc'[s] # pc[s]
  PROVE  SaveAct(s)
<1>1. ASSUME NEW t \in Item, SaveAct(t)
      PROVE  \E l : pc' = [pc EXCEPT ![t] = l]
  BY <1>1 DEF SaveAct, SaveStep, StartSave, Find, Count, Copy, Sum, Discard,
     Insert, Undo, FindAgain, Read, StopSave, GoTo, AnswerWith
<1>2. ASSUME NEW d \in Deleter, DeleteAct(d)
      PROVE  UNCHANGED pc
  BY <1>2 DEF DeleteAct, DeleteStep, SoftDelete, DeleteObject, HardDelete,
     StopDelete, StartDelete, saves
<1>3. Close \/ UNCHANGED vars => UNCHANGED pc
  BY DEF Close, StartClosing, CloseObject, CloseAccount, StopClosing, saves, vars
<1>4. \E t \in Item : SaveAct(t)
  BY <1>2, <1>3 DEF Next, SaveAct, DeleteAct
<1> QED
  BY <1>1, <1>4 DEF TypeOK

LEMMA DeletersApart ==
  ASSUME TypeOK, [Next]_vars, NEW d \in Deleter,
         dpc'[d] # dpc[d] \/ target'[d] # target[d]
  PROVE  DeleteAct(d)
<1>1. ASSUME NEW t \in Item, SaveAct(t)
      PROVE  UNCHANGED <<dpc, target>>
  BY <1>1 DEF SaveAct, SaveStep, StartSave, Find, Count, Copy, Sum, Discard,
     Insert, Undo, FindAgain, Read, StopSave, deletes
<1>2. ASSUME NEW e \in Deleter, DeleteAct(e)
      PROVE  /\ \E l : dpc' = [dpc EXCEPT ![e] = l]
             /\ target' = target \/ \E x : target' = [target EXCEPT ![e] = x]
  BY <1>2 DEF DeleteAct, DeleteStep, SoftDelete, DeleteObject, HardDelete,
     StopDelete, StartDelete, Then
<1>3. Close \/ UNCHANGED vars => UNCHANGED <<dpc, target>>
  BY DEF Close, StartClosing, CloseObject, CloseAccount, StopClosing, deletes, vars
<1>4. \E e \in Deleter : DeleteAct(e)
  BY <1>1, <1>3 DEF Next, SaveAct, DeleteAct
<1> QED
  BY <1>2, <1>4 DEF TypeOK

\* Once the account deletion has begun, it never looks as if it had not.
LEMMA StepKept ==
  ASSUME [Next]_vars, Kept'
  PROVE  Kept
<1> USE DEF Kept
<1>1. ASSUME NEW s \in Item, SaveAct(s)
      PROVE  UNCHANGED apc
  BY <1>1 DEF SaveAct, SaveStep, StartSave, Find, Count, Copy, Sum, Discard,
     Insert, Undo, FindAgain, Read, StopSave, closing
<1>2. ASSUME NEW d \in Deleter, DeleteAct(d)
      PROVE  UNCHANGED apc
  BY <1>2 DEF DeleteAct, DeleteStep, SoftDelete, DeleteObject, HardDelete,
     StopDelete, StartDelete, closing
<1>3. Close => apc' # "idle"
  BY DEF Close, StartClosing, CloseObject, CloseAccount, StopClosing
<1>4. UNCHANGED vars => UNCHANGED apc
  BY DEF vars, closing
<1> QED
  BY <1>1, <1>2, <1>3, <1>4 DEF Next, SaveAct, DeleteAct

\* Only a save at its insert gives an item a row for the first time.
LEMMA InsertedGrows ==
  ASSUME TypeOK, Deleting, [Next]_vars, NEW s \in Item,
         s \in inserted', s \notin inserted
  PROVE  /\ pc[s] = "insert"
         /\ pc'[s] = "read" \/ (LostInsert /\ pc'[s] = "undo")
<1>1. PICK t \in Item :
        /\ pc[t] = "insert" /\ Store(t)
        /\ \/ pc' = [pc EXCEPT ![t] = "read"]
           \/ LostInsert /\ pc' = [pc EXCEPT ![t] = "undo"]
  BY RowsChange
<1>2. s = t
  BY <1>1 DEF Store
<1> QED
  BY <1>1, <1>2 DEF TypeOK

\* Items never lose their history.
LEMMA InsertedStays ==
  ASSUME TypeOK, Deleting, [Next]_vars
  PROVE  inserted \subseteq inserted' /\ touched \subseteq touched'
  BY RowsChange DEF Store

\* The order of the statements of a save.
LEMMA SaveOrder ==
  ASSUME TypeOK, NEW s \in Item, SaveAct(s)
  PROVE  /\ pc'[s] \in {"idle", "find", "count", "copy", "sum", "discard", "insert"}
              => pc[s] \in {"idle", "find", "count", "copy", "sum"}
         /\ pc'[s] = "insert" => pc[s] = "sum"
         /\ pc'[s] = "sum" => pc[s] = "copy" /\ s \in object'
         /\ pc'[s] = "undo" => pc[s] = "insert"
         /\ pc'[s] = "read" => pc[s] = "insert" /\ s \in inserted'
         /\ pc'[s] = "findAgain" => pc[s] = "undo"
<1> USE DEF TypeOK, GoTo, AnswerWith
<1>1. CASE StartSave(s) \/ Find(s) \/ Count(s) \/ Copy(s) \/ Sum(s)
  BY <1>1 DEF StartSave, Find, Count, Copy, Sum
<1>2. CASE Discard(s) \/ Insert(s) \/ Undo(s)
  BY <1>2 DEF Discard, Insert, Store, Undo
<1>3. CASE FindAgain(s) \/ Read(s) \/ StopSave(s)
  BY <1>3 DEF FindAgain, Read, StopSave
<1> QED
  BY <1>1, <1>2, <1>3 DEF SaveAct, SaveStep

\* An item without a row keeps its object: only its own save takes it away.
LEMMA UnlistedObjectStays ==
  ASSUME TypeOK, Recorded, Deleting, [Next]_vars, Kept',
         NEW s \in Item, s \in object, s \notin object'
  PROVE  \/ pc[s] \in {"discard", "undo"} /\ pc'[s] \in {"refused", "findAgain"}
         \/ s \in touched /\ row[s] # "live"
<1>1. apc # "objects"
  BY StepKept DEF Kept
<1>2. \/ \E t \in Item : /\ pc[t] \in {"discard", "undo"}
                         /\ pc'[t] \in {"refused", "findAgain"}
                         /\ object' = object \ {t}
      \/ \E d \in Deleter : /\ dpc[d] = "deleteObject"
                            /\ object' = object \ {target[d]}
  BY <1>1, ObjectsChange
<1> QED
  BY <1>2 DEF Deleting, DeletingItem

LEMMA StepSaving ==
  ASSUME TypeOK, Recorded, Saving, Deleting, [Next]_vars
  PROVE  Saving'
<1> SUFFICES ASSUME NEW s \in Item
             PROVE  SavingItem(s)'
  BY DEF Saving
<1>0. SavingItem(s)
  BY DEF Saving
<1>1. ASSUME pc'[s] \in {"idle", "find", "count", "copy", "sum", "discard", "insert"}
      PROVE  s \notin inserted'
  BY <1>0, <1>1, InsertedGrows, SaversApart, SaveOrder DEF SavingItem
<1>2. ASSUME pc'[s] \in {"sum", "insert"}, Kept'
      PROVE  s \in object'
  <2>1. s \notin inserted /\ s \notin touched
    BY <1>1, <1>2, InsertedStays DEF Recorded
  <2>2. s \in object \/ s \in object'
    BY <1>0, <1>2, StepKept, SaversApart, SaveOrder DEF SavingItem
  <2> QED
    BY <1>2, <2>1, <2>2, UnlistedObjectStays
<1>3. ASSUME pc'[s] = "undo", ~ LostInsert
      PROVE  s \notin inserted'
  BY <1>0, <1>3, InsertedGrows, SaversApart, SaveOrder DEF SavingItem
<1>4. ASSUME pc'[s] = "read"
      PROVE  s \in inserted'
  BY <1>0, <1>4, InsertedStays, SaversApart, SaveOrder DEF SavingItem
<1> QED
  BY <1>1, <1>2, <1>3, <1>4 DEF SavingItem

\* The order of the statements of a delete request.
LEMMA DeleteOrder ==
  ASSUME TypeOK, Deleting, NEW d \in Deleter, DeleteAct(d)
  PROVE  /\ dpc'[d] \in {"softDelete", "deleteObject", "hardDelete"}
              => target'[d] \in Item
         /\ dpc'[d] = "deleteObject"
              => target'[d] \in touched' /\ row'[target'[d]] = "soft"
         /\ dpc'[d] = "hardDelete"
              => /\ dpc[d] = "deleteObject"
                 /\ target'[d] = target[d] /\ target[d] \notin object'
                 /\ UNCHANGED <<row, touched>>
<1> USE DEF TypeOK, Then, Deleting, DeletingItem, stores, history
<1>1. CASE SoftDelete(d)
  BY <1>1 DEF SoftDelete
<1>2. CASE DeleteObject(d)
  BY <1>2 DEF DeleteObject
<1>3. CASE HardDelete(d) \/ StopDelete(d) \/ \E s \in Item : StartDelete(d, s)
  BY <1>3 DEF HardDelete, StopDelete, StartDelete
<1> QED
  BY <1>1, <1>2, <1>3 DEF DeleteAct, DeleteStep

\* A deleted item is never listed again, nor is its object written again: a
\* save inserts and copies only what has no history.
LEMMA DeletedStaysDeleted ==
  ASSUME TypeOK, Recorded, Saving, Deleting, [Next]_vars,
         NEW k \in inserted
  PROVE  /\ row[k] # "live" => row'[k] # "live"
         /\ k \notin object => k \notin object'
<1> USE DEF TypeOK
<1>1. ASSUME NEW s \in Item, pc[s] \in {"copy", "insert"}
      PROVE  s # k
  BY <1>1 DEF Saving, SavingItem
<1>2. row[k] # "live" => row'[k] # "live"
  BY <1>1, RowsChange DEF Store, Recorded
<1>3. k \notin object => k \notin object'
  BY <1>1, ObjectsChange
<1> QED
  BY <1>2, <1>3

LEMMA StepDeleting ==
  ASSUME TypeOK, Recorded, Saving, Deleting, [Next]_vars
  PROVE  Deleting'
<1> SUFFICES ASSUME NEW d \in Deleter
             PROVE  DeletingItem(d)'
  BY DEF Deleting
<1>0. DeletingItem(d)
  BY DEF Deleting
<1>1. CASE DeleteAct(d)
  BY <1>0, <1>1, DeleteOrder DEF DeletingItem
<1>2. CASE dpc'[d] = dpc[d] /\ target'[d] = target[d]
  BY <1>0, <1>2, DeletedStaysDeleted, InsertedStays DEF DeletingItem, Recorded
<1> QED
  BY <1>1, <1>2, DeletersApart

\* An account that is gone stays gone.
LEMMA AccountStaysGone ==
  ASSUME TypeOK, Deleting, [Next]_vars, account = "gone"
  PROVE  account' = "gone"
  BY RowsChange

LEMMA StepRaced ==
  ASSUME TypeOK, Recorded, Deleting, Raced, [Next]_vars
  PROVE  Raced'
<1> SUFFICES ASSUME NEW s \in Item, pc'[s] \in {"undo", "findAgain"}, ~ InsertFails
             PROVE  account' = "gone" \/ \E k \in inserted' : JobOf[k] = JobOf[s]
  BY DEF Raced, RacedItem
<1>1. CASE pc[s] \in {"undo", "findAgain"}
  BY <1>1, AccountStaysGone, InsertedStays DEF Raced, RacedItem
<1>2. CASE pc[s] \notin {"undo", "findAgain"}
  <2>1. Insert(s)
    <3>1. SaveAct(s)
      BY <1>2, SaversApart
    <3> QED
      BY <1>2, <3>1 DEF SaveAct, SaveStep, StartSave, Find, Count, Copy, Sum,
         Discard, Undo, FindAgain, Read, StopSave, GoTo, AnswerWith, TypeOK
  <2>2. s \in inserted' \/ ~ MayInsert(s)
    BY <1>2, <2>1 DEF Insert, Store, GoTo, TypeOK
  <2>3. ~ MayInsert(s) => account = "gone" \/ \E k \in inserted : JobOf[k] = JobOf[s]
    BY DEF MayInsert, LiveOf, Live, Recorded, TypeOK
  <2> QED
    BY <2>2, <2>3, AccountStaysGone, InsertedStays
<1> QED
  BY <1>1, <1>2

LEMMA StepDownloadable ==
  ASSUME TypeOK, Recorded, Saving, Deleting, Downloadable, [Next]_vars
  PROVE  Downloadable'
<1> SUFFICES ASSUME ~ LostInsert, Kept', NEW s \in Item, row'[s] = "live"
             PROVE  s \in object'
  BY DEF Downloadable, LiveRowHasObject, Live
<1>0. Kept /\ SavingItem(s)
  BY StepKept DEF Saving
<1>1. CASE s \notin inserted
  <2>1. s \in inserted'
    BY <1>1, RowsChange DEF Store, Recorded, TypeOK
  <2>2. pc[s] = "insert" /\ pc'[s] = "read"
    BY <1>1, <2>1, InsertedGrows
  <2>3. s \in object /\ s \notin touched
    BY <1>0, <1>1, <2>2 DEF SavingItem, Recorded
  <2> QED
    BY <2>2, <2>3, UnlistedObjectStays
<1>2. CASE s \in inserted
  <2>1. row[s] = "live"
    BY <1>2, DeletedStaysDeleted
  <2>2. s \in object /\ pc[s] \notin {"discard", "undo"}
    BY <1>0, <1>2, <2>1 DEF Downloadable, LiveRowHasObject, Live, SavingItem
  <2> QED
    BY <2>1, <2>2, UnlistedObjectStays
<1> QED
  BY <1>1, <1>2

LEMMA StepDeletionKeepsRecord ==
  ASSUME TypeOK, Recorded, Saving, Deleting, DeletionKeepsRecord, [Next]_vars
  PROVE  DeletionKeepsRecord'
<1> SUFFICES ASSUME Kept', NEW s \in object', s \in inserted'
             PROVE  row'[s] # "none"
  BY DEF DeletionKeepsRecord
<1> USE DEF TypeOK
<1>0. Kept
  BY StepKept
<1>1. CASE s \notin inserted
  BY <1>1, RowsChange DEF Store
<1>2. CASE s \in inserted
  <2>1. s \in object /\ row[s] # "none"
    BY <1>0, <1>2, DeletedStaysDeleted DEF DeletionKeepsRecord
  <2>2. ASSUME NEW d \in Deleter, dpc[d] = "hardDelete"
        PROVE  s # target[d]
    BY <2>1, <2>2 DEF Deleting, DeletingItem
  <2> QED
    BY <1>2, <2>1, <2>2, RowsChange DEF Store, Kept
<1> QED
  BY <1>1, <1>2

LEMMA StepOneItemPerJob ==
  ASSUME TypeOK, Recorded, Saving, Deleting, OneItemPerJob, [Next]_vars
  PROVE  OneItemPerJob'
<1> USE DEF TypeOK
<1>1. ASSUME NEW s \in Item, Store(s)
      PROVE  OneItemPerJob'
  BY <1>1 DEF OneItemPerJob, Live, Store, MayInsert, LiveOf
<1>2. CASE Live' \subseteq Live
  BY <1>2 DEF OneItemPerJob
<1>3. (\E s \in Item : Store(s)) \/ Live' \subseteq Live
  BY RowsChange DEF Live
<1> QED
  BY <1>1, <1>2, <1>3

\* An answer names an item of its job that has had a row.
LEMMA AnswersAreInserted ==
  ASSUME TypeOK, Recorded, Saving, AnsweredItemStands, [Next]_vars,
         NEW s \in Item, answer'[s] # NoItem
  PROVE  JobOf[answer'[s]] = JobOf[s] /\ answer'[s] \in inserted
<1> USE DEF TypeOK
<1>1. CASE answer'[s] = answer[s]
  BY <1>1 DEF AnsweredItemStands, Recorded
<1>2. ASSUME NEW t \in Item, SaveAct(t), answer' # answer
      PROVE  \E k \in Item : /\ answer' = [answer EXCEPT ![t] = k]
                             /\ row[k] = "live" /\ JobOf[k] = JobOf[t]
  BY <1>2 DEF SaveAct, SaveStep, StartSave, Find, Count, Copy, Sum, Discard,
     Insert, Undo, FindAgain, Read, StopSave, AnswerWith, LiveOf, Live, saves
<1>3. ASSUME NEW d \in Deleter, DeleteAct(d)
      PROVE  answer' = answer
  BY <1>3 DEF DeleteAct, DeleteStep, SoftDelete, DeleteObject, HardDelete,
     StopDelete, StartDelete, saves
<1>4. Close \/ UNCHANGED vars => answer' = answer
  BY DEF Close, StartClosing, CloseObject, CloseAccount, StopClosing, saves, vars
<1>5. CASE answer' # answer
  <2>1. PICK t \in Item : SaveAct(t)
    BY <1>3, <1>4, <1>5 DEF Next, SaveAct, DeleteAct
  <2>2. PICK k \in Item : /\ answer' = [answer EXCEPT ![t] = k]
                          /\ row[k] = "live" /\ JobOf[k] = JobOf[t]
    BY <1>2, <1>5, <2>1
  <2> QED
    BY <1>1, <2>2 DEF Recorded
<1> QED
  BY <1>1, <1>5

LEMMA StepAnsweredItemStands ==
  ASSUME TypeOK, Recorded, Saving, Deleting, AnsweredItemStands, [Next]_vars
  PROVE  AnsweredItemStands'
  BY AnswersAreInserted, InsertedStays, StepRecorded
     DEF AnsweredItemStands, Recorded

LEMMA StepFailedSaveHasCause ==
  ASSUME TypeOK, Recorded, Saving, Deleting, Raced, FailedSaveHasCause,
         [Next]_vars
  PROVE  FailedSaveHasCause'
<1> SUFFICES ASSUME ~ InsertFails, NEW s \in Item, pc'[s] = "error"
             PROVE  account' = "gone" \/ \E k \in touched' : JobOf[k] = JobOf[s]
  BY DEF FailedSaveHasCause
<1>1. account = "gone" \/ \E k \in touched : JobOf[k] = JobOf[s]
  <2>1. CASE pc[s] = "error"
    BY <2>1 DEF FailedSaveHasCause
  <2>2. CASE pc[s] # "error"
    <3>1. SaveAct(s)
      BY <2>2, SaversApart
    <3>2. \/ pc[s] = "findAgain" /\ LiveOf(JobOf[s]) = {}
          \/ pc[s] = "read" /\ row[s] # "live"
      BY <2>2, <3>1 DEF SaveAct, SaveStep, StartSave, Find, Count, Copy, Sum,
         Discard, Insert, Undo, FindAgain, Read, StopSave, GoTo, AnswerWith, TypeOK
    <3>3. CASE pc[s] = "findAgain" /\ LiveOf(JobOf[s]) = {}
      BY <3>3 DEF Raced, RacedItem, Recorded, LiveOf, Live, TypeOK
    <3>4. CASE pc[s] = "read" /\ row[s] # "live"
      BY <3>4 DEF Saving, SavingItem, Recorded
    <3> QED
      BY <3>2, <3>3, <3>4
  <2> QED
    BY <2>1, <2>2
<1> QED
  BY <1>1, AccountStaysGone, InsertedStays

\* The account deletion takes or records what it listed, and a row goes before
\* its object only with the account.
LEMMA StepClosing ==
  ASSUME TypeOK, Recorded, Saving, Deleting, Closing, [Next]_vars
  PROVE  Closing'
<1> USE DEF TypeOK, Closing, ClosingDone, stores, saves, deletes, closing, history
<1>1. ASSUME NEW s \in Item, StartSave(s) \/ Find(s) \/ Count(s) \/ Sum(s)
                               \/ FindAgain(s) \/ Read(s) \/ StopSave(s)
      PROVE  Closing'
  BY <1>1 DEF StartSave, Find, Count, Sum, FindAgain, Read, StopSave
<1>2. ASSUME NEW s \in Item, Copy(s)
      PROVE  Closing'
  BY <1>2 DEF Copy, Saving, SavingItem
<1>3. ASSUME NEW s \in Item, Discard(s) \/ Undo(s)
      PROVE  Closing'
  BY <1>3 DEF Discard, Undo, DropObject
<1>4. ASSUME NEW s \in Item, Insert(s)
      PROVE  Closing'
  BY <1>4 DEF Insert, Store, MayInsert
<1>5. ASSUME NEW d \in Deleter, DeleteAct(d)
      PROVE  Closing'
  BY <1>5 DEF DeleteAct, DeleteStep, SoftDelete, DeleteObject, HardDelete, StopDelete,
     StartDelete, Deleting, DeletingItem
<1>6. CASE StartClosing
  <2>1. Live \subseteq Item /\ \A s \in Live : row[s] = "live"
    BY DEF Live
  <2>2. account # "gone"
    BY <1>6 DEF StartClosing
  <2>3. apc' = "objects" /\ doomed' = Live /\ listed' = Live
        /\ UNCHANGED <<account, row, object, orphans, inserted>>
    BY <1>6 DEF StartClosing
  <2> QED
    BY <2>1, <2>2, <2>3 DEF Recorded
<1>7. ASSUME NEW s \in Item, CloseObject(s)
      PROVE  Closing'
  BY <1>7, FailureAssumption DEF CloseObject
<1>8. CASE CloseAccount \/ StopClosing
  BY <1>8 DEF CloseAccount, StopClosing
<1>9. CASE UNCHANGED vars
  BY <1>9 DEF vars
<1> QED
  BY <1>1, <1>2, <1>3, <1>4, <1>5, <1>6, <1>7, <1>8, <1>9
     DEF Next, SaveStep, DeleteAct, Close

\* A save that is alone between count and insert fills at most the last place.
LEMMA StepRoom ==
  ASSUME TypeOK, Deleting, Room, [Next]_vars
  PROVE  Room'
<1> USE DEF TypeOK
<1>1. ASSUME Live' \subseteq Live, Counted' \subseteq Counted, crowded' = crowded
      PROVE  Room'
  <2>1. IsFiniteSet(Live') /\ Cardinality(Live') <= Cardinality(Live)
    BY <1>1, FS_Subset DEF Room
  <2>2. Cardinality(Live') \in Nat /\ Cardinality(Live) \in Nat
    BY <2>1, FS_CardinalityType DEF Room
  <2> QED
    BY <1>1, <2>1, <2>2, BoundAssumption DEF Room
<1>2. ASSUME NEW s \in Item, Count(s)
      PROVE  Room'
  <2>1. Live' = Live
    BY <1>2 DEF Count, stores, Live
  <2>2. CASE pc' = [pc EXCEPT ![s] = "refused"] /\ crowded' = crowded
    <3>1. Counted' \subseteq Counted
      BY <2>2 DEF Counted
    <3> QED
      BY <1>1, <2>1, <2>2, <3>1
  <2>3. CASE /\ Cardinality(Live) < MaxItems
             /\ pc' = [pc EXCEPT ![s] = "copy"]
             /\ crowded' = (crowded \/ Counted # {})
    <3>1. ~ crowded' => ~ crowded /\ Counted = {}
      BY <2>3
    <3>2. Counted = {} => Counted' = {s}
      BY <2>3 DEF Counted
    <3>3. IsFiniteSet(Live') /\ Cardinality(Live') < MaxItems
      BY <2>1, <2>3 DEF Room
    <3>4. Cardinality(Live') \in Nat
      BY <3>3, FS_CardinalityType
    <3> QED
      BY <3>1, <3>2, <3>3, <3>4, BoundAssumption DEF Room
  <2> QED
    BY <1>2, <2>2, <2>3 DEF Count, GoTo
<1>3. ASSUME NEW s \in Item, Insert(s), Store(s)
      PROVE  Room'
  <2>1. s \notin Live /\ Live' = Live \union {s}
    BY <1>3 DEF Store, MayInsert, LiveOf, Live
  <2>2. IsFiniteSet(Live') /\ Cardinality(Live') = Cardinality(Live) + 1
    BY <2>1, FS_AddElement DEF Room
  <2>3. s \in Counted /\ crowded' = crowded
    BY <1>3 DEF Insert, Counted
  <2>4. Counted' = Counted \ {s}
    BY <1>3 DEF Insert, GoTo, Counted
  <2>5. Cardinality(Live) \in Nat
    BY FS_CardinalityType DEF Room
  <2> QED
    BY <2>2, <2>3, <2>4, <2>5, BoundAssumption DEF Room
<1>4. ASSUME NEW s \in Item, SaveAct(s), ~ Count(s), ~ (Insert(s) /\ Store(s))
      PROVE  Counted' \subseteq Counted /\ crowded' = crowded /\ Live' = Live
  BY <1>4 DEF SaveAct, SaveStep, StartSave, Find, Copy, Sum, Discard, Insert, Undo,
     FindAgain, Read, StopSave, GoTo, AnswerWith, Counted, Live, stores, history
<1>5. ASSUME NEW d \in Deleter, DeleteAct(d)
      PROVE  Counted' = Counted /\ crowded' = crowded /\ Live' \subseteq Live
  BY <1>5 DEF DeleteAct, DeleteStep, SoftDelete, DeleteObject, HardDelete, StopDelete,
     StartDelete, Deleting, DeletingItem, Counted, Live, stores, saves, history
<1>6. CASE Close \/ UNCHANGED vars
  <2>1. Counted' = Counted /\ crowded' = crowded /\ Live' \subseteq Live
    BY <1>6 DEF Close, StartClosing, CloseObject, CloseAccount, StopClosing, Counted,
       Live, vars, stores, saves, history
  <2> QED
    BY <1>1, <2>1
<1> QED
  BY <1>1, <1>2, <1>3, <1>4, <1>5, <1>6 DEF Next, SaveAct, DeleteAct

-----------------------------------------------------------------------------
LEMMA NextIInv == IInv /\ [Next]_vars => IInv'
<1> SUFFICES ASSUME IInv, [Next]_vars
             PROVE  IInv'
  OBVIOUS
<1> USE DEF IInv
<1>1. TypeOK' /\ Recorded' /\ Saving' /\ Deleting' /\ Raced'
  BY StepTypes, StepRecorded, StepSaving, StepDeleting, StepRaced
<1>2. Downloadable' /\ DeletionKeepsRecord' /\ OneItemPerJob'
  BY StepDownloadable, StepDeletionKeepsRecord, StepOneItemPerJob
<1>3. AnsweredItemStands' /\ FailedSaveHasCause'
  BY StepAnsweredItemStands, StepFailedSaveHasCause
<1>4. Closing' /\ Room'
  BY StepClosing, StepRoom
<1> QED
  BY <1>1, <1>2, <1>3, <1>4

LEMMA Invariance == Spec => []IInv
  BY InitIInv, NextIInv, PTL DEF Spec

\* Every variable of the account's rows and requests keeps its type.
THEOREM TypeCorrectness == Spec => []TypeOK
<1>1. IInv => TypeOK
  BY DEF IInv
<1> QED
  BY <1>1, Invariance, PTL

\* If D1 never reports an error for an insert it committed, a listed item has
\* its object, whatever saves, deletions and failed R2 calls run together
\* (saveJobToLibrary, deleteLibrary).
THEOREM ListedItemsCanBeDownloaded ==
  ASSUME ~ LostInsert
  PROVE  Spec => []LiveRowHasObject
<1>1. IInv => LiveRowHasObject
  BY DEF IInv, Downloadable
<1> QED
  BY <1>1, Invariance, PTL

\* A deletion that fails or stops half-way leaves a row that names the object
\* (deleteLibrary).
THEOREM NoUnrecordedLeftover == Spec => []DeletionKeepsRecord
<1>1. IInv => DeletionKeepsRecord
  BY DEF IInv
<1> QED
  BY <1>1, Invariance, PTL

\* However many saves of a job race, at most one item of it is listed
\* (saveJobToLibrary with idx_library_items_account_job).
THEOREM RacingSavesConverge == Spec => []OneItemPerJob
<1>1. IInv => OneItemPerJob
  BY DEF IInv
<1> QED
  BY <1>1, Invariance, PTL

\* The item a save is answered with, its own or that of the save it lost to, is
\* one of its job and stays listed until somebody deletes it.
THEOREM AnswersHold == Spec => []AnsweredItemStands
<1>1. IInv => AnsweredItemStands
  BY DEF IInv
<1> QED
  BY <1>1, Invariance, PTL

\* If D1 refuses no insert without a reason, a save ends in an error only when
\* an item of its job was deleted or the account is gone.
THEOREM ErrorsHaveCauses == Spec => []FailedSaveHasCause
<1>1. IInv => FailedSaveHasCause
  BY DEF IInv
<1> QED
  BY <1>1, Invariance, PTL

\* If D1 refuses no insert without a reason, the account deletion leaves behind only
\* objects of items that were not live when it read the list.
THEOREM LeftoversWereNotListed == Spec => []UnrecordedObjectHasCause
<1>1. IInv => UnrecordedObjectHasCause
  BY DEF IInv, Closing, ClosingDone, UnrecordedObjectHasCause, TypeOK
<1> QED
  BY <1>1, Invariance, PTL

\* However many saves there are, the item quota is exceeded only if two of them
\* were between count and insert at the same time (saveJobToLibrary).
THEOREM ItemQuotaHolds == Spec => []ItemQuota
<1>1. IInv => ItemQuota
  BY DEF IInv, Room, ItemQuota
<1> QED
  BY <1>1, Invariance, PTL

-----------------------------------------------------------------------------
(* The sum of the bytes.  It is a fold, that is, a recursive function on   *)
(* the subsets of a set: it exists and is unique for a finite one, and it  *)
(* does not depend on the order of the additions.                          *)

Weight(s) == Size[JobOf[s]]

\* The sum, as Bytes writes it.
Total(S) == MapThenSumSet(LAMBDA s : Size[JobOf[s]], S)

\* The element added last, and the recursive function the fold unfolds to.
Pick(S) == CHOOSE x \in S : TRUE

SumsOver(f, S) ==
  f = [T \in SUBSET S |-> IF T = {} THEN 0 ELSE Weight(Pick(T)) + f[T \ {Pick(T)}]]

\* What holds of a finite set if it holds of each of its parts whose own parts
\* have it.
LEMMA SubsetInduction ==
  ASSUME NEW S, IsFiniteSet(S), NEW Good,
         \A T \in SUBSET S : (\A U \in SUBSET T : U # T => U \in Good) => T \in Good
  PROVE  \A T \in SUBSET S : T \in Good
<1> DEFINE Bad == {T \in FiniteSubsetsOf(S) : T \notin Good}
<1> SUFFICES ASSUME Bad # {}
             PROVE  FALSE
  BY FS_FiniteSubsetsOfFinite
<1>1. Bad \subseteq FiniteSubsetsOf(S)
  OBVIOUS
<1>2. PICK T \in Bad : \A U \in Bad : ~ (<<U, T>> \in StrictSubsetOrdering(S))
  <2> HIDE DEF Bad
  <2> QED
    BY <1>1, FS_StrictSubsetOrderingWellFounded, WFMin
<1>3. \A U \in SUBSET T : U # T => U \in Good
  <2> SUFFICES ASSUME NEW U \in SUBSET T, U # T, U \notin Good
               PROVE  FALSE
    OBVIOUS
  <2>1. T \in SUBSET S /\ U \in SUBSET S
    BY <1>1 DEF FiniteSubsetsOf
  <2>2. U \in Bad
    BY <2>1, FS_FiniteSubsetsOfFinite
  <2>3. <<U, T>> \in StrictSubsetOrdering(S)
    BY <2>1 DEF StrictSubsetOrdering
  <2> QED
    BY <1>2, <2>2, <2>3
<1> QED
  BY <1>1, <1>3 DEF FiniteSubsetsOf

\* What is picked is there.
LEMMA PickIsMember ==
  ASSUME NEW S, S # {}
  PROVE  Pick(S) \in S
  BY DEF Pick

\* Two such functions agree.
LEMMA SumsAgree ==
  ASSUME NEW S, IsFiniteSet(S), NEW f, NEW g, SumsOver(f, S), SumsOver(g, S)
  PROVE  \A T \in SUBSET S : f[T] = g[T]
<1> DEFINE Good == {T \in SUBSET S : f[T] = g[T]}
<1>1. ASSUME NEW T \in SUBSET S, \A U \in SUBSET T : U # T => U \in Good
      PROVE  T \in Good
  <2>1. CASE T = {}
    BY <2>1 DEF SumsOver
  <2>2. CASE T # {}
    <3>1. T \ {Pick(T)} \in SUBSET T /\ T \ {Pick(T)} # T
      BY <2>2, PickIsMember
    <3>2. f[T \ {Pick(T)}] = g[T \ {Pick(T)}]
      BY <1>1, <3>1
    <3> QED
      BY <2>2, <3>2 DEF SumsOver
  <2> QED
    BY <2>1, <2>2
<1>2. \A T \in SUBSET S : T \in Good
  <2> HIDE DEF Good
  <2> QED
    BY <1>1, SubsetInduction
<1> QED
  BY <1>2

\* Such a function, restricted to the subsets of a smaller set.
LEMMA SumsRestrict ==
  ASSUME NEW S, NEW f, SumsOver(f, S), NEW T \in SUBSET S
  PROVE  SumsOver([U \in SUBSET T |-> f[U]], T)
<1> DEFINE h == [U \in SUBSET T |-> f[U]]
<1>1. ASSUME NEW U \in SUBSET T
      PROVE  h[U] = IF U = {} THEN 0 ELSE Weight(Pick(U)) + h[U \ {Pick(U)}]
  <2>1. U \in SUBSET S /\ U \ {Pick(U)} \in SUBSET T
    OBVIOUS
  <2>2. f[U] = IF U = {} THEN 0 ELSE Weight(Pick(U)) + f[U \ {Pick(U)}]
    BY <2>1 DEF SumsOver
  <2> QED
    BY <2>1, <2>2
<1>2. h = [U \in SUBSET T |-> IF U = {} THEN 0 ELSE Weight(Pick(U)) + h[U \ {Pick(U)}]]
  BY <1>1
<1> QED
  BY <1>2 DEF SumsOver

\* The fold, unfolded.
LEMMA TotalIsASum ==
  ASSUME NEW S
  PROVE  Total(S) = (CHOOSE f : SumsOver(f, S))[S]
  BY DEF Total, MapThenSumSet, MapThenFoldSet, SumsOver, Weight, Pick

\* A total is the value of any such function.
LEMMA TotalIsTheSum ==
  ASSUME NEW S, IsFiniteSet(S), NEW f, SumsOver(f, S), NEW T \in SUBSET S
  PROVE  Total(T) = f[T]
<1> DEFINE h == [U \in SUBSET T |-> f[U]]
           g == CHOOSE e : SumsOver(e, T)
<1>1. SumsOver(h, T) /\ IsFiniteSet(T)
  BY SumsRestrict, FS_Subset
<1>2. SumsOver(g, T)
  BY <1>1
<1>3. Total(T) = g[T]
  BY TotalIsASum
<1>4. g[T] = h[T]
  <2> HIDE DEF g, h
  <2> QED
    BY <1>1, <1>2, SumsAgree
<1> QED
  BY <1>3, <1>4

\* There is such a function.
LEMMA SumsExist ==
  ASSUME NEW S, IsFiniteSet(S)
  PROVE  \E f : SumsOver(f, S)
<1> DEFINE Good == {T \in SUBSET S : \E f : SumsOver(f, T)}
<1>1. ASSUME NEW T \in SUBSET S, \A U \in SUBSET T : U # T => U \in Good
      PROVE  T \in Good
  <2> DEFINE h == [U \in SUBSET T |->
                     IF U = T THEN IF T = {} THEN 0 ELSE Weight(Pick(T)) + Total(T \ {Pick(T)})
                              ELSE Total(U)]
  <2>1. ASSUME NEW U \in SUBSET T
        PROVE  h[U] = IF U = {} THEN 0 ELSE Weight(Pick(U)) + h[U \ {Pick(U)}]
    <3>1. U # {} => U \ {Pick(U)} \in SUBSET T /\ U \ {Pick(U)} # T /\ U \ {Pick(U)} # U
      BY PickIsMember
    <3>2. CASE U = T
      BY <3>1, <3>2
    <3>3. CASE U # T
      <4>1. PICK f : SumsOver(f, U)
        BY <1>1, <3>3
      <4>2. IsFiniteSet(U)
        BY FS_Subset
      <4>3. Total(U) = f[U] /\ (U # {} => Total(U \ {Pick(U)}) = f[U \ {Pick(U)}])
        BY <4>1, <4>2, TotalIsTheSum
      <4>4. f[U] = IF U = {} THEN 0 ELSE Weight(Pick(U)) + f[U \ {Pick(U)}]
        BY <4>1 DEF SumsOver
      <4>5. h[U] = Total(U) /\ (U # {} => h[U \ {Pick(U)}] = Total(U \ {Pick(U)}))
        BY <3>1, <3>3
      <4> QED
        BY <4>3, <4>4, <4>5
    <3> QED
      BY <3>2, <3>3
  <2>2. h = [U \in SUBSET T |-> IF U = {} THEN 0 ELSE Weight(Pick(U)) + h[U \ {Pick(U)}]]
    BY <2>1
  <2>3. SumsOver(h, T)
    BY <2>2 DEF SumsOver
  <2> QED
    BY <2>3
<1>2. \A T \in SUBSET S : T \in Good
  <2> HIDE DEF Good
  <2> QED
    BY <1>1, SubsetInduction
<1> QED
  BY <1>2

\* The recursion equation of the total.
LEMMA TotalEquation ==
  ASSUME NEW S, IsFiniteSet(S)
  PROVE  Total(S) = IF S = {} THEN 0 ELSE Weight(Pick(S)) + Total(S \ {Pick(S)})
<1>1. PICK f : SumsOver(f, S)
  BY SumsExist
<1>2. Total(S) = f[S] /\ Total(S \ {Pick(S)}) = f[S \ {Pick(S)}]
  BY <1>1, TotalIsTheSum
<1> QED
  BY <1>1, <1>2 DEF SumsOver

\* An item weighs a natural number of bytes.
LEMMA WeightIsNat ==
  ASSUME NEW s \in Item
  PROVE  Weight(s) \in Nat
  BY JobAssumption DEF Weight

\* The bytes of finitely many items are a natural number.
LEMMA TotalIsNat ==
  ASSUME NEW S \in SUBSET Item, IsFiniteSet(S)
  PROVE  Total(S) \in Nat
<1> DEFINE Good == {T \in SUBSET S : Total(T) \in Nat}
<1>1. ASSUME NEW T \in SUBSET S, \A U \in SUBSET T : U # T => U \in Good
      PROVE  T \in Good
  <2>1. IsFiniteSet(T)
    BY FS_Subset
  <2>2. CASE T = {}
    BY <2>1, <2>2, TotalEquation
  <2>3. CASE T # {}
    <3>1. Pick(T) \in T /\ Weight(Pick(T)) \in Nat
      BY <2>3, PickIsMember, WeightIsNat
    <3>2. Total(T \ {Pick(T)}) \in Nat
      BY <1>1, <3>1
    <3>3. Total(T) = Weight(Pick(T)) + Total(T \ {Pick(T)})
      BY <2>1, <2>3, TotalEquation
    <3> QED
      BY <3>1, <3>2, <3>3
  <2> QED
    BY <2>2, <2>3
<1>2. \A T \in SUBSET S : T \in Good
  <2> HIDE DEF Good
  <2> QED
    BY <1>1, SubsetInduction
<1> QED
  BY <1>2

\* Any member may be the last one added.
LEMMA TotalSplits ==
  ASSUME NEW S \in SUBSET Item, IsFiniteSet(S)
  PROVE  \A s \in S : Total(S) = Weight(s) + Total(S \ {s})
<1> DEFINE Good == {T \in SUBSET S : \A s \in T : Total(T) = Weight(s) + Total(T \ {s})}
<1>1. ASSUME NEW T \in SUBSET S, \A U \in SUBSET T : U # T => U \in Good
      PROVE  T \in Good
  <2> SUFFICES ASSUME NEW s \in T
               PROVE  Total(T) = Weight(s) + Total(T \ {s})
    OBVIOUS
  <2> DEFINE p == Pick(T)
  <2>1. p \in T /\ p \in Item /\ s \in Item
    BY PickIsMember
  <2>2. Total(T) = Weight(p) + Total(T \ {p})
    BY TotalEquation, FS_Subset
  <2>3. CASE s = p
    BY <2>2, <2>3
  <2>4. CASE s # p
    <3>1. T \ {p} \in Good /\ T \ {s} \in Good
      <4> HIDE DEF Good
      <4>1. T \ {p} \in SUBSET T /\ T \ {p} # T /\ T \ {s} \in SUBSET T /\ T \ {s} # T
        BY <2>1
      <4> QED
        BY <1>1, <4>1
    <3>2. Total(T \ {p}) = Weight(s) + Total((T \ {p}) \ {s})
      BY <2>1, <2>4, <3>1
    <3>3. Total(T \ {s}) = Weight(p) + Total((T \ {s}) \ {p})
      BY <2>1, <2>4, <3>1
    <3>4. Total((T \ {p}) \ {s}) = Total((T \ {s}) \ {p})
      <4>1. (T \ {p}) \ {s} = (T \ {s}) \ {p}
        OBVIOUS
      <4> QED
        BY <4>1
    <3>5. Weight(p) \in Nat /\ Weight(s) \in Nat
      BY <2>1, WeightIsNat
    <3> HIDE DEF p
    <3>6. Total((T \ {p}) \ {s}) \in Nat
      BY TotalIsNat, FS_Subset
    <3> QED
      BY <2>2, <3>2, <3>3, <3>4, <3>6, <3>5
  <2> QED
    BY <2>3, <2>4
<1>2. \A T \in SUBSET S : T \in Good
  <2> HIDE DEF Good
  <2> QED
    BY <1>1, SubsetInduction
<1> QED
  BY <1>2

\* A part has no more bytes than the whole.
LEMMA TotalIsMonotonic ==
  ASSUME NEW S \in SUBSET Item, IsFiniteSet(S), NEW R \in SUBSET S
  PROVE  Total(R) <= Total(S)
<1> DEFINE Good == {T \in SUBSET S : R \subseteq T => Total(R) <= Total(T)}
<1>1. ASSUME NEW T \in SUBSET S, \A U \in SUBSET T : U # T => U \in Good
      PROVE  T \in Good
  <2> SUFFICES ASSUME R \subseteq T
               PROVE  Total(R) <= Total(T)
    OBVIOUS
  <2>1. IsFiniteSet(T) /\ IsFiniteSet(R)
    BY FS_Subset
  <2>2. Total(R) \in Nat
    BY <2>1, TotalIsNat
  <2>3. CASE R = T
    BY <2>2, <2>3
  <2>4. ASSUME NEW s \in T, s \notin R
        PROVE  Total(R) <= Total(T)
    <3>1. Total(R) <= Total(T \ {s})
      BY <1>1, <2>4
    <3>2. Total(T) = Weight(s) + Total(T \ {s})
      BY <2>1, <2>4, TotalSplits
    <3>3. Total(T \ {s}) \in Nat /\ Weight(s) \in Nat
      BY <2>1, <2>4, FS_Subset, TotalIsNat, WeightIsNat
    <3> QED
      BY <2>2, <3>1, <3>2, <3>3
  <2> QED
    BY <2>3, <2>4
<1>2. \A T \in SUBSET S : T \in Good
  <2> HIDE DEF Good
  <2> QED
    BY <1>1, SubsetInduction
<1> QED
  BY <1>2

-----------------------------------------------------------------------------
(* The byte quota.                                                         *)

\* A save that is past the addition of the bytes, and alone since its count, still
\* has room for its own.
Afford ==
  ~ crowded =>
    /\ Bytes <= MaxBytes
    /\ \A s \in Item : pc[s] = "insert" => Bytes + Weight(s) <= MaxBytes

\* The bytes an account has in use are such a sum.
LEMMA BytesAreTotal == Bytes = Total(Live)
  BY DEF Bytes, Total

LEMMA BytesAreNat ==
  ASSUME TypeOK, Room
  PROVE  Bytes \in Nat
<1>1. Live \in SUBSET Item /\ IsFiniteSet(Live)
  BY DEF Live, Room
<1> QED
  BY <1>1, BytesAreTotal, TotalIsNat

\* What leaves a save less room than it has counted on is another save only.
LEMMA StepAfford ==
  ASSUME TypeOK, Deleting, Room, Room', Afford, [Next]_vars
  PROVE  Afford'
<1> DEFINE Adding == {s \in Item : pc[s] = "insert"}
<1>0. Live \in SUBSET Item /\ IsFiniteSet(Live) /\ Bytes \in Nat /\ Bytes = Total(Live)
      /\ Bytes' = Total(Live')
  <2>1. Bytes = Total(Live)
    BY BytesAreTotal
  <2>2. Bytes' = Total(Live')
    BY DEF Bytes, Total, MapThenSumSet, MapThenFoldSet
  <2> QED
    BY <2>1, <2>2, BytesAreNat DEF Live, Room
<1>1. ASSUME Live' \subseteq Live, Adding' \subseteq Adding, crowded' = crowded
      PROVE  Afford'
  <2>1. Total(Live') <= Total(Live) /\ Total(Live') \in Nat
    BY <1>0, <1>1, TotalIsMonotonic, TotalIsNat, FS_Subset
  <2>2. \A s \in Item : Weight(s) \in Nat
    BY WeightIsNat
  <2> QED
    BY <1>0, <1>1, <2>1, <2>2, BoundAssumption DEF Afford
<1>2. ASSUME NEW s \in Item, Count(s)
      PROVE  Afford'
  <2>1. Live' = Live /\ Adding' \subseteq Adding
    BY <1>2 DEF Count, stores, Live, GoTo, TypeOK
  <2>2. crowded' = crowded \/ crowded' = (crowded \/ Counted # {})
    BY <1>2 DEF Count
  <2>3. ~ crowded' => ~ crowded
    BY <2>2
  <2> QED
    BY <1>0, <2>1, <2>3 DEF Afford
<1>3. ASSUME NEW s \in Item, Sum(s)
      PROVE  Afford'
  <2>1. Live' = Live /\ crowded' = crowded
    BY <1>3 DEF Sum, stores, Live, history
  <2>2. ASSUME NEW t \in Item, pc'[t] = "insert"
        PROVE  pc[t] = "insert" \/ (t = s /\ Bytes + Weight(s) <= MaxBytes)
    <3>1. Weight(s) \in Nat /\ Weight(s) = Size[JobOf[s]]
      BY WeightIsNat DEF Weight
    <3> QED
      BY <1>0, <1>3, <2>2, <3>1, BoundAssumption DEF Sum, GoTo, TypeOK
  <2> QED
    BY <1>0, <2>1, <2>2 DEF Afford
<1>4. ASSUME NEW s \in Item, Insert(s), Store(s)
      PROVE  Afford'
  <2>1. s \notin Live /\ Live' = Live \union {s}
    BY <1>4 DEF Store, MayInsert, LiveOf, Live, TypeOK
  <2>2. Total(Live') = Weight(s) + Total(Live)
    <3>1. Live' \in SUBSET Item /\ IsFiniteSet(Live') /\ s \in Live' /\ Live' \ {s} = Live
      BY <1>0, <2>1, FS_AddElement
    <3> QED
      BY <3>1, TotalSplits
  <2>3. crowded' = crowded /\ pc[s] = "insert"
    BY <1>4 DEF Insert
  <2>4. ~ crowded => \A t \in Item : pc'[t] # "insert"
    <3>1. ~ crowded => \A t \in Item : pc[t] = "insert" => t = s
      BY <2>3 DEF Room, Counted
    <3> QED
      BY <1>4, <3>1 DEF Insert, GoTo, TypeOK
  <2> QED
    BY <1>0, <2>2, <2>3, <2>4, WeightIsNat DEF Afford
<1>5. ASSUME NEW s \in Item, SaveAct(s), ~ Count(s), ~ Sum(s), ~ (Insert(s) /\ Store(s))
      PROVE  Adding' \subseteq Adding /\ crowded' = crowded /\ Live' = Live
  BY <1>5 DEF SaveAct, SaveStep, StartSave, Find, Copy, Discard, Insert, Undo,
     FindAgain, Read, StopSave, GoTo, AnswerWith, Live, stores, history, TypeOK
<1>6. ASSUME NEW d \in Deleter, DeleteAct(d)
      PROVE  Adding' = Adding /\ crowded' = crowded /\ Live' \subseteq Live
  BY <1>6 DEF DeleteAct, DeleteStep, SoftDelete, DeleteObject, HardDelete, StopDelete,
     StartDelete, Deleting, DeletingItem, Live, stores, saves, history, TypeOK
<1>7. CASE Close \/ UNCHANGED vars
  <2>1. Adding' = Adding /\ crowded' = crowded /\ Live' \subseteq Live
    BY <1>7 DEF Close, StartClosing, CloseObject, CloseAccount, StopClosing,
       Live, vars, stores, saves, history, TypeOK
  <2> QED
    BY <1>1, <2>1
<1> QED
  BY <1>1, <1>2, <1>3, <1>4, <1>5, <1>6, <1>7 DEF Next, SaveAct, DeleteAct

\* However many saves there are and whatever they weigh, either quota is exceeded
\* only if two of them were between count and insert at the same time
\* (saveJobToLibrary).
THEOREM QuotasHold == Spec => []QuotaUnlessCrowded
<1>1. Init => Afford
  <2> SUFFICES ASSUME Init
               PROVE  Afford
    OBVIOUS
  <2>1. Live = {}
    BY DEF Init, Live
  <2>2. Total({}) = 0
    BY TotalEquation, FS_EmptySet
  <2> QED
    BY <2>1, <2>2, BytesAreTotal, BoundAssumption DEF Afford, Init
<1>2. IInv /\ IInv' /\ Afford /\ [Next]_vars => Afford'
  BY StepAfford DEF IInv
<1>3. IInv /\ Afford => QuotaUnlessCrowded
  BY DEF IInv, Room, ItemQuota, Afford, ByteQuota, QuotaUnlessCrowded
<1> QED
  BY <1>1, <1>2, <1>3, Invariance, PTL DEF Spec
=============================================================================
