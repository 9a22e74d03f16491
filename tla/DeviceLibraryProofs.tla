------------------------ MODULE DeviceLibraryProofs ------------------------
(***************************************************************************)
(* Theorems about DeviceLibrary, for any number of devices, items and      *)
(* clients.                                                                *)
(*                                                                         *)
(* What is inductive: a version that has been won lies below the device's  *)
(* present version (Past), so the version a PUT compares with cannot have  *)
(* been won before; and a client about to write its rows holds a version   *)
(* that its own list has won (Entitled).                                   *)
(***************************************************************************)
EXTENDS DeviceLibrary, FiniteSetTheorems, TLAPS

\* A version that was won is older than the present one.
Past ==
  \A d \in Device : \A v \in 1 .. MaxVersion :
    accepted[d][v] # {} => version[d] > v

\* Where a client works on a device, and holds a version of it.
OnDevice(l) ==
  l \in {"getDevice", "getItems", "editing", "checkDevice", "countOwned",
         "increment", "replace", "reload"}
HoldsVersion(l) == OnDevice(l) /\ l # "getDevice"

\* A client on its way to the batch works on a device, with a version that
\* existed; past the increment that version was won by its own list.
EntitledClient(c) ==
  /\ OnDevice(pc[c]) => dev[c] \in Device
  /\ HoldsVersion(pc[c]) => ver[c] \in 1 .. version[dev[c]]
  /\ pc[c] \in {"replace", "reload"} =>
       /\ ver[c] < version[dev[c]]
       /\ want[c] \in accepted[dev[c]][ver[c]]

Entitled == \A c \in Client : EntitledClient(c)

\* A client that deletes an item names one, and after the soft delete the item
\* is no longer live.
DeletingClient(c) ==
  /\ pc[c] \in {"softDelete", "removeRows", "bump", "deleteObject", "hardDelete"}
       => item[c] \in Item
  /\ pc[c] \in {"removeRows", "bump", "deleteObject", "hardDelete"}
       => itemState[item[c]] \in {"soft", "gone"}

Deleting == \A c \in Client : DeletingClient(c)

\* Lists are finite, so that positions can be counted.
FiniteLists ==
  /\ \A d \in Device : IsFiniteSet(rows[d])
  /\ \A c \in Client : IsFiniteSet(want[c])

IInv ==
  TypeOK /\ FiniteLists /\ Past /\ Entitled /\ Deleting /\ VersionWonOnce /\ OnlyWinnersLand

-----------------------------------------------------------------------------
(* The lists of the code.                                                  *)

LEMMA CountIsNat ==
  ASSUME NEW S, IsFiniteSet(S)
  PROVE  Cardinality(S) \in Nat
BY FS_CardinalityType

\* A list an editor submits has rows and is finite (buildDeviceLibraryEntries).
LEMMA ListsAreLists ==
  ASSUME NEW l \in Lists
  PROVE  l \subseteq Row /\ IsFiniteSet(l)
<1>1. PICK S \in SUBSET Item :
        \E f \in {g \in [S -> 0 .. Cardinality(S) - 1] :
                  \A i, j \in S : g[i] = g[j] => i = j} :
          l = {<<i, f[i]>> : i \in S}
  BY DEF Lists
<1>2. PICK f \in [S -> 0 .. Cardinality(S) - 1] : l = {<<i, f[i]>> : i \in S}
  BY <1>1
<1>3. IsFiniteSet(S)
  BY ItemAssumption, FS_Subset
<1>4. Cardinality(S) \in Nat
  BY <1>3, CountIsNat
<1>5. l \subseteq Row
  BY <1>2, <1>4 DEF Row
<1> DEFINE g == [i \in S |-> <<i, f[i]>>]
<1>6. g \in Surjection(S, l)
  BY <1>2 DEF Surjection
<1>7. IsFiniteSet(l)
  BY <1>3, <1>6, FS_Surjection
<1> QED
  BY <1>5, <1>7

\* So has the list of the auto-delivery.
LEMMA PrependIsList ==
  ASSUME NEW i \in Item, NEW l \in SUBSET Row, IsFiniteSet(l)
  PROVE  Prepend(i, l) \subseteq Row /\ IsFiniteSet(Prepend(i, l))
<1> DEFINE At(row) == 1 + Cardinality({r \in l : r[2] < row[2]})
           Rest == {<<row[1], At(row)>> : row \in l}
<1>1. ASSUME NEW row \in l
      PROVE  At(row) \in Nat
  <2>1. IsFiniteSet({r \in l : r[2] < row[2]})
    BY FS_Subset
  <2>2. Cardinality({r \in l : r[2] < row[2]}) \in Nat
    BY <2>1, CountIsNat
  <2> QED
    BY <2>2
<1> HIDE DEF At
<1>2. Rest \subseteq Row
  BY <1>1 DEF Row
<1> DEFINE g == [row \in l |-> <<row[1], At(row)>>]
<1>3. IsFiniteSet(Rest)
  <2>1. g \in Surjection(l, Rest)
    BY DEF Surjection
  <2> QED
    BY <2>1, FS_Surjection
<1>4. Prepend(i, l) = {<<i, 0>>} \union Rest
  BY DEF Prepend, At
<1>5. {<<i, 0>>} \subseteq Row
  BY DEF Row
<1>6. IsFiniteSet({<<i, 0>>})
  BY FS_Singleton
<1> QED
  BY <1>2, <1>3, <1>4, <1>5, <1>6, FS_Union

LEMMA PartsOfLists ==
  ASSUME NEW l \in SUBSET Row
  PROVE  /\ Visible(l) \subseteq l
         /\ \A i : Without(l, i) \subseteq l
BY DEF Visible, Without

-----------------------------------------------------------------------------
(* Types.                                                                  *)

LEMMA InitTypes == Init => TypeOK
BY BoundAssumption DEF Init, TypeOK, Labels

LEMMA FinishTypes ==
  ASSUME TypeOK, NEW c \in Client, Finish(c)
  PROVE  /\ pc' \in [Client -> Labels]
         /\ dev' \in [Client -> Device \union {NoDevice}]
         /\ ver' \in [Client -> 0 .. MaxVersion]
         /\ base' \in [Client -> SUBSET Row]
         /\ want' \in [Client -> SUBSET Row]
         /\ item' \in [Client -> Item \union {NoItem}]
         /\ affected' \in [Client -> SUBSET Device]
BY BoundAssumption DEF TypeOK, Finish, GoTo, Labels

\* One step per action; a request that ends takes the same way everywhere.
LEMMA StepTypes ==
  ASSUME TypeOK, FiniteLists, Entitled, Deleting, [Next]_vars
  PROVE  TypeOK'
<1> USE BoundAssumption
<1>1. ASSUME NEW c \in Client, (\E d \in Device : Open(c, d))
      PROVE  TypeOK'
  BY <1>1 DEF Open, TypeOK, Labels, GoTo, tables, locals, history
<1>2. ASSUME NEW c \in Client, GetDevice(c)
      PROVE  TypeOK'
  BY <1>2 DEF GetDevice, Notice, TypeOK, Labels, GoTo, tables, locals, history, Entitled, EntitledClient, OnDevice, HoldsVersion
<1>3. ASSUME NEW c \in Client, ShowItems(c)
      PROVE  TypeOK'
  BY <1>3, PartsOfLists DEF ShowItems, TypeOK, Labels, GoTo, tables, locals, history, Entitled, EntitledClient, OnDevice, HoldsVersion
<1>4. ASSUME NEW c \in Client, Submit(c)
      PROVE  TypeOK'
  BY <1>4, ListsAreLists DEF Submit, TypeOK, Labels, GoTo, tables, locals, history
<1>5. ASSUME NEW c \in Client, CheckDevice(c)
      PROVE  TypeOK'
  <2>1. CASE Finish(c)
    BY <1>5, <2>1, FinishTypes DEF CheckDevice, TypeOK, tables, history
  <2>2. CASE ~ Finish(c)
    BY <1>5, <2>2 DEF CheckDevice, TypeOK, Labels, GoTo, tables, locals, history
  <2> QED
    BY <2>1, <2>2
<1>6. ASSUME NEW c \in Client, CountOwned(c)
      PROVE  TypeOK'
  <2>1. CASE Finish(c)
    BY <1>6, <2>1, FinishTypes DEF CountOwned, TypeOK, tables, history
  <2>2. CASE ~ Finish(c)
    BY <1>6, <2>2 DEF CountOwned, TypeOK, Labels, GoTo, tables, locals, history
  <2> QED
    BY <2>1, <2>2
<1>7. ASSUME NEW c \in Client, Increment(c)
      PROVE  TypeOK'
  <2>1. CASE Finish(c)
    <3>1. pc'[c] = "idle" /\ pc' # [pc EXCEPT ![c] = "replace"]
      BY <2>1 DEF Finish, GoTo, TypeOK
    <3>2. UNCHANGED <<status, version, rows, itemState, accepted, rowsOf>>
      BY <1>7, <3>1 DEF Increment, GoTo
    <3>3. dev[c] \in Device /\ raced' \subseteq Device
      BY <1>7 DEF Increment, Notice, TypeOK, Entitled, EntitledClient, OnDevice
    <3> QED
      BY <2>1, <3>2, <3>3, FinishTypes DEF TypeOK
  <2>2. CASE ~ Finish(c)
    <3>1. /\ dev[c] \in Device
          /\ ver[c] \in 1 .. version[dev[c]]
          /\ version[dev[c]] \in 1 .. MaxVersion
      BY <1>7 DEF Increment, TypeOK, Entitled, EntitledClient, OnDevice, HoldsVersion
    <3>2. ver[c] \in 1 .. MaxVersion
      BY <3>1
    <3>3. accepted[dev[c]][ver[c]] \union {want[c]} \in SUBSET SUBSET Row
      BY <3>1, <3>2 DEF TypeOK
    <3>4. [accepted[dev[c]] EXCEPT ![ver[c]] = @ \union {want[c]}]
            \in [1 .. MaxVersion -> SUBSET SUBSET Row]
      BY <3>1, <3>3 DEF TypeOK
    <3>5. /\ version[dev[c]] < MaxVersion
          /\ version' = [version EXCEPT ![dev[c]] = @ + 1]
          /\ accepted' = [accepted EXCEPT ![dev[c]][ver[c]] = @ \union {want[c]}]
          /\ pc' = [pc EXCEPT ![c] = "replace"]
          /\ (raced' = raced \/ raced' = raced \union {dev[c]})
          /\ UNCHANGED <<locals, status, rows, itemState, rowsOf>>
      BY <1>7, <2>2 DEF Increment, Notice, GoTo
    <3>7. accepted' \in [Device -> [1 .. MaxVersion -> SUBSET SUBSET Row]]
      BY <3>1, <3>4, <3>5 DEF TypeOK
    <3>6. version' \in [Device -> 1 .. MaxVersion]
      BY <3>1, <3>5 DEF TypeOK
    <3> QED
      BY <3>1, <3>5, <3>6, <3>7 DEF TypeOK, Labels, locals
  <2> QED
    BY <2>1, <2>2
<1>8. ASSUME NEW c \in Client, Replace(c)
      PROVE  TypeOK'
  <2>1. CASE Finish(c)
    <3>1. pc'[c] = "idle" /\ pc' # [pc EXCEPT ![c] = "reload"]
      BY <2>1 DEF Finish, GoTo, TypeOK
    <3>2. UNCHANGED <<rows, rowsOf, status, version, itemState, accepted, raced>>
      BY <1>8, <3>1 DEF Replace, GoTo
    <3> QED
      BY <2>1, <3>2, FinishTypes DEF TypeOK
  <2>2. CASE ~ Finish(c)
    <3>1. dev[c] \in Device /\ ver[c] \in 0 .. MaxVersion
      BY <1>8 DEF Replace, TypeOK, Entitled, EntitledClient, OnDevice
    <3>2. /\ rows' = [rows EXCEPT ![dev[c]] = want[c]]
          /\ rowsOf' = [rowsOf EXCEPT ![dev[c]] = ver[c]]
          /\ pc' = [pc EXCEPT ![c] = "reload"]
          /\ UNCHANGED <<locals, status, version, itemState, accepted, raced>>
      BY <1>8, <2>2 DEF Replace, GoTo
    <3> QED
      BY <3>1, <3>2 DEF TypeOK, Labels, locals
  <2> QED
    BY <2>1, <2>2
<1>9. ASSUME NEW c \in Client, Reload(c)
      PROVE  TypeOK'
  <2>1. CASE Finish(c)
    BY <1>9, <2>1, FinishTypes DEF Reload, TypeOK, tables, history
  <2>2. CASE ~ Finish(c)
    <3>1. dev[c] \in Device /\ ver[c] + 1 \in 0 .. MaxVersion
      BY <1>9 DEF Reload, TypeOK, Entitled, EntitledClient, OnDevice
    <3>2. Visible(rows[dev[c]]) \in SUBSET Row
      BY <3>1, PartsOfLists DEF TypeOK
    <3>3. /\ ver' = [ver EXCEPT ![c] = @ + 1]
          /\ base' = [base EXCEPT ![c] = Visible(rows[dev[c]])]
          /\ want' = [want EXCEPT ![c] = {}]
          /\ pc' = [pc EXCEPT ![c] = "editing"]
          /\ UNCHANGED <<dev, item, affected, tables, history>>
      BY <1>9, <2>2 DEF Reload, GoTo
    <3> QED
      BY <3>1, <3>2, <3>3 DEF TypeOK, Labels, tables, history
  <2> QED
    BY <2>1, <2>2
<1>10. ASSUME NEW c \in Client, (\E i \in Item : Save(c, i))
      PROVE  TypeOK'
  BY <1>10 DEF Save, TypeOK, Labels, GoTo, tables, locals, history
<1>11. ASSUME NEW c \in Client, AutoDevices(c)
      PROVE  TypeOK'
  <2>1. CASE Finish(c)
    BY <1>11, <2>1, FinishTypes DEF AutoDevices, TypeOK, tables, history
  <2>2. CASE ~ Finish(c)
    <3> DEFINE active == {d \in Device : status[d] = "active"}
    <3>1. Cardinality(active) = 1
      BY <1>11, <2>2 DEF AutoDevices
    <3>2. active # {}
      BY <3>1, FS_EmptySet
    <3>3. (CHOOSE d \in Device : d \in active) \in Device
      BY <3>2
    <3> QED
      BY <1>11, <2>2, <3>3 DEF AutoDevices, TypeOK, Labels, GoTo, tables, locals, history
  <2> QED
    BY <2>1, <2>2
<1>12. ASSUME NEW c \in Client, AutoItems(c)
      PROVE  TypeOK'
  <2>1. CASE Finish(c)
    BY <1>12, <2>1, FinishTypes DEF AutoItems, TypeOK, tables, history
  <2>2. CASE ~ Finish(c)
    <3>1. dev[c] \in Device /\ item[c] \in Item
      BY <1>12 DEF AutoItems, TypeOK, Entitled, EntitledClient, OnDevice
    <3>2. Visible(rows[dev[c]]) \in SUBSET Row
      BY <3>1, PartsOfLists DEF TypeOK
    <3>3. IsFiniteSet(Visible(rows[dev[c]]))
      BY <3>1, PartsOfLists, FS_Subset DEF TypeOK, FiniteLists
    <3>4. Prepend(item[c], Visible(rows[dev[c]])) \in SUBSET Row
      BY <3>1, <3>2, <3>3, PrependIsList
    <3>5. /\ base' = [base EXCEPT ![c] = Visible(rows[dev[c]])]
          /\ want' = [want EXCEPT ![c] = Prepend(item[c], Visible(rows[dev[c]]))]
          /\ pc' = [pc EXCEPT ![c] = "checkDevice"]
          /\ UNCHANGED <<dev, ver, item, affected, tables, history>>
      BY <1>12, <2>2 DEF AutoItems, GoTo
    <3> QED
      BY <3>2, <3>4, <3>5 DEF TypeOK, Labels, tables, history
  <2> QED
    BY <2>1, <2>2
<1>13. ASSUME NEW c \in Client, (\E i \in Item : Delete(c, i))
      PROVE  TypeOK'
  BY <1>13 DEF Delete, TypeOK, Labels, GoTo, tables, locals, history
<1>14. ASSUME NEW c \in Client, SoftDelete(c)
      PROVE  TypeOK'
  <2>1. CASE Finish(c)
    BY <1>14, <2>1, FinishTypes DEF SoftDelete, TypeOK, tables, history
  <2>2. CASE ~ Finish(c)
    BY <1>14, <2>2 DEF SoftDelete, TypeOK, Labels, GoTo, tables, locals, history, Deleting, DeletingClient
  <2> QED
    BY <2>1, <2>2
<1>15. ASSUME NEW c \in Client, RemoveRows(c)
      PROVE  TypeOK'
  BY <1>15, PartsOfLists DEF RemoveRows, TypeOK, Labels, GoTo, tables, locals, history, Deleting, DeletingClient
<1>16. ASSUME NEW c \in Client, Bump(c)
      PROVE  TypeOK'
  BY <1>16 DEF Bump, TypeOK, Labels, GoTo, tables, locals, history
<1>17. ASSUME NEW c \in Client, DeleteObject(c)
      PROVE  TypeOK'
  <2>1. CASE Finish(c)
    BY <1>17, <2>1, FinishTypes DEF DeleteObject, TypeOK, tables, history
  <2>2. CASE ~ Finish(c)
    BY <1>17, <2>2 DEF DeleteObject, TypeOK, Labels, GoTo, tables, locals, history
  <2> QED
    BY <2>1, <2>2
<1>18. ASSUME NEW c \in Client, HardDelete(c)
      PROVE  TypeOK'
  <2>1. CASE Finish(c)
    BY <1>18, <2>1, FinishTypes, PartsOfLists DEF HardDelete, TypeOK, tables, history, Deleting, DeletingClient
  <2> QED
    BY <1>18, <2>1 DEF HardDelete
<1>19. ASSUME NEW c \in Client, Stop(c)
      PROVE  TypeOK'
  <2>1. CASE Finish(c)
    BY <1>19, <2>1, FinishTypes DEF Stop, TypeOK, tables, history
  <2> QED
    BY <1>19, <2>1 DEF Stop
<1>20. ASSUME NEW d \in Device, Revoke(d)
      PROVE  TypeOK'
  BY <1>20 DEF Revoke, TypeOK, locals, history
<1>21. CASE UNCHANGED vars
  BY <1>21 DEF vars, TypeOK, tables, locals, history
<1>22. ASSUME NEW c \in Client, Read(c) \/ Put(c)
       PROVE  TypeOK'
  BY <1>1, <1>2, <1>3, <1>4, <1>5, <1>6, <1>7, <1>8, <1>9, <1>22 DEF Read, Put
<1>23. ASSUME NEW c \in Client, AutoDeliver(c) \/ Erase(c)
       PROVE  TypeOK'
  BY <1>10, <1>11, <1>12, <1>13, <1>14, <1>15, <1>16, <1>17, <1>18, <1>23
     DEF AutoDeliver, Erase
<1> QED
  BY <1>19, <1>20, <1>21, <1>22, <1>23 DEF Next

-----------------------------------------------------------------------------
(* What a step can change.                                                 *)

Act(c) == Read(c) \/ Put(c) \/ AutoDeliver(c) \/ Erase(c) \/ Stop(c)

\* A step is one client's, or a revocation, or nothing.
LEMMA Steps ==
  ASSUME [Next]_vars
  PROVE  \/ \E c \in Client : Act(c)
         \/ /\ \E d \in Device : Revoke(d)
            /\ UNCHANGED <<version, rows, itemState, pc, locals, history>>
         \/ UNCHANGED <<version, rows, itemState, pc, locals, history>>
BY DEF Next, Act, Revoke, vars, tables

\* The local state of a client is its own.
LEMMA OnlyActor ==
  ASSUME TypeOK, NEW c \in Client, Act(c), NEW o \in Client, o # c
  PROVE  /\ pc'[o] = pc[o] /\ dev'[o] = dev[o] /\ ver'[o] = ver[o]
         /\ want'[o] = want[o] /\ item'[o] = item[o]
<1>1. CASE Finish(c)
  BY <1>1 DEF Finish, GoTo, TypeOK
<1>2. CASE Read(c)
  BY <1>2 DEF Read, Open, GetDevice, ShowItems, GoTo, TypeOK
<1>3. CASE Put(c) /\ ~ Finish(c)
  BY <1>3 DEF Put, Submit, CheckDevice, CountOwned, Increment, Replace, Reload,
     GoTo, locals, TypeOK
<1>4. CASE AutoDeliver(c) /\ ~ Finish(c)
  BY <1>4 DEF AutoDeliver, Save, AutoDevices, AutoItems, GoTo, locals, TypeOK
<1>5. CASE Erase(c) /\ ~ Finish(c)
  BY <1>5 DEF Erase, Delete, SoftDelete, RemoveRows, Bump, DeleteObject,
     HardDelete, GoTo, locals, TypeOK
<1> QED
  BY <1>1, <1>2, <1>3, <1>4, <1>5 DEF Act, Stop

\* Versions never go down; a list that won a version stays its winner.
LEMMA VersionsGrow ==
  ASSUME TypeOK, Entitled, [Next]_vars, NEW d \in Device
  PROVE  /\ version'[d] >= version[d]
         /\ \A v \in 1 .. MaxVersion : accepted[d][v] \subseteq accepted'[d][v]
<1>1. CASE UNCHANGED <<version, accepted>>
  BY <1>1, BoundAssumption DEF TypeOK
<1>2. ASSUME NEW c \in Client, Increment(c), version' # version
      PROVE  /\ version'[d] >= version[d]
             /\ \A v \in 1 .. MaxVersion : accepted[d][v] \subseteq accepted'[d][v]
  <2>1. /\ version' = [version EXCEPT ![dev[c]] = @ + 1]
        /\ accepted' = [accepted EXCEPT ![dev[c]][ver[c]] = @ \union {want[c]}]
    BY <1>2 DEF Increment
  <2> QED
    BY <2>1, BoundAssumption DEF TypeOK
<1>3. ASSUME NEW c \in Client, Bump(c)
      PROVE  /\ version'[d] >= version[d]
             /\ \A v \in 1 .. MaxVersion : accepted[d][v] \subseteq accepted'[d][v]
  BY <1>3, BoundAssumption DEF Bump, TypeOK, history
<1>4. CASE \E c \in Client : Act(c)
  <2>1. PICK c \in Client : Act(c)
    BY <1>4
  <2>2. CASE Increment(c)
    <3>1. version' = version => accepted' = accepted
      BY <2>2 DEF Increment, TypeOK, Entitled, EntitledClient, OnDevice
    <3> QED
      BY <1>1, <1>2, <2>2, <3>1
  <2>3. CASE Bump(c)
    BY <1>3, <2>3
  <2>4. CASE ~ Increment(c) /\ ~ Bump(c)
    <3>1. UNCHANGED <<version, accepted>>
      BY <2>1, <2>4 DEF Act, Read, Open, GetDevice, ShowItems, Put, Submit,
         CheckDevice, CountOwned, Replace, Reload, AutoDeliver, Save,
         AutoDevices, AutoItems, Erase, Delete, SoftDelete, RemoveRows,
         DeleteObject, HardDelete, Stop, tables, history
    <3> QED
      BY <1>1, <3>1
  <2> QED
    BY <2>2, <2>3, <2>4
<1> QED
  BY <1>1, <1>4, Steps DEF history

Dead(i) == itemState[i] \in {"soft", "gone"}

\* An item that was deleted stays deleted.
LEMMA DeletedStaysDeleted ==
  ASSUME TypeOK, Deleting, [Next]_vars, NEW i \in Item, Dead(i)
  PROVE  Dead(i)'
<1>1. CASE \E c \in Client : Act(c)
  <2>1. PICK c \in Client : Act(c)
    BY <1>1
  <2>2. CASE UNCHANGED itemState
    BY <2>2 DEF Dead
  <2>3. CASE \E j \in Item : Save(c, j)
    BY <2>3 DEF Save, Dead, TypeOK
  <2>4. CASE SoftDelete(c)
    BY <2>4 DEF SoftDelete, Dead, TypeOK
  <2>5. CASE HardDelete(c)
    BY <2>5 DEF HardDelete, Dead, TypeOK, Deleting, DeletingClient
  <2> QED
    BY <2>1, <2>2, <2>3, <2>4, <2>5 DEF Act, Read, Open, GetDevice, ShowItems,
       Put, Submit, CheckDevice, CountOwned, Increment, Replace, Reload,
       AutoDeliver, AutoDevices, AutoItems, Erase, Delete, RemoveRows, Bump,
       DeleteObject, Stop, tables
<1> QED
  BY <1>1, Steps DEF Dead

\* The rows of a device change by the batch of a client that won, or lose
\* rows of deleted items.
LEMMA RowsChange ==
  ASSUME TypeOK, Entitled, Deleting, [Next]_vars, NEW d \in Device
  PROVE  \/ /\ rowsOf'[d] = rowsOf[d]
            /\ rows'[d] \subseteq rows[d]
            /\ \A row \in rows[d] \ rows'[d] : Dead(row[1])'
         \/ \E c \in Client :
              /\ pc[c] = "replace" /\ dev[c] = d
              /\ rowsOf'[d] = ver[c] /\ rows'[d] = want[c]
              /\ UNCHANGED accepted
<1>1. CASE UNCHANGED <<rows, rowsOf>>
  BY <1>1
<1>2. ASSUME NEW c \in Client, Act(c), ~ UNCHANGED <<rows, rowsOf>>
      PROVE  Replace(c) \/ RemoveRows(c) \/ HardDelete(c)
  BY <1>2 DEF Act, Read, Open, GetDevice, ShowItems, Put, Submit, CheckDevice,
     CountOwned, Increment, Reload, AutoDeliver, Save, AutoDevices, AutoItems,
     Erase, Delete, SoftDelete, Bump, DeleteObject, Stop, tables, history
<1>3. ASSUME NEW c \in Client, Replace(c), ~ UNCHANGED <<rows, rowsOf>>
      PROVE  \/ rowsOf'[d] = rowsOf[d] /\ rows'[d] = rows[d]
             \/ /\ pc[c] = "replace" /\ dev[c] = d
                /\ rowsOf'[d] = ver[c] /\ rows'[d] = want[c]
                /\ UNCHANGED accepted
  <2>1. /\ pc[c] = "replace"
        /\ rows' = [rows EXCEPT ![dev[c]] = want[c]]
        /\ rowsOf' = [rowsOf EXCEPT ![dev[c]] = ver[c]]
        /\ UNCHANGED accepted
    BY <1>3 DEF Replace
  <2> QED
    BY <2>1 DEF TypeOK
<1>4. ASSUME NEW c \in Client, RemoveRows(c)
      PROVE  /\ rowsOf'[d] = rowsOf[d]
             /\ rows'[d] \subseteq rows[d]
             /\ \A row \in rows[d] \ rows'[d] : Dead(row[1])'
  BY <1>4 DEF RemoveRows, Without, Dead, Deleting, DeletingClient, history
<1>5. ASSUME NEW c \in Client, HardDelete(c)
      PROVE  /\ rowsOf'[d] = rowsOf[d]
             /\ rows'[d] \subseteq rows[d]
             /\ \A row \in rows[d] \ rows'[d] : Dead(row[1])'
  BY <1>5 DEF HardDelete, Without, Dead, Deleting, DeletingClient, TypeOK, history
<1> QED
  BY <1>1, <1>2, <1>3, <1>4, <1>5, Steps DEF history

\* A version is won by a client that compared it with the present one.
LEMMA WinningStep ==
  ASSUME TypeOK, Entitled, [Next]_vars, accepted' # accepted
  PROVE  \E c \in Client :
           /\ pc[c] = "increment" /\ dev[c] \in Device
           /\ version[dev[c]] = ver[c] /\ ver[c] \in 1 .. MaxVersion
           /\ version' = [version EXCEPT ![dev[c]] = @ + 1]
           /\ accepted' = [accepted EXCEPT ![dev[c]][ver[c]] = @ \union {want[c]}]
<1>1. PICK c \in Client : Act(c)
  BY Steps DEF history
<1>2. Increment(c)
  BY <1>1 DEF Act, Read, Open, GetDevice, ShowItems, Put, Submit,
     CheckDevice, CountOwned, Replace, Reload, AutoDeliver, Save,
     AutoDevices, AutoItems, Erase, Delete, SoftDelete, RemoveRows, Bump,
     DeleteObject, HardDelete, Stop, tables, history
<1>3. dev[c] \in Device
  BY <1>2 DEF Increment, Entitled, EntitledClient, OnDevice
<1> QED
  BY <1>2, <1>3 DEF Increment, TypeOK

-----------------------------------------------------------------------------
(* The invariants.                                                         *)

LEMMA PastStep ==
  ASSUME TypeOK, TypeOK', Entitled, Past, [Next]_vars
  PROVE  Past'
<1>1. CASE UNCHANGED accepted
  <2> SUFFICES ASSUME NEW d \in Device, NEW v \in 1 .. MaxVersion,
                      accepted[d][v] # {}
               PROVE  version'[d] > v
    BY <1>1 DEF Past
  <2>1. version[d] > v
    BY DEF Past
  <2> QED
    BY <2>1, VersionsGrow DEF TypeOK
<1>2. CASE accepted' # accepted
  <2>1. PICK c \in Client :
          /\ dev[c] \in Device
          /\ version[dev[c]] = ver[c] /\ ver[c] \in 1 .. MaxVersion
          /\ version' = [version EXCEPT ![dev[c]] = @ + 1]
          /\ accepted' = [accepted EXCEPT ![dev[c]][ver[c]] = @ \union {want[c]}]
    BY <1>2, WinningStep
  <2> QED
    BY <2>1, BoundAssumption DEF Past, TypeOK
<1> QED
  BY <1>1, <1>2

LEMMA WonOnceStep ==
  ASSUME TypeOK, Entitled, Past, VersionWonOnce, [Next]_vars
  PROVE  VersionWonOnce'
<1>1. CASE UNCHANGED accepted
  BY <1>1 DEF VersionWonOnce
<1>2. CASE accepted' # accepted
  <2>1. PICK c \in Client :
          /\ dev[c] \in Device
          /\ version[dev[c]] = ver[c] /\ ver[c] \in 1 .. MaxVersion
          /\ accepted' = [accepted EXCEPT ![dev[c]][ver[c]] = @ \union {want[c]}]
    BY <1>2, WinningStep
  <2>2. ~ (version[dev[c]] > ver[c])
    BY <2>1, BoundAssumption
  <2>3. accepted[dev[c]][ver[c]] = {}
    BY <2>1, <2>2 DEF Past
  <2> QED
    BY <2>1, <2>3 DEF VersionWonOnce, TypeOK
<1> QED
  BY <1>1, <1>2

LEMMA WinnersLandStep ==
  ASSUME TypeOK, TypeOK', Entitled, Deleting, OnlyWinnersLand, [Next]_vars
  PROVE  OnlyWinnersLand'
<1> SUFFICES ASSUME NEW d \in Device
             PROVE  IF rowsOf'[d] = 0
                    THEN rows'[d] = {}
                    ELSE \E l \in accepted'[d][rowsOf'[d]] :
                           /\ rows'[d] \subseteq l
                           /\ \A row \in l \ rows'[d] : Dead(row[1])'
  BY DEF OnlyWinnersLand, Dead
<1>1. CASE /\ rowsOf'[d] = rowsOf[d]
           /\ rows'[d] \subseteq rows[d]
           /\ \A row \in rows[d] \ rows'[d] : Dead(row[1])'
  <2>1. CASE rowsOf[d] = 0
    BY <1>1, <2>1 DEF OnlyWinnersLand
  <2>2. CASE rowsOf[d] # 0
    <3>1. rowsOf[d] \in 1 .. MaxVersion
      BY <2>2, BoundAssumption DEF TypeOK
    <3>2. PICK l \in accepted[d][rowsOf[d]] :
            /\ rows[d] \subseteq l
            /\ \A row \in l \ rows[d] : Dead(row[1])
      BY <2>2 DEF OnlyWinnersLand, Dead
    <3>3. l \in accepted'[d][rowsOf'[d]]
      BY <1>1, <3>1, <3>2, VersionsGrow
    <3>4. \A row \in l : row[1] \in Item
      <4>1. accepted[d] \in [1 .. MaxVersion -> SUBSET SUBSET Row]
        BY DEF TypeOK
      <4>2. \A k \in accepted[d][rowsOf[d]] : k \in SUBSET Row
        BY <3>1, <4>1
      <4>3. l \in SUBSET Row
        BY <3>2, <4>2
      <4> QED
        BY <4>3 DEF Row
    <3>5. \A row \in l \ rows[d] : Dead(row[1])'
      BY <3>2, <3>4, DeletedStaysDeleted
    <3> QED
      BY <1>1, <2>2, <3>2, <3>3, <3>5
  <2> QED
    BY <2>1, <2>2
<1>2. ASSUME NEW c \in Client,
             pc[c] = "replace", dev[c] = d,
             rowsOf'[d] = ver[c], rows'[d] = want[c],
             UNCHANGED accepted
      PROVE  /\ rowsOf'[d] # 0
             /\ rows'[d] \in accepted'[d][rowsOf'[d]]
  <2>1. EntitledClient(c)
    BY DEF Entitled
  <2>2. ver[c] \in 1 .. version[d] /\ want[c] \in accepted[d][ver[c]]
    BY <1>2, <2>1 DEF EntitledClient, OnDevice, HoldsVersion
  <2>3. version[d] \in 1 .. MaxVersion
    BY DEF TypeOK
  <2> QED
    BY <1>2, <2>2, <2>3, BoundAssumption
<1> QED
  BY <1>1, <1>2, RowsChange

LEMMA DeletingStep ==
  ASSUME TypeOK, Deleting, [Next]_vars
  PROVE  Deleting'
<1>1. ASSUME NEW c \in Client, Act(c), NEW o \in Client
      PROVE  DeletingClient(o)'
  <2>1. CASE o # c
    BY <1>1, <2>1, OnlyActor, DeletedStaysDeleted
       DEF Deleting, DeletingClient, Dead
  <2>2. CASE o = c /\ Finish(c)
    BY <2>2 DEF Finish, GoTo, DeletingClient, TypeOK
  <2>3. CASE o = c /\ Erase(c) /\ ~ Finish(c)
    BY <2>3 DEF Erase, Delete, SoftDelete, RemoveRows, Bump, DeleteObject,
       HardDelete, GoTo, Deleting, DeletingClient, TypeOK, locals, tables
  <2>4. CASE o = c /\ Put(c) /\ ~ Finish(c)
    BY <2>4 DEF Put, Submit, CheckDevice, CountOwned, Increment, Replace,
       Reload, GoTo, DeletingClient, TypeOK
  <2>5. CASE o = c /\ (Read(c) \/ AutoDeliver(c)) /\ ~ Finish(c)
    BY <2>5 DEF Read, Open, GetDevice, ShowItems, AutoDeliver, Save,
       AutoDevices, AutoItems, GoTo, DeletingClient, TypeOK
  <2> QED
    BY <1>1, <2>1, <2>2, <2>3, <2>4, <2>5 DEF Act, Stop
<1>2. CASE UNCHANGED <<itemState, pc, item>>
  BY <1>2 DEF Deleting, DeletingClient
<1> QED
  BY <1>1, <1>2, Steps DEF Deleting, locals

LEMMA FiniteListsStep ==
  ASSUME TypeOK, Entitled, Deleting, FiniteLists, [Next]_vars
  PROVE  FiniteLists'
<1>1. ASSUME NEW d \in Device
      PROVE  IsFiniteSet(rows'[d])
  BY RowsChange, FS_Subset DEF FiniteLists
<1>2. ASSUME NEW c \in Client, Act(c), NEW o \in Client
      PROVE  IsFiniteSet(want'[o])
  <2>1. CASE o # c
    BY <1>2, <2>1, OnlyActor DEF FiniteLists
  <2>2. CASE o = c /\ Finish(c)
    BY <2>2, FS_EmptySet DEF Finish, TypeOK
  <2>3. CASE o = c /\ Submit(c)
    <3>1. PICK l \in Lists : want' = [want EXCEPT ![c] = l]
      BY <2>3 DEF Submit
    <3> QED
      BY <2>3, <3>1, ListsAreLists DEF TypeOK
  <2>4. CASE o = c /\ AutoItems(c) /\ ~ Finish(c)
    <3>1. dev[c] \in Device /\ item[c] \in Item
      BY <2>4 DEF AutoItems, TypeOK, Entitled, EntitledClient, OnDevice
    <3>2. Visible(rows[dev[c]]) \in SUBSET Row
      BY <3>1, PartsOfLists DEF TypeOK
    <3>3. IsFiniteSet(Visible(rows[dev[c]]))
      BY <3>1, PartsOfLists, FS_Subset DEF TypeOK, FiniteLists
    <3>4. want' = [want EXCEPT ![c] = Prepend(item[c], Visible(rows[dev[c]]))]
      BY <2>4 DEF AutoItems
    <3> QED
      BY <2>4, <3>1, <3>2, <3>3, <3>4, PrependIsList DEF TypeOK
  <2>5. CASE o = c /\ Reload(c) /\ ~ Finish(c)
    <3>1. want' = [want EXCEPT ![c] = {}]
      BY <2>5 DEF Reload
    <3> QED
      BY <2>5, <3>1, FS_EmptySet DEF TypeOK
  <2>6. CASE ~ Finish(c) /\ ~ Submit(c) /\ ~ AutoItems(c) /\ ~ Reload(c)
    <3>1. UNCHANGED want
      BY <1>2, <2>6 DEF Act, Read, Open, GetDevice, ShowItems, Put, CheckDevice,
         CountOwned, Increment, Replace, AutoDeliver, Save, AutoDevices, Erase,
         Delete, SoftDelete, RemoveRows, Bump, DeleteObject, HardDelete, Stop,
         locals
    <3> QED
      BY <3>1 DEF FiniteLists
  <2> QED
    BY <2>1, <2>2, <2>3, <2>4, <2>5, <2>6
<1>3. CASE UNCHANGED want
  BY <1>1, <1>3 DEF FiniteLists
<1> QED
  BY <1>1, <1>2, <1>3, Steps DEF FiniteLists, locals

LEMMA EntitledStep ==
  ASSUME TypeOK, TypeOK', Entitled, [Next]_vars
  PROVE  Entitled'
<1> USE BoundAssumption
<1>1. ASSUME NEW c \in Client, Act(c), NEW o \in Client
      PROVE  EntitledClient(o)'
  <2>1. CASE o # c
    <3>1. /\ pc'[o] = pc[o] /\ dev'[o] = dev[o] /\ ver'[o] = ver[o]
          /\ want'[o] = want[o]
      BY <1>1, <2>1, OnlyActor
    <3>2. EntitledClient(o)
      BY DEF Entitled
    <3>3. CASE ~ HoldsVersion(pc[o])
      BY <3>1, <3>2, <3>3 DEF EntitledClient, HoldsVersion, OnDevice
    <3>4. CASE HoldsVersion(pc[o])
      <4>1. dev[o] \in Device /\ ver[o] \in 1 .. version[dev[o]]
        BY <3>2, <3>4 DEF EntitledClient, HoldsVersion
      <4>2. /\ version[dev[o]] \in 1 .. MaxVersion
            /\ version'[dev[o]] \in 1 .. MaxVersion
        BY <4>1 DEF TypeOK
      <4>3. /\ version'[dev[o]] >= version[dev[o]]
            /\ accepted[dev[o]][ver[o]] \subseteq accepted'[dev[o]][ver[o]]
        BY <4>1, <4>2, VersionsGrow
      <4> QED
        BY <3>1, <3>2, <4>1, <4>2, <4>3 DEF EntitledClient, HoldsVersion
    <3> QED
      BY <3>3, <3>4
  <2>2. CASE o = c /\ Finish(c)
    BY <2>2 DEF Finish, GoTo, EntitledClient, OnDevice, HoldsVersion, TypeOK
  <2>3. CASE o = c /\ Increment(c) /\ ~ Finish(c)
    <3>1. /\ dev[c] \in Device
          /\ ver[c] \in 1 .. version[dev[c]]
          /\ version[dev[c]] \in 1 .. MaxVersion
      BY <2>3 DEF Increment, TypeOK, Entitled, EntitledClient, OnDevice,
         HoldsVersion
    <3>2. /\ version[dev[c]] = ver[c]
          /\ version' = [version EXCEPT ![dev[c]] = @ + 1]
          /\ accepted' = [accepted EXCEPT ![dev[c]][ver[c]] = @ \union {want[c]}]
          /\ pc' = [pc EXCEPT ![c] = "replace"]
          /\ UNCHANGED locals
      BY <2>3 DEF Increment, GoTo
    <3>3. want[c] \in accepted'[dev[c]][ver[c]]
      BY <3>1, <3>2 DEF TypeOK
    <3> QED
      BY <2>3, <3>1, <3>2, <3>3 DEF EntitledClient, locals, TypeOK
  <2>4. CASE o = c /\ Replace(c) /\ ~ Finish(c)
    <3>1. /\ pc[c] = "replace" /\ pc' = [pc EXCEPT ![c] = "reload"]
          /\ UNCHANGED <<locals, version, accepted>>
      BY <2>4 DEF Replace, GoTo
    <3> QED
      BY <2>4, <3>1 DEF Entitled, EntitledClient, OnDevice, HoldsVersion, locals,
         TypeOK
  <2>5. CASE o = c /\ Reload(c) /\ ~ Finish(c)
    <3>1. /\ pc[c] = "reload" /\ pc' = [pc EXCEPT ![c] = "editing"]
          /\ ver' = [ver EXCEPT ![c] = @ + 1]
          /\ UNCHANGED <<dev, version>>
      BY <2>5 DEF Reload, GoTo, tables
    <3>2. /\ dev[c] \in Device /\ ver[c] \in 1 .. version[dev[c]]
          /\ ver[c] < version[dev[c]] /\ version[dev[c]] \in Nat
      BY <3>1 DEF Entitled, EntitledClient, OnDevice, HoldsVersion, TypeOK
    <3> QED
      BY <2>5, <3>1, <3>2 DEF EntitledClient, TypeOK
  <2>6. CASE o = c /\ (Submit(c) \/ CheckDevice(c) \/ CountOwned(c)) /\ ~ Finish(c)
    <3>1. /\ UNCHANGED <<dev, ver, version>>
          /\ HoldsVersion(pc[c])
          /\ pc'[c] \in {"checkDevice", "countOwned", "increment"}
      BY <2>6 DEF Submit, CheckDevice, CountOwned, GoTo, locals, tables,
         HoldsVersion, OnDevice, TypeOK
    <3> QED
      BY <2>6, <3>1 DEF Entitled, EntitledClient, HoldsVersion
  <2>7. CASE o = c /\ Read(c)
    BY <2>7 DEF Read, Open, GetDevice, ShowItems, GoTo, tables, Entitled,
       EntitledClient, OnDevice, HoldsVersion, TypeOK
  <2>8. CASE o = c /\ AutoItems(c) /\ ~ Finish(c)
    <3>1. /\ pc[c] = "getItems" /\ pc' = [pc EXCEPT ![c] = "checkDevice"]
          /\ UNCHANGED <<dev, ver, version>>
      BY <2>8 DEF AutoItems, GoTo, tables
    <3> QED
      BY <2>8, <3>1 DEF Entitled, EntitledClient, OnDevice, HoldsVersion, TypeOK
  <2>9. CASE o = c /\ AutoDevices(c) /\ ~ Finish(c)
    <3> DEFINE active == {d \in Device : status[d] = "active"}
    <3>1. /\ Cardinality(active) = 1
          /\ dev' = [dev EXCEPT ![c] = CHOOSE d \in Device : d \in active]
          /\ pc' = [pc EXCEPT ![c] = "getDevice"]
      BY <2>9 DEF AutoDevices, GoTo
    <3>2. active # {}
      BY <3>1, FS_EmptySet
    <3>3. (CHOOSE d \in Device : d \in active) \in Device
      BY <3>2
    <3> QED
      BY <2>9, <3>1, <3>3 DEF EntitledClient, OnDevice, HoldsVersion, TypeOK
  <2>10. CASE o = c /\ (Erase(c) \/ \E i \in Item : Save(c, i)) /\ ~ Finish(c)
    BY <2>10 DEF Erase, Delete, SoftDelete, RemoveRows, Bump, DeleteObject,
       HardDelete, Save, GoTo, EntitledClient, OnDevice, HoldsVersion, TypeOK
  <2> QED
    BY <1>1, <2>1, <2>2, <2>3, <2>4, <2>5, <2>6, <2>7, <2>8, <2>9, <2>10
       DEF Act, Put, AutoDeliver, Stop
<1>2. CASE UNCHANGED <<version, pc, locals, history>>
  BY <1>2 DEF Entitled, EntitledClient, locals, history
<1> QED
  BY <1>1, <1>2, Steps DEF Entitled

-----------------------------------------------------------------------------
(* The theorems.                                                           *)

LEMMA InitIInv == Init => IInv
<1> SUFFICES ASSUME Init
             PROVE  IInv
  OBVIOUS
<1>1. TypeOK
  BY InitTypes
<1>2. FiniteLists
  BY FS_EmptySet DEF Init, FiniteLists
<1>3. Past /\ VersionWonOnce /\ OnlyWinnersLand
  BY DEF Init, Past, VersionWonOnce, OnlyWinnersLand
<1>4. Entitled /\ Deleting
  BY DEF Init, Entitled, EntitledClient, OnDevice, HoldsVersion, Deleting,
     DeletingClient
<1> QED
  BY <1>1, <1>2, <1>3, <1>4 DEF IInv

LEMMA NextIInv == IInv /\ [Next]_vars => IInv'
<1> SUFFICES ASSUME IInv, [Next]_vars
             PROVE  IInv'
  OBVIOUS
<1>1. TypeOK'
  BY StepTypes DEF IInv
<1>2. FiniteLists' /\ Deleting'
  BY FiniteListsStep, DeletingStep DEF IInv
<1>3. Entitled' /\ Past' /\ VersionWonOnce'
  BY <1>1, EntitledStep, PastStep, WonOnceStep DEF IInv
<1>4. OnlyWinnersLand'
  BY <1>1, WinnersLandStep DEF IInv
<1> QED
  BY <1>1, <1>2, <1>3, <1>4 DEF IInv

THEOREM Invariance == Spec => []IInv
BY InitIInv, NextIInv, PTL DEF Spec

\* Every variable keeps its type, however requests interleave and stop.
THEOREM TypeCorrectness == Spec => []TypeOK
<1>1. IInv => TypeOK
  BY DEF IInv
<1> QED
  BY <1>1, Invariance, PTL

\* Two PUTs never win the same version of a device's list
\* (incrementDeviceLibraryVersion), for any number of concurrent callers.
THEOREM EachVersionIsWonOnce == Spec => []VersionWonOnce
<1>1. IInv => VersionWonOnce
  BY DEF IInv
<1> QED
  BY <1>1, Invariance, PTL

\* The rows of a device are those of one PUT that won its version, less items
\* deleted since (replaceDeviceLibrary): no losing writer's rows land and no
\* two writers' rows mix.
THEOREM OnlyWinnersRowsLand == Spec => []OnlyWinnersLand
<1>1. IInv => OnlyWinnersLand
  BY DEF IInv
<1> QED
  BY <1>1, Invariance, PTL

-----------------------------------------------------------------------------
(* The order of the batches, unless raced.                                 *)

\* The types and versions that the arguments below need.
Shape ==
  /\ version \in [Device -> 1 .. MaxVersion]
  /\ rows \in [Device -> SUBSET Row]
  /\ itemState \in [Item -> {"absent", "live", "soft", "gone"}]
  /\ pc \in [Client -> Labels]
  /\ dev \in [Client -> Device \union {NoDevice}]
  /\ ver \in [Client -> 0 .. MaxVersion]
  /\ base \in [Client -> SUBSET Row]
  /\ want \in [Client -> SUBSET Row]
  /\ item \in [Client -> Item \union {NoItem}]
  /\ affected \in [Client -> SUBSET Device]
  /\ rowsOf \in [Device -> 0 .. MaxVersion]
  /\ raced \subseteq Device

Held ==
  \A c \in Client :
    /\ OnDevice(pc[c]) => dev[c] \in Device
    /\ HoldsVersion(pc[c]) => ver[c] \in 1 .. version[dev[c]]
    /\ pc[c] \in {"replace", "reload"} => ver[c] < version[dev[c]]

\* They follow from the invariants above.
LEMMA ShapeHolds == IInv => Shape /\ Held /\ Deleting
BY DEF IInv, TypeOK, Shape, Held, Entitled, EntitledClient

\* The version a client holds, counting the one that its answer brings.
Knows(c) == IF pc[c] = "reload" THEN ver[c] + 1 ELSE ver[c]

\* The rows in place won an earlier version than the present one.
Landed == \A d \in Device : rowsOf[d] < version[d]

\* Unless raced, a client at its batch is alone: the rows in place are older, no
\* other client is at a batch, and none has read the version it won.
Alone ==
  \A d \in Device : d \notin raced =>
    \A c \in Client : pc[c] = "replace" /\ dev[c] = d =>
      /\ rowsOf[d] < ver[c]
      /\ \A o \in Client : o # c /\ HoldsVersion(pc[o]) /\ dev[o] = d =>
           pc[o] # "replace" /\ Knows(o) <= ver[c]

\* The rows in place stay behind the version.
LEMMA LandedStep ==
  ASSUME Shape, Held, Landed, [Next]_vars
  PROVE  Landed'
<1> USE DEF Shape, Held, Landed, OnDevice, HoldsVersion, tables, locals, history
<1>1. ASSUME NEW c \in Client, NEW d \in Device, Open(c, d) PROVE Landed'
  BY <1>1, BoundAssumption DEF Open, GoTo
<1>2. ASSUME NEW c \in Client, GetDevice(c) PROVE Landed'
  BY <1>2, BoundAssumption DEF GetDevice, GoTo, Notice, Window
<1>3. ASSUME NEW c \in Client, ShowItems(c) PROVE Landed'
  BY <1>3, BoundAssumption DEF ShowItems, GoTo
<1>4. ASSUME NEW c \in Client, Submit(c) PROVE Landed'
  BY <1>4, BoundAssumption DEF Submit, GoTo
<1>5. ASSUME NEW c \in Client, CheckDevice(c) PROVE Landed'
  BY <1>5, BoundAssumption DEF CheckDevice, Finish, GoTo
<1>6. ASSUME NEW c \in Client, CountOwned(c) PROVE Landed'
  BY <1>6, BoundAssumption DEF CountOwned, Finish, GoTo
<1>7. ASSUME NEW c \in Client, Increment(c) PROVE Landed'
  BY <1>7, BoundAssumption DEF Increment, Finish, GoTo, Notice, Window
<1>8. ASSUME NEW c \in Client, Replace(c) PROVE Landed'
  BY <1>8, BoundAssumption DEF Replace, Finish, GoTo
<1>9. ASSUME NEW c \in Client, Reload(c) PROVE Landed'
  BY <1>9, BoundAssumption DEF Reload, Finish, GoTo
<1>10. ASSUME NEW c \in Client, NEW i \in Item, Save(c, i) PROVE Landed'
  BY <1>10, BoundAssumption DEF Save, GoTo
<1>11. ASSUME NEW c \in Client, AutoDevices(c) PROVE Landed'
  BY <1>11, BoundAssumption DEF AutoDevices, Finish, GoTo
<1>12. ASSUME NEW c \in Client, AutoItems(c) PROVE Landed'
  BY <1>12, BoundAssumption DEF AutoItems, Finish, GoTo
<1>13. ASSUME NEW c \in Client, NEW i \in Item, Delete(c, i) PROVE Landed'
  BY <1>13, BoundAssumption DEF Delete, GoTo
<1>14. ASSUME NEW c \in Client, SoftDelete(c) PROVE Landed'
  BY <1>14, BoundAssumption DEF SoftDelete, Finish, GoTo
<1>15. ASSUME NEW c \in Client, RemoveRows(c) PROVE Landed'
  BY <1>15, BoundAssumption DEF RemoveRows, GoTo
<1>16. ASSUME NEW c \in Client, Bump(c) PROVE Landed'
  BY <1>16, BoundAssumption DEF Bump, GoTo
<1>17. ASSUME NEW c \in Client, DeleteObject(c) PROVE Landed'
  BY <1>17, BoundAssumption DEF DeleteObject, Finish, GoTo
<1>18. ASSUME NEW c \in Client, HardDelete(c) PROVE Landed'
  BY <1>18, BoundAssumption DEF HardDelete, Finish, GoTo
<1>19. ASSUME NEW c \in Client, Stop(c) PROVE Landed'
  BY <1>19, BoundAssumption DEF Stop, Finish, GoTo
<1>20. ASSUME NEW d \in Device, Revoke(d) PROVE Landed'
  BY <1>20, BoundAssumption DEF Revoke
<1>21. ASSUME UNCHANGED vars PROVE Landed'
  BY <1>21 DEF vars
<1> QED
  BY <1>1, <1>2, <1>3, <1>4, <1>5, <1>6, <1>7, <1>8, <1>9, <1>10, <1>11, <1>12, <1>13, <1>14, <1>15, <1>16, <1>17, <1>18, <1>19, <1>20, <1>21 DEF Next, Read, Put, AutoDeliver, Erase

\* A client stays alone until its batch.
LEMMA AloneStep ==
  ASSUME Shape, Held, Landed, Alone, [Next]_vars
  PROVE  Alone'
<1> USE DEF Shape, Held, Landed, Alone, Knows, OnDevice, HoldsVersion, tables, locals, history
<1>1. ASSUME NEW c \in Client, NEW d \in Device, Open(c, d) PROVE Alone'
  BY <1>1, BoundAssumption DEF Open, GoTo
<1>2. ASSUME NEW c \in Client, GetDevice(c) PROVE Alone'
  BY <1>2, BoundAssumption DEF GetDevice, GoTo, Notice, Window
<1>3. ASSUME NEW c \in Client, ShowItems(c) PROVE Alone'
  BY <1>3, BoundAssumption DEF ShowItems, GoTo
<1>4. ASSUME NEW c \in Client, Submit(c) PROVE Alone'
  BY <1>4, BoundAssumption DEF Submit, GoTo
<1>5. ASSUME NEW c \in Client, CheckDevice(c) PROVE Alone'
  BY <1>5, BoundAssumption DEF CheckDevice, Finish, GoTo
<1>6. ASSUME NEW c \in Client, CountOwned(c) PROVE Alone'
  BY <1>6, BoundAssumption DEF CountOwned, Finish, GoTo
<1>7. ASSUME NEW c \in Client, Increment(c) PROVE Alone'
  BY <1>7, BoundAssumption DEF Increment, Finish, GoTo, Notice, Window
<1>8. ASSUME NEW c \in Client, Replace(c) PROVE Alone'
  BY <1>8, BoundAssumption DEF Replace, Finish, GoTo
<1>9. ASSUME NEW c \in Client, Reload(c) PROVE Alone'
  BY <1>9, BoundAssumption DEF Reload, Finish, GoTo
<1>10. ASSUME NEW c \in Client, NEW i \in Item, Save(c, i) PROVE Alone'
  BY <1>10, BoundAssumption DEF Save, GoTo
<1>11. ASSUME NEW c \in Client, AutoDevices(c) PROVE Alone'
  BY <1>11, BoundAssumption DEF AutoDevices, Finish, GoTo
<1>12. ASSUME NEW c \in Client, AutoItems(c) PROVE Alone'
  BY <1>12, BoundAssumption DEF AutoItems, Finish, GoTo
<1>13. ASSUME NEW c \in Client, NEW i \in Item, Delete(c, i) PROVE Alone'
  BY <1>13, BoundAssumption DEF Delete, GoTo
<1>14. ASSUME NEW c \in Client, SoftDelete(c) PROVE Alone'
  BY <1>14, BoundAssumption DEF SoftDelete, Finish, GoTo
<1>15. ASSUME NEW c \in Client, RemoveRows(c) PROVE Alone'
  BY <1>15, BoundAssumption DEF RemoveRows, GoTo
<1>16. ASSUME NEW c \in Client, Bump(c) PROVE Alone'
  BY <1>16, BoundAssumption DEF Bump, GoTo
<1>17. ASSUME NEW c \in Client, DeleteObject(c) PROVE Alone'
  BY <1>17, BoundAssumption DEF DeleteObject, Finish, GoTo
<1>18. ASSUME NEW c \in Client, HardDelete(c) PROVE Alone'
  BY <1>18, BoundAssumption DEF HardDelete, Finish, GoTo
<1>19. ASSUME NEW c \in Client, Stop(c) PROVE Alone'
  BY <1>19, BoundAssumption DEF Stop, Finish, GoTo
<1>20. ASSUME NEW d \in Device, Revoke(d) PROVE Alone'
  BY <1>20, BoundAssumption DEF Revoke
<1>21. ASSUME UNCHANGED vars PROVE Alone'
  BY <1>21 DEF vars
<1> QED
  BY <1>1, <1>2, <1>3, <1>4, <1>5, <1>6, <1>7, <1>8, <1>9, <1>10, <1>11, <1>12, <1>13, <1>14, <1>15, <1>16, <1>17, <1>18, <1>19, <1>20, <1>21 DEF Next, Read, Put, AutoDeliver, Erase


-----------------------------------------------------------------------------
(* What an editor is shown.                                                *)

Removing(l) == l \in {"removeRows", "bump", "deleteObject", "hardDelete"}

\* An item is deleted by one client.
Sole ==
  \A x, y \in Client : Removing(pc[x]) /\ Removing(pc[y]) /\ item[x] = item[y] => x = y

\* Whatever a device or an editor has was saved.
Present ==
  /\ \A d \in Device : \A row \in rows[d] : itemState[row[1]] # "absent"
  /\ \A c \in Client : \A row \in base[c] : itemState[row[1]] # "absent"

\* A client that was shown a list and holds the present version, unless raced.
Current(c) ==
  /\ pc[c] \in {"editing", "checkDevice", "countOwned", "increment"}
  /\ dev[c] \notin raced
  /\ ver[c] = version[dev[c]]

\* Its list is the one in force.
Seen == \A c \in Client : Current(c) => Visible(base[c]) = Visible(rows[dev[c]])

\* None of its items is gone: a deletion still has to remove the row or to bump.
StaleItem(c, i) ==
  /\ itemState[i] # "gone"
  /\ \A x \in Client : item[x] = i =>
       /\ pc[x] \notin {"deleteObject", "hardDelete"}
       /\ pc[x] = "removeRows" => i \in Items(rows[dev[c]])
       /\ pc[x] = "bump" => dev[c] \in affected[x]

Pending == \A c \in Client : Current(c) => \A i \in Items(base[c]) : StaleItem(c, i)

\* A deleted item is not deleted again.
LEMMA SoleStep ==
  ASSUME Shape, Held, Deleting, Sole, [Next]_vars
  PROVE  Sole'
<1> USE DEF Shape, Deleting, DeletingClient, Sole, Removing, tables, locals, history
<1>1. ASSUME NEW c \in Client, NEW d \in Device, Open(c, d) PROVE Sole'
  BY <1>1 DEF Open, GoTo
<1>2. ASSUME NEW c \in Client, GetDevice(c) PROVE Sole'
  BY <1>2 DEF GetDevice, GoTo, Notice, Window
<1>3. ASSUME NEW c \in Client, ShowItems(c) PROVE Sole'
  BY <1>3 DEF ShowItems, GoTo
<1>4. ASSUME NEW c \in Client, Submit(c) PROVE Sole'
  BY <1>4 DEF Submit, GoTo
<1>5. ASSUME NEW c \in Client, CheckDevice(c) PROVE Sole'
  BY <1>5 DEF CheckDevice, Finish, GoTo
<1>6. ASSUME NEW c \in Client, CountOwned(c) PROVE Sole'
  BY <1>6 DEF CountOwned, Finish, GoTo
<1>7. ASSUME NEW c \in Client, Increment(c) PROVE Sole'
  BY <1>7 DEF Increment, Finish, GoTo, Notice, Window
<1>8. ASSUME NEW c \in Client, Replace(c) PROVE Sole'
  BY <1>8 DEF Replace, Finish, GoTo
<1>9. ASSUME NEW c \in Client, Reload(c) PROVE Sole'
  BY <1>9 DEF Reload, Finish, GoTo
<1>10. ASSUME NEW c \in Client, NEW i \in Item, Save(c, i) PROVE Sole'
  BY <1>10 DEF Save, GoTo
<1>11. ASSUME NEW c \in Client, AutoDevices(c) PROVE Sole'
  BY <1>11 DEF AutoDevices, Finish, GoTo
<1>12. ASSUME NEW c \in Client, AutoItems(c) PROVE Sole'
  BY <1>12 DEF AutoItems, Finish, GoTo
<1>13. ASSUME NEW c \in Client, NEW i \in Item, Delete(c, i) PROVE Sole'
  BY <1>13 DEF Delete, GoTo
<1>14. ASSUME NEW c \in Client, SoftDelete(c) PROVE Sole'
  BY <1>14 DEF SoftDelete, Finish, GoTo
<1>15. ASSUME NEW c \in Client, RemoveRows(c) PROVE Sole'
  BY <1>15 DEF RemoveRows, GoTo
<1>16. ASSUME NEW c \in Client, Bump(c) PROVE Sole'
  BY <1>16 DEF Bump, GoTo
<1>17. ASSUME NEW c \in Client, DeleteObject(c) PROVE Sole'
  BY <1>17 DEF DeleteObject, Finish, GoTo
<1>18. ASSUME NEW c \in Client, HardDelete(c) PROVE Sole'
  BY <1>18 DEF HardDelete, Finish, GoTo
<1>19. ASSUME NEW c \in Client, Stop(c) PROVE Sole'
  BY <1>19 DEF Stop, Finish, GoTo
<1>20. ASSUME NEW d \in Device, Revoke(d) PROVE Sole'
  BY <1>20 DEF Revoke
<1>21. ASSUME UNCHANGED vars PROVE Sole'
  BY <1>21 DEF vars
<1> QED
  BY <1>1, <1>2, <1>3, <1>4, <1>5, <1>6, <1>7, <1>8, <1>9, <1>10, <1>11, <1>12, <1>13, <1>14, <1>15, <1>16, <1>17, <1>18, <1>19, <1>20, <1>21 DEF Next, Read, Put, AutoDeliver, Erase

\* No item becomes unsaved.
LEMMA PresentStep ==
  ASSUME Shape, Held, Deleting, Present, [Next]_vars
  PROVE  Present'
<1> USE DEF Shape, Held, OnDevice, HoldsVersion, Deleting, DeletingClient, Present, Row, tables, locals, history
<1>1. ASSUME NEW c \in Client, NEW d \in Device, Open(c, d) PROVE Present'
  BY <1>1 DEF Open, GoTo
<1>2. ASSUME NEW c \in Client, GetDevice(c) PROVE Present'
  BY <1>2 DEF GetDevice, GoTo, Notice, Window
<1>3. ASSUME NEW c \in Client, ShowItems(c) PROVE Present'
  BY <1>3 DEF ShowItems, GoTo, Visible
<1>4. ASSUME NEW c \in Client, Submit(c) PROVE Present'
  BY <1>4 DEF Submit, GoTo
<1>5. ASSUME NEW c \in Client, CheckDevice(c) PROVE Present'
  BY <1>5 DEF CheckDevice, Finish, GoTo
<1>6. ASSUME NEW c \in Client, CountOwned(c) PROVE Present'
  BY <1>6 DEF CountOwned, Finish, GoTo
<1>7. ASSUME NEW c \in Client, Increment(c) PROVE Present'
  BY <1>7 DEF Increment, Finish, GoTo, Notice, Window
<1>8. ASSUME NEW c \in Client, Replace(c) PROVE Present'
  BY <1>8 DEF Replace, Finish, GoTo, Exists, Items
<1>9. ASSUME NEW c \in Client, Reload(c) PROVE Present'
  BY <1>9 DEF Reload, Finish, GoTo, Visible
<1>10. ASSUME NEW c \in Client, NEW i \in Item, Save(c, i) PROVE Present'
  BY <1>10 DEF Save, GoTo
<1>11. ASSUME NEW c \in Client, AutoDevices(c) PROVE Present'
  BY <1>11 DEF AutoDevices, Finish, GoTo
<1>12. ASSUME NEW c \in Client, AutoItems(c) PROVE Present'
  BY <1>12 DEF AutoItems, Finish, GoTo, Visible
<1>13. ASSUME NEW c \in Client, NEW i \in Item, Delete(c, i) PROVE Present'
  BY <1>13 DEF Delete, GoTo
<1>14. ASSUME NEW c \in Client, SoftDelete(c) PROVE Present'
  BY <1>14 DEF SoftDelete, Finish, GoTo
<1>15. ASSUME NEW c \in Client, RemoveRows(c) PROVE Present'
  BY <1>15 DEF RemoveRows, GoTo, Without
<1>16. ASSUME NEW c \in Client, Bump(c) PROVE Present'
  BY <1>16 DEF Bump, GoTo
<1>17. ASSUME NEW c \in Client, DeleteObject(c) PROVE Present'
  BY <1>17 DEF DeleteObject, Finish, GoTo
<1>18. ASSUME NEW c \in Client, HardDelete(c) PROVE Present'
  BY <1>18 DEF HardDelete, Finish, GoTo, Without
<1>19. ASSUME NEW c \in Client, Stop(c) PROVE Present'
  BY <1>19 DEF Stop, Finish, GoTo
<1>20. ASSUME NEW d \in Device, Revoke(d) PROVE Present'
  BY <1>20 DEF Revoke
<1>21. ASSUME UNCHANGED vars PROVE Present'
  BY <1>21 DEF vars
<1> QED
  BY <1>1, <1>2, <1>3, <1>4, <1>5, <1>6, <1>7, <1>8, <1>9, <1>10, <1>11, <1>12, <1>13, <1>14, <1>15, <1>16, <1>17, <1>18, <1>19, <1>20, <1>21 DEF Next, Read, Put, AutoDeliver, Erase

\* What a client was shown stays the list in force as long as it is current.
LEMMA SeenStep ==
  ASSUME Shape, Held, Deleting, Present, Landed, Alone, Seen, [Next]_vars
  PROVE  Seen'
<1> USE DEF Shape, Held, OnDevice, HoldsVersion, Deleting, DeletingClient, Present, Alone, Knows, Row, Seen, Current, Visible, tables, locals, history
<1>1. ASSUME NEW c \in Client, NEW d \in Device, Open(c, d) PROVE Seen'
  BY <1>1, BoundAssumption DEF Open, GoTo
<1>2. ASSUME NEW c \in Client, GetDevice(c) PROVE Seen'
  BY <1>2, BoundAssumption DEF GetDevice, GoTo, Notice, Window
<1>3. ASSUME NEW c \in Client, ShowItems(c) PROVE Seen'
  BY <1>3, BoundAssumption DEF ShowItems, GoTo
<1>4. ASSUME NEW c \in Client, Submit(c) PROVE Seen'
  BY <1>4, BoundAssumption DEF Submit, GoTo
<1>5. ASSUME NEW c \in Client, CheckDevice(c) PROVE Seen'
  BY <1>5, BoundAssumption DEF CheckDevice, Finish, GoTo
<1>6. ASSUME NEW c \in Client, CountOwned(c) PROVE Seen'
  BY <1>6, BoundAssumption DEF CountOwned, Finish, GoTo
<1>7. ASSUME NEW c \in Client, Increment(c) PROVE Seen'
  BY <1>7, BoundAssumption DEF Increment, Finish, GoTo, Notice, Window
<1>8. ASSUME NEW c \in Client, Replace(c) PROVE Seen'
  BY <1>8, BoundAssumption DEF Replace, Finish, GoTo, Exists, Items
<1>9. ASSUME NEW c \in Client, Reload(c) PROVE Seen'
  BY <1>9, BoundAssumption DEF Reload, Finish, GoTo
<1>10. ASSUME NEW c \in Client, NEW i \in Item, Save(c, i) PROVE Seen'
  BY <1>10, BoundAssumption DEF Save, GoTo
<1>11. ASSUME NEW c \in Client, AutoDevices(c) PROVE Seen'
  BY <1>11, BoundAssumption DEF AutoDevices, Finish, GoTo
<1>12. ASSUME NEW c \in Client, AutoItems(c) PROVE Seen'
  BY <1>12, BoundAssumption DEF AutoItems, Finish, GoTo
<1>13. ASSUME NEW c \in Client, NEW i \in Item, Delete(c, i) PROVE Seen'
  BY <1>13, BoundAssumption DEF Delete, GoTo
<1>14. ASSUME NEW c \in Client, SoftDelete(c) PROVE Seen'
  BY <1>14, BoundAssumption DEF SoftDelete, Finish, GoTo
<1>15. ASSUME NEW c \in Client, RemoveRows(c) PROVE Seen'
  BY <1>15, BoundAssumption DEF RemoveRows, GoTo, Without
<1>16. ASSUME NEW c \in Client, Bump(c) PROVE Seen'
  BY <1>16, BoundAssumption DEF Bump, GoTo
<1>17. ASSUME NEW c \in Client, DeleteObject(c) PROVE Seen'
  BY <1>17, BoundAssumption DEF DeleteObject, Finish, GoTo
<1>18. ASSUME NEW c \in Client, HardDelete(c) PROVE Seen'
  BY <1>18, BoundAssumption DEF HardDelete, Finish, GoTo, Without
<1>19. ASSUME NEW c \in Client, Stop(c) PROVE Seen'
  BY <1>19, BoundAssumption DEF Stop, Finish, GoTo
<1>20. ASSUME NEW d \in Device, Revoke(d) PROVE Seen'
  BY <1>20, BoundAssumption DEF Revoke
<1>21. ASSUME UNCHANGED vars PROVE Seen'
  BY <1>21 DEF vars
<1> QED
  BY <1>1, <1>2, <1>3, <1>4, <1>5, <1>6, <1>7, <1>8, <1>9, <1>10, <1>11, <1>12, <1>13, <1>14, <1>15, <1>16, <1>17, <1>18, <1>19, <1>20, <1>21 DEF Next, Read, Put, AutoDeliver, Erase


\* What the conditional UPDATE of a PUT changes.
LEMMA IncrementEffect ==
  ASSUME Shape, Held, NEW c \in Client, Increment(c)
  PROVE  /\ pc[c] = "increment" /\ pc'[c] \in {"replace", "idle"}
         /\ \A x \in Client : x # c => pc'[x] = pc[x]
         /\ UNCHANGED <<itemState, rows>> /\ raced \subseteq raced'
         /\ \A d \in Device : \/ version'[d] = version[d]
                              \/ version[d] = ver[c] /\ d = dev[c] /\ version'[d] = version[d] + 1
         /\ \A x \in Client : pc'[x] # "idle" => /\ dev'[x] = dev[x] /\ ver'[x] = ver[x] /\ base'[x] = base[x]
                                                 /\ item'[x] = item[x] /\ affected'[x] = affected[x]
<1>1. pc[c] = "increment" /\ raced \subseteq raced' /\ UNCHANGED <<itemState, rows>>
  BY DEF Increment, Notice
<1>2. CASE Finish(c) /\ UNCHANGED version
  BY <1>1, <1>2 DEF Finish, GoTo, Shape
<1>3. CASE /\ version[dev[c]] = ver[c] /\ version' = [version EXCEPT ![dev[c]] = version[dev[c]] + 1]
           /\ GoTo(c, "replace") /\ UNCHANGED locals
  BY <1>1, <1>3 DEF GoTo, Shape, locals
<1> QED
  BY <1>2, <1>3 DEF Increment

\* A deletion that has not ended will still bump the lists it takes the item from.
LEMMA PendingStep ==
  ASSUME Shape, Held, Deleting, Present, Landed, Alone, Seen, Sole, Pending, [Next]_vars
  PROVE  Pending'
<1> USE DEF Shape, Held, OnDevice, HoldsVersion, Deleting, DeletingClient, Present, Alone, Knows, Row, Seen, Sole, Removing, tables, locals, history
<1>1. ASSUME NEW c \in Client, NEW d \in Device, Open(c, d) PROVE Pending'
  BY <1>1, BoundAssumption DEF Open, GoTo, Current, Visible, Items, Pending, StaleItem
<1>2. ASSUME NEW c \in Client, GetDevice(c) PROVE Pending'
  BY <1>2, BoundAssumption DEF GetDevice, GoTo, Notice, Window, Current, Visible, Items, Pending, StaleItem
<1>3. ASSUME NEW c \in Client, ShowItems(c) PROVE Pending'
  BY <1>3, BoundAssumption DEF ShowItems, GoTo, Current, Visible, Items, Pending, StaleItem
<1>4. ASSUME NEW c \in Client, Submit(c) PROVE Pending'
  BY <1>4, BoundAssumption DEF Submit, GoTo, Current, Visible, Items, Pending, StaleItem
<1>5. ASSUME NEW c \in Client, CheckDevice(c) PROVE Pending'
  BY <1>5, BoundAssumption DEF CheckDevice, Finish, GoTo, Current, Visible, Items, Pending, StaleItem
<1>6. ASSUME NEW c \in Client, CountOwned(c) PROVE Pending'
  <2> SUFFICES ASSUME NEW o \in Client, Current(o)', NEW i \in Items(base'[o])
               PROVE  StaleItem(o, i)'
    BY DEF Pending
  <2>1. /\ pc[c] = "countOwned" /\ pc' = [pc EXCEPT ![c] = pc'[c]] /\ pc'[c] \in {"increment", "idle"}
        /\ UNCHANGED <<itemState, rows, version, raced>>
        /\ \A x \in Client : pc'[x] # "idle" => /\ dev'[x] = dev[x] /\ ver'[x] = ver[x] /\ base'[x] = base[x]
                                                /\ item'[x] = item[x] /\ affected'[x] = affected[x]
    BY <1>6 DEF CountOwned, Finish, GoTo
  <2>2. Current(o) /\ base'[o] = base[o]
    BY <2>1 DEF Current
  <2>3. StaleItem(o, i)
    BY <2>2 DEF Pending
  <2> QED
    BY <2>1, <2>2, <2>3 DEF StaleItem, Current
<1>7. ASSUME NEW c \in Client, Increment(c) PROVE Pending'
  <2> SUFFICES ASSUME NEW o \in Client, Current(o)', NEW i \in Items(base'[o])
               PROVE  StaleItem(o, i)'
    BY DEF Pending
  <2>1. /\ pc[c] = "increment" /\ pc'[c] \in {"replace", "idle"}
        /\ \A x \in Client : x # c => pc'[x] = pc[x]
        /\ UNCHANGED <<itemState, rows>> /\ raced \subseteq raced'
        /\ \A d \in Device : \/ version'[d] = version[d]
                             \/ version[d] = ver[c] /\ d = dev[c] /\ version'[d] = version[d] + 1
        /\ \A x \in Client : pc'[x] # "idle" => /\ dev'[x] = dev[x] /\ ver'[x] = ver[x] /\ base'[x] = base[x]
                                                /\ item'[x] = item[x] /\ affected'[x] = affected[x]
    BY <1>7, IncrementEffect
  <2>2. o # c /\ dev[o] \in Device /\ ver[o] \in 1 .. version[dev[o]] /\ pc[o] = pc'[o] /\ dev'[o] = dev[o] /\ ver'[o] = ver[o]
    BY <2>1 DEF Current
  <2>3. version'[dev[o]] = version[dev[o]]
    BY <2>1, <2>2, BoundAssumption DEF Current
  <2>4. Current(o) /\ base'[o] = base[o]
    BY <2>1, <2>2, <2>3 DEF Current
  <2>5. StaleItem(o, i)
    BY <2>4 DEF Pending
  <2> QED
    BY <2>1, <2>4, <2>5 DEF StaleItem, Current
<1>8. ASSUME NEW c \in Client, Replace(c) PROVE Pending'
  <2> SUFFICES ASSUME NEW o \in Client, Current(o)', NEW i \in Items(base'[o])
               PROVE  StaleItem(o, i)'
    BY DEF Pending
  <2>1. /\ pc[c] = "replace" /\ pc'[c] \in {"reload", "idle"} /\ dev[c] \in Device
        /\ \A x \in Client : x # c => pc'[x] = pc[x]
        /\ UNCHANGED <<itemState, version, raced>>
        /\ \A d \in Device : d # dev[c] => rows'[d] = rows[d]
        /\ \A x \in Client : pc'[x] # "idle" => /\ dev'[x] = dev[x] /\ ver'[x] = ver[x] /\ base'[x] = base[x]
                                                /\ item'[x] = item[x] /\ affected'[x] = affected[x]
    BY <1>8 DEF Replace, Finish, GoTo
  <2>2. o # c /\ Current(o) /\ base'[o] = base[o] /\ dev[o] \in Device
    BY <2>1 DEF Current
  <2>3. StaleItem(o, i)
    BY <2>2 DEF Pending
  <2>4. dev[o] # dev[c]
    <3>1. SUFFICES ASSUME dev[o] = dev[c] PROVE FALSE
      OBVIOUS
    <3>2. ver[o] <= ver[c]
      BY <2>1, <2>2, <3>1 DEF Current
    <3>3. ver[c] < version[dev[c]] /\ version[dev[c]] \in Nat /\ ver[c] \in Nat
      BY <2>1, BoundAssumption
    <3> QED
      BY <2>2, <3>1, <3>2, <3>3 DEF Current
  <2> QED
    BY <2>1, <2>2, <2>3, <2>4 DEF StaleItem, Current
<1>9. ASSUME NEW c \in Client, Reload(c) PROVE Pending'
  <2> SUFFICES ASSUME NEW o \in Client, Current(o)', NEW i \in Items(base'[o])
               PROVE  StaleItem(o, i)'
    BY DEF Pending
  <2>1. /\ pc'[c] \in {"editing", "idle"} /\ pc[c] = "reload"
        /\ pc'[c] # "idle" => base'[c] = Visible(rows[dev[c]])
        /\ \A x \in Client : x # c => pc'[x] = pc[x] /\ dev'[x] = dev[x] /\ ver'[x] = ver[x] /\ base'[x] = base[x]
        /\ UNCHANGED <<itemState, version, raced, rows>>
        /\ \A x \in Client : pc'[x] # "idle" => item'[x] = item[x] /\ affected'[x] = affected[x]
    BY <1>9 DEF Reload, Finish, GoTo
  <2>2. CASE o # c
    <3>1. Current(o) /\ base'[o] = base[o] /\ dev'[o] = dev[o]
      BY <2>1, <2>2 DEF Current
    <3>2. StaleItem(o, i)
      BY <3>1 DEF Pending
    <3> QED
      BY <2>1, <2>2, <3>1, <3>2 DEF StaleItem
  <2>3. CASE o = c
    <3>1. base'[o] = Visible(rows[dev[c]]) /\ dev[c] \in Device
      BY <2>1, <2>3 DEF Current
    <3>2. itemState[i] = "live" /\ i \in Item
      BY <3>1 DEF Visible, Items, Row
    <3>3. \A x \in Client : item[x] = i => ~ Removing(pc[x])
      BY <3>2 DEF Removing
    <3> QED
      BY <2>1, <3>2, <3>3 DEF StaleItem, Removing
  <2> QED
    BY <2>2, <2>3
<1>10. ASSUME NEW c \in Client, NEW i \in Item, Save(c, i) PROVE Pending'
  BY <1>10, BoundAssumption DEF Save, GoTo, Current, Visible, Items, Pending, StaleItem
<1>11. ASSUME NEW c \in Client, AutoDevices(c) PROVE Pending'
  BY <1>11, BoundAssumption DEF AutoDevices, Finish, GoTo, Current, Visible, Items, Pending, StaleItem
<1>12. ASSUME NEW c \in Client, AutoItems(c) PROVE Pending'
  <2> SUFFICES ASSUME NEW o \in Client, Current(o)', NEW i \in Items(base'[o])
               PROVE  StaleItem(o, i)'
    BY DEF Pending
  <2>1. /\ pc'[c] \in {"checkDevice", "idle"} /\ pc[c] = "getItems"
        /\ pc'[c] # "idle" => base'[c] = Visible(rows[dev[c]])
        /\ \A x \in Client : x # c => pc'[x] = pc[x] /\ dev'[x] = dev[x] /\ ver'[x] = ver[x] /\ base'[x] = base[x]
        /\ UNCHANGED <<itemState, version, raced, rows>>
        /\ \A x \in Client : pc'[x] # "idle" => item'[x] = item[x] /\ affected'[x] = affected[x]
    BY <1>12 DEF AutoItems, Finish, GoTo
  <2>2. CASE o # c
    <3>1. Current(o) /\ base'[o] = base[o] /\ dev'[o] = dev[o]
      BY <2>1, <2>2 DEF Current
    <3>2. StaleItem(o, i)
      BY <3>1 DEF Pending
    <3> QED
      BY <2>1, <2>2, <3>1, <3>2 DEF StaleItem
  <2>3. CASE o = c
    <3>1. base'[o] = Visible(rows[dev[c]]) /\ dev[c] \in Device
      BY <2>1, <2>3 DEF Current
    <3>2. itemState[i] = "live" /\ i \in Item
      BY <3>1 DEF Visible, Items, Row
    <3>3. \A x \in Client : item[x] = i => ~ Removing(pc[x])
      BY <3>2 DEF Removing
    <3> QED
      BY <2>1, <3>2, <3>3 DEF StaleItem, Removing
  <2> QED
    BY <2>2, <2>3
<1>13. ASSUME NEW c \in Client, NEW i \in Item, Delete(c, i) PROVE Pending'
  BY <1>13, BoundAssumption DEF Delete, GoTo, Current, Visible, Items, Pending, StaleItem
<1>14. ASSUME NEW c \in Client, SoftDelete(c) PROVE Pending'
  BY <1>14, BoundAssumption DEF SoftDelete, Finish, GoTo, Current, Visible, Items, Pending, StaleItem
<1>15. ASSUME NEW c \in Client, RemoveRows(c) PROVE Pending'
  BY <1>15, BoundAssumption DEF RemoveRows, GoTo, Without, Current, Visible, Items, Pending, StaleItem
<1>16. ASSUME NEW c \in Client, Bump(c) PROVE Pending'
  BY <1>16, BoundAssumption DEF Bump, GoTo, Current, Visible, Items, Pending, StaleItem
<1>17. ASSUME NEW c \in Client, DeleteObject(c) PROVE Pending'
  BY <1>17, BoundAssumption DEF DeleteObject, Finish, GoTo, Current, Visible, Items, Pending, StaleItem
<1>18. ASSUME NEW c \in Client, HardDelete(c) PROVE Pending'
  BY <1>18, BoundAssumption DEF HardDelete, Finish, GoTo, Without, Current, Visible, Items, Pending, StaleItem
<1>19. ASSUME NEW c \in Client, Stop(c) PROVE Pending'
  BY <1>19, BoundAssumption DEF Stop, Finish, GoTo, Current, Visible, Items, Pending, StaleItem
<1>20. ASSUME NEW d \in Device, Revoke(d) PROVE Pending'
  BY <1>20, BoundAssumption DEF Revoke, Current, Visible, Items, Pending, StaleItem
<1>21. ASSUME UNCHANGED vars PROVE Pending'
  BY <1>21 DEF vars, Current, Visible, Items, Pending, StaleItem
<1> QED
  BY <1>1, <1>2, <1>3, <1>4, <1>5, <1>6, <1>7, <1>8, <1>9, <1>10, <1>11, <1>12, <1>13, <1>14, <1>15, <1>16, <1>17, <1>18, <1>19, <1>20, <1>21 DEF Next, Read, Put, AutoDeliver, Erase


-----------------------------------------------------------------------------
(* What follows for every step.                                            *)

OrderInv == Landed /\ Alone /\ Sole /\ Present /\ Seen /\ Pending

\* They hold at the start.
LEMMA InitOrder == Init => OrderInv
<1> SUFFICES ASSUME Init
             PROVE  OrderInv
  OBVIOUS
<1> USE DEF Init
<1>1. Landed /\ Alone /\ Sole /\ Present
  BY DEF Landed, Alone, Sole, Present, Removing
<1>2. Seen /\ Pending
  BY DEF Seen, Pending, Current
<1> QED
  BY <1>1, <1>2 DEF OrderInv

\* Every step keeps them.
LEMMA NextOrder == IInv /\ OrderInv /\ [Next]_vars => OrderInv'
BY ShapeHolds, LandedStep, AloneStep, SoleStep, PresentStep, SeenStep, PendingStep DEF OrderInv

\* Together with the invariants above, inductive.
THEOREM OrderInvariance == Spec => [](IInv /\ OrderInv)
BY InitOrder, NextOrder, Invariance, PTL DEF Spec

\* What has raced stays raced.
LEMMA RacedStays ==
  ASSUME [Next]_vars
  PROVE  raced \subseteq raced'
<1>1. ASSUME NEW c \in Client, Act(c)
      PROVE  raced \subseteq raced'
  BY <1>1 DEF Act, Read, Open, GetDevice, ShowItems, Put, Submit, CheckDevice, CountOwned,
     Increment, Replace, Reload, AutoDeliver, Save, AutoDevices, AutoItems, Erase, Delete,
     SoftDelete, RemoveRows, Bump, DeleteObject, HardDelete, Stop, Notice, history
<1> QED
  BY <1>1, Steps DEF history

\* A client that wins holds the present version.
LEMMA WinnerIsCurrent ==
  ASSUME IInv, [Next]_vars, NEW c \in Client, Wins(c), dev[c] \notin raced'
  PROVE  Current(c)
<1>1. PICK x \in Client : Act(x)
  BY Steps DEF Wins
<1>2. x = c
  BY <1>1, OnlyActor DEF IInv, Wins
<1>3. Increment(c)
  BY <1>1, <1>2 DEF Wins, Act, Read, Open, GetDevice, ShowItems, Put, Submit, CheckDevice,
     CountOwned, Replace, Reload, AutoDeliver, Save, AutoDevices, AutoItems, Erase, Delete,
     SoftDelete, RemoveRows, Bump, DeleteObject, HardDelete, Stop, Finish, GoTo, IInv, TypeOK
<1>4. version[dev[c]] = ver[c]
  BY <1>3 DEF Increment, Wins, Finish, GoTo, IInv, TypeOK
<1> QED
  BY <1>4, RacedStays DEF Current, Wins

\* Batches land in the order of the versions they won unless the device was raced
\* (replaceDeviceLibrary), for any number of callers, devices and versions.
THEOREM BatchesLandInOrder == Spec => RowsLandInOrderUnlessRaced
<1> DEFINE InOrder == \A d \in Device : d \in raced' \/ rowsOf'[d] >= rowsOf[d]
<1>1. IInv /\ OrderInv /\ [Next]_vars => InOrder
  <2> SUFFICES ASSUME IInv, OrderInv, [Next]_vars, NEW d \in Device, d \notin raced'
               PROVE  rowsOf'[d] >= rowsOf[d]
    OBVIOUS
  <2>1. d \notin raced
    BY RacedStays
  <2>2. rowsOf[d] \in 0 .. MaxVersion
    BY DEF IInv, TypeOK
  <2>3. ASSUME NEW c \in Client, pc[c] = "replace", dev[c] = d, rowsOf'[d] = ver[c]
        PROVE  rowsOf'[d] >= rowsOf[d]
    <3>1. rowsOf[d] < ver[c]
      BY <2>1, <2>3 DEF OrderInv, Alone
    <3>2. ver[c] \in 0 .. MaxVersion
      BY DEF IInv, TypeOK
    <3> QED
      BY <2>2, <2>3, <3>1, <3>2, BoundAssumption
  <2> QED
    BY <2>2, <2>3, RowsChange, BoundAssumption DEF IInv
<1> QED
  BY <1>1, OrderInvariance, PTL DEF Spec, RowsLandInOrderUnlessRaced

\* An accepted PUT was built on the list it replaces, unless the device was raced
\* (getDeviceLibrary and the version that PUT compares).
THEOREM AcceptedEditsWereSeen == Spec => EditsBuildOnSeenList
<1> DEFINE WasSeen == \A c \in Client :
                        Wins(c) => \/ dev[c] \in raced'
                                   \/ Visible(base[c]) = Visible(rows[dev[c]])
<1>1. IInv /\ OrderInv /\ [Next]_vars => WasSeen
  BY WinnerIsCurrent DEF OrderInv, Seen
<1> QED
  BY <1>1, OrderInvariance, PTL DEF Spec, EditsBuildOnSeenList

\* An editor that shows an item whose deletion has ended is refused, unless the
\* device was raced (deleteLibrary bumps every list it takes the item from).
THEOREM DeletionsRefuseTheEditor == Spec => DeletionsStaleTheEditor
<1> DEFINE NoneGone == \A c \in Client :
                         Wins(c) => \/ dev[c] \in raced'
                                    \/ \A i \in Items(base[c]) : itemState[i] # "gone"
<1>1. IInv /\ OrderInv /\ [Next]_vars => NoneGone
  BY WinnerIsCurrent DEF OrderInv, Pending, StaleItem
<1> QED
  BY <1>1, OrderInvariance, PTL DEF Spec, DeletionsStaleTheEditor
=============================================================================
