--------------------------- MODULE DeviceLibrary ---------------------------
(***************************************************************************)
(* The delivery lists of an account's devices: src/src/devices/service.ts  *)
(* over the D1 statements of src/src/devices/repository.ts, with the part  *)
(* of deleteLibrary (src/src/library/service.ts) that touches them.        *)
(*                                                                         *)
(* A client is one caller: a browser tab with the list editor open, the    *)
(* auto-delivery after a save, or a delete request.  Every action is one   *)
(* D1 statement or batch, so the requests of several clients interleave,   *)
(* and a request may stop between two of them (Stop).                      *)
(*                                                                         *)
(* Data: a delivery list is a set of rows <<item, position>>.              *)
(***************************************************************************)
EXTENDS Integers, FiniteSets

CONSTANTS
  Device,      \* the account's devices
  NoDevice,
  Item,        \* ids of library items
  NoItem,
  Client,      \* concurrent callers
  MaxVersion   \* bound on library_version

ASSUME NoDeviceAssumption == NoDevice \notin Device
ASSUME NoItemAssumption == NoItem \notin Item
ASSUME ItemAssumption == IsFiniteSet(Item)
ASSUME BoundAssumption == MaxVersion \in Nat \ {0}

VARIABLES
  status,     \* devices.status
  version,    \* devices.library_version
  rows,       \* rows[d]: device_library_items rows of device d
  itemState,  \* library_items: "absent", "live", "soft" (deleted_at set), "gone"
  pc,         \* next statement of a client
  dev,        \* the device of its request
  ver,        \* the version it holds: expectedVersion of its next PUT
  base,       \* the list it was shown, on which its next PUT is built
  want,       \* the rows its PUT inserts
  item,       \* the item it saves or deletes (NoItem: an editor)
  affected,   \* device ids returned by removeItemFromAllDeviceLibraries
  accepted,   \* history: accepted[d][v]: rows of the PUTs that won version v
  rowsOf,     \* history: rowsOf[d]: version won by the PUT that wrote the rows
              \* (0: the empty list of a new device)
  raced       \* history: devices whose version was read or won by a request
              \* while a PUT was between its version bump and its batch

tables  == <<status, version, rows, itemState>>
locals  == <<dev, ver, base, want, item, affected>>
history == <<accepted, rowsOf, raced>>
vars    == <<tables, pc, locals, history>>

Row == Item \X Nat
Items(l) == {row[1] : row \in l}
\* Mutant: the list shows soft-deleted items as well.
VisibleAll(l) == l

Visible(l) == {row \in l : itemState[row[1]] = "live"}
Exists(i) == itemState[i] \in {"live", "soft"}

Labels == {"idle", "getDevice", "getItems", "editing", "checkDevice",
           "countOwned", "increment", "replace", "reload", "autoDevices",
           "softDelete", "removeRows", "bump", "deleteObject", "hardDelete"}

\* The delivery lists a request may carry: distinct items at positions 0, 1, ...
Lists ==
  UNION {{ {<<i, f[i]>> : i \in S} :
           f \in {g \in [S -> 0 .. Cardinality(S) - 1] :
                    \A i, j \in S : g[i] = g[j] => i = j}} : S \in SUBSET Item}

\* A list in its order, renumbered from 0 behind a new first item.
Prepend(i, l) ==
  {<<i, 0>>} \union
  {<<row[1], 1 + Cardinality({r \in l : r[2] < row[2]})>> : row \in l}

-----------------------------------------------------------------------------
TypeOK ==
  /\ status \in [Device -> {"active", "revoked"}]
  /\ version \in [Device -> 1 .. MaxVersion]
  /\ rows \in [Device -> SUBSET Row]
  /\ itemState \in [Item -> {"absent", "live", "soft", "gone"}]
  /\ pc \in [Client -> Labels]
  /\ dev \in [Client -> Device \union {NoDevice}]
  /\ ver \in [Client -> 0 .. MaxVersion]
  /\ base \in [Client -> SUBSET Row]
  /\ want \in [Client -> SUBSET Row]
  /\ item \in [Client -> Item \union {NoItem}]
  /\ affected \in [Client -> SUBSET Device]
  /\ accepted \in [Device -> [1 .. MaxVersion -> SUBSET SUBSET Row]]
  /\ rowsOf \in [Device -> 0 .. MaxVersion]
  /\ raced \subseteq Device

\* insertDevice: active, version 1, nothing assigned.
Init ==
  /\ status = [d \in Device |-> "active"]
  /\ version = [d \in Device |-> 1]
  /\ rows = [d \in Device |-> {}]
  /\ itemState \in [Item -> {"absent", "live"}]
  /\ pc = [c \in Client |-> "idle"]
  /\ dev = [c \in Client |-> NoDevice]
  /\ ver = [c \in Client |-> 0]
  /\ base = [c \in Client |-> {}]
  /\ want = [c \in Client |-> {}]
  /\ item = [c \in Client |-> NoItem]
  /\ affected = [c \in Client |-> {}]
  /\ accepted = [d \in Device |-> [v \in 1 .. MaxVersion |-> {}]]
  /\ rowsOf = [d \in Device |-> 0]
  /\ raced = {}

GoTo(c, l) == pc' = [pc EXCEPT ![c] = l]

\* The request is over: answered, refused, or lost with its worker.
Finish(c) ==
  /\ GoTo(c, "idle")
  /\ dev' = [dev EXCEPT ![c] = NoDevice]
  /\ ver' = [ver EXCEPT ![c] = 0]
  /\ base' = [base EXCEPT ![c] = {}]
  /\ want' = [want EXCEPT ![c] = {}]
  /\ item' = [item EXCEPT ![c] = NoItem]
  /\ affected' = [affected EXCEPT ![c] = {}]

\* Some PUT has bumped the version of d and not yet written its rows.
Window(d) == \E c \in Client : pc[c] = "replace" /\ dev[c] = d
Notice(d) == raced' = IF Window(d) THEN raced \union {d} ELSE raced

-----------------------------------------------------------------------------
(* GET /api/devices/:deviceId/library, from an editor or from the          *)
(* auto-delivery: two separate reads.                                      *)

Open(c, d) ==
  /\ pc[c] = "idle"
  /\ GoTo(c, "getDevice")
  /\ dev' = [dev EXCEPT ![c] = d]
  /\ UNCHANGED <<tables, ver, base, want, item, affected, history>>

GetDevice(c) ==
  /\ pc[c] = "getDevice"
  /\ Notice(dev[c])
  /\ ver' = [ver EXCEPT ![c] = version[dev[c]]]
  /\ GoTo(c, "getItems")
  /\ UNCHANGED <<tables, dev, base, want, item, affected, accepted, rowsOf>>

ShowItems(c) ==
  /\ pc[c] = "getItems" /\ item[c] = NoItem
  /\ base' = [base EXCEPT ![c] = Visible(rows[dev[c]])]
  /\ GoTo(c, "editing")
  /\ UNCHANGED <<tables, dev, ver, want, item, affected, history>>

\* autoAddItemToSoleActiveDevice stops if the list already has the item.
AutoItems(c) ==
  LET shown == Visible(rows[dev[c]]) IN
  /\ pc[c] = "getItems" /\ item[c] # NoItem
  /\ IF item[c] \in Items(shown)
     THEN Finish(c)
     ELSE /\ base' = [base EXCEPT ![c] = shown]
          /\ want' = [want EXCEPT ![c] = Prepend(item[c], shown)]
          /\ GoTo(c, "checkDevice")
          /\ UNCHANGED <<dev, ver, item, affected>>
  /\ UNCHANGED <<tables, history>>

-----------------------------------------------------------------------------
(* PUT /api/devices/:deviceId/library: replaceDeviceLibrary.               *)

Submit(c) ==
  /\ pc[c] = "editing"
  /\ \E l \in Lists : want' = [want EXCEPT ![c] = l]
  /\ GoTo(c, "checkDevice")
  /\ UNCHANGED <<tables, dev, ver, base, item, affected, history>>

CheckDevice(c) ==
  /\ pc[c] = "checkDevice"
  /\ IF status[dev[c]] = "active" /\ version[dev[c]] = ver[c]
     THEN GoTo(c, "countOwned") /\ UNCHANGED locals
     ELSE Finish(c)
  /\ UNCHANGED <<tables, history>>

CountOwned(c) ==
  /\ pc[c] = "countOwned"
  /\ IF \A i \in Items(want[c]) : itemState[i] = "live"
     THEN GoTo(c, "increment") /\ UNCHANGED locals
     ELSE Finish(c)
  /\ UNCHANGED <<tables, history>>

\* Mutant: a request whose UPDATE changed no row writes its list all the same.
IncrementUnchecked(c) ==
  LET d == dev[c] IN
  /\ pc[c] = "increment"
  /\ \/ /\ version[d] = ver[c]
        /\ version[d] < MaxVersion
        /\ Notice(d)
        /\ version' = [version EXCEPT ![d] = @ + 1]
        /\ accepted' = [accepted EXCEPT ![d][ver[c]] = @ \union {want[c]}]
     \/ version[d] # ver[c] /\ UNCHANGED <<version, accepted, raced>>
  /\ GoTo(c, "replace")
  /\ UNCHANGED <<status, rows, itemState, locals, rowsOf>>

Increment(c) ==
  LET d == dev[c] IN
  /\ pc[c] = "increment"
  /\ \/ /\ version[d] = ver[c]
        /\ version[d] < MaxVersion
        /\ Notice(d)
        /\ version' = [version EXCEPT ![d] = @ + 1]
        /\ accepted' = [accepted EXCEPT ![d][ver[c]] = @ \union {want[c]}]
        /\ GoTo(c, "replace")
        /\ UNCHANGED locals
     \/ /\ version[d] # ver[c]
        /\ Finish(c)
        /\ UNCHANGED <<version, accepted, raced>>
  /\ UNCHANGED <<status, rows, itemState, rowsOf>>

\* One batch.  An item removed meanwhile fails it on the foreign key.
Replace(c) ==
  LET d == dev[c] IN
  /\ pc[c] = "replace"
  /\ IF \A i \in Items(want[c]) : Exists(i)
     THEN /\ rows' = [rows EXCEPT ![d] = want[c]]
          /\ rowsOf' = [rowsOf EXCEPT ![d] = ver[c]]
          /\ GoTo(c, "reload")
          /\ UNCHANGED locals
     ELSE Finish(c) /\ UNCHANGED <<rows, rowsOf>>
  /\ UNCHANGED <<status, version, itemState, accepted, raced>>

\* The answer carries expectedVersion + 1 and the list as it is now.
Reload(c) ==
  /\ pc[c] = "reload"
  /\ IF item[c] = NoItem
     THEN /\ ver' = [ver EXCEPT ![c] = @ + 1]
          /\ base' = [base EXCEPT ![c] = Visible(rows[dev[c]])]
          /\ want' = [want EXCEPT ![c] = {}]
          /\ GoTo(c, "editing")
          /\ UNCHANGED <<dev, item, affected>>
     ELSE Finish(c)
  /\ UNCHANGED <<tables, history>>

-----------------------------------------------------------------------------
(* POST /api/library/items/from-job: a new item, then the auto-delivery.   *)

Save(c, i) ==
  /\ pc[c] = "idle"
  /\ itemState[i] = "absent"
  /\ itemState' = [itemState EXCEPT ![i] = "live"]
  /\ item' = [item EXCEPT ![c] = i]
  /\ GoTo(c, "autoDevices")
  /\ UNCHANGED <<status, version, rows, dev, ver, base, want, affected, history>>

AutoDevices(c) ==
  LET active == {d \in Device : status[d] = "active"} IN
  /\ pc[c] = "autoDevices"
  /\ IF Cardinality(active) = 1
     THEN /\ dev' = [dev EXCEPT ![c] = CHOOSE d \in Device : d \in active]
          /\ GoTo(c, "getDevice")
          /\ UNCHANGED <<ver, base, want, item, affected>>
     ELSE Finish(c)
  /\ UNCHANGED <<tables, history>>

-----------------------------------------------------------------------------
(* DELETE /api/library/items/:itemId: deleteLibrary.                       *)

Delete(c, i) ==
  /\ pc[c] = "idle"
  /\ itemState[i] = "live"
  /\ item' = [item EXCEPT ![c] = i]
  /\ GoTo(c, "softDelete")
  /\ UNCHANGED <<tables, dev, ver, base, want, affected, history>>

SoftDelete(c) ==
  /\ pc[c] = "softDelete"
  /\ IF itemState[item[c]] = "live"
     THEN /\ itemState' = [itemState EXCEPT ![item[c]] = "soft"]
          /\ GoTo(c, "removeRows")
          /\ UNCHANGED locals
     ELSE Finish(c) /\ UNCHANGED itemState
  /\ UNCHANGED <<status, version, rows, history>>

Without(l, i) == {row \in l : row[1] # i}

RemoveRows(c) ==
  /\ pc[c] = "removeRows"
  /\ rows' = [d \in Device |-> Without(rows[d], item[c])]
  /\ affected' =
       [affected EXCEPT ![c] = {d \in Device : item[c] \in Items(rows[d])}]
  /\ GoTo(c, "bump")
  /\ UNCHANGED <<status, version, itemState, dev, ver, base, want, item, history>>

\* Mutant: the versions are not bumped.
BumpForgotten(c) ==
  /\ pc[c] = "bump"
  /\ GoTo(c, "deleteObject")
  /\ UNCHANGED <<tables, locals, history>>

Bump(c) ==
  /\ pc[c] = "bump"
  /\ \A d \in affected[c] : version[d] < MaxVersion
  /\ version' = [d \in Device |->
                   IF d \in affected[c] THEN version[d] + 1 ELSE version[d]]
  /\ GoTo(c, "deleteObject")
  /\ UNCHANGED <<status, rows, itemState, locals, history>>

\* R2: a failed delete is logged and leaves the soft-deleted row.
DeleteObject(c) ==
  /\ pc[c] = "deleteObject"
  /\ \/ GoTo(c, "hardDelete") /\ UNCHANGED locals
     \/ Finish(c)
  /\ UNCHANGED <<tables, history>>

\* The foreign key cascades to the device rows.
HardDelete(c) ==
  /\ pc[c] = "hardDelete"
  /\ itemState' = [itemState EXCEPT ![item[c]] = "gone"]
  /\ rows' = [d \in Device |-> Without(rows[d], item[c])]
  /\ Finish(c)
  /\ UNCHANGED <<status, version, history>>

-----------------------------------------------------------------------------
\* revokeDevice: its UPDATE is conditional on the status it read.
Revoke(d) ==
  /\ status[d] = "active"
  /\ status' = [status EXCEPT ![d] = "revoked"]
  /\ UNCHANGED <<version, rows, itemState, pc, locals, history>>

\* A worker or a tab goes away between two statements.
Stop(c) ==
  /\ pc[c] # "idle"
  /\ Finish(c)
  /\ UNCHANGED <<tables, history>>

Read(c)  == (\E d \in Device : Open(c, d)) \/ GetDevice(c) \/ ShowItems(c)
Put(c)   == Submit(c) \/ CheckDevice(c) \/ CountOwned(c) \/ Increment(c)
            \/ Replace(c) \/ Reload(c)
AutoDeliver(c) == (\E i \in Item : Save(c, i)) \/ AutoDevices(c) \/ AutoItems(c)
Erase(c) == (\E i \in Item : Delete(c, i)) \/ SoftDelete(c) \/ RemoveRows(c)
            \/ Bump(c) \/ DeleteObject(c) \/ HardDelete(c)

Next ==
  \/ \E c \in Client : Read(c) \/ Put(c) \/ AutoDeliver(c) \/ Erase(c) \/ Stop(c)
  \/ \E d \in Device : Revoke(d)

Spec == Init /\ [][Next]_vars

-----------------------------------------------------------------------------
(* Safety.                                                                 *)

\* The rows of a device are those of one PUT that won its version check, less
\* items that are no longer live: the rows of a losing PUT never land, and no
\* two PUTs mix (replaceDeviceLibrary, replaceDeviceLibraryEntries).
OnlyWinnersLand ==
  \A d \in Device :
    IF rowsOf[d] = 0
    THEN rows[d] = {}
    ELSE \E l \in accepted[d][rowsOf[d]] :
           /\ rows[d] \subseteq l
           /\ \A row \in l \ rows[d] : itemState[row[1]] \in {"soft", "gone"}

\* Of all PUTs that carry the same expectedVersion at most one is accepted,
\* whatever deletions bump the version in between
\* (incrementDeviceLibraryVersion).
VersionWonOnce ==
  \A d \in Device : \A v \in 1 .. MaxVersion :
    \A k, l \in accepted[d][v] : k = l

\* Batches land in the order of the versions they won, so the list in force is
\* that of the last accepted PUT that landed, unless a request reads or wins the
\* version between the two calls of another (replaceDeviceLibrary: the version
\* is bumped by one statement, the rows are replaced by a later batch).
RowsLandInOrderUnlessRaced ==
  [][\A d \in Device : d \in raced' \/ rowsOf'[d] >= rowsOf[d]]_vars

Wins(c) == pc[c] = "increment" /\ pc'[c] = "replace"

\* Unless raced, an accepted PUT was built on the list it replaces: nobody
\* overwrites an edit that the editor was never shown (getDeviceLibrary reads
\* the version and the items separately; PUT only compares versions).
EditsBuildOnSeenList ==
  [][\A c \in Client :
       Wins(c) => \/ dev[c] \in raced'
                  \/ Visible(base[c]) = Visible(rows[dev[c]])]_vars

\* Unless raced, a PUT from an editor that still shows an item whose deletion
\* has run to its end is refused: deleteLibrary bumps every list it takes the
\* item from (bumpLibraryVersionForDevices).
DeletionsStaleTheEditor ==
  [][\A c \in Client :
       Wins(c) => \/ dev[c] \in raced'
                  \/ \A i \in Items(base[c]) : itemState[i] # "gone"]_vars
=============================================================================
