------------------------------ MODULE Pairing ------------------------------
(***************************************************************************)
(* Device pairing: src/src/devices/pairings.ts over the D1 statements of   *)
(* src/src/devices/repository.ts, with the operations that meet it in the  *)
(* same rows: manual devices and revocation (src/src/devices/service.ts),  *)
(* account deletion                                                        *)
(* (src/src/auth/account-deletion.ts) and the daily cleanup                *)
(* (src/src/db/cleanup.ts).                                                *)
(*                                                                         *)
(* A pairing stands for one start attempt of one reader, so the reader's   *)
(* own state is indexed by it.  A client is one request of a logged-in     *)
(* browser.  Every action is one D1 statement (Complete, Approve, Reject   *)
(* and CreateManual take several), and a request may stop between two.     *)
(* Revocation reads the row first, but its one write repeats the check the *)
(* read made, so the write is the whole request.                           *)
(*                                                                         *)
(* Data: the token in a pairing row is the device it was made for; time is *)
(* the fact that a pairing has passed expires_at.  Rotation replaces       *)
(* token_hash, which nothing here reads, and is left out.                  *)
(***************************************************************************)
EXTENDS Integers, FiniteSets

CONSTANTS
  Pairing,     \* ids of device_pairings rows
  Device,      \* ids of devices rows, a fresh one per insert
  NoDevice,
  Account,
  Client,      \* browser requests in progress
  Nothing,     \* no pairing, no account
  MaxDevices,  \* resolveMaxDevicesPerAccount
  MaxAttempts  \* MAX_USER_CODE_GENERATION_ATTEMPTS

ASSUME NoDeviceAssumption == NoDevice \notin Device
ASSUME NothingAssumption == Nothing \notin Pairing \union Account
ASSUME FiniteAssumption == IsFiniteSet(Device) /\ IsFiniteSet(Client)
ASSUME BoundAssumption ==
  MaxDevices \in Nat \ {0} /\ MaxAttempts \in Nat \ {0}

VARIABLES
  \* accounts, devices and device_pairings
  live,       \* accounts that exist
  dstatus,    \* devices.status, "unused" before the insert, "gone" after a delete
  owner,      \* devices.account_id
  paired,     \* devices whose registration_method is 'pairing'
  pstatus,    \* device_pairings.status, "unused" and "gone" likewise
  pdevice,    \* device_pairings.device_id
  ptoken,     \* device whose token is encrypted in the row
  expired,    \* pairings past expires_at
  \* browser requests
  pc, acc, target, made, todo,
  fresh,      \* approved_at, read before the device insert, precedes expires_at
  \* readers
  gpc, tries,
  cred,       \* device whose first token the reader was handed
  \* history
  won,        \* device the pairing was approved with
  answered,   \* devices whose approval was answered with success
  refused,    \* pairings whose rejection was answered with success
  lost        \* devices whose approval stopped before it was decided

tables  == <<live, dstatus, owner, paired, pstatus, pdevice, ptoken, expired>>
devices == <<dstatus, owner, paired>>
pairings == <<pstatus, pdevice, ptoken, expired>>
locals  == <<acc, target, made, todo, fresh>>
readers == <<gpc, tries, cred>>
history == <<won, answered, refused, lost>>
vars == <<tables, pc, locals, readers, history>>

Labels == {"idle", "count", "insert", "approve", "rollback", "reject",
           "countManual", "insertManual", "revokeAll", "deleteAccount"}

\* countActiveDevices
Active(a) == {d \in Device : dstatus[d] = "active" /\ owner[d] = a}
\* Requests of a that have counted and not yet inserted.
Counted(a) == {c \in Client : pc[c] \in {"insert", "insertManual"} /\ acc[c] = a}

\* Mutant: a pending row is never shown as expired.
StoredStatus(p) == pstatus[p]

\* decidePairingStatus; a row that is not there reads as "gone".
Status(p) == IF pstatus[p] = "pending" /\ p \in expired THEN "expired" ELSE pstatus[p]

TypeOK ==
  /\ live \subseteq Account
  /\ dstatus \in [Device -> {"unused", "active", "revoked", "gone"}]
  /\ owner \in [Device -> Account \union {Nothing}]
  /\ paired \subseteq Device
  /\ pstatus \in [Pairing -> {"unused", "pending", "approved", "rejected",
                              "completed", "gone"}]
  /\ pdevice \in [Pairing -> Device \union {NoDevice}]
  /\ ptoken \in [Pairing -> Device \union {NoDevice}]
  /\ expired \subseteq Pairing
  /\ pc \in [Client -> Labels]
  /\ acc \in [Client -> Account \union {Nothing}]
  /\ target \in [Client -> Pairing \union {Nothing}]
  /\ made \in [Client -> Device \union {NoDevice}]
  /\ todo \in [Client -> SUBSET Device]
  /\ fresh \in [Client -> BOOLEAN]
  /\ gpc \in [Pairing -> {"off", "starting", "polling", "paired", "confirming", "done", "failed"}]
  /\ tries \in [Pairing -> 0 .. MaxAttempts]
  /\ cred \in [Pairing -> Device \union {NoDevice}]
  /\ won \in [Pairing -> Device \union {NoDevice}]
  /\ answered \in [Pairing -> SUBSET Device]
  /\ refused \subseteq Pairing
  /\ lost \subseteq Device

Init ==
  /\ live = Account
  /\ dstatus = [d \in Device |-> "unused"]
  /\ owner = [d \in Device |-> Nothing]
  /\ paired = {}
  /\ pstatus = [p \in Pairing |-> "unused"]
  /\ pdevice = [p \in Pairing |-> NoDevice]
  /\ ptoken = [p \in Pairing |-> NoDevice]
  /\ expired = {}
  /\ pc = [c \in Client |-> "idle"]
  /\ acc = [c \in Client |-> Nothing]
  /\ target = [c \in Client |-> Nothing]
  /\ made = [c \in Client |-> NoDevice]
  /\ todo = [c \in Client |-> {}]
  /\ fresh = [c \in Client |-> FALSE]
  /\ gpc = [p \in Pairing |-> "off"]
  /\ tries = [p \in Pairing |-> 0]
  /\ cred = [p \in Pairing |-> NoDevice]
  /\ won = [p \in Pairing |-> NoDevice]
  /\ answered = [p \in Pairing |-> {}]
  /\ refused = {}
  /\ lost = {}

-----------------------------------------------------------------------------
(* The reader: startPairing, pollPairing, completePairingByDevice.         *)

Start(p) ==
  /\ gpc[p] = "off"
  /\ gpc' = [gpc EXCEPT ![p] = "starting"]
  /\ UNCHANGED <<tables, pc, locals, tries, cred, history>>

\* An attempt of the insert loop that does not end it: the code or, after an
\* attempt that was stored and reported as failed, the id collides, or D1
\* fails.  The tenth such attempt answers 500.
InsertFails(p) ==
  /\ gpc[p] = "starting"
  /\ tries' = [tries EXCEPT ![p] = @ + 1]
  /\ gpc' = [gpc EXCEPT ![p] = IF tries'[p] = MaxAttempts THEN "failed" ELSE @]
  /\ \/ UNCHANGED pstatus
     \/ /\ pstatus[p] = "unused"
        /\ pstatus' = [pstatus EXCEPT ![p] = "pending"]
  /\ UNCHANGED <<live, devices, pdevice, ptoken, expired, pc, locals, cred, history>>

InsertPairing(p) ==
  /\ gpc[p] = "starting"
  /\ pstatus[p] = "unused"
  /\ pstatus' = [pstatus EXCEPT ![p] = "pending"]
  /\ gpc' = [gpc EXCEPT ![p] = "polling"]
  /\ UNCHANGED <<live, devices, pdevice, ptoken, expired, pc, locals, tries, cred, history>>

\* The reader goes on polling while the answer is "pending", and keeps what an
\* "approved" answer carries.  An approved row whose device_id is NULL is a 500.
PollPairing(p) ==
  /\ gpc[p] = "polling"
  /\ LET s == Status(p) IN
     \/ /\ s # "approved"
        /\ gpc' = [gpc EXCEPT ![p] = IF s = "pending" THEN @ ELSE "failed"]
        /\ UNCHANGED cred
     \/ /\ s = "approved" /\ (pdevice[p] = NoDevice \/ ptoken[p] = NoDevice)
        /\ gpc' = [gpc EXCEPT ![p] = "failed"]
        /\ UNCHANGED cred
     \/ /\ s = "approved" /\ pdevice[p] # NoDevice /\ ptoken[p] # NoDevice
        /\ gpc' = [gpc EXCEPT ![p] = "paired"]
        /\ cred' = [cred EXCEPT ![p] = ptoken[p]]
  /\ UNCHANGED <<tables, pc, locals, tries, history>>

\* completePairingByDevice: the read, then the conditional update.
CompleteRead(p) ==
  /\ gpc[p] = "paired"
  /\ gpc' = [gpc EXCEPT ![p] = IF pstatus[p] = "approved" THEN "confirming" ELSE "done"]
  /\ UNCHANGED <<tables, pc, locals, tries, cred, history>>

CompletePairingRow(p) ==
  /\ gpc[p] = "confirming"
  /\ gpc' = [gpc EXCEPT ![p] = "done"]
  /\ IF pstatus[p] = "approved"
       THEN /\ pstatus' = [pstatus EXCEPT ![p] = "completed"]
            /\ ptoken' = [ptoken EXCEPT ![p] = NoDevice]
       ELSE UNCHANGED <<pstatus, ptoken>>
  /\ UNCHANGED <<live, devices, pdevice, expired, pc, locals, tries, cred, history>>

-----------------------------------------------------------------------------
(* The browser: approvePairingForAccount and rejectPairingForAccount.      *)

Finish(c) ==
  /\ pc' = [pc EXCEPT ![c] = "idle"]
  /\ acc' = [acc EXCEPT ![c] = Nothing]
  /\ target' = [target EXCEPT ![c] = Nothing]
  /\ made' = [made EXCEPT ![c] = NoDevice]
  /\ todo' = [todo EXCEPT ![c] = {}]
  /\ fresh' = [fresh EXCEPT ![c] = FALSE]

\* The session is checked first, so the account exists.
Begin(c, a, label) ==
  /\ pc[c] = "idle"
  /\ a \in live
  /\ pc' = [pc EXCEPT ![c] = label]
  /\ acc' = [acc EXCEPT ![c] = a]

Approve(c, a, p) ==
  /\ Begin(c, a, "count")
  /\ Status(p) = "pending"
  /\ target' = [target EXCEPT ![c] = p]
  /\ UNCHANGED <<tables, made, todo, fresh, readers, history>>

\* Mutant: one device more.
UnderQuotaInclusive(a) == Cardinality(Active(a)) <= MaxDevices

UnderQuota(a) == Cardinality(Active(a)) < MaxDevices

\* The quota, then approved_at.
ApproveCount(c) ==
  /\ pc[c] = "count"
  /\ \/ /\ UnderQuota(acc[c])
        /\ pc' = [pc EXCEPT ![c] = "insert"]
        /\ fresh' = [fresh EXCEPT ![c] = target[c] \notin expired]
        /\ UNCHANGED <<acc, target, made, todo>>
     \/ ~ UnderQuota(acc[c]) /\ Finish(c)
  /\ UNCHANGED <<tables, readers, history>>

\* The id is a fresh UUID; which one it is makes no difference.
Unused == {d \in Device : dstatus[d] = "unused"}
FreshId == CHOOSE d \in Unused : TRUE

InsertDevice(a) ==
  /\ a \in live
  /\ Unused # {}
  /\ dstatus' = [dstatus EXCEPT ![FreshId] = "active"]
  /\ owner' = [owner EXCEPT ![FreshId] = a]

\* The foreign key fails when the account has been deleted meanwhile.
ApproveInsert(c) ==
  /\ pc[c] = "insert"
  /\ \/ /\ InsertDevice(acc[c])
        /\ made' = [made EXCEPT ![c] = FreshId]
        /\ paired' = paired \union {FreshId}
        /\ pc' = [pc EXCEPT ![c] = "approve"]
        /\ UNCHANGED <<acc, target, todo, fresh>>
     \/ acc[c] \notin live /\ Finish(c) /\ UNCHANGED <<dstatus, owner, paired>>
  /\ UNCHANGED <<live, pairings, readers, history>>

\* Mutant: the update is not conditional on the status.
ApprovableAnyStatus(c) == pstatus[target[c]] \notin {"unused", "gone"} /\ fresh[c]

\* The condition of the update: status = 'pending' AND expires_at > approved_at.
Approvable(c) == pstatus[target[c]] = "pending" /\ fresh[c]

\* Mutant: an error is taken for a lost race, also after the update is stored.
ApproveRollsBackOnError(c) ==
  LET p == target[c]  d == made[c] IN
  /\ pc[c] = "approve"
  /\ IF Approvable(c) /\ acc[c] \in live
       THEN /\ pstatus' = [pstatus EXCEPT ![p] = "approved"]
            /\ pdevice' = [pdevice EXCEPT ![p] = d]
            /\ ptoken' = [ptoken EXCEPT ![p] = d]
            /\ won' = [won EXCEPT ![p] = d]
       ELSE UNCHANGED <<pstatus, pdevice, ptoken, won>>
  /\ pc' = [pc EXCEPT ![c] = "rollback"]
  /\ UNCHANGED <<live, devices, expired, locals, readers, answered, refused, lost>>

\* approvePairingRow, and the answer, which the browser or the Worker may not
\* get.  The foreign key fails when the account has been deleted.
ApprovePairingRow(c) ==
  LET p == target[c]  d == made[c] IN
  /\ pc[c] = "approve"
  /\ \/ /\ Approvable(c) /\ acc[c] \in live
        /\ pstatus' = [pstatus EXCEPT ![p] = "approved"]
        /\ pdevice' = [pdevice EXCEPT ![p] = d]
        /\ ptoken' = [ptoken EXCEPT ![p] = d]
        /\ won' = [won EXCEPT ![p] = d]
        /\ \/ answered' = [answered EXCEPT ![p] = @ \union {d}]
           \/ UNCHANGED answered
        /\ Finish(c)
     \/ /\ Approvable(c) /\ acc[c] \notin live
        /\ Finish(c)
        /\ UNCHANGED <<pstatus, pdevice, ptoken, won, answered>>
     \/ /\ ~ Approvable(c)
        /\ pc' = [pc EXCEPT ![c] = "rollback"]
        /\ UNCHANGED <<locals, pstatus, pdevice, ptoken, won, answered>>
  /\ UNCHANGED <<live, devices, expired, readers, refused, lost>>

\* Rows that name a removed device lose it: ON DELETE SET NULL.
Unlink(ds) == pdevice' = [p \in Pairing |-> IF pdevice[p] \in ds THEN NoDevice ELSE pdevice[p]]

\* Mutant: the loser leaves its device.
KeepDevice(c) ==
  /\ pc[c] = "rollback"
  /\ Finish(c)
  /\ UNCHANGED <<tables, readers, history>>

HardDeleteDevice(c) ==
  /\ pc[c] = "rollback"
  /\ dstatus' = [dstatus EXCEPT ![made[c]] = "gone"]
  /\ Unlink({made[c]})
  /\ Finish(c)
  /\ UNCHANGED <<live, owner, paired, pstatus, ptoken, expired, readers, history>>

\* The clock of the update is read with the check that follows the read.
Reject(c, a, p) ==
  /\ Begin(c, a, "reject")
  /\ Status(p) = "pending"
  /\ target' = [target EXCEPT ![c] = p]
  /\ UNCHANGED <<tables, made, todo, fresh, readers, history>>

\* Mutant: the update is not conditional on the status.
RejectAnyStatus(c) ==
  LET p == target[c] IN
  /\ pc[c] = "reject"
  /\ pstatus' = [pstatus EXCEPT ![p] = "rejected"]
  /\ refused' = refused \union {p}
  /\ Finish(c)
  /\ UNCHANGED <<live, devices, pdevice, ptoken, expired, readers, won, answered, lost>>

RejectPairingRow(c) ==
  LET p == target[c] IN
  /\ pc[c] = "reject"
  /\ IF pstatus[p] = "pending"
       THEN /\ pstatus' = [pstatus EXCEPT ![p] = "rejected"]
            /\ refused' = refused \union {p}
       ELSE UNCHANGED <<pstatus, refused>>
  /\ Finish(c)
  /\ UNCHANGED <<live, devices, pdevice, ptoken, expired, readers, won, answered, lost>>

-----------------------------------------------------------------------------
(* The rest of the device and account API that changes the same rows.      *)

CreateManual(c, a) ==
  /\ Begin(c, a, "countManual")
  /\ UNCHANGED <<tables, target, made, todo, fresh, readers, history>>

ManualCount(c) ==
  /\ pc[c] = "countManual"
  /\ \/ /\ UnderQuota(acc[c])
        /\ pc' = [pc EXCEPT ![c] = "insertManual"]
        /\ UNCHANGED locals
     \/ ~ UnderQuota(acc[c]) /\ Finish(c)
  /\ UNCHANGED <<tables, readers, history>>

\* Nothing is left to decide afterwards: the device is meant to exist.
ManualInsert(c) ==
  /\ pc[c] = "insertManual"
  /\ \/ InsertDevice(acc[c])
     \/ acc[c] \notin live /\ UNCHANGED <<dstatus, owner>>
  /\ Finish(c)
  /\ UNCHANGED <<live, paired, pairings, readers, history>>

\* revokeDeviceRow
RevokeRow(d) ==
  dstatus' = [dstatus EXCEPT ![d] = IF @ = "active" THEN "revoked" ELSE @]

RevokeDevice(d) ==
  /\ dstatus[d] = "active"
  /\ RevokeRow(d)
  /\ UNCHANGED <<live, owner, paired, pairings, pc, locals, readers, history>>

\* deleteAccountCompletely: list the devices, revoke each, delete the account.
DeleteAccount(c, a) ==
  /\ Begin(c, a, "revokeAll")
  /\ todo' = [todo EXCEPT ![c] = Active(a)]
  /\ UNCHANGED <<tables, target, made, fresh, readers, history>>

RevokeNext(c) ==
  /\ pc[c] = "revokeAll"
  /\ \/ \E d \in todo[c] :
          /\ RevokeRow(d)
          /\ todo' = [todo EXCEPT ![c] = @ \ {d}]
          /\ UNCHANGED pc
     \/ /\ todo[c] = {}
        /\ pc' = [pc EXCEPT ![c] = "deleteAccount"]
        /\ UNCHANGED <<todo, dstatus>>
  /\ UNCHANGED <<live, owner, paired, pairings, acc, target, made, fresh, readers,
                 history>>

\* The devices go with the account: ON DELETE CASCADE.
DeleteAccountRow(c) ==
  LET mine == {d \in Device : owner[d] = acc[c] /\ dstatus[d] # "gone"} IN
  /\ pc[c] = "deleteAccount"
  /\ live' = live \ {acc[c]}
  /\ dstatus' = [d \in Device |-> IF d \in mine THEN "gone" ELSE dstatus[d]]
  /\ Unlink(mine)
  /\ Finish(c)
  /\ UNCHANGED <<owner, paired, pstatus, ptoken, expired, readers, history>>

\* Ten minutes have passed since the pairing began.
Expire(p) ==
  /\ pstatus[p] # "unused"
  /\ p \notin expired
  /\ expired' = expired \union {p}
  /\ UNCHANGED <<live, devices, pstatus, pdevice, ptoken, pc, locals, readers, history>>

\* cleanupAppDb: one DELETE of every row past expires_at, whatever its status.
CleanupPairings ==
  LET old == {p \in expired : pstatus[p] # "gone"} IN
  /\ old # {}
  /\ pstatus' = [p \in Pairing |-> IF p \in old THEN "gone" ELSE pstatus[p]]
  /\ pdevice' = [p \in Pairing |-> IF p \in old THEN NoDevice ELSE pdevice[p]]
  /\ ptoken' = [p \in Pairing |-> IF p \in old THEN NoDevice ELSE ptoken[p]]
  /\ UNCHANGED <<live, devices, expired, pc, locals, readers, history>>

\* A request ends between two statements: a D1 error or a lost Worker.
Stop(c) ==
  /\ pc[c] # "idle"
  /\ lost' = IF made[c] = NoDevice THEN lost ELSE lost \union {made[c]}
  /\ Finish(c)
  /\ UNCHANGED <<tables, readers, won, answered, refused>>

-----------------------------------------------------------------------------
Reader(p) ==
  \/ Start(p) \/ InsertFails(p) \/ InsertPairing(p)
  \/ PollPairing(p) \/ CompleteRead(p) \/ CompletePairingRow(p)

Browser(c) ==
  \/ \E a \in Account : CreateManual(c, a) \/ DeleteAccount(c, a)
  \/ \E a \in Account, p \in Pairing : Approve(c, a, p) \/ Reject(c, a, p)
  \/ ApproveCount(c) \/ ApproveInsert(c) \/ ApprovePairingRow(c)
  \/ HardDeleteDevice(c) \/ RejectPairingRow(c)
  \/ ManualCount(c) \/ ManualInsert(c)
  \/ RevokeNext(c) \/ DeleteAccountRow(c) \/ Stop(c)

Next ==
  \/ \E p \in Pairing : Reader(p) \/ Expire(p)
  \/ \E c \in Client : Browser(c)
  \/ \E d \in Device : RevokeDevice(d)
  \/ CleanupPairings

Spec == Init /\ [][Next]_vars

\* Readers go on polling and time passes; nothing obliges anyone to approve,
\* and nothing obliges the cleanup, which is best effort.
Fairness == \A p \in Pairing : WF_vars(PollPairing(p)) /\ WF_vars(Expire(p))
FairSpec == Spec /\ Fairness

-----------------------------------------------------------------------------
(* Properties *)

\* At most one approval of a pairing is answered with success, it is the one
\* whose device the pairing became, and none is after an answered rejection:
\* approvePairingForAccount and rejectPairingForAccount decide by conditional
\* updates (pairings.ts:417, pairings.ts:451).
AnswersAgree ==
  \A p \in Pairing :
    /\ answered[p] \subseteq {won[p]}
    /\ p \in refused => won[p] = NoDevice /\ cred[p] = NoDevice

\* A request that created d is still on its way.
InApproval(d) == \E c \in Client : made[c] = d

\* An active device that came from an approval is the device of a pairing,
\* unless the approval is still running or stopped half-way: the losers of a
\* race remove the device they inserted (pairings.ts:430).
Approvals == {d \in Device : \E p \in Pairing : won[p] = d}
OrphanHasCause ==
  \A d \in paired : dstatus[d] = "active" => d \in Approvals \/ InApproval(d) \/ d \in lost

\* A reader holds the credential of a device that is still there, whatever
\* became of the requests that raced for its pairing, as long as the account
\* is: only a revocation or a rotation shuts it out (pairings.ts:430).
HandedTokenWorks ==
  \A p \in Pairing : cred[p] # NoDevice =>
    LET d == cred[p] IN
    owner[d] \in live => dstatus[d] \in {"active", "revoked"}

\* The quota counts before the insert, so requests that overlap may exceed it,
\* but only by as many devices as there are other requests (pairings.ts:388,
\* service.ts:231).
QuotaBound ==
  \A a \in Account : Cardinality(Active(a)) <= MaxDevices - 1 + Cardinality(Client)

\* A reader that polls learns the outcome of its pairing in the end
\* (pairings.ts:254): the row is decided, or it expires.
PollingEnds == \A p \in Pairing : gpc[p] = "polling" ~> gpc[p] # "polling"

\* Pairing keeps what PairingPromise promises.
Promise == INSTANCE PairingPromise
  WITH device <- won, refused <- refused, handed <- cred
ImplementsPromise == Promise!Spec
=============================================================================
