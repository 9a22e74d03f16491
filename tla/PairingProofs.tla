--------------------------- MODULE PairingProofs ---------------------------
(***************************************************************************)
(* Theorems about Pairing, for any number of pairings, devices, accounts   *)
(* and requests.                                                           *)
(*                                                                         *)
(* What is inductive: a device is in at most one hand, that of the request *)
(* that inserted it or of the pairing it became (Apart); a row, what was   *)
(* answered about it and what its reader holds agree (Decided); a device   *)
(* is removed only by its request or with its account (Kept).              *)
(***************************************************************************)
EXTENDS Pairing, FiniteSetTheorems, TLAPS

\* A request that works on a pairing names one, and one that is deciding a
\* pairing has made a device; a reader that tries to start has tries left.
Requests ==
  /\ \A c \in Client :
       /\ pc[c] \in {"count", "insert", "approve", "rollback", "reject"} => target[c] \in Pairing
       /\ pc[c] \in {"approve", "rollback"} <=> made[c] # NoDevice
  /\ \A p \in Pairing :
       /\ gpc[p] = "off" => tries[p] = 0
       /\ gpc[p] = "starting" => tries[p] < MaxAttempts

\* What a request made, no other request made and no pairing became.
Apart ==
  /\ \A c, e \in Client : made[c] # NoDevice /\ made[c] = made[e] => c = e
  /\ \A c \in Client, p \in Pairing : made[c] # NoDevice => won[p] # made[c]
  /\ \A p, q \in Pairing : won[p] # NoDevice /\ won[p] = won[q] => p = q

\* Devices that were made or won or came from an approval have a row, or had one.
Inserted ==
  /\ \A c \in Client : made[c] # NoDevice => dstatus[made[c]] # "unused"
  /\ \A p \in Pairing : won[p] # NoDevice => dstatus[won[p]] # "unused"
  /\ \A d \in paired : dstatus[d] # "unused"

\* A row, its history and its reader agree.
Decided ==
  \A p \in Pairing :
    /\ pstatus[p] \in {"unused", "pending", "rejected"} => won[p] = NoDevice
    /\ p \in refused => pstatus[p] \in {"rejected", "gone"} /\ won[p] = NoDevice
    /\ answered[p] \subseteq {won[p]}
    /\ ptoken[p] \in {NoDevice, won[p]}
    /\ cred[p] \in {NoDevice, won[p]}

Stays(d) == owner[d] \in live => dstatus[d] \in {"active", "revoked"}

\* Devices do not outlive their account, and do not go before it once they are
\* decided on.
Kept ==
  /\ \A d \in Device : dstatus[d] \in {"active", "revoked"} => owner[d] \in live
  /\ \A c \in Client : made[c] # NoDevice => owner[made[c]] = acc[c]
  /\ \A p \in Pairing : won[p] # NoDevice => Stays(won[p])
  /\ \A c \in Client : pc[c] = "approve" => Stays(made[c])

IInv == TypeOK /\ Requests /\ Apart /\ Inserted /\ Decided /\ Kept

-----------------------------------------------------------------------------
\* The id of a new row was not used before.
LEMMA FreshIdIsUnused ==
  ASSUME Unused # {}
  PROVE  FreshId \in Device /\ dstatus[FreshId] = "unused"
BY DEF FreshId, Unused

\* Every step keeps the type invariant.
LEMMA TypeStep ==
  ASSUME TypeOK, Requests, [Next]_vars
  PROVE  TypeOK'
<1> USE DEF TypeOK, Requests, Labels, Active, tables, devices, pairings, locals, readers, history
<1>1. ASSUME NEW p \in Pairing, Start(p) PROVE TypeOK'
  BY <1>1, BoundAssumption DEF Start
<1>2. ASSUME NEW p \in Pairing, InsertFails(p) PROVE TypeOK'
  BY <1>2, BoundAssumption DEF InsertFails
<1>3. ASSUME NEW p \in Pairing, InsertPairing(p) PROVE TypeOK'
  BY <1>3 DEF InsertPairing
<1>4. ASSUME NEW p \in Pairing, PollPairing(p) PROVE TypeOK'
  BY <1>4 DEF PollPairing
<1>5. ASSUME NEW p \in Pairing, CompleteRead(p) PROVE TypeOK'
  BY <1>5 DEF CompleteRead
<1>6. ASSUME NEW p \in Pairing, CompletePairingRow(p) PROVE TypeOK'
  BY <1>6 DEF CompletePairingRow
<1>7. ASSUME NEW p \in Pairing, Expire(p) PROVE TypeOK'
  BY <1>7 DEF Expire
<1>8. ASSUME NEW c \in Client, NEW a \in Account, CreateManual(c, a) PROVE TypeOK'
  BY <1>8 DEF CreateManual, Begin
<1>9. ASSUME NEW c \in Client, NEW a \in Account, DeleteAccount(c, a) PROVE TypeOK'
  BY <1>9 DEF DeleteAccount, Begin
<1>10. ASSUME NEW c \in Client, NEW a \in Account, NEW p \in Pairing, Approve(c, a, p) PROVE TypeOK'
  BY <1>10 DEF Approve, Begin
<1>11. ASSUME NEW c \in Client, NEW a \in Account, NEW p \in Pairing, Reject(c, a, p) PROVE TypeOK'
  BY <1>11 DEF Reject, Begin
<1>12. ASSUME NEW c \in Client, ApproveCount(c) PROVE TypeOK'
  BY <1>12 DEF ApproveCount, Finish
<1>13. ASSUME NEW c \in Client, ApproveInsert(c) PROVE TypeOK'
  <2>1. CASE acc[c] \in live
    <3>1. /\ FreshId \in Device /\ acc[c] \in live
          /\ dstatus' = [dstatus EXCEPT ![FreshId] = "active"]
          /\ owner' = [owner EXCEPT ![FreshId] = acc[c]]
          /\ made' = [made EXCEPT ![c] = FreshId]
          /\ paired' = paired \union {FreshId}
          /\ pc' = [pc EXCEPT ![c] = "approve"]
          /\ UNCHANGED <<acc, target, todo, fresh, live, pairings, readers, history>>
      BY <1>13, <2>1, FreshIdIsUnused DEF ApproveInsert, InsertDevice
    <3>2. dstatus' \in [Device -> {"unused", "active", "revoked", "gone"}]
      BY <3>1
    <3>3. owner' \in [Device -> Account \union {Nothing}] /\ paired' \subseteq Device
      BY <3>1
    <3>4. made' \in [Client -> Device \union {NoDevice}] /\ pc' \in [Client -> Labels]
      BY <3>1
    <3> QED
      BY <3>1, <3>2, <3>3, <3>4
  <2>2. CASE acc[c] \notin live
    BY <1>13, <2>2 DEF ApproveInsert, Finish, InsertDevice
  <2> QED
    BY <2>1, <2>2
<1>14. ASSUME NEW c \in Client, ApprovePairingRow(c) PROVE TypeOK'
  <2>1. target[c] \in Pairing /\ made[c] \in Device
    BY <1>14 DEF ApprovePairingRow
  <2>2. /\ pstatus' \in [Pairing -> {"unused", "pending", "approved", "rejected",
                                   "completed", "gone"}]
        /\ pdevice' \in [Pairing -> Device \union {NoDevice}]
        /\ ptoken' \in [Pairing -> Device \union {NoDevice}]
        /\ won' \in [Pairing -> Device \union {NoDevice}]
    BY <1>14, <2>1 DEF ApprovePairingRow
  <2>3. answered' \in [Pairing -> SUBSET Device]
    BY <1>14, <2>1 DEF ApprovePairingRow
  <2>4. /\ pc' \in [Client -> Labels]
        /\ acc' \in [Client -> Account \union {Nothing}]
        /\ target' \in [Client -> Pairing \union {Nothing}]
        /\ made' \in [Client -> Device \union {NoDevice}]
        /\ todo' \in [Client -> SUBSET Device]
        /\ fresh' \in [Client -> BOOLEAN]
    BY <1>14 DEF ApprovePairingRow, Finish
  <2>5. UNCHANGED <<live, devices, expired, readers, refused, lost>>
    BY <1>14 DEF ApprovePairingRow
  <2> QED
    BY <2>2, <2>3, <2>4, <2>5
<1>15. ASSUME NEW c \in Client, HardDeleteDevice(c) PROVE TypeOK'
  BY <1>15 DEF HardDeleteDevice, Finish, Unlink
<1>16. ASSUME NEW c \in Client, RejectPairingRow(c) PROVE TypeOK'
  BY <1>16 DEF RejectPairingRow, Finish
<1>17. ASSUME NEW c \in Client, ManualCount(c) PROVE TypeOK'
  BY <1>17 DEF ManualCount, Finish
<1>18. ASSUME NEW c \in Client, ManualInsert(c) PROVE TypeOK'
  <2>1. CASE acc[c] \in live
    BY SMTT(60), <1>18, <2>1, FreshIdIsUnused DEF ManualInsert, Finish, InsertDevice
  <2>2. CASE acc[c] \notin live
    BY SMTT(60), <1>18, <2>2, FreshIdIsUnused DEF ManualInsert, Finish, InsertDevice
  <2> QED
    BY <2>1, <2>2
<1>19. ASSUME NEW c \in Client, RevokeNext(c) PROVE TypeOK'
  BY <1>19 DEF RevokeNext, RevokeRow
<1>20. ASSUME NEW c \in Client, DeleteAccountRow(c) PROVE TypeOK'
  BY <1>20 DEF DeleteAccountRow, Finish, Unlink
<1>21. ASSUME NEW c \in Client, Stop(c) PROVE TypeOK'
  BY <1>21 DEF Stop, Finish
<1>22. ASSUME NEW d \in Device, RevokeDevice(d) PROVE TypeOK'
  BY <1>22 DEF RevokeDevice, RevokeRow
<1>23. ASSUME CleanupPairings PROVE TypeOK'
  BY <1>23 DEF CleanupPairings
<1>24. ASSUME UNCHANGED vars PROVE TypeOK'
  BY <1>24 DEF vars
<1> QED
  BY <1>1, <1>2, <1>3, <1>4, <1>5, <1>6, <1>7, <1>8, <1>9, <1>10, <1>11, <1>12, <1>13, <1>14, <1>15, <1>16, <1>17, <1>18, <1>19, <1>20, <1>21, <1>22, <1>23, <1>24 DEF Next, Reader, Browser

\* Every step keeps what requests name.
LEMMA RequestsStep ==
  ASSUME TypeOK, Requests, [Next]_vars
  PROVE  Requests'
<1> USE NoDeviceAssumption, BoundAssumption DEF TypeOK, Requests, Labels, tables, devices, pairings, locals, readers, history
<1>1. ASSUME NEW p \in Pairing, Start(p) PROVE Requests'
  BY <1>1 DEF Start
<1>2. ASSUME NEW p \in Pairing, InsertFails(p) PROVE Requests'
  BY <1>2 DEF InsertFails
<1>3. ASSUME NEW p \in Pairing, InsertPairing(p) PROVE Requests'
  BY <1>3 DEF InsertPairing
<1>4. ASSUME NEW p \in Pairing, PollPairing(p) PROVE Requests'
  BY <1>4 DEF PollPairing
<1>5. ASSUME NEW p \in Pairing, CompleteRead(p) PROVE Requests'
  BY <1>5 DEF CompleteRead
<1>6. ASSUME NEW p \in Pairing, CompletePairingRow(p) PROVE Requests'
  BY <1>6 DEF CompletePairingRow
<1>7. ASSUME NEW p \in Pairing, Expire(p) PROVE Requests'
  BY <1>7 DEF Expire
<1>8. ASSUME NEW c \in Client, NEW a \in Account, CreateManual(c, a) PROVE Requests'
  BY <1>8 DEF CreateManual, Begin
<1>9. ASSUME NEW c \in Client, NEW a \in Account, DeleteAccount(c, a) PROVE Requests'
  BY <1>9 DEF DeleteAccount, Begin
<1>10. ASSUME NEW c \in Client, NEW a \in Account, NEW p \in Pairing, Approve(c, a, p) PROVE Requests'
  BY <1>10 DEF Approve, Begin
<1>11. ASSUME NEW c \in Client, NEW a \in Account, NEW p \in Pairing, Reject(c, a, p) PROVE Requests'
  BY <1>11 DEF Reject, Begin
<1>12. ASSUME NEW c \in Client, ApproveCount(c) PROVE Requests'
  BY <1>12 DEF ApproveCount, Finish
<1>13. ASSUME NEW c \in Client, ApproveInsert(c) PROVE Requests'
  BY <1>13, FreshIdIsUnused DEF ApproveInsert, Finish, InsertDevice
<1>14. ASSUME NEW c \in Client, ApprovePairingRow(c) PROVE Requests'
  BY <1>14 DEF ApprovePairingRow, Finish, Approvable
<1>15. ASSUME NEW c \in Client, HardDeleteDevice(c) PROVE Requests'
  BY <1>15 DEF HardDeleteDevice, Finish, Unlink
<1>16. ASSUME NEW c \in Client, RejectPairingRow(c) PROVE Requests'
  BY <1>16 DEF RejectPairingRow, Finish
<1>17. ASSUME NEW c \in Client, ManualCount(c) PROVE Requests'
  BY <1>17 DEF ManualCount, Finish
<1>18. ASSUME NEW c \in Client, ManualInsert(c) PROVE Requests'
  BY <1>18, FreshIdIsUnused DEF ManualInsert, Finish, InsertDevice
<1>19. ASSUME NEW c \in Client, RevokeNext(c) PROVE Requests'
  BY <1>19 DEF RevokeNext, RevokeRow
<1>20. ASSUME NEW c \in Client, DeleteAccountRow(c) PROVE Requests'
  BY <1>20 DEF DeleteAccountRow, Finish, Unlink
<1>21. ASSUME NEW c \in Client, Stop(c) PROVE Requests'
  BY <1>21 DEF Stop, Finish
<1>22. ASSUME NEW d \in Device, RevokeDevice(d) PROVE Requests'
  BY <1>22 DEF RevokeDevice, RevokeRow
<1>23. ASSUME CleanupPairings PROVE Requests'
  BY <1>23 DEF CleanupPairings
<1>24. ASSUME UNCHANGED vars PROVE Requests'
  BY <1>24 DEF vars
<1> QED
  BY <1>1, <1>2, <1>3, <1>4, <1>5, <1>6, <1>7, <1>8, <1>9, <1>10, <1>11, <1>12, <1>13, <1>14, <1>15, <1>16, <1>17, <1>18, <1>19, <1>20, <1>21, <1>22, <1>23, <1>24 DEF Next, Reader, Browser

\* Every step keeps devices in one hand.
LEMMA ApartStep ==
  ASSUME TypeOK, Requests, Apart, Inserted, [Next]_vars
  PROVE  Apart'
<1> USE NoDeviceAssumption DEF TypeOK, Requests, Apart, Inserted, tables, devices, pairings, locals, readers, history
<1>1. ASSUME NEW p \in Pairing, Start(p) PROVE Apart'
  BY <1>1 DEF Start
<1>2. ASSUME NEW p \in Pairing, InsertFails(p) PROVE Apart'
  BY <1>2 DEF InsertFails
<1>3. ASSUME NEW p \in Pairing, InsertPairing(p) PROVE Apart'
  BY <1>3 DEF InsertPairing
<1>4. ASSUME NEW p \in Pairing, PollPairing(p) PROVE Apart'
  BY <1>4 DEF PollPairing
<1>5. ASSUME NEW p \in Pairing, CompleteRead(p) PROVE Apart'
  BY <1>5 DEF CompleteRead
<1>6. ASSUME NEW p \in Pairing, CompletePairingRow(p) PROVE Apart'
  BY <1>6 DEF CompletePairingRow
<1>7. ASSUME NEW p \in Pairing, Expire(p) PROVE Apart'
  BY <1>7 DEF Expire
<1>8. ASSUME NEW c \in Client, NEW a \in Account, CreateManual(c, a) PROVE Apart'
  BY <1>8 DEF CreateManual, Begin
<1>9. ASSUME NEW c \in Client, NEW a \in Account, DeleteAccount(c, a) PROVE Apart'
  BY <1>9 DEF DeleteAccount, Begin
<1>10. ASSUME NEW c \in Client, NEW a \in Account, NEW p \in Pairing, Approve(c, a, p) PROVE Apart'
  BY <1>10 DEF Approve, Begin
<1>11. ASSUME NEW c \in Client, NEW a \in Account, NEW p \in Pairing, Reject(c, a, p) PROVE Apart'
  BY <1>11 DEF Reject, Begin
<1>12. ASSUME NEW c \in Client, ApproveCount(c) PROVE Apart'
  <2>1. CASE UnderQuota(acc[c])
    BY SMTT(60), <1>12, <2>1 DEF ApproveCount, Finish
  <2>2. CASE ~ UnderQuota(acc[c])
    BY SMTT(60), <1>12, <2>2 DEF ApproveCount, Finish
  <2> QED
    BY <2>1, <2>2
<1>13. ASSUME NEW c \in Client, ApproveInsert(c) PROVE Apart'
  <2>1. CASE acc[c] \in live
    BY SMTT(60), <1>13, <2>1, FreshIdIsUnused DEF ApproveInsert, Finish, InsertDevice
  <2>2. CASE acc[c] \notin live
    BY SMTT(60), <1>13, <2>2, FreshIdIsUnused DEF ApproveInsert, Finish, InsertDevice
  <2> QED
    BY <2>1, <2>2
<1>14. ASSUME NEW c \in Client, ApprovePairingRow(c) PROVE Apart'
  <2>1. CASE Approvable(c) /\ acc[c] \in live
    BY SMTT(60), <1>14, <2>1 DEF ApprovePairingRow, Finish, Approvable
  <2>2. CASE Approvable(c) /\ acc[c] \notin live
    BY SMTT(60), <1>14, <2>2 DEF ApprovePairingRow, Finish, Approvable
  <2>3. CASE ~ Approvable(c)
    BY SMTT(60), <1>14, <2>3 DEF ApprovePairingRow, Finish, Approvable
  <2> QED
    BY <2>1, <2>2, <2>3
<1>15. ASSUME NEW c \in Client, HardDeleteDevice(c) PROVE Apart'
  BY <1>15 DEF HardDeleteDevice, Finish, Unlink
<1>16. ASSUME NEW c \in Client, RejectPairingRow(c) PROVE Apart'
  BY <1>16 DEF RejectPairingRow, Finish
<1>17. ASSUME NEW c \in Client, ManualCount(c) PROVE Apart'
  BY SMTT(60), <1>17 DEF ManualCount, Finish
<1>18. ASSUME NEW c \in Client, ManualInsert(c) PROVE Apart'
  BY <1>18, FreshIdIsUnused DEF ManualInsert, Finish, InsertDevice
<1>19. ASSUME NEW c \in Client, RevokeNext(c) PROVE Apart'
  BY <1>19 DEF RevokeNext, RevokeRow
<1>20. ASSUME NEW c \in Client, DeleteAccountRow(c) PROVE Apart'
  BY <1>20 DEF DeleteAccountRow, Finish, Unlink
<1>21. ASSUME NEW c \in Client, Stop(c) PROVE Apart'
  BY <1>21 DEF Stop, Finish
<1>22. ASSUME NEW d \in Device, RevokeDevice(d) PROVE Apart'
  BY <1>22 DEF RevokeDevice, RevokeRow
<1>23. ASSUME CleanupPairings PROVE Apart'
  BY <1>23 DEF CleanupPairings
<1>24. ASSUME UNCHANGED vars PROVE Apart'
  BY <1>24 DEF vars
<1> QED
  BY <1>1, <1>2, <1>3, <1>4, <1>5, <1>6, <1>7, <1>8, <1>9, <1>10, <1>11, <1>12, <1>13, <1>14, <1>15, <1>16, <1>17, <1>18, <1>19, <1>20, <1>21, <1>22, <1>23, <1>24 DEF Next, Reader, Browser

\* Every step keeps the ids that are used.
LEMMA InsertedStep ==
  ASSUME TypeOK, Requests, Inserted, [Next]_vars
  PROVE  Inserted'
<1> USE NoDeviceAssumption DEF TypeOK, Requests, Inserted, tables, devices, pairings, locals, readers, history
<1>1. ASSUME NEW p \in Pairing, Start(p) PROVE Inserted'
  BY <1>1 DEF Start
<1>2. ASSUME NEW p \in Pairing, InsertFails(p) PROVE Inserted'
  BY <1>2 DEF InsertFails
<1>3. ASSUME NEW p \in Pairing, InsertPairing(p) PROVE Inserted'
  BY <1>3 DEF InsertPairing
<1>4. ASSUME NEW p \in Pairing, PollPairing(p) PROVE Inserted'
  BY <1>4 DEF PollPairing
<1>5. ASSUME NEW p \in Pairing, CompleteRead(p) PROVE Inserted'
  BY <1>5 DEF CompleteRead
<1>6. ASSUME NEW p \in Pairing, CompletePairingRow(p) PROVE Inserted'
  BY <1>6 DEF CompletePairingRow
<1>7. ASSUME NEW p \in Pairing, Expire(p) PROVE Inserted'
  BY <1>7 DEF Expire
<1>8. ASSUME NEW c \in Client, NEW a \in Account, CreateManual(c, a) PROVE Inserted'
  BY <1>8 DEF CreateManual, Begin
<1>9. ASSUME NEW c \in Client, NEW a \in Account, DeleteAccount(c, a) PROVE Inserted'
  BY <1>9 DEF DeleteAccount, Begin
<1>10. ASSUME NEW c \in Client, NEW a \in Account, NEW p \in Pairing, Approve(c, a, p) PROVE Inserted'
  BY <1>10 DEF Approve, Begin
<1>11. ASSUME NEW c \in Client, NEW a \in Account, NEW p \in Pairing, Reject(c, a, p) PROVE Inserted'
  BY <1>11 DEF Reject, Begin
<1>12. ASSUME NEW c \in Client, ApproveCount(c) PROVE Inserted'
  BY <1>12 DEF ApproveCount, Finish
<1>13. ASSUME NEW c \in Client, ApproveInsert(c) PROVE Inserted'
  BY <1>13, FreshIdIsUnused DEF ApproveInsert, Finish, InsertDevice
<1>14. ASSUME NEW c \in Client, ApprovePairingRow(c) PROVE Inserted'
  BY SMTT(60), <1>14 DEF ApprovePairingRow, Finish, Approvable
<1>15. ASSUME NEW c \in Client, HardDeleteDevice(c) PROVE Inserted'
  BY <1>15 DEF HardDeleteDevice, Finish, Unlink
<1>16. ASSUME NEW c \in Client, RejectPairingRow(c) PROVE Inserted'
  BY <1>16 DEF RejectPairingRow, Finish
<1>17. ASSUME NEW c \in Client, ManualCount(c) PROVE Inserted'
  BY <1>17 DEF ManualCount, Finish
<1>18. ASSUME NEW c \in Client, ManualInsert(c) PROVE Inserted'
  BY <1>18, FreshIdIsUnused DEF ManualInsert, Finish, InsertDevice
<1>19. ASSUME NEW c \in Client, RevokeNext(c) PROVE Inserted'
  BY <1>19 DEF RevokeNext, RevokeRow
<1>20. ASSUME NEW c \in Client, DeleteAccountRow(c) PROVE Inserted'
  BY <1>20 DEF DeleteAccountRow, Finish, Unlink
<1>21. ASSUME NEW c \in Client, Stop(c) PROVE Inserted'
  BY <1>21 DEF Stop, Finish
<1>22. ASSUME NEW d \in Device, RevokeDevice(d) PROVE Inserted'
  BY <1>22 DEF RevokeDevice, RevokeRow
<1>23. ASSUME CleanupPairings PROVE Inserted'
  BY <1>23 DEF CleanupPairings
<1>24. ASSUME UNCHANGED vars PROVE Inserted'
  BY <1>24 DEF vars
<1> QED
  BY <1>1, <1>2, <1>3, <1>4, <1>5, <1>6, <1>7, <1>8, <1>9, <1>10, <1>11, <1>12, <1>13, <1>14, <1>15, <1>16, <1>17, <1>18, <1>19, <1>20, <1>21, <1>22, <1>23, <1>24 DEF Next, Reader, Browser

\* Every step keeps rows, history and readers in agreement.
LEMMA DecidedStep ==
  ASSUME TypeOK, Requests, Decided, [Next]_vars
  PROVE  Decided'
<1> USE NoDeviceAssumption DEF TypeOK, Requests, Decided, tables, devices, pairings, locals, readers, history
<1>1. ASSUME NEW p \in Pairing, Start(p) PROVE Decided'
  BY <1>1 DEF Start
<1>2. ASSUME NEW p \in Pairing, InsertFails(p) PROVE Decided'
  BY <1>2 DEF InsertFails
<1>3. ASSUME NEW p \in Pairing, InsertPairing(p) PROVE Decided'
  BY <1>3 DEF InsertPairing
<1>4. ASSUME NEW p \in Pairing, PollPairing(p) PROVE Decided'
  BY <1>4 DEF PollPairing
<1>5. ASSUME NEW p \in Pairing, CompleteRead(p) PROVE Decided'
  BY <1>5 DEF CompleteRead
<1>6. ASSUME NEW p \in Pairing, CompletePairingRow(p) PROVE Decided'
  BY <1>6 DEF CompletePairingRow
<1>7. ASSUME NEW p \in Pairing, Expire(p) PROVE Decided'
  BY <1>7 DEF Expire
<1>8. ASSUME NEW c \in Client, NEW a \in Account, CreateManual(c, a) PROVE Decided'
  BY <1>8 DEF CreateManual, Begin
<1>9. ASSUME NEW c \in Client, NEW a \in Account, DeleteAccount(c, a) PROVE Decided'
  BY <1>9 DEF DeleteAccount, Begin
<1>10. ASSUME NEW c \in Client, NEW a \in Account, NEW p \in Pairing, Approve(c, a, p) PROVE Decided'
  BY <1>10 DEF Approve, Begin
<1>11. ASSUME NEW c \in Client, NEW a \in Account, NEW p \in Pairing, Reject(c, a, p) PROVE Decided'
  BY <1>11 DEF Reject, Begin
<1>12. ASSUME NEW c \in Client, ApproveCount(c) PROVE Decided'
  BY <1>12 DEF ApproveCount, Finish
<1>13. ASSUME NEW c \in Client, ApproveInsert(c) PROVE Decided'
  BY <1>13, FreshIdIsUnused DEF ApproveInsert, Finish, InsertDevice
<1>14. ASSUME NEW c \in Client, ApprovePairingRow(c) PROVE Decided'
  BY <1>14 DEF ApprovePairingRow, Finish, Approvable
<1>15. ASSUME NEW c \in Client, HardDeleteDevice(c) PROVE Decided'
  BY <1>15 DEF HardDeleteDevice, Finish, Unlink
<1>16. ASSUME NEW c \in Client, RejectPairingRow(c) PROVE Decided'
  BY <1>16 DEF RejectPairingRow, Finish
<1>17. ASSUME NEW c \in Client, ManualCount(c) PROVE Decided'
  BY <1>17 DEF ManualCount, Finish
<1>18. ASSUME NEW c \in Client, ManualInsert(c) PROVE Decided'
  BY <1>18, FreshIdIsUnused DEF ManualInsert, Finish, InsertDevice
<1>19. ASSUME NEW c \in Client, RevokeNext(c) PROVE Decided'
  BY <1>19 DEF RevokeNext, RevokeRow
<1>20. ASSUME NEW c \in Client, DeleteAccountRow(c) PROVE Decided'
  BY <1>20 DEF DeleteAccountRow, Finish, Unlink
<1>21. ASSUME NEW c \in Client, Stop(c) PROVE Decided'
  BY <1>21 DEF Stop, Finish
<1>22. ASSUME NEW d \in Device, RevokeDevice(d) PROVE Decided'
  BY <1>22 DEF RevokeDevice, RevokeRow
<1>23. ASSUME CleanupPairings PROVE Decided'
  BY <1>23 DEF CleanupPairings
<1>24. ASSUME UNCHANGED vars PROVE Decided'
  BY <1>24 DEF vars
<1> QED
  BY <1>1, <1>2, <1>3, <1>4, <1>5, <1>6, <1>7, <1>8, <1>9, <1>10, <1>11, <1>12, <1>13, <1>14, <1>15, <1>16, <1>17, <1>18, <1>19, <1>20, <1>21, <1>22, <1>23, <1>24 DEF Next, Reader, Browser

\* Every step keeps devices with their account.
LEMMA KeptStep ==
  ASSUME TypeOK, Requests, Apart, Inserted, Kept, [Next]_vars
  PROVE  Kept'
<1> USE NoDeviceAssumption DEF TypeOK, Requests, Apart, Inserted, Kept, Stays, tables, devices, pairings, locals, readers, history
<1>1. ASSUME NEW p \in Pairing, Start(p) PROVE Kept'
  BY <1>1 DEF Start
<1>2. ASSUME NEW p \in Pairing, InsertFails(p) PROVE Kept'
  BY <1>2 DEF InsertFails
<1>3. ASSUME NEW p \in Pairing, InsertPairing(p) PROVE Kept'
  BY <1>3 DEF InsertPairing
<1>4. ASSUME NEW p \in Pairing, PollPairing(p) PROVE Kept'
  BY <1>4 DEF PollPairing
<1>5. ASSUME NEW p \in Pairing, CompleteRead(p) PROVE Kept'
  BY <1>5 DEF CompleteRead
<1>6. ASSUME NEW p \in Pairing, CompletePairingRow(p) PROVE Kept'
  BY <1>6 DEF CompletePairingRow
<1>7. ASSUME NEW p \in Pairing, Expire(p) PROVE Kept'
  BY <1>7 DEF Expire
<1>8. ASSUME NEW c \in Client, NEW a \in Account, CreateManual(c, a) PROVE Kept'
  BY <1>8 DEF CreateManual, Begin
<1>9. ASSUME NEW c \in Client, NEW a \in Account, DeleteAccount(c, a) PROVE Kept'
  BY <1>9 DEF DeleteAccount, Begin
<1>10. ASSUME NEW c \in Client, NEW a \in Account, NEW p \in Pairing, Approve(c, a, p) PROVE Kept'
  BY <1>10 DEF Approve, Begin
<1>11. ASSUME NEW c \in Client, NEW a \in Account, NEW p \in Pairing, Reject(c, a, p) PROVE Kept'
  BY <1>11 DEF Reject, Begin
<1>12. ASSUME NEW c \in Client, ApproveCount(c) PROVE Kept'
  <2>1. CASE UnderQuota(acc[c])
    BY SMTT(60), <1>12, <2>1 DEF ApproveCount, Finish
  <2>2. CASE ~ UnderQuota(acc[c])
    BY SMTT(60), <1>12, <2>2 DEF ApproveCount, Finish
  <2> QED
    BY <2>1, <2>2
<1>13. ASSUME NEW c \in Client, ApproveInsert(c) PROVE Kept'
  <2>1. CASE acc[c] \in live
    BY SMTT(60), <1>13, <2>1, FreshIdIsUnused DEF ApproveInsert, Finish, InsertDevice
  <2>2. CASE acc[c] \notin live
    BY SMTT(60), <1>13, <2>2, FreshIdIsUnused DEF ApproveInsert, Finish, InsertDevice
  <2> QED
    BY <2>1, <2>2
<1>14. ASSUME NEW c \in Client, ApprovePairingRow(c) PROVE Kept'
  <2>1. CASE Approvable(c) /\ acc[c] \in live
    BY SMTT(60), <1>14, <2>1 DEF ApprovePairingRow, Finish, Approvable
  <2>2. CASE Approvable(c) /\ acc[c] \notin live
    BY SMTT(60), <1>14, <2>2 DEF ApprovePairingRow, Finish, Approvable
  <2>3. CASE ~ Approvable(c)
    BY SMTT(60), <1>14, <2>3 DEF ApprovePairingRow, Finish, Approvable
  <2> QED
    BY <2>1, <2>2, <2>3
<1>15. ASSUME NEW c \in Client, HardDeleteDevice(c) PROVE Kept'
  BY <1>15 DEF HardDeleteDevice, Finish, Unlink
<1>16. ASSUME NEW c \in Client, RejectPairingRow(c) PROVE Kept'
  BY <1>16 DEF RejectPairingRow, Finish
<1>17. ASSUME NEW c \in Client, ManualCount(c) PROVE Kept'
  BY <1>17 DEF ManualCount, Finish
<1>18. ASSUME NEW c \in Client, ManualInsert(c) PROVE Kept'
  <2>1. CASE acc[c] \in live
    BY SMTT(60), <1>18, <2>1, FreshIdIsUnused DEF ManualInsert, Finish, InsertDevice
  <2>2. CASE acc[c] \notin live
    BY SMTT(60), <1>18, <2>2, FreshIdIsUnused DEF ManualInsert, Finish, InsertDevice
  <2> QED
    BY <2>1, <2>2
<1>19. ASSUME NEW c \in Client, RevokeNext(c) PROVE Kept'
  <2>1. CASE todo[c] = {}
    BY SMTT(60), <1>19, <2>1 DEF RevokeNext, RevokeRow
  <2>2. CASE todo[c] # {}
    BY SMTT(60), <1>19, <2>2 DEF RevokeNext, RevokeRow
  <2> QED
    BY <2>1, <2>2
<1>20. ASSUME NEW c \in Client, DeleteAccountRow(c) PROVE Kept'
  BY <1>20 DEF DeleteAccountRow, Finish, Unlink
<1>21. ASSUME NEW c \in Client, Stop(c) PROVE Kept'
  BY <1>21 DEF Stop, Finish
<1>22. ASSUME NEW d \in Device, RevokeDevice(d) PROVE Kept'
  BY <1>22 DEF RevokeDevice, RevokeRow
<1>23. ASSUME CleanupPairings PROVE Kept'
  BY <1>23 DEF CleanupPairings
<1>24. ASSUME UNCHANGED vars PROVE Kept'
  BY <1>24 DEF vars
<1> QED
  BY <1>1, <1>2, <1>3, <1>4, <1>5, <1>6, <1>7, <1>8, <1>9, <1>10, <1>11, <1>12, <1>13, <1>14, <1>15, <1>16, <1>17, <1>18, <1>19, <1>20, <1>21, <1>22, <1>23, <1>24 DEF Next, Reader, Browser
-----------------------------------------------------------------------------
\* The inductive invariant holds at first,
THEOREM Initially == Init => IInv
BY NoDeviceAssumption, BoundAssumption
DEF Init, IInv, TypeOK, Labels, Requests, Apart, Inserted, Decided, Kept, Stays

\* is kept by every step,
THEOREM Inductive == IInv /\ [Next]_vars => IInv'
BY TypeStep, RequestsStep, ApartStep, InsertedStep, DecidedStep, KeptStep DEF IInv

\* and so holds in every behaviour.
THEOREM Invariance == Spec => []IInv
BY Initially, Inductive, PTL DEF Spec

\* Every variable keeps its type.
THEOREM TypeCorrectness == Spec => []TypeOK
<1>1. IInv => TypeOK
  BY DEF IInv
<1> QED
  BY <1>1, Invariance, PTL

\* At most one approval of a pairing is answered with success and none beside an
\* answered rejection (pairings.ts:417, 451).
THEOREM AnswersNeverContradict == Spec => []AnswersAgree
<1>1. IInv => AnswersAgree
  BY NoDeviceAssumption DEF IInv, TypeOK, Decided, AnswersAgree
<1> QED
  BY <1>1, Invariance, PTL

\* A reader's credential is that of a device which only its account's end
\* removes (pairings.ts:430).
THEOREM HandedTokensLast == Spec => []HandedTokenWorks
<1>1. IInv => HandedTokenWorks
  BY NoDeviceAssumption DEF IInv, TypeOK, Decided, Kept, Stays, HandedTokenWorks
<1> QED
  BY <1>1, Invariance, PTL

\* Every step keeps what active devices are for.
LEMMA OrphanStep ==
  ASSUME IInv, OrphanHasCause, [Next]_vars
  PROVE  OrphanHasCause'
<1> USE NoDeviceAssumption DEF IInv, TypeOK, Requests, Inserted, Kept, Decided, OrphanHasCause, Approvals, InApproval, tables, devices, pairings, locals, readers, history
<1>1. ASSUME NEW p \in Pairing, Start(p) PROVE OrphanHasCause'
  BY <1>1 DEF Start
<1>2. ASSUME NEW p \in Pairing, InsertFails(p) PROVE OrphanHasCause'
  BY <1>2 DEF InsertFails
<1>3. ASSUME NEW p \in Pairing, InsertPairing(p) PROVE OrphanHasCause'
  BY <1>3 DEF InsertPairing
<1>4. ASSUME NEW p \in Pairing, PollPairing(p) PROVE OrphanHasCause'
  BY <1>4 DEF PollPairing
<1>5. ASSUME NEW p \in Pairing, CompleteRead(p) PROVE OrphanHasCause'
  BY <1>5 DEF CompleteRead
<1>6. ASSUME NEW p \in Pairing, CompletePairingRow(p) PROVE OrphanHasCause'
  BY <1>6 DEF CompletePairingRow
<1>7. ASSUME NEW p \in Pairing, Expire(p) PROVE OrphanHasCause'
  BY <1>7 DEF Expire
<1>8. ASSUME NEW c \in Client, NEW a \in Account, CreateManual(c, a) PROVE OrphanHasCause'
  BY <1>8 DEF CreateManual, Begin
<1>9. ASSUME NEW c \in Client, NEW a \in Account, DeleteAccount(c, a) PROVE OrphanHasCause'
  BY <1>9 DEF DeleteAccount, Begin
<1>10. ASSUME NEW c \in Client, NEW a \in Account, NEW p \in Pairing, Approve(c, a, p) PROVE OrphanHasCause'
  BY <1>10 DEF Approve, Begin
<1>11. ASSUME NEW c \in Client, NEW a \in Account, NEW p \in Pairing, Reject(c, a, p) PROVE OrphanHasCause'
  BY <1>11 DEF Reject, Begin
<1>12. ASSUME NEW c \in Client, ApproveCount(c) PROVE OrphanHasCause'
  <2>1. CASE UnderQuota(acc[c])
    BY <1>12, <2>1 DEF ApproveCount, Finish
  <2>2. CASE ~ UnderQuota(acc[c])
    BY <1>12, <2>2 DEF ApproveCount, Finish
  <2> QED
    BY <2>1, <2>2
<1>13. ASSUME NEW c \in Client, ApproveInsert(c) PROVE OrphanHasCause'
  <2>1. CASE acc[c] \in live
    BY <1>13, <2>1, FreshIdIsUnused DEF ApproveInsert, Finish, InsertDevice
  <2>2. CASE acc[c] \notin live
    BY <1>13, <2>2, FreshIdIsUnused DEF ApproveInsert, Finish, InsertDevice
  <2> QED
    BY <2>1, <2>2
<1>14. ASSUME NEW c \in Client, ApprovePairingRow(c) PROVE OrphanHasCause'
  <2>1. CASE Approvable(c) /\ acc[c] \in live
    BY <1>14, <2>1 DEF ApprovePairingRow, Finish, Approvable
  <2>2. CASE Approvable(c) /\ acc[c] \notin live
    BY <1>14, <2>2 DEF ApprovePairingRow, Finish, Approvable
  <2>3. CASE ~ Approvable(c)
    BY <1>14, <2>3 DEF ApprovePairingRow, Finish, Approvable
  <2> QED
    BY <2>1, <2>2, <2>3
<1>15. ASSUME NEW c \in Client, HardDeleteDevice(c) PROVE OrphanHasCause'
  BY <1>15 DEF HardDeleteDevice, Finish, Unlink
<1>16. ASSUME NEW c \in Client, RejectPairingRow(c) PROVE OrphanHasCause'
  BY <1>16 DEF RejectPairingRow, Finish
<1>17. ASSUME NEW c \in Client, ManualCount(c) PROVE OrphanHasCause'
  BY <1>17 DEF ManualCount, Finish
<1>18. ASSUME NEW c \in Client, ManualInsert(c) PROVE OrphanHasCause'
  <2>1. CASE acc[c] \in live
    BY <1>18, <2>1, FreshIdIsUnused DEF ManualInsert, Finish, InsertDevice
  <2>2. CASE acc[c] \notin live
    BY <1>18, <2>2, FreshIdIsUnused DEF ManualInsert, Finish, InsertDevice
  <2> QED
    BY <2>1, <2>2
<1>19. ASSUME NEW c \in Client, RevokeNext(c) PROVE OrphanHasCause'
  <2>1. CASE todo[c] = {}
    BY <1>19, <2>1 DEF RevokeNext, RevokeRow
  <2>2. CASE todo[c] # {}
    BY <1>19, <2>2 DEF RevokeNext, RevokeRow
  <2> QED
    BY <2>1, <2>2
<1>20. ASSUME NEW c \in Client, DeleteAccountRow(c) PROVE OrphanHasCause'
  BY <1>20 DEF DeleteAccountRow, Finish, Unlink
<1>21. ASSUME NEW c \in Client, Stop(c) PROVE OrphanHasCause'
  BY <1>21 DEF Stop, Finish
<1>22. ASSUME NEW d \in Device, RevokeDevice(d) PROVE OrphanHasCause'
  BY <1>22 DEF RevokeDevice, RevokeRow
<1>23. ASSUME CleanupPairings PROVE OrphanHasCause'
  BY <1>23 DEF CleanupPairings
<1>24. ASSUME UNCHANGED vars PROVE OrphanHasCause'
  BY <1>24 DEF vars
<1> QED
  BY <1>1, <1>2, <1>3, <1>4, <1>5, <1>6, <1>7, <1>8, <1>9, <1>10, <1>11, <1>12, <1>13, <1>14, <1>15, <1>16, <1>17, <1>18, <1>19, <1>20, <1>21, <1>22, <1>23, <1>24 DEF Next, Reader, Browser

\* An active device that came from an approval belongs to a pairing or to a
\* request that is running or stopped half-way (pairings.ts:401, 430).
THEOREM OrphansHaveCauses == Spec => []OrphanHasCause
<1>1. Init => OrphanHasCause
  BY DEF Init, OrphanHasCause
<1>2. IInv /\ OrphanHasCause /\ [Next]_vars => OrphanHasCause'
  BY OrphanStep
<1> QED
  BY <1>1, <1>2, Invariance, PTL DEF Spec

-----------------------------------------------------------------------------
(* The quota.                                                              *)

\* Devices and the requests that may still add one.
Bounded(a) ==
  Cardinality(Active(a)) + Cardinality(Counted(a)) <= MaxDevices - 1 + Cardinality(Client)

\* The sets that are counted are finite.
LEMMA Finite ==
  ASSUME NEW a
  PROVE  /\ IsFiniteSet(Active(a)) /\ IsFiniteSet(Counted(a))
         /\ Cardinality(Active(a)) \in Nat /\ Cardinality(Counted(a)) \in Nat
         /\ Cardinality(Client) \in Nat
         /\ Cardinality(Counted(a)) <= Cardinality(Client)
<1>1. Active(a) \subseteq Device /\ Counted(a) \subseteq Client
  BY DEF Active, Counted
<1> QED
  BY <1>1, FS_Subset, FS_CardinalityType, FiniteAssumption

\* Nothing is added to either.
LEMMA Shrinking ==
  ASSUME NEW a, Bounded(a), Active(a)' \subseteq Active(a), Counted(a)' \subseteq Counted(a)
  PROVE  Bounded(a)'
<1>1. Cardinality(Active(a)') <= Cardinality(Active(a)) /\ Cardinality(Active(a)') \in Nat
  BY Finite, FS_Subset, FS_CardinalityType
<1>2. Cardinality(Counted(a)') <= Cardinality(Counted(a)) /\ Cardinality(Counted(a)') \in Nat
  BY Finite, FS_Subset, FS_CardinalityType
<1> QED
  BY <1>1, <1>2, Finite, BoundAssumption DEF Bounded

\* A request passes the check.
LEMMA Checking ==
  ASSUME NEW a, UnderQuota(a), Active(a)' = Active(a), Counted(a)' \subseteq Client
  PROVE  Bounded(a)'
<1>1. Cardinality(Counted(a)') <= Cardinality(Client) /\ Cardinality(Counted(a)') \in Nat
  BY FiniteAssumption, FS_Subset, FS_CardinalityType
<1> QED
  BY <1>1, Finite, BoundAssumption DEF Bounded, UnderQuota

\* A request that passed the check inserts its device.
LEMMA Inserting ==
  ASSUME NEW a, NEW c, NEW d, Bounded(a), c \in Counted(a),
         Active(a)' \subseteq Active(a) \union {d}, Counted(a)' \subseteq Counted(a) \ {c}
  PROVE  Bounded(a)'
<1>1. /\ IsFiniteSet(Active(a) \union {d})
      /\ Cardinality(Active(a) \union {d}) <= Cardinality(Active(a)) + 1
  <2> DEFINE S == Active(a)
  <2>1. IsFiniteSet(S) /\ Cardinality(S) \in Nat
    BY Finite
  <2> HIDE DEF S
  <2>2. /\ IsFiniteSet(S \union {d})
        /\ Cardinality(S \union {d}) = Cardinality(S) \/ Cardinality(S \union {d}) = Cardinality(S) + 1
    BY <2>1, FS_AddElement
  <2>3. IsFiniteSet(S \union {d}) /\ Cardinality(S \union {d}) <= Cardinality(S) + 1
    BY <2>1, <2>2
  <2> QED
    BY <2>3 DEF S
<1>2. /\ IsFiniteSet(Counted(a) \ {c})
      /\ Cardinality(Counted(a) \ {c}) = Cardinality(Counted(a)) - 1
  BY Finite, FS_RemoveElement
<1>3. Cardinality(Active(a)') <= Cardinality(Active(a)) + 1 /\ Cardinality(Active(a)') \in Nat
  BY <1>1, Finite, FS_Subset, FS_CardinalityType
<1>4. Cardinality(Counted(a)') <= Cardinality(Counted(a)) - 1 /\ Cardinality(Counted(a)') \in Nat
  BY <1>2, Finite, FS_Subset, FS_CardinalityType
<1> QED
  BY <1>3, <1>4, Finite, BoundAssumption DEF Bounded

\* Every step keeps the bound: two kinds of check may raise it to the limit, two
\* kinds of insert turn a request that passed into a device.
LEMMA BoundedStep ==
  ASSUME TypeOK, NEW a \in Account, Bounded(a), [Next]_vars
  PROVE  Bounded(a)'
<1> USE DEF TypeOK, Active, Counted, tables, devices, pairings, locals, readers, history
<1> DEFINE Shrinks == Active(a)' \subseteq Active(a) /\ Counted(a)' \subseteq Counted(a)
<1> HIDE DEF Active, Counted
<1>s. Shrinks => Bounded(a)'
  BY Shrinking
<1> USE DEF Active, Counted
<1>1. ASSUME NEW p \in Pairing, Start(p) PROVE Shrinks
  BY <1>1 DEF Start
<1>2. ASSUME NEW p \in Pairing, InsertFails(p) PROVE Shrinks
  BY <1>2 DEF InsertFails
<1>3. ASSUME NEW p \in Pairing, InsertPairing(p) PROVE Shrinks
  BY <1>3 DEF InsertPairing
<1>4. ASSUME NEW p \in Pairing, PollPairing(p) PROVE Shrinks
  BY <1>4 DEF PollPairing
<1>5. ASSUME NEW p \in Pairing, CompleteRead(p) PROVE Shrinks
  BY <1>5 DEF CompleteRead
<1>6. ASSUME NEW p \in Pairing, CompletePairingRow(p) PROVE Shrinks
  BY <1>6 DEF CompletePairingRow
<1>7. ASSUME NEW p \in Pairing, Expire(p) PROVE Shrinks
  BY <1>7 DEF Expire
<1>8. ASSUME NEW c \in Client, NEW b \in Account, CreateManual(c, b) PROVE Shrinks
  BY <1>8 DEF CreateManual, Begin
<1>9. ASSUME NEW c \in Client, NEW b \in Account, DeleteAccount(c, b) PROVE Shrinks
  BY <1>9 DEF DeleteAccount, Begin
<1>10. ASSUME NEW c \in Client, NEW b \in Account, NEW p \in Pairing, Approve(c, b, p) PROVE Shrinks
  BY <1>10 DEF Approve, Begin
<1>11. ASSUME NEW c \in Client, NEW b \in Account, NEW p \in Pairing, Reject(c, b, p) PROVE Shrinks
  BY <1>11 DEF Reject, Begin
<1>12. ASSUME NEW c \in Client, ApproveCount(c) PROVE Bounded(a)'
  <2>1. CASE UnderQuota(acc[c]) /\ acc[c] = a
    <3>1. Active(a)' = Active(a) /\ Counted(a)' \subseteq Client
      BY <1>12 DEF ApproveCount
    <3> QED
      BY <3>1, <2>1, Checking
  <2>2. CASE UnderQuota(acc[c]) /\ acc[c] # a
    <3>1. Shrinks
      BY <1>12, <2>2 DEF ApproveCount
    <3> QED
      BY <3>1, <1>s
  <2>3. CASE ~ UnderQuota(acc[c])
    <3>1. Shrinks
      BY <1>12, <2>3 DEF ApproveCount, Finish
    <3> QED
      BY <3>1, <1>s
  <2> QED
    BY <2>1, <2>2, <2>3
<1>13. ASSUME NEW c \in Client, ApproveInsert(c) PROVE Bounded(a)'
  <2>1. CASE acc[c] \in live /\ acc[c] = a
    <3>1. c \in Counted(a)
      BY <1>13, <2>1 DEF ApproveInsert
    <3>2. /\ Active(a)' \subseteq Active(a) \union {FreshId}
          /\ Counted(a)' \subseteq Counted(a) \ {c}
      BY <1>13, <2>1, FreshIdIsUnused DEF ApproveInsert, InsertDevice, Finish
    <3> QED
      BY <3>1, <3>2, Inserting
  <2>2. CASE acc[c] \in live /\ acc[c] # a
    <3>1. Shrinks
      BY <1>13, <2>2, FreshIdIsUnused DEF ApproveInsert, InsertDevice, Finish
    <3> QED
      BY <3>1, <1>s
  <2>3. CASE acc[c] \notin live
    <3>1. Shrinks
      BY <1>13, <2>3 DEF ApproveInsert, InsertDevice, Finish
    <3> QED
      BY <3>1, <1>s
  <2> QED
    BY <2>1, <2>2, <2>3
<1>14. ASSUME NEW c \in Client, ApprovePairingRow(c) PROVE Shrinks
  BY <1>14 DEF ApprovePairingRow, Finish, Approvable
<1>15. ASSUME NEW c \in Client, HardDeleteDevice(c) PROVE Shrinks
  BY <1>15 DEF HardDeleteDevice, Finish, Unlink
<1>16. ASSUME NEW c \in Client, RejectPairingRow(c) PROVE Shrinks
  BY <1>16 DEF RejectPairingRow, Finish
<1>17. ASSUME NEW c \in Client, ManualCount(c) PROVE Bounded(a)'
  <2>1. CASE UnderQuota(acc[c]) /\ acc[c] = a
    <3>1. Active(a)' = Active(a) /\ Counted(a)' \subseteq Client
      BY <1>17 DEF ManualCount
    <3> QED
      BY <3>1, <2>1, Checking
  <2>2. CASE UnderQuota(acc[c]) /\ acc[c] # a
    <3>1. Shrinks
      BY <1>17, <2>2 DEF ManualCount
    <3> QED
      BY <3>1, <1>s
  <2>3. CASE ~ UnderQuota(acc[c])
    <3>1. Shrinks
      BY <1>17, <2>3 DEF ManualCount, Finish
    <3> QED
      BY <3>1, <1>s
  <2> QED
    BY <2>1, <2>2, <2>3
<1>18. ASSUME NEW c \in Client, ManualInsert(c) PROVE Bounded(a)'
  <2>1. CASE acc[c] \in live /\ acc[c] = a
    <3>1. c \in Counted(a)
      BY <1>18, <2>1 DEF ManualInsert
    <3>2. /\ Active(a)' \subseteq Active(a) \union {FreshId}
          /\ Counted(a)' \subseteq Counted(a) \ {c}
      BY <1>18, <2>1, FreshIdIsUnused DEF ManualInsert, InsertDevice, Finish
    <3> QED
      BY <3>1, <3>2, Inserting
  <2>2. CASE acc[c] \in live /\ acc[c] # a
    <3>1. Shrinks
      BY <1>18, <2>2, FreshIdIsUnused DEF ManualInsert, InsertDevice, Finish
    <3> QED
      BY <3>1, <1>s
  <2>3. CASE acc[c] \notin live
    <3>1. Shrinks
      BY <1>18, <2>3 DEF ManualInsert, InsertDevice, Finish
    <3> QED
      BY <3>1, <1>s
  <2> QED
    BY <2>1, <2>2, <2>3
<1>19. ASSUME NEW c \in Client, RevokeNext(c) PROVE Shrinks
  BY <1>19 DEF RevokeNext, RevokeRow
<1>20. ASSUME NEW c \in Client, DeleteAccountRow(c) PROVE Shrinks
  BY <1>20 DEF DeleteAccountRow, Finish, Unlink
<1>21. ASSUME NEW c \in Client, Stop(c) PROVE Shrinks
  BY <1>21 DEF Stop, Finish
<1>22. ASSUME NEW d \in Device, RevokeDevice(d) PROVE Shrinks
  BY <1>22 DEF RevokeDevice, RevokeRow
<1>23. ASSUME CleanupPairings PROVE Shrinks
  BY <1>23 DEF CleanupPairings
<1>24. ASSUME UNCHANGED vars PROVE Shrinks
  BY <1>24 DEF vars
<1> HIDE DEF Active, Counted, Shrinks
<1> QED
  BY <1>s, <1>1, <1>2, <1>3, <1>4, <1>5, <1>6, <1>7, <1>8, <1>9, <1>10, <1>11, <1>12, <1>13, <1>14, <1>15, <1>16, <1>17, <1>18, <1>19, <1>20, <1>21, <1>22, <1>23, <1>24 DEF Next, Reader, Browser

\* An account exceeds its device quota by the requests that overlap and no more
\* (pairings.ts:388, service.ts:231).
THEOREM QuotaIsBounded == Spec => []QuotaBound
<1> DEFINE BInv == \A a \in Account : Bounded(a)
<1>1. Init => BInv
  <2> SUFFICES ASSUME Init, NEW a \in Account PROVE Bounded(a)
    OBVIOUS
  <2>1. Active(a) = {} /\ Counted(a) = {}
    BY DEF Init, Active, Counted
  <2> QED
    BY <2>1, FS_EmptySet, FS_CardinalityType, FiniteAssumption, BoundAssumption DEF Bounded
<1>2. IInv /\ BInv /\ [Next]_vars => BInv'
  BY BoundedStep DEF IInv
<1>3. BInv => QuotaBound
  BY Finite, BoundAssumption DEF Bounded, QuotaBound
<1> QED
  BY <1>1, <1>2, <1>3, Invariance, PTL DEF Spec

-----------------------------------------------------------------------------
(* The promise.                                                            *)

\* Every step decides or refuses a pairing, hands out a credential or changes
\* nothing the promise speaks of.
LEMMA PromiseStep ==
  ASSUME IInv, [Next]_vars
  PROVE  Promise!Next \/ UNCHANGED Promise!vars
<1> USE DEF tables, devices, pairings, locals, readers, history
<1> DEFINE Keeps == UNCHANGED <<won, refused, cred>>
<1>1. ASSUME NEW p \in Pairing, Start(p) PROVE Keeps
  BY <1>1 DEF Start
<1>2. ASSUME NEW p \in Pairing, InsertFails(p) PROVE Keeps
  BY <1>2 DEF InsertFails
<1>3. ASSUME NEW p \in Pairing, InsertPairing(p) PROVE Keeps
  BY <1>3 DEF InsertPairing
<1>4. ASSUME NEW p \in Pairing, PollPairing(p) PROVE Keeps \/ Promise!Hand(p)
  BY <1>4 DEF PollPairing, Promise!Hand, IInv, TypeOK, Decided
<1>5. ASSUME NEW p \in Pairing, CompleteRead(p) PROVE Keeps
  BY <1>5 DEF CompleteRead
<1>6. ASSUME NEW p \in Pairing, CompletePairingRow(p) PROVE Keeps
  BY <1>6 DEF CompletePairingRow
<1>7. ASSUME NEW p \in Pairing, Expire(p) PROVE Keeps
  BY <1>7 DEF Expire
<1>8. ASSUME NEW c \in Client, NEW a \in Account, CreateManual(c, a) PROVE Keeps
  BY <1>8 DEF CreateManual, Begin
<1>9. ASSUME NEW c \in Client, NEW a \in Account, DeleteAccount(c, a) PROVE Keeps
  BY <1>9 DEF DeleteAccount, Begin
<1>10. ASSUME NEW c \in Client, NEW a \in Account, NEW p \in Pairing, Approve(c, a, p) PROVE Keeps
  BY <1>10 DEF Approve, Begin
<1>11. ASSUME NEW c \in Client, NEW a \in Account, NEW p \in Pairing, Reject(c, a, p) PROVE Keeps
  BY <1>11 DEF Reject, Begin
<1>12. ASSUME NEW c \in Client, ApproveCount(c) PROVE Keeps
  BY <1>12 DEF ApproveCount, Finish
<1>13. ASSUME NEW c \in Client, ApproveInsert(c) PROVE Keeps
  BY <1>13 DEF ApproveInsert, Finish, InsertDevice
<1>14. ASSUME NEW c \in Client, ApprovePairingRow(c) PROVE Keeps \/ \E p \in Pairing, d \in Device : Promise!Become(p, d)
  <2>1. target[c] \in Pairing /\ made[c] \in Device
    BY <1>14 DEF ApprovePairingRow, IInv, TypeOK, Requests
  <2>2. CASE Approvable(c) /\ acc[c] \in live
    <3>1. won' = [won EXCEPT ![target[c]] = made[c]] /\ UNCHANGED <<refused, cred>>
      BY <1>14, <2>2 DEF ApprovePairingRow
    <3>2. won[target[c]] = NoDevice /\ target[c] \notin refused
      BY <2>1, <2>2 DEF Approvable, IInv, Decided
    <3>3. \A q \in Pairing : won[q] # made[c]
      BY <2>1, NoDeviceAssumption DEF IInv, Apart
    <3>4. Promise!Become(target[c], made[c])
      BY <3>1, <3>2, <3>3 DEF Promise!Become, Promise!Open
    <3> QED
      BY <3>4, <2>1
  <2>3. CASE ~ (Approvable(c) /\ acc[c] \in live)
    BY <1>14, <2>3 DEF ApprovePairingRow
  <2> QED
    BY <2>2, <2>3
<1>15. ASSUME NEW c \in Client, HardDeleteDevice(c) PROVE Keeps
  BY <1>15 DEF HardDeleteDevice, Finish, Unlink
<1>16. ASSUME NEW c \in Client, RejectPairingRow(c) PROVE Keeps \/ \E p \in Pairing : Promise!Refuse(p)
  <2>1. CASE pstatus[target[c]] = "pending"
    <3>1. target[c] \in Pairing
      BY <1>16 DEF RejectPairingRow, IInv, Requests
    <3>2. won[target[c]] = NoDevice /\ target[c] \notin refused
      BY <2>1, <3>1 DEF IInv, Decided
    <3>3. Promise!Refuse(target[c])
      BY <1>16, <2>1, <3>2 DEF RejectPairingRow, Promise!Refuse, Promise!Open
    <3> QED
      BY <3>1, <3>3
  <2>2. CASE pstatus[target[c]] # "pending"
    BY <1>16, <2>2 DEF RejectPairingRow
  <2> QED
    BY <2>1, <2>2
<1>17. ASSUME NEW c \in Client, ManualCount(c) PROVE Keeps
  BY <1>17 DEF ManualCount, Finish
<1>18. ASSUME NEW c \in Client, ManualInsert(c) PROVE Keeps
  BY <1>18 DEF ManualInsert, Finish, InsertDevice
<1>19. ASSUME NEW c \in Client, RevokeNext(c) PROVE Keeps
  BY <1>19 DEF RevokeNext, RevokeRow
<1>20. ASSUME NEW c \in Client, DeleteAccountRow(c) PROVE Keeps
  BY <1>20 DEF DeleteAccountRow, Finish, Unlink
<1>21. ASSUME NEW c \in Client, Stop(c) PROVE Keeps
  BY <1>21 DEF Stop, Finish
<1>22. ASSUME NEW d \in Device, RevokeDevice(d) PROVE Keeps
  BY <1>22 DEF RevokeDevice, RevokeRow
<1>23. ASSUME CleanupPairings PROVE Keeps
  BY <1>23 DEF CleanupPairings
<1>24. ASSUME UNCHANGED vars PROVE Keeps
  BY <1>24 DEF vars
<1>25. \/ Keeps
      \/ \E p \in Pairing : Promise!Hand(p) \/ Promise!Refuse(p)
      \/ \E q \in Pairing, d \in Device : Promise!Become(q, d)
  <2> HIDE DEF Keeps
  <2> QED
    BY <1>1, <1>2, <1>3, <1>4, <1>5, <1>6, <1>7, <1>8, <1>9, <1>10, <1>11, <1>12, <1>13, <1>14, <1>15, <1>16, <1>17, <1>18, <1>19, <1>20, <1>21, <1>22, <1>23, <1>24 DEF Next, Reader, Browser
<1> QED
  BY <1>25 DEF Promise!Next, Promise!vars

\* A pairing is decided once, becomes a device no other pairing became, and hands
\* out that device's credential (docs/pairing-protocol.md, section 4).
THEOREM PromiseIsKept == Spec => ImplementsPromise
<1>1. Init => Promise!Init
  BY DEF Init, Promise!Init
<1>2. IInv /\ [Next]_vars => [Promise!Next]_(Promise!vars)
  BY PromiseStep
<1> QED
  BY <1>1, <1>2, Invariance, PTL DEF Spec, ImplementsPromise, Promise!Spec
=============================================================================
