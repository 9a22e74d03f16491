--------------------------- MODULE PairingPromise ---------------------------
(***************************************************************************)
(* What pairing promises (docs/pairing-protocol.md, section 4, as          *)
(* src/src/devices/pairings.ts keeps it): a pairing is decided once, it is *)
(* refused or becomes one device of its own, and what the reader is handed *)
(* is the credential of that device.                                       *)
(***************************************************************************)
CONSTANTS Pairing, Device, NoDevice

VARIABLES
  device,   \* the device a pairing became
  refused,  \* pairings that were rejected
  handed    \* the device whose credential the reader holds

vars == <<device, refused, handed>>

Init ==
  /\ device = [p \in Pairing |-> NoDevice]
  /\ refused = {}
  /\ handed = [p \in Pairing |-> NoDevice]

Open(p) == device[p] = NoDevice /\ p \notin refused

Become(p, d) ==
  /\ Open(p)
  /\ \A q \in Pairing : device[q] # d
  /\ device' = [device EXCEPT ![p] = d]
  /\ UNCHANGED <<refused, handed>>

Refuse(p) ==
  /\ Open(p)
  /\ refused' = refused \union {p}
  /\ UNCHANGED <<device, handed>>

Hand(p) ==
  /\ device[p] # NoDevice
  /\ handed' = [handed EXCEPT ![p] = device[p]]
  /\ UNCHANGED <<device, refused>>

Next ==
  \E p \in Pairing : Refuse(p) \/ Hand(p) \/ \E d \in Device : Become(p, d)

Spec == Init /\ [][Next]_vars
=============================================================================
