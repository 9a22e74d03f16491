SPECIFICATION Spec
SYMMETRY Symmetry
CONSTANTS
  k0 = k0
  k1 = k1
  k2 = k2
  i1 = i1
  c1 = c1
  c2 = c2
  Ceremony <- MCCeremony2
  Passkey <- MCPasskey
  FirstKey = k0
  Invite <- MCInvite
  NoInvite = NoInvite
  Client <- MCClient
  MaxAccounts = 2
  MaxPasskeys = 2
  MaxSessions = 1
  MaxStops = 1
INVARIANTS AccountCapHolds
CHECK_DEADLOCK FALSE
