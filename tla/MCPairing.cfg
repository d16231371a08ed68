\* Two phones, two invitations, lost answers, failing stores, crashes.
CONSTANTS
  i1 = i1  i2 = i2  q1 = q1  q2 = q2  q3 = q3  r1 = r1  h1 = h1  h2 = h2
  Invites = {i1, i2}
  Requests = {q1, q2, q3}
  PairOf <- Shown
  RelayOf <- Identity
  Handlers = {h1, h2}
  MaxDevices = 2
  Budgets <- Scenarios
  Nobody = Nobody  NoRelay = NoRelay  NoClaim = NoClaim  NoDevice = NoDevice
SPECIFICATION PairingSafety
INVARIANTS PairingTypeOK OneLiveDevicePerPhone NewestRepairWins OneDevicePerInvitation
  SecretsAreAccountedFor AcknowledgedIsClean
SYMMETRY Threads
CHECK_DEADLOCK FALSE
