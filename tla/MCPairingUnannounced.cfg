\* A phone that pairs from outside and repeats itself from the LAN.
CONSTANTS
  i1 = i1  i2 = i2  q1 = q1  q2 = q2  q3 = q3  r1 = r1  h1 = h1  h2 = h2
  Invites = {i1, i2}
  Requests = {q1, q2, q3}
  PairOf <- Shown
  RelayOf <- Identity
  Handlers = {h1, h2}
  MaxDevices = 2
  Budgets <- Scenarios
  Nobody = Nobody  NoRelay = NoRelay  NoClaim = NoClaim  NoDevice = NoDevice
SPECIFICATION PairingSafety
INVARIANT RemoteJoinIsAnnounced
SYMMETRY Threads
CHECK_DEADLOCK FALSE
