\* The same execute request, sent twice at once.
CONSTANTS
  p1 = p1  p2 = p2  a1 = a1  a2 = a2  a3 = a3
  Phones = {p1, p2}
  Acts = {a1, a2, a3}
  MaxGen = 1
  MaxRequests = 3
  Worlds <- Twins
  NoAct = NoAct
SPECIFICATION ControlSafety
INVARIANT RejectedWasNotApplied
CHECK_DEADLOCK FALSE
