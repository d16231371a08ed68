\* One session, two phones, three actions, ten worlds of up to six requests.
CONSTANTS
  p1 = p1  p2 = p2  a1 = a1  a2 = a2  a3 = a3
  Phones = {p1, p2}
  Acts = {a1, a2, a3}
  MaxGen = 2
  MaxRequests = 6
  Worlds <- AllWorlds
  NoAct = NoAct
SPECIFICATION ControlSpec
INVARIANTS ControlTypeOK EventsTellTheLedger AuthorityIsExclusive
PROPERTIES KeepsPromise RunIsSettled
CHECK_DEADLOCK FALSE
