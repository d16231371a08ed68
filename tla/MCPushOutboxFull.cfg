\* The outbox is full when a second event is submitted.
CONSTANTS
  a1 = a1  l1 = l1  d1 = d1  s1 = s1  wk = wk
  Events = {a1, l1}
  Live = {l1}
  Devices = {d1}
  DeviceOf <- OnePhone
  Senders = {s1}
  Worker = wk
  Credentials = {1, 2, 3}
  Activity <- OneActivity
  ActiveLimit = 1
  TerminalLimit = 2
  Budgets <- Full
  Nobody = Nobody  NoInput = NoInput  NoRow = NoRow  NoEvent = NoEvent
SPECIFICATION OutboxSafety
INVARIANT InputBacksRow
CHECK_DEADLOCK FALSE
