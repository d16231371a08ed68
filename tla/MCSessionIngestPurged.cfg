\* The transcript of a session is deleted while the worker drains it.
CONSTANTS
  k1 = k1  p1 = p1  p2 = p2  s1 = s1  s2 = s2  s3 = s3
  wk = wk  st = st  dr = dr  tl = tl  rm = rm  n1 = n1  n2 = n2  n3 = n3  n4 = n4
  Keys = {k1}
  Paths = {p1, p2}
  Sources = {s1, s2, s3}
  Ordinary <- AllOrdinary
  Oversized = {}
  Names = {n1, n2}
  Parsers = {1, 2}
  RawCost = 1
  MaxSession = 9
  MaxTotal = 9
  MaxBatch = 2
  MaxOffset = 1
  MaxGen = 3
  Worker = wk
  Streams = {st}
  Drainers = {dr}
  Tails = {tl}
  Removers = {rm}
  Writers = {wk, dr}
  ParserVersion = 2
  Budgets <- DeleteScenarios
  MaxQueue = 2
  NoCursor = NoCursor  NoSource = NoSource  NoName = NoName
  NoEntry = NoEntry  NoPath = NoPath  NoKey = NoKey  Nobody = Nobody
SPECIFICATION IngestSafety
INVARIANT DeletedStaysPurged
CHECK_DEADLOCK FALSE
