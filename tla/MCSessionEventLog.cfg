\* Two sessions that compete for one total limit, two writers that race for
\* their cursors, a transcript that is cut, two parsers.
CONSTANTS
  k1 = k1  k2 = k2  w1 = w1  n1 = n1  n2 = n2  s1 = s1  a = a  o = o
  w2 = w2  s2 = s2  n3 = n3
  Keys = {k1, k2}
  Ordinary = {a}
  Oversized = {o}
  Writers = {w1, w2}
  Names = {n1, n2}
  Sources = {s1}
  Parsers = {1, 2}
  RawCost = 1
  MaxSession = 3
  MaxTotal = 4
  MaxBatch = 1
  MaxOffset = 1
  MaxGen = 2
  NoCursor = NoCursor  NoSource = NoSource  NoName = NoName
SPECIFICATION Spec
INVARIANTS TypeOK ReferencedFilesExist ReferencesBindRows LedgerExact WithinLimits NoForgottenFile
PROPERTY RefinesHistory
SYMMETRY Tokens
