\* Two adders of one thing; see the worlds of the module.
CONSTANTS
  c1 = c1  c2 = c2  cl = cl  pt = pt  rm = rm  pg = pg  k1 = k1
  f1 = f1  f2 = f2
  Uploads = {1, 2, 3}
  Files = {f1, f2}
  Keys = {k1}
  Total = 2
  Adders = {c1, c2}
  Wants <- SameThing
  Cleaner = cl  Putter = pt  Remover = rm  Purger = pg
  Processes <- CommandLineAndDaemon
  Worlds <- AllWorlds
  Gone = Gone  Nobody = Nobody  NoKey = NoKey  NoFile = NoFile
SPECIFICATION VaultSpec
INVARIANTS VaultTypeOK FilesAreWhole
PROPERTIES KeepsPromise EveryAddEnds
CHECK_DEADLOCK FALSE
