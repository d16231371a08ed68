\* The log is rebuilt and purged under a stream, its pages and its reconnects;
\* when the writer rests the phone catches up.
CONSTANTS
  BacklogLimit = 1
  BatchLimit = 2
  PageLimit = 2
  MaxRows = 3
  Budgets <- BothScenarios
SPECIFICATION StreamSpec
INVARIANTS StreamTypeOK OneHistoryUnlessPurged NoSilentHole ClaimedGenerationIsTheirs
PROPERTY PhoneCatchesUp
CHECK_DEADLOCK FALSE
