CONSTANTS
  Calls = {"c1", "c2", "c3"}
  IdCount = 5
  CancelsLate = FALSE
SPECIFICATION FairSpec
INVARIANTS
  TypeOK
  RefsExact
  NoCallbackAfterDispose
  HandleLeadsToCall
  EndFindsReply
PROPERTIES
  NotifiedOnce
  DataFreed
CHECK_DEADLOCK FALSE
