CONSTANTS
  Contexts = {"default", "own"}
  Watches = {"w"}
  Timeouts = {"t"}
  Handlers = {"h1", "h2", "h3", "h4", "h5", "h6", "h7", "h8"}
  MaxSetups = 3
  MaxDepth = 3
SPECIFICATION FairSpec
INVARIANTS
  TypeOK
  WatchesFollowContext
  HandlersConsistent
PROPERTIES
  HandlersFreed
CHECK_DEADLOCK FALSE
