CONSTANTS
  Contexts = {"default", "own"}
  Watches = {"w"}
  Timeouts = {"t"}
  Handlers = {"h1", "h2", "h3", "h4", "h5", "h6", "h7", "h8"}
  MaxSetups = 2
  MaxDepth = 2
SPECIFICATION Spec
INVARIANTS
  TimeoutsFollowContext
CHECK_DEADLOCK FALSE
