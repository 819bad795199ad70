CONSTANTS
  Names = {"n"}
  Uniques = {"u1", "u2"}
  NoName = "NULL"
  NoOwner = ""
  Ifaces = {"i", "j"}
  Proxies = {"p1", "p2"}
  ProxyName <- TwoForName
  FirstIface <- TwoIfaces
  Reuse = TRUE
  Budget <- MoveBudget
SPECIFICATION Spec
INVARIANTS
  NoStaleTables
CHECK_DEADLOCK FALSE
