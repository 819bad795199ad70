CONSTANTS
  Names = {"n", "m"}
  Uniques = {"u1", "u2"}
  NoName = "NULL"
  NoOwner = ""
  Ifaces = {"i"}
  Proxies = {"p1", "p2"}
  ProxyName <- TwoNames
  FirstIface <- SameIface2
  Reuse = FALSE
  Budget <- RoutingBudget
SPECIFICATION Spec
INVARIANTS
  RoutingExact
CHECK_DEADLOCK FALSE
