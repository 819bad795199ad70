CONSTANTS
  Names = {"n"}
  Uniques = {"u1", "u2"}
  NoName = "NULL"
  NoOwner = ""
  Ifaces = {"i", "j"}
  Proxies = {"p1", "p2"}
  ProxyName <- TwoForName
  FirstIface <- TwoIfaces
  Reuse = TRUE
  Budget <- MovesBudget
SPECIFICATION Spec
INVARIANTS
  RulesFollowProxies
  RefcountExact
  UnregisterSucceeds
CHECK_DEADLOCK FALSE
