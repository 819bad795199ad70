CONSTANTS
  Names = {"n"}
  Uniques = {"u1", "u2"}
  NoName = "NULL"
  NoOwner = ""
  Ifaces = {"i"}
  Proxies = {"p1", "p2", "p3"}
  ProxyName <- ThreeForName
  FirstIface <- SameIface3
  Reuse = FALSE
  Budget <- NamesBudget
SPECIFICATION Spec
INVARIANTS
  TypeOK
  TrackingFollowsBus
  InfosCountProxies
  OnePlace
  FreedManagerEmpty
CHECK_DEADLOCK FALSE
