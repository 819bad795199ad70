CONSTANTS
  Names = {"n"}
  Uniques = {"u1", "u2"}
  NoName = "NULL"
  NoOwner = ""
  Ifaces = {"i"}
  Proxies = {"p1", "p2"}
  ProxyName <- NameAndOwner
  FirstIface <- SameIface2
  Reuse = FALSE
  Budget <- LiveBudget
SPECIFICATION FairSpec
INVARIANTS
  OnlyOrphansDestroyed
PROPERTIES
  NameCallResolves
  DisconnectDestroysAll
  OrphanDestroyed
  TrackingSettles
CHECK_DEADLOCK FALSE
