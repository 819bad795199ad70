CONSTANTS
  Objects = {o1, o2}
  Conns = {c1, c2}
  Paths = {"/foo", "/bar"}
  Nobody = Nobody
SPECIFICATION Spec
INVARIANTS
  TypeOK
  TreeAgrees
  NoDeadObject
  DeathSeenOnce
  SentOnce
PROPERTIES
  PathStable
CHECK_DEADLOCK FALSE
