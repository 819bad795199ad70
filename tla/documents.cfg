CONSTANTS
  Tags <- SomeTags
  Paths <- SomePaths
  ValidNames <- SomeNames
  Signatures <- SomeSignatures
  MaxElements = 5
SPECIFICATION Spec
INVARIANTS
  TypeOK
  PlacesElements
  TreeFollowsDocument
  FreedWhenUnheld
CHECK_DEADLOCK FALSE
