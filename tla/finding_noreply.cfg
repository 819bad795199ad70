SPECIFICATION Spec
CONSTANTS
  Calls = {c1}
  None = None
  DBusTypes <- MCDBusTypes
  Interfaces <- MCInterfaces
  Classes <- MCClasses
  Uscored <- MCUscored
  Undashed <- MCUndashed
  Worlds <- MCWorlds
  GProperties <- MCGProperties
  Shadows <- MCShadows
  ErrorDomains <- MCErrorDomains
  Errors <- MCErrors
  RawMessages <- MCRawMessages
  IntrospectableIface = "org.Introspectable"
  PropertiesIface = "org.Properties"
INVARIANT NoReplyRespected
