SPECIFICATION Spec
CONSTANTS
  NumStatic = 4
  NumPorts = 5
  NumSessions = 2
  StaticType <- AllAccessModesType
  StaticAccess <- AllAccessModesAccess
  NumTelnetSockets = 0
  NumTcpSockets = 1
  TcpTarget <- HostThreeIsTarget
  FreedModes = {}
INVARIANTS TypeOK IdleTerminalHasNoSession ModemCallIsOwn OneUserPerPort CrashNeedsLogout
