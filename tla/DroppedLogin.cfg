SPECIFICATION Spec
CONSTANTS
  NumStatic = 1
  NumPorts = 3
  NumSessions = 2
  StaticType <- HostType
  StaticAccess <- HostAccess
  NumTelnetSockets = 1
  NumTcpSockets = 1
  TcpTarget <- HostOneIsTarget
  FreedModes = {}
INVARIANT SessionHasTerminal
