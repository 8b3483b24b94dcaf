CONSTANTS
  Servers <- MCServers
  Remotes <- MCRemotes
  Locals <- MCLocals
  Nobody = Nobody
  Words <- MCWords
  PlanMode = FALSE
  NoFile = NoFile
  Disks = {}
SPECIFICATION StartupSpec
CHECK_DEADLOCK FALSE
INVARIANT NamespaceKeepsApart
