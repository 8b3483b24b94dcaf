SPECIFICATION ProcessesSpec
CONSTANTS
  Servers <- MCServers
  Remotes <- MCRemotes
  Locals <- MCLocals
  Nobody = Nobody
  Words <- MCWords
  PlanMode = FALSE
  NoFile = NoFile
  Disks <- MCDisks
  NoTask = NoTask
  NoProgram = NoProgram
  Tasks = {t1, t2}
  Programs <- Hardest
  MaxTasks = 1
  Killers = {k1, k2}
  Readers = {r1}
  MaxWrites = 1
CHECK_DEADLOCK FALSE
INVARIANTS
  SessionsAccounted
  StartupResilient
  CallsBeforeClose
  FrontmatterExact
  SkillsResilient
  LimitRespected
  EndedMeansEnded
  AcceptedKillIsReported
PROPERTY KillEnds
