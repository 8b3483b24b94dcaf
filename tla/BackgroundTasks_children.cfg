SPECIFICATION ManagerSpec
CONSTANTS
  NoTask = NoTask
  NoProgram = NoProgram
  Tasks = {t1}
  Programs <- StubbornWorker
  MaxTasks = 1
  Killers = {k1}
  Readers = {}
  MaxWrites = 0
CHECK_DEADLOCK FALSE
INVARIANT ChildrenTerminated
