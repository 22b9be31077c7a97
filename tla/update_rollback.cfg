SPECIFICATION Spec
CONSTANTS
  Apps = 1
  Image = {v1, v2}
  First = v1
  Task = {t1}
  DryRun = {}
  AutoRemove = {}
  Prune = FALSE
  Gate = FALSE
  HookAborts = TRUE
  AutoRollback = FALSE
  RefResolves = TRUE
  BackupCount = 1
  Faulty = {}
  UserActs = {}
  MaxContainers = 3
  MaxBackups = 2
  None = None
INVARIANT CanRollBack
