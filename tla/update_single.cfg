SPECIFICATION LiveSpec
CONSTANTS
  Apps = 2
  Image = {v1, v2}
  First = v1
  Task = {t1}
  DryRun = {}
  AutoRemove = {2}
  Prune = TRUE
  Gate = TRUE
  HookAborts = TRUE
  AutoRollback = TRUE
  RefResolves = TRUE
  BackupCount = 1
  Faulty = {"verify", "scan", "wait"}
  UserActs = {"stop", "remove"}
  MaxContainers = 4
  MaxBackups = 2
  None = None
INVARIANT AppSurvives
PROPERTY ComesBack
