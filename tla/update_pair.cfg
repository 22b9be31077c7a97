SPECIFICATION Spec
CONSTANTS
  Apps = 1
  Image = {v1, v2}
  First = v1
  Task = {t1, t2, t3}
  DryRun = {t3}
  AutoRemove = {}
  Prune = FALSE
  Gate = FALSE
  HookAborts = TRUE
  AutoRollback = FALSE
  RefResolves = TRUE
  BackupCount = 1
  Faulty = {"pull", "hook", "connect"}
  UserActs = {"start", "stop", "remove"}
  MaxContainers = 3
  MaxBackups = 2
  None = None
INVARIANT AppExists ReplacedHasBackup
SYMMETRY TaskSymmetry
