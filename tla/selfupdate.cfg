SPECIFICATION ServicesSpec
CONSTANTS
  Events = 3
  Patient = TRUE
  Caller = {1, 2}
  Issues = 3
  Polls = 1
  Task = {t1, t2, t3}
  Formats = 2
  NoTask = NoTask
  Login = {l1, l2, l3}
  MaxPending = 2
  NoLogin = NoLogin
  Beat = {1, 2, 3}
  SelfUpdates = 2
  Component = {"t", "u", "r", "w", "local", "o", "p", "anon", "g"}
  KindOf <- MCKindOf
  Local = "local"
  Anonymous = "anon"
  Unsupported = {"u"}
  Refusing = {"p"}
  Setups = {{"t", "u", "w", "o", "p"}, {"r", "g"}, {}}
  Signal = {1, 2}
  Filter = {"agent", "update"}
  Setting = {"x"}
  Off = "off"
  NoPage = NoPage
  MaxMoves = 4
  Contents = 3
  Severities = {"UNKNOWN", "LOW", "HIGH"}
  Upcase <- MCUpcase
  Reported <- MCReported
  Signed = {1, 2}
  MaxStored = 1
  GateConfigs <- MCGateConfigs
  SbomFormats = {"spdx-json", "cyclonedx-json"}
  DefaultFormat = "spdx-json"
  Recreated = 1
  MaxCalls = 1
  Nothing = Nothing
  Versions = 2
  Actions = {"added", "removed"}
  MaxEntries = 2
  MaxStarts = 2
  Sid = {1}
  NoFile = NoFile
PROPERTY ReloadsAfterRestart
CHECK_DEADLOCK FALSE
