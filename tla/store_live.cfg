SPECIFICATION LiveSpec
CONSTANTS
  Id = {c1}
  NameOf <- OneName
  Name = {n1}
  Result = {cur, r1}
  Current = cur
  Security = {s1}
  Watch = {w1}
  Event = {}
  Job = {j1}
  Calls = {"scan", "gate", "delete"}
  Flaky = FALSE
  None = None
  Absent = Absent
  Error = Error
PROPERTY GoneIsPruned
