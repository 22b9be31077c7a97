SPECIFICATION Spec
CONSTANTS
  Id = {c1, c2}
  NameOf <- OneName
  Name = {n1}
  Result = {cur, r1}
  Current = cur
  Security = {}
  Watch = {w1}
  Event = {e1}
  Job = {}
  Calls = {"policy", "watch"}
  Flaky = FALSE
  None = None
  Absent = Absent
  Error = Error
INVARIANTS OncePerResult AnnouncedIsStored
