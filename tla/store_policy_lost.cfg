SPECIFICATION Spec
CONSTANTS
  Id = {c1}
  NameOf <- OneName
  Name = {n1}
  Result = {cur, r1}
  Current = cur
  Security = {}
  Watch = {w1}
  Event = {}
  Job = {}
  Calls = {"policy"}
  Flaky = FALSE
  None = None
  Absent = Absent
  Error = Error
PROPERTY PolicyOnlyByUser
