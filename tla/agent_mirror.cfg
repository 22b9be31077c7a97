SPECIFICATION LiveSpec
CONSTANTS
  Container = {c1}
  Request = {r1, r2}
  MaxVersion = 2
  MaxWire = 2
  MaxFaults = 2
PROPERTY Fresh ShownAsItIs Mirrored
CHECK_DEADLOCK FALSE
