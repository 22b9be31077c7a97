SPECIFICATION Spec
CONSTANTS
  d = d
  g = g
  a = a
  b = b
  Trigger = {d, g, a, b}
  Remote = {a}
  Batch = {b}
  Once = {d, g, b}
  Resolves = {g}
  Updates = {d}
  Container = {c1, c2}
  c1 = c1
  c2 = c2
  Ignores <- DockerIgnores
  Rank <- NotifyFirst
  Handshake = {h1}
  MaxReports = 2
  MaxHandshakes = 2
  None = None
INVARIANT StoredIsShown DueIsDismissed CalledOnce  InOrder
