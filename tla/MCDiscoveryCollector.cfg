SPECIFICATION MCSpec
CONSTANTS
  a = a
  b = b
  d = d
  s = s
  h = h
  Kinds = {d, s}
  Workloads = {a, b}
  Hosts = {h}
  KindOf <- MCKindOf
  Page = 1
  MaxChanges = 3
  None = None
  l1 = l1
  Lines = {l1}
  Monitored = {a, b}
  MaxTicks = 2
INVARIANT
  CollectorStopsFirst
CHECK_DEADLOCK FALSE
