SPECIFICATION Spec
CONSTANTS
  Modules = {a, b, c}
  Plain = {p}
  Queues = {q, r}
  Void = Void
  MaxPorts = 2
  MaxTop = 2
  MaxSize = 4
SYMMETRY Symmetry
INVARIANTS
  OneRolePerQueue
  ReportTells
  WiredAsAssumed
  RuntimeReaches
CHECK_DEADLOCK FALSE
