\* Two threads that import and collect, two contents in two storage forms, two
\* kills; or three threads of two processes that append, and one edit of the rows;
\* or a decision in steps while an operator changes the table three times.
SPECIFICATION EvidenceSpec
CONSTANTS
  Digests = {d1, d2}
  Compressions = {none, gzip}
  Importers = {i1, i2}
  Collectors = {i1, i2}
  MaxImports = 2
  MaxCrashes = 2
  Threads = {t1, t2, t3}
  Processes = {"server", "cli"}
  ProcessOf <- TwoProcesses
  Contents = {a, b}
  MaxTime = 2
  MaxEvents = 3
  Roles = {1, 2}
  Actions = {"plain", "destructive"}
  All = "*"
  Defaults <- TwoRoles
  Destructive = {"destructive"}
  RemoteDeny = {"destructive"}
  Operators = {o1}
  Callers = {q1}
  MaxChanges = 3
INVARIANTS EvidenceTypeOK DecidedByOneTable ChainHolds
PROPERTIES EvidenceKept
CHECK_DEADLOCK FALSE
