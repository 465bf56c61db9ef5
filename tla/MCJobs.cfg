\* Two jobs on a pool of one thread, the server's one thread of submit and cancel,
\* and one mishap: a kill of the server, or an exception of a call that records; two
\* lab jobs for one agent, a request that may be revoked and granted again, and two
\* faults of any kind; two submissions to a pool of three members.
SPECIFICATION MCSpec
CONSTANTS
  Jobs = {j1, j2}
  Clients = {c1}
  MaxWorkers = 1
  MaxMishaps = 1
  JobIds = {l1, l2}
  Agents = {a1}
  Requests = {r1}
  MaxPolicyChanges = 1
  MaxFaults = 2
  Members = {1, 2, 3}
  Submissions = {s1, s2}
  MaxChanges = 2
INVARIANTS TypeOK CancelledNotExecuting TerminalTruth LabTypeOK RowsTellWhatRan JobsAccountedFor
PROPERTIES FinalUnlessCancelled JobsSettle WithdrawnNeverRuns ImplementsQueue FaultlessEnds
CHECK_DEADLOCK FALSE
