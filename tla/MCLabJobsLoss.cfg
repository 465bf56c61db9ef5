\* One job and one fault.
SPECIFICATION LabFairSpec
CONSTANTS
  Agents = {a1}
  JobIds = {j1}
  Requests = {r1}
  MaxPolicyChanges = 0
  MaxFaults = 1
PROPERTY AcceptedEnds
CHECK_DEADLOCK FALSE
