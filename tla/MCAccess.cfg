\* Two of everything that runs at once: users of the web server and a command
\* line, sign-ins, servers, enrolments or verifications.
SPECIFICATION AccessSpec
CONSTANTS
  Users = {x1, x2}
  Labels = {y1, y2}
  Workspaces = {z1, z2, z3}
  Default = default
  Names = {default, other}
  Sessions = {s1}
  Web = {web}
  Cli = {cli}
  MaxResets = 1
  MaxCrashes = 1
  Clients = {c1}
  Limit = 2
  Window = 2
  MaxTime = 3
  MaxFailures = 3
  Scopes = {a, b}
  Fields = {"text", "pin"}
  Secret = {"pin"}
  PresetLimit = 1
  MaxStamp = 1
  Retries = 3
  MaxSlips = 2
  MaxPairs = 2
  MaxStarts = 3
  Controller = ctl
  Authority = auth
  OwnFile = own
  AgentFile = file
  Nobody = nobody
  MaxPlaces = 4
  MaxKeys = 2
  MaxChanges = 4
SYMMETRY Symmetry
INVARIANTS AccessTypeOK AccountsSound ServersAgree
PROPERTIES ChangesHold GateHolds PresetsHold KeysAreOwn
CHECK_DEADLOCK FALSE
