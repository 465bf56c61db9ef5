\* The web server and one command line.
SPECIFICATION Spec
CONSTANTS
  Users = {u1, u2}
  Workspaces = {w1, w2}
  Names = {default, other}
  Default = default
  Sessions = {s1}
  Web = {web}
  Cli = {cli}
  MaxResets = 0
  MaxCrashes = 0
INVARIANTS SomeAdminEnabled
CHECK_DEADLOCK FALSE
