\* Every line of two options and one argument at most; or two processes start,
\* three times in all, on three migrations, with one fault and one backup kept;
\* or updates, forced updates and rollbacks of either kind with two failures.
SPECIFICATION Spec
CONSTANTS
  Known = {"collect", "list", "ls", "install", "evidence", "connect"}
  Commands = {"evidence", "list", "install", "wireless", "lab"}
  ValueOptions = {"-o", "--device"}
  Flags = {"--json", "--output=ls"}
  Words = {"x", "evidence", "ls"}
  MaxOptions = 2
  MaxArguments = 1
  Processes = {p1, p2}
  Migrations = {1, 2, 3}
  Keep = 1
  MaxFiles = 3
  MaxStarts = 3
  MaxRows = 1
  MaxSchemaFaults = 1
  Commits = {"first", "second", "hotfix"}
  ManagedFaults = {"smoke", "copy", "mkdir", "rename", "torn", "interrupt", "crash"}
  MaxManagedFaults = 2
  Releases = {"old", "new"}
  SecureFaults = {"smoke", "copy", "backup", "rename", "remove", "killed"}
  MaxSecureFaults = 2
  MaxWrites = 1
INVARIANTS TypeOK RunsWhatWasTyped UpdateRecovers
PROPERTIES StartHolds ReplacedOrKept
CHECK_DEADLOCK FALSE
