# ADB-Gath in TLA+

Formal models of ADB-Gath (`src/src/adbgath`), the TLC configurations that check
them, and the TLAPS proofs about them. All paths below are relative to
`src/src/adbgath` unless they start with `src/`.

ADB-Gath drives Android devices through `adb` from a command line, a web server
and a distributed lab. Most of its 16,000 lines of Python build command lines and
parse their output. What is hard to test is the rest: rows of SQLite databases,
files and directories that several threads and processes read and rewrite, and
the failures in between. That is what the modules model.

## Inventory

The effective program is the result of a chain of patches (`compat330.py` to
`compat372.py` replace methods of the classes at import); the modules translate
the version of each method that is left when all of them ran.

| Component | State | Operations | Interaction | Hard part | Correct means |
|---|---|---|---|---|---|
| Background jobs, `core/jobs.py`, `webapp370.py` | `jobs` rows; events, futures and a thread pool in memory | submit, cancel, runner, progress | web handlers on one event loop call submit and cancel; pool threads run the operation | whole rows are read and rewritten by several threads; restarts | rows tell the truth about the operation; jobs end; a cancelled job does not run |
| Lab, `lab/*.py`, `core/storage360.py`, `service360.py` | `lab_jobs`, `lab_agents`, pools | submit, to a pool too, cancel, heartbeat, next-job, result | agents poll the controller over mTLS; operator commands share the database | lost answers, time-outs, late results, crashes | a job runs at most once, under the policy at delivery, and its outcome is audited |
| Lab PKI, `lab/pki.py` | key and certificate files, agents' rows | make the authority, issue, enrol | command line; read by controller and agents | two files per identity, overlapping calls | an enrolled agent can connect; the authority is for ever |
| Policy, `core/policy360.py` | rules | set, delete, decide | lab, operations | two reads for one decision | a decision some table in force gave |
| Audit trail, `core/storage360.py` | `audit_events`, a hash chain | append, verify | used by the lab, policy and evidence operations | stamp, link and insert are separate; several processes | appends of one process link to the latest event; verification fails iff the table was edited, or an event was inserted out of order |
| Evidence store, `core/artifacts360.py` | files named by digest, object and reference rows | import, materialize, verify, gc | any thread or process of a workspace | two resources, no common lock | referenced content is kept |
| Identity, `core/auth370.py`, `authatomic370.py`, `sessionguard370.py` | users, workspaces, sessions, workspace directories | set-up, users, workspaces, disable, reset, login, select | web server and command lines share one database | counts and reads outside the write transaction; directories outside any | one set-up, an administrator remains, a session uses its user's workspace, revocation |
| Log-in limit, `webapp370.py`, `remotesetup370.py` | failures per client | log in, guarded set-up | handlers that await a form | list read before, written after the await | five failures a minute |
| Presets, `presetstore371.py` | presets of a workspace | list, upsert, delete | web | limit and read-back | what was saved is found; no secret is stored |
| Secret and TLS, `serversecret370.py`, `webtls372.py` | three files | create, read, renew | several servers start at once | two files, no lock | one secret; the certificate announced is served |
| Plugin publishers, `core/signing360.py`, `service360.py` | publishers' rows, a shared file | add, revoke, sign, verify | command line, web | a temporary file named by the publisher | a verdict is of its own key |
| Managed self-update, `core/selfupdate360.py` | site-packages, backup, `update-state.json` | check, apply, rollback | one command line; replaces the package it runs from | every file operation may fail; kills | a whole build remains; failures are undone |
| Local archive updater, `core/updater.py` | install root with the user's data, backup, previous | install, rollback | command line | as above, in another order | as above, and the data is kept |
| Start-up, `core/migrations.py`, `core/storage340.py` | schema version, database backups | migrate, restore | several processes start at once | a failing start restores an old backup | nothing another process wrote is lost |
| QR pairing, `modules/wireless/qr.py` | sessions with a status | create, cancel, wait, worker | worker threads, web handlers | the worker writes over a terminal status | a terminal session stays so; the secret is cleared |
| Wireless broker, `modules/wireless/broker.py` | bounded event history, one thread | start, stop, wait | all browser clients | stop may give up on its thread | events are in order, one thread |
| Device registry, `core/storage330.py`, `runtimefix360.py` | known wireless devices | save, trust, auto-connect, forget | broker, pairing, command line | concurrent upserts | trust is not lost |
| ADB client, `adb*.py`, `runtimefix360.py` | one process at a time per thread | run, run_binary, run_bounded, stream | everything | time-out, cancel and end race | every command ends; no process is left; ok was done |
| Process supervisor, `core/asyncproc.py` | processes, pumps, queues, a semaphore | run | library | a bounded queue between pumps and consumer | every call ends, whole output |
| Web work, `webapp*.py`, `websocketexpiry370.py` | requests, jobs, sockets, thread pool | request, submit, follow | sessions change meanwhile | what was resolved before an await is used after it | effects in the workspace asked for; no frame after expiry |
| Device operations, `service.py`, `service340.py` | device, files, rows of the project store | capture, assess, export, trace, audit, back up, upload, watch, install, replace | jobs, requests, command lines at once | fixed and clock-made names, lists read in turn, lists worked off in turn | what is stored, reported or answered is so |
| Command line, `cli.py`, `commandcleanup360.py` | tokens | translate, parse, run | prompt, one line | tokens rewritten before they are parsed | what was typed is run |

SBOM, plugins' loading, origin guards, the server's root directory,
the compatibility patches and the browser scripts keep no shared state and are
listed as not modelled in `PROJECT.json`. So is governance, which keeps one table,
`evidence_holds` (`core/storage360.py:93`): `service360.py:158-165` sets, lists and
releases a hold, each in one transaction followed by an audit event, and nothing else
reads the table, the collector of evidence neither.

## Modules

| Module | Models | Run |
|---|---|---|
| `JobManager` | background jobs | `jobs`, `jobs_failure` |
| `LabQueue` | what the lab promises about each job | through `ImplementsQueue` |
| `LabJobs` | controller, agents, operator, network | `jobs`, `lab_loss` |
| `LabJobsProofs` | the theorems about `LabJobs` | |
| `LabPools` | jobs for every member of a pool | `jobs` |
| `JobsProofs` | the theorems about `JobManager` and `LabPools` | |
| `AuthStore` | identity database and directories | `access`, `auth_last_admin` |
| `LoginGate` | the limit on log-ins and on guarded set-up | `access` |
| `Presets` | presets of a workspace | `access` |
| `ServerSecret`, `TlsStore` | the secret, the key and the certificate of the server | `access` |
| `LabEnroll` | the lab's authority, certificates and enrolments | `access` |
| `PublisherTrust` | signatures and publishers of plugins | `access` |
| `AccessProofs` | the theorems about the parts of `access` | |
| `ArtifactStore` | evidence files and rows | `evidence` |
| `AuditChain` | the audit trail | `evidence` |
| `PolicyTable` | the policy engine and its rules | `evidence` |
| `EvidenceProofs` | the theorems about the three | |
| `Captures` | evidence and network captures | `devices` |
| `Assessments` | assessments and exports of a project | `devices` |
| `FridaRuns` | Frida records and their logs | `devices` |
| `Uploads` | uploads under one name | `devices` |
| `DeviceReports` | group runs, security reports, backups | `devices` |
| `InventoryWatch` | inventory states and the watch | `devices` |
| `PackageJobs` | installing, deleting and pulling packages | `devices` |
| `ReplaceApp` | the transactional replacement of an app | `devices` |
| `WirelessBroker` | the event broker and a browser that follows it | `devices`, `broker_stop` |
| `DevicesProofs` | the theorems about the parts of `devices` | |
| `LegacyCommand` | the translation of a command line | `startup` |
| `SchemaStart` | database backup, migration and restore at start | `startup` |
| `ManagedUpdate` | the managed self-update | `startup`, `update_rename` |
| `SecureUpdate` | the local archive updater | `startup` |
| `StartupProofs` | the theorems about the four parts of `startup` | |
| `QrPairing` | QR pairing sessions and one device's registry row | `work` |
| `AsyncProc` | the process supervisor | `work`, `async_timeout` |
| `AdbCommand` | one thread's ADB commands | `work` |
| `WebWork` | requests, jobs and sockets of web clients | `work` |
| `WorkProofs` | the theorems about the four parts of `work` | |

`MC*` modules give the constants values for TLC. `MCJobs`, `MCAccess`,
`MCEvidence`, `MCDevices`, `MCStartup` and `MCWork` each hold several
specifications, which in the program share no state the models distinguish but
run in the same server: their variable `part`, chosen at the start, says which of
them a behaviour is about, the others stay in their initial state, and the
properties are exported, those of one kind together. So a run is as large as the
sum of its parts, not their product. `MCAccess` extends `AuthStore` and `MCEvidence`
its three parts, so that their properties are the ones the theorems name. The runs
that expect a violation check one module alone.

An operator whose comment begins with "Faulty:" is a version of the definition
after it with one mistake in it; no specification uses it. It is there to show
that the properties notice.

### JobManager

A row is persisted and rewritten whole, so `get_job ... save_job` is two actions
with the copy in between: `current[j]` for the pool thread, the record
`client[c].row` for a cancel. `pc[j]` is the line of `runner` and `execute_job`
the pool thread is at. `call` is a history of what happened to the operation.
Each `get_job`, `save_job` and conversion may raise. Inside the `try`
(`RecordingRaises`: `jobs.py:56-63`, `webapp370.py:410-416`) the job is marked failed,
although its operation may have returned, or not begun; `caught` and the row's
`error` say whose exception was recorded. Before the `try` or in its handler
(`RunnerRaises`) it stays in the future, at which nobody looks, and in a cancel
(`CancelRaises`) it goes to the caller: the row is then left as it is, and the job
is `lost`. `MaxMishaps` bounds these exceptions and kills together.
In the program submit and cancel run on the server's one event-loop thread, so
TLC has one client; the proofs do not assume it. `Restart` empties the tables of
the process and leaves the rows. `TerminalTruth` therefore says of a failed row
that its error is the operation's exception, or that of a call that had to record
it; and `FinalUnlessCancelled` and `JobsSettle` are of jobs that were not lost.

### LabJobs and LabQueue

Each handler of the controller is synchronous inside an `async def`, so one runs
at a time, but each of its store calls commits on its own, and the operator's
commands are other processes: hence the steps `Claim`, `Decide`, `AcceptResult`
and `Audit` with `controller` between them. An agent makes one blocking request;
`AgentGivesUp` is a time-out, a broken connection or a crash, after which its
request may still be handled and nobody reads the answer. `changes` and `faults`
bound policy edits and failures. A request of the policy engine (role, action,
approval) is one value and a policy the set of those it grants. `LabQueue`
forgets everything but how far a job came; `Queue` in `LabJobs` maps a state to
it (`Stage`: a job is handed over while its handler, answer or agent can still
start it, and closed after), and `ImplementsQueue` says each step is one of its
steps or none. One submission is under way at a time. Where `JobManager` has a
name too, the one here differs (`LabInit`, `LabNext`, `JobIds`), so that `MCJobs`
can extend both and check the definitions the theorems are about.

### AuthStore

SQLite lets one connection write. `authatomic370.py` takes the write lock first,
so `Lock` and `Commit` frame its checks; `set_user_disabled` and `create_session`
read before they hold it, so each is two or three steps. A password is a version
number. Handlers of the web server are async and do not await in these
operations, so the web server is one process with one operation at a time.
`DropSession` stands for sign-out and for the deletions of sessions found
invalid. A workspace imported from before 3.7 lies outside the user's
directories and is not modelled.

### ArtifactStore

A content is its digest; a file is the content in one storage form. The steps of
`import_file` and `gc` are the file operations and transactions in order.
Foreign keys are not enforced by the store's connections, so a reference may be
inserted without an object row.

`cut` says that a collector was killed between the file and its row. The proof of
`ReferencedKept` needs it: a collector removes the file of a dead row and is
killed; an importer stores the content in the other form and is killed before it
registers it, or goes on and finds the row, which names the form that is gone. The
run has two kills for it.

### AuditChain

The hash is the data it is computed from (no collisions). `Stamp` is the
`created_at` taken before the lock, `ReadLatest` and `Insert` the two statements
under it. The lock is an object of one process; the controller of a lab, the web
server and the command line append to one database, so threads belong to
processes. Ids are random and stamps may be equal. Two histories are kept: what an
append that holds a link was `passed` by, and whether an event was inserted out of
order (`disordered`): passed by another process, or sorting before an event that
is there. `DISTRIBUTED_LAB.md:80` promises that every event links to the previous
one and that verification fails if content is modified. The code keeps both while
events are inserted in order. `ChainHolds` also says what it does otherwise: of two
overlapping appends the one with the earlier stamp may come second, two processes
may link to one event, two equal stamps may be sorted the other way by their ids;
after any of these verification fails for good, although nobody edited the table.

### QrPairing

A session is its status, the event, whether the secret is still there, and the
point its worker is at. `_run` is cut where another thread can be seen: at each
status it reports, at each `adb` call, and between the two transactions of
`_save_service`. `cancel` is four steps (set the event, look at the status,
overwrite it, clear the secret). Time is not counted: `Expire` and `LocateLate`
let a deadline pass at any turn of its loop. What `adb` answers is chosen, and any
call may raise. The registry keeps many devices; one row shows every race, so
there is one, which the sessions and `Peer`, a discovery of the broker followed
by auto-connect, read and write. Waiters only read.

`PairingStands` says what holds with cancels and discoveries at every point. A
terminal session changes in three ways: it is pruned, a caller of `cancel` who had
looked before it ended writes `cancelled`, or it was cancelled and its worker goes on
to report. What is then written over `cancelled` is true: a session says paired,
connecting, connected or completed only if `adb` accepted its secret. Once `cancel`
has returned nobody reads the secret any more; but a worker that had read it
(`qr.py:213`) sends it and the device is paired after all, which the code does not
prevent and no document rules out. And a device loses its trust to a discovery only
if that had read its row before it was trusted.

### WirelessBroker

The dictionaries of services and of devices are compared and reported by the
same code, so one set of items stands for both. An item is a key and the value
shown for it, 0 when it is absent. `thread[t]` is the discovery it compares and
the events it still has to emit; `stopper` is the caller of `stop`, whose `join`
may time out while the thread is alive. `reader` follows the history as the page
does, and `told` is what its list then shows. `MaxUpsets` bounds changes of the
world, failing discoveries and stops together. `hurried` records that a `stop`
gave up on the thread or that a `start` came before it was over.

### SchemaStart

A process that opens a workspace takes a backup, creates the tables, migrates
and checks, and any of these may raise; then it copies the backup over the
database, or unlinks the database if it has no backup. Each file that was ever
at the path has a number, since SQLite connections stay with an unlinked file; its
write-ahead log counts as part of it.
`executescript` commits before the row that records the migration is inserted,
hence `RunScript` and `Record`. The chained constructors of 3.3 to 3.6 are
`CreateTables` and `LateTables`. `before` and `clean` are histories: what was at
the path, and whether another process wrote to it, or took or pruned a backup,
since. The program keeps 3 backups; the run keeps 1, so that pruning happens.

The model shows three things worth knowing that no document promises otherwise,
and the properties name them: a start that is killed before it has restored
leaves the migrations it had made (`FailedStartRestores` leaves it out; the run has
one failure, so it met no second one: the proof did); a start that fails while another is migrating can
leave a version recorded whose tables are gone; and a start whose backup was
pruned by later ones has nothing to restore and unlinks the database.

### ServerSecret

A server reads the file, creates it exclusively if it is absent, and tries again
when what it read is short. `key` is whose bytes are in the file. `broken` is a
history: a write or `fsync` failed after the bytes could be read, so another
server may have loaded a secret that is then removed. A creator killed between
creation and write leaves a short file, which every later start refuses.

### ManagedUpdate

A tree is a build, `partial` or `none`. `run.at` is the statement of `apply` or
`_restore_backup` that comes next, and `Fail` makes it raise or stop there:
`smoke` (the test rejects the build), `copy` and `mkdir` (a copy stops half-way
or at once), `rename`, `torn` (the removal of an old backup stops half-way),
`interrupt` (Ctrl-C, which only the finally clause sees) and `crash`. Removals
with `ignore_errors` are taken to succeed. A partial package may pass the import
test. The download, the wheel and the preflight work in a temporary directory and
change nothing that is modelled; pip's upgrade of dependencies is left out.

### LabPools

A submission to a pool reads the members once and makes job after job: decision,
audit event and row are three transactions. An earlier member is a smaller
number. The submission ends at the first member that is denied or fails; what was
queued before stays queued, and `JobsAccountedFor` says exactly what that is.

### AsyncProc

The event loop is one thread, so a step is what runs between two awaits. A line is
counted and not read. `pump` is where each of the two pumps waits, `queue` the
bounded queue with its end marks, `child` the process and what its pipes hold.
`Interrupt` is the time-out of `wait_for` or the caller's cancellation; from
`queue.get` it leads through `gather`, the await of the pumps in the finally
clause of `stream`, and that is where the finding of `async_timeout` lies:
nothing there ends the process. A line may be longer than `readline` takes (64 KiB,
`PumpBreaks`): `readline` raises, the pump ends, and `gather` drops the exception, as
it drops that of a line over the output limit. Lines are counted for each stream, so
`OkIsWhole` says that neither takes anything from the other stream; of neither does
the result tell. `StartRaises` includes the process that `start`
loses when `drain` fails, which `OnlySupervisedRun` excepts by name.

### AdbCommand

One thread makes commands one after the other. `run` and `run_interactive` look
at the event and the clock between waits of a quarter of a second, `run_binary`
at the clock only, `stream` at the event only, when a line comes. A wait is a
slice of the time-out; `MaxSlices` of them make it. `command.late` and
`process.failing` are what the code distinguishes of a process that was stopped
or failed. `EndsUnlessSilent` excepts a stream whose process says nothing for
ever: it looks at nothing.

### WebWork

A request keeps the session it resolved while its body is awaited, and the
operation then runs in a thread of the pool, as does every read of a socket.
Cancelling a socket leaves its read in the thread. `effect` is what the last
operation or job did: whose it was, the workspace that was active when the
request came in, and the one it was done in. `PerformedUnlessSilent` excepts the
pool whose every thread is held for ever by reads of logs that say nothing, which the
code does not bound. A socket follows its session's expiry, not its revocation: a
socket may outlive a session that was revoked.

### LoginGate

Both guarded forms read a client's list of failures before they await the form
and write the list back after. `crowded` are the lists two requests held at once;
those lose failures, and `LimitUnlessTogether` says that nothing else does. Of a list only its
length and its stamps' ages count, so it is a set of stamps, each the time its attempt
began with a number of its own: two failures of one moment count twice.

### Presets

A request is the transaction and the read-back after it. `Listed` is what the list
may return: everything, or `Limit` of the newest. A clock may be set back, so a
new row may have an older stamp. `SaveFindsItsRow` excepts rows another server
wrote meanwhile, for which the code answers 500.

### TlsStore

A pair is a number, with the names it is for. Key and certificate are written one
after the other, both read again when the server listens. Servers that do not
overlap serve what they announced, whatever a killed start left behind.

### LabEnroll

Key pairs are numbers and a certificate is two of them, its own and its signer's.
Names that are sanitised alike share their files, as they do in the run. `hurt`
are places that two calls wrote at once or a call left half-written. Enrolling an
agent again replaces its files before the insert refuses the name; the model
shows that the agent can still connect, since it checks nothing but the signer.
The controller does not compare the fingerprint of the certificate it stored.

### PublisherTrust

Every verification of one publisher writes the same temporary file. `shared`
says that two of them overlapped; a verdict of any other is of its own key.

### PolicyTable

`Says` is the rule a reader of `policy360.py` would state for one table; a
decision reads the table twice. Up to one change between the reads the decision
is still what one table in force says, for deny is read first and grants after;
with two changes it need not be, and the property excepts that.

### Captures

A file's content is the capture whose command wrote it and whether it is whole.
The recording of every evidence capture has one name on the device, a network
capture one of its second, and the local directory may be an earlier one's.
`met` are the captures that were under way at the same time. `EvidenceIsOwn` is
about all of them: what is stored as a capture's evidence is its own, or that of one
it met and shared that file with (`Shares`), which the code does not keep apart;
never what an earlier capture left on the device or in the directory, except under
the name of a file that its own failed command did not deliver. `DeviceCleaned` says
the same of what a capture leaves on the device.

### Assessments and FridaRuns

An assessment writes session, findings, artifacts and reports one row at a time
and closes the session last; an export reads the lists one after the other, the
sessions first, and looks for a free name before it opens the file (`raced`). The
directory of an assessment is made before the `try` (`service.py:1543`): when that
raises, the session says running for good, as after a kill. A Frida record says running until both logs are written.

### Uploads and DeviceReports

An upload chooses the first free name and creates the file with no await between
(`OpenUpload`), so uploads keep apart. Reports and backups are named by the
second: two of one second share their files, which `KeptUnlessSameSecond` excepts
and `src/docs/IMPLEMENTATION_REPORT.md:143` calls collision-safe. A group run collects
what each of at most four threads answered or raised.

### InventoryWatch

A capture reads the users and the packages in two steps, inserts, and prunes, and
each is seen by other captures. A state read while the device changes may be one
the device never was in, and the properties are about the states that were
stored. The watch reads both its states back by id. Any command of `adb` and any
transaction may raise (`Raise`), which ends the capture or the watch, after its state
was inserted and before it was pruned too.

### PackageJobs

One command per file or package. `builds` numbers installations, so that two of
one package differ. `touched` are the packages something else changed while a
call was under way: other calls, or the device's own updates (`Device`).
Unsuitable files are refused when their turn comes, after the earlier ones were
installed, and the call then raises.

### ReplaceApp

A path is a part of a build. A command that is late or cancelled may have had its
effect. `hurt` writes down, on the call that met it, the reasons after which nothing is
promised: a late or cancelled command, a part that was not pulled, a failed
rollback, another replacement at the same time.

### LegacyCommand

A line is options, a verb and arguments; its tokens are all the program has.
`LegacyArgs` and `CanonicalArgs` are the two rewritings, `Parsed` the parser.
Words may be names of commands. `Scan` finds the first token that is neither an
option nor an option's value, for the rewriting and for the parser.
`CommandAssumption` keeps options, verbs and flags of version 2 apart, as the tables of
`cli.py` and `commandcleanup360.py` do, and such flags out of values and arguments: the
only option of a subcommand spelled like one is `install --replace`, on a line that
`normalize_legacy_args` does not touch. A flag of version 2 on a line with a word of
`Known` is left alone (`Ambiguous`), against `src/docs/MIGRATION_V2_TO_V3.md:18`, which
promises the flags without exception. Not modelled are long options cut short, which
`argparse` accepts and `_command_index` takes for flags without a value, and the token
`--`.

### SecureUpdate

A tree is a build and how much of the user's data is in it. `shelf` is the tree
under a temporary name, `prepared` the release that is unpacked. `Fail` makes the
step raise as in `ManagedUpdate`, or stop: a kill may leave what was being copied or
removed half-way. The handlers' own steps do not fail. `faults` are the kinds of the
failures so far and their number. `Write` is a program that goes on writing to its
data.

## Runs

| Run | Instance | Shows |
|---|---|---|
| `jobs` | 2 jobs, 1 pool thread, 1 client, 1 kill or exception of a call that records; 1 agent, 2 lab jobs, 1 policy change, 2 faults; 2 submissions to 3 members | `CancelledNotExecuting`, `TerminalTruth`, `FinalUnlessCancelled`; lab jobs run at most once, are completed when they were run, and audited (`RowsTellWhatRan`), cancelled or revoked ones do not run (`WithdrawnNeverRuns`), the lab implements `LabQueue`; what a pool submission leaves; and under fairness `JobsSettle` and, while nothing fails, `FaultlessEnds` |
| `jobs_failure` | 1 job | the code loses a persisted failure to a concurrent cancel (finding) |
| `lab_loss` | 1 job, 1 fault | the code loses an accepted job with an answer (finding) |
| `access` | web and command line, 2 users, 3 workspaces, 1 session, 1 reset, 1 crash; 2 log-ins of 1 client; 2 servers and 3 presets, 2 scopes; 2 servers that start; 2 enrolments; 2 verifications | accounts (`AccountsSound`), rights that are taken away (`ChangesHold`), the limit of failures (`GateHolds`), presets, secret and TLS pair, keys and verdicts |
| `auth_last_admin` | 2 users | the code lets two processes disable the last two administrators (finding) |
| `evidence` | 2 threads that import and collect, 2 contents, 2 forms, 2 kills; 3 threads of 2 processes, 3 events, equal stamps; 1 caller, 1 operator, 3 changes, 2 roles | counted rows stay and referenced content stays unless an import overlaps a collection (`EvidenceKept`); events link to the latest unless another process came between, and verification fails exactly after an edit or an insertion out of order (`ChainHolds`); a decision is one table's |
| `devices` | 2 captures, 2 directories; 1 assessment, 2 exports; 1 Frida run; 2 uploads; 2 devices in a group, 2 backups; 1 watch, 1 capture, 3 states; 2 package calls; 2 replacements; 2 broker threads, a history of 2 | what is stored, exported, reported or answered is so, with the exceptions each property names |
| `broker_stop` | 2 broker threads, 1 item | the documented event of a stop is emitted only if the stop failed (finding) |
| `startup` | lines of 2 options and 1 argument; 2 processes, 3 starts, 3 versions, 1 fault; 3 builds, 2 failures of 7 kinds; 2 releases, 2 failures of 6 kinds | a line runs what was typed; recorded migrations were made and a failed start restores; a whole build remains somewhere and one failure is undone; the data goes with the archive update |
| `update_rename` | 1 refused rename | the code removes the only copy of the package (finding) |
| `work` | 1 pairing session used again, 1 peer, 1 device; 2 calls on 1 slot, 2 lines, a queue of 1; 2 commands; 1 request, 1 socket, 1 job, 1 pool thread, 1 log-in | results are true and nothing is left behind, pairing does what it was told, effects are made at home, and under fairness everything ends |
| `async_timeout` | 1 call | a time-out does not end its process (finding) |

**Bounds.** Two jobs on one thread give a queued, a running and a cancelled job
at once; races are between one runner and one cancel. Two faults let an agent
give up and its late request meet a second poll. Three members of a pool have a
first, a middle and a last. Two users and two processes are
what the administrator race needs, and three workspaces let one user own two.
Two threads that import and collect give every pair of operations, two forms give the
same content twice. A session that is pruned is created again under its name, so
one session shows a second one's start; a history of two lets a reader fall
behind. Two processes are what a restore under another's migration needs, three
starts prune a backup somebody still counts on. Two servers let one create while
the other reads and retries. Three events make a chain with a middle. Two failures
let a restoration fail after the failure that caused it. Three changes of the
policy put one or two between the reads of a decision. A queue, a pipe and an
output limit of one line are full after one line, and two calls on one slot make
one wait for the other. Of every device operation two are enough to overlap, and
a third meets what both left: `MaxBuilds`, `MaxRows` and `MaxKeys` leave room for
it. Two options and an argument are what one value that looks like a command
needs.

**Properties with a condition.** Some promises hold only while operations do not
overlap. `KeptUnlessOverlap` and `MigratedUnlessOverlap`
have the form `[]condition => []promise`, so TLC checks the promise on every
behaviour that keeps the condition and the condition names the gap.
Others carry a history that marks the operation something happened to: `broken`,
`hurried`, `crowded`, `overlapped`, `raced`, `touched`, `shared`, `hurt`, `passed`
and `disordered`.
`FinalUnlessCancelled` is, of jobs, about those nobody asked to cancel; of pairing
sessions it lists the ways in which a terminal one changes. `SomeAdminUnlessRace` and
`TrustKept` name the one window in which the code breaks the promise. Where such an
exception is the whole of a hazard, as with log-ins sent at once, a restore under
another's migration, reports of one second or a stop between an outcome and its audit
event, the note of the hazard in `PROJECT.json` says so: there the code keeps no
promise, and what is checked is that nothing else breaks it. Every such condition is false of some behaviours of the run and true
of many, and the run shows the promise kept in the rest.

**Deadlock** is not checked: every bounded system may end, jobs and updates may
be all done.

**Fairness.** Jobs: weak fairness of each pool thread and of the rest of a call
that has begun; the pool's queue is served in turn and every ADB command has a
time-out. Lab: weak fairness of each agent, whose `run` loops for ever, and strong
fairness of the controller's handling of each agent's requests, since the event
loop serves every connection. QR pairing: weak fairness of the worker and of a
cancel that has begun, strong fairness of the two deadlines, since
`time.monotonic` only grows and each turn of a loop compares it. Processes: weak
fairness of the event loop's turn of each call, which includes taking a free slot;
not of the child, which may run for ever. Commands: weak
fairness of the client's thread. Web: strong fairness of a request's thread, since
the pool is first come, first served; weak fairness of an operation and of the
reads of the wireless events, which end within twenty
seconds; none of the reads of a log. No liveness is claimed of the other modules.
Nothing obliges a user to submit, cancel or revoke.

## Proofs

A theorem is named after what it says, a lemma after the action or the operator it
is about; the invariant of a proof is a conjunction of named parts. The assumptions
are those on the constants, stated in the modules that declare them, and no others.

`JobsProofs` proves, for any number of jobs, clients, pool threads, restarts and
exceptions:

- `TypeCorrect`: `Spec => []TypeOK`;
- `CancelledNeverExecutes`: `Spec => []CancelledNotExecuting`;
- `RowsTellTheTruth`: `Spec => []TerminalTruth`;
- `TerminalRowsStay`: `Spec => FinalUnlessCancelled`, an action property;

and for any pool of finitely many members, any submissions and changes:

- `PoolsAreAccountedFor`: `MCSpec => []JobsAccountedFor`.

`CancelledNotExecuting` is not inductive: whether the runner may still enter
depends on the event, and the row may be overwritten by a copy read earlier. The
strengthening says (`RegisterInv`) that a job about to be registered is known to
one client only; (`PoolInv`) how rows, futures and program points go together;
(`QueuedInv`) that a row which says queued has not been rewritten by the runner,
so a cancel that read it comes before the runner's entry; and (`CancelInv`) that
a row or a pending copy that says cancelled was marked after the event was set
and before the runner entered, or by the runner at its end. The proof has one
lemma for each action. The assumptions are those of the module,
`MaxWorkers \in Nat \ {0}` and `MaxMishaps \in Nat`.

`TerminalTruth` needs a second strengthening. `RowInv`: until the runner's last
save, the row and every copy of it that a cancel or the runner holds tell no
outcome (`Open`), and after it the row tells the true one or, overwritten by a
cancel, none. `CallInv` ties program points to what became of the operation: it
was left out only for a job whose event is set, so a runner that decides
`completed` had a call that returned. `EventInv`: while the runner has not ended,
a cancelled row has its event set, so a terminal row of an uncancelled job has no
runner left that could write it. The theorems are about `Spec`; the
run `jobs` checks `MCSpec`, whose part `web` is `Spec` with fairness.

For the pools (`Accounted`) it is enough to follow one submission: what it has made is
what it read less what is to come, and only the member it came to may be allowed
without a job. That the made ones are smaller needs the member taken to be the least
of those to come (`FirstFound`, from the library's `WFMin`).

`LabJobsProofs` proves, for any sets of agents, jobs and requests and any number
of policy edits and faults (assumed: `LabJobsAssumption`, that these two bounds
are natural numbers):

- `TypeCorrect`: `LabSpec => []LabTypeOK`;
- `RowsAreTrue`: `LabSpec => []RowsTellWhatRan`, which is `AtMostOnce`,
  `CompletedWasRun` and `OutcomeAudited`;
- `LabImplementsQueue`: `LabSpec => ImplementsQueue`, the refinement of `LabQueue`;
- `WithdrawnIsWithdrawn`: `LabSpec => WithdrawnNeverRuns`, the action property
  `CancelSticks` and the temporal formula `RevokedNeverRuns`.

None of the three parts of `RowsTellWhatRan` is inductive: a second start would
come from a second answer, a second handler or a late poll, none of which the row
mentions. The argument is that of a ticket. A claim issues one for a queued row
and leaves a running one; a delivery moves it from the handler to the answer, the
agent takes it from the answer and spends it on the start, and a denial, a
time-out or a crash loses it. `RowInv` says that a job which was never claimed is
in nobody's hands and not started, that every row is listed by `created` (so the
oldest queued row exists), and that the operator creates a row only where there
is none; `TicketInv` that at most one place can still start a job, and only while
it was not started; `RanInv` that reported data comes from a start; `AuditInv`
that the handler's event is that of the outcome it has stored, for a job of its
own agent. `IInv` is their conjunction with `LabTypeOK`, which is not inductive
alone either: that a reported job has a row is `RowInv`.

For the refinement one more fact is needed, `CallInv`: each agent has one
request, one handler or one answer at a time. So a time-out closes at most one
job, and every step changes at most one stage (`Simulated`). The revocation uses
no invariant of its own: `Withheld(j)`, no answer carries the job and no agent
has it, holds of every queued job, and is kept while its request is not granted,
because the only way out of the handler asks the policy again (`WithheldStays`).
The run `jobs` checks the same formulas; its part `lab` is `LabSpec` with fairness.

`AccessProofs` proves of `AuthStore`, for any users, workspaces, sessions and processes
(`AuthStoreAssumption`: the placeholder `None` is none of them, and the two bounds
are natural numbers):

- `TypeCorrect`: `Spec => []TypeOK`;
- `AccountsAreSound`: `Spec => []AccountsSound`, which is `OneSetup`,
  `SessionOwnsWorkspace` and `OrphansOnlyFromCrashes`;
- `ChangesAreHeld`: `Spec => ChangesHold`, two action properties.

Here the invariant says, of each thing an operation has read, whether it is still
true when it writes: all of it under SQLite's write lock (`CreateInv`); without it,
that a user is still there (`UserInv`), since no operation deletes one; and that
another administrator is enabled (`CountInv`), until the call is marked stale.
`SomeAdminEnabled` itself is false, and the run `auth_last_admin` shows it.

`EvidenceProofs` proves of the parts of `MCEvidence`, and of `EvidenceSpec`, which is
what the run checks:

- `EvidenceTypeCorrect`, from `StoreTypeCorrect`, `ChainTypeCorrect` and the next;
- `DecisionsAreSound`: `PolicySpec => [](PolicyTypeOK /\ DecidedByOneTable)`;
- `EvidenceIsKept`: `StoreSpec => EvidenceKept`;
- `TrailIsOneChain`: `ChainSpec => []ChainHolds`, for any threads of any processes;
- `EvidenceHolds`: the three of `EvidenceSpec`.

`EvidenceKept` has a condition over a whole behaviour, so the proof is of the step:
a state that satisfies the invariant and in which no import overlaps a collection is
followed by one that satisfies it. The invariant ties what a thread holds to what is
there (an importer that has written finds its file until it has registered it, a
collector's candidates are unreferenced rows). For the trail it is that events are
one chain by time and id, each hash over its predecessor's, while they are inserted
in order, and that the trail is `Broken` once one is not: two events have one link,
or one links to an event that is not before it. Both stay, and no chain has either,
since the hashes of a chain differ: of two events with one hash the events before
them would have one hash too. A decision needs the table at each of its two reads:
what was not denied by the first and is granted by the second is what one of the
tables in force between says, unless two changes were made.

It proves of the other parts of `MCAccess`, and of `AccessSpec`, which is
what the run checks:

- `ServersAlwaysAgree`: `AccessSpec => []ServersAgree` (`SecretIsOne`,
  `TlsAsAnnounced`);
- `KeysStayOwn`: `AccessSpec => KeysAreOwn` (`EnrolmentHolds`, `VerdictsAreOwn`);
- `PresetsAlwaysHold`: `AccessSpec => PresetsHold`;
- `GateAlwaysHolds`: `AccessSpec => GateHolds` (`LimitUnlessTogether`,
  `RefusedForCause`), from `GateIsKept`;
- `AccessTypeCorrect`: `AccessSpec => []AccessTypeOK`;
- `AccountsHold`: `AccountsSound` and `ChangesHold`, of `AccessSpec`.

Assumed is `AccessAssumption`, the conjunction of what each module asks of its
constants. Each invariant follows files that are written without a lock. `SecretInv`:
while no write failed late, one server at most is between creating the file and
having synced it. `TlsInv`: what a server that nobody overtook chose is still in the
directory at each of its steps. `TrustInv`: of two verifications under way both are
marked, so an unmarked one finds its own key. `EnrollInv`: of a place nobody hurt the
key is the certificate's or its one writer's; one call at most makes the authority,
in an empty directory; and every certificate and the running server are by the
authority's key. `PresetInv`: a scope has no more rows than the list shows, so that a
list cut at the limit is the whole. `GateInv`: a waiting attempt holds fewer stamps
than the limit (`FormSound`); where one client had one form at a time, its failures of
the last minute are in the list its attempt holds or, when none waits, in the stored
one (`TurnSound`); and stamps are numbered by the failures before them, so that a new
one is not in the list yet and counts (`ListSound`). The property alone is not kept: a
failure writes back the list that was read, of which it says nothing. TLC finds each
invariant but the last true on the instance of the run.

`DevicesProofs` proves of the parts of `MCDevices`, and of its `Spec`, which is what
the run checks, assuming `DevicesAssumption`:

- `CapturesAreSound`: `Spec => CapturesSound`, an invariant and a step property;
- `ExportsAreSound`: `Spec => []ExportsSound`, from `ExportsAreWhole` (assessments and
  exports) and `FridaIsRecorded`;
- `ReportsAreSound`: `Spec => []ReportsSound`, from `ReportsAreKept` (groups, reports,
  backups) and `UploadsAreKept`;
- `ReplacementIsSound`: `Spec => ReplacementSound`, an invariant and two step properties;
- `InventoryIsSound`: `Spec => []InventorySound`, from `WatchesAreSound`;
- `BrokerIsSound`: `Spec => []BrokerSound`, from `BrokerTellsTrue`;
- `PackagesAnswerForAll`: `Spec => []AnswersForAll`, from `PackagesAreAnswered`;
- `DevicesTypeCorrect`: `Spec => []TypeOK`, the types of all nine parts.

`DevicesSteps` maps a step of `Spec` to a step or a stutter of each part. What each
invariant adds to the property:

- `AssessInv`: the rows of a session are there in the order they are written, so one
  that an export found completed has all of them by the time the later lists are read
  (`RowsRead`); and two exports that hold one name were both marked (`ArchivesApart`).
- `ReportInv` and `UploadInv`: a file that was opened is its opener's until another
  opens it, which only one of the same second does; a free suffix exists because the
  uploads are finitely many, and the least one is found (`LeastNatural`, from the
  library's `WFMin` and `NatLessThanWellFounded`).
- `CaptureInv`: at every point at which a capture pulls or hashes a file, that is its
  own or of a capture it met (`StepHolds`); two that are under way have met; and what
  may be credited to a call still may be when it has met more (`CreditGrows`), so what
  another writes disturbs nothing (`OthersHold`).
- `ReplaceInv`: what each point of a replacement knows of the parts that are on the
  device and of those still to be pulled (`JobHolds`); two that run together are
  marked; and with no call hurt, what a call may go back to is a whole build.
- `InventoryInv`: a row pruned from the table has at least `Retention` later ones of
  its device, and later ones are never unmade, so a read that finds nothing fails only
  then (`WatchCrowded`); the reports end where the watch stands (`WatchComposes`).
- `BrokerInv`: the history is the latest events in order (`HistoryIsLast`); the events
  a thread has still to emit lead from what was emitted to what it saw (`TodoIsSeen`);
  and the page's list, with the events it has not read, gives the same (`PageKnows`).
  This uses the invariant on threads (`ThreadAlone`): two of them may emit out of order.
- `PackageInv`: what the loop of each call has done so far of the packages nobody else
  touched (`CallTells`): the last file of each package is what is installed, the deleted
  ones are gone, the set is whole, and each path found is of the installation that is
  there, pulled up to the place the loop has reached.

TLC finds `ReplaceInv`, `InventoryInv` and `BrokerInv` true on small instances.

`StartupProofs` proves of the parts of `MCStartup`, and of its `Spec`, which is what
the run checks, assuming `StartupAssumption`:

- `StartupTypeCorrect`: `Spec => []TypeOK`;
- `UpdatesAlwaysRecover`: `Spec => []UpdateRecovers` (`Recoverable`, `PackageWhole`,
  `RestoresFromOneFailure`), from `UpdatesRecover`;
- `ReplacedOrKeptAlways`: `Spec => ReplacedOrKept` (`InPlaceUnlessBackupTorn` and the
  action property `OldKept`), from `TreesAreKept`;
- `StartAlwaysHolds`: `Spec => StartHolds` (`MigratedUnlessOverlap` and the action
  property `FailedStartRestores`), from `DatabaseStarts`;
- `TypedIsRun`: `Spec => []RunsWhatWasTyped`, for lines of any length.

The number of failures is any natural number, where the run has one or two.

- `ManagedInv` follows the copies through `apply` and `_restore_backup`: while no
  removal was torn, a manifest vouches for a whole build and without one the package is
  whole (`ManagedSafe`); while the handlers run, the package is whole except between
  the two renames and their undoing, where the copy set aside is (`ManagedWhole`);
  what was there at the beginning is still in place, or is what the backup holds
  (`Remembers`), so that one mild failure ends where it began (`PutsBack`).
- `SecureInv` says which of the names holds a whole tree at each step
  (`SecureWhole`), and which holds what was there before with its data (`SecureKept`).
- For the database, the backup of a start nobody disturbed is what it found
  (`BackedUp`); this is kept by every step. That every file and every backup has made
  what it records (`RecordedWhole`) is kept by a step from a state in which no start
  restores beside another, which is what `MigratedUnlessOverlap` assumes of the whole
  behaviour. The newest backup and the least of the pending migrations exist
  by `LeastNatural` and `GreatestNatural`; the latter counts, of the finitely many
  stamps, those above one.
- `CommandInv` says whose tokens the program holds; the rest is what the operators
  compute. `Climbs` is induction up to a number, by the least counterexample. By it the
  recursions of `Scan` and `FlattenSeq` are defined (`ScanDefined`, `FlattenGrows`), the
  tokens of the options are prefixes of one another (`GrownStays`), and the scan goes
  from option to option (`ScanArrives`) to stop at the verb (`ScanOfLine`). Both
  rewritings then keep what is before and behind the verb (`CommandRuns`,
  `FlagBecomesCommand`).

`WorkProofs` proves of the parts of `MCWork`, and of its `Spec`, which is what the run
checks, assuming `WirelessAssumption`:

- `WorkTypeCorrect`: `Spec => []TypeOK`;
- `AnswersAreAlwaysTrue`: `Spec => []AnswersAreTrue` (`OnlySupervisedRun`, `OkIsWhole`,
  `NoneLeftBehind`, `OkWasDone`), from `ProcessesAreSupervised` and `CommandsAreTrue`;
- `PairingAlwaysStands`: `Spec => PairingStands`, three action properties and two
  invariants, from `PairingsStand`;
- `EffectsAreAtHome`: `Spec => EffectsAtHome`, an invariant and an action property, from
  `WorkIsDoneAtHome`.

`PartsBehave` says that `Spec` implies the specification of each part. The invariants:

- `ProcessInv` counts: an end mark is in the queue or taken for each pump that is done
  (`EndsMatch`), so when the consumer has taken two, both pumps are; a pump that has met
  the end has read all there will ever be of its stream (`ReadAll`); and a line is kept
  or still in the pipe (`AllKept`), both unless a line was over the limit or too long.
  Together: a call that returns ok has kept what was written.
- `CommandInv` ties the point of a command to what is known of its process and to
  whether the event was looked at (`CommandKnows`).
- `PairingInv` (`Told`): a worker that goes on has a session that is not over, unless
  it is cancelled; a status from paired on, like a point of the worker from there on,
  comes after `adb` accepted the secret; the secret is gone once the worker or the
  canceller is done.
- `WorkInv`: each session is in a workspace of its user's (`OwnSessions`); an open request
  or a queued job carries such a session, and an administrator's if it needs one
  (`OpenRequests`, `QueuedJobs`). It is all membership in sets, so each action has only
  to show that what it makes is in one.

Only model-checked: every liveness property, since liveness under fairness and ENABLED
are beyond the prover.

## Not modelled

- Update preflight, and the part of a managed update that happens in its temporary
  directory: no step of it changes what is installed.
- Loading of plugins, SBOM, reports' layout, parsers of `adb` output,
  analyses of APKs: pure functions or formatting; nothing of theirs is shared.
- Governance: the table of holds, read by nothing but its own list, and the vault,
  which writes a file next to its name and renames it.
- Origin, CSRF and response guards: functions of one request's headers.
- Server root and environment variables: read once.
- Compatibility patches: they decide which code is translated.
- The heartbeat of an agent, aliases and diagnosis of wireless devices, annotations
  and settings of a project: single writes that nothing modelled reads.
- Browser scripts: presentation.

Two things met on the way are outside the models: `adb360.py:28` calls a method
`_record_metric` that no class has, so `run_async` raises after every command; and
nothing reads the certificate fingerprint that an enrolment stores
(`service360.py:110`).

## Plan

1. (done) jobs, lab, identity, evidence, audit, managed update; the safety of jobs
   proved.
2. (done) wireless, start-up, secret; then processes and commands, web work, the
   device operations, policy, presets, TLS, enrolment, publishers, pools, the
   archive updater and the command line.
3. (done) Proofs: at most once, revocation and the refinement of `LabQueue`;
   accounts, evidence, the trail, decisions, the secret, TLS, enrolment, verdicts and
   presets; captures, exports, reports, replacements, inventory and the broker; both
   updaters, the start of the database and the pools; commands, pairing, processes and
   the work of web clients; the limit on log-ins, packages, the command line, and the
   types of every run. Liveness stays with TLC.
4. Models: the temporary directory of a managed update with pip's upgrade of
   dependencies; aliases and settings of wireless devices; a changed checksum of a
   migration.
