\* Two calls of each operation at once, on one or two devices,
\* into one or two directories.
SPECIFICATION Spec
CONSTANTS
  Actors = {x1, x2}
  Labels = {y1, y2}
  Options = {{"seconds"}, {"package", "saves"}}
  Roots = {a, b}
  Seconds = {s}
  Runs = {r1}
  Findings = {f1, f2}
  Formats = {json, pdf}
  Fridas = {fr}
  Uploads = {u1, u2}
  Workers = 2
  MaxTime = 1
  MaxGroupChanges = 1
  Singles = {c1}
  Watches = {w1}
  Values = {1, 2}
  Retention = 2
  MaxRows = 3
  MaxChanges = 2
  MaxReports = 2
  Packages = {"p", "q"}
  LocalFiles <- MCFiles
  Package <- MCPackage
  Signer <- MCSigner
  FileLists <- MCFileLists
  PackageLists <- MCPackageLists
  MaxBuilds = 4
  MaxFaults = 2
  Parts = {base, split}
  Base = base
  MaxHurts = 2
  Keys = {k1}
  Shown = {1}
  MaxHistory = 2
  MaxUpsets = 2
SYMMETRY Symmetry
INVARIANTS TypeOK ExportsSound ReportsSound InventorySound AnswersForAll BrokerSound
PROPERTIES CapturesSound ReplacementSound
CHECK_DEADLOCK FALSE
