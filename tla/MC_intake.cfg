SPECIFICATION Spec
CONSTANTS
  f1 = f1
  f2 = f2
  f3 = f3
  b1 = b1
  b2 = b2
  v1 = v1
  v2 = v2
  Folders = {f1, f2, f3}
  Batches = {b1, b2}
  Names = {v1, v2}
  Importers = {i1, i2}
  BatchOf <- MCBatchOf
  Rows <- MCRows
  Nobody = Nobody
  MaxFaults = 1
  MaxRemovals = 1
SYMMETRY MCSymmetry
INVARIANTS
  TypeOK
  OneReleasePerFile
  BatchReportIsTrue
  TaskVideoIsOnDisk
  RowsOwnTheirTasks
  NoFolderIsLeftBehind
CHECK_DEADLOCK FALSE
