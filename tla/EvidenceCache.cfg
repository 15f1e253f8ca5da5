CONSTANTS
  NFiles = 2
  a = a  b = b
  Contents = {a, b}
  Kind <- MCKind
  Marks <- MCMarks
  ScannerInput = {1, 2}
  Settings = {o1, o2}
  Scanners = {s1, s2}
  Absent = Absent
  Broken = Broken
  Edited = {1}
  MaxEdits = 2
  MaxScans = 3
  MaxFaults = 1
SPECIFICATION Spec
SYMMETRY MCSymmetry
INVARIANTS
  TypeOK
  CachedIsClean
  IndexedEntryExists
CHECK_DEADLOCK FALSE
