CONSTANTS
  p1 = p1
  p2 = p2
  n1 = n1
  n2 = n2
  n3 = n3
  v1 = v1
  v2 = v2
  Procs = {p1, p2}
  Paths = {n1, n2, n3}
  Notes = {n1, n2}
  Contents = {v1, v2}
  Absent = Absent
  NoPath = NoPath
  Shapes <- Large
  NoProc = NoProc
  NoBatch = NoBatch
  NoWrite = NoWrite
  MaxPlans = 1
  MaxFaults = 2
  MaxEdits = 1
  EditorRaces = TRUE
SPECIFICATION Spec
SYMMETRY ProcSymmetry
PROPERTIES
  ThirdBytesBlock
