CONSTANTS
  p1 = p1
  p2 = p2
  n1 = n1
  v1 = v1
  v2 = v2
  v3 = v3
  k1 = k1
  k2 = k2
  Procs = {p1, p2}
  Paths = {n1}
  Contents = {v1, v2}
  Keys = {k1, k2}
  Calls <- AllCalls
  Absent = Absent
  NoHash = NoHash
  NoKey = NoKey
  NoCall = NoCall
  NoProc = NoProc
  NoJob = NoJob
  NoRec = NoRec
  MaxOps = 2
  MaxFaults = 1
  MaxEdits = 1
  EditorRaces = FALSE
SPECIFICATION Spec
INVARIANTS
  OfferedRestoreIsAccepted
