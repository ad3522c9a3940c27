CONSTANTS
  p1 = p1
  p2 = p2
  n1 = n1
  v1 = v1
  v2 = v2
  v3 = v3
  k1 = k1
  k2 = k2
  Procs = {p1, p2}
  Paths = {n1}
  Contents = {v1, v2}
  Keys = {k1, k2}
  Calls <- AllCalls
  Absent = Absent
  NoHash = NoHash
  NoKey = NoKey
  NoCall = NoCall
  NoProc = NoProc
  NoJob = NoJob
  NoRec = NoRec
  MaxOps = 3
  MaxFaults = 2
  MaxEdits = 1
  EditorRaces = TRUE
  x1 = x1
  x2 = x2
  ia = ia
  ib = ib
  ic = ic
  Servers = {p1, p2}
  Places = {x1, x2}
  Ids = {ia, ib, ic}
  Derived <- PathIds
  NoId = NoId
  Gone = Gone
  NoMap = NoMap
  MaxPasses = 1
  MaxChanges = 1
  MaxHands = 1
SPECIFICATION NotesSpec
SYMMETRY ProcSymmetry
INVARIANTS
  TypeOK
  AuditCoverage
  ToldIsJournaled
  RecoveryFirst
  RestoreStaysPossible
  RetryNeverRepeats
  IdentitiesStay
