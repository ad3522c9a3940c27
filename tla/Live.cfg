CONSTANTS
  p1 = p1
  p2 = p2
  n1 = n1
  v1 = v1
  v2 = v2
  v3 = v3
  k1 = k1
  k2 = k2
  Procs = {p1, p2}
  Paths = {n1}
  Contents = {v1, v2}
  Keys = {k1, k2}
  Calls <- FewCalls
  Absent = Absent
  NoHash = NoHash
  NoKey = NoKey
  NoCall = NoCall
  NoProc = NoProc
  NoJob = NoJob
  NoRec = NoRec
  MaxOps = 2
  MaxFaults = 1
  MaxEdits = 1
  EditorRaces = TRUE
  s1 = s1
  x1 = x1
  x2 = x2
  a = a
  b = b
  c1 = c1
  c2 = c2
  Ids = {a, b}
  Hashes = {c1, c2, Undecodable}
  Undecodable = Undecodable
  Unreadable = Unreadable
  MaxGen = 3
SPECIFICATION LiveSpec
PROPERTIES
  EveryCallEnds
  IndexCatchesUp
