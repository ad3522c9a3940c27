CONSTANTS
  s1 = s1
  s2 = s2
  n1 = n1
  n2 = n2
  a = a
  b = b
  c1 = c1
  c2 = c2
  Procs = {s1, s2}
  Paths = {n1, n2}
  Ids = {a, b}
  Hashes = {c1, c2, Undecodable}
  Undecodable = Undecodable
  Absent = Absent
  Unreadable = Unreadable
  NoProc = NoProc
  Settings <- Together
  MaxGen = 3
SPECIFICATION Spec
SYMMETRY DataSymmetry
INVARIANTS
  GateSound
  CalmPassSettles
  TypedNotesStay
  CacheFresh
  MarksSurvive
  UpgradeReachesEveryNote
