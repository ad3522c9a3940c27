CONSTANTS
  s1 = s1
  n0 = n0
  n1 = n1
  n2 = n2
  h1 = h1
  h2 = h2
  h3 = h3
  c1 = c1
  c2 = c2
  w1 = w1
  w2 = w2
  o1 = o1
  o2 = o2
  Servers = {s1}
  Notes = {n0}
  Hashes = {h1, h2, h3}
  Never = Never
  Window = 1
  Interval = 1
  Journals <- OldJournals
  Leftovers <- OldManifests
  MaxTime = 3
  MaxWrites = 2
  Callers = {c1, c2}
  Paths = {n1, n2}
  NoContent = NoContent
  NoRequest = NoRequest
  NoAnswer = NoAnswer
  MaxKeys = 2
  MaxReverts = 1
  MaxMoves = 1
  MaxCuts = 1
  Windows = {w1, w2}
  Operations = {o1, o2}
  NoFile = NoFile
  Garbled = Garbled
  NoHash = NoHash
  NoWindow = NoWindow
  MaxMarks = 1
  MaxStamp = 1
  MaxToggles = 3
  f1 = f1
  f2 = f2
  va = va
  vb = vb
  Places = {f1, f2}
  Versions = {va, vb}
  Undecodable = Undecodable
  NoNote = NoNote
  Generations = {0, 1}
  MaxRuns = 2
  MaxTouches = 2
  m1 = m1
  ta = ta
  tb = tb
  Config = Config
  Identities = Identities
  MemoryFiles = {m1}
  Texts = {ta, tb}
  Absent = Absent
  MaxMigrations = 2
  MaxSaves = 2
  i1 = i1
  i2 = i2
  xa = xa
  xb = xb
  Scrubs = {i1, i2}
  LastNote = 2
  NoteTexts = {xa, xb}
  NoText = NoText
  NoCheckpoint = NoCheckpoint
  MaxEvents = 2
  MaxPasses = 2
  k1 = k1
  k2 = k2
  ya = ya
  yb = yb
  Compactors = {k1, k2}
  Diary = {1, 2}
  NameDay <- DiaryDays
  MonthOf <- MonthEnds
  MaxDay = 3
  Wordings = {ya, yb}
  NoDiary = NoDiary
  NoDigest = NoDigest
  MaxDiaryEdits = 1
SPECIFICATION Spec
SYMMETRY Symmetry
INVARIANTS
  NothingIsLost
CHECK_DEADLOCK FALSE
