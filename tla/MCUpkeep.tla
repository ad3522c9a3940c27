-------------------------------- MODULE MCUpkeep --------------------------------
(* Components that share nothing with one another, checked side by side: a *)
(* behaviour is one of a single part while the others rest.                *)
EXTENDS HistoryRetention, WriteProgress, ReviewState, IndexRebuild, Migration, Scrubber,
  MemoryCompaction, TLC

CONSTANTS s1, n0, n1, n2, h1, h2, h3, c1, c2, w1, w2, o1, o2, f1, f2, va, vb, m1, ta, tb, i1, i2, xa, xb,
  k1, k2, ya, yb

VARIABLE part

Written(at, before, after) == [note |-> n0, at |-> at, before |-> before, after |-> after]

(* Journals of an earlier version, whose clock stepped back, and the       *)
(* manifests two of its crashes left.                                      *)
OldJournals ==
  {<<>>, <<Written(1, h1, h2)>>,
   <<Written(2, h1, h2), Written(0, h2, h3), Written(3, h3, h3), Written(2, h3, h3)>>}

OldManifests == {{}, {Written(0, h1, h2), Written(1, h2, h3)}}

HistoryRests == journal = <<>> /\ manifests = {} /\ wall = 0 /\ bytes = [n \in Notes |-> h1]

RebuildRests ==
  /\ vault = EmptyIndex /\ hotJournal = FALSE
  /\ liveIndex = [rows |-> EmptyIndex, generation |-> 0]

MigrationRests == source = [i \in Items |-> Absent]

NoNotes == [n \in NoteNumbers |-> NoText]
SameNotes == [n \in NoteNumbers |-> xa]

(* Of the two notes the first has its day in its name; the first day ends  *)
(* a month.                                                                *)
DiaryDays == [n \in Diary |-> IF n = 1 THEN 1 ELSE 0]
MonthEnds == [d \in 1..MaxDay |-> IF d = 1 THEN 1 ELSE 2]

Parts == {"history", "progress", "review", "rebuild", "migration", "scrub", "compaction"}

Init ==
  /\ part \in Parts
  /\ part = "history" \/ HistoryRests
  /\ part = "rebuild" \/ RebuildRests
  /\ part = "migration" \/ MigrationRests
  /\ part \in {"scrub", "compaction"} => place = n1
  /\ file = IF part = "scrub" THEN SameNotes ELSE NoNotes
  /\ row = file
  /\ HistoryInit /\ ProgressInit /\ ReviewInit /\ RebuildInit /\ MigrationInit /\ ScrubInit
  /\ CompactionInit
  /\ IF part = "compaction" THEN \A n \in Diary : diary[n] # NoDiary /\ diary[n].words = ya
     ELSE diary = [n \in Diary |-> NoDiary]

Next ==
  \/ /\ part = "history" /\ HistoryNext
     /\ UNCHANGED <<part, progress, review, rebuildVars, migrationVars, scrubVars, compacting>>
  \/ /\ part = "progress" /\ ProgressNext
     /\ UNCHANGED <<part, retention, review, rebuildVars, migrationVars, scrubVars, compacting>>
  \/ /\ part = "review" /\ ReviewNext
     /\ UNCHANGED <<part, retention, progress, rebuildVars, migrationVars, scrubVars, compacting>>
  \/ /\ part = "rebuild" /\ RebuildNext
     /\ UNCHANGED <<part, retention, progress, review, migrationVars, scrubVars, compacting>>
  \/ /\ part = "migration" /\ MigrationNext
     /\ UNCHANGED <<part, retention, progress, review, rebuildVars, scrubVars, compacting>>
  \/ /\ part = "scrub" /\ ScrubNext
     /\ UNCHANGED <<part, retention, progress, review, rebuildVars, migrationVars, compacting>>
  \/ /\ part = "compaction" /\ CompactionNext
     /\ UNCHANGED <<part, retention, progress, review, rebuildVars, migrationVars, scrubVars>>

Spec == Init /\ [][Next]_<<part, retention, progress, review, rebuildVars, migrationVars, scrubVars, compacting>>

(* The two values of a kind are interchangeable.  As one part moves at a   *)
(* time, one exchange serves a kind of each.                               *)
Exchanges(kinds) ==
  {[v \in UNION kinds |-> v],
   [v \in UNION kinds |-> CHOOSE w \in (CHOOSE K \in kinds : v \in K) : w # v]}

Symmetry ==
  {p @@ q : p \in Exchanges({Callers, Windows, Texts, Scrubs, Compactors}), q \in Exchanges({Paths, Operations, Places, NoteTexts, Wordings})}

(* What rests keeps the values it has at the start of the other parts.     *)
UpkeepTypeOK ==
  CASE part = "history" -> RetentionTypeOK
    [] part = "progress" -> ProgressTypeOK
    [] part = "review" -> ReviewTypeOK
    [] part = "rebuild" -> RebuildTypeOK
    [] part = "migration" -> MigrationTypeOK
    [] part = "scrub" -> ScrubTypeOK
    [] part = "compaction" -> CompactionTypeOK

(* Every variable has its type, and the status of the scrubber tells the   *)
(* truth about the notes it compared (HealthIsHonest).                     *)
TypedAndHonest == UpkeepTypeOK /\ HealthIsHonest
================================================================================
