---------------------------- MODULE MemoryCompaction ----------------------------
(***************************************************************************)
(* Compaction of the memory journal (memory_compaction.py): old journal    *)
(* notes are copied into a digest per month, and then marked as archived.  *)
(*                                                                         *)
(* A run lists the notes, one read after the other, and goes on from what  *)
(* it read; each of its writes reads its target again under the write      *)
(* lock, and is one step here.  NoteTransaction models what is in such a   *)
(* step.  Runs of the CLI and of the Companion overlap, stop anywhere and  *)
(* are started again, among saves of the notes' owner.  A preview changes  *)
(* nothing and is left out; the reconcile at the end is that of Reconcile. *)
(***************************************************************************)
EXTENDS Naturals, FiniteSets, Sequences

CONSTANTS
  Compactors,  \* processes that may compact
  Diary,       \* notes of _memory/journal, in the order of their paths
  NameDay,     \* the day in a note's file name, or 0
  MonthOf,     \* the month of a day
  MaxDay, Wordings,
  NoDiary,     \* there is no such file
  NoDigest,    \* no compacted_into
  MaxDiaryEdits  \* bound

Days == 1..MaxDay
Months == {MonthOf[d] : d \in Days}

VARIABLES
  diary,       \* the notes
  digest,      \* the digests, by month
  today,
  compaction,  \* the run of each process
  diaryEdits,
  disturbed,   \* ghost: notes saved once a run or a digest knew of them
  excused      \* ghost: listed notes a run left unmarked, or their owner did

compacting == <<diary, digest, today, compaction, diaryEdits, disturbed, excused>>

(* words stands for the body, rigid for a frontmatter that cannot be       *)
(* edited in place.                                                        *)
Entries == [words : Wordings, updated : Days, into : Months \cup {NoDigest}, rigid : BOOLEAN]

ASSUME CompactionAssumption ==
  /\ Diary \subseteq Nat /\ IsFiniteSet(Diary)
  /\ MaxDay \in Nat \ {0}
  /\ NameDay \in [Diary -> 0..MaxDay]
  /\ MonthOf \in [Days -> Nat]
  /\ NoDigest \notin Nat
  /\ NoDiary \notin Entries

(* held: the sections under each heading, which is a day and a note's id   *)
(* (the id follows from its path); listed: compacted_notes.                *)
Headings == Days \X Diary
IsDigest(d) ==
  /\ DOMAIN d.held \subseteq Headings /\ \A h \in DOMAIN d.held : d.held[h] \in Seq(Wordings)
  /\ d.listed \subseteq Diary /\ d.rigid \in BOOLEAN

Fresh == [held |-> <<>>, listed |-> {}, rigid |-> FALSE]

Resting == [step |-> "idle"]

(* What a run read of the notes it took; NoDiary for the others. *)
Finds == [Diary -> Entries \cup {NoDiary}]
Nothing == [n \in Diary |-> NoDiary]
Found(r) == {n \in Diary : r.found[n] # NoDiary}

RunStates ==
  {Resting}
  \cup [step : {"list"}, cutoff : Days, unread : SUBSET Diary, found : Finds]
  \cup [step : {"month"}, found : Finds, left : SUBSET Months]
  \cup [step : {"write", "mark"}, found : Finds, left : SUBSET Months, month : Months,
        todo : SUBSET Diary, seen : BOOLEAN]

CompactionTypeOK ==
  /\ diary \in Finds
  /\ DOMAIN digest \subseteq Months /\ \A m \in DOMAIN digest : IsDigest(digest[m])
  /\ today \in Days
  /\ compaction \in [Compactors -> RunStates]
  /\ disturbed \subseteq Diary /\ excused \subseteq Diary

CompactionInit ==
  /\ \E w \in Wordings :
       diary \in [Diary -> {NoDiary} \cup
                    {[words |-> w, updated |-> 1, into |-> NoDigest, rigid |-> g] : g \in BOOLEAN}]
  /\ digest = <<>>
  /\ today = 1
  /\ compaction = [c \in Compactors |-> Resting]
  /\ diaryEdits = 0 /\ disturbed = {} /\ excused = {}

--------------------------------------------------------------------------------
(* _extract_journal_date: the day of the file name, else of "updated". *)
DayOf(n, e) == IF NameDay[n] # 0 THEN NameDay[n] ELSE e.updated

(* _find_candidates *)
Candidate(n, e, cutoff) == e.into = NoDigest /\ DayOf(n, e) < cutoff

(* _partition_markable *)
Markable(bucket, found) == {n \in bucket : ~found[n].rigid}

(* The months that are still to do. *)
Bucket(r, m) == {n \in Found(r) : MonthOf[DayOf(n, r.found[n])] = m}
MonthsOf(r) == {MonthOf[DayOf(n, r.found[n])] : n \in Found(r)}

(* The sections compaction has for the notes. *)
HeadingsOf(notes, found) == {<<DayOf(n, found[n]), n>> : n \in notes}

(* Mutant: a section is added whether it is there or not. *)
SectionsAgain(held, notes, found) ==
  [h \in DOMAIN held \cup HeadingsOf(notes, found) |->
     IF h \notin DOMAIN held THEN <<found[h[2]].words>>
     ELSE IF h \in HeadingsOf(notes, found) THEN Append(held[h], found[h[2]].words) ELSE held[h]]

(* _build_digest_content: a heading that is there is not written again. *)
Sections(held, notes, found) ==
  [h \in DOMAIN held \cup HeadingsOf(notes, found) |->
     IF h \in DOMAIN held THEN held[h] ELSE <<found[h[2]].words>>]

Digested(d, notes, found) ==
  [held |-> Sections(d.held, notes, found), listed |-> d.listed \cup notes, rigid |-> d.rigid]

(* The digests that list n. *)
DigestsOf(n) == {m \in DOMAIN digest : n \in digest[m].listed}

(* The run of c knows of n. *)
Knows(c, n) == compaction[c].step # "idle" /\ n \in Found(compaction[c])
Known(n) == (\E c \in Compactors : Knows(c, n)) \/ DigestsOf(n) # {}

--------------------------------------------------------------------------------
(* compact_vault_memory.                                                   *)

Start(c) ==
  /\ compaction[c].step = "idle"
  /\ \E cutoff \in 1..today :
       compaction' = [compaction EXCEPT ![c] =
         [step |-> "list", cutoff |-> cutoff, unread |-> {n \in Diary : diary[n] # NoDiary},
          found |-> Nothing]]
  /\ UNCHANGED <<diary, digest, today, diaryEdits, disturbed, excused>>

(* list_notes reads in the order of the paths and skips what is gone.      *)
(* Without a candidate the run ends.                                       *)
ListNext(c) ==
  LET r == compaction[c] IN
  /\ r.step = "list"
  /\ \E n \in r.unread :
       /\ \A o \in r.unread : n <= o
       /\ compaction' = [compaction EXCEPT ![c] =
            [step |-> "list", cutoff |-> r.cutoff, unread |-> r.unread \ {n},
             found |-> IF diary[n] # NoDiary /\ Candidate(n, diary[n], r.cutoff)
                         THEN [r.found EXCEPT ![n] = diary[n]] ELSE r.found]]
  /\ UNCHANGED <<diary, digest, today, diaryEdits, disturbed, excused>>

Listed(c) ==
  LET r == compaction[c] IN
  /\ r.step = "list" /\ r.unread = {}
  /\ compaction' = [compaction EXCEPT ![c] =
       IF Found(r) = {} THEN Resting
       ELSE [step |-> "month", found |-> r.found, left |-> MonthsOf(r)]]
  /\ UNCHANGED <<diary, digest, today, diaryEdits, disturbed, excused>>

(* The months come in order; after the last one the run reports.  Whether  *)
(* there is a digest is asked before the lock.                             *)
NextMonth(c) ==
  LET r == compaction[c] IN
  /\ r.step = "month"
  /\ \/ r.left = {} /\ compaction' = [compaction EXCEPT ![c] = Resting]
     \/ \E m \in r.left :
          LET notes == Markable(Bucket(r, m), r.found) IN
          /\ \A o \in r.left : m <= o
          /\ compaction' = [compaction EXCEPT ![c] =
               IF notes = {} THEN [step |-> "month", found |-> r.found, left |-> r.left \ {m}]
               ELSE [step |-> "write", found |-> r.found, left |-> r.left \ {m}, month |-> m,
                     todo |-> notes, seen |-> m \in DOMAIN digest]]
  /\ UNCHANGED <<diary, digest, today, diaryEdits, disturbed, excused>>

(* A digest that cannot be edited in place leaves its month out. *)
Refused(r) == [step |-> "month", found |-> r.found, left |-> r.left]

(* Mutant: the digest is written over. *)
TakenLoosely(seen, m) == FALSE

(* overwrite=False *)
Taken(seen, m) == ~seen /\ m \in DOMAIN digest

(* _write_monthly_digest: create or mutate, as seen before.                *)
WriteDigest(c) ==
  LET r == compaction[c]
      m == r.month
  IN
  /\ r.step = "write"
  /\ \/ /\ Taken(r.seen, m)
        /\ compaction' = [compaction EXCEPT ![c] = Resting] /\ UNCHANGED digest
     \/ /\ r.seen /\ digest[m].rigid
        /\ compaction' = [compaction EXCEPT ![c] = Refused(r)] /\ UNCHANGED digest
     \/ /\ ~Taken(r.seen, m) /\ (r.seen => ~digest[m].rigid)
        /\ digest' = [o \in DOMAIN digest \cup {m} |->
             IF o = m THEN Digested(IF r.seen THEN digest[m] ELSE Fresh, r.todo, r.found)
             ELSE digest[o]]
        /\ compaction' = [compaction EXCEPT ![c] = [r EXCEPT !.step = "mark"]]
  /\ UNCHANGED <<diary, today, diaryEdits, disturbed, excused>>

(* _render_compacted_source: only the frontmatter changes. *)
Marked(e, m) == [e EXCEPT !.into = m, !.updated = today]

(* _mark_source_note_compacted: a note that is gone is passed over, one    *)
(* that became rigid is reported.                                          *)
MarkNext(c) ==
  LET r == compaction[c] IN
  /\ r.step = "mark"
  /\ \E n \in r.todo :
       /\ compaction' = [compaction EXCEPT ![c] =
            IF r.todo = {n} THEN [step |-> "month", found |-> r.found, left |-> r.left]
            ELSE [r EXCEPT !.todo = @ \ {n}]]
       /\ diary' = IF diary[n] = NoDiary \/ diary[n].rigid THEN diary
                   ELSE [diary EXCEPT ![n] = Marked(@, r.month)]
       /\ excused' = IF diary[n] # NoDiary /\ diary[n].rigid /\ ~r.found[n].rigid
                       THEN excused \cup {n} ELSE excused
  /\ UNCHANGED <<digest, today, diaryEdits, disturbed>>

--------------------------------------------------------------------------------
(* Around them.                                                            *)

(* The process dies, or one of its writes fails: what it had still to mark *)
(* stays listed without a mark.                                            *)
CompactionStops(c) ==
  /\ compaction[c].step # "idle"
  /\ compaction' = [compaction EXCEPT ![c] = Resting]
  /\ excused' = IF compaction[c].step = "mark" THEN excused \cup compaction[c].todo ELSE excused
  /\ UNCHANGED <<diary, digest, today, diaryEdits, disturbed>>

(* The owner saves a note, with the mark it has or from a buffer that is   *)
(* older than the mark, or removes it, or writes it anew.                  *)
SaveDiary(n) ==
  /\ diaryEdits < MaxDiaryEdits /\ diaryEdits' = diaryEdits + 1
  /\ \E w \in Wordings, g \in BOOLEAN :
       LET mark == IF diary[n] = NoDiary THEN NoDigest ELSE diary[n].into IN
       diary' \in {[diary EXCEPT ![n] = [words |-> w, updated |-> today, into |-> i, rigid |-> g]] :
                     i \in {NoDigest, mark}} \cup {[diary EXCEPT ![n] = NoDiary]}
  /\ disturbed' = IF Known(n) THEN disturbed \cup {n} ELSE disturbed
  /\ excused' = IF DigestsOf(n) # {} THEN excused \cup {n} ELSE excused
  /\ UNCHANGED <<digest, today, compaction>>

(* The owner edits the frontmatter of a digest; the sections stay.         *)
EditDigest(m) ==
  /\ m \in DOMAIN digest
  /\ digest' = [digest EXCEPT ![m] = [held |-> @.held, listed |-> @.listed, rigid |-> ~@.rigid]]
  /\ UNCHANGED <<diary, today, compaction, diaryEdits, disturbed, excused>>

NextDay ==
  /\ today < MaxDay /\ today' = today + 1
  /\ UNCHANGED <<diary, digest, compaction, diaryEdits, disturbed, excused>>

CompactionNext ==
  \/ \E c \in Compactors :
       \/ Start(c) \/ ListNext(c) \/ Listed(c) \/ NextMonth(c)
       \/ WriteDigest(c) \/ MarkNext(c) \/ CompactionStops(c)
  \/ \E n \in Diary : SaveDiary(n)
  \/ \E m \in Months : EditDigest(m)
  \/ NextDay

CompactionSpec == CompactionInit /\ [][CompactionNext]_compacting

--------------------------------------------------------------------------------
(* The digest of month m has a section of n under day. *)
SectionIn(m, day, n) == m \in DOMAIN digest /\ <<day, n>> \in DOMAIN digest[m].held

AboutToMark(c, n, m) ==
  compaction[c].step = "mark" /\ compaction[c].month = m /\ n \in compaction[c].todo

(* memory_compaction.py:556, "marking them would point them at a digest    *)
(* that does not hold their sections": the digest a note names lists it    *)
(* and holds a section of it, through dead runs, overlapping runs, notes   *)
(* saved between the listing and the mark, and digests that cannot be      *)
(* edited.  Conversely (line 127), a digest names only marked notes, but   *)
(* for those a run is about to mark, died over or found changed, and those *)
(* their owner saved.                                                      *)
MarksAndDigestsAgree ==
  \A n \in Diary : diary[n] # NoDiary =>
    /\ diary[n].into # NoDigest =>
         diary[n].into \in DigestsOf(n) /\ \E day \in Days : SectionIn(diary[n].into, day, n)
    /\ \A m \in DigestsOf(n) : diary[n].into = NoDigest =>
         n \in excused \/ \E c \in Compactors : AboutToMark(c, n, m)

(* A note that was left alone from its listing on has one section at most, *)
(* in all digests together, however often runs died, overlapped or were    *)
(* repeated; the section holds the words of the note.                      *)
CalmNotesAreHeldOnce ==
  \A n \in Diary \ disturbed : \A day \in Days : \A m \in Months : SectionIn(m, day, n) =>
    /\ diary[n] # NoDiary /\ digest[m].held[<<day, n>>] = <<diary[n].words>>
    /\ \A other \in Days : \A o \in Months : SectionIn(o, other, n) => other = day /\ o = m
================================================================================
