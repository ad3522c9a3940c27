------------------------- MODULE MemoryCompactionProofs -------------------------
(***************************************************************************)
(* Marks and digests agree, and a note that was left alone is held once,   *)
(* for any notes, months, processes, saves and deaths.                     *)
(*                                                                         *)
(* A mark is safe because the run that sets it has just seen its note in   *)
(* the digest, and digests only grow.  That a quiet note has one heading   *)
(* needs more: every run that knows of it read the same day, and the day   *)
(* of the note is still that one until it is marked.                       *)
(***************************************************************************)
EXTENDS MemoryCompaction, TLAPS

(* What a run is about to write is what it found, in the month it is in.   *)
RunInv ==
  \A c \in Compactors : compaction[c].step \in {"write", "mark"} =>
    /\ \A n \in compaction[c].todo :
         /\ n \in Found(compaction[c]) /\ ~compaction[c].found[n].rigid
         /\ MonthOf[DayOf(n, compaction[c].found[n])] = compaction[c].month
    /\ compaction[c].seen => compaction[c].month \in DOMAIN digest

HasSection(n, m) == m \in DigestsOf(n) /\ \E day \in Days : SectionIn(m, day, n)

(* What is marked, or about to be, has its section.                        *)
MarkInv ==
  /\ \A n \in Diary : diary[n] # NoDiary /\ diary[n].into # NoDigest => HasSection(n, diary[n].into)
  /\ \A c \in Compactors, n \in Diary : \A m \in Months : AboutToMark(c, n, m) => HasSection(n, m)
  /\ \A n \in Diary : \A day \in Days : \A m \in Months : SectionIn(m, day, n) => m \in DigestsOf(n)

(* What is listed is marked, or about to be, or excused.                   *)
ListInv ==
  \A n \in Diary : \A m \in DigestsOf(n) :
    diary[n] = NoDiary \/ diary[n].into # NoDigest \/ n \in excused
      \/ \E c \in Compactors : AboutToMark(c, n, m)

FoundDay(c, n) == DayOf(n, compaction[c].found[n])

(* Whoever knows of a quiet note knows the same of it.                     *)
CalmInv ==
  \A n \in Diary \ disturbed :
    /\ \A c \in Compactors : Knows(c, n) =>
         /\ diary[n] # NoDiary /\ compaction[c].found[n].words = diary[n].words
         /\ diary[n].into = NoDigest => FoundDay(c, n) = DayOf(n, diary[n])
         /\ \A d \in Compactors : Knows(d, n) => FoundDay(c, n) = FoundDay(d, n)
    /\ \A day \in Days : \A m \in Months : SectionIn(m, day, n) =>
         /\ diary[n] # NoDiary /\ digest[m].held[<<day, n>>] = <<diary[n].words>>
         /\ m = MonthOf[day]
         /\ diary[n].into = NoDigest => day = DayOf(n, diary[n])
         /\ \A c \in Compactors : Knows(c, n) => FoundDay(c, n) = day
         /\ \A other \in Days : \A o \in Months : SectionIn(o, other, n) => other = day

CompactionInv == CompactionTypeOK /\ RunInv /\ MarkInv /\ ListInv /\ CalmInv

--------------------------------------------------------------------------------
LEMMA DaysAndMonths ==
  ASSUME NEW n \in Diary, NEW e \in Entries
  PROVE  DayOf(n, e) \in Days /\ MonthOf[DayOf(n, e)] \in Months
BY CompactionAssumption DEF DayOf, Entries, Days, Months

LEMMA MonthsAreNumbers == Months \subseteq Nat /\ NoDigest \notin Months
BY CompactionAssumption DEF Months

(* Which state a run is in says what it has.                               *)
LEMMA RunShapes ==
  ASSUME CompactionTypeOK, NEW c \in Compactors
  PROVE  /\ compaction[c].step \in {"idle", "list", "month", "write", "mark"}
         /\ compaction[c].step = "idle" => compaction[c] = Resting
         /\ compaction[c].step # "idle" => compaction[c].found \in Finds
         /\ compaction[c].step = "list" => compaction[c].cutoff \in Days /\ compaction[c].unread \subseteq Diary
         /\ compaction[c].step \in {"month", "write", "mark"} => compaction[c].left \subseteq Months
         /\ compaction[c].step \in {"write", "mark"} =>
              /\ compaction[c].month \in Months /\ compaction[c].todo \subseteq Diary
              /\ compaction[c].seen \in BOOLEAN
              /\ compaction[c] = [step |-> compaction[c].step, found |-> compaction[c].found,
                   left |-> compaction[c].left, month |-> compaction[c].month,
                   todo |-> compaction[c].todo, seen |-> compaction[c].seen]
<1>1. compaction[c] \in RunStates
  BY DEF CompactionTypeOK
<1> QED BY <1>1 DEF RunStates, Resting

LEMMA CompactionInvInit == CompactionInit => CompactionInv
<1> SUFFICES ASSUME CompactionInit PROVE CompactionInv
  OBVIOUS
<1>1. 1 \in Days
  BY CompactionAssumption DEF Days
<1>2. DOMAIN digest = {} /\ \A n : DigestsOf(n) = {}
  BY DEF CompactionInit, DigestsOf
<1>3. diary \in Finds /\ \A n \in Diary : diary[n] # NoDiary => diary[n].into = NoDigest
  BY <1>1 DEF CompactionInit, Finds, Entries
<1>4. CompactionTypeOK
  BY <1>1, <1>2, <1>3 DEF CompactionInit, CompactionTypeOK, RunStates
<1>5. \A c \in Compactors : compaction[c].step = "idle"
  BY DEF CompactionInit, Resting
<1>6. RunInv /\ MarkInv /\ ListInv /\ CalmInv
  BY <1>2, <1>3, <1>5 DEF RunInv, MarkInv, ListInv, CalmInv, SectionIn, AboutToMark, Knows
<1> QED BY <1>4, <1>6 DEF CompactionInv

--------------------------------------------------------------------------------
(* Steps in which a run goes on and neither writes nor marks: what it      *)
(* knows of a note it knew before, or has just read from an unmarked note. *)
GoesOn(c) ==
  /\ UNCHANGED <<diary, digest, disturbed, excused>>
  /\ \A d \in Compactors \ {c} : compaction'[d] = compaction[d]
  /\ compaction[c].step # "mark" /\ compaction'[c].step # "mark"
  /\ \A n \in Diary : Knows(c, n)' =>
       \/ Knows(c, n) /\ compaction'[c].found[n] = compaction[c].found[n]
       \/ /\ diary[n] # NoDiary /\ diary[n].into = NoDigest
          /\ compaction'[c].found[n] = diary[n]

LEMMA GoingOnKeeps ==
  ASSUME CompactionInv, NEW c \in Compactors, GoesOn(c)
  PROVE  MarkInv' /\ ListInv' /\ CalmInv'
<1>0. MarkInv /\ ListInv /\ CalmInv
  BY DEF CompactionInv
<1>1. UNCHANGED <<diary, digest, disturbed, excused>>
  BY DEF GoesOn
<1>2. \A d \in Compactors, n \in Diary, m \in Months : AboutToMark(d, n, m)' <=> AboutToMark(d, n, m)
  BY DEF GoesOn, AboutToMark
<1>3. \A n \in Diary : DigestsOf(n)' = DigestsOf(n)
  BY <1>1 DEF DigestsOf
<1>4. \A m, day, n : SectionIn(m, day, n)' <=> SectionIn(m, day, n)
  BY <1>1 DEF SectionIn
<1>5. \A n \in Diary, m \in Months : HasSection(n, m)' <=> HasSection(n, m)
  BY <1>3, <1>4 DEF HasSection
<1>6. \A n \in Diary : DigestsOf(n) \subseteq Months
  BY DEF DigestsOf, CompactionInv, CompactionTypeOK
<1>7. MarkInv'
  <2>1. \A n \in Diary : diary[n] # NoDiary /\ diary[n].into # NoDigest => diary[n].into \in Months
    BY <1>0, <1>6 DEF MarkInv, HasSection
  <2> QED BY <1>0, <1>1, <1>2, <1>3, <1>4, <1>5, <2>1 DEF MarkInv
<1>8. ListInv'
  BY <1>0, <1>1, <1>2, <1>3, <1>6 DEF ListInv
<1>9. CalmInv'
  <2> SUFFICES ASSUME NEW n \in Diary \ disturbed
               PROVE  /\ \A d \in Compactors : Knows(d, n)' =>
                           /\ diary[n] # NoDiary /\ compaction'[d].found[n].words = diary[n].words
                           /\ diary[n].into = NoDigest => FoundDay(d, n)' = DayOf(n, diary[n])
                           /\ \A e \in Compactors : Knows(e, n)' => FoundDay(d, n)' = FoundDay(e, n)'
                      /\ \A day \in Days : \A m \in Months : SectionIn(m, day, n) =>
                           \A d \in Compactors : Knows(d, n)' => FoundDay(d, n)' = day
    BY <1>0, <1>1, <1>4 DEF CalmInv, DayOf
  <2>1. \A d \in Compactors : Knows(d, n)' =>
          \/ Knows(d, n) /\ compaction'[d].found[n] = compaction[d].found[n]
          \/ diary[n] # NoDiary /\ diary[n].into = NoDigest /\ compaction'[d].found[n] = diary[n]
    BY DEF GoesOn, Knows, Found
  <2>2. \A d \in Compactors : Knows(d, n)' =>
          \/ Knows(d, n) /\ FoundDay(d, n)' = FoundDay(d, n) /\ compaction'[d].found[n] = compaction[d].found[n]
          \/ /\ diary[n] # NoDiary /\ diary[n].into = NoDigest /\ compaction'[d].found[n] = diary[n]
             /\ FoundDay(d, n)' = DayOf(n, diary[n])
    BY <2>1 DEF FoundDay, DayOf
  <2>3. ASSUME NEW d \in Compactors, Knows(d, n)'
        PROVE  /\ diary[n] # NoDiary /\ compaction'[d].found[n].words = diary[n].words
               /\ diary[n].into = NoDigest => FoundDay(d, n)' = DayOf(n, diary[n])
    BY <1>0, <2>2, <2>3 DEF CalmInv
  <2>4. ASSUME NEW d \in Compactors, NEW e \in Compactors, Knows(d, n)', Knows(e, n)'
        PROVE  FoundDay(d, n)' = FoundDay(e, n)'
    <3>1. CASE diary[n].into = NoDigest
      BY <2>3, <2>4, <3>1
    <3>2. CASE diary[n].into # NoDigest
      BY <1>0, <2>2, <2>4, <3>2 DEF CalmInv
    <3> QED BY <3>1, <3>2
  <2>5. ASSUME NEW day \in Days, NEW m \in Months, SectionIn(m, day, n), NEW d \in Compactors, Knows(d, n)'
        PROVE  FoundDay(d, n)' = day
    <3>1. CASE diary[n].into = NoDigest
      BY <1>0, <2>3, <2>5, <3>1 DEF CalmInv
    <3>2. CASE diary[n].into # NoDigest
      BY <1>0, <2>2, <2>5, <3>2 DEF CalmInv
    <3> QED BY <3>1, <3>2
  <2> QED BY <2>3, <2>4, <2>5
<1> QED BY <1>7, <1>8, <1>9

(* A run that goes on keeps its shape.                                     *)
LEMMA RunChanges ==
  ASSUME CompactionTypeOK, RunInv, NEW c \in Compactors, NEW r \in RunStates,
         compaction' = [compaction EXCEPT ![c] = r], UNCHANGED <<diary, digest, today, disturbed>>,
         excused' \subseteq Diary,
         r.step \in {"write", "mark"} =>
           /\ \A n \in r.todo : /\ n \in Found(r) /\ ~r.found[n].rigid
                                /\ MonthOf[DayOf(n, r.found[n])] = r.month
           /\ r.seen => r.month \in DOMAIN digest
  PROVE  /\ CompactionTypeOK' /\ RunInv' /\ compaction'[c] = r
         /\ \A d \in Compactors \ {c} : compaction'[d] = compaction[d]
<1>1. CompactionTypeOK'
  BY DEF CompactionTypeOK, IsDigest
<1>2. compaction'[c] = r /\ \A d \in Compactors \ {c} : compaction'[d] = compaction[d]
  BY DEF CompactionTypeOK
<1>3. RunInv'
  BY <1>2 DEF RunInv, Found, DayOf
<1> QED BY <1>1, <1>2, <1>3

LEMMA QuietSteps ==
  ASSUME CompactionInv, NEW c \in Compactors,
         Start(c) \/ ListNext(c) \/ Listed(c) \/ NextMonth(c)
  PROVE  CompactionInv'
<1>0. CompactionTypeOK /\ RunInv /\ today \in Days /\ diary \in Finds
  BY DEF CompactionInv, CompactionTypeOK
<1>1. UNCHANGED <<diary, digest, today, disturbed, excused>>
  BY DEF Start, ListNext, Listed, NextMonth
<1>2. excused' \subseteq Diary
  BY <1>0, <1>1 DEF CompactionTypeOK
<1> DEFINE r == compaction[c]
<1>3. CASE Start(c)
  <2>1. PICK cutoff \in 1..today :
          compaction' = [compaction EXCEPT ![c] =
            [step |-> "list", cutoff |-> cutoff, unread |-> {n \in Diary : diary[n] # NoDiary},
             found |-> Nothing]]
    BY <1>3 DEF Start
  <2> DEFINE q == [step |-> "list", cutoff |-> cutoff, unread |-> {n \in Diary : diary[n] # NoDiary},
                   found |-> Nothing]
  <2>2. q \in RunStates /\ q.step = "list" /\ Found(q) = {}
    BY <1>0, CompactionAssumption DEF RunStates, Days, Nothing, Finds, Found
  <2>3. CompactionTypeOK' /\ RunInv' /\ compaction'[c] = q /\ \A d \in Compactors \ {c} : compaction'[d] = compaction[d]
    BY <1>0, <1>1, <1>2, <2>1, <2>2, RunChanges
  <2>4. GoesOn(c)
    BY <1>1, <1>3, <2>2, <2>3 DEF GoesOn, Start, Knows
  <2> QED BY <2>3, <2>4, GoingOnKeeps DEF CompactionInv
<1>4. CASE ListNext(c)
  <2>1. PICK n \in r.unread :
          compaction' = [compaction EXCEPT ![c] =
            [step |-> "list", cutoff |-> r.cutoff, unread |-> r.unread \ {n},
             found |-> IF diary[n] # NoDiary /\ Candidate(n, diary[n], r.cutoff)
                         THEN [r.found EXCEPT ![n] = diary[n]] ELSE r.found]]
    BY <1>4 DEF ListNext
  <2> DEFINE q == [step |-> "list", cutoff |-> r.cutoff, unread |-> r.unread \ {n},
                   found |-> IF diary[n] # NoDiary /\ Candidate(n, diary[n], r.cutoff)
                               THEN [r.found EXCEPT ![n] = diary[n]] ELSE r.found]
  <2>2. r.step = "list" /\ r.found \in Finds /\ r.cutoff \in Days /\ r.unread \subseteq Diary
    BY <1>0, <1>4, RunShapes DEF ListNext
  <2>3. q.found \in Finds
    BY <1>0, <2>2 DEF Finds
  <2>4. q \in RunStates /\ q.step = "list"
    BY <2>2, <2>3 DEF RunStates
  <2>5. CompactionTypeOK' /\ RunInv' /\ compaction'[c] = q /\ \A d \in Compactors \ {c} : compaction'[d] = compaction[d]
    BY <1>0, <1>1, <1>2, <2>1, <2>4, RunChanges
  <2>6. ASSUME NEW o \in Diary, o \in Found(q)
        PROVE  \/ o \in Found(r) /\ q.found[o] = r.found[o]
               \/ diary[o] # NoDiary /\ diary[o].into = NoDigest /\ q.found[o] = diary[o]
    BY <2>2, <2>6 DEF Found, Finds, Candidate
  <2>7. GoesOn(c)
    BY <1>1, <2>2, <2>4, <2>5, <2>6 DEF GoesOn, Knows
  <2> QED BY <2>5, <2>7, GoingOnKeeps DEF CompactionInv
<1>5. CASE Listed(c)
  <2> DEFINE q == IF Found(r) = {} THEN Resting
                  ELSE [step |-> "month", found |-> r.found, left |-> MonthsOf(r)]
  <2>1. compaction' = [compaction EXCEPT ![c] = q] /\ r.step = "list"
    BY <1>5 DEF Listed
  <2>2. r.found \in Finds
    BY <1>0, <2>1, RunShapes
  <2>3. MonthsOf(r) \subseteq Months
    BY <2>2, DaysAndMonths DEF MonthsOf, Found, Finds
  <2>4. q \in RunStates /\ q.step \in {"idle", "month"} /\ (q.step # "idle" => q.found = r.found)
    BY <2>2, <2>3 DEF RunStates, Resting
  <2>5. CompactionTypeOK' /\ RunInv' /\ compaction'[c] = q /\ \A d \in Compactors \ {c} : compaction'[d] = compaction[d]
    BY <1>0, <1>1, <1>2, <2>1, <2>4, RunChanges
  <2>6. GoesOn(c)
    BY <1>1, <2>1, <2>4, <2>5 DEF GoesOn, Knows, Found
  <2> QED BY <2>5, <2>6, GoingOnKeeps DEF CompactionInv
<1>6. CASE NextMonth(c)
  <2>1. r.step = "month" /\ r.found \in Finds /\ r.left \subseteq Months
    BY <1>0, <1>6, RunShapes DEF NextMonth
  <2>2. CASE compaction' = [compaction EXCEPT ![c] = Resting]
    <3>1. Resting \in RunStates /\ Resting.step = "idle"
      BY DEF RunStates, Resting
    <3>2. CompactionTypeOK' /\ RunInv' /\ compaction'[c] = Resting /\ \A d \in Compactors \ {c} : compaction'[d] = compaction[d]
      BY <1>0, <1>1, <1>2, <2>2, <3>1, RunChanges
    <3>3. GoesOn(c)
      BY <1>1, <2>1, <3>1, <3>2 DEF GoesOn, Knows
    <3> QED BY <3>2, <3>3, GoingOnKeeps DEF CompactionInv
  <2>3. ASSUME NEW m \in r.left,
               compaction' = [compaction EXCEPT ![c] =
                 IF Markable(Bucket(r, m), r.found) = {}
                   THEN [step |-> "month", found |-> r.found, left |-> r.left \ {m}]
                   ELSE [step |-> "write", found |-> r.found, left |-> r.left \ {m}, month |-> m,
                         todo |-> Markable(Bucket(r, m), r.found), seen |-> m \in DOMAIN digest]]
        PROVE  CompactionInv'
    <3> DEFINE notes == Markable(Bucket(r, m), r.found)
               q == IF notes = {} THEN [step |-> "month", found |-> r.found, left |-> r.left \ {m}]
                    ELSE [step |-> "write", found |-> r.found, left |-> r.left \ {m}, month |-> m,
                          todo |-> notes, seen |-> m \in DOMAIN digest]
    <3>1. notes \subseteq Diary /\ \A n \in notes : n \in Found(r) /\ ~r.found[n].rigid
                                              /\ MonthOf[DayOf(n, r.found[n])] = m
      BY DEF Markable, Bucket, Found
    <3> HIDE DEF notes
    <3>2. q \in RunStates /\ q.step \in {"month", "write"} /\ q.found = r.found
      BY <2>1, <3>1 DEF RunStates
    <3>3. q.step = "write" => q.todo = notes /\ q.month = m /\ (q.seen => m \in DOMAIN digest)
      OBVIOUS
    <3>4. compaction' = [compaction EXCEPT ![c] = q]
      BY <2>3 DEF notes
    <3> HIDE DEF q
    <3>5. q.step \in {"write", "mark"} =>
            /\ \A n \in q.todo : n \in Found(q) /\ ~q.found[n].rigid
                                /\ MonthOf[DayOf(n, q.found[n])] = q.month
            /\ q.seen => q.month \in DOMAIN digest
      BY <3>1, <3>2, <3>3 DEF Found
    <3>6. CompactionTypeOK' /\ RunInv' /\ compaction'[c] = q /\ \A d \in Compactors \ {c} : compaction'[d] = compaction[d]
      BY <1>0, <1>1, <1>2, <3>2, <3>4, <3>5, RunChanges
    <3>7. GoesOn(c)
      BY <1>1, <2>1, <3>2, <3>6 DEF GoesOn, Knows, Found
    <3> QED BY <3>6, <3>7, GoingOnKeeps DEF CompactionInv
  <2> QED BY <1>6, <2>2, <2>3 DEF NextMonth
<1> QED BY <1>3, <1>4, <1>5, <1>6

(* What a written digest holds and lists beside what it did before.        *)
LEMMA Digesting ==
  ASSUME CompactionInv, NEW c \in Compactors, compaction[c].step = "write",
         ~Taken(compaction[c].seen, compaction[c].month),
         digest' = [o \in DOMAIN digest \cup {compaction[c].month} |->
                      IF o = compaction[c].month
                        THEN Digested(IF compaction[c].seen THEN digest[compaction[c].month] ELSE Fresh,
                                      compaction[c].todo, compaction[c].found)
                      ELSE digest[o]]
  PROVE  LET r == compaction[c] IN
         /\ DOMAIN digest' \subseteq Months /\ \A m \in DOMAIN digest' : IsDigest(digest'[m])
         /\ DOMAIN digest \subseteq DOMAIN digest'
         /\ \A n \in Diary : DigestsOf(n)' = IF n \in r.todo THEN DigestsOf(n) \cup {r.month} ELSE DigestsOf(n)
         /\ \A n \in Diary : \A day \in Days : \A m \in Months :
              /\ SectionIn(m, day, n)' <=>
                   SectionIn(m, day, n) \/ (n \in r.todo /\ m = r.month /\ day = FoundDay(c, n))
              /\ SectionIn(m, day, n) => digest'[m].held[<<day, n>>] = digest[m].held[<<day, n>>]
              /\ SectionIn(m, day, n)' /\ ~SectionIn(m, day, n) =>
                   digest'[m].held[<<day, n>>] = <<r.found[n].words>>
<1> DEFINE r == compaction[c]
           m0 == r.month
           d == IF r.seen THEN digest[m0] ELSE Fresh
<1>1. CompactionTypeOK /\ RunInv
  BY DEF CompactionInv
<1>2. m0 \in Months /\ r.todo \subseteq Diary /\ r.found \in Finds /\ r.seen \in BOOLEAN
  BY <1>1, RunShapes
<1>3. \A n \in r.todo : r.found[n] \in Entries /\ FoundDay(c, n) \in Days
  BY <1>1, <1>2, DaysAndMonths DEF RunInv, Found, Finds, FoundDay
<1>4. r.seen <=> m0 \in DOMAIN digest
  BY <1>1, <1>2 DEF RunInv, Taken
<1>5. /\ r.seen => IsDigest(d) /\ d = digest[m0]
      /\ ~r.seen => DOMAIN d.held = {} /\ d.listed = {} /\ d.rigid = FALSE
  BY <1>1, <1>4 DEF CompactionTypeOK, Fresh
<1>6. IsDigest(d)
  BY <1>2, <1>5 DEF IsDigest
<1> DEFINE H == HeadingsOf(r.todo, r.found)
<1>7. /\ H \subseteq Headings
      /\ \A n \in Diary, day \in Days : <<day, n>> \in H <=> n \in r.todo /\ day = FoundDay(c, n)
      /\ \A h \in H : h[2] \in r.todo
  BY <1>2, <1>3 DEF HeadingsOf, Headings, FoundDay
<1> DEFINE e == Digested(d, r.todo, r.found)
<1>8. /\ DOMAIN e.held = DOMAIN d.held \cup H
      /\ \A h \in DOMAIN d.held : e.held[h] = d.held[h]
      /\ \A h \in H \ DOMAIN d.held : e.held[h] = <<r.found[h[2]].words>>
      /\ e.listed = d.listed \cup r.todo /\ e.rigid = d.rigid
  BY DEF Digested, Sections
<1>9. IsDigest(e)
  <2>1. \A h \in H : r.found[h[2]].words \in Wordings
    BY <1>3, <1>7 DEF Entries
  <2>2. \A w \in Wordings : <<w>> \in Seq(Wordings)
    OBVIOUS
  <2>3. \A h \in H \ DOMAIN d.held : e.held[h] \in Seq(Wordings)
    <3> HIDE DEF H, d, e
    <3> QED BY <1>8, <2>1, <2>2
  <2> QED BY <1>2, <1>6, <1>7, <1>8, <2>3 DEF IsDigest
<1>10. /\ DOMAIN digest' = DOMAIN digest \cup {m0} /\ digest'[m0] = e
       /\ \A o \in DOMAIN digest \ {m0} : digest'[o] = digest[o]
  OBVIOUS
<1> HIDE DEF d, e, H, m0, r
<1>11. DOMAIN digest' \subseteq Months /\ (\A m \in DOMAIN digest' : IsDigest(digest'[m]))
        /\ DOMAIN digest \subseteq DOMAIN digest'
  BY <1>1, <1>2, <1>9, <1>10 DEF CompactionTypeOK
<1>12. ASSUME NEW n \in Diary
       PROVE  DigestsOf(n)' = IF n \in r.todo THEN DigestsOf(n) \cup {m0} ELSE DigestsOf(n)
  BY <1>4, <1>5, <1>8, <1>10, <1>2 DEF DigestsOf
<1>13. ASSUME NEW n \in Diary, NEW day \in Days, NEW m \in Months
       PROVE  /\ SectionIn(m, day, n)' <=>
                   SectionIn(m, day, n) \/ (n \in r.todo /\ m = m0 /\ day = FoundDay(c, n))
              /\ SectionIn(m, day, n) => digest'[m].held[<<day, n>>] = digest[m].held[<<day, n>>]
              /\ SectionIn(m, day, n)' /\ ~SectionIn(m, day, n) =>
                   digest'[m].held[<<day, n>>] = <<r.found[n].words>>
  <2>1. CASE m # m0
    BY <1>10, <2>1 DEF SectionIn
  <2>2. CASE m = m0
    <3>1. SectionIn(m, day, n) <=> <<day, n>> \in DOMAIN d.held
      BY <1>2, <1>4, <1>5, <2>2 DEF SectionIn
    <3>2. SectionIn(m, day, n)' <=> <<day, n>> \in DOMAIN d.held \cup H
      BY <1>8, <1>10, <2>2 DEF SectionIn
    <3>3. SectionIn(m, day, n) => digest[m].held[<<day, n>>] = d.held[<<day, n>>]
      BY <1>2, <1>4, <1>5, <2>2 DEF SectionIn
    <3>4. <<day, n>>[2] = n
      OBVIOUS
    <3> QED BY <1>7, <1>8, <1>10, <2>2, <3>1, <3>2, <3>3, <3>4
  <2> QED BY <2>1, <2>2
<1> QED BY <1>11, <1>12, <1>13 DEF r, m0

LEMMA WriteDigestStep ==
  ASSUME CompactionInv, NEW c \in Compactors, WriteDigest(c)
  PROVE  CompactionInv'
<1> DEFINE r == compaction[c]
<1>0. CompactionTypeOK /\ RunInv /\ MarkInv /\ ListInv /\ CalmInv
  BY DEF CompactionInv
<1>1. UNCHANGED <<diary, today, disturbed, excused>> /\ r.step = "write" /\ excused' \subseteq Diary
  BY <1>0 DEF WriteDigest, CompactionTypeOK
<1>2. /\ r.found \in Finds /\ r.left \subseteq Months /\ r.month \in Months /\ r.todo \subseteq Diary
      /\ r.seen \in BOOLEAN
      /\ r = [step |-> "write", found |-> r.found, left |-> r.left, month |-> r.month,
              todo |-> r.todo, seen |-> r.seen]
  BY <1>0, <1>1, RunShapes
<1>3. ASSUME UNCHANGED digest, NEW q \in {Resting, Refused(r)}, compaction' = [compaction EXCEPT ![c] = q]
      PROVE  CompactionInv'
  <2>1. q \in RunStates /\ q.step \in {"idle", "month"} /\ (q.step # "idle" => q.found = r.found)
    BY <1>2, <1>3 DEF RunStates, Resting, Refused
  <2>2. CompactionTypeOK' /\ RunInv' /\ compaction'[c] = q /\ \A d \in Compactors \ {c} : compaction'[d] = compaction[d]
    BY <1>0, <1>1, <1>3, <2>1, RunChanges
  <2>3. GoesOn(c)
    BY <1>1, <1>3, <2>1, <2>2 DEF GoesOn, Knows, Found
  <2> QED BY <2>2, <2>3, GoingOnKeeps DEF CompactionInv
<1>4. CASE UNCHANGED digest /\ compaction' = [compaction EXCEPT ![c] = Resting]
  BY <1>3, <1>4
<1>5. CASE UNCHANGED digest /\ compaction' = [compaction EXCEPT ![c] = Refused(r)]
  BY <1>3, <1>5
<1>6. ASSUME ~Taken(r.seen, r.month),
             digest' = [o \in DOMAIN digest \cup {r.month} |->
               IF o = r.month THEN Digested(IF r.seen THEN digest[r.month] ELSE Fresh, r.todo, r.found)
               ELSE digest[o]],
             compaction' = [compaction EXCEPT ![c] = [r EXCEPT !.step = "mark"]]
      PROVE  CompactionInv'
  <2>1. /\ DOMAIN digest' \subseteq Months /\ \A m \in DOMAIN digest' : IsDigest(digest'[m])
        /\ DOMAIN digest \subseteq DOMAIN digest'
    BY <1>1, <1>6, Digesting
  <2>2. \A n \in Diary : DigestsOf(n)' = IF n \in r.todo THEN DigestsOf(n) \cup {r.month} ELSE DigestsOf(n)
    BY <1>1, <1>6, Digesting
  <2>3. \A n \in Diary : \A day \in Days : \A m \in Months :
          /\ SectionIn(m, day, n)' <=>
               SectionIn(m, day, n) \/ (n \in r.todo /\ m = r.month /\ day = FoundDay(c, n))
          /\ SectionIn(m, day, n) => digest'[m].held[<<day, n>>] = digest[m].held[<<day, n>>]
          /\ SectionIn(m, day, n)' /\ ~SectionIn(m, day, n) =>
               digest'[m].held[<<day, n>>] = <<r.found[n].words>>
    BY <1>1, <1>6, Digesting
  <2> DEFINE q == [step |-> "mark", found |-> r.found, left |-> r.left, month |-> r.month,
                   todo |-> r.todo, seen |-> r.seen]
  <2>4. [r EXCEPT !.step = "mark"] = q
    BY <1>2
  <2>5. q \in RunStates
    BY <1>2 DEF RunStates
  <2>6. compaction' = [compaction EXCEPT ![c] = q]
    BY <1>6, <2>4
  <2>7. compaction'[c] = q /\ (\A d \in Compactors \ {c} : compaction'[d] = compaction[d])
        /\ compaction' \in [Compactors -> RunStates]
    BY <1>0, <2>5, <2>6 DEF CompactionTypeOK
  <2>8. CompactionTypeOK'
    BY <1>0, <1>1, <2>1, <2>7 DEF CompactionTypeOK, Finds
  <2>9. RunInv'
    BY <1>0, <1>1, <2>1, <2>7 DEF RunInv, Found, DayOf
  <2>10. \A n \in r.todo : FoundDay(c, n) \in Days /\ n \in Found(r) /\ MonthOf[FoundDay(c, n)] = r.month
    BY <1>0, <1>1, <1>2, DaysAndMonths DEF RunInv, Found, Finds, FoundDay
  <2>11. \A d \in Compactors, n \in Diary : (Knows(d, n)' <=> Knows(d, n)) /\ FoundDay(d, n)' = FoundDay(d, n)
                                          /\ compaction'[d].found = compaction[d].found
    BY <1>1, <2>7 DEF Knows, Found, FoundDay, DayOf
  <2>12. \A n \in Diary : \A m \in Months : HasSection(n, m) => HasSection(n, m)'
    BY <2>2, <2>3 DEF HasSection
  <2>13. ASSUME NEW n \in r.todo, NEW m \in Months, m = r.month PROVE HasSection(n, m)'
    <3>1. m \in DigestsOf(n)'
      BY <1>2, <2>2, <2>13
    <3>2. PICK day \in Days : day = FoundDay(c, n)
      BY <2>10
    <3>3. SectionIn(m, day, n)'
      BY <1>2, <2>3, <2>13, <3>2
    <3> QED BY <3>1, <3>3 DEF HasSection
  <2>14. \A n \in Diary : DigestsOf(n) \subseteq Months
    BY <1>0 DEF DigestsOf, CompactionTypeOK
  <2>15. MarkInv'
    <3>1. ASSUME NEW n \in Diary, diary[n] # NoDiary, diary[n].into # NoDigest
          PROVE  HasSection(n, diary[n].into)'
      <4>1. HasSection(n, diary[n].into) /\ diary[n].into \in Months
        BY <1>0, <2>14, <3>1 DEF MarkInv, HasSection
      <4> QED BY <1>1, <2>12, <4>1 DEF HasSection
    <3>2. ASSUME NEW d \in Compactors, NEW n \in Diary, NEW m \in Months, AboutToMark(d, n, m)'
          PROVE  HasSection(n, m)'
      BY <1>0, <2>7, <2>12, <2>13, <3>2 DEF MarkInv, AboutToMark
    <3>3. ASSUME NEW n \in Diary, NEW day \in Days, NEW m \in Months, SectionIn(m, day, n)'
          PROVE  m \in DigestsOf(n)'
      BY <1>0, <2>2, <2>3, <3>3 DEF MarkInv
    <3> QED BY <1>1, <3>1, <3>2, <3>3 DEF MarkInv
  <2>16. ListInv'
    <3> SUFFICES ASSUME NEW n \in Diary, NEW m \in DigestsOf(n)',
                        diary[n] # NoDiary, diary[n].into = NoDigest, n \notin excused
                 PROVE  \E d \in Compactors : AboutToMark(d, n, m)'
      BY <1>1 DEF ListInv
    <3>1. CASE m \in DigestsOf(n)
      <4>1. PICK d \in Compactors : AboutToMark(d, n, m)
        BY <1>0, <3>1 DEF ListInv
      <4> QED BY <1>1, <2>7, <4>1 DEF AboutToMark
    <3>2. CASE m \notin DigestsOf(n)
      BY <2>2, <2>7, <3>2 DEF AboutToMark
    <3> QED BY <3>1, <3>2
  <2>17. CalmInv'
    <3> SUFFICES ASSUME NEW n \in Diary \ disturbed
                 PROVE  \A day \in Days : \A m \in Months : SectionIn(m, day, n)' =>
                          /\ diary[n] # NoDiary /\ digest'[m].held[<<day, n>>] = <<diary[n].words>>
                          /\ m = MonthOf[day]
                          /\ diary[n].into = NoDigest => day = DayOf(n, diary[n])
                          /\ \A d \in Compactors : Knows(d, n) => FoundDay(d, n) = day
                          /\ \A other \in Days : \A o \in Months : SectionIn(o, other, n)' => other = day
      BY <1>0, <1>1, <2>11 DEF CalmInv, DayOf
    <3>1. ASSUME NEW day \in Days, NEW m \in Months, SectionIn(m, day, n)', ~SectionIn(m, day, n)
          PROVE  /\ Knows(c, n) /\ m = r.month /\ day = FoundDay(c, n)
                 /\ digest'[m].held[<<day, n>>] = <<r.found[n].words>>
      BY <1>1, <2>3, <2>10, <3>1 DEF Knows
    <3>2. ASSUME NEW day \in Days, NEW m \in Months, SectionIn(m, day, n)'
          PROVE  /\ diary[n] # NoDiary /\ digest'[m].held[<<day, n>>] = <<diary[n].words>>
                 /\ m = MonthOf[day]
                 /\ diary[n].into = NoDigest => day = DayOf(n, diary[n])
                 /\ \A d \in Compactors : Knows(d, n) => FoundDay(d, n) = day
      <4>1. CASE SectionIn(m, day, n)
        BY <1>0, <2>3, <4>1 DEF CalmInv
      <4>2. CASE ~SectionIn(m, day, n)
        BY <1>0, <2>3, <2>10, <3>1, <3>2, <4>2 DEF CalmInv
      <4> QED BY <4>1, <4>2
    <3>3. ASSUME NEW day \in Days, NEW m \in Months, NEW other \in Days, NEW o \in Months,
                 SectionIn(m, day, n)', SectionIn(o, other, n)'
          PROVE  other = day
      <4>1. CASE SectionIn(m, day, n) /\ SectionIn(o, other, n)
        BY <1>0, <4>1 DEF CalmInv
      <4>2. CASE ~SectionIn(m, day, n)
        <5>1. Knows(c, n) /\ day = FoundDay(c, n)
          BY <3>1, <3>3, <4>2
        <5>2. \A d \in Compactors : Knows(d, n) => FoundDay(d, n) = other
          BY <3>2, <3>3
        <5> QED BY <5>1, <5>2
      <4>3. CASE ~SectionIn(o, other, n)
        <5>1. Knows(c, n) /\ other = FoundDay(c, n)
          BY <3>1, <3>3, <4>3
        <5>2. \A d \in Compactors : Knows(d, n) => FoundDay(d, n) = day
          BY <3>2, <3>3
        <5> QED BY <5>1, <5>2
      <4> QED BY <4>1, <4>2, <4>3
    <3> QED BY <3>2, <3>3
  <2> QED BY <2>8, <2>9, <2>15, <2>16, <2>17 DEF CompactionInv
<1> QED BY <1>4, <1>5, <1>6 DEF WriteDigest

(* Steps that leave the digests and what the runs know as they are. *)
LEMMA SameDigests ==
  ASSUME UNCHANGED digest
  PROVE  /\ \A n \in Diary : DigestsOf(n)' = DigestsOf(n)
         /\ \A n \in Diary : \A day \in Days : \A m \in Months : SectionIn(m, day, n)' <=> SectionIn(m, day, n)
         /\ \A n \in Diary : \A m \in Months : HasSection(n, m)' <=> HasSection(n, m)
BY DEF DigestsOf, SectionIn, HasSection

LEMMA MarkedInMonths ==
  ASSUME CompactionInv
  PROVE  /\ \A n \in Diary : DigestsOf(n) \subseteq Months
         /\ \A n \in Diary : diary[n] # NoDiary => diary[n] \in Entries
         /\ \A n \in Diary : diary[n] # NoDiary /\ diary[n].into # NoDigest => diary[n].into \in Months
BY DEF CompactionInv, CompactionTypeOK, DigestsOf, Finds, Entries

LEMMA MarkStep ==
  ASSUME CompactionInv, NEW c \in Compactors, MarkNext(c)
  PROVE  CompactionInv'
<1> DEFINE r == compaction[c]
<1>0. CompactionTypeOK /\ RunInv /\ MarkInv /\ ListInv /\ CalmInv
  BY DEF CompactionInv
<1>1. UNCHANGED <<digest, today, disturbed>> /\ r.step = "mark"
  BY DEF MarkNext
<1>2. /\ r.found \in Finds /\ r.left \subseteq Months /\ r.month \in Months /\ r.todo \subseteq Diary
      /\ r.seen \in BOOLEAN
      /\ r = [step |-> "mark", found |-> r.found, left |-> r.left, month |-> r.month,
              todo |-> r.todo, seen |-> r.seen]
  BY <1>0, <1>1, RunShapes
<1>3. PICK n \in r.todo :
        /\ compaction' = [compaction EXCEPT ![c] =
             IF r.todo = {n} THEN [step |-> "month", found |-> r.found, left |-> r.left]
             ELSE [r EXCEPT !.todo = @ \ {n}]]
        /\ diary' = IF diary[n] = NoDiary \/ diary[n].rigid THEN diary
                    ELSE [diary EXCEPT ![n] = Marked(@, r.month)]
        /\ excused' = IF diary[n] # NoDiary /\ diary[n].rigid /\ ~r.found[n].rigid
                        THEN excused \cup {n} ELSE excused
  BY DEF MarkNext
<1> DEFINE q == IF r.todo = {n} THEN [step |-> "month", found |-> r.found, left |-> r.left]
                ELSE [step |-> "mark", found |-> r.found, left |-> r.left, month |-> r.month,
                      todo |-> r.todo \ {n}, seen |-> r.seen]
<1>4. compaction' = [compaction EXCEPT ![c] = q]
  <2>1. [r EXCEPT !.todo = @ \ {n}] =
          [step |-> "mark", found |-> r.found, left |-> r.left, month |-> r.month,
           todo |-> r.todo \ {n}, seen |-> r.seen]
    BY <1>2
  <2> QED BY <1>3, <2>1
<1>5. q \in RunStates
  BY <1>2 DEF RunStates
<1>6. compaction'[c] = q /\ (\A d \in Compactors \ {c} : compaction'[d] = compaction[d])
      /\ compaction' \in [Compactors -> RunStates]
  BY <1>0, <1>4, <1>5 DEF CompactionTypeOK
<1>7. n \in Diary /\ today \in Days /\ NoDigest \notin Months /\ diary \in Finds
  BY <1>0, <1>2, MonthsAreNumbers DEF CompactionTypeOK
<1>8. /\ \A o \in Diary \ {n} : diary'[o] = diary[o]
      /\ diary[n] = NoDiary \/ diary[n].rigid => diary'[n] = diary[n]
      /\ diary[n] # NoDiary /\ ~diary[n].rigid =>
           diary'[n] \in Entries /\ diary'[n].words = diary[n].words /\ diary'[n].into = r.month
      /\ diary' \in Finds
  BY <1>2, <1>3, <1>7 DEF Finds, Marked, Entries
<1>9. excused \subseteq excused' /\ excused' \subseteq Diary
  BY <1>0, <1>3, <1>7 DEF CompactionTypeOK
<1>10. CompactionTypeOK'
  BY <1>0, <1>1, <1>6, <1>8, <1>9 DEF CompactionTypeOK
<1>11. RunInv'
  BY <1>0, <1>1, <1>6 DEF RunInv, Found, DayOf
<1>12. \A d \in Compactors, o \in Diary : (Knows(d, o)' <=> Knows(d, o)) /\ FoundDay(d, o)' = FoundDay(d, o)
                                        /\ compaction'[d].found = compaction[d].found
  BY <1>1, <1>6 DEF Knows, Found, FoundDay, DayOf
<1>13. \A d \in Compactors, o \in Diary, m \in Months :
         /\ AboutToMark(d, o, m)' => AboutToMark(d, o, m)
         /\ AboutToMark(d, o, m) /\ ~(d = c /\ o = n) => AboutToMark(d, o, m)'
  BY <1>1, <1>6 DEF AboutToMark
<1>14. AboutToMark(c, n, r.month)
  BY <1>1 DEF AboutToMark
<1>15. MarkInv'
  <2>1. ASSUME NEW o \in Diary, NEW m \in Months, diary'[o] # NoDiary, diary'[o].into = m
        PROVE  HasSection(o, m)'
    <3>1. HasSection(o, m)
      BY <1>0, <1>2, <1>7, <1>8, <1>14, <2>1 DEF MarkInv
    <3> QED BY <1>1, <3>1, SameDigests
  <2>2. \A o \in Diary : diary'[o] # NoDiary /\ diary'[o].into # NoDigest => diary'[o].into \in Months
    BY <1>8 DEF Finds, Entries
  <2>3. \A o \in Diary : diary'[o] # NoDiary /\ diary'[o].into # NoDigest => HasSection(o, diary[o].into)'
    BY <2>1, <2>2
  <2> QED BY <1>0, <1>1, <1>13, <2>3, SameDigests DEF MarkInv
<1>16. ListInv'
  <2> SUFFICES ASSUME NEW o \in Diary, NEW m \in DigestsOf(o)',
                      diary'[o] # NoDiary, diary'[o].into = NoDigest, o \notin excused'
               PROVE  \E d \in Compactors : AboutToMark(d, o, m)'
    BY DEF ListInv
  <2>1. m \in DigestsOf(o) /\ m \in Months
    BY <1>1, SameDigests, MarkedInMonths
  <2>2. CASE o = n
    <3>1. diary[n] # NoDiary /\ diary[n].rigid
      BY <1>2, <1>7, <1>8, <2>2
    <3>2. ~r.found[n].rigid
      BY <1>0, <1>1 DEF RunInv
    <3> QED BY <1>3, <2>2, <3>1, <3>2
  <2>3. CASE o # n
    <3>1. PICK d \in Compactors : AboutToMark(d, o, m)
      BY <1>0, <1>8, <1>9, <2>1, <2>3 DEF ListInv
    <3> QED BY <1>13, <2>1, <2>3, <3>1
  <2> QED BY <2>2, <2>3
<1>17. CalmInv'
  <2>1. ASSUME NEW o \in Diary, diary[o] # NoDiary
        PROVE  /\ diary'[o] # NoDiary /\ diary'[o].words = diary[o].words
               /\ diary'[o].into = NoDigest => diary[o].into = NoDigest /\ DayOf(o, diary'[o]) = DayOf(o, diary[o])
    BY <1>2, <1>7, <1>8, <2>1, CompactionAssumption
  <2>2. \A o \in Diary, day \in Days, m \in Months : (SectionIn(m, day, o)' <=> SectionIn(m, day, o))
    BY <1>1, SameDigests
  <2> SUFFICES ASSUME NEW o \in Diary \ disturbed
               PROVE  /\ \A d \in Compactors : Knows(d, o) =>
                           /\ diary'[o] # NoDiary /\ compaction[d].found[o].words = diary'[o].words
                           /\ diary'[o].into = NoDigest => FoundDay(d, o) = DayOf(o, diary'[o])
                           /\ \A e \in Compactors : Knows(e, o) => FoundDay(d, o) = FoundDay(e, o)
                      /\ \A day \in Days : \A m \in Months : SectionIn(m, day, o) =>
                           /\ diary'[o] # NoDiary /\ digest[m].held[<<day, o>>] = <<diary'[o].words>>
                           /\ m = MonthOf[day]
                           /\ diary'[o].into = NoDigest => day = DayOf(o, diary'[o])
                           /\ \A d \in Compactors : Knows(d, o) => FoundDay(d, o) = day
                           /\ \A other \in Days : \A p \in Months : SectionIn(p, other, o) => other = day
    BY <1>1, <1>12, <2>2 DEF CalmInv, DayOf
  <2>3. \A d \in Compactors : Knows(d, o) =>
          /\ diary[o] # NoDiary /\ compaction[d].found[o].words = diary[o].words
          /\ diary[o].into = NoDigest => FoundDay(d, o) = DayOf(o, diary[o])
          /\ \A e \in Compactors : Knows(e, o) => FoundDay(d, o) = FoundDay(e, o)
    BY <1>0 DEF CalmInv
  <2>4. \A day \in Days : \A m \in Months : SectionIn(m, day, o) =>
          /\ diary[o] # NoDiary /\ digest[m].held[<<day, o>>] = <<diary[o].words>>
          /\ m = MonthOf[day]
          /\ diary[o].into = NoDigest => day = DayOf(o, diary[o])
          /\ \A d \in Compactors : Knows(d, o) => FoundDay(d, o) = day
          /\ \A other \in Days : \A p \in Months : SectionIn(p, other, o) => other = day
    BY <1>0 DEF CalmInv
  <2> QED BY <2>1, <2>3, <2>4
<1> QED BY <1>10, <1>11, <1>15, <1>16, <1>17 DEF CompactionInv

LEMMA StopStep ==
  ASSUME CompactionInv, NEW c \in Compactors, CompactionStops(c)
  PROVE  CompactionInv'
<1>0. CompactionTypeOK /\ RunInv /\ MarkInv /\ ListInv /\ CalmInv
  BY DEF CompactionInv
<1>1. UNCHANGED <<diary, digest, today, disturbed>> /\ compaction' = [compaction EXCEPT ![c] = Resting]
  BY DEF CompactionStops
<1>2. CASE compaction[c].step = "mark"
  <2>1. excused' = excused \cup compaction[c].todo /\ compaction[c].todo \subseteq Diary
    BY <1>0, <1>2, RunShapes DEF CompactionStops
  <2>2. Resting \in RunStates /\ Resting.step = "idle"
    BY DEF RunStates, Resting
  <2>3. CompactionTypeOK' /\ RunInv' /\ compaction'[c] = Resting /\ \A d \in Compactors \ {c} : compaction'[d] = compaction[d]
    BY <1>0, <1>1, <2>1, <2>2, RunChanges DEF CompactionTypeOK
  <2>4. \A d \in Compactors, n \in Diary, m \in Months :
          AboutToMark(d, n, m)' <=> AboutToMark(d, n, m) /\ d # c
    BY <2>2, <2>3 DEF AboutToMark
  <2>5. \A d \in Compactors, n \in Diary :
          Knows(d, n)' => Knows(d, n) /\ FoundDay(d, n)' = FoundDay(d, n) /\ compaction'[d] = compaction[d]
    BY <1>1, <2>2, <2>3 DEF Knows, Found, FoundDay, DayOf
  <2>6. MarkInv'
    <3>1. \A n \in Diary : diary[n] # NoDiary /\ diary[n].into # NoDigest => HasSection(n, diary[n].into)'
      BY <1>0, <1>1, SameDigests, MarkedInMonths DEF MarkInv, HasSection, DigestsOf, SectionIn
    <3> QED BY <1>0, <1>1, <2>4, <3>1, SameDigests DEF MarkInv
  <2>7. ListInv'
    <3> SUFFICES ASSUME NEW n \in Diary, NEW m \in DigestsOf(n)',
                        diary[n] # NoDiary, diary[n].into = NoDigest, n \notin excused'
                 PROVE  \E d \in Compactors : AboutToMark(d, n, m)'
      BY <1>1 DEF ListInv
    <3>1. m \in DigestsOf(n) /\ m \in Months
      BY <1>1, SameDigests, MarkedInMonths
    <3>2. PICK d \in Compactors : AboutToMark(d, n, m)
      BY <1>0, <2>1, <3>1 DEF ListInv
    <3>3. d # c
      BY <2>1, <3>2 DEF AboutToMark
    <3> QED BY <2>4, <3>1, <3>2, <3>3
  <2>8. CalmInv'
    BY <1>0, <1>1, <2>5, SameDigests DEF CalmInv, DayOf
  <2> QED BY <2>3, <2>6, <2>7, <2>8 DEF CompactionInv
<1>3. CASE compaction[c].step # "mark"
  <2>1. excused' = excused
    BY <1>3 DEF CompactionStops
  <2>2. Resting \in RunStates /\ Resting.step = "idle"
    BY DEF RunStates, Resting
  <2>3. CompactionTypeOK' /\ RunInv' /\ compaction'[c] = Resting /\ \A d \in Compactors \ {c} : compaction'[d] = compaction[d]
    BY <1>0, <1>1, <2>1, <2>2, RunChanges DEF CompactionTypeOK
  <2>4. GoesOn(c)
    BY <1>1, <1>3, <2>1, <2>2, <2>3 DEF GoesOn, Knows
  <2> QED BY <2>3, <2>4, GoingOnKeeps DEF CompactionInv
<1> QED BY <1>2, <1>3

LEMMA SaveStep ==
  ASSUME CompactionInv, NEW n \in Diary, SaveDiary(n)
  PROVE  CompactionInv'
<1>0. CompactionTypeOK /\ RunInv /\ MarkInv /\ ListInv /\ CalmInv
  BY DEF CompactionInv
<1>1. UNCHANGED <<digest, today, compaction>>
  BY DEF SaveDiary
<1>2. /\ disturbed' = IF Known(n) THEN disturbed \cup {n} ELSE disturbed
      /\ excused' = IF DigestsOf(n) # {} THEN excused \cup {n} ELSE excused
  BY DEF SaveDiary
<1>3. PICK e : /\ diary' = [diary EXCEPT ![n] = e]
               /\ \/ e = NoDiary
                  \/ /\ e \in Entries
                     /\ e.into # NoDigest => diary[n] # NoDiary /\ e.into = diary[n].into
  <2>1. PICK w \in Wordings, g \in BOOLEAN :
          LET mark == IF diary[n] = NoDiary THEN NoDigest ELSE diary[n].into IN
          diary' \in {[diary EXCEPT ![n] = [words |-> w, updated |-> today, into |-> i, rigid |-> g]] :
                        i \in {NoDigest, mark}} \cup {[diary EXCEPT ![n] = NoDiary]}
    BY DEF SaveDiary
  <2>2. CASE diary' = [diary EXCEPT ![n] = NoDiary]
    BY <2>2
  <2>3. CASE diary' # [diary EXCEPT ![n] = NoDiary]
    <3> DEFINE mark == IF diary[n] = NoDiary THEN NoDigest ELSE diary[n].into
    <3>1. PICK i \in {NoDigest, mark} :
            diary' = [diary EXCEPT ![n] = [words |-> w, updated |-> today, into |-> i, rigid |-> g]]
      BY <2>1, <2>3
    <3>2. mark \in Months \cup {NoDigest}
      BY MarkedInMonths DEF Entries
    <3> DEFINE f == [words |-> w, updated |-> today, into |-> i, rigid |-> g]
    <3>3. f \in Entries /\ f.into = i
      BY <1>0, <3>2 DEF Entries, CompactionTypeOK
    <3>4. f.into # NoDigest => diary[n] # NoDiary /\ f.into = diary[n].into
      BY <3>3
    <3> QED BY <3>1, <3>3, <3>4
  <2> QED BY <2>2, <2>3
<1>4. diary'[n] = e /\ (\A o \in Diary \ {n} : diary'[o] = diary[o]) /\ diary' \in Finds
  BY <1>0, <1>3 DEF CompactionTypeOK, Finds
<1>5. CompactionTypeOK'
  BY <1>0, <1>1, <1>2, <1>4 DEF CompactionTypeOK
<1>6. RunInv'
  BY <1>0, <1>1 DEF RunInv, Found, DayOf
<1>7. \A d \in Compactors, o \in Diary : (Knows(d, o)' <=> Knows(d, o)) /\ FoundDay(d, o)' = FoundDay(d, o)
  BY <1>1 DEF Knows, Found, FoundDay, DayOf
<1>8. \A d \in Compactors, o \in Diary, m \in Months : AboutToMark(d, o, m)' <=> AboutToMark(d, o, m)
  BY <1>1 DEF AboutToMark
<1>9. MarkInv'
  <2>1. ASSUME NEW o \in Diary, NEW m \in Months, diary'[o] # NoDiary, diary'[o].into = m
        PROVE  HasSection(o, m)'
    <3>1. diary[o] # NoDiary /\ diary[o].into = m /\ m # NoDigest
      BY <1>3, <1>4, <2>1, MonthsAreNumbers
    <3> QED BY <1>0, <1>1, <3>1, SameDigests DEF MarkInv
  <2>2. \A o \in Diary : diary'[o] # NoDiary /\ diary'[o].into # NoDigest => diary'[o].into \in Months
    BY <1>4 DEF Finds, Entries
  <2>3. \A o \in Diary : diary'[o] # NoDiary /\ diary'[o].into # NoDigest => HasSection(o, diary[o].into)'
    BY <2>1, <2>2
  <2> QED BY <1>0, <1>1, <1>8, <2>3, SameDigests DEF MarkInv
<1>10. ListInv'
  <2> SUFFICES ASSUME NEW o \in Diary, NEW m \in DigestsOf(o)',
                      diary'[o] # NoDiary, diary'[o].into = NoDigest, o \notin excused'
               PROVE  \E d \in Compactors : AboutToMark(d, o, m)'
    BY DEF ListInv
  <2>1. m \in DigestsOf(o) /\ m \in Months
    BY <1>1, SameDigests, MarkedInMonths
  <2>2. o # n
    BY <1>2, <2>1
  <2> QED BY <1>0, <1>2, <1>4, <1>8, <2>1, <2>2 DEF ListInv
<1>11. CalmInv'
  <2>1. ASSUME NEW o \in Diary \ disturbed', o = n
        PROVE  (\A d \in Compactors : ~Knows(d, o)) /\ \A day \in Days : \A m \in Months : ~SectionIn(m, day, o)
    <3>1. ~Known(n)
      BY <1>2, <2>1
    <3> QED BY <1>0, <2>1, <3>1 DEF Known, MarkInv
  <2> SUFFICES ASSUME NEW o \in Diary \ disturbed', o # n
               PROVE  /\ \A d \in Compactors : Knows(d, o) =>
                           /\ diary'[o] # NoDiary /\ compaction[d].found[o].words = diary'[o].words
                           /\ diary'[o].into = NoDigest => FoundDay(d, o) = DayOf(o, diary'[o])
                           /\ \A f \in Compactors : Knows(f, o) => FoundDay(d, o) = FoundDay(f, o)
                      /\ \A day \in Days : \A m \in Months : SectionIn(m, day, o) =>
                           /\ diary'[o] # NoDiary /\ digest[m].held[<<day, o>>] = <<diary'[o].words>>
                           /\ m = MonthOf[day]
                           /\ diary'[o].into = NoDigest => day = DayOf(o, diary'[o])
                           /\ \A d \in Compactors : Knows(d, o) => FoundDay(d, o) = day
                           /\ \A other \in Days : \A p \in Months : SectionIn(p, other, o) => other = day
    BY <1>1, <1>7, <2>1, SameDigests DEF CalmInv, DayOf
  <2> QED BY <1>0, <1>2, <1>4 DEF CalmInv
<1> QED BY <1>5, <1>6, <1>9, <1>10, <1>11 DEF CompactionInv

(* Steps in which no note, run or section changes. *)
LEMMA NothingNew ==
  ASSUME CompactionInv, UNCHANGED <<diary, compaction, disturbed, excused>>,
         \A n \in Diary : DigestsOf(n)' = DigestsOf(n),
         \A n \in Diary : \A day \in Days : \A m \in Months :
           /\ SectionIn(m, day, n)' <=> SectionIn(m, day, n)
           /\ SectionIn(m, day, n) => digest'[m].held[<<day, n>>] = digest[m].held[<<day, n>>]
  PROVE  MarkInv' /\ ListInv' /\ CalmInv'
<1>0. MarkInv /\ ListInv /\ CalmInv
  BY DEF CompactionInv
<1>1. \A d \in Compactors, n \in Diary : (Knows(d, n)' <=> Knows(d, n)) /\ FoundDay(d, n)' = FoundDay(d, n)
  BY DEF Knows, Found, FoundDay, DayOf
<1>2. \A d \in Compactors, n \in Diary, m \in Months : AboutToMark(d, n, m)' <=> AboutToMark(d, n, m)
  BY DEF AboutToMark
<1>3. \A n \in Diary : \A m \in Months : HasSection(n, m)' <=> HasSection(n, m)
  BY DEF HasSection
<1>4. MarkInv'
  <2>1. ASSUME NEW n \in Diary, diary[n] # NoDiary, diary[n].into # NoDigest
        PROVE  HasSection(n, diary[n].into)'
    <3>1. PICK m \in Months : m = diary[n].into
      BY <2>1, MarkedInMonths
    <3>2. HasSection(n, m)'
      BY <1>0, <1>3, <2>1, <3>1 DEF MarkInv
    <3> QED BY <3>1, <3>2
  <2> QED BY <1>0, <1>2, <1>3, <2>1 DEF MarkInv
<1>5. ListInv'
  BY <1>0, <1>2, MarkedInMonths DEF ListInv
<1>6. CalmInv'
  <2> SUFFICES ASSUME NEW n \in Diary \ disturbed
               PROVE  /\ \A c \in Compactors : Knows(c, n) =>
                           /\ diary[n] # NoDiary /\ compaction[c].found[n].words = diary[n].words
                           /\ diary[n].into = NoDigest => FoundDay(c, n) = DayOf(n, diary[n])
                           /\ \A d \in Compactors : Knows(d, n) => FoundDay(c, n) = FoundDay(d, n)
                      /\ \A day \in Days : \A m \in Months : SectionIn(m, day, n)' =>
                           /\ diary[n] # NoDiary /\ digest'[m].held[<<day, n>>] = <<diary[n].words>>
                           /\ m = MonthOf[day]
                           /\ diary[n].into = NoDigest => day = DayOf(n, diary[n])
                           /\ \A c \in Compactors : Knows(c, n) => FoundDay(c, n) = day
                           /\ \A other \in Days : \A o \in Months : SectionIn(o, other, n)' => other = day
    BY <1>1 DEF CalmInv, DayOf
  <2>1. \A c \in Compactors : Knows(c, n) =>
          /\ diary[n] # NoDiary /\ compaction[c].found[n].words = diary[n].words
          /\ diary[n].into = NoDigest => FoundDay(c, n) = DayOf(n, diary[n])
          /\ \A d \in Compactors : Knows(d, n) => FoundDay(c, n) = FoundDay(d, n)
    BY <1>0 DEF CalmInv
  <2>2. ASSUME NEW day \in Days, NEW m \in Months, SectionIn(m, day, n)'
        PROVE  /\ diary[n] # NoDiary /\ digest'[m].held[<<day, n>>] = <<diary[n].words>>
               /\ m = MonthOf[day]
               /\ diary[n].into = NoDigest => day = DayOf(n, diary[n])
               /\ \A c \in Compactors : Knows(c, n) => FoundDay(c, n) = day
               /\ \A other \in Days : \A o \in Months : SectionIn(o, other, n)' => other = day
    <3>1. SectionIn(m, day, n) /\ digest'[m].held[<<day, n>>] = digest[m].held[<<day, n>>]
      BY <2>2
    <3>2. /\ diary[n] # NoDiary /\ digest[m].held[<<day, n>>] = <<diary[n].words>>
          /\ m = MonthOf[day]
          /\ diary[n].into = NoDigest => day = DayOf(n, diary[n])
          /\ \A c \in Compactors : Knows(c, n) => FoundDay(c, n) = day
          /\ \A other \in Days : \A o \in Months : SectionIn(o, other, n) => other = day
      BY <1>0, <3>1 DEF CalmInv
    <3>3. \A other \in Days : \A o \in Months : SectionIn(o, other, n)' => other = day
      BY <3>2
    <3> QED BY <3>1, <3>2, <3>3
  <2> QED BY <2>1, <2>2
<1> QED BY <1>4, <1>5, <1>6

LEMMA CompactionInvNext == CompactionInv /\ [CompactionNext]_compacting => CompactionInv'
<1> SUFFICES ASSUME CompactionInv, [CompactionNext]_compacting PROVE CompactionInv'
  OBVIOUS
<1>0. CompactionTypeOK /\ RunInv
  BY DEF CompactionInv
<1>1. ASSUME NEW c \in Compactors, Start(c) \/ ListNext(c) \/ Listed(c) \/ NextMonth(c)
      PROVE  CompactionInv'
  BY <1>1, QuietSteps
<1>2. ASSUME NEW c \in Compactors, WriteDigest(c) PROVE CompactionInv'
  BY <1>2, WriteDigestStep
<1>3. ASSUME NEW c \in Compactors, MarkNext(c) PROVE CompactionInv'
  BY <1>3, MarkStep
<1>4. ASSUME NEW c \in Compactors, CompactionStops(c) PROVE CompactionInv'
  BY <1>4, StopStep
<1>5. ASSUME NEW n \in Diary, SaveDiary(n) PROVE CompactionInv'
  BY <1>5, SaveStep
<1>6. ASSUME NEW m \in Months, EditDigest(m) PROVE CompactionInv'
  <2>1. UNCHANGED <<diary, today, compaction, disturbed, excused>> /\ m \in DOMAIN digest
    BY <1>6 DEF EditDigest
  <2>2. /\ DOMAIN digest' = DOMAIN digest
        /\ \A o \in DOMAIN digest : digest'[o].held = digest[o].held /\ digest'[o].listed = digest[o].listed
        /\ \A o \in DOMAIN digest : digest'[o].rigid \in BOOLEAN
    BY <1>0, <1>6 DEF EditDigest, CompactionTypeOK, IsDigest
  <2>3. CompactionTypeOK'
    BY <1>0, <2>1, <2>2 DEF CompactionTypeOK, IsDigest
  <2>4. RunInv'
    BY <1>0, <2>1, <2>2 DEF RunInv, Found, DayOf
  <2>5. /\ \A n \in Diary : DigestsOf(n)' = DigestsOf(n)
        /\ \A n \in Diary : \A day \in Days : \A o \in Months :
             /\ SectionIn(o, day, n)' <=> SectionIn(o, day, n)
             /\ SectionIn(o, day, n) => digest'[o].held[<<day, n>>] = digest[o].held[<<day, n>>]
    BY <2>2 DEF DigestsOf, SectionIn
  <2>6. MarkInv' /\ ListInv' /\ CalmInv'
    BY <2>1, <2>5, NothingNew
  <2> QED BY <2>3, <2>4, <2>6 DEF CompactionInv
<1>7. ASSUME UNCHANGED <<diary, digest, compaction, disturbed, excused>>, today' \in Days
      PROVE  CompactionInv'
  <2>1. CompactionTypeOK' /\ RunInv'
    BY <1>0, <1>7 DEF CompactionTypeOK, RunInv, Found, DayOf, IsDigest
  <2>2. MarkInv' /\ ListInv' /\ CalmInv'
    BY <1>7, SameDigests, NothingNew
  <2> QED BY <2>1, <2>2 DEF CompactionInv
<1>8. CASE NextDay
  <2>1. today' \in Days
    BY <1>0, <1>8, CompactionAssumption DEF NextDay, CompactionTypeOK, Days
  <2> QED BY <1>7, <1>8, <2>1 DEF NextDay
<1>9. CASE UNCHANGED compacting
  BY <1>0, <1>7, <1>9 DEF compacting, CompactionTypeOK
<1> QED BY <1>1, <1>2, <1>3, <1>4, <1>5, <1>6, <1>8, <1>9 DEF CompactionNext

LEMMA CompactionInvAlways == CompactionSpec => []CompactionInv
BY CompactionInvInit, CompactionInvNext, PTL DEF CompactionSpec

--------------------------------------------------------------------------------
(* The notes, the digests and the runs keep their types. *)
THEOREM CompactionTypes == CompactionSpec => []CompactionTypeOK
<1>1. CompactionInv => CompactionTypeOK
  BY DEF CompactionInv
<1> QED BY <1>1, CompactionInvAlways, PTL

(* _write_monthly_digest comes before _mark_source_note_compacted: a       *)
(* marked note has its section, and a listed one its mark, or one of the   *)
(* named causes why not.                                                   *)
THEOREM DigestsComeFirst == CompactionSpec => []MarksAndDigestsAgree
<1>1. CompactionInv => MarksAndDigestsAgree
  <2> SUFFICES ASSUME CompactionInv PROVE MarksAndDigestsAgree
    OBVIOUS
  <2> QED BY DEF CompactionInv, MarkInv, ListInv, HasSection, MarksAndDigestsAgree
<1> QED BY <1>1, CompactionInvAlways, PTL

(* The heading of _build_digest_content tells what is there from what is   *)
(* new: a note that was left alone is held once, in its own words.         *)
THEOREM CompactionRepeatsNothing == CompactionSpec => []CalmNotesAreHeldOnce
<1>1. CompactionInv => CalmNotesAreHeldOnce
  <2> SUFFICES ASSUME CompactionInv PROVE CalmNotesAreHeldOnce
    OBVIOUS
  <2>1. CalmInv
    BY DEF CompactionInv
  <2> SUFFICES ASSUME NEW n \in Diary \ disturbed, NEW day \in Days, NEW m \in Months, SectionIn(m, day, n)
               PROVE  /\ diary[n] # NoDiary /\ digest[m].held[<<day, n>>] = <<diary[n].words>>
                      /\ \A other \in Days : \A o \in Months : SectionIn(o, other, n) => other = day /\ o = m
    BY DEF CalmNotesAreHeldOnce
  <2>2. \A other \in Days : \A o \in Months : SectionIn(o, other, n) => other = day /\ o = MonthOf[other]
    BY <2>1 DEF CalmInv
  <2> QED BY <2>1, <2>2 DEF CalmInv
<1> QED BY <1>1, CompactionInvAlways, PTL
================================================================================
