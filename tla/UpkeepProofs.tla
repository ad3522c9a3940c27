------------------------------ MODULE UpkeepProofs ------------------------------
(***************************************************************************)
(* The parts that keep a vault in order and share nothing with each other, *)
(* proved for any processes, notes, contents and bounds, one after the     *)
(* other: the clock of the journal and the sweep of the history, the marks *)
(* of the inbox, the rebuild of the index, the scrubs and what a caller is *)
(* told of its write.                                                      *)
(***************************************************************************)
EXTENDS HistoryRetention, ReviewState, IndexRebuild, Scrubber, WriteProgress, FiniteSetTheorems,
        TLAPS

(***************************************************************************)
(* History: the records of any servers, with any inherited journal, window *)
(* and steps of the clock, are accepted, and the sweep keeps the window.   *)
(***************************************************************************)

LEMMA TailIsElement ==
  ASSUME NEW S, NEW log \in Seq(S), log # <<>>
  PROVE  Len(log) \in DOMAIN log /\ log[Len(log)] \in S
OBVIOUS

LEMMA TailIsRecord ==
  ASSUME NEW log \in Seq(Records), log # <<>>
  PROVE  log[Len(log)] \in Records /\ log[Len(log)].at \in Nat
<1>1. log[Len(log)] \in Records
  BY TailIsElement
<1> QED BY <1>1 DEF Records

LEMMA RestampTypes ==
  ASSUME NEW r \in Records, NEW at \in Nat
  PROVE  [r EXCEPT !.at = at] \in Records /\ [r EXCEPT !.at = at].at = at
BY DEF Records

(* Whatever the wall clock reads, the next timestamp does not precede the  *)
(* tail.                                                                   *)
LEMMA NextTimestampAdvances ==
  ASSUME NEW log \in Seq(Records), wall \in Nat
  PROVE  /\ NextTimestamp(log) \in Nat
         /\ log # <<>> => NextTimestamp(log) >= log[Len(log)].at
BY TailIsRecord DEF NextTimestamp

LEMMA PreparedIsAccepted ==
  ASSUME RetentionTypeOK, NEW n \in Notes, NEW h \in Hashes
  PROVE  Prepared(n, h) \in Records /\ Accepts(journal, Prepared(n, h))
BY NextTimestampAdvances DEF RetentionTypeOK, Prepared, Records, Accepts

LEMMA RestampedIsAccepted ==
  ASSUME RetentionTypeOK, NEW r \in Records
  PROVE  /\ RestampedPastTail(journal, r) \in Records
         /\ Accepts(journal, RestampedPastTail(journal, r))
<1>1. journal \in Seq(Records) /\ wall \in Nat
  BY DEF RetentionTypeOK
<1>2. CASE journal # <<>> /\ r.at < journal[Len(journal)].at
  <2>1. RestampedPastTail(journal, r) = [r EXCEPT !.at = NextTimestamp(journal)]
    BY <1>2 DEF RestampedPastTail
  <2>2. /\ NextTimestamp(journal) \in Nat
        /\ NextTimestamp(journal) >= journal[Len(journal)].at
    BY <1>1, <1>2, NextTimestampAdvances
  <2> QED BY <2>1, <2>2, RestampTypes DEF Accepts
<1>3. CASE ~(journal # <<>> /\ r.at < journal[Len(journal)].at)
  <2>1. RestampedPastTail(journal, r) = r
    BY <1>3 DEF RestampedPastTail
  <2>2. r.at \in Nat /\ (journal # <<>> => journal[Len(journal)].at \in Nat)
    BY <1>1, TailIsRecord DEF Records
  <2> QED BY <1>3, <2>1, <2>2 DEF Accepts
<1> QED BY <1>2, <1>3

-----------------------------------------------------------------------------
LEMMA SweepTypes ==
  ASSUME RetentionTypeOK, NEW s \in Servers, NEW log, NEW stored \in SUBSET Hashes,
         Sweep(s, log, stored)
  PROVE  blobs' \subseteq Hashes /\ sweptAt' \in [Servers -> Nat \cup {Never}]
BY DEF Sweep, RetentionTypeOK

LEMMA StoredTypes ==
  ASSUME RetentionTypeOK, NEW h \in Hashes
  PROVE  Stored(h) \in SUBSET Hashes
BY DEF RetentionTypeOK, Stored

LEMMA RetentionTypeInit == HistoryInit => RetentionTypeOK
<1> SUFFICES ASSUME HistoryInit PROVE RetentionTypeOK
  OBVIOUS
<1>1. journal \in Seq(Records) /\ inherited \in Nat
  BY RetentionAssumption DEF HistoryInit
<1>2. wall \in Nat
  BY RetentionAssumption DEF HistoryInit
<1>3. manifests \subseteq Records
  BY RetentionAssumption DEF HistoryInit
<1>4. sweptAt \in [Servers -> Nat \cup {Never}]
  BY DEF HistoryInit
<1> QED BY <1>1, <1>2, <1>3, <1>4 DEF HistoryInit, RetentionTypeOK

(* What a step keeps: types, and that no record was ever refused. *)
RetentionInv == RetentionTypeOK /\ NoRecordIsRefused

LEMMA RetentionNext == RetentionInv /\ [HistoryNext]_retention => RetentionInv'
<1> SUFFICES ASSUME RetentionInv, [HistoryNext]_retention PROVE RetentionInv'
  OBVIOUS
<1> USE DEF RetentionInv, NoRecordIsRefused
<1>1. ASSUME NEW s \in Servers, NEW n \in Notes, NEW h \in Hashes, Write(s, n, h)
      PROVE  RetentionInv'
  <2> DEFINE r == Prepared(n, h)
  <2>1. r \in Records /\ Accepts(journal, r)
    BY PreparedIsAccepted
  <2>2. /\ journal' = Append(journal, r) /\ Sweep(s, journal', Stored(bytes[n]))
        /\ UNCHANGED <<manifests, refused, wall, historyMode, inherited>>
        /\ bytes' = [bytes EXCEPT ![n] = h]
    BY <1>1, <2>1 DEF Write
  <2>3. Stored(bytes[n]) \in SUBSET Hashes
    BY StoredTypes DEF RetentionTypeOK
  <2>4. blobs' \subseteq Hashes /\ sweptAt' \in [Servers -> Nat \cup {Never}]
    BY <2>2, <2>3, SweepTypes
  <2> QED BY <2>1, <2>2, <2>4 DEF RetentionTypeOK
<1>2. ASSUME NEW s \in Servers, NEW n \in Notes, NEW h \in Hashes, WriteCut(s, n, h)
      PROVE  RetentionInv'
  <2>1. Prepared(n, h) \in Records /\ Stored(bytes[n]) \in SUBSET Hashes
    BY PreparedIsAccepted, StoredTypes DEF RetentionTypeOK
  <2> QED BY <1>2, <2>1 DEF WriteCut, RetentionTypeOK
<1>3. ASSUME NEW s \in Servers, NEW r \in manifests, Recover(s, r) PROVE RetentionInv'
  <2> DEFINE stamped == RestampedPastTail(journal, r)
             log == IF bytes[r.note] = r.after THEN Append(journal, stamped) ELSE journal
  <2>1. r \in Records
    BY DEF RetentionTypeOK
  <2>2. stamped \in Records /\ Accepts(journal, stamped)
    BY <2>1, RestampedIsAccepted
  <2>3. /\ journal' = log /\ manifests' = manifests \ {r}
        /\ IF manifests = {r} THEN Sweep(s, log, blobs) ELSE UNCHANGED <<blobs, sweptAt>>
        /\ UNCHANGED <<refused, bytes, wall, historyMode, inherited>>
    BY <1>3, <2>2 DEF Recover
  <2>4. blobs' \subseteq Hashes /\ sweptAt' \in [Servers -> Nat \cup {Never}]
    BY <2>3, SweepTypes DEF RetentionTypeOK
  <2>5. log \in Seq(Records)
    BY <2>2 DEF RetentionTypeOK
  <2> QED BY <2>3, <2>4, <2>5 DEF RetentionTypeOK
<1>4. ASSUME NEW s \in Servers, Purge(s) PROVE RetentionInv'
  <2>1. blobs' \subseteq Hashes /\ sweptAt' \in [Servers -> Nat \cup {Never}]
    BY <1>4, SweepTypes DEF Purge, RetentionTypeOK
  <2> QED BY <1>4, <2>1 DEF Purge, RetentionTypeOK
<1>5. CASE Clock
  BY <1>5, RetentionAssumption DEF Clock, RetentionTypeOK
<1>6. CASE SwitchMode
  BY <1>6 DEF SwitchMode, RetentionTypeOK
<1>7. CASE UNCHANGED retention
  BY <1>7 DEF retention, RetentionTypeOK
<1> QED BY <1>1, <1>2, <1>3, <1>4, <1>5, <1>6, <1>7 DEF HistoryNext

(* Every variable keeps its type: the statement of the type invariant of   *)
(* core/operation_log.py's journal, manifests, blobs and clocks.           *)
THEOREM RetentionTypes == HistorySpec => []RetentionTypeOK
<1>1. HistoryInit => RetentionInv
  BY RetentionTypeInit DEF RetentionInv, NoRecordIsRefused, HistoryInit
<1>2. RetentionInv => RetentionTypeOK
  BY DEF RetentionInv
<1> QED BY <1>1, <1>2, RetentionNext, PTL DEF HistorySpec

(* append_record never refuses the record of a write that took place,      *)
(* however the clock steps, whoever writes, and whatever journal and       *)
(* manifests an earlier version left.                                      *)
THEOREM RecordsAreAccepted == HistorySpec => []NoRecordIsRefused
<1>1. HistoryInit => RetentionInv
  BY RetentionTypeInit DEF RetentionInv, NoRecordIsRefused, HistoryInit
<1>2. RetentionInv => NoRecordIsRefused
  BY DEF RetentionInv
<1> QED BY <1>1, <1>2, RetentionNext, PTL DEF HistorySpec

-----------------------------------------------------------------------------
(* The backward scan of _hashes_within_retention.  In an ordered journal   *)
(* it reads every record of the window before it stops; once it sees the   *)
(* journal out of order it reads all of it.                                *)
LEMMA ScanReachesTheWindow ==
  ASSUME NEW log \in Seq(Records), NEW moment \in Nat,
         Ordered(log) \/ Contradicted(log, moment),
         NEW k \in DOMAIN log, ~Expired(log[k], moment)
  PROVE  Names(log[k]) \subseteq Retained(log, moment)
<1> DEFINE within == {m \in DOMAIN log : ~Expired(log[m], moment)}
           kept == IF Contradicted(log, moment) THEN within ELSE Read(log, moment) \cap within
<1>1. k \in within
  OBVIOUS
<1>2. Ordered(log) => k \in Read(log, moment)
  <2> SUFFICES ASSUME Ordered(log), NEW m \in DOMAIN log, m > k PROVE ~Expired(log[m], moment)
    BY DEF Read
  <2> DEFINE a == log[k]  b == log[m]
  <2>0. a \in Records /\ b \in Records
    OBVIOUS
  <2> HIDE DEF a, b
  <2>1. a.at \in Nat /\ b.at \in Nat
    BY <2>0 DEF Records
  <2>2. k \in Nat /\ m \in Nat
    OBVIOUS
  <2>3. a.at <= b.at
    BY <2>2 DEF Ordered, a, b
  <2>4. ~Expired(a, moment)
    BY DEF a
  <2>5. ~Expired(b, moment)
    BY <2>1, <2>3, <2>4, RetentionAssumption DEF Expired
  <2> QED BY <2>5 DEF b
<1>3. k \in kept
  BY <1>1, <1>2
<1> QED BY <1>3 DEF Retained

(* A sweep deletes what no record of the window names, and only where      *)
(* history is kept at all.                                                 *)
LEMMA SweepKeepsTheWindow ==
  ASSUME RetentionTypeOK, NEW s \in Servers, NEW log \in Seq(Records), NEW stored,
         Sweep(s, log, stored), blobs \subseteq stored,
         Ordered(log) \/ Contradicted(log, wall),
         NEW h \in blobs \ blobs'
  PROVE  /\ historyMode = "full"
         /\ \A k \in DOMAIN log : h \in Names(log[k]) => Expired(log[k], wall)
<1>1. Sweeps(s) /\ h \notin Retained(log, wall)
  BY DEF Sweep
<1>2. ASSUME NEW k \in DOMAIN log, h \in Names(log[k]), ~Expired(log[k], wall) PROVE FALSE
  BY <1>1, <1>2, ScanReachesTheWindow DEF RetentionTypeOK
<1> QED BY <1>1, <1>2 DEF Sweeps

LEMMA StepKeepsTheWindow == RetentionInv /\ [HistoryNext]_retention => [KeepsWindow]_retention
<1> SUFFICES ASSUME RetentionInv, HistoryNext, blobs' # blobs,
                    Ordered(journal') \/ Contradicted(journal', wall)
             PROVE  /\ historyMode = "full"
                    /\ \A h \in blobs \ blobs', k \in DOMAIN journal' :
                         h \in Names(journal'[k]) => Expired(journal'[k], wall)
  BY DEF KeepsWindow, retention
<1>1. RetentionInv' /\ RetentionTypeOK /\ ~refused /\ journal' \in Seq(Records)
  <2>1. RetentionInv'
    BY RetentionNext
  <2> QED BY <2>1 DEF RetentionInv, RetentionTypeOK, NoRecordIsRefused
<1>2. ASSUME NEW s \in Servers, NEW stored, blobs \subseteq stored, Sweep(s, journal', stored),
             stored # blobs => historyMode = "full"
      PROVE  /\ historyMode = "full"
             /\ \A h \in blobs \ blobs', k \in DOMAIN journal' :
                  h \in Names(journal'[k]) => Expired(journal'[k], wall)
  <2>1. historyMode = "full"
    BY <1>2 DEF Sweep, Sweeps
  <2> QED BY <1>1, <1>2, <2>1, SweepKeepsTheWindow
<1>3. ASSUME NEW h \in Hashes
      PROVE  blobs \subseteq Stored(h) /\ (Stored(h) # blobs => historyMode = "full")
  BY DEF Stored
<1>4. ASSUME NEW s \in Servers, NEW n \in Notes, NEW h \in Hashes, Write(s, n, h)
      PROVE  Sweep(s, journal', Stored(bytes[n]))
  <2>1. Accepts(journal, Prepared(n, h))
    BY <1>1, PreparedIsAccepted
  <2> QED BY <1>4, <2>1 DEF Write
<1>5. ASSUME NEW s \in Servers, NEW n \in Notes, NEW h \in Hashes, WriteCut(s, n, h)
      PROVE  blobs' = Stored(bytes[n])
  BY <1>5 DEF WriteCut
<1>6. ASSUME NEW s \in Servers, NEW r \in manifests, Recover(s, r)
      PROVE  Sweep(s, journal', blobs)
  <2>1. r \in Records
    BY <1>1 DEF RetentionTypeOK
  <2>2. Accepts(journal, RestampedPastTail(journal, r))
    BY <1>1, <2>1, RestampedIsAccepted
  <2> QED BY <1>6, <2>2 DEF Recover
<1>7. \A n \in Notes : bytes[n] \in Hashes
  BY <1>1 DEF RetentionTypeOK
<1>8. CASE \E s \in Servers, n \in Notes, h \in Hashes : Write(s, n, h)
  BY <1>8, <1>2, <1>3, <1>4, <1>7
<1>9. CASE \E s \in Servers, n \in Notes, h \in Hashes : WriteCut(s, n, h)
  BY <1>9, <1>3, <1>5, <1>7
<1>10. CASE \E s \in Servers : \E r \in manifests : Recover(s, r)
  BY <1>10, <1>2, <1>6
<1>11. CASE \E s \in Servers : Purge(s)
  BY <1>11, <1>2 DEF Purge
<1>12. CASE Clock \/ SwitchMode
  BY <1>12 DEF Clock, SwitchMode
<1> QED BY <1>8, <1>9, <1>10, <1>11, <1>12 DEF HistoryNext

(* A blob a sweep deletes is one no record inside the retention period     *)
(* names: the early stop of the backward scan loses none of them, unless   *)
(* the disorder of an inherited journal lies wholly outside of it.         *)
THEOREM WindowStays == HistorySpec => WindowIsKept
<1>1. HistoryInit => RetentionInv
  BY RetentionTypeInit DEF RetentionInv, NoRecordIsRefused, HistoryInit
<1> QED BY <1>1, RetentionNext, StepKeepsTheWindow, PTL DEF HistorySpec, WindowIsKept

(* The servers never put the journal out of order themselves, so a vault   *)
(* without an old journal needs no such proviso.                           *)
THEOREM OrderStays == HistorySpec => [][Ordered(journal) => Ordered(journal')]_retention
<1>1. HistoryInit => RetentionInv
  BY RetentionTypeInit DEF RetentionInv, NoRecordIsRefused, HistoryInit
<1>2. ASSUME NEW log \in Seq(Records), NEW r \in Records, Ordered(log), Accepts(log, r)
      PROVE  Ordered(Append(log, r))
  <2> SUFFICES ASSUME NEW k \in 1..Len(log) + 1, NEW m \in 1..Len(log) + 1, k < m
               PROVE  Append(log, r)[k].at <= Append(log, r)[m].at
    BY DEF Ordered
  <2>0. DOMAIN log = 1..Len(log) /\ Len(log) \in Nat
    OBVIOUS
  <2>1. k \in DOMAIN log /\ Append(log, r)[k] = log[k]
    BY <2>0
  <2>2. CASE m \in DOMAIN log
    <3>1. Append(log, r)[m] = log[m]
      BY <2>2, <2>0
    <3>2. log[k].at <= log[m].at
      BY <1>2, <2>1, <2>2 DEF Ordered
    <3> QED BY <2>1, <3>1, <3>2
  <2>3. CASE m = Len(log) + 1
    <3>1. Append(log, r)[m] = r
      BY <2>3
    <3>2. log # <<>> /\ Len(log) \in DOMAIN log
      BY <2>0, <2>1
    <3>3. k < Len(log) => log[k].at <= log[Len(log)].at
      BY <1>2, <2>1, <3>2 DEF Ordered
    <3>4. log[Len(log)].at <= r.at
      <4>1. r.at >= log[Len(log)].at
        BY <1>2, <3>2 DEF Accepts
      <4> HIDE DEF Records
      <4>2. log[Len(log)] \in Records
        BY <3>2, <2>0
      <4>3. log[Len(log)].at \in Nat /\ r.at \in Nat
        BY <4>2 DEF Records
      <4> QED BY <4>1, <4>3
    <3>5. log[k] \in Records /\ log[Len(log)] \in Records
      BY <2>0, <2>1, <3>2
    <3>6. log[k].at \in Nat /\ log[Len(log)].at \in Nat /\ r.at \in Nat
      BY <3>5 DEF Records
    <3>7. log[k].at <= r.at
      <4> DEFINE a == log[k].at  b == log[Len(log)].at  c == r.at
      <4>1. a \in Nat /\ b \in Nat /\ c \in Nat /\ b <= c
        BY <3>4, <3>6
      <4>2. k < Len(log) => a <= b
        BY <3>3
      <4>3. k = Len(log) => a = b
        OBVIOUS
      <4>4. k < Len(log) \/ k = Len(log)
        BY <2>0, <2>1
      <4> HIDE DEF a, b, c
      <4>5. a <= c
        BY <4>1, <4>2, <4>3, <4>4
      <4> QED BY <4>5 DEF a, c
    <3> QED BY <2>1, <3>1, <3>7
  <2> QED BY <2>0, <2>2, <2>3
<1>3. RetentionInv /\ [HistoryNext]_retention => [Ordered(journal) => Ordered(journal')]_retention
  <2> SUFFICES ASSUME RetentionInv, HistoryNext, Ordered(journal) PROVE Ordered(journal')
    BY DEF retention
  <2>1. RetentionTypeOK /\ journal \in Seq(Records)
    BY DEF RetentionInv, RetentionTypeOK
  <2>2. ASSUME NEW s \in Servers, NEW n \in Notes, NEW h \in Hashes, Write(s, n, h)
        PROVE  Ordered(journal')
    <3>1. Prepared(n, h) \in Records /\ Accepts(journal, Prepared(n, h))
      BY <2>1, PreparedIsAccepted
    <3>2. journal' = Append(journal, Prepared(n, h))
      BY <2>2, <3>1 DEF Write
    <3> QED BY <1>2, <2>1, <3>1, <3>2
  <2>3. ASSUME NEW s \in Servers, NEW r \in manifests, Recover(s, r) PROVE Ordered(journal')
    <3>1. r \in Records
      BY <2>1 DEF RetentionTypeOK
    <3>2. /\ RestampedPastTail(journal, r) \in Records
          /\ Accepts(journal, RestampedPastTail(journal, r))
      BY <2>1, <3>1, RestampedIsAccepted
    <3>3. journal' \in {journal, Append(journal, RestampedPastTail(journal, r))}
      BY <2>3, <3>2 DEF Recover
    <3> QED BY <1>2, <2>1, <3>2, <3>3
  <2>4. (\E s \in Servers, n \in Notes, h \in Hashes : WriteCut(s, n, h)) => UNCHANGED journal
    BY DEF WriteCut
  <2>5. (\E s \in Servers : Purge(s)) \/ Clock \/ SwitchMode => UNCHANGED journal
    BY DEF Purge, Clock, SwitchMode
  <2> QED BY <2>2, <2>3, <2>4, <2>5 DEF HistoryNext
<1> QED BY <1>1, <1>3, RetentionNext, PTL DEF HistorySpec

--------------------------------------------------------------------------------
(***************************************************************************)
(* Inbox: the invariant says what the window that holds the lock has       *)
(* established, namely that the operations it took from the journal are    *)
(* all that can have a mark, and that the marks it is about to write are   *)
(* those of the file with its own change.                                  *)
(***************************************************************************)

(* The shapes a request takes on its way. *)
Asking ==
  [step : {"wait", "journal"}, op : Operations, reviewed : BOOLEAN,
   expected : Files \cup {NoHash}, stamp : 0..MaxStamp, again : BOOLEAN]
Reading ==
  [step : {"file"}, op : Operations, reviewed : BOOLEAN, expected : Files \cup {NoHash},
   stamp : 0..MaxStamp, again : BOOLEAN, known : SUBSET Operations]
Writing ==
  [step : {"write"}, op : Operations, reviewed : BOOLEAN, known : SUBSET Operations,
   expected : Files \cup {NoHash}, raw : Files, marks : Marks]
Loading == [step : {"load"}, raw : Files]
Updates == {NoUpdate} \cup Loading \cup Asking \cup Reading \cup Writing

ReviewTypeInv == ReviewTypeOK /\ update \in [Windows -> Updates]

(* Nothing has a mark, or is asked one, that never was in the journal, and *)
(* what the journal lost does not return.                                  *)
Listed == recorded \cup gone

ListedInv ==
  /\ recorded \cap gone = {}
  /\ DOMAIN Parsed(marksFile) \subseteq Listed /\ wanted \subseteq Listed
  /\ \A w \in Windows : update[w].step \notin {"idle", "load"} => update[w].op \in Listed

(* The operations marked once the change is made. *)
ReviewOutcome(u) ==
  IF u.reviewed THEN DOMAIN Parsed(marksFile) \cup {u.op} ELSE DOMAIN Parsed(marksFile) \ {u.op}

(* What is recorded after the window read the journal has no mark, and is  *)
(* not the operation of the window.                                        *)
LockHolder(u) ==
  /\ u.step \in {"file", "write"} =>
       \A o \in recorded \ u.known :
         o # u.op /\ o \notin DOMAIN Parsed(marksFile) /\ o \notin wanted
  /\ u.step = "write" => DOMAIN u.marks = ReviewOutcome(u) \cap u.known

LockHolderInv == \A w \in Windows : LockHolder(update[w])

ReviewInv == ReviewTypeInv /\ ListedInv /\ LockHolderInv /\ MarksFollowLastChange

--------------------------------------------------------------------------------
LEMMA MarksAreFunctions ==
  ASSUME NEW m
  PROVE  m \in Marks <=> DOMAIN m \subseteq Operations /\ m \in [DOMAIN m -> 0..MaxStamp]
<1>1. m \in Marks => DOMAIN m \subseteq Operations /\ m \in [DOMAIN m -> 0..MaxStamp]
  BY DEF Marks
<1>2. DOMAIN m \subseteq Operations /\ m \in [DOMAIN m -> 0..MaxStamp] => m \in Marks
  BY DEF Marks
<1> QED BY <1>1, <1>2

LEMMA ParsedMarks ==
  ASSUME NEW f \in Files
  PROVE  /\ DOMAIN Parsed(f) \subseteq Operations
         /\ \A o \in DOMAIN Parsed(f) : Parsed(f)[o] \in 0..MaxStamp
<1>1. CASE f \in Marks
  BY <1>1, MarksAreFunctions DEF Parsed
<1>2. CASE f \notin Marks
  <2>1. DOMAIN Parsed(f) = {}
    BY <1>2 DEF Parsed
  <2> QED BY <2>1
<1> QED BY <1>1, <1>2

LEMMA NothingParsed == DOMAIN Parsed(NoFile) = {} /\ DOMAIN Parsed(Garbled) = {}
BY ReviewAssumption DEF Parsed

(* What a request leaves to be written. *)
LEMMA PrunedMarks ==
  ASSUME NEW f \in Files, NEW known \in SUBSET Operations,
         NEW u, u.op \in Operations, u.reviewed \in BOOLEAN, u.stamp \in 0..MaxStamp
  PROVE  LET m == Pruned(Changed(Parsed(f), u), known)
         IN /\ m \in Marks
            /\ DOMAIN m = (IF u.reviewed THEN DOMAIN Parsed(f) \cup {u.op}
                           ELSE DOMAIN Parsed(f) \ {u.op}) \cap known
<1> DEFINE D == IF u.reviewed THEN DOMAIN Parsed(f) \cup {u.op} ELSE DOMAIN Parsed(f) \ {u.op}
           c == Changed(Parsed(f), u)
           m == Pruned(c, known)
<1>1. c = [o \in D |-> IF o \in DOMAIN Parsed(f) THEN Parsed(f)[o] ELSE u.stamp]
  BY DEF Changed
<1>2. D \subseteq Operations /\ c \in [D -> 0..MaxStamp]
  BY <1>1, ParsedMarks
<1>3. m = [o \in D \cap known |-> c[o]]
  BY <1>1 DEF Pruned
<1>4. m \in [D \cap known -> 0..MaxStamp] /\ D \cap known \subseteq Operations
  BY <1>2, <1>3
<1> HIDE DEF m
<1>5. m \in Marks /\ DOMAIN m = D \cap known
  BY <1>4, MarksAreFunctions
<1> QED BY <1>5 DEF m

(* What the cap leaves of them. *)
LEMMA BoundedMarks ==
  ASSUME NEW m \in Marks, NEW S \in Bounded(m)
  PROVE  /\ [o \in S |-> m[o]] \in Marks
         /\ S \subseteq DOMAIN m /\ Cardinality(S) <= MaxMarks
<1>1. S \subseteq DOMAIN m
  BY DEF Bounded
<1>2. Cardinality(S) <= MaxMarks
  BY ReviewAssumption DEF Bounded
<1>3. [o \in S |-> m[o]] \in [S -> 0..MaxStamp] /\ S \subseteq Operations
  BY <1>1, MarksAreFunctions
<1>4. [o \in S |-> m[o]] \in Marks
  BY <1>3, MarksAreFunctions
<1> QED BY <1>1, <1>2, <1>4

--------------------------------------------------------------------------------
LEMMA ReviewTypeInit == ReviewInit => ReviewTypeInv
<1> SUFFICES ASSUME ReviewInit PROVE ReviewTypeInv
  OBVIOUS
<1>1. NoFile \in Files /\ 0 \in 0..MaxStamp
  BY ReviewAssumption DEF Files
<1>2. NoUpdate.step = "idle" /\ NoUpdate \in Updates
  BY DEF NoUpdate, Updates
<1> QED BY <1>1, <1>2, ReviewAssumption DEF ReviewInit, ReviewTypeInv, ReviewTypeOK

(* The steps that leave the file, the lock and the requests alone. *)
LEMMA ReviewTypeNext == ReviewTypeInv /\ [ReviewNext]_review => ReviewTypeInv'
<1> SUFFICES ASSUME ReviewTypeInv, ReviewNext PROVE ReviewTypeInv'
  BY DEF review, ReviewTypeInv, ReviewTypeOK
<1> USE DEF ReviewTypeInv, ReviewTypeOK
<1>12. ASSUME NEW w \in Windows, LoadState(w) PROVE ReviewTypeInv'
  <2>1. update'[w] \in Loading /\ update'[w].step = "load"
    BY <1>12 DEF LoadState, Loading
  <2> QED BY <1>12, <2>1, ReviewAssumption DEF LoadState, Updates, NoUpdate
<1>1. ASSUME NEW w \in Windows, LoadPage(w) PROVE ReviewTypeInv'
  <2>1. update[w].raw \in Files
    BY <1>1 DEF LoadPage, Updates, NoUpdate, Loading, Asking, Reading, Writing
  <2>2. window' \in [Windows -> [hash : Files, shown : SUBSET Operations]]
    BY <1>1, <2>1, ParsedMarks DEF LoadPage
  <2> QED BY <1>1, <2>2, ReviewAssumption DEF LoadPage, Updates, NoUpdate
<1>2. ASSUME NEW w \in Windows, Toggle(w) PROVE ReviewTypeInv'
  <2>1. PICK o \in recorded, expected \in {window[w].hash, NoHash} :
          update' = [update EXCEPT ![w] =
            [step |-> "wait", op |-> o, reviewed |-> o \notin window[w].shown,
             expected |-> expected, stamp |-> now, again |-> FALSE]]
    BY <1>2 DEF Toggle
  <2>2. update'[w] \in Asking /\ update'[w].step = "wait"
    BY <2>1 DEF Asking
  <2> QED BY <1>2, <2>1, <2>2 DEF Toggle, Updates
<1>3. ASSUME NEW w \in Windows, Lock(w) PROVE ReviewTypeInv'
  <2>1. update[w] \in Asking
    BY <1>3 DEF Lock, Updates, NoUpdate, Loading, Reading, Writing
  <2>2. [update[w] EXCEPT !.step = "journal"] \in Asking
    BY <2>1 DEF Asking
  <2>3. update' = [update EXCEPT ![w] = [update[w] EXCEPT !.step = "journal"]]
    BY <1>3 DEF Lock
  <2>4. update'[w].step = "journal"
    BY <2>1, <2>3 DEF Asking
  <2> QED BY <1>3, <2>2, <2>3, <2>4, ReviewAssumption DEF Lock, LockFree, Updates
<1>4. ASSUME NEW w \in Windows, Busy(w) PROVE ReviewTypeInv'
  BY <1>4 DEF Busy, Updates, NoUpdate
<1>5. ASSUME NEW w \in Windows, ReadJournal(w) PROVE ReviewTypeInv'
  <2>1. update[w] \in Asking
    BY <1>5 DEF ReadJournal, Updates, NoUpdate, Loading, Reading, Writing
  <2>2. update'[w] \in Reading /\ update'[w].step = "file"
    BY <1>5, <2>1 DEF ReadJournal, Asking, Reading
  <2> QED BY <1>5, <2>2 DEF ReadJournal, Updates
<1>6. ASSUME NEW w \in Windows, ReadFile(w) PROVE ReviewTypeInv'
  <2> DEFINE u == update[w]
  <2>1. u \in Reading
    BY <1>6 DEF ReadFile, Updates, NoUpdate, Loading, Asking, Writing
  <2>2. CASE Conflict(u)
    <3> DEFINE retry == [step |-> "wait", op |-> u.op, reviewed |-> u.reviewed,
                         expected |-> marksFile, stamp |-> now, again |-> TRUE]
    <3>3. retry \in Asking /\ retry.step = "wait"
      BY <2>1 DEF Asking, Reading
    <3>4. update' = [update EXCEPT ![w] = IF u.again THEN NoUpdate ELSE retry]
      BY <1>6, <2>2 DEF ReadFile
    <3>1. update'[w] \in {NoUpdate} \cup Asking /\ update'[w].step \in {"idle", "wait"}
      <4> HIDE DEF retry, u
      <4> QED BY <3>3, <3>4 DEF NoUpdate
    <3>2. reviewLock' = NoWindow /\ reviewLock = w
      BY <1>6, <2>2 DEF ReadFile
    <3> QED BY <1>6, <2>2, <3>1, <3>2, ReviewAssumption DEF ReadFile, Updates
  <2>3. CASE ~Conflict(u)
    <3>1. Pruned(Changed(Parsed(marksFile), u), u.known) \in Marks
      BY <2>1, PrunedMarks DEF Reading
    <3>2. update'[w] \in Writing /\ update'[w].step = "write"
      BY <1>6, <2>1, <2>3, <3>1 DEF ReadFile, Reading, Writing
    <3> QED BY <1>6, <2>3, <3>2 DEF ReadFile, Updates
  <2> QED BY <2>2, <2>3
<1>7. ASSUME NEW w \in Windows, Replace(w) PROVE ReviewTypeInv'
  <2> DEFINE u == update[w]
  <2>1. u \in Writing /\ reviewLock = w
    BY <1>7 DEF Replace, Updates, NoUpdate, Loading, Asking, Reading
  <2>2. PICK S \in Bounded(u.marks) :
          /\ marksFile' = [o \in S |-> u.marks[o]]
          /\ overfull' = (overfull \/ S # DOMAIN u.marks)
          /\ window' = [window EXCEPT ![w] =
               [hash |-> marksFile',
                shown |-> IF u.op \in S THEN @.shown \cup {u.op} ELSE @.shown \ {u.op}]]
    BY <1>7 DEF Replace
  <2>3. marksFile' \in Marks /\ DOMAIN marksFile' = S /\ Cardinality(S) <= MaxMarks
    BY <2>1, <2>2, BoundedMarks DEF Writing
  <2>4. marksFile' \in Files
    BY <2>3 DEF Files
  <2>5. window' \in [Windows -> [hash : Files, shown : SUBSET Operations]]
    BY <2>1, <2>2, <2>4 DEF Writing
  <2>6. wanted' \subseteq Operations
    BY <1>7, <2>1 DEF Replace, Writing
  <2>7. update' \in [Windows -> Updates] /\ update'[w].step = "idle"
    BY <1>7 DEF Replace, Updates, NoUpdate
  <2> QED BY <1>7, <2>1, <2>2, <2>3, <2>4, <2>5, <2>6, <2>7, ReviewAssumption DEF Replace
<1>8. CASE Record
  BY <1>8 DEF Record
<1>9. CASE RestoreJournal
  BY <1>9 DEF RestoreJournal
<1>10. CASE Garble
  BY <1>10, ReviewAssumption DEF Garble, Files
<1>11. CASE Tick
  BY <1>11 DEF Tick
<1> QED BY <1>1, <1>12, <1>2, <1>3, <1>4, <1>5, <1>6, <1>7, <1>8, <1>9, <1>10, <1>11 DEF ReviewNext

--------------------------------------------------------------------------------
LEMMA ReviewInvInit == ReviewInit => ReviewInv
<1> SUFFICES ASSUME ReviewInit PROVE ReviewInv
  OBVIOUS
<1>1. DOMAIN Parsed(marksFile) = {}
  BY NothingParsed DEF ReviewInit
<1>2. ListedInv
  BY <1>1 DEF ReviewInit, ListedInv, Listed, NoUpdate
<1>3. LockHolderInv
  BY DEF ReviewInit, LockHolderInv, LockHolder, NoUpdate
<1>4. MarksFollowLastChange
  BY <1>1 DEF ReviewInit, MarksFollowLastChange
<1> QED BY <1>2, <1>3, <1>4, ReviewTypeInit DEF ReviewInv

(* A request that is elsewhere keeps what it established: the file and the *)
(* journal it read hold still for it, or others only add to the journal.   *)
LEMMA OthersWait ==
  ASSUME ReviewTypeInv, NEW w \in Windows, NEW v \in Windows, v # w,
         reviewLock = w
  PROVE  update[v].step \notin {"file", "write"}
BY DEF ReviewTypeInv, ReviewTypeOK

LEMMA ReviewInvNext == ReviewInv /\ [ReviewNext]_review => ReviewInv'
<1> SUFFICES ASSUME ReviewInv, ReviewNext
             PROVE  (ListedInv /\ LockHolderInv /\ MarksFollowLastChange)'
  <2>1. CASE UNCHANGED review
    BY <2>1 DEF ReviewInv, review, ReviewTypeInv, ReviewTypeOK, ListedInv, Listed, LockHolderInv,
        LockHolder,
                ReviewOutcome, MarksFollowLastChange
  <2>2. ReviewTypeInv /\ [ReviewNext]_review => ReviewTypeInv'
    BY ReviewTypeNext
  <2> QED BY <2>1, <2>2 DEF ReviewInv
<1>0. ReviewTypeInv /\ ListedInv /\ LockHolderInv /\ MarksFollowLastChange
  BY DEF ReviewInv
<1>20. update \in [Windows -> Updates]
  BY <1>0 DEF ReviewTypeInv
<1>1. ASSUME NEW w \in Windows, LoadState(w) \/ LoadPage(w)
      PROVE  (ListedInv /\ LockHolderInv /\ MarksFollowLastChange)'
  <2>1. /\ \A v \in Windows \ {w} : update'[v] = update[v]
        /\ update'[w].step \in {"idle", "load"}
    BY <1>1, <1>20 DEF LoadState, LoadPage, NoUpdate
  <2>2. UNCHANGED <<recorded, gone, marksFile, wanted, overfull>>
    BY <1>1 DEF LoadState, LoadPage
  <2> QED BY <1>0, <2>1, <2>2
    DEF ListedInv, Listed, LockHolderInv, LockHolder, ReviewOutcome, MarksFollowLastChange
<1>2. ASSUME NEW w \in Windows, Toggle(w)
      PROVE  (ListedInv /\ LockHolderInv /\ MarksFollowLastChange)'
  <2>1. \A v \in Windows \ {w} : update'[v] = update[v]
    BY <1>2, <1>20 DEF Toggle
  <2>2. update'[w].step = "wait" /\ update'[w].op \in recorded
    BY <1>2, <1>20 DEF Toggle
  <2>3. UNCHANGED <<recorded, gone, marksFile, wanted, overfull>>
    BY <1>2 DEF Toggle
  <2> QED BY <1>0, <2>1, <2>2, <2>3
    DEF ListedInv, Listed, LockHolderInv, LockHolder, ReviewOutcome, MarksFollowLastChange
<1>3. ASSUME NEW w \in Windows, Lock(w) PROVE (ListedInv /\ LockHolderInv /\ MarksFollowLastChange)'
  <2>1. \A v \in Windows \ {w} : update'[v] = update[v]
    BY <1>3, <1>20 DEF Lock
  <2>2. update[w] \in Asking
    BY <1>3, <1>20 DEF Lock, Updates, NoUpdate, Loading, Reading, Writing
  <2>3. update'[w].step = "journal" /\ update'[w].op = update[w].op /\ update[w].step = "wait"
    BY <1>3, <1>20, <2>2 DEF Lock, Asking
  <2>4. UNCHANGED <<recorded, gone, marksFile, wanted, overfull>>
    BY <1>3 DEF Lock
  <2> QED BY <1>0, <2>1, <2>3, <2>4
    DEF ListedInv, Listed, LockHolderInv, LockHolder, ReviewOutcome, MarksFollowLastChange
<1>4. ASSUME NEW w \in Windows, Busy(w) PROVE (ListedInv /\ LockHolderInv /\ MarksFollowLastChange)'
  <2>1. \A v \in Windows \ {w} : update'[v] = update[v]
    BY <1>4, <1>20 DEF Busy
  <2>2. update'[w].step = "idle"
    BY <1>4, <1>20 DEF Busy, NoUpdate
  <2>3. UNCHANGED <<recorded, gone, marksFile, wanted, overfull>>
    BY <1>4 DEF Busy
  <2> QED BY <1>0, <2>1, <2>2, <2>3
    DEF ListedInv, Listed, LockHolderInv, LockHolder, ReviewOutcome, MarksFollowLastChange
<1>5. ASSUME NEW w \in Windows, ReadJournal(w)
      PROVE  (ListedInv /\ LockHolderInv /\ MarksFollowLastChange)'
  <2>1. \A v \in Windows \ {w} : update'[v] = update[v]
    BY <1>5, <1>20 DEF ReadJournal
  <2>2. /\ update'[w].step = "file" /\ update'[w].op = update[w].op
        /\ update'[w].known = recorded /\ update[w].step \notin {"idle", "load"}
    BY <1>5, <1>20 DEF ReadJournal
  <2>3. UNCHANGED <<recorded, gone, marksFile, wanted, overfull>>
    BY <1>5 DEF ReadJournal
  <2> QED BY <1>0, <2>1, <2>2, <2>3
    DEF ListedInv, Listed, LockHolderInv, LockHolder, ReviewOutcome, MarksFollowLastChange
<1>6. ASSUME NEW w \in Windows, ReadFile(w)
      PROVE  (ListedInv /\ LockHolderInv /\ MarksFollowLastChange)'
  <2> DEFINE u == update[w]
  <2>1. \A v \in Windows \ {w} : update'[v] = update[v]
    BY <1>6, <1>20 DEF ReadFile
  <2>2. UNCHANGED <<recorded, gone, marksFile, wanted, overfull>>
    BY <1>6 DEF ReadFile
  <2>3. u \in Reading
    BY <1>6, <1>20 DEF ReadFile, Updates, NoUpdate, Loading, Asking, Writing
  <2>4. CASE Conflict(u)
    <3>1. \/ update'[w].step = "idle"
          \/ update'[w].step = "wait" /\ update'[w].op = u.op
      BY <1>6, <1>20, <2>4 DEF ReadFile, NoUpdate
    <3>2. u.step = "file"
      BY <1>6 DEF ReadFile
    <3> QED BY <1>0, <2>1, <2>2, <3>1, <3>2
      DEF ListedInv, Listed, LockHolderInv, LockHolder, ReviewOutcome, MarksFollowLastChange
  <2>5. CASE ~Conflict(u)
    <3>1. /\ update'[w].step = "write" /\ update'[w].op = u.op
          /\ update'[w].known = u.known /\ update'[w].reviewed = u.reviewed
          /\ update'[w].marks = Pruned(Changed(Parsed(marksFile), u), u.known)
      BY <1>6, <1>20, <2>5 DEF ReadFile
    <3>2. DOMAIN update'[w].marks = ReviewOutcome(u) \cap u.known
      <4>1. marksFile \in Files
        BY <1>0 DEF ReviewTypeInv, ReviewTypeOK
      <4>2. /\ u.known \in SUBSET Operations /\ u.op \in Operations
            /\ u.reviewed \in BOOLEAN /\ u.stamp \in 0..MaxStamp
        BY <2>3 DEF Reading
      <4> HIDE DEF u
      <4>3. DOMAIN Pruned(Changed(Parsed(marksFile), u), u.known) =
              (IF u.reviewed THEN DOMAIN Parsed(marksFile) \cup {u.op}
               ELSE DOMAIN Parsed(marksFile) \ {u.op}) \cap u.known
        BY <4>1, <4>2, PrunedMarks
      <4> QED BY <3>1, <4>3 DEF ReviewOutcome
    <3>3. u.step = "file"
      BY <1>6 DEF ReadFile
    <3>4. LockHolder(update[w])' /\ (update[w].step \notin {"idle", "load"} => update[w].op \in Listed)'
      BY <1>0, <2>2, <3>1, <3>2, <3>3 DEF LockHolder, ReviewOutcome, LockHolderInv, ListedInv,
          Listed
    <3> QED BY <1>0, <2>1, <2>2, <3>4
      DEF ListedInv, Listed, LockHolderInv, LockHolder, ReviewOutcome, MarksFollowLastChange
  <2> QED BY <2>4, <2>5
<1>7. ASSUME NEW w \in Windows, Replace(w)
      PROVE  (ListedInv /\ LockHolderInv /\ MarksFollowLastChange)'
  <2> DEFINE u == update[w]
  <2>1. \A v \in Windows \ {w} : update'[v] = update[v]
    BY <1>7, <1>20 DEF Replace
  <2>2. update'[w].step = "idle"
    BY <1>7, <1>20 DEF Replace, NoUpdate
  <2>3. u \in Writing /\ reviewLock = w
    BY <1>0, <1>7, <1>20 DEF Replace, Updates, NoUpdate, Loading, Asking, Reading, ReviewTypeInv,
        ReviewTypeOK
  <2>4. PICK S \in Bounded(u.marks) :
          /\ marksFile' = [o \in S |-> u.marks[o]]
          /\ overfull' = (overfull \/ S # DOMAIN u.marks)
    BY <1>7 DEF Replace
  <2>5. marksFile' \in Marks /\ DOMAIN marksFile' = S /\ S \subseteq DOMAIN u.marks
    BY <2>3, <2>4, BoundedMarks DEF Writing
  <2>6. DOMAIN Parsed(marksFile') = S
    BY <2>5 DEF Parsed
  <2>7. /\ recorded' = recorded /\ gone' = gone
        /\ wanted' = IF u.reviewed THEN wanted \cup {u.op} ELSE wanted \ {u.op}
    BY <1>7 DEF Replace
  <2>8. /\ DOMAIN u.marks = ReviewOutcome(u) \cap u.known /\ u.op \in Listed
        /\ \A o \in recorded \ u.known : o # u.op /\ o \notin wanted
    BY <1>0, <1>7 DEF Replace, LockHolderInv, LockHolder, ListedInv
  <2>9. DOMAIN Parsed(marksFile') \subseteq Listed /\ wanted' \subseteq Listed
    BY <1>0, <2>5, <2>6, <2>7, <2>8 DEF ReviewOutcome, ListedInv
  <2>10. ListedInv'
    BY <1>0, <2>1, <2>2, <2>7, <2>9 DEF ListedInv, Listed
  <2>11. \A v \in Windows : update'[v].step \notin {"file", "write"}
    BY <1>0, <2>1, <2>2, <2>3, OthersWait
  <2>12. MarksFollowLastChange'
    <3> SUFFICES ASSUME ~overfull', NEW o \in recorded
                 PROVE  o \in DOMAIN Parsed(marksFile') <=> o \in wanted'
      BY <2>7 DEF MarksFollowLastChange
    <3>1. ~overfull /\ S = DOMAIN u.marks
      BY <2>4
    <3>2. o \in DOMAIN Parsed(marksFile) <=> o \in wanted
      BY <1>0, <3>1 DEF MarksFollowLastChange
    <3>3. CASE o \in u.known
      BY <2>6, <2>7, <2>8, <3>1, <3>2, <3>3 DEF ReviewOutcome
    <3>4. CASE o \notin u.known
      BY <2>6, <2>7, <2>8, <3>1, <3>4
    <3> QED BY <3>3, <3>4
  <2> QED BY <2>10, <2>11, <2>12 DEF LockHolderInv, LockHolder
<1>8. CASE Record
  <2>1. PICK o \in Operations \ Listed : recorded' = recorded \cup {o}
    BY <1>8 DEF Record, Listed
  <2>2. UNCHANGED <<gone, marksFile, update, wanted, overfull>>
    BY <1>8 DEF Record
  <2>3. o \notin DOMAIN Parsed(marksFile) /\ o \notin wanted
    BY <1>0, <2>1 DEF ListedInv
  <2>4. ListedInv'
    BY <1>0, <2>1, <2>2 DEF ListedInv, Listed
  <2>5. \A w \in Windows : update[w].step \notin {"idle", "load"} => update[w].op # o
    BY <1>0, <2>1 DEF ListedInv
  <2>6. LockHolderInv'
    BY <1>0, <2>1, <2>2, <2>3, <2>5 DEF LockHolderInv, LockHolder, ReviewOutcome
  <2> QED BY <1>0, <2>1, <2>2, <2>3, <2>4, <2>6 DEF MarksFollowLastChange
<1>9. CASE RestoreJournal
  <2>1. /\ recorded' \subseteq recorded /\ gone' = gone \cup (recorded \ recorded')
        /\ UNCHANGED <<marksFile, update, wanted, overfull>>
    BY <1>9 DEF RestoreJournal
  <2>2. ListedInv'
    BY <1>0, <2>1 DEF ListedInv, Listed
  <2>3. LockHolderInv'
    BY <1>0, <2>1 DEF LockHolderInv, LockHolder, ReviewOutcome
  <2> QED BY <1>0, <2>1, <2>2, <2>3 DEF MarksFollowLastChange
<1>10. CASE Garble
  <2>1. DOMAIN Parsed(marksFile') = {} /\ wanted' = {}
    BY <1>10, NothingParsed DEF Garble
  <2>2. UNCHANGED <<recorded, gone, update>> /\ reviewLock = NoWindow
    BY <1>10 DEF Garble
  <2>3. \A w \in Windows : update[w].step \notin {"file", "write"}
    BY <1>0, <2>2, ReviewAssumption DEF ReviewTypeInv, ReviewTypeOK
  <2>4. ListedInv' /\ MarksFollowLastChange'
    BY <1>0, <2>1, <2>2 DEF ListedInv, Listed, MarksFollowLastChange
  <2>5. LockHolderInv'
    BY <2>2, <2>3 DEF LockHolderInv, LockHolder
  <2> QED BY <2>4, <2>5
<1>11. CASE Tick
  BY <1>0, <1>11 DEF Tick, ListedInv, Listed, LockHolderInv, LockHolder, ReviewOutcome,
      MarksFollowLastChange
<1> QED BY <1>1, <1>2, <1>3, <1>4, <1>5, <1>6, <1>7, <1>8, <1>9, <1>10, <1>11 DEF ReviewNext

(* Every variable of the inbox keeps its type, and a mark file never grows *)
(* beyond the cap.                                                         *)
THEOREM ReviewTypes == ReviewSpec => []ReviewTypeOK
<1>1. ReviewTypeInv => ReviewTypeOK
  BY DEF ReviewTypeInv
<1> QED BY <1>1, ReviewTypeInit, ReviewTypeNext, PTL DEF ReviewSpec

(* However many windows toggle marks at once, a recorded operation is      *)
(* marked exactly when the last change of its mark that took effect says   *)
(* so, until the cap drops a mark.                                         *)
THEOREM MarksAreMerged == ReviewSpec => []MarksFollowLastChange
<1>1. ReviewInv => MarksFollowLastChange
  BY DEF ReviewInv
<1> QED BY <1>1, ReviewInvInit, ReviewInvNext, PTL DEF ReviewSpec

--------------------------------------------------------------------------------
(***************************************************************************)
(* Rebuild: two readings of every note are compared.  The invariant        *)
(* follows each of them: a note nobody edited since the walk began is      *)
(* still to be read, or was read as it is.                                 *)
(***************************************************************************)

(* What a rebuild holds while it builds, and once it compares. *)
Building ==
  [step : {"build"}, temp : IndexRows, prev : Nat, generation : Nat,
   todo : SUBSET Places, checked : SUBSET Places]
Comparing ==
  [step : {"check", "guard", "swap"}, temp : IndexRows, prev : Nat, generation : Nat,
   todo : SUBSET Places, seen : IndexRows]

RebuildTypeInv ==
  /\ vault \in [Places -> PlaceContents]
  /\ liveIndex \in [rows : IndexRows, generation : Nat]
  /\ hotJournal \in BOOLEAN /\ touched \subseteq Places /\ late \subseteq touched
  /\ rebuild \in {NoRebuild, [step |-> "refused"]} \cup Building \cup Comparing

ReadSoFar(rows, since) == \A f \in Places \ since : f \in rebuild.todo \/ rows[f] = Row(f)

BuildInv ==
  rebuild.step = "build" =>
    /\ rebuild.prev = liveIndex.generation /\ rebuild.generation = rebuild.prev
    /\ ReadSoFar(rebuild.temp, touched)
    /\ touched = {} => rebuild.checked = Walk

(* A vault of which the code promises that a quiet rebuild succeeds. *)
Promised == (\E f \in Places : vault[f] \in Versions) \/ Walk = {}

CompareInv ==
  rebuild.step \in {"check", "guard", "swap"} =>
    /\ rebuild.prev = liveIndex.generation
    /\ ReadSoFar(rebuild.seen, late)
    /\ touched = {} => /\ \A f \in Places : rebuild.temp[f] = Row(f)
                       /\ Promised => rebuild.generation = rebuild.prev + 1
    /\ rebuild.step \in {"guard", "swap"} => Valid /\ rebuild.todo = {}

RebuildInv == RebuildTypeInv /\ BuildInv /\ CompareInv /\ QuietRebuildPublishes

--------------------------------------------------------------------------------
LEMMA RowIsRow == ASSUME NEW f \in Places PROVE Row(f) \in Versions \cup {NoNote}
BY DEF Row

LEMMA RebuildInvInit == RebuildInit => RebuildInv
<1> SUFFICES ASSUME RebuildInit PROVE RebuildInv
  OBVIOUS
<1>1. liveIndex \in [rows : IndexRows, generation : Nat]
  BY RebuildAssumption DEF RebuildInit
<1>2. rebuild.step = "idle"
  BY DEF RebuildInit, NoRebuild
<1> QED BY <1>1, <1>2 DEF RebuildInit, RebuildInv, RebuildTypeInv, BuildInv, CompareInv,
     QuietRebuildPublishes, Undisturbed

(* The steps on the way: which shape the rebuild has says what it holds.   *)
LEMMA RebuildShapes ==
  ASSUME RebuildTypeInv
  PROVE  /\ rebuild.step = "build" <=> rebuild \in Building
         /\ rebuild.step \in {"check", "guard", "swap"} <=> rebuild \in Comparing
BY DEF RebuildTypeInv, NoRebuild, Building, Comparing

LEMMA RebuildInvNext == RebuildInv /\ [RebuildNext]_rebuildVars => RebuildInv'
<1> SUFFICES ASSUME RebuildInv, [RebuildNext]_rebuildVars PROVE RebuildInv'
  OBVIOUS
<1>0. RebuildTypeInv /\ BuildInv /\ CompareInv /\ QuietRebuildPublishes
  BY DEF RebuildInv
<1> USE DEF RebuildInv
<1>1. CASE BeginRebuild
  <2>1. UNCHANGED <<vault, liveIndex, hotJournal>> /\ touched' = {} /\ late' = {}
    BY <1>1 DEF BeginRebuild
  <2>2. CASE hotJournal
    <3>1. rebuild' = NoRebuild
      BY <1>1, <2>2 DEF BeginRebuild
    <3> QED BY <1>0, <2>1, <3>1 DEF RebuildTypeInv, BuildInv, CompareInv, QuietRebuildPublishes,
              Undisturbed, NoRebuild
  <2>3. CASE ~hotJournal
    <3>1. rebuild' = [step |-> "build", temp |-> EmptyIndex, prev |-> liveIndex.generation,
                      generation |-> liveIndex.generation, todo |-> Walk, checked |-> Walk]
      BY <1>1, <2>3 DEF BeginRebuild
    <3>2. EmptyIndex \in IndexRows /\ Walk \subseteq Places /\ Walk' = Walk
      BY <2>1 DEF EmptyIndex, IndexRows, Walk
    <3>3. rebuild' \in Building /\ rebuild'.step = "build"
      BY <1>0, <3>1, <3>2 DEF Building, RebuildTypeInv
    <3>4. RebuildTypeInv'
      BY <1>0, <2>1, <3>3 DEF RebuildTypeInv
    <3>5. ReadSoFar(rebuild.temp, touched)'
      BY <1>0, <2>1, <3>1 DEF ReadSoFar, Walk, Row, EmptyIndex
    <3>6. BuildInv'
      BY <2>1, <3>1, <3>2, <3>5 DEF BuildInv
    <3> QED BY <3>3, <3>4, <3>6 DEF CompareInv, QuietRebuildPublishes, Undisturbed
  <2> QED BY <2>2, <2>3
<1>2. CASE BuildNote
  <2>1. UNCHANGED <<vault, liveIndex, hotJournal>> /\ rebuild.step = "build"
    BY <1>2 DEF BuildNote
  <2>2. rebuild \in Building
    BY <1>0, <2>1, RebuildShapes
  <2>3. PICK f \in rebuild.todo :
          \/ /\ rebuild' = [rebuild EXCEPT !.temp[f] = Row(f), !.todo = @ \ {f}]
             /\ UNCHANGED <<touches, touched, late>>
          \/ rebuild' = [rebuild EXCEPT !.todo = @ \ {f}] /\ CannotRead(f)
    BY <1>2 DEF BuildNote
  <2>4. /\ rebuild' \in Building /\ rebuild'.step = "build"
        /\ \A g \in Places \ {f} : rebuild'.temp[g] = rebuild.temp[g]
        /\ rebuild'.temp[f] = Row(f) \/ f \in touched'
        /\ rebuild'.todo = rebuild.todo \ {f}
        /\ rebuild'.prev = rebuild.prev /\ rebuild'.generation = rebuild.generation
        /\ rebuild'.checked = rebuild.checked
        /\ touched' \in {touched, touched \cup {f}} /\ late' \in {late, late \cup {f}}
        /\ late' \subseteq touched'
    <3>1. CASE /\ rebuild' = [rebuild EXCEPT !.temp[f] = Row(f), !.todo = @ \ {f}]
               /\ UNCHANGED <<touches, touched, late>>
      BY <1>0, <2>2, <3>1, RowIsRow DEF Building, IndexRows, RebuildTypeInv
    <3>2. CASE rebuild' = [rebuild EXCEPT !.todo = @ \ {f}] /\ CannotRead(f)
      BY <1>0, <2>2, <3>2 DEF Building, IndexRows, CannotRead, RebuildTypeInv
    <3> QED BY <2>3, <3>1, <3>2
  <2>5. RebuildTypeInv'
    BY <1>0, <2>1, <2>2, <2>4 DEF RebuildTypeInv, Building
  <2>6. ReadSoFar(rebuild.temp, touched)'
    BY <1>0, <2>1, <2>2, <2>4 DEF BuildInv, ReadSoFar, Row, Building, IndexRows
  <2>7. BuildInv'
    BY <1>0, <2>1, <2>4, <2>6 DEF BuildInv, Walk
  <2> QED BY <2>4, <2>5, <2>7 DEF CompareInv, QuietRebuildPublishes, Undisturbed
<1>3. CASE Built
  <2>1. /\ UNCHANGED <<vault, liveIndex, hotJournal, touched>> /\ rebuild.step = "build"
        /\ late' = {} /\ rebuild.todo = {}
    BY <1>3 DEF Built
  <2>2. rebuild \in Building
    BY <1>0, <2>1, RebuildShapes
  <2>3. rebuild' = [step |-> "check", temp |-> rebuild.temp, prev |-> rebuild.prev,
                    generation |-> Advanced, todo |-> Walk, seen |-> EmptyIndex]
    BY <1>3 DEF Built
  <2>4. Advanced \in Nat /\ EmptyIndex \in IndexRows /\ Walk \subseteq Places
    BY <2>2 DEF Advanced, EmptyIndex, IndexRows, Walk, Building
  <2>5. rebuild' \in Comparing /\ rebuild'.step = "check"
    BY <2>2, <2>3, <2>4 DEF Building, Comparing
  <2>6. RebuildTypeInv'
    BY <1>0, <2>1, <2>5 DEF RebuildTypeInv
  <2>7. ReadSoFar(rebuild.seen, late)'
    BY <2>1, <2>3 DEF ReadSoFar, Walk, Row, EmptyIndex
  <2>8. touched = {} => \A f \in Places : rebuild.temp[f] = Row(f)
    BY <1>0, <2>1 DEF BuildInv, ReadSoFar
  <2>9. touched = {} /\ Promised => Advanced = rebuild.prev + 1
    <3> SUFFICES ASSUME touched = {}, Promised PROVE Advanced = rebuild.prev + 1
      OBVIOUS
    <3>1. rebuild.generation = rebuild.prev /\ rebuild.checked = Walk
      BY <1>0, <2>1 DEF BuildInv
    <3>2. CASE Walk = {}
      BY <3>1, <3>2 DEF Advanced
    <3>3. CASE \E f \in Places : vault[f] \in Versions
      <4>1. PICK f \in Places : vault[f] \in Versions
        BY <3>3
      <4>2. rebuild.temp[f] # NoNote
        BY <2>8, <4>1, RebuildAssumption DEF Row
      <4>3. rebuild.temp # EmptyIndex
        BY <4>2 DEF EmptyIndex
      <4> QED BY <3>1, <4>3 DEF Advanced
    <3> QED BY <3>2, <3>3 DEF Promised
  <2>10. CompareInv'
    <3>1. Promised' = Promised /\ \A f \in Places : Row(f)' = Row(f)
      BY <2>1 DEF Promised, Row, Walk
    <3>2. rebuild.prev = liveIndex.generation
      BY <1>0, <2>1 DEF BuildInv
    <3> QED BY <2>1, <2>3, <2>7, <2>8, <2>9, <3>1, <3>2 DEF CompareInv
  <2> QED BY <2>5, <2>6, <2>10 DEF BuildInv, QuietRebuildPublishes, Undisturbed
<1>4. CASE CheckNote
  <2>1. UNCHANGED <<vault, liveIndex, hotJournal>> /\ rebuild.step = "check"
    BY <1>4 DEF CheckNote
  <2>2. rebuild \in Comparing
    BY <1>0, <2>1, RebuildShapes
  <2>3. PICK f \in rebuild.todo :
          \/ /\ rebuild' = [rebuild EXCEPT !.seen[f] = Row(f), !.todo = @ \ {f}]
             /\ UNCHANGED <<touches, touched, late>>
          \/ rebuild' = [rebuild EXCEPT !.todo = @ \ {f}] /\ CannotRead(f)
    BY <1>4 DEF CheckNote
  <2>4. /\ rebuild' \in Comparing /\ rebuild'.step = "check"
        /\ \A g \in Places \ {f} : rebuild'.seen[g] = rebuild.seen[g]
        /\ rebuild'.seen[f] = Row(f) \/ f \in late'
        /\ rebuild'.todo = rebuild.todo \ {f} /\ rebuild'.temp = rebuild.temp
        /\ rebuild'.prev = rebuild.prev /\ rebuild'.generation = rebuild.generation
        /\ touched' \in {touched, touched \cup {f}} /\ late' \in {late, late \cup {f}}
        /\ late' \subseteq touched'
    <3>1. CASE /\ rebuild' = [rebuild EXCEPT !.seen[f] = Row(f), !.todo = @ \ {f}]
               /\ UNCHANGED <<touches, touched, late>>
      BY <1>0, <2>1, <2>2, <3>1, RowIsRow DEF Comparing, IndexRows, RebuildTypeInv
    <3>2. CASE rebuild' = [rebuild EXCEPT !.todo = @ \ {f}] /\ CannotRead(f)
      BY <1>0, <2>1, <2>2, <3>2 DEF Comparing, IndexRows, CannotRead, RebuildTypeInv
    <3> QED BY <2>3, <3>1, <3>2
  <2>5. RebuildTypeInv'
    BY <1>0, <2>1, <2>2, <2>4 DEF RebuildTypeInv, Comparing
  <2>6. ReadSoFar(rebuild.seen, late)'
    BY <1>0, <2>1, <2>2, <2>4 DEF CompareInv, ReadSoFar, Row, Comparing, IndexRows
  <2>7. CompareInv'
    BY <1>0, <2>1, <2>4, <2>6 DEF CompareInv, Row, Promised, Walk
  <2> QED BY <2>4, <2>5, <2>7 DEF BuildInv, QuietRebuildPublishes, Undisturbed
<1>5. CASE Checked
  <2>1. /\ UNCHANGED <<vault, liveIndex, hotJournal, touched, late>>
        /\ rebuild.step = "check" /\ rebuild.todo = {}
    BY <1>5 DEF Checked
  <2>2. rebuild \in Comparing
    BY <1>0, <2>1, RebuildShapes
  <2>3. CASE Valid
    <3>1. rebuild' = [rebuild EXCEPT !.step = "guard"]
      BY <1>5, <2>3 DEF Checked
    <3>2. /\ rebuild' \in Comparing /\ rebuild'.step = "guard"
          /\ rebuild'.seen = rebuild.seen /\ rebuild'.todo = rebuild.todo
          /\ rebuild'.temp = rebuild.temp /\ rebuild'.prev = rebuild.prev
          /\ rebuild'.generation = rebuild.generation
      BY <2>2, <3>1 DEF Comparing
    <3>3. RebuildTypeInv'
      BY <1>0, <2>1, <3>2 DEF RebuildTypeInv
    <3>4. CompareInv'
      BY <1>0, <2>1, <2>3, <3>2 DEF CompareInv, Row, Promised, Walk, ReadSoFar, Valid
    <3> QED BY <3>2, <3>3, <3>4 DEF BuildInv, QuietRebuildPublishes, Undisturbed
  <2>4. CASE ~Valid
    <3>1. rebuild' = [step |-> "refused"]
      BY <1>5, <2>4 DEF Checked
    <3>2. touched = {} => ~Promised
      <4> SUFFICES ASSUME touched = {}, Promised PROVE FALSE
        OBVIOUS
      <4>1. \A f \in Places : rebuild.temp[f] = Row(f) /\ rebuild.seen[f] = Row(f)
        BY <1>0, <2>1 DEF CompareInv, ReadSoFar, RebuildTypeInv
      <4>2. rebuild.temp \in IndexRows /\ rebuild.seen \in IndexRows
        BY <2>2 DEF Comparing
      <4>3. rebuild.temp = rebuild.seen
        BY <4>1, <4>2 DEF IndexRows
      <4>4. rebuild.generation = rebuild.prev + 1
        BY <1>0, <2>1 DEF CompareInv
      <4> QED BY <2>4, <4>3, <4>4 DEF Valid
    <3>3. QuietRebuildPublishes'
      BY <2>1, <3>2 DEF QuietRebuildPublishes, Undisturbed, Promised, Walk
    <3>4. RebuildTypeInv'
      BY <1>0, <2>1, <3>1 DEF RebuildTypeInv
    <3> QED BY <3>1, <3>3, <3>4 DEF BuildInv, CompareInv
  <2> QED BY <2>3, <2>4
<1>6. CASE Guard
  <2>1. UNCHANGED <<vault, liveIndex, hotJournal, touched, late>> /\ rebuild.step = "guard"
    BY <1>6 DEF Guard
  <2>2. rebuild \in Comparing
    BY <1>0, <2>1, RebuildShapes
  <2>3. \/ rebuild' = NoRebuild
        \/ /\ rebuild' \in Comparing /\ rebuild'.step = "swap"
           /\ rebuild'.seen = rebuild.seen /\ rebuild'.todo = rebuild.todo
           /\ rebuild'.temp = rebuild.temp /\ rebuild'.prev = rebuild.prev
           /\ rebuild'.generation = rebuild.generation
    BY <1>6, <2>2 DEF Guard, Comparing
  <2>4. RebuildTypeInv'
    BY <1>0, <2>1, <2>3 DEF RebuildTypeInv
  <2>5. CompareInv'
    BY <1>0, <2>1, <2>3 DEF CompareInv, Row, Promised, Walk, ReadSoFar, Valid, NoRebuild
  <2> QED BY <2>3, <2>4, <2>5 DEF BuildInv, QuietRebuildPublishes, Undisturbed, NoRebuild
<1>7. CASE Swap
  <2>1. /\ UNCHANGED <<vault, hotJournal, touched, late>> /\ rebuild.step = "swap"
        /\ rebuild' = NoRebuild
        /\ liveIndex' = [rows |-> rebuild.temp, generation |-> rebuild.generation]
    BY <1>7 DEF Swap
  <2>2. rebuild \in Comparing
    BY <1>0, <2>1, RebuildShapes
  <2>3. liveIndex' \in [rows : IndexRows, generation : Nat]
    BY <2>1, <2>2 DEF Comparing
  <2> QED BY <1>0, <2>1, <2>3 DEF RebuildTypeInv, BuildInv, CompareInv, QuietRebuildPublishes,
        Undisturbed, NoRebuild
<1>8. CASE RebuildStops
  BY <1>0, <1>8 DEF RebuildStops, RebuildTypeInv, BuildInv, CompareInv, QuietRebuildPublishes,
     Undisturbed, NoRebuild
<1>9. CASE Touch
  <2>1. PICK f \in Places, v \in PlaceContents :
          /\ vault' = [vault EXCEPT ![f] = v]
          /\ touched' = touched \cup {f} /\ late' = late \cup {f}
    BY <1>9 DEF Touch
  <2>2. UNCHANGED <<liveIndex, hotJournal, rebuild>>
    BY <1>9 DEF Touch
  <2>3. RebuildTypeInv'
    BY <1>0, <2>1, <2>2 DEF RebuildTypeInv
  <2>4. \A g \in Places \ {f} : Row(g)' = Row(g)
    BY <1>0, <2>1 DEF Row, RebuildTypeInv
  <2>5. BuildInv'
    BY <1>0, <2>1, <2>2, <2>4 DEF BuildInv, ReadSoFar
  <2>6. CompareInv'
    BY <1>0, <2>1, <2>2, <2>4 DEF CompareInv, ReadSoFar, Valid
  <2> QED BY <2>1, <2>3, <2>5, <2>6 DEF QuietRebuildPublishes, Undisturbed
<1>10. CASE Transaction \/ UNCHANGED rebuildVars
  <2>1. UNCHANGED <<vault, liveIndex, rebuild, touched, late>> /\ hotJournal' \in BOOLEAN
    BY <1>0, <1>10 DEF Transaction, rebuildVars, RebuildTypeInv
  <2> QED BY <1>0, <2>1 DEF RebuildTypeInv, BuildInv, CompareInv, QuietRebuildPublishes,
      Undisturbed,
        ReadSoFar, Row, Walk, Promised, Valid
<1> QED BY <1>1, <1>2, <1>3, <1>4, <1>5, <1>6, <1>7, <1>8, <1>9, <1>10 DEF RebuildNext

(* Only the swap changes the live index. *)
LEMMA SwapPublishes ==
  RebuildInv /\ [RebuildNext]_rebuildVars => [PublishesTheVault]_rebuildVars
<1> SUFFICES ASSUME RebuildInv, RebuildNext, liveIndex' # liveIndex
             PROVE  /\ liveIndex'.generation = liveIndex.generation + 1
                    /\ \A f \in Places \ late : liveIndex'.rows[f] = Row(f)
  BY DEF PublishesTheVault, rebuildVars
<1>1. Swap
  BY DEF RebuildNext, BeginRebuild, BuildNote, Built, CheckNote, Checked, Guard, RebuildStops,
         Touch, Transaction, CannotRead
<1>2. /\ rebuild.step = "swap"
      /\ liveIndex' = [rows |-> rebuild.temp, generation |-> rebuild.generation]
  BY <1>1 DEF Swap
<1> QED BY <1>2 DEF RebuildInv, CompareInv, ReadSoFar, Valid

--------------------------------------------------------------------------------
(* A rebuild keeps the types of what it walks, builds and swaps in.        *)
THEOREM RebuildTypes == RebuildSpec => []RebuildTypeOK
<1>1. ASSUME RebuildInv
      PROVE  RebuildTypeOK
  <2>1. RebuildTypeInv
    BY <1>1 DEF RebuildInv
  <2>2. liveIndex.rows \in IndexRows /\ liveIndex.generation \in Nat
    BY <2>1 DEF RebuildTypeInv
  <2>3. rebuild \in Building \cup Comparing =>
          /\ rebuild.step \in {"build", "check", "guard", "swap"}
          /\ rebuild.temp \in IndexRows /\ rebuild.generation \in Nat /\ rebuild.todo \subseteq Places
    BY DEF Building, Comparing
  <2>4. rebuild \in {NoRebuild, [step |-> "refused"]} => rebuild.step \in {"idle", "refused"}
    BY DEF NoRebuild
  <2> QED BY <2>1, <2>2, <2>3, <2>4 DEF RebuildTypeInv, RebuildTypeOK
<1> QED BY <1>1, RebuildInvInit, RebuildInvNext, PTL DEF RebuildSpec

(* Whatever index a swap publishes has the next generation and, for every  *)
(* note nobody edited and every read reached since the second walk began,  *)
(* the row of that note.                                                   *)
THEOREM SwapsAreExact == RebuildSpec => SwapIsExact
BY RebuildInvInit, RebuildInvNext, SwapPublishes, PTL DEF RebuildSpec, SwapIsExact

(* Nothing but an edit or a failed read makes a rebuild be refused, where  *)
(* a note can be decoded or there is none.                                 *)
THEOREM QuietRebuildsSucceed == RebuildSpec => []QuietRebuildPublishes
<1>1. RebuildInv => QuietRebuildPublishes
  BY DEF RebuildInv
<1> QED BY <1>1, RebuildInvInit, RebuildInvNext, PTL DEF RebuildSpec

--------------------------------------------------------------------------------
(* The position of a number in the sorted list of a set, from 0. *)
Rank(S, n) == Cardinality({m \in S : m < n})

(* Of two numbers the smaller has the smaller rank, and ranks stay below   *)
(* the size of the set.                                                    *)
LEMMA RanksGrow ==
  ASSUME NEW S \in SUBSET Nat, IsFiniteSet(S), NEW n \in S
  PROVE  /\ Rank(S, n) \in 0..(Cardinality(S) - 1)
         /\ \A m \in S : m < n => Rank(S, m) < Rank(S, n)
<1> DEFINE Below(m) == {k \in S : k < m}
<1>1. ASSUME NEW A \in SUBSET S, NEW B \in SUBSET S, A \subseteq B, NEW m \in B, m \notin A
      PROVE  /\ Cardinality(A) \in Nat /\ Cardinality(B) \in Nat
             /\ Cardinality(A) < Cardinality(B)
  <2>1. IsFiniteSet(B) /\ A \in SUBSET B
    BY <1>1, FS_Subset
  <2>2. IsFiniteSet(A) /\ Cardinality(A) <= Cardinality(B) /\ Cardinality(A) # Cardinality(B)
    BY <1>1, <2>1, FS_Subset
  <2> QED BY <2>1, <2>2, FS_CardinalityType
<1>2. Below(n) \in SUBSET S /\ n \notin Below(n) /\ n \in S
  OBVIOUS
<1>3. /\ Cardinality(Below(n)) \in Nat /\ Cardinality(S) \in Nat
      /\ Cardinality(Below(n)) < Cardinality(S)
  BY <1>1, <1>2
<1>4. ASSUME NEW m \in S, m < n
      PROVE  Cardinality(Below(m)) < Cardinality(Below(n))
  <2>1. /\ Below(m) \in SUBSET S /\ Below(m) \subseteq Below(n)
        /\ m \in Below(n) /\ m \notin Below(m)
    <3>1. m \in Nat /\ n \in Nat
      OBVIOUS
    <3>2. ASSUME NEW k \in Below(m) PROVE k \in Below(n)
      <4>1. k \in S /\ k < m /\ k \in Nat
        OBVIOUS
      <4> QED BY <1>4, <3>1, <4>1
    <3>3. m \in Below(n) /\ m \notin Below(m)
      BY <1>4, <3>1
    <3> QED BY <3>2, <3>3
  <2> QED BY <1>1, <1>2, <2>1
<1> QED BY <1>3, <1>4 DEF Rank

(* Each position has one number: ranks are an injection into as many       *)
(* positions as there are numbers.                                         *)
LEMMA RanksAreUnique ==
  ASSUME NEW S \in SUBSET Nat, IsFiniteSet(S), NEW n \in S, NEW m \in S, Rank(S, n) = Rank(S, m)
  PROVE  n = m
<1>1. ~(n < m) /\ ~(m < n)
  BY RanksGrow
<1> QED BY <1>1

LEMMA RanksAreTaken ==
  ASSUME NEW S \in SUBSET Nat, IsFiniteSet(S), NEW k \in Nat, k < Cardinality(S)
  PROVE  \E n \in S : Rank(S, n) = k
<1> DEFINE T == 0..(Cardinality(S) - 1)
           f == [n \in S |-> Rank(S, n)]
<1>1. Cardinality(S) \in Nat /\ k \in T
  BY FS_CardinalityType
<1>2. IsFiniteSet(T) /\ Cardinality(T) = Cardinality(S)
  BY <1>1, FS_Interval
<1>3. f \in [S -> T]
  BY RanksGrow
<1>4. \A n, m \in S : f[n] = f[m] => n = m
  BY RanksAreUnique
<1>5. f \in Injection(S, T)
  BY <1>3, <1>4 DEF Injection, IsInjective
<1>6. f \in Surjection(S, T)
  BY <1>2, <1>5, FS_Injection
<1> QED BY <1>1, <1>6 DEF Surjection

(* The number at the last position is the greatest. *)
LEMMA GreatestExists ==
  ASSUME NEW S \in SUBSET Nat, IsFiniteSet(S), S # {}
  PROVE  \E n \in S : \A m \in S : m <= n
<1>1. Cardinality(S) \in Nat /\ Cardinality(S) # 0
  BY FS_CardinalityType, FS_EmptySet
<1>2. PICK n \in S : Rank(S, n) = Cardinality(S) - 1
  BY <1>1, RanksAreTaken
<1>3. ASSUME NEW m \in S PROVE ~(n < m)
  BY <1>1, <1>2, RanksGrow
<1> QED BY <1>2, <1>3

--------------------------------------------------------------------------------
(***************************************************************************)
(* Scrubs: any number of notes, of invocations and of passes.              *)
(***************************************************************************)

(* The indexed notes are finitely many. *)
LEMMA IndexedIsFinite ==
  ASSUME NEW rows
  PROVE  /\ Indexed(rows) \subseteq NoteNumbers /\ Indexed(rows) \in SUBSET Nat
         /\ IsFiniteSet(Indexed(rows))
         /\ Cardinality(Indexed(rows)) \in 0..LastNote
<1>1. LastNote \in Nat /\ Indexed(rows) \in SUBSET NoteNumbers /\ NoteNumbers \subseteq Nat
  BY ScrubAssumption DEF Indexed, NoteNumbers
<1>2. IsFiniteSet(NoteNumbers) /\ Cardinality(NoteNumbers) = LastNote
  BY <1>1, FS_Interval DEF NoteNumbers
<1>3. /\ IsFiniteSet(Indexed(rows))
      /\ Cardinality(Indexed(rows)) <= Cardinality(NoteNumbers)
  BY <1>1, <1>2, FS_Subset
<1>4. Cardinality(Indexed(rows)) \in Nat
  BY <1>3, FS_CardinalityType
<1>5. Cardinality(Indexed(rows)) \in 0..LastNote
  BY <1>1, <1>2, <1>3, <1>4
<1> QED BY <1>1, <1>3, <1>5

(* Indexed notes have different positions, below their number. *)
LEMMA WalkRanks ==
  ASSUME NEW rows, NEW n \in Indexed(rows)
  PROVE  /\ Rank(Indexed(rows), n) \in Nat
         /\ Rank(Indexed(rows), n) < Cardinality(Indexed(rows))
         /\ \A m \in Indexed(rows) : Rank(Indexed(rows), m) = Rank(Indexed(rows), n) => m = n
<1>1. Cardinality(Indexed(rows)) \in Nat /\ IsFiniteSet(Indexed(rows))
  BY IndexedIsFinite, ScrubAssumption
<1>2. Rank(Indexed(rows), n) \in 0..(Cardinality(Indexed(rows)) - 1)
  BY <1>1, IndexedIsFinite, RanksGrow
<1>3. \A m \in Indexed(rows) : Rank(Indexed(rows), m) = Rank(Indexed(rows), n) => m = n
  BY <1>1, IndexedIsFinite, RanksAreUnique
<1> QED BY <1>1, <1>2, <1>3

(* Every position below the number of indexed notes has a note. *)
LEMMA NoteAtPosition ==
  ASSUME NEW rows, NEW k \in Nat, k < Cardinality(Indexed(rows))
  PROVE  NoteAt(rows, k) \in Indexed(rows) /\ Rank(Indexed(rows), NoteAt(rows, k)) = k
<1>1. PICK n \in Indexed(rows) : Rank(Indexed(rows), n) = k
  BY IndexedIsFinite, RanksAreTaken
<1> QED BY <1>1 DEF NoteAt, Rank

(* What an invocation holds at each step. *)
ScrubStates ==
  {Idle}
    \cup [step : {"read"}, first : {"rows", "generation"}, rows : Rows, generation : Nat]
    \cup [step : {"resume"}, rows : Rows, generation : Nat, crossed : BOOLEAN]
    \cup [step : {"canaries"}, rows : Rows, state : Checkpoints]
    \cup [step : {"walk"}, rows : Rows, state : Checkpoints, worked : BOOLEAN]

Holding(s) == scrub[s].step \in {"canaries", "walk"}

(* A state in hand is of the rows that were read, and not completed. *)
HoldsItsRows(s) ==
  Holding(s) => scrub[s].state.rows = scrub[s].rows /\ ~scrub[s].state.completed

ScrubTypeInv ==
  /\ ScrubTypeOK /\ generation <= peak
  /\ scrub \in [Scrubs -> ScrubStates]
  /\ \A s \in Scrubs : HoldsItsRows(s)

LEMMA ScrubShapes ==
  ASSUME ScrubTypeInv, NEW s \in Scrubs
  PROVE  LET u == scrub[s] IN
    /\ u.step = "read" =>
         u.rows \in Rows /\ u.generation \in Nat /\ u.first \in {"rows", "generation"}
    /\ u.step = "resume" =>
         u.rows \in Rows /\ u.generation \in Nat /\ u.crossed \in BOOLEAN
    /\ Holding(s) =>
         /\ u.rows \in Rows /\ u.state \in Checkpoints
         /\ u.state.rows = u.rows /\ u.state.completed = FALSE
BY DEF ScrubTypeInv, ScrubStates, HoldsItsRows, Holding, Idle, Checkpoints

(* The state d after a note was read, and found right or not. *)
LEMMA NoteStep ==
  ASSUME ScrubTypeInv, NEW s \in Scrubs, ScrubNote(s)
  PROVE  LET u == scrub[s]
             c == u.state
             n == NoteAt(u.rows, c.next)
         IN \E right \in BOOLEAN, d \in Checkpoints :
            /\ scrub' = [scrub EXCEPT ![s] =
                 [step |-> "walk", rows |-> u.rows, state |-> d, worked |-> TRUE]]
            /\ checkpoint' \in {checkpoint, d} /\ c \in Checkpoints
            /\ d.pass = c.pass /\ d.generation = c.generation /\ d.rows = c.rows
            /\ d.completed = FALSE /\ d.next = c.next + 1 /\ c.rows = u.rows
            /\ d.alerts = IF right THEN c.alerts \ {n} ELSE c.alerts \cup {n}
            /\ n \in Indexed(u.rows) /\ Rank(Indexed(u.rows), n) = c.next
            /\ n \in NoteNumbers /\ u.rows[n] \in NoteTexts
            /\ proven' = IF right THEN proven \cup {<<c.pass, n, u.rows[n]>>} ELSE proven
            /\ events' = events \/ (events < MaxEvents /\ events' = events + 1)
<1> DEFINE u == scrub[s]
           c == u.state
           n == NoteAt(u.rows, c.next)
           alerts(right) == IF right THEN c.alerts \ {n} ELSE c.alerts \cup {n}
<1>1. /\ u.step = "walk" /\ c.next < Cardinality(Indexed(u.rows))
      /\ u.rows \in Rows /\ c \in Checkpoints /\ c.rows = u.rows /\ c.completed = FALSE
  BY ScrubShapes DEF ScrubNote, Holding
<1>2. c.next \in Nat /\ c.next + 1 \in 0..LastNote
  BY <1>1, IndexedIsFinite, ScrubAssumption DEF Checkpoints
<1>3. n \in Indexed(u.rows) /\ Rank(Indexed(u.rows), n) = c.next
  BY <1>1, <1>2, NoteAtPosition
<1>4. n \in NoteNumbers /\ n \in 0..LastNote /\ u.rows[n] \in NoteTexts
  BY <1>1, <1>3, ScrubAssumption DEF Indexed, NoteNumbers, Rows
<1>5. PICK d : \E right \in BOOLEAN :
        /\ d = [c EXCEPT !.next = c.next + 1, !.alerts = alerts(right)]
        /\ NoteLook(n, u.rows[n], right)
        /\ scrub' = [scrub EXCEPT ![s] =
             [step |-> "walk", rows |-> u.rows, state |-> d, worked |-> TRUE]]
        /\ proven' = IF right THEN proven \cup {<<c.pass, n, u.rows[n]>>} ELSE proven
        /\ checkpoint' \in {checkpoint, d}
  BY DEF ScrubNote
<1>6. PICK right \in BOOLEAN :
        /\ d = [c EXCEPT !.next = c.next + 1, !.alerts = alerts(right)]
        /\ NoteLook(n, u.rows[n], right)
        /\ proven' = IF right THEN proven \cup {<<c.pass, n, u.rows[n]>>} ELSE proven
  BY <1>5
<1>7. alerts(right) \in SUBSET (0..LastNote)
  BY <1>1, <1>4 DEF Checkpoints
<1>8. /\ d \in Checkpoints
      /\ d.pass = c.pass /\ d.generation = c.generation /\ d.rows = c.rows
      /\ d.completed = FALSE /\ d.next = c.next + 1 /\ d.alerts = alerts(right)
  BY <1>1, <1>2, <1>6, <1>7 DEF Checkpoints
<1>9. events' = events \/ (events < MaxEvents /\ events' = events + 1)
  BY <1>6 DEF NoteLook, Unread
<1> QED BY <1>1, <1>3, <1>4, <1>5, <1>6, <1>8, <1>9

(* A checkpoint with other alerts, or completed, is still one. *)
LEMMA CheckpointShapes ==
  ASSUME NEW c \in Checkpoints, NEW a \in SUBSET (0..LastNote), NEW b \in BOOLEAN
  PROVE  /\ [c EXCEPT !.alerts = a] \in Checkpoints
         /\ [c EXCEPT !.alerts = a].alerts = a
         /\ [c EXCEPT !.completed = b] \in Checkpoints
         /\ [c EXCEPT !.completed = b].completed = b
BY DEF Checkpoints

(* Of an invocation only what it holds changes. *)
LEMMA OneScrubMoves ==
  ASSUME ScrubTypeInv, NEW s \in Scrubs, NEW v \in ScrubStates,
         scrub' = [scrub EXCEPT ![s] = v]
  PROVE  /\ scrub' \in [Scrubs -> ScrubStates]
         /\ scrub'[s] = v
         /\ \A t \in Scrubs : t # s => scrub'[t] = scrub[t]
BY DEF ScrubTypeInv

LEMMA ScrubTypeInit == ScrubInit => ScrubTypeInv
<1> SUFFICES ASSUME ScrubInit PROVE ScrubTypeInv
  OBVIOUS
<1>1. \A s \in Scrubs : scrub[s].step = "idle"
  BY DEF ScrubInit, Idle
<1>2. 0 \in 0..MaxEvents /\ 0 \in 0..MaxPasses
  BY ScrubAssumption
<1>3. ScrubTypeOK
  BY <1>1, <1>2 DEF ScrubInit, ScrubTypeOK
<1>4. scrub \in [Scrubs -> ScrubStates]
  BY DEF ScrubInit, ScrubStates
<1> QED BY <1>3, <1>4 DEF ScrubInit, ScrubTypeInv, HoldsItsRows, Holding, Idle

LEMMA ScrubTypeNext == ScrubTypeInv /\ [ScrubNext]_scrubVars => ScrubTypeInv'
<1> SUFFICES ASSUME ScrubTypeInv, [ScrubNext]_scrubVars PROVE ScrubTypeInv'
  OBVIOUS
<1>0. /\ ScrubTypeOK /\ scrub \in [Scrubs -> ScrubStates]
      /\ \A s \in Scrubs : HoldsItsRows(s)
      /\ row \in Rows /\ file \in Rows
      /\ generation \in Nat /\ peak \in Nat /\ generation <= peak
  BY DEF ScrubTypeInv, ScrubTypeOK
<1>1. ASSUME NEW s \in Scrubs, NEW v \in ScrubStates, scrub' = [scrub EXCEPT ![s] = v],
             v.step \in {"canaries", "walk"} => v.state.rows = v.rows /\ ~v.state.completed,
             UNCHANGED outside, ScrubTypeOK'
      PROVE  ScrubTypeInv'
  <2>1. /\ scrub' \in [Scrubs -> ScrubStates] /\ scrub'[s] = v
        /\ \A t \in Scrubs : t # s => scrub'[t] = scrub[t]
    BY <1>1, OneScrubMoves
  <2>2. \A t \in Scrubs : HoldsItsRows(t)'
    BY <1>0, <1>1, <2>1 DEF HoldsItsRows, Holding
  <2> QED BY <1>0, <1>1, <2>1, <2>2 DEF ScrubTypeInv, outside
<1>2. ASSUME NEW s \in Scrubs, NEW v \in ScrubStates, scrub' = [scrub EXCEPT ![s] = v]
      PROVE  \A t \in Scrubs : scrub'[t].step \in {"idle", "read", "resume", "canaries", "walk"}
  BY <1>0, <1>2, OneScrubMoves DEF ScrubStates, Idle
<1>3. ASSUME NEW s \in Scrubs, ReadIndex(s) PROVE ScrubTypeInv'
  <2>1. PICK first \in {"rows", "generation"} : scrub' = [scrub EXCEPT ![s] =
          [step |-> "read", first |-> first, rows |-> row, generation |-> generation]]
    BY <1>3 DEF ReadIndex
  <2> DEFINE v == [step |-> "read", first |-> first, rows |-> row, generation |-> generation]
  <2>2. v \in ScrubStates /\ v.step = "read"
    BY <1>0 DEF ScrubStates
  <2>3. ScrubTypeOK'
    BY <1>0, <1>2, <1>3, <2>1, <2>2 DEF ReadIndex, ScrubTypeOK, outside
  <2> QED BY <1>1, <1>3, <2>1, <2>2, <2>3 DEF ReadIndex
<1>4. ASSUME NEW s \in Scrubs, ReadRest(s) PROVE ScrubTypeInv'
  <2> DEFINE u == scrub[s]
             v == [step |-> "resume",
                   rows |-> IF u.first = "rows" THEN u.rows ELSE row,
                   generation |-> IF u.first = "rows" THEN generation ELSE u.generation,
                   crossed |-> <<u.rows, u.generation>> # <<row, generation>>]
  <2>1. /\ u.step = "read" /\ u.rows \in Rows /\ u.generation \in Nat
        /\ scrub' = [scrub EXCEPT ![s] = v]
    BY <1>4, ScrubShapes DEF ReadRest
  <2>2. v \in ScrubStates /\ v.step = "resume"
    BY <1>0, <2>1 DEF ScrubStates
  <2>3. ScrubTypeOK'
    BY <1>0, <1>2, <1>4, <2>1, <2>2 DEF ReadRest, ScrubTypeOK, outside
  <2> QED BY <1>1, <1>4, <2>1, <2>2, <2>3 DEF ReadRest
<1>5. ASSUME NEW s \in Scrubs, Resume(s) PROVE ScrubTypeInv'
  <2> DEFINE u == scrub[s]
             fresh == [pass |-> passes + 1, generation |-> u.generation, rows |-> u.rows,
                       next |-> 0, completed |-> FALSE, alerts |-> Inherited(checkpoint)]
  <2>1. u.step = "resume" /\ u.rows \in Rows /\ u.generation \in Nat
    BY <1>5, ScrubShapes DEF Resume
  <2>2. CASE Continues(checkpoint, u)
    <3> DEFINE v == [step |-> "canaries", rows |-> u.rows, state |-> checkpoint]
    <3>1. /\ checkpoint \in Checkpoints /\ checkpoint.rows = u.rows /\ ~checkpoint.completed
          /\ scrub' = [scrub EXCEPT ![s] = v]
      BY <1>0, <1>5, <2>2 DEF Continues, Resume, ScrubTypeOK
    <3>2. v \in ScrubStates /\ v.step = "canaries" /\ v.state = checkpoint /\ v.rows = u.rows
      BY <2>1, <3>1 DEF ScrubStates
    <3>3. ScrubTypeOK'
      BY <1>0, <1>2, <1>5, <2>2, <3>1, <3>2 DEF Resume, ScrubTypeOK, outside
    <3> QED BY <1>1, <1>5, <3>1, <3>2, <3>3 DEF Resume
  <2>3. CASE ~Continues(checkpoint, u)
    <3> DEFINE v == [step |-> "canaries", rows |-> u.rows, state |-> fresh]
    <3>1. passes + 1 \in 1..MaxPasses /\ passes' = passes + 1 /\ scrub' = [scrub EXCEPT ![s] = v]
      BY <1>0, <1>5, <2>3, ScrubAssumption DEF Resume, ScrubTypeOK
    <3>2. Inherited(checkpoint) \in SUBSET (0..LastNote)
      BY <1>0 DEF Inherited, ScrubTypeOK, Checkpoints
    <3>3. fresh \in Checkpoints /\ fresh.rows = u.rows /\ fresh.completed = FALSE
      BY <2>1, <3>1, <3>2, ScrubAssumption DEF Checkpoints
    <3>4. v \in ScrubStates /\ v.step = "canaries" /\ v.state = fresh /\ v.rows = u.rows
      BY <2>1, <3>3 DEF ScrubStates
    <3>5. ScrubTypeOK'
      BY <1>0, <1>2, <1>5, <2>3, <3>1, <3>4, ScrubAssumption DEF Resume, ScrubTypeOK, outside
    <3>6. UNCHANGED outside
      BY <1>5 DEF Resume
    <3> QED BY <1>1, <3>1, <3>3, <3>4, <3>5, <3>6
  <2> QED BY <2>2, <2>3
<1>6. ASSUME NEW s \in Scrubs, CheckCanaries(s) PROVE ScrubTypeInv'
  <2> DEFINE u == scrub[s]
  <2>0. PICK found \in SUBSET {Canary}, read \in BOOLEAN :
          /\ CanaryLook([alerts |-> found, read |-> read])
          /\ checkpoint' = [u.state EXCEPT !.alerts = (u.state.alerts \cap Indexed(u.rows)) \cup found]
          /\ scrub' = [scrub EXCEPT ![s] =
               [step |-> "walk", rows |-> u.rows, state |-> checkpoint', worked |-> read]]
    BY <1>6 DEF CheckCanaries
  <2> DEFINE alerts == (u.state.alerts \cap Indexed(u.rows)) \cup found
             d == [u.state EXCEPT !.alerts = alerts]
             v == [step |-> "walk", rows |-> u.rows, state |-> checkpoint', worked |-> read]
  <2>1. /\ u.state \in Checkpoints /\ u.rows \in Rows /\ u.state.rows = u.rows
        /\ u.state.completed = FALSE
        /\ checkpoint' = d /\ scrub' = [scrub EXCEPT ![s] = v]
    BY <1>6, <2>0, ScrubShapes DEF CheckCanaries, Holding
  <2>2. alerts \in SUBSET (0..LastNote)
    BY <2>1, ScrubAssumption DEF Checkpoints, Canary
  <2>3. d \in Checkpoints /\ d.rows = u.rows /\ d.completed = FALSE
    BY <2>1, <2>2, CheckpointShapes DEF Checkpoints
  <2>4. v \in ScrubStates /\ v.step = "walk" /\ v.state = d /\ v.rows = u.rows
    BY <2>1, <2>3 DEF ScrubStates
  <2>5. events' = events \/ (events < MaxEvents /\ events' = events + 1)
    BY <2>0 DEF CanaryLook, Unread
  <2>6. events' \in 0..MaxEvents
    BY <1>0, <2>5, ScrubAssumption DEF ScrubTypeOK
  <2>7. ScrubTypeOK'
    BY <1>0, <1>2, <1>6, <2>1, <2>3, <2>4, <2>6 DEF CheckCanaries, ScrubTypeOK, outside
  <2> QED BY <1>1, <1>6, <2>1, <2>3, <2>4, <2>7 DEF CheckCanaries
<1>7. ASSUME NEW s \in Scrubs, ScrubNote(s) PROVE ScrubTypeInv'
  <2> DEFINE u == scrub[s]
             c == u.state
             n == NoteAt(u.rows, c.next)
  <2>1. PICK right \in BOOLEAN, d \in Checkpoints :
          /\ scrub' = [scrub EXCEPT ![s] =
               [step |-> "walk", rows |-> u.rows, state |-> d, worked |-> TRUE]]
          /\ checkpoint' \in {checkpoint, d} /\ c \in Checkpoints
          /\ d.rows = c.rows /\ c.rows = u.rows /\ d.completed = FALSE
          /\ n \in NoteNumbers /\ u.rows[n] \in NoteTexts
          /\ proven' = IF right THEN proven \cup {<<c.pass, n, u.rows[n]>>} ELSE proven
          /\ events' = events \/ (events < MaxEvents /\ events' = events + 1)
    BY <1>7, NoteStep
  <2>2. u.rows \in Rows /\ c.pass \in 1..MaxPasses
    BY <1>7, <2>1, ScrubShapes DEF ScrubNote, Holding, Checkpoints
  <2>3. PICK v : v = [step |-> "walk", rows |-> u.rows, state |-> d, worked |-> TRUE]
    OBVIOUS
  <2>4. v \in ScrubStates /\ v.step = "walk" /\ v.state = d /\ v.rows = u.rows
    BY <2>2, <2>3 DEF ScrubStates
  <2>5. proven' \subseteq proven \cup {<<c.pass, n, u.rows[n]>>}
    BY <2>1
  <2>6. events' \in 0..MaxEvents
    BY <1>0, <2>1, ScrubAssumption DEF ScrubTypeOK
  <2> HIDE DEF n
  <2>7. ScrubTypeOK'
    BY <1>0, <1>2, <1>7, <2>1, <2>2, <2>3, <2>4, <2>5, <2>6 DEF ScrubNote, ScrubTypeOK, outside
  <2>8. scrub' = [scrub EXCEPT ![s] = v] /\ UNCHANGED outside
    BY <1>7, <2>1, <2>3 DEF ScrubNote
  <2> QED BY <1>1, <2>1, <2>4, <2>7, <2>8
<1>8. ASSUME NEW s \in Scrubs, FinishScrub(s) \/ ScrubDies(s) PROVE ScrubTypeInv'
  <2>1. Idle \in ScrubStates /\ Idle.step = "idle" /\ scrub' = [scrub EXCEPT ![s] = Idle]
    BY <1>8 DEF ScrubStates, Idle, FinishScrub, ScrubDies
  <2>2. checkpoint' \in Checkpoints \cup {NoCheckpoint}
    <3>1. CASE FinishScrub(s)
      BY <3>1, ScrubShapes, CheckpointShapes DEF FinishScrub, Holding
    <3>2. CASE ScrubDies(s)
      BY <1>0, <3>2 DEF ScrubDies, ScrubTypeOK
    <3> QED BY <1>8, <3>1, <3>2
  <2>3. ScrubTypeOK'
    BY <1>0, <1>2, <1>8, <2>1, <2>2 DEF FinishScrub, ScrubDies, ScrubTypeOK, outside
  <2> QED BY <1>1, <1>8, <2>1, <2>3 DEF FinishScrub, ScrubDies
<1>9. CASE EditNote \/ PublishRow \/ Tamper \/ InitializeCanaries
  <2>1. UNCHANGED <<generation, peak, checkpoint, scrub, passes, proven, overlapped, split>>
    BY <1>9 DEF EditNote, PublishRow, Tamper, InitializeCanaries
  <2>2. file' \in Rows /\ row' \in Rows
    BY <1>0, <1>9 DEF EditNote, PublishRow, Tamper, InitializeCanaries, Rows
  <2>3. events' \in 0..MaxEvents
    BY <1>0, <1>9, ScrubAssumption
    DEF EditNote, PublishRow, Tamper, InitializeCanaries, ScrubTypeOK
  <2>4. canary' \in {"missing", "right", "altered"} /\ unmoved' \in BOOLEAN
    BY <1>0, <1>9 DEF EditNote, PublishRow, Tamper, InitializeCanaries, ScrubTypeOK
  <2>5. ScrubTypeOK'
    BY <1>0, <2>1, <2>2, <2>3, <2>4 DEF ScrubTypeOK
  <2> QED BY <1>0, <2>1, <2>5 DEF ScrubTypeInv, HoldsItsRows, Holding
<1>10. CASE MoveGeneration \/ MoveLate
  <2>1. PICK g \in Nat : Moved(g) /\ UNCHANGED events
    BY <1>0, <1>10 DEF MoveGeneration, MoveLate
  <2>2. /\ generation' \in Nat /\ peak' \in Nat /\ generation' <= peak' /\ unmoved' \in BOOLEAN
        /\ UNCHANGED <<file, canary, row, checkpoint, scrub, events, passes, proven, overlapped, split>>
    BY <1>0, <2>1 DEF Moved
  <2>3. ScrubTypeOK'
    BY <1>0, <2>2 DEF ScrubTypeOK
  <2> QED BY <1>0, <2>2, <2>3 DEF ScrubTypeInv, HoldsItsRows, Holding
<1>11. CASE UNCHANGED scrubVars
  BY <1>0, <1>11 DEF scrubVars, ScrubTypeInv, ScrubTypeOK, HoldsItsRows, Holding
<1> QED BY <1>3, <1>4, <1>5, <1>6, <1>7, <1>8, <1>9, <1>10, <1>11 DEF ScrubNext

(* Files, rows, checkpoints and invocations keep their types. *)
THEOREM ScrubTypes == ScrubSpec => []ScrubTypeOK
<1>1. ScrubTypeInv => ScrubTypeOK
  BY DEF ScrubTypeInv
<1> QED BY <1>1, ScrubTypeInit, ScrubTypeNext, PTL DEF ScrubSpec

--------------------------------------------------------------------------------
(* Every note before the cursor has an alert, or was found right in this   *)
(* pass.                                                                   *)
Looked(c, seen) ==
  \A n \in Indexed(c.rows) :
    Rank(Indexed(c.rows), n) < c.next => n \in c.alerts \/ <<c.pass, n, c.rows[n]>> \in seen

LookedInv ==
  /\ checkpoint # NoCheckpoint =>
       /\ Looked(checkpoint, proven)
       /\ checkpoint.completed => checkpoint.next = Cardinality(Indexed(checkpoint.rows))
  /\ \A s \in Scrubs : Holding(s) => Looked(scrub[s].state, proven)

LEMMA LookedStays ==
  ASSUME NEW c, NEW seen, NEW more, seen \subseteq more, Looked(c, seen)
  PROVE  Looked(c, more)
BY DEF Looked

LEMMA LookedNext == ScrubTypeInv /\ LookedInv /\ [ScrubNext]_scrubVars => LookedInv'
<1> SUFFICES ASSUME ScrubTypeInv, LookedInv, [ScrubNext]_scrubVars PROVE LookedInv'
  OBVIOUS
<1>0. /\ checkpoint # NoCheckpoint =>
           /\ checkpoint \in Checkpoints /\ Looked(checkpoint, proven)
           /\ checkpoint.completed => checkpoint.next = Cardinality(Indexed(checkpoint.rows))
      /\ \A s \in Scrubs : Holding(s) => Looked(scrub[s].state, proven)
      /\ scrub \in [Scrubs -> ScrubStates]
  BY DEF ScrubTypeInv, ScrubTypeOK, LookedInv
<1>1. ASSUME NEW s \in Scrubs, NEW v, scrub' = [scrub EXCEPT ![s] = v],
             proven \subseteq proven',
             v.step \in {"canaries", "walk"} => Looked(v.state, proven'),
             \/ checkpoint' = checkpoint
             \/ /\ Looked(checkpoint', proven')
                /\ checkpoint'.completed =>
                     checkpoint'.next = Cardinality(Indexed(checkpoint'.rows))
      PROVE  LookedInv'
  <2>1. checkpoint' # NoCheckpoint =>
          /\ Looked(checkpoint', proven')
          /\ checkpoint'.completed => checkpoint'.next = Cardinality(Indexed(checkpoint'.rows))
    BY <1>0, <1>1, LookedStays
  <2>2. ASSUME NEW t \in Scrubs, scrub'[t].step \in {"canaries", "walk"}
        PROVE  Looked(scrub'[t].state, proven')
    <3>1. CASE t = s
      BY <1>0, <1>1, <2>2, <3>1
    <3>2. CASE t # s
      BY <1>0, <1>1, <2>2, <3>2, LookedStays DEF Holding
    <3> QED BY <3>1, <3>2
  <2> QED BY <2>1, <2>2 DEF LookedInv, Holding
<1>2. ASSUME NEW s \in Scrubs, ReadIndex(s) PROVE LookedInv'
  <2>1. PICK first : scrub' = [scrub EXCEPT ![s] =
          [step |-> "read", first |-> first, rows |-> row, generation |-> generation]]
    BY <1>2 DEF ReadIndex
  <2> QED BY <1>1, <1>2, <2>1 DEF ReadIndex
<1>3. ASSUME NEW s \in Scrubs, ReadRest(s) PROVE LookedInv'
  BY <1>1, <1>3 DEF ReadRest
<1>4. ASSUME NEW s \in Scrubs, Resume(s) PROVE LookedInv'
  <2> DEFINE u == scrub[s]
             fresh == [pass |-> passes + 1, generation |-> u.generation, rows |-> u.rows,
                       next |-> 0, completed |-> FALSE, alerts |-> Inherited(checkpoint)]
  <2>1. UNCHANGED <<checkpoint, proven>>
    BY <1>4 DEF Resume
  <2>2. CASE Continues(checkpoint, u)
    <3>1. Looked(checkpoint, proven)
      BY <1>0, <2>2 DEF Continues
    <3>2. scrub' = [scrub EXCEPT ![s] =
            [step |-> "canaries", rows |-> u.rows, state |-> checkpoint]]
      BY <1>4, <2>2 DEF Resume
    <3> QED BY <1>1, <2>1, <3>1, <3>2
  <2>3. CASE ~Continues(checkpoint, u)
    <3>1. Looked(fresh, proven)
      BY WalkRanks DEF Looked
    <3>2. scrub' = [scrub EXCEPT ![s] = [step |-> "canaries", rows |-> u.rows, state |-> fresh]]
      BY <1>4, <2>3 DEF Resume
    <3> HIDE DEF fresh
    <3> QED BY <1>1, <2>1, <3>1, <3>2
  <2> QED BY <2>2, <2>3
<1>5. ASSUME NEW s \in Scrubs, CheckCanaries(s) PROVE LookedInv'
  <2> DEFINE u == scrub[s]
             c == u.state
             alerts(found) == (c.alerts \cap Indexed(u.rows)) \cup found
  <2>0. PICK found, read, d :
          /\ found \subseteq {Canary}
          /\ d = [c EXCEPT !.alerts = alerts(found)]
          /\ checkpoint' = d
          /\ scrub' = [scrub EXCEPT ![s] =
               [step |-> "walk", rows |-> u.rows, state |-> d, worked |-> read]]
    BY <1>5 DEF CheckCanaries
  <2>1. /\ c \in Checkpoints /\ c.rows = u.rows /\ c.completed = FALSE /\ Looked(c, proven)
        /\ checkpoint' = d /\ UNCHANGED proven
        /\ scrub' = [scrub EXCEPT ![s] =
             [step |-> "walk", rows |-> u.rows, state |-> d, worked |-> read]]
    BY <1>0, <1>5, <2>0, ScrubShapes DEF CheckCanaries, Holding
  <2>2. /\ d.pass = c.pass /\ d.rows = c.rows /\ d.next = c.next /\ d.alerts = alerts(found)
        /\ d.completed = FALSE
    BY <2>0, <2>1 DEF Checkpoints
  <2>3. Looked(d, proven)
    BY <2>1, <2>2 DEF Looked
  <2> QED BY <1>1, <2>1, <2>2, <2>3
<1>6. ASSUME NEW s \in Scrubs, ScrubNote(s) PROVE LookedInv'
  <2> DEFINE u == scrub[s]
             c == u.state
             n == NoteAt(u.rows, c.next)
  <2>0. PICK right \in BOOLEAN, d \in Checkpoints :
          /\ scrub' = [scrub EXCEPT ![s] =
               [step |-> "walk", rows |-> u.rows, state |-> d, worked |-> TRUE]]
          /\ checkpoint' \in {checkpoint, d} /\ c \in Checkpoints /\ c.rows = u.rows
          /\ d.pass = c.pass /\ d.rows = c.rows /\ d.next = c.next + 1 /\ d.completed = FALSE
          /\ d.alerts = IF right THEN c.alerts \ {n} ELSE c.alerts \cup {n}
          /\ n \in Indexed(u.rows) /\ Rank(Indexed(u.rows), n) = c.next
          /\ proven' = IF right THEN proven \cup {<<c.pass, n, u.rows[n]>>} ELSE proven
    BY <1>6, NoteStep
  <2>1. /\ scrub' = [scrub EXCEPT ![s] =
             [step |-> "walk", rows |-> u.rows, state |-> d, worked |-> TRUE]]
        /\ checkpoint' \in {checkpoint, d} /\ c.rows = u.rows
        /\ d.pass = c.pass /\ d.rows = c.rows /\ d.next = c.next + 1 /\ d.completed = FALSE
        /\ d.alerts = IF right THEN c.alerts \ {n} ELSE c.alerts \cup {n}
    BY <2>0
  <2>2. /\ proven' = IF right THEN proven \cup {<<c.pass, n, u.rows[n]>>} ELSE proven
        /\ Looked(c, proven) /\ c.next \in Nat
        /\ n \in Indexed(u.rows) /\ Rank(Indexed(u.rows), n) = c.next
    <3>1. Looked(c, proven)
      BY <1>0, <1>6 DEF ScrubNote, Holding
    <3>2. c.next \in Nat
      BY <2>0, ScrubAssumption DEF Checkpoints
    <3> QED BY <2>0, <3>1, <3>2
  <2> HIDE DEF n
  <2>3. ASSUME NEW m \in Indexed(d.rows), Rank(Indexed(d.rows), m) < d.next
        PROVE  m \in d.alerts \/ <<d.pass, m, d.rows[m]>> \in proven'
    <3>1. CASE m = n
      <4>1. CASE right
        <5>1. proven' = proven \cup {<<c.pass, n, u.rows[n]>>}
          BY <2>2, <4>1
        <5> QED BY <2>1, <3>1, <5>1
      <4>2. CASE ~right
        BY <2>1, <3>1, <4>2
      <4> QED BY <4>1, <4>2
    <3>2. CASE m # n
      <4>1. Rank(Indexed(d.rows), m) \in Nat /\ Rank(Indexed(d.rows), m) # c.next
        BY <2>1, <2>2, <2>3, <3>2, WalkRanks
      <4>2. m \in c.alerts \/ <<c.pass, m, c.rows[m]>> \in proven
        BY <2>1, <2>2, <2>3, <4>1 DEF Looked
      <4> QED BY <2>1, <2>2, <3>2, <4>2
    <3> QED BY <3>1, <3>2
  <2>4. Looked(d, proven') /\ proven \subseteq proven'
    BY <2>2, <2>3 DEF Looked
  <2> QED BY <1>1, <2>1, <2>4
<1>7. ASSUME NEW s \in Scrubs, FinishScrub(s) PROVE LookedInv'
  <2> DEFINE u == scrub[s]
             c == u.state
             done == c.next = Cardinality(Indexed(c.rows))
             d == [c EXCEPT !.completed = done]
  <2>1. /\ c \in Checkpoints /\ Looked(c, proven) /\ UNCHANGED proven /\ checkpoint' = d
        /\ scrub' = [scrub EXCEPT ![s] = Idle]
    BY <1>0, <1>7, ScrubShapes DEF FinishScrub, Holding
  <2>2. /\ d.pass = c.pass /\ d.rows = c.rows /\ d.next = c.next /\ d.alerts = c.alerts
        /\ d.completed = done
    BY <2>1 DEF Checkpoints
  <2>3. Looked(d, proven)
    BY <2>1, <2>2 DEF Looked
  <2> HIDE DEF d
  <2> QED BY <1>1, <2>1, <2>2, <2>3 DEF Idle
<1>8. ASSUME NEW s \in Scrubs, ScrubDies(s) PROVE LookedInv'
  BY <1>1, <1>8 DEF ScrubDies, Idle
<1>9. CASE UNCHANGED <<checkpoint, scrub, proven>>
  BY <1>9 DEF LookedInv, Holding
<1> QED BY <1>2, <1>3, <1>4, <1>5, <1>6, <1>7, <1>8, <1>9
    DEF ScrubNext, EditNote, PublishRow, MoveGeneration, MoveLate, Moved, Tamper,
      InitializeCanaries, scrubVars

--------------------------------------------------------------------------------
(* These rows, read at this count, are those of the index, unless the      *)
(* count has other values now, or will.                                    *)
Current(rows, count) == count <= peak /\ (count = generation /\ ~unmoved => rows = row)

Fits(c) == c.pass \notin split => Current(c.rows, c.generation)

(* What an invocation may rely on. *)
Sound(v) ==
  /\ v.step \in {"canaries", "walk"} => Fits(v.state)
  /\ v.step = "read" => Current(v.rows, v.generation)
  /\ v.step = "resume" /\ ~v.crossed => Current(v.rows, v.generation)

CurrentInv ==
  /\ checkpoint # NoCheckpoint => Fits(checkpoint)
  /\ \A s \in Scrubs : Sound(scrub[s])

(* What was current stays so: rows change before the count, and only a     *)
(* value the count never had vouches for them.                             *)
LEMMA CurrentStays ==
  ASSUME ScrubTypeInv, [ScrubNext]_scrubVars, NEW rows, NEW count \in Nat, Current(rows, count)
  PROVE  Current(rows, count)'
<1>0. generation \in Nat /\ generation <= peak
  BY DEF ScrubTypeInv, ScrubTypeOK
<1>1. \/ UNCHANGED <<row, generation, peak, unmoved>>
      \/ unmoved' /\ peak' = peak
      \/ \E g \in Nat : Moved(g)
  <2>1. CASE MoveGeneration \/ MoveLate
    BY <1>0, <2>1 DEF MoveGeneration, MoveLate
  <2>2. CASE ~(MoveGeneration \/ MoveLate)
    BY <2>2 DEF ScrubNext, scrubVars, outside, ReadIndex, ReadRest, Resume, CheckCanaries,
      ScrubNote, FinishScrub, ScrubDies, EditNote, PublishRow, Tamper, InitializeCanaries
  <2> QED BY <2>1, <2>2
<1>2. CASE UNCHANGED <<row, generation, peak, unmoved>> \/ (unmoved' /\ peak' = peak)
  BY <1>2 DEF Current
<1>3. CASE \E g \in Nat : Moved(g)
  <2>1. PICK g \in Nat : Moved(g)
    BY <1>3
  <2>2. peak \in Nat /\ unmoved \in BOOLEAN
    BY DEF ScrubTypeInv, ScrubTypeOK
  <2>3. CASE g > peak
    <3>1. generation' = g /\ peak' = g
      BY <2>1, <2>3 DEF Moved
    <3>2. count <= peak
      BY DEF Current
    <3>3. count <= peak' /\ count # generation'
      BY <2>2, <2>3, <3>1, <3>2
    <3> QED BY <3>3 DEF Current
  <2>4. CASE g <= peak
    <3>1. generation' = g /\ peak' = peak /\ row' = row
      BY <2>1, <2>2, <2>4 DEF Moved
    <3>2. CASE unmoved \/ g # generation
      <4>1. unmoved'
        BY <2>1, <2>4, <3>2 DEF Moved
      <4> QED BY <3>1, <4>1 DEF Current
    <3>3. CASE ~unmoved /\ g = generation
      BY <3>1, <3>3 DEF Current
    <3> QED BY <3>2, <3>3
  <2> QED BY <2>2, <2>3, <2>4
<1> QED BY <1>1, <1>2, <1>3

LEMMA FitsStay ==
  ASSUME ScrubTypeInv, [ScrubNext]_scrubVars, NEW c \in Checkpoints, Fits(c)
  PROVE  Fits(c)'
<1>1. split \subseteq split'
  BY DEF ScrubNext, scrubVars, ReadIndex, ReadRest, Resume, CheckCanaries, ScrubNote,
    FinishScrub, ScrubDies, EditNote, PublishRow, MoveGeneration, MoveLate, Moved, Tamper,
      InitializeCanaries
<1>2. c.generation \in Nat
  BY DEF Checkpoints
<1>3. CASE c.pass \in split'
  BY <1>3 DEF Fits
<1>4. CASE c.pass \notin split'
  <2>1. Current(c.rows, c.generation)
    BY <1>1, <1>4 DEF Fits
  <2>2. Current(c.rows, c.generation)'
    BY <1>2, <2>1, CurrentStays
  <2> QED BY <2>2 DEF Fits
<1> QED BY <1>3, <1>4

LEMMA SoundStays ==
  ASSUME ScrubTypeInv, [ScrubNext]_scrubVars, NEW v \in ScrubStates, Sound(v)
  PROVE  Sound(v)'
<1>1. ASSUME v.step \in {"canaries", "walk"} PROVE Fits(v.state)'
  <2>1. v.state \in Checkpoints /\ Fits(v.state)
    BY <1>1 DEF Sound, ScrubStates, Idle
  <2> QED BY <2>1, FitsStay
<1>2. ASSUME v.step = "read" PROVE Current(v.rows, v.generation)'
  <2>1. v.generation \in Nat /\ Current(v.rows, v.generation)
    BY <1>2 DEF Sound, ScrubStates, Idle
  <2> QED BY <2>1, CurrentStays
<1>3. ASSUME v.step = "resume", ~v.crossed PROVE Current(v.rows, v.generation)'
  <2>1. v.generation \in Nat /\ Current(v.rows, v.generation)
    BY <1>3 DEF Sound, ScrubStates, Idle
  <2> QED BY <2>1, CurrentStays
<1> QED BY <1>1, <1>2, <1>3 DEF Sound

LEMMA CurrentNext == ScrubTypeInv /\ CurrentInv /\ [ScrubNext]_scrubVars => CurrentInv'
<1> SUFFICES ASSUME ScrubTypeInv, CurrentInv, [ScrubNext]_scrubVars PROVE CurrentInv'
  OBVIOUS
<1>0. /\ checkpoint # NoCheckpoint => checkpoint \in Checkpoints /\ Fits(checkpoint)
      /\ \A s \in Scrubs : Sound(scrub[s]) /\ scrub[s] \in ScrubStates
      /\ scrub \in [Scrubs -> ScrubStates] /\ scrub' \in [Scrubs -> ScrubStates]
      /\ generation \in Nat /\ peak \in Nat /\ generation <= peak /\ passes \in Nat
  BY ScrubTypeNext DEF ScrubTypeInv, ScrubTypeOK, CurrentInv
<1>1. ASSUME NEW s \in Scrubs, NEW v, scrub' = [scrub EXCEPT ![s] = v], Sound(v)',
             NEW d, checkpoint' = d, d = checkpoint \/ Fits(d)'
      PROVE  CurrentInv'
  <2>1. ASSUME d # NoCheckpoint PROVE Fits(d)'
    <3>1. CASE d = checkpoint
      BY <1>0, <2>1, <3>1, FitsStay
    <3> QED BY <1>1, <3>1
  <2>2. checkpoint' # NoCheckpoint => Fits(checkpoint)'
    BY <1>1, <2>1 DEF Fits, Current
  <2>3. ASSUME NEW t \in Scrubs PROVE Sound(scrub[t])'
    <3>1. PICK w : w = scrub'[t]
      OBVIOUS
    <3>2. CASE t = s
      <4>1. w = v
        BY <1>0, <1>1, <3>1, <3>2
      <4> QED BY <1>1, <3>1, <4>1 DEF Sound, Fits, Current
    <3>3. CASE t # s
      <4>1. w = scrub[t] /\ w \in ScrubStates /\ Sound(w)
        BY <1>0, <1>1, <3>1, <3>3
      <4>2. Sound(w)'
        BY <4>1, SoundStays
      <4> QED BY <3>1, <4>2 DEF Sound, Fits, Current
    <3> QED BY <3>2, <3>3
  <2> QED BY <2>2, <2>3 DEF CurrentInv
<1>2. ASSUME NEW s \in Scrubs, ReadIndex(s) PROVE CurrentInv'
  <2>1. PICK first : scrub' = [scrub EXCEPT ![s] =
          [step |-> "read", first |-> first, rows |-> row, generation |-> generation]]
    BY <1>2 DEF ReadIndex
  <2>2. PICK v : v = [step |-> "read", first |-> first, rows |-> row, generation |-> generation]
    OBVIOUS
  <2>3. Sound(v)' /\ checkpoint' = checkpoint
    BY <1>0, <1>2, <2>2 DEF ReadIndex, outside, Sound, Current
  <2> QED BY <1>1, <2>1, <2>2, <2>3
<1>3. ASSUME NEW s \in Scrubs, ReadRest(s) PROVE CurrentInv'
  <2>1. PICK u : u = scrub[s]
    OBVIOUS
  <2>2. PICK v : v = [step |-> "resume",
                      rows |-> IF u.first = "rows" THEN u.rows ELSE row,
                      generation |-> IF u.first = "rows" THEN generation ELSE u.generation,
                      crossed |-> <<u.rows, u.generation>> # <<row, generation>>]
    OBVIOUS
  <2>3. /\ u.generation \in Nat /\ Current(u.rows, u.generation)
        /\ scrub' = [scrub EXCEPT ![s] = v]
        /\ UNCHANGED <<checkpoint, row, generation, peak, unmoved>>
    BY <1>0, <1>3, <2>1, <2>2, ScrubShapes DEF ReadRest, outside, Sound
  <2>4. Sound(v)'
    BY <1>0, <2>2, <2>3 DEF Sound, Current
  <2> QED BY <1>1, <2>3, <2>4
<1>4. ASSUME NEW s \in Scrubs, Resume(s) PROVE CurrentInv'
  <2>1. PICK u : u = scrub[s]
    OBVIOUS
  <2>2. /\ u.step = "resume" /\ u.generation \in Nat /\ Sound(u)
        /\ UNCHANGED <<checkpoint, row, generation, peak, unmoved>>
    BY <1>0, <1>4, <2>1, ScrubShapes DEF Resume, outside
  <2>3. CASE Continues(checkpoint, u)
    <3>1. PICK v : v = [step |-> "canaries", rows |-> u.rows, state |-> checkpoint]
      OBVIOUS
    <3>2. scrub' = [scrub EXCEPT ![s] = v] /\ split' = split /\ Fits(checkpoint)
      BY <1>0, <1>4, <2>1, <2>3, <3>1 DEF Resume, Continues
    <3>3. Sound(v)'
      BY <2>2, <3>1, <3>2 DEF Sound, Fits, Current
    <3> QED BY <1>1, <2>2, <3>2, <3>3
  <2>4. CASE ~Continues(checkpoint, u)
    <3>1. PICK c : c = [pass |-> passes + 1, generation |-> u.generation, rows |-> u.rows,
                        next |-> 0, completed |-> FALSE, alerts |-> Inherited(checkpoint)]
      OBVIOUS
    <3>2. PICK v : v = [step |-> "canaries", rows |-> u.rows, state |-> c]
      OBVIOUS
    <3>3. /\ scrub' = [scrub EXCEPT ![s] = v]
          /\ split' = IF u.crossed THEN split \cup {passes + 1} ELSE split
      BY <1>4, <2>1, <2>4, <3>1, <3>2 DEF Resume
    <3>4. Fits(c)'
      BY <2>2, <3>1, <3>3 DEF Sound, Fits, Current
    <3>5. Sound(v)'
      BY <3>2, <3>4 DEF Sound
    <3> QED BY <1>1, <2>2, <3>3, <3>5
  <2> QED BY <2>3, <2>4
<1>5. ASSUME NEW s \in Scrubs, CheckCanaries(s) PROVE CurrentInv'
  <2>1. PICK u : u = scrub[s]
    OBVIOUS
  <2>2. PICK d, read : \E found \in SUBSET {Canary} :
          /\ d = [u.state EXCEPT !.alerts = (u.state.alerts \cap Indexed(u.rows)) \cup found]
          /\ checkpoint' = d
          /\ scrub' = [scrub EXCEPT ![s] =
               [step |-> "walk", rows |-> u.rows, state |-> d, worked |-> read]]
    BY <1>5, <2>1 DEF CheckCanaries
  <2>3. /\ checkpoint' = d /\ u.state \in Checkpoints /\ Fits(u.state)
        /\ scrub' = [scrub EXCEPT ![s] =
             [step |-> "walk", rows |-> u.rows, state |-> d, worked |-> read]]
        /\ UNCHANGED <<row, generation, peak, unmoved, split>>
    BY <1>0, <1>5, <2>1, <2>2, ScrubShapes DEF CheckCanaries, outside, Sound, Holding
  <2>4. d.pass = u.state.pass /\ d.rows = u.state.rows /\ d.generation = u.state.generation
    BY <2>2, <2>3 DEF Checkpoints
  <2>5. Fits(d)'
    BY <2>3, <2>4 DEF Fits, Current
  <2>6. PICK v : v = [step |-> "walk", rows |-> u.rows, state |-> d, worked |-> read]
    OBVIOUS
  <2>7. Sound(v)'
    BY <2>5, <2>6 DEF Sound
  <2> QED BY <1>1, <2>3, <2>5, <2>6, <2>7
<1>6. ASSUME NEW s \in Scrubs, ScrubNote(s) PROVE CurrentInv'
  <2>1. PICK u : u = scrub[s]
    OBVIOUS
  <2>2. PICK d \in Checkpoints :
          /\ scrub' = [scrub EXCEPT ![s] =
               [step |-> "walk", rows |-> u.rows, state |-> d, worked |-> TRUE]]
          /\ checkpoint' \in {checkpoint, d} /\ u.state \in Checkpoints
          /\ d.pass = u.state.pass /\ d.rows = u.state.rows
          /\ d.generation = u.state.generation
    BY <1>6, <2>1, NoteStep
  <2>3. PICK v : v = [step |-> "walk", rows |-> u.rows, state |-> d, worked |-> TRUE]
    OBVIOUS
  <2>4. /\ scrub' = [scrub EXCEPT ![s] = v] /\ checkpoint' \in {checkpoint, d}
        /\ u.state \in Checkpoints
        /\ d.pass = u.state.pass /\ d.rows = u.state.rows
        /\ d.generation = u.state.generation
    BY <2>2, <2>3
  <2>5. Fits(u.state) /\ UNCHANGED <<row, generation, peak, unmoved, split>>
    BY <1>0, <1>6, <2>1 DEF ScrubNote, outside, Sound
  <2>6. Fits(d)'
    BY <2>4, <2>5 DEF Fits, Current
  <2>7. Sound(v)'
    BY <2>3, <2>6 DEF Sound
  <2>8. PICK e : e = checkpoint' /\ (e = checkpoint \/ Fits(e)')
    BY <2>4, <2>6
  <2> QED BY <1>1, <2>4, <2>7, <2>8
<1>7. ASSUME NEW s \in Scrubs, FinishScrub(s) PROVE CurrentInv'
  <2>1. PICK c : c = scrub[s].state
    OBVIOUS
  <2>2. PICK d : d = [c EXCEPT !.completed = (c.next = Cardinality(Indexed(c.rows)))]
    OBVIOUS
  <2>3. /\ checkpoint' = d /\ c \in Checkpoints /\ Fits(c)
        /\ scrub' = [scrub EXCEPT ![s] = Idle] /\ UNCHANGED <<row, generation, peak, unmoved, split>>
    BY <1>0, <1>7, <2>1, <2>2, ScrubShapes DEF FinishScrub, outside, Sound, Holding
  <2>4. d.pass = c.pass /\ d.rows = c.rows /\ d.generation = c.generation
    BY <2>2, <2>3 DEF Checkpoints
  <2>5. Fits(d)' /\ Sound(Idle)'
    BY <2>3, <2>4 DEF Fits, Current, Sound, Idle
  <2> QED BY <1>1, <2>3, <2>5
<1>8. ASSUME NEW s \in Scrubs, ScrubDies(s) PROVE CurrentInv'
  BY <1>1, <1>8 DEF ScrubDies, Sound, Idle
<1>9. CASE UNCHANGED <<checkpoint, scrub>>
  <2>1. ASSUME NEW c, c = checkpoint, c # NoCheckpoint PROVE Fits(c)'
    BY <1>0, <2>1, FitsStay
  <2>2. checkpoint' # NoCheckpoint => Fits(checkpoint)'
    BY <1>9, <2>1 DEF Fits, Current
  <2>3. ASSUME NEW t \in Scrubs PROVE Sound(scrub[t])'
    <3>1. PICK w : w = scrub[t]
      OBVIOUS
    <3>2. Sound(w)'
      BY <1>0, <3>1, SoundStays
    <3> QED BY <1>9, <3>1, <3>2 DEF Sound, Fits, Current
  <2> QED BY <2>2, <2>3 DEF CurrentInv
<1> QED BY <1>2, <1>3, <1>4, <1>5, <1>6, <1>7, <1>8, <1>9
    DEF ScrubNext, EditNote, PublishRow, MoveGeneration, MoveLate, Moved, Tamper,
      InitializeCanaries, scrubVars

(* Once its walk is complete every note of a checkpoint without alerts was *)
(* found right, as every note has a position below the cursor.             *)
THEOREM CompleteMeansRead == ScrubSpec => []HealthIsHonest
<1>1. ScrubInit => LookedInv /\ CurrentInv
  BY DEF ScrubInit, LookedInv, CurrentInv, Sound, Holding, Idle
<1>2. ScrubTypeInv /\ LookedInv /\ CurrentInv => HealthIsHonest
  <2> SUFFICES ASSUME ScrubTypeInv, LookedInv, CurrentInv, Health = "complete"
               PROVE  /\ \A n \in Indexed(checkpoint.rows) :
                           <<checkpoint.pass, n, checkpoint.rows[n]>> \in proven
                      /\ ~unmoved /\ checkpoint.pass \notin split => checkpoint.rows = row
    BY DEF HealthIsHonest
  <2>1. /\ checkpoint # NoCheckpoint /\ checkpoint.alerts = {} /\ checkpoint.completed
        /\ checkpoint.generation = generation
    BY DEF Health
  <2>2. Looked(checkpoint, proven) /\ checkpoint.next = Cardinality(Indexed(checkpoint.rows))
    BY <2>1 DEF LookedInv
  <2>3. ASSUME NEW n \in Indexed(checkpoint.rows)
        PROVE  <<checkpoint.pass, n, checkpoint.rows[n]>> \in proven
    BY <2>1, <2>2, WalkRanks DEF Looked
  <2>4. ~unmoved /\ checkpoint.pass \notin split => checkpoint.rows = row
    BY <2>1 DEF CurrentInv, Fits, Current
  <2> QED BY <2>3, <2>4
<1> QED BY <1>1, <1>2, ScrubTypeInit, ScrubTypeNext, LookedNext, CurrentNext, PTL DEF ScrubSpec

--------------------------------------------------------------------------------
(* A checkpoint may be replaced by c: its alerts are in c, or were proven  *)
(* wrong in c's pass, or are of notes that left the index.                 *)
Covers(c, kept, seen) ==
  \A n \in kept.alerts \ (c.alerts \cup {Canary}) :
    n \notin Indexed(c.rows) \/ <<c.pass, n, c.rows[n]>> \in seen

(* An invocation that is alone covers the checkpoint with what it holds. *)
EvidenceInv ==
  ~overlapped =>
    /\ \A s, t \in Scrubs : Active(s) /\ Active(t) => s = t
    /\ \A s \in Scrubs :
         Holding(s) /\ checkpoint # NoCheckpoint => Covers(scrub[s].state, checkpoint, proven)

LEMMA EvidenceNext ==
  ScrubTypeInv /\ EvidenceInv /\ [ScrubNext]_scrubVars => EvidenceInv' /\ [KeepsAlerts]_scrubVars
<1> SUFFICES ASSUME ScrubTypeInv, EvidenceInv, [ScrubNext]_scrubVars
             PROVE  EvidenceInv' /\ KeepsAlerts
  OBVIOUS
<1>0. /\ scrub \in [Scrubs -> ScrubStates]
      /\ ~overlapped => \A s, t \in Scrubs : Active(s) /\ Active(t) => s = t
      /\ ~overlapped => \A s \in Scrubs :
           Holding(s) /\ checkpoint # NoCheckpoint => Covers(scrub[s].state, checkpoint, proven)
  BY DEF ScrubTypeInv, EvidenceInv
<1>1. KeepsAlerts <=> (checkpoint # NoCheckpoint /\ ~overlapped' =>
                         Covers(checkpoint', checkpoint, proven'))
  BY DEF KeepsAlerts, Covers
<1>2. \A c, seen : Covers(c, c, seen)
  BY DEF Covers
<1>3. ASSUME NEW s \in Scrubs, NEW v, scrub' = [scrub EXCEPT ![s] = v],
             Active(s), overlapped' = overlapped,
             ~overlapped => /\ checkpoint # NoCheckpoint => Covers(checkpoint', checkpoint, proven')
                            /\ v.step \in {"canaries", "walk"} /\ checkpoint' # NoCheckpoint =>
                                 Covers(v.state, checkpoint', proven')
      PROVE  EvidenceInv' /\ KeepsAlerts
  <2>1. ASSUME ~overlapped, NEW t \in Scrubs, t # s
        PROVE  ~Active(t)' /\ ~Holding(t)'
    BY <1>0, <1>3, <2>1 DEF Active, Holding
  <2>2. scrub'[s] = v
    BY <1>0, <1>3
  <2> QED BY <1>1, <1>3, <2>1, <2>2 DEF EvidenceInv, Holding
<1>4. ASSUME NEW s \in Scrubs, ReadIndex(s) PROVE EvidenceInv' /\ KeepsAlerts
  <2>1. /\ ~Active(s) /\ checkpoint' = checkpoint /\ proven' = proven
        /\ overlapped' = (overlapped \/ \E t \in Scrubs : Active(t))
        /\ \A t \in Scrubs : t # s => scrub'[t] = scrub[t]
        /\ ~Holding(s)'
    BY <1>0, <1>4 DEF ReadIndex, Holding
  <2>2. ASSUME ~overlapped' PROVE \A t \in Scrubs : ~Holding(t)' /\ (Active(t)' => t = s)
    BY <2>1, <2>2 DEF Active, Holding
  <2> QED BY <1>1, <1>2, <2>1, <2>2 DEF EvidenceInv
<1>5. ASSUME NEW s \in Scrubs, ReadRest(s) PROVE EvidenceInv' /\ KeepsAlerts
  BY <1>2, <1>3, <1>5 DEF ReadRest, Active
<1>6. ASSUME NEW s \in Scrubs, Resume(s) PROVE EvidenceInv' /\ KeepsAlerts
  <2> DEFINE u == scrub[s]
  <2>1. UNCHANGED <<checkpoint, proven, overlapped>> /\ Active(s)
    BY <1>6 DEF Resume, Active
  <2>2. CASE Continues(checkpoint, u)
    <3>1. scrub' = [scrub EXCEPT ![s] =
            [step |-> "canaries", rows |-> u.rows, state |-> checkpoint]]
      BY <1>6, <2>2 DEF Resume
    <3> QED BY <1>2, <1>3, <2>1, <3>1
  <2>3. CASE ~Continues(checkpoint, u)
    <3>1. PICK c : c = [pass |-> passes + 1, generation |-> u.generation, rows |-> u.rows,
                        next |-> 0, completed |-> FALSE, alerts |-> Inherited(checkpoint)]
      OBVIOUS
    <3>2. scrub' = [scrub EXCEPT ![s] = [step |-> "canaries", rows |-> u.rows, state |-> c]]
      BY <1>6, <2>3, <3>1 DEF Resume
    <3>3. checkpoint # NoCheckpoint => Covers(c, checkpoint, proven)
      BY <3>1 DEF Covers, Inherited
    <3> QED BY <1>2, <1>3, <2>1, <3>2, <3>3
  <2> QED BY <2>2, <2>3
<1>7. ASSUME NEW s \in Scrubs, CheckCanaries(s) PROVE EvidenceInv' /\ KeepsAlerts
  <2> DEFINE u == scrub[s]
             c == u.state
             alerts(found) == (c.alerts \cap Indexed(u.rows)) \cup found
  <2>1. PICK found, read, d :
          /\ found \subseteq {Canary}
          /\ d = [c EXCEPT !.alerts = alerts(found)]
          /\ checkpoint' = d
          /\ scrub' = [scrub EXCEPT ![s] =
               [step |-> "walk", rows |-> u.rows, state |-> d, worked |-> read]]
    BY <1>7 DEF CheckCanaries
  <2>2. /\ checkpoint' = d /\ c \in Checkpoints /\ c.rows = u.rows
        /\ scrub' = [scrub EXCEPT ![s] =
             [step |-> "walk", rows |-> u.rows, state |-> d, worked |-> read]]
        /\ UNCHANGED <<proven, overlapped>> /\ Active(s) /\ Holding(s)
    BY <1>7, <2>1, ScrubShapes DEF CheckCanaries, Holding, Active
  <2>3. d.pass = c.pass /\ d.rows = c.rows /\ d.alerts = alerts(found)
    BY <2>1, <2>2 DEF Checkpoints
  <2>4. ASSUME ~overlapped, checkpoint # NoCheckpoint PROVE Covers(d, checkpoint, proven)
    <3>1. Covers(c, checkpoint, proven)
      BY <1>0, <2>2, <2>4
    <3> QED BY <2>2, <2>3, <3>1 DEF Covers
  <2>5. PICK v : v = [step |-> "walk", rows |-> u.rows, state |-> d, worked |-> read]
    OBVIOUS
  <2>6. scrub' = [scrub EXCEPT ![s] = v] /\ v.state = d
    BY <2>2, <2>5
  <2> QED BY <1>2, <1>3, <2>2, <2>4, <2>6
<1>8. ASSUME NEW s \in Scrubs, ScrubNote(s) PROVE EvidenceInv' /\ KeepsAlerts
  <2> DEFINE u == scrub[s]
             c == u.state
             n == NoteAt(u.rows, c.next)
  <2>1. PICK right \in BOOLEAN, d \in Checkpoints :
          /\ scrub' = [scrub EXCEPT ![s] =
               [step |-> "walk", rows |-> u.rows, state |-> d, worked |-> TRUE]]
          /\ checkpoint' \in {checkpoint, d}
          /\ d.pass = c.pass /\ d.rows = c.rows /\ c.rows = u.rows
          /\ d.alerts = IF right THEN c.alerts \ {n} ELSE c.alerts \cup {n}
          /\ proven' = IF right THEN proven \cup {<<c.pass, n, u.rows[n]>>} ELSE proven
    BY <1>8, NoteStep
  <2>2. /\ scrub' = [scrub EXCEPT ![s] =
             [step |-> "walk", rows |-> u.rows, state |-> d, worked |-> TRUE]]
        /\ checkpoint' \in {checkpoint, d}
        /\ d.pass = c.pass /\ d.rows = c.rows /\ c.rows = u.rows
        /\ d.alerts = IF right THEN c.alerts \ {n} ELSE c.alerts \cup {n}
    BY <2>1
  <2>3. /\ proven' = IF right THEN proven \cup {<<c.pass, n, u.rows[n]>>} ELSE proven
        /\ overlapped' = overlapped /\ Active(s) /\ Holding(s)
    BY <1>8, <2>1 DEF ScrubNote, Active, Holding
  <2>4. ASSUME ~overlapped, checkpoint # NoCheckpoint PROVE Covers(d, checkpoint, proven')
    <3>1. Covers(c, checkpoint, proven)
      BY <1>0, <2>3, <2>4
    <3> QED BY <2>2, <2>3, <3>1 DEF Covers
  <2> QED BY <1>2, <1>3, <2>2, <2>3, <2>4
<1>9. ASSUME NEW s \in Scrubs, FinishScrub(s) PROVE EvidenceInv' /\ KeepsAlerts
  <2>1. PICK c : c = scrub[s].state
    OBVIOUS
  <2>2. PICK d : d = [c EXCEPT !.completed = (c.next = Cardinality(Indexed(c.rows)))]
    OBVIOUS
  <2>3. /\ checkpoint' = d /\ c \in Checkpoints /\ scrub' = [scrub EXCEPT ![s] = Idle]
        /\ UNCHANGED <<proven, overlapped>> /\ Active(s) /\ Holding(s)
    BY <1>9, <2>1, <2>2, ScrubShapes DEF FinishScrub, Holding, Active
  <2>4. d.pass = c.pass /\ d.rows = c.rows /\ d.alerts = c.alerts
    BY <2>2, <2>3 DEF Checkpoints
  <2>5. ASSUME ~overlapped, checkpoint # NoCheckpoint PROVE Covers(d, checkpoint, proven)
    BY <1>0, <2>1, <2>3, <2>4, <2>5 DEF Covers
  <2> QED BY <1>3, <2>3, <2>5 DEF Idle
<1>10. ASSUME NEW s \in Scrubs, ScrubDies(s) PROVE EvidenceInv' /\ KeepsAlerts
  BY <1>2, <1>3, <1>10 DEF ScrubDies, Idle
<1>11. CASE UNCHANGED <<checkpoint, scrub, proven, overlapped>>
  BY <1>0, <1>1, <1>2, <1>11 DEF EvidenceInv, Active, Holding
<1> QED BY <1>4, <1>5, <1>6, <1>7, <1>8, <1>9, <1>10, <1>11
    DEF ScrubNext, EditNote, PublishRow, MoveGeneration, MoveLate, Moved, Tamper,
      InitializeCanaries, scrubVars

(* No alert about a note of the index goes unread, as long as invocations  *)
(* do not overlap: the one that runs has every alert of the checkpoint, or *)
(* has read the note.                                                      *)
THEOREM AlertsNeedProof == ScrubSpec => EvidenceIsKept
<1>1. ScrubInit => EvidenceInv
  BY DEF ScrubInit, EvidenceInv, Active, Holding, Idle
<1> QED BY <1>1, ScrubTypeInit, ScrubTypeNext, EvidenceNext, PTL DEF ScrubSpec, EvidenceIsKept

--------------------------------------------------------------------------------
(***************************************************************************)
(* Write progress: any number of callers, of requests, crashes, reverts    *)
(* and moves.  The invariant is about the journal as the next writer finds *)
(* it, and about every request that is still on its way.                   *)
(***************************************************************************)

Answers == [advice : Advices, path : Paths, hash : Contents]

(* Only a caller that made a request asks what became of it. *)
HasAsked(c) == call[c].step # "none" \/ answer[c] # NoAnswer => last[c] # NoRequest

ProgressTypeInv ==
  /\ ProgressTypeOK
  /\ answer \in [Callers -> Answers \cup {NoAnswer}]
  /\ moves \in Nat
  /\ \A c \in Callers : HasAsked(c)

LEMMA AnswerShapes ==
  ASSUME NEW f \in [Callers -> Answers \cup {NoAnswer}], NEW c \in Callers, f[c] # NoAnswer
  PROVE  f[c].advice \in Advices /\ f[c].hash \in Contents /\ f[c].path \in Paths
BY DEF Answers

LEMMA RequestShapes ==
  ASSUME NEW r \in Requests
  PROVE  /\ r.caller \in Callers /\ r.key \in Keys /\ r.key \in Nat /\ r.path \in Paths
         /\ r.expected \in Contents \cup {NoContent}
BY ProgressAssumption DEF Requests, Keys

LEMMA ReceiptShapes ==
  ASSUME NEW x \in Receipts
  PROVE  /\ x.caller \in Callers /\ x.key \in Keys /\ x.key \in Nat /\ x.path \in Paths
         /\ x.before \in Contents /\ x.after \in Contents
BY ProgressAssumption DEF Receipts, Keys

(* The journal as the next writer finds it once recovery is done. *)
Log == Recovered(receipts)

LEMMA LogIsJournal == ProgressTypeOK => Log \in Seq(Receipts)
<1> SUFFICES ASSUME ProgressTypeOK PROVE Log \in Seq(Receipts)
  OBVIOUS
<1>1. receipts \in Seq(Receipts) /\ left \in Seq(Receipts)
  BY DEF ProgressTypeOK
<1>2. left # <<>> => left[1] \in Receipts
  BY <1>1
<1> QED BY <1>1, <1>2 DEF Log, Recovered

(* What a request would write. *)
LEMMA WrittenShapes ==
  ASSUME ProgressTypeOK, NEW r \in Requests
  PROVE  /\ Appended(r) \in Contents /\ Receipt(r) \in Receipts
         /\ Receipt(r).after = Appended(r) /\ Appended(r) # content
<1>1. content \in [Callers -> Nat] /\ place \in Paths /\ r.caller \in Callers /\ r.key \in Keys
  BY RequestShapes DEF ProgressTypeOK, Contents
<1>2. Appended(r) \in Contents
  BY <1>1 DEF Appended, Contents
<1>3. Appended(r)[r.caller] = content[r.caller] + 1
  BY <1>1 DEF Appended
<1>4. Appended(r) # content
  BY <1>1, <1>3
<1> QED BY <1>1, <1>2, <1>4 DEF Receipt, Receipts, Contents

LEMMA NoCallIsListed == NoCall \in Listing
BY DEF NoCall, Listing

LEMMA ProgressTypeInit == ProgressInit => ProgressTypeInv
<1> SUFFICES ASSUME ProgressInit PROVE ProgressTypeInv
  OBVIOUS
<1>1. Empty \in Contents
  BY DEF Empty, Contents
<1>2. NoCall \in Listing
  BY NoCallIsListed
<1>3. /\ \A c \in Callers : answer[c] = NoAnswer /\ HasAsked(c)
      /\ answer \in [Callers -> Answers \cup {NoAnswer}]
  BY DEF ProgressInit, HasAsked, NoCall
<1>4. ProgressTypeOK
  BY <1>1, <1>2, <1>3 DEF ProgressInit, ProgressTypeOK
<1> QED BY <1>3, <1>4 DEF ProgressInit, ProgressTypeInv

(* A step of a caller or the tool. *)
LEMMA AskingTypes ==
  ASSUME ProgressTypeInv, UNCHANGED <<place, content, receipts, left, moves>>,
         sent' \subseteq Requests, last' \in [Callers -> Requests \cup {NoRequest}],
         call' \in [Callers -> Listing], quiet' \subseteq Callers,
         answer' \in [Callers -> Answers \cup {NoAnswer}],
         NEW c \in Callers, HasAsked(c)',
         \A d \in Callers \ {c} :
           last'[d] = last[d] /\ call'[d] = call[d] /\ answer'[d] = answer[d]
  PROVE  ProgressTypeInv'
<1>1. \A d \in Callers : HasAsked(d)'
  BY DEF ProgressTypeInv, HasAsked
<1>2. \A d \in Callers : answer'[d] # NoAnswer =>
        answer'[d].advice \in Advices /\ answer'[d].hash \in Contents /\ answer'[d].path \in Paths
  BY AnswerShapes
<1>3. ProgressTypeOK'
  BY <1>2 DEF ProgressTypeInv, ProgressTypeOK
<1> QED BY <1>1, <1>3 DEF ProgressTypeInv

LEMMA SendTypes ==
  ASSUME ProgressTypeInv, NEW c \in Callers, NEW r \in Requests, Send(c, r)
  PROVE  ProgressTypeInv'
<1>1. /\ sent \subseteq Requests /\ last \in [Callers -> Requests \cup {NoRequest}]
      /\ call \in [Callers -> Listing] /\ quiet \subseteq Callers
      /\ answer \in [Callers -> Answers \cup {NoAnswer}]
  BY DEF ProgressTypeInv, ProgressTypeOK
<1>2. /\ sent' \subseteq Requests /\ last' \in [Callers -> Requests \cup {NoRequest}]
      /\ answer' \in [Callers -> Answers \cup {NoAnswer}] /\ quiet' \subseteq Callers
      /\ last'[c] = r /\ r # NoRequest
      /\ \A d \in Callers \ {c} : last'[d] = last[d] /\ answer'[d] = answer[d]
      /\ UNCHANGED <<place, content, receipts, left, moves, call>>
  BY <1>1, ProgressAssumption DEF Send
<1> QED BY <1>1, <1>2, AskingTypes DEF HasAsked

LEMMA ProgressTypeNext == ProgressTypeInv /\ [ProgressNext]_progress => ProgressTypeInv'
<1> SUFFICES ASSUME ProgressTypeInv, [ProgressNext]_progress PROVE ProgressTypeInv'
  OBVIOUS
<1>0. /\ ProgressTypeOK /\ place \in Paths /\ content \in Contents
      /\ receipts \in Seq(Receipts) /\ left \in Seq(Receipts)
      /\ sent \subseteq Requests /\ last \in [Callers -> Requests \cup {NoRequest}]
      /\ call \in [Callers -> Listing] /\ quiet \subseteq Callers
      /\ answer \in [Callers -> Answers \cup {NoAnswer}] /\ moves \in Nat
      /\ Log \in Seq(Receipts)
      /\ \A c \in Callers : HasAsked(c)
  BY LogIsJournal DEF ProgressTypeInv, ProgressTypeOK
(* What a step of the writer leaves alone. *)
<1>1. ASSUME place' \in Paths, content' \in Contents, receipts' \in Seq(Receipts),
             left' \in Seq(Receipts), sent' \subseteq sent, quiet' = {},
             UNCHANGED <<last, call, answer>>, moves' \in Nat
      PROVE  ProgressTypeInv'
  <2>1. ProgressTypeOK'
    BY <1>0, <1>1 DEF ProgressTypeOK
  <2>2. \A c \in Callers : HasAsked(c)'
    BY <1>0, <1>1 DEF HasAsked
  <2> QED BY <1>0, <1>1, <2>1, <2>2 DEF ProgressTypeInv
<1>2. ASSUME NEW r \in sent, Perform(r) PROVE ProgressTypeInv'
  <2>1. Appended(r) \in Contents /\ Receipt(r) \in Receipts
    BY <1>0, WrittenShapes
  <2>2. content' \in {content, Appended(r)} /\ receipts' \in {Log, Append(Log, Receipt(r))}
    BY <1>2 DEF Perform, Log
  <2>3. Append(Log, Receipt(r)) \in Seq(Receipts)
    BY <1>0, <2>1
  <2>4. content' \in Contents /\ receipts' \in Seq(Receipts)
    BY <1>0, <2>1, <2>2, <2>3
  <2> QED BY <1>0, <1>1, <1>2, <2>4 DEF Perform
<1>3. ASSUME NEW r \in sent, Cut(r) PROVE ProgressTypeInv'
  <2>1. Appended(r) \in Contents /\ Receipt(r) \in Receipts
    BY <1>0, WrittenShapes
  <2>2. /\ content' \in {content, Appended(r)} /\ receipts' \in {receipts, Log}
        /\ left' \in {left, <<Receipt(r)>>}
    BY <1>3 DEF Cut, Log
  <2>3. <<Receipt(r)>> \in Seq(Receipts)
    BY <2>1
  <2>4. content' \in Contents /\ receipts' \in Seq(Receipts) /\ left' \in Seq(Receipts)
    BY <1>0, <2>1, <2>2, <2>3
  <2> QED BY <1>0, <1>1, <1>3, <2>4 DEF Cut
<1>4. CASE Revert
  <2>1. PICK k \in DOMAIN Log : \E to \in {Log[k].before, Log[k].after} \ {content} :
          /\ content' = to
          /\ receipts' = Append(Log, [caller |-> Log[k].caller, key |-> 0, path |-> place,
                                      before |-> content, after |-> to])
    BY <1>4 DEF Revert, Log
  <2>2. Log[k] \in Receipts
    BY <1>0
  <2>3. content' \in Contents /\ receipts' \in Seq(Receipts)
    BY <1>0, <2>1, <2>2, ProgressAssumption DEF Receipts, Keys
  <2> QED BY <1>0, <1>1, <1>4, <2>3 DEF Revert
<1>5. CASE Move
  BY <1>0, <1>1, <1>5 DEF Move, Log
<1>6. ASSUME NEW c \in Callers, First(c) PROVE ProgressTypeInv'
  <2>1. PICK expected \in {NoContent, content} :
          Send(c, [caller |-> c, key |-> 1, path |-> place, expected |-> expected])
    BY <1>6 DEF First
  <2>2. [caller |-> c, key |-> 1, path |-> place, expected |-> expected] \in Requests
    BY <1>0, ProgressAssumption DEF Requests, Keys
  <2> QED BY <2>1, <2>2, SendTypes
<1>7. ASSUME NEW c \in Callers, Ask(c) PROVE ProgressTypeInv'
  <2>1. PICK path \in {place, last[c].path} :
          call' = [call EXCEPT ![c] = [step |-> "list", at |-> path, records |-> <<>>]]
    BY <1>7 DEF Ask
  <2>2. path \in Paths
    BY <1>0, <1>7, RequestShapes DEF Ask
  <2>3. [step |-> "list", at |-> path, records |-> <<>>] \in Listing
    BY <2>2 DEF Listing
  <2>4. call' \in [Callers -> Listing]
    BY <1>0, <2>1, <2>3
  <2>5. HasAsked(c)'
    BY <1>7 DEF Ask, HasAsked
  <2>6. \A d \in Callers \ {c} : call'[d] = call[d]
    BY <1>0, <2>1
  <2> QED BY <1>0, <1>7, <2>4, <2>5, <2>6, AskingTypes DEF Ask
<1>8. ASSUME NEW c \in Callers, List(c) PROVE ProgressTypeInv'
  <2>1. call[c] \in Listing /\ call' = [call EXCEPT ![c] =
          [[call[c] EXCEPT !.step = "read"] EXCEPT !.records = receipts]]
    BY <1>0, <1>8 DEF List
  <2>2. [[call[c] EXCEPT !.step = "read"] EXCEPT !.records = receipts] \in Listing
    BY <1>0, <2>1 DEF Listing
  <2>3. call' \in [Callers -> Listing]
    BY <1>0, <2>1, <2>2
  <2>4. HasAsked(c)'
    BY <1>0, <1>8 DEF List, HasAsked
  <2>5. \A d \in Callers \ {c} : call'[d] = call[d]
    BY <1>0, <2>1
  <2> QED BY <1>0, <1>8, <2>3, <2>4, <2>5, AskingTypes DEF List
<1>9. ASSUME NEW c \in Callers, Answer(c) PROVE ProgressTypeInv'
  <2>1. PICK advice \in {Advice(call[c].records, last[c]), "inspect target"} :
          answer' = [answer EXCEPT ![c] = [advice |-> advice, path |-> place, hash |-> content]]
    BY <1>9 DEF Answer
  <2>2. Advice(call[c].records, last[c]) \in Advices
    BY DEF Advice, Advices
  <2>3. [advice |-> advice, path |-> place, hash |-> content] \in Answers
    BY <1>0, <2>1, <2>2 DEF Answers, Advices
  <2>4. answer' \in [Callers -> Answers \cup {NoAnswer}]
    BY <1>0, <2>1, <2>3
  <2>5. NoCall \in Listing /\ call' = [call EXCEPT ![c] = NoCall]
    BY <1>9, NoCallIsListed DEF Answer
  <2>6. call' \in [Callers -> Listing]
    BY <1>0, <2>5
  <2>7. quiet' \subseteq Callers
    BY <1>0, <1>9 DEF Answer
  <2>8. UNCHANGED <<place, content, receipts, left, sent, last, moves>>
    BY <1>9 DEF Answer
  <2>10. HasAsked(c)'
    BY <1>0, <1>9 DEF Answer, HasAsked
  <2>11. \A d \in Callers \ {c} : call'[d] = call[d] /\ answer'[d] = answer[d]
    BY <1>0, <2>1, <2>5
  <2> QED BY <1>0, <2>4, <2>6, <2>7, <2>8, <2>10, <2>11, AskingTypes
<1>10. ASSUME NEW c \in Callers, Follow(c) PROVE ProgressTypeInv'
  <2>1. answer[c] \in Answers
    BY <1>0, <1>10 DEF Follow
  <2>0. last[c] # NoRequest
    BY <1>0, <1>10 DEF Follow, HasAsked
  <2>2. CASE answer[c].advice \in {"replay", "replay or inspect recovery"}
    <3>1. Send(c, last[c]) /\ last[c] \in Requests
      BY <1>0, <1>10, <2>0, <2>2 DEF Follow
    <3> QED BY <3>1, SendTypes
  <2>3. CASE answer[c].advice = "new request id"
    <3> DEFINE r == [caller |-> c, key |-> last[c].key + 1, path |-> answer[c].path,
                     expected |-> answer[c].hash]
    <3>1. Send(c, r) /\ last[c].key < MaxKeys
      BY <1>10, <2>3 DEF Follow
    <3>3. last[c].key + 1 \in Keys
      BY <1>0, <2>0, <3>1, RequestShapes, ProgressAssumption DEF Keys
    <3>2. r \in Requests
      BY <2>1, <3>3 DEF Requests, Answers
    <3> HIDE DEF r
    <3> QED BY <3>1, <3>2, SendTypes
  <2>4. CASE answer[c].advice \notin {"replay", "replay or inspect recovery", "new request id"}
    <3>1. /\ answer' = [answer EXCEPT ![c] = NoAnswer] /\ quiet' = quiet \ {c}
          /\ UNCHANGED <<place, content, receipts, left, sent, last, call, moves>>
      BY <1>10, <2>4 DEF Follow
    <3>2. /\ answer' \in [Callers -> Answers \cup {NoAnswer}] /\ HasAsked(c)'
          /\ \A d \in Callers \ {c} : answer'[d] = answer[d]
      BY <1>0, <2>0, <3>1 DEF HasAsked
    <3> QED BY <1>0, <3>1, <3>2, AskingTypes
  <2> QED BY <2>2, <2>3, <2>4
<1>11. CASE UNCHANGED progress
  BY <1>0, <1>1, <1>11 DEF progress, ProgressTypeInv, ProgressTypeOK, HasAsked
<1> QED BY <1>2, <1>3, <1>4, <1>5, <1>6, <1>7, <1>8, <1>9, <1>10, <1>11 DEF ProgressNext

--------------------------------------------------------------------------------
(* The record of a request is one of its records, and there is none only   *)
(* if it has none: of finitely many one is the latest.                     *)
LEMMA RecordOfRequest ==
  ASSUME NEW log \in Seq(Receipts), NEW r
  PROVE  LET k == RecordOf(log, r) IN
    /\ k # 0 => /\ k \in DOMAIN log /\ log[k].key # 0
                /\ log[k].key = r.key /\ log[k].caller = r.caller
    /\ k = 0 => \A j \in DOMAIN log : log[j].key # 0 =>
                  log[j].key # r.key \/ log[j].caller # r.caller
<1> DEFINE those == {k \in DOMAIN log :
                       log[k].key # 0 /\ log[k].key = r.key /\ log[k].caller = r.caller}
<1>1. Len(log) \in Nat /\ DOMAIN log = 1..Len(log) /\ those \in SUBSET (1..Len(log))
  OBVIOUS
<1>5. IsFiniteSet(1..Len(log)) /\ 1..Len(log) \subseteq Nat
  BY <1>1, FS_Interval
<1>2. IsFiniteSet(those) /\ those \in SUBSET Nat
  <2> HIDE DEF those
  <2> QED BY <1>1, <1>5, FS_Subset
<1>3. CASE those = {}
  BY <1>3 DEF RecordOf
<1>4. CASE those # {}
  <2>1. PICK n \in those : \A m \in those : m <= n
    BY <1>2, <1>4, GreatestExists
  <2>2. RecordOf(log, r) \in those
    BY <1>4, <2>1 DEF RecordOf
  <2> QED BY <1>1, <2>2
<1> QED BY <1>3, <1>4

(* Where the journal has a record of the first request of a caller. *)
Began(log, c) == \E k \in DOMAIN log : log[k].caller = c /\ log[k].key = 1

(* Bytes with no entry twice, and none of a caller that did not begin. *)
Modest(body, log) == \A c \in Callers : body[c] <= 1 /\ (body[c] > 0 => Began(log, c))

(* A record of a request is of an entry that was not there before. *)
Plain(x, log) ==
  /\ Modest(x.before, log) /\ Modest(x.after, log)
  /\ x.key # 0 => Began(log, x.caller) /\ x.before[x.caller] = 0 /\ x.after[x.caller] = 1

(* A request expects bytes without its caller's entry, or is its first. *)
Asked(r, log) ==
  /\ r.key # 0
  /\ IF r.expected = NoContent THEN r.key = 1 ELSE r.expected[r.caller] = 0
  /\ r.key # 1 => Began(log, r.caller)

(* An answer that calls for another request shows bytes without the entry. *)
Advised(a, c, log) ==
  a # NoAnswer /\ a.advice = "new request id" => a.hash[c] = 0 /\ Began(log, c)

LogInv ==
  /\ Modest(content, Log)
  /\ \A k \in DOMAIN Log : Plain(Log[k], Log)

AskInv ==
  /\ \A r \in sent : Asked(r, Log) /\ last[r.caller] # NoRequest
  /\ \A c \in Callers :
       /\ last[c] # NoRequest => last[c].caller = c /\ Asked(last[c], Log)
       /\ Began(Log, c) => last[c] # NoRequest
       /\ Advised(answer[c], c, Log)
       /\ \A k \in DOMAIN call[c].records :
            \E j \in DOMAIN Log : Log[j] = call[c].records[k]

(* Nothing is taken back when the journal grows. *)
Grows(log, more) ==
  /\ \A c : Began(log, c) => Began(more, c)
  /\ \A k \in DOMAIN log : k \in DOMAIN more /\ more[k] = log[k]

LEMMA Growth ==
  ASSUME NEW log, NEW more, Grows(log, more)
  PROVE  /\ \A body : Modest(body, log) => Modest(body, more)
         /\ \A x : Plain(x, log) => Plain(x, more)
         /\ \A r : Asked(r, log) => Asked(r, more)
         /\ \A a, c : Advised(a, c, log) => Advised(a, c, more)
<1>1. \A body : Modest(body, log) => Modest(body, more)
  BY DEF Grows, Modest
<1> QED BY <1>1 DEF Grows, Plain, Asked, Advised

LEMMA LongerLog ==
  ASSUME NEW log \in Seq(Receipts), NEW x \in Receipts
  PROVE  LET more == Append(log, x) IN
    /\ Grows(log, more)
    /\ x.key = 1 => Began(more, x.caller)
    /\ \A c : Began(more, c) => Began(log, c) \/ (x.key = 1 /\ x.caller = c)
    /\ \A k \in DOMAIN more : (k \in DOMAIN log /\ more[k] = log[k]) \/ more[k] = x
<1> DEFINE more == Append(log, x)
<1>1. /\ Len(log) \in Nat /\ DOMAIN log = 1..Len(log) /\ DOMAIN more = 1..(Len(log) + 1)
      /\ \A k \in DOMAIN log : more[k] = log[k]
      /\ more[Len(log) + 1] = x
  OBVIOUS
<1> HIDE DEF more
<1>2. \A k \in DOMAIN more : (k \in DOMAIN log /\ more[k] = log[k]) \/ k = Len(log) + 1
  BY <1>1
<1>3. \A k \in DOMAIN log : k \in DOMAIN more /\ more[k] = log[k]
  BY <1>1
<1>4. Len(log) + 1 \in DOMAIN more
  BY <1>1
<1>5. \A c : Began(log, c) => Began(more, c)
  BY <1>3 DEF Began
<1>6. x.key = 1 => Began(more, x.caller)
  BY <1>1, <1>4 DEF Began
<1>7. \A c : Began(more, c) => Began(log, c) \/ (x.key = 1 /\ x.caller = c)
  <2> SUFFICES ASSUME NEW c, NEW k \in DOMAIN more, more[k].caller = c, more[k].key = 1
               PROVE  Began(log, c) \/ (x.key = 1 /\ x.caller = c)
    BY DEF Began
  <2>1. CASE k \in DOMAIN log /\ more[k] = log[k]
    <3>1. log[k].caller = c /\ log[k].key = 1 /\ k \in DOMAIN log
      BY <2>1
    <3> QED BY <3>1 DEF Began
  <2>2. CASE k = Len(log) + 1
    BY <1>1, <2>2
  <2> QED BY <1>2, <2>1, <2>2
<1>8. \A k \in DOMAIN more : (k \in DOMAIN log /\ more[k] = log[k]) \/ more[k] = x
  BY <1>1, <1>2
<1> QED BY <1>3, <1>5, <1>6, <1>7, <1>8 DEF Grows, more

(* What a step does to the note and the journal. *)
LEMMA LogSteps ==
  ASSUME ProgressTypeInv, [ProgressNext]_progress
  PROVE  \/ content' = content /\ Log' = Log
         \/ \E r \in sent :
              /\ Verdict(Log, r) = "written"
              /\ content' = Appended(r) /\ Log' = Append(Log, Receipt(r))
         \/ \E k \in DOMAIN Log, to \in Contents :
              /\ to \in {Log[k].before, Log[k].after} /\ content' = to
              /\ Log' = Append(Log, [caller |-> Log[k].caller, key |-> 0, path |-> place,
                                     before |-> content, after |-> to])
<1>0. /\ ProgressTypeOK /\ sent \subseteq Requests /\ Log \in Seq(Receipts)
      /\ content \in Contents
  BY LogIsJournal DEF ProgressTypeInv, ProgressTypeOK
<1>1. left' = <<>> => Log' = receipts'
  BY DEF Log, Recovered
<1>2. UNCHANGED <<content, receipts, left>> => Log' = Log
  BY DEF Log, Recovered
<1>3. ASSUME NEW r \in sent, Perform(r)
      PROVE  \/ content' = content /\ Log' = Log
             \/ /\ Verdict(Log, r) = "written"
                /\ content' = Appended(r) /\ Log' = Append(Log, Receipt(r))
  BY <1>1, <1>3 DEF Perform, Log
<1>4. ASSUME NEW r \in sent, Cut(r)
      PROVE  \/ content' = content /\ Log' = Log
             \/ /\ Verdict(Log, r) = "written"
                /\ content' = Appended(r) /\ Log' = Append(Log, Receipt(r))
  <2>1. CASE Verdict(Log, r) = "written"
    <3>1. Receipt(r).after = Appended(r) /\ Appended(r) # content
      BY <1>0, WrittenShapes
    <3>2. PICK x : x = Receipt(r)
      OBVIOUS
    <3>3. left' = <<x>> /\ receipts' = Log /\ content' \in {content, Appended(r)}
      BY <1>4, <2>1, <3>2 DEF Cut, Log
    <3>4. left' # <<>> /\ left'[1] = x
      BY <3>3
    <3>5. Log' = IF content' = x.after THEN Append(Log, x) ELSE Log
      BY <3>3, <3>4 DEF Log, Recovered
    <3> QED BY <2>1, <3>1, <3>2, <3>3, <3>5
  <2>2. CASE Verdict(Log, r) # "written"
    BY <1>2, <1>4, <2>2 DEF Cut, Log
  <2> QED BY <2>1, <2>2
<1>5. CASE Revert
  <2>1. PICK k \in DOMAIN Log : \E to \in {Log[k].before, Log[k].after} \ {content} :
          /\ content' = to
          /\ receipts' = Append(Log, [caller |-> Log[k].caller, key |-> 0, path |-> place,
                                      before |-> content, after |-> to])
    BY <1>5 DEF Revert, Log
  <2>2. Log[k] \in Receipts /\ Log' = receipts'
    BY <1>0, <1>1, <1>5 DEF Revert
  <2>3. Log[k].before \in Contents /\ Log[k].after \in Contents
    BY <2>2, ReceiptShapes
  <2> QED BY <2>1, <2>2, <2>3
<1>6. CASE Move
  BY <1>1, <1>6 DEF Move, Log
<1>7. CASE UNCHANGED <<content, receipts, left>>
  BY <1>2, <1>7
<1> QED BY <1>3, <1>4, <1>5, <1>6, <1>7
    DEF ProgressNext, progress, First, Ask, List, Answer, Follow, Send

(* A note gains an entry that it does not have. *)
LEMMA LogNext ==
  ASSUME ProgressTypeInv, LogInv, AskInv, [ProgressNext]_progress
  PROVE  /\ Grows(Log, Log') /\ LogInv'
         /\ \A c \in Callers : Began(Log', c) => last[c] # NoRequest
<1>0. /\ ProgressTypeOK /\ sent \subseteq Requests /\ Log \in Seq(Receipts)
      /\ content \in Contents /\ place \in Paths
      /\ \A k \in DOMAIN Log : Log[k] \in Receipts /\ Plain(Log[k], Log)
      /\ Modest(content, Log)
      /\ \A c \in Callers : Began(Log, c) => last[c] # NoRequest
  BY LogIsJournal DEF ProgressTypeInv, ProgressTypeOK, LogInv, AskInv
<1>1. CASE content' = content /\ Log' = Log
  BY <1>0, <1>1 DEF Grows, LogInv
<1>2. ASSUME NEW x \in Receipts, Log' = Append(Log, x), Plain(x, Log'), content' = x.after,
             x.key = 1 => last[x.caller] # NoRequest
      PROVE  /\ Grows(Log, Log') /\ LogInv'
             /\ \A c \in Callers : Began(Log', c) => last[c] # NoRequest
  <2>1. /\ Grows(Log, Log')
        /\ \A c : Began(Log', c) => Began(Log, c) \/ (x.key = 1 /\ x.caller = c)
        /\ \A k \in DOMAIN Log' : (k \in DOMAIN Log /\ Log'[k] = Log[k]) \/ Log'[k] = x
    BY <1>0, <1>2, LongerLog
  <2>2. \A k \in DOMAIN Log' : Plain(Log'[k], Log')
    BY <1>0, <1>2, <2>1, Growth
  <2>3. Modest(content', Log')
    BY <1>2 DEF Plain
  <2> QED BY <1>0, <1>2, <2>1, <2>2, <2>3 DEF LogInv
<1>3. ASSUME NEW r \in sent, Verdict(Log, r) = "written",
             content' = Appended(r), Log' = Append(Log, Receipt(r))
      PROVE  \E x \in Receipts : /\ Log' = Append(Log, x) /\ Plain(x, Log') /\ content' = x.after
                                 /\ x.key = 1 => last[x.caller] # NoRequest
  <2>1. PICK x : x = Receipt(r)
    OBVIOUS
  <2>2. PICK c : c = r.caller
    OBVIOUS
  <2>3. /\ x \in Receipts /\ x.after = Appended(r) /\ x.before = content
        /\ x.key = r.key /\ x.caller = c /\ c \in Callers /\ r \in Requests
    BY <1>0, <2>1, <2>2, WrittenShapes, RequestShapes DEF Receipt
  <2>4. Asked(r, Log) /\ last[c] # NoRequest
    BY <2>2 DEF AskInv
  <2>5. content[c] \in Nat
    BY <1>0, <2>3 DEF Contents
  <2>6. content[c] = 0
    <3>1. r.expected = content \/ (r.expected = NoContent /\ RecordOf(Log, r) = 0)
      BY <1>3 DEF Verdict
    <3>2. CASE r.expected = content
      <4>1. r.expected # NoContent
        BY <1>0, <3>2, ProgressAssumption
      <4> QED BY <2>2, <2>4, <3>2, <4>1 DEF Asked
    <3>3. CASE r.expected = NoContent /\ RecordOf(Log, r) = 0
      <4>1. r.key = 1
        BY <2>4, <3>3 DEF Asked
      <4>2. ~Began(Log, c)
        BY <1>0, <2>2, <3>3, <4>1, RecordOfRequest DEF Began
      <4> QED BY <1>0, <2>3, <2>5, <4>2 DEF Modest
    <3> QED BY <3>1, <3>2, <3>3
  <2>7. Grows(Log, Log') /\ (x.key = 1 => Began(Log', c))
    BY <1>0, <1>3, <2>1, <2>3, LongerLog
  <2>8. Began(Log', c)
    BY <2>3, <2>4, <2>2, <2>7 DEF Asked, Grows
  <2>9. \A d \in Callers : Appended(r)[d] = IF d = c THEN 1 ELSE content[d]
    BY <1>0, <2>2, <2>6 DEF Appended, Contents
  <2>10. Modest(content, Log')
    BY <1>0, <2>7, Growth
  <2>11. Modest(Appended(r), Log')
    BY <2>8, <2>9, <2>10 DEF Modest
  <2>12. Plain(x, Log')
    BY <2>3, <2>6, <2>8, <2>9, <2>10, <2>11 DEF Plain
  <2> QED BY <1>3, <2>1, <2>3, <2>4, <2>12
<1>4. ASSUME NEW k \in DOMAIN Log, NEW to \in Contents, to \in {Log[k].before, Log[k].after},
             content' = to,
             Log' = Append(Log, [caller |-> Log[k].caller, key |-> 0, path |-> place,
                                 before |-> content, after |-> to])
      PROVE  \E x \in Receipts : /\ Log' = Append(Log, x) /\ Plain(x, Log') /\ content' = x.after
                                 /\ x.key = 1 => last[x.caller] # NoRequest
  <2>1. PICK x : x = [caller |-> Log[k].caller, key |-> 0, path |-> place,
                      before |-> content, after |-> to]
    OBVIOUS
  <2>2. x \in Receipts /\ x.key = 0 /\ x.before = content /\ x.after = to
    BY <1>0, <2>1, ReceiptShapes, ProgressAssumption DEF Receipts, Keys
  <2>3. Grows(Log, Log')
    BY <1>0, <1>4, <2>1, <2>2, LongerLog
  <2>4. Modest(content, Log) /\ Modest(to, Log)
    BY <1>0, <1>4 DEF Plain
  <2>5. Modest(content, Log') /\ Modest(to, Log')
    BY <2>3, <2>4, Growth
  <2>6. Plain(x, Log')
    BY <2>2, <2>5 DEF Plain
  <2> QED BY <1>4, <2>1, <2>2, <2>6
<1> QED BY <1>1, <1>2, <1>3, <1>4, LogSteps

(* A step of a caller or the tool leaves note and journal alone. *)
LEMMA AskingKeeps ==
  ASSUME ProgressTypeInv, LogInv, AskInv, UNCHANGED <<content, receipts, left>>,
         NEW c \in Callers,
         \A d \in Callers \ {c} :
           last'[d] = last[d] /\ call'[d] = call[d] /\ answer'[d] = answer[d],
         \A r \in sent' : r \in sent \/ (r.caller = c /\ r = last'[c] /\ r # NoRequest),
         last'[c] = last[c]
           \/ (last'[c] # NoRequest /\ last'[c].caller = c /\ Asked(last'[c], Log)),
         Advised(answer'[c], c, Log),
         \A k \in DOMAIN call'[c].records : \E j \in DOMAIN Log : Log[j] = call'[c].records[k]
  PROVE  AskInv'
<1>1. Log' = Log
  BY DEF Log, Recovered
<1>2. last[c] # NoRequest => last'[c] # NoRequest
  OBVIOUS
<1>3. \A d \in Callers : /\ last[d] # NoRequest => last'[d] # NoRequest
                         /\ last'[d] # NoRequest => last'[d].caller = d /\ Asked(last'[d], Log)
  BY <1>2 DEF AskInv
<1>4. \A d \in Callers :
        /\ Began(Log, d) => last'[d] # NoRequest
        /\ Advised(answer'[d], d, Log)
        /\ \A k \in DOMAIN call'[d].records : \E j \in DOMAIN Log : Log[j] = call'[d].records[k]
  BY <1>3 DEF AskInv
<1>5. \A r \in sent' : Asked(r, Log) /\ last'[r.caller] # NoRequest
  <2>1. ASSUME NEW r \in sent PROVE Asked(r, Log) /\ last'[r.caller] # NoRequest
    BY <1>3, RequestShapes DEF AskInv, ProgressTypeInv, ProgressTypeOK
  <2>2. ASSUME NEW r \in sent', r.caller = c, r = last'[c], r # NoRequest
        PROVE  Asked(r, Log) /\ last'[r.caller] # NoRequest
    BY <1>3, <2>2
  <2> QED BY <2>1, <2>2
<1> QED BY <1>1, <1>3, <1>4, <1>5 DEF AskInv

LEMMA AskNext ==
  ASSUME ProgressTypeInv, LogInv, AskInv, [ProgressNext]_progress PROVE AskInv'
<1>0. /\ ProgressTypeOK /\ sent \subseteq Requests /\ Log \in Seq(Receipts)
      /\ content \in Contents /\ receipts \in Seq(Receipts)
      /\ last \in [Callers -> Requests \cup {NoRequest}]
      /\ call \in [Callers -> Listing]
      /\ answer \in [Callers -> Answers \cup {NoAnswer}]
      /\ \A c \in Callers : HasAsked(c)
  BY LogIsJournal DEF ProgressTypeInv, ProgressTypeOK
<1>1. ASSUME sent' \subseteq sent, UNCHANGED <<last, call, answer>> PROVE AskInv'
  <2>1. Grows(Log, Log') /\ \A c \in Callers : Began(Log', c) => last[c] # NoRequest
    BY LogNext
  <2>2. \A r \in sent' : Asked(r, Log') /\ last'[r.caller] # NoRequest
    BY <1>1, <2>1, Growth DEF AskInv
  <2>3. ASSUME NEW c \in Callers
        PROVE  /\ last[c] # NoRequest => last[c].caller = c /\ Asked(last[c], Log')
               /\ Advised(answer[c], c, Log')
    BY <2>1, Growth DEF AskInv
  <2>4. ASSUME NEW c \in Callers, NEW k \in DOMAIN call[c].records
        PROVE  \E j \in DOMAIN Log' : Log'[j] = call[c].records[k]
    BY <2>1 DEF AskInv, Grows
  <2> QED BY <1>1, <2>1, <2>2, <2>3, <2>4 DEF AskInv
<1>2. \A c \in Callers :
        /\ last[c] # NoRequest => last[c].caller = c /\ Asked(last[c], Log)
        /\ Began(Log, c) => last[c] # NoRequest
        /\ Advised(answer[c], c, Log)
        /\ \A k \in DOMAIN call[c].records : \E j \in DOMAIN Log : Log[j] = call[c].records[k]
  BY DEF AskInv
<1>3. ASSUME NEW c \in Callers, NEW r \in Requests, Send(c, r), r.caller = c, Asked(r, Log)
      PROVE  AskInv'
  <2>1. /\ UNCHANGED <<content, receipts, left, call>> /\ sent' = sent \cup {r}
        /\ last'[c] = r /\ answer'[c] = NoAnswer /\ r # NoRequest
        /\ \A d \in Callers \ {c} : last'[d] = last[d] /\ answer'[d] = answer[d]
    BY <1>0, <1>3, ProgressAssumption DEF Send
  <2>2. Advised(answer'[c], c, Log)
    BY <2>1 DEF Advised
  <2> QED BY <1>2, <1>3, <2>1, <2>2, AskingKeeps
<1>4. ASSUME NEW c \in Callers, First(c) PROVE AskInv'
  <2>1. PICK expected \in {NoContent, content} :
          Send(c, [caller |-> c, key |-> 1, path |-> place, expected |-> expected])
    BY <1>4 DEF First
  <2>2. PICK r : r = [caller |-> c, key |-> 1, path |-> place, expected |-> expected]
    OBVIOUS
  <2>3. r \in Requests
    BY <1>0, <2>2, ProgressAssumption DEF Requests, Keys, ProgressTypeOK
  <2>4. content[c] = 0
    BY <1>0, <1>2, <1>4 DEF First, LogInv, Modest, Contents
  <2>5. Asked(r, Log)
    BY <2>2, <2>4 DEF Asked
  <2> QED BY <1>3, <2>1, <2>2, <2>3, <2>5
<1>5. ASSUME NEW c \in Callers, Ask(c) PROVE AskInv'
  <2>1. PICK path :
          call' = [call EXCEPT ![c] = [step |-> "list", at |-> path, records |-> <<>>]]
    BY <1>5 DEF Ask
  <2>2. call'[c].records = <<>> /\ \A d \in Callers \ {c} : call'[d] = call[d]
    BY <1>0, <2>1
  <2>3. UNCHANGED <<content, receipts, left, sent, last, answer>>
    BY <1>5 DEF Ask
  <2> QED BY <1>2, <2>2, <2>3, AskingKeeps
<1>6. ASSUME NEW c \in Callers, List(c) PROVE AskInv'
  <2>1. call'[c].records = receipts /\ \A d \in Callers \ {c} : call'[d] = call[d]
    BY <1>0, <1>6 DEF List, Listing
  <2>2. \A k \in DOMAIN receipts : \E j \in DOMAIN Log : Log[j] = receipts[k]
    <3>1. CASE Log = receipts
      BY <3>1
    <3>2. CASE left # <<>> /\ Log = Append(receipts, left[1])
      <4>1. left[1] \in Receipts
        BY <3>2 DEF ProgressTypeInv, ProgressTypeOK
      <4> QED BY <1>0, <3>2, <4>1, LongerLog DEF Grows
    <3> QED BY <3>1, <3>2 DEF Log, Recovered
  <2>3. UNCHANGED <<content, receipts, left, sent, last, answer>>
    BY <1>6 DEF List
  <2> QED BY <1>2, <2>1, <2>2, <2>3, AskingKeeps
<1>7. ASSUME NEW c \in Callers, Answer(c) PROVE AskInv'
  <2>1. PICK advice :
          /\ advice \in {Advice(call[c].records, last[c]), "inspect target"}
          /\ answer' = [answer EXCEPT ![c] = [advice |-> advice, path |-> place, hash |-> content]]
    BY <1>7 DEF Answer
  <2>2. /\ UNCHANGED <<content, receipts, left, sent, last>> /\ call' = [call EXCEPT ![c] = NoCall]
        /\ last[c] # NoRequest /\ call[c].records \in Seq(Receipts)
    BY <1>0, <1>7 DEF Answer, HasAsked, Listing
  <2>3. /\ call'[c].records = <<>>
        /\ answer'[c] = [advice |-> advice, path |-> place, hash |-> content]
        /\ \A d \in Callers \ {c} : call'[d] = call[d] /\ answer'[d] = answer[d]
    BY <1>0, <2>1, <2>2 DEF NoCall
  <2>4. ASSUME advice = "new request id" PROVE content[c] = 0 /\ Began(Log, c)
    <3>0. PICK records, r :
            /\ records \in Seq(Receipts) /\ records = call[c].records
            /\ r = last[c] /\ r.caller = c
            /\ Advice(records, r) = "new request id"
      BY <1>2, <2>1, <2>2, <2>4
    <3>a. PICK k : k = RecordOf(records, r)
      OBVIOUS
    <3>1. k # 0 /\ content = records[k].before
      BY <3>0, <3>a DEF Advice
    <3>2. k \in DOMAIN records /\ records[k].key # 0 /\ records[k].caller = c
      BY <3>0, <3>1, <3>a, RecordOfRequest
    <3>3. PICK j \in DOMAIN Log : Log[j] = records[k]
      BY <1>2, <3>0, <3>2
    <3>4. Plain(Log[j], Log)
      BY DEF LogInv
    <3> QED BY <3>1, <3>2, <3>3, <3>4 DEF Plain
  <2>5. Advised(answer'[c], c, Log)
    <3>1. PICK a : a = [advice |-> advice, path |-> place, hash |-> content]
      OBVIOUS
    <3>2. answer'[c] = a /\ a.advice = advice /\ a.hash = content
      BY <2>3, <3>1
    <3>3. a.advice = "new request id" => a.hash[c] = 0 /\ Began(Log, c)
      BY <2>4, <3>2
    <3>4. Advised(a, c, Log)
      BY <3>3 DEF Advised
    <3> QED BY <3>2, <3>4
  <2>6. call'[c].records = <<>> /\ last'[c] = last[c] /\ sent' = sent
    BY <2>2, <2>3
  <2>7. \A d \in Callers \ {c} :
          last'[d] = last[d] /\ call'[d] = call[d] /\ answer'[d] = answer[d]
    BY <2>2, <2>3
  <2> QED BY <1>2, <2>2, <2>5, <2>6, <2>7, AskingKeeps
<1>8. ASSUME NEW c \in Callers, Follow(c) PROVE AskInv'
  <2>1. answer[c] \in Answers /\ last[c] \in Requests
    BY <1>0, <1>8 DEF Follow, HasAsked
  <2>2. CASE answer[c].advice \in {"replay", "replay or inspect recovery"}
    <3>1. Send(c, last[c]) /\ last[c] # NoRequest
      BY <2>1, <1>8, <2>2, ProgressAssumption DEF Follow
    <3> QED BY <1>2, <1>3, <2>1, <3>1
  <2>3. CASE answer[c].advice = "new request id"
    <3>1. PICK r : r = [caller |-> c, key |-> last[c].key + 1, path |-> answer[c].path,
                        expected |-> answer[c].hash]
      OBVIOUS
    <3>2. Send(c, r) /\ last[c].key < MaxKeys
      BY <1>8, <2>3, <3>1 DEF Follow
    <3>3. last[c].key \in Nat /\ last[c].key + 1 \in Keys
      BY <2>1, <3>2, RequestShapes, ProgressAssumption DEF Keys
    <3>4. r \in Requests /\ answer[c].hash # NoContent
      BY <2>1, <3>1, <3>3, ProgressAssumption DEF Requests, Answers
    <3>5. answer[c].hash[c] = 0 /\ Began(Log, c)
      BY <1>2, <1>8, <2>3 DEF Advised, Follow
    <3>6. Asked(r, Log) /\ r.caller = c
      BY <3>1, <3>3, <3>4, <3>5 DEF Asked
    <3> QED BY <1>3, <3>2, <3>4, <3>6
  <2>4. CASE answer[c].advice \notin {"replay", "replay or inspect recovery", "new request id"}
    <3>1. /\ answer' = [answer EXCEPT ![c] = NoAnswer]
          /\ UNCHANGED <<content, receipts, left, sent, last, call>>
      BY <1>8, <2>4 DEF Follow
    <3>2. Advised(answer'[c], c, Log) /\ \A d \in Callers \ {c} : answer'[d] = answer[d]
      BY <1>0, <3>1 DEF Advised
    <3> QED BY <1>2, <3>1, <3>2, AskingKeeps
  <2> QED BY <2>2, <2>3, <2>4
<1> QED BY <1>1, <1>4, <1>5, <1>6, <1>7, <1>8
    DEF ProgressNext, progress, Perform, Cut, Revert, Move

AdviceInv == ProgressTypeInv /\ LogInv /\ AskInv

LEMMA AdviceInvHolds == ProgressSpec => []AdviceInv
<1>1. ASSUME ProgressInit PROVE AdviceInv
  <2>1. Log = <<>>
    BY <1>1 DEF ProgressInit, Log, Recovered
  <2>2. \A c : ~Began(Log, c)
    BY <2>1 DEF Began
  <2>3. LogInv
    BY <1>1, <2>1 DEF ProgressInit, LogInv, Modest, Empty
  <2>4. AskInv
    BY <1>1, <2>2 DEF ProgressInit, AskInv, Advised, NoCall
  <2> QED BY <1>1, <2>3, <2>4, ProgressTypeInit DEF AdviceInv
<1>2. AdviceInv /\ [ProgressNext]_progress => AdviceInv'
  BY ProgressTypeNext, LogNext, AskNext DEF AdviceInv
<1> QED BY <1>1, <1>2, PTL DEF ProgressSpec

(* Requests, answers and receipts keep their types through every retry.    *)
THEOREM ProgressTypes == ProgressSpec => []ProgressTypeOK
<1>1. AdviceInv => ProgressTypeOK
  BY DEF AdviceInv, ProgressTypeInv
<1> QED BY <1>1, AdviceInvHolds, PTL

(* No entry is appended twice by callers that do as they are told,         *)
(* however many they are, however often they retry and whatever is lost,   *)
(* reverted or moved in between.                                           *)
THEOREM AdviceAppendsOnce == ProgressSpec => []NoEntryTwice
<1>1. AdviceInv => NoEntryTwice
  BY DEF AdviceInv, LogInv, Modest, NoEntryTwice
<1> QED BY <1>1, AdviceInvHolds, PTL

--------------------------------------------------------------------------------
(* The request finds its record, the note holds what the write replaced,   *)
(* and that is what the request expects.                                   *)
Replayable(log, r, body) ==
  LET k == RecordOf(log, r) IN k # 0 /\ body = log[k].before /\ r.expected = body

QuietInv ==
  \A c \in quiet :
    answer[c] # NoAnswer /\ answer[c].advice = "replay" => Replayable(receipts, last[c], content)

(* Until the note moves, nothing names another place. *)
StillInv ==
  moves = 0 =>
    /\ \A r \in sent : r.path = place
    /\ \A k \in DOMAIN Log : Log[k].path = place
    /\ \A c \in Callers : /\ last[c] # NoRequest => last[c].path = place
                          /\ answer[c] # NoAnswer => answer[c].path = place

LEMMA QuietNext ==
  ASSUME ProgressTypeInv, QuietInv, [ProgressNext]_progress PROVE QuietInv'
<1>0. /\ quiet \subseteq Callers /\ last \in [Callers -> Requests \cup {NoRequest}]
      /\ answer \in [Callers -> Answers \cup {NoAnswer}]
  BY DEF ProgressTypeInv, ProgressTypeOK
<1>1. CASE quiet' = {}
  BY <1>1 DEF QuietInv
<1>2. ASSUME NEW c \in Callers, UNCHANGED <<content, receipts>>,
             c \notin quiet', quiet' \subseteq quiet,
             \A d \in Callers \ {c} : last'[d] = last[d] /\ answer'[d] = answer[d]
      PROVE  QuietInv'
  BY <1>0, <1>2 DEF QuietInv
<1>3. ASSUME UNCHANGED <<content, receipts, quiet, last, answer>> PROVE QuietInv'
  BY <1>3 DEF QuietInv
<1>4. ASSUME NEW c \in Callers, NEW r, Send(c, r) PROVE QuietInv'
  <2>1. /\ UNCHANGED <<content, receipts>> /\ c \notin quiet' /\ quiet' \subseteq quiet
        /\ \A d \in Callers \ {c} : last'[d] = last[d] /\ answer'[d] = answer[d]
    BY <1>0, <1>4 DEF Send
  <2> QED BY <1>2, <2>1
<1>5. ASSUME NEW c \in Callers, Answer(c) PROVE QuietInv'
  <2>1. PICK advice :
          /\ advice \in {Advice(call[c].records, last[c]), "inspect target"}
          /\ answer' = [answer EXCEPT ![c] = [advice |-> advice, path |-> place, hash |-> content]]
    BY <1>5 DEF Answer
  <2>2. PICK a : a = [advice |-> advice, path |-> place, hash |-> content]
    OBVIOUS
  <2>3. /\ answer'[c] = a /\ a.advice = advice
        /\ \A d \in Callers \ {c} : answer'[d] = answer[d]
        /\ UNCHANGED <<content, receipts, last>>
    BY <1>0, <1>5, <2>1, <2>2 DEF Answer
  <2>4. c \in quiet' => receipts = call[c].records
    BY <1>5 DEF Answer
  <2>5. quiet' \subseteq quiet \cup {c}
    BY <1>5 DEF Answer
  <2>6. ASSUME c \in quiet', advice = "replay" PROVE Replayable(receipts, last[c], content)
    <3>1. Advice(receipts, last[c]) = "replay"
      BY <2>1, <2>4, <2>6
    <3> QED BY <3>1 DEF Advice, Replayable
  <2>7. ASSUME NEW d \in quiet', answer'[d] # NoAnswer, answer'[d].advice = "replay"
        PROVE  Replayable(receipts, last[d], content)
    <3>1. CASE d = c
      BY <2>3, <2>6, <2>7, <3>1
    <3>2. CASE d # c
      BY <1>0, <2>3, <2>5, <2>7, <3>2 DEF QuietInv
    <3> QED BY <3>1, <3>2
  <2> QED BY <2>3, <2>7 DEF QuietInv
<1>6. ASSUME NEW c \in Callers, Follow(c) PROVE QuietInv'
  <2>1. CASE answer' = [answer EXCEPT ![c] = NoAnswer] /\ quiet' = quiet \ {c}
             /\ UNCHANGED <<place, content, receipts, left, sent, last, call, reverts, moves, cuts>>
    BY <1>0, <1>2, <2>1
  <2> QED BY <1>4, <1>6, <2>1 DEF Follow
<1>7. ASSUME NEW c \in Callers, First(c) PROVE QuietInv'
  BY <1>4, <1>7 DEF First
<1>8. ASSUME NEW c \in Callers, Ask(c) \/ List(c) PROVE QuietInv'
  BY <1>3, <1>8 DEF Ask, List
<1>9. CASE UNCHANGED progress
  BY <1>3, <1>9 DEF progress
<1> QED BY <1>1, <1>5, <1>6, <1>7, <1>8, <1>9 DEF ProgressNext, Perform, Cut, Revert, Move

LEMMA StillNext ==
  ASSUME ProgressTypeInv, StillInv, [ProgressNext]_progress PROVE StillInv'
<1> SUFFICES ASSUME moves' = 0
             PROVE  /\ \A r \in sent' : r.path = place'
                    /\ \A k \in DOMAIN Log' : Log'[k].path = place'
                    /\ \A c \in Callers : /\ last'[c] # NoRequest => last'[c].path = place'
                                          /\ answer'[c] # NoAnswer => answer'[c].path = place'
  BY DEF StillInv
<1>0. /\ ProgressTypeOK /\ sent \subseteq Requests /\ Log \in Seq(Receipts) /\ moves \in Nat
      /\ last \in [Callers -> Requests \cup {NoRequest}] /\ content \in Contents /\ place \in Paths
      /\ answer \in [Callers -> Answers \cup {NoAnswer}]
      /\ \A c \in Callers : HasAsked(c)
  BY LogIsJournal DEF ProgressTypeInv, ProgressTypeOK
<1>1. moves = 0 /\ place' = place
  <2>1. CASE Move
    BY <1>0, <2>1 DEF Move
  <2>2. CASE UNCHANGED <<moves, place>>
    BY <2>2
  <2>3. ASSUME NEW c \in Callers, First(c) \/ Ask(c) \/ List(c) \/ Answer(c) \/ Follow(c)
        PROVE  UNCHANGED <<moves, place>>
    BY <2>3 DEF First, Ask, List, Answer, Follow, Send
  <2> QED BY <2>1, <2>2, <2>3 DEF ProgressNext, progress, Perform, Cut, Revert
<1>2. /\ \A r \in sent : r.path = place
      /\ \A k \in DOMAIN Log : Log[k].path = place
      /\ \A c \in Callers : /\ last[c] # NoRequest => last[c].path = place
                            /\ answer[c] # NoAnswer => answer[c].path = place
  BY <1>1 DEF StillInv
<1>3. \A k \in DOMAIN Log' : Log'[k].path = place
  <2>1. ASSUME NEW x \in Receipts, x.path = place, Log' = Append(Log, x)
        PROVE  \A k \in DOMAIN Log' : Log'[k].path = place
    BY <1>0, <1>2, <2>1, LongerLog
  <2>2. ASSUME NEW r \in sent, Log' = Append(Log, Receipt(r))
        PROVE  \A k \in DOMAIN Log' : Log'[k].path = place
    <3>1. Receipt(r) \in Receipts /\ Receipt(r).path = place
      BY <1>0, WrittenShapes DEF Receipt
    <3> QED BY <2>1, <2>2, <3>1
  <2>3. ASSUME NEW k \in DOMAIN Log, NEW to \in Contents,
               Log' = Append(Log, [caller |-> Log[k].caller, key |-> 0, path |-> place,
                                   before |-> content, after |-> to])
        PROVE  \A j \in DOMAIN Log' : Log'[j].path = place
    <3>1. PICK x : x = [caller |-> Log[k].caller, key |-> 0, path |-> place,
                        before |-> content, after |-> to]
      OBVIOUS
    <3>2. Log[k] \in Receipts
      BY <1>0
    <3>3. x \in Receipts /\ x.path = place
      BY <1>0, <3>1, <3>2, ReceiptShapes, ProgressAssumption DEF Receipts, Keys
    <3> QED BY <2>1, <2>3, <3>1, <3>3
  <2> QED BY <1>2, <2>2, <2>3, LogSteps
<1>4. ASSUME sent' \subseteq sent, UNCHANGED <<last, answer>>
      PROVE  /\ \A r \in sent' : r.path = place
             /\ \A c \in Callers : /\ last'[c] # NoRequest => last'[c].path = place
                                   /\ answer'[c] # NoAnswer => answer'[c].path = place
  BY <1>2, <1>4
<1>5. ASSUME NEW c \in Callers, NEW r, r.path = place, Send(c, r)
      PROVE  /\ \A q \in sent' : q.path = place
             /\ \A d \in Callers : /\ last'[d] # NoRequest => last'[d].path = place
                                   /\ answer'[d] # NoAnswer => answer'[d].path = place
  BY <1>0, <1>2, <1>5 DEF Send
<1>6. ASSUME NEW c \in Callers, First(c)
      PROVE  /\ \A q \in sent' : q.path = place
             /\ \A d \in Callers : /\ last'[d] # NoRequest => last'[d].path = place
                                   /\ answer'[d] # NoAnswer => answer'[d].path = place
  <2>1. PICK expected \in {NoContent, content} :
          Send(c, [caller |-> c, key |-> 1, path |-> place, expected |-> expected])
    BY <1>6 DEF First
  <2> QED BY <1>5, <2>1
<1>7. ASSUME NEW c \in Callers, Answer(c)
      PROVE  /\ \A q \in sent' : q.path = place
             /\ \A d \in Callers : /\ last'[d] # NoRequest => last'[d].path = place
                                   /\ answer'[d] # NoAnswer => answer'[d].path = place
  <2>1. PICK advice :
          answer' = [answer EXCEPT ![c] = [advice |-> advice, path |-> place, hash |-> content]]
    BY <1>7 DEF Answer
  <2>2. PICK a : a = [advice |-> advice, path |-> place, hash |-> content]
    OBVIOUS
  <2>3. /\ answer' = [answer EXCEPT ![c] = a] /\ a.path = place /\ UNCHANGED <<sent, last>>
    BY <1>7, <2>1, <2>2 DEF Answer
  <2> QED BY <1>0, <1>2, <2>3
<1>8. ASSUME NEW c \in Callers, Follow(c)
      PROVE  /\ \A q \in sent' : q.path = place
             /\ \A d \in Callers : /\ last'[d] # NoRequest => last'[d].path = place
                                   /\ answer'[d] # NoAnswer => answer'[d].path = place
  <2>1. last[c] # NoRequest /\ answer[c] # NoAnswer
    BY <1>0, <1>8 DEF Follow, HasAsked
  <2>2. CASE Send(c, last[c])
    BY <1>2, <1>5, <2>1, <2>2
  <2>3. CASE Send(c, [caller |-> c, key |-> last[c].key + 1, path |-> answer[c].path,
                      expected |-> answer[c].hash])
    BY <1>2, <1>5, <2>1, <2>3
  <2>4. CASE answer' = [answer EXCEPT ![c] = NoAnswer] /\ UNCHANGED <<sent, last>>
    BY <1>0, <1>2, <2>4
  <2> QED BY <1>8, <2>2, <2>3, <2>4 DEF Follow
<1>9. ASSUME NEW c \in Callers, Ask(c) \/ List(c)
      PROVE  sent' = sent /\ UNCHANGED <<last, answer>>
  BY <1>9 DEF Ask, List
<1>10. /\ \A r \in sent' : r.path = place
       /\ \A c \in Callers : /\ last'[c] # NoRequest => last'[c].path = place
                             /\ answer'[c] # NoAnswer => answer'[c].path = place
  BY <1>4, <1>6, <1>7, <1>8, <1>9 DEF ProgressNext, progress, Perform, Cut, Revert, Move
<1> QED BY <1>1, <1>3, <1>10

ReplayInv == AdviceInv /\ QuietInv /\ StillInv

(* A caller told to replay its request finds it accepted, as long as       *)
(* nothing was written since it asked and the note never moved: the note   *)
(* shows the bytes the request expects, and not those it would leave, or   *)
(* it would be taken for a repetition.                                     *)
THEOREM ReplaysAreAccepted == ProgressSpec => []ReplayAdviceWorks
<1>1. ASSUME ProgressInit PROVE QuietInv /\ StillInv
  BY <1>1 DEF ProgressInit, QuietInv, StillInv, Log, Recovered
<1>2. ASSUME ReplayInv PROVE ReplayAdviceWorks
  <2> SUFFICES ASSUME moves = 0, NEW c \in quiet, answer[c] # NoAnswer,
                      answer[c].advice = "replay"
               PROVE  Verdict(receipts, last[c]) = "written"
    BY DEF ReplayAdviceWorks, ReplayIsAccepted
  <2>1. /\ ProgressTypeOK /\ c \in Callers /\ receipts \in Seq(Receipts) /\ last[c] # NoRequest
        /\ answer \in [Callers -> Answers \cup {NoAnswer}]
    BY <1>2 DEF ReplayInv, AdviceInv, ProgressTypeInv, ProgressTypeOK, HasAsked
  <2>2. PICK r : r = last[c]
    OBVIOUS
  <2>3. PICK k : k = RecordOf(receipts, r)
    OBVIOUS
  <2>4. k # 0 /\ content = receipts[k].before /\ r.expected = content
    BY <1>2, <2>2, <2>3 DEF ReplayInv, QuietInv, Replayable
  <2>5. k \in DOMAIN receipts /\ receipts[k].key # 0 /\ receipts[k].caller \in Callers
    BY <2>1, <2>3, <2>4, RecordOfRequest, ReceiptShapes
  <2>6. k \in DOMAIN Log /\ Log[k] = receipts[k]
    <3>1. left # <<>> => left[1] \in Receipts
      BY <2>1 DEF ProgressTypeOK
    <3> QED BY <2>1, <2>5, <3>1, LongerLog DEF Log, Recovered, Grows
  <2>7. Plain(receipts[k], Log)
    BY <1>2, <2>6 DEF ReplayInv, AdviceInv, LogInv
  <2>8. content # receipts[k].after
    BY <2>4, <2>5, <2>7 DEF Plain
  <2>9. r.path = place /\ receipts[k].path = place
    BY <1>2, <2>1, <2>2, <2>6 DEF ReplayInv, StillInv
  <2> QED BY <2>2, <2>3, <2>4, <2>8, <2>9 DEF Verdict
<1>3. ReplayInv /\ [ProgressNext]_progress => QuietInv' /\ StillInv'
  BY QuietNext, StillNext DEF ReplayInv, AdviceInv
<1>4. ReplayInv => ReplayAdviceWorks
  BY <1>2
<1> QED BY <1>1, <1>3, <1>4, AdviceInvHolds, PTL DEF ProgressSpec, ReplayInv
================================================================================
