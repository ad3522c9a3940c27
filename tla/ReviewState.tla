------------------------------ MODULE ReviewState ------------------------------
(***************************************************************************)
(* The review marks of the Companion inbox (companion/review_state.py,     *)
(* companion/inbox.py) and the windows that toggle them                    *)
(* (companion/ui.py).                                                      *)
(*                                                                         *)
(* An update reads the journal and the file, compares, and replaces the    *)
(* file under the review lock; a window that is refused repeats its change *)
(* once on the state it is told of.  Content stands for its hash.          *)
(***************************************************************************)
EXTENDS Naturals, FiniteSets

CONSTANTS
  Windows, Operations,
  NoFile,      \* there is no file, and its hash
  Garbled,     \* a file that cannot be parsed, and its hash
  NoHash,      \* no expected_state_hash
  NoWindow,
  MaxMarks,    \* INBOX_REVIEW_MAX_ENTRIES
  MaxStamp, MaxToggles  \* bounds

VARIABLES
  recorded,    \* operations of the journal
  gone,        \* those a restored journal lacks
  marksFile,   \* review-state.json
  reviewLock,  \* the window whose update holds the lock
  now,         \* the clock
  window,      \* what each window shows
  update,      \* the request of each window
  toggles,
  wanted,      \* ghost: the last change of each mark that took effect
  overfull     \* ghost: did the cap ever drop a mark?

review == <<recorded, gone, marksFile, reviewLock, now, window, update, toggles, wanted, overfull>>

Marks == UNION {[S -> 0..MaxStamp] : S \in SUBSET Operations}
Files == Marks \cup {NoFile, Garbled}

ASSUME ReviewAssumption ==
  /\ NoWindow \notin Windows
  /\ NoFile \notin Marks /\ Garbled \notin Marks
  /\ MaxMarks \in Nat /\ MaxStamp \in Nat /\ MaxToggles \in Nat

NoUpdate == [step |-> "idle"]

ReviewTypeOK ==
  /\ recorded \subseteq Operations /\ gone \subseteq Operations
  /\ marksFile \in Files
  /\ marksFile \in Marks => Cardinality(DOMAIN marksFile) <= MaxMarks
  /\ reviewLock \in Windows \cup {NoWindow}
  /\ now \in 0..MaxStamp
  /\ window \in [Windows -> [hash : Files, shown : SUBSET Operations]]
  /\ \A w \in Windows : update[w].step \in {"idle", "load", "wait", "journal", "file", "write"}
  /\ \A w \in Windows : (reviewLock = w) <=> update[w].step \in {"journal", "file", "write"}
  /\ wanted \subseteq Operations /\ overfull \in BOOLEAN

ReviewInit ==
  /\ recorded = {} /\ gone = {} /\ marksFile = NoFile /\ reviewLock = NoWindow /\ now = 0
  /\ window = [w \in Windows |-> [hash |-> NoFile, shown |-> {}]]
  /\ update = [w \in Windows |-> NoUpdate]
  /\ toggles = 0 /\ wanted = {} /\ overfull = FALSE

--------------------------------------------------------------------------------
(* _parse: an unreadable file counts as no marks. *)
Parsed(f) == IF f \in Marks THEN f ELSE << >>

(* setdefault, pop: a mark keeps its first time. *)
Changed(marks, u) ==
  [o \in IF u.reviewed THEN DOMAIN marks \cup {u.op} ELSE DOMAIN marks \ {u.op} |->
     IF o \in DOMAIN marks THEN marks[o] ELSE u.stamp]

Pruned(marks, known) == [o \in DOMAIN marks \cap known |-> marks[o]]

(* _bounded: the newest stay; ties go by operation id. *)
Bounded(marks) ==
  {S \in SUBSET DOMAIN marks :
     /\ Cardinality(S) = IF Cardinality(DOMAIN marks) <= MaxMarks
                           THEN Cardinality(DOMAIN marks) ELSE MaxMarks
     /\ \A kept \in S, dropped \in DOMAIN marks \ S : marks[kept] >= marks[dropped]}

--------------------------------------------------------------------------------
(* The windows.                                                            *)

(* loadInbox, one action of a window at a time: the request takes the      *)
(* marks first and the journal after them.                                 *)
LoadState(w) ==
  /\ update[w].step = "idle"
  /\ update' = [update EXCEPT ![w] = [step |-> "load", raw |-> marksFile]]
  /\ UNCHANGED <<recorded, gone, marksFile, reviewLock, now, window, toggles, wanted, overfull>>

(* A page at a time: earlier rows stay as they were. *)
LoadPage(w) ==
  /\ update[w].step = "load"
  /\ \E page \in SUBSET recorded :
       window' = [window EXCEPT ![w] =
         [hash |-> update[w].raw,
          shown |-> (@.shown \ page) \cup (DOMAIN Parsed(update[w].raw) \cap page)]]
  /\ update' = [update EXCEPT ![w] = NoUpdate]
  /\ UNCHANGED <<recorded, gone, marksFile, reviewLock, now, toggles, wanted, overfull>>

(* toggleInboxReview: the operation is looked up, and the time taken,      *)
(* before the lock.                                                        *)
Toggle(w) ==
  /\ update[w].step = "idle" /\ toggles < MaxToggles /\ toggles' = toggles + 1
  /\ \E o \in recorded, expected \in {window[w].hash, NoHash} :
       update' = [update EXCEPT ![w] =
         [step |-> "wait", op |-> o, reviewed |-> o \notin window[w].shown,
          expected |-> expected, stamp |-> now, again |-> FALSE]]
  /\ UNCHANGED <<recorded, gone, marksFile, reviewLock, now, window, wanted, overfull>>

--------------------------------------------------------------------------------
(* update_review_state.                                                    *)

(* Mutant: no lock. *)
LockUnasked(w) == TRUE

LockFree(w) == reviewLock = NoWindow

Lock(w) ==
  /\ update[w].step = "wait" /\ LockFree(w)
  /\ reviewLock' = w
  /\ update' = [update EXCEPT ![w].step = "journal"]
  /\ UNCHANGED <<recorded, gone, marksFile, now, window, toggles, wanted, overfull>>

(* The lock stayed busy. *)
Busy(w) ==
  /\ update[w].step = "wait" /\ reviewLock # NoWindow
  /\ update' = [update EXCEPT ![w] = NoUpdate]
  /\ UNCHANGED <<recorded, gone, marksFile, reviewLock, now, window, toggles, wanted, overfull>>

ReadJournal(w) ==
  /\ update[w].step = "journal"
  /\ update' = [update EXCEPT ![w] =
       [step |-> "file", op |-> @.op, reviewed |-> @.reviewed, expected |-> @.expected,
        stamp |-> @.stamp, again |-> @.again, known |-> recorded]]
  /\ UNCHANGED <<recorded, gone, marksFile, reviewLock, now, window, toggles, wanted, overfull>>

Conflict(u) == u.expected # NoHash /\ u.expected # marksFile

(* The window is refused, and repeats its change once on what it is told.  *)
ReadFile(w) ==
  LET u == update[w] IN
  /\ u.step = "file"
  /\ IF Conflict(u)
       THEN /\ reviewLock' = NoWindow
            /\ update' = [update EXCEPT ![w] =
                 IF u.again THEN NoUpdate
                 ELSE [step |-> "wait", op |-> u.op, reviewed |-> u.reviewed,
                       expected |-> marksFile, stamp |-> now, again |-> TRUE]]
       ELSE /\ update' = [update EXCEPT ![w] =
                 [step |-> "write", op |-> u.op, reviewed |-> u.reviewed, known |-> u.known,
                  expected |-> u.expected, raw |-> marksFile,
                  marks |-> Pruned(Changed(Parsed(marksFile), u), u.known)]]
            /\ UNCHANGED reviewLock
  /\ UNCHANGED <<recorded, gone, marksFile, now, window, toggles, wanted, overfull>>

(* The window goes on from the hash and the mark it is answered.           *)
Replace(w) ==
  LET u == update[w] IN
  /\ u.step = "write"
  /\ \E S \in Bounded(u.marks) :
       /\ marksFile' = [o \in S |-> u.marks[o]]
       /\ overfull' = (overfull \/ S # DOMAIN u.marks)
       /\ window' = [window EXCEPT ![w] =
            [hash |-> marksFile',
             shown |-> IF u.op \in S THEN @.shown \cup {u.op} ELSE @.shown \ {u.op}]]
  /\ wanted' = IF u.reviewed THEN wanted \cup {u.op} ELSE wanted \ {u.op}
  /\ reviewLock' = NoWindow
  /\ update' = [update EXCEPT ![w] = NoUpdate]
  /\ UNCHANGED <<recorded, gone, now, toggles>>

--------------------------------------------------------------------------------
(* Around them.                                                            *)

(* A write that commits. *)
Record ==
  /\ \E o \in Operations \ (recorded \cup gone) : recorded' = recorded \cup {o}
  /\ UNCHANGED <<gone, marksFile, reviewLock, now, window, update, toggles, wanted, overfull>>

(* The journal is restored from a backup. *)
RestoreJournal ==
  /\ recorded' \in (SUBSET recorded) \ {recorded}
  /\ gone' = gone \cup (recorded \ recorded')
  /\ UNCHANGED <<marksFile, reviewLock, now, window, update, toggles, wanted, overfull>>

(* The file is damaged from outside, no update being under way. *)
Garble ==
  /\ reviewLock = NoWindow /\ marksFile # Garbled
  /\ marksFile' = Garbled /\ wanted' = {}
  /\ UNCHANGED <<recorded, gone, reviewLock, now, window, update, toggles, overfull>>

Tick ==
  /\ now' \in 0..MaxStamp
  /\ UNCHANGED <<recorded, gone, marksFile, reviewLock, window, update, toggles, wanted, overfull>>

ReviewNext ==
  \/ \E w \in Windows :
       \/ LoadState(w) \/ LoadPage(w) \/ Toggle(w) \/ Lock(w) \/ Busy(w)
       \/ ReadJournal(w) \/ ReadFile(w) \/ Replace(w)
  \/ Record \/ RestoreJournal \/ Garble \/ Tick

ReviewSpec == ReviewInit /\ [][ReviewNext]_review

--------------------------------------------------------------------------------
(* docs/en/user-guide.md: marks from two windows are merged.  An operation *)
(* of the journal is marked exactly if the last change of its mark says    *)
(* so, however the updates of several windows overlap and whatever is      *)
(* recorded meanwhile; only a full file forgets marks.                     *)
MarksFollowLastChange ==
  ~overfull => recorded \cap DOMAIN Parsed(marksFile) = recorded \cap wanted
================================================================================
