-------------------------------- MODULE Scrubber --------------------------------
(***************************************************************************)
(* The integrity scrub (scrubber.py): a pass reads every indexed note and  *)
(* compares it with its row, a few notes per invocation, and keeps its     *)
(* cursor and its alerts in a checkpoint.  Invocations are processes of    *)
(* their own; nothing keeps two apart, nor from the servers that write     *)
(* notes and index meanwhile.                                              *)
(*                                                                         *)
(* A text stands for its hash, and a note is its place in path order.      *)
(***************************************************************************)
EXTENDS Naturals, FiniteSets

CONSTANTS
  Scrubs,      \* invocations
  LastNote,    \* the notes are 1..LastNote
  NoteTexts,
  NoText,      \* no such note, no such row
  NoCheckpoint,
  MaxEvents,   \* bound: edits, rows that follow them, failed reads; values of the counter
  MaxPasses    \* bound: passes over the index

ASSUME ScrubAssumption == LastNote \in Nat /\ MaxEvents \in Nat /\ MaxPasses \in Nat

VARIABLES
  file,        \* the notes
  canary,      \* the canary file
  row,         \* the rows of the index
  generation,  \* its counter
  checkpoint,  \* checkpoint.json
  scrub,       \* what each invocation holds
  events,      \* ghost: how many there were of what MaxEvents bounds
  passes,      \* ghost: passes begun
  proven,      \* ghost: pass, note and text of each look that found it right
  overlapped,  \* ghost: did two invocations run at once?
  split,       \* ghost: passes whose rows and generation are of two moments
  peak,        \* ghost: the highest value the counter had
  unmoved      \* ghost: have rows changed since it first had its value?

scrubVars == <<file, canary, row, generation, checkpoint, scrub,
               events, passes, proven, overlapped, split, peak, unmoved>>
outside == <<file, canary, row, generation, peak, unmoved>>

Canary == 0
NoteNumbers == 1..LastNote
Rows == [NoteNumbers -> NoteTexts \cup {NoText}]
Indexed(rows) == {n \in NoteNumbers : rows[n] # NoText}

(* The note at a position of the sorted walk, from 0. *)
NoteAt(rows, k) ==
  CHOOSE n \in Indexed(rows) : Cardinality({m \in Indexed(rows) : m < n}) = k

Checkpoints ==
  [pass : 1..MaxPasses, generation : Nat, rows : Rows, next : 0..LastNote,
   completed : BOOLEAN, alerts : SUBSET (0..LastNote)]

Idle == [step |-> "idle"]
Active(s) == scrub[s].step # "idle"

ScrubTypeOK ==
  /\ file \in Rows /\ row \in Rows /\ canary \in {"missing", "right", "altered"}
  /\ generation \in Nat /\ peak \in Nat /\ unmoved \in BOOLEAN
  /\ checkpoint \in Checkpoints \cup {NoCheckpoint}
  /\ \A s \in Scrubs : scrub[s].step \in {"idle", "read", "resume", "canaries", "walk"}
  /\ events \in 0..MaxEvents /\ passes \in 0..MaxPasses
  /\ proven \subseteq (1..MaxPasses) \X NoteNumbers \X NoteTexts
  /\ overlapped \in BOOLEAN /\ split \subseteq 1..MaxPasses

ScrubInit ==
  /\ file \in Rows /\ row \in Rows
  /\ canary = "right"
  /\ generation = 1 /\ peak = 1 /\ unmoved = FALSE
  /\ checkpoint = NoCheckpoint
  /\ scrub = [s \in Scrubs |-> Idle]
  /\ events = 0 /\ passes = 0 /\ proven = {}
  /\ overlapped = FALSE /\ split = {}

--------------------------------------------------------------------------------
(* One invocation.                                                         *)

(* stats() and list_indexed_notes() run side by side; each is read from    *)
(* the index as it is at that moment.                                      *)
ReadIndex(s) ==
  /\ ~Active(s)
  /\ \E first \in {"rows", "generation"} :
       scrub' = [scrub EXCEPT ![s] =
         [step |-> "read", first |-> first, rows |-> row, generation |-> generation]]
  /\ overlapped' = (overlapped \/ \E t \in Scrubs : Active(t))
  /\ UNCHANGED <<outside, events, checkpoint, passes, proven, split>>

ReadRest(s) ==
  LET u == scrub[s] IN
  /\ u.step = "read"
  /\ scrub' = [scrub EXCEPT ![s] =
       [step |-> "resume",
        rows |-> IF u.first = "rows" THEN u.rows ELSE row,
        generation |-> IF u.first = "rows" THEN generation ELSE u.generation,
        crossed |-> <<u.rows, u.generation>> # <<row, generation>>]]
  /\ UNCHANGED <<outside, events, checkpoint, passes, proven, overlapped, split>>

(* Mutant: the digest of the rows is not compared. *)
ContinuesByNumbers(prior, u) ==
  /\ prior # NoCheckpoint /\ ~prior.completed
  /\ prior.generation = u.generation
  /\ Cardinality(Indexed(prior.rows)) = Cardinality(Indexed(u.rows))

(* An interrupted pass over these very rows goes on. *)
Continues(prior, u) ==
  /\ prior # NoCheckpoint /\ ~prior.completed
  /\ prior.generation = u.generation
  /\ prior.rows = u.rows

(* Mutant: a new pass starts from nothing. *)
StartsBlank(prior) == {}

(* A new pass carries the alerts of the last one over. *)
Inherited(prior) == IF prior = NoCheckpoint THEN {} ELSE prior.alerts

(* _resume_or_start. *)
Resume(s) ==
  LET u == scrub[s]
      fresh == [pass |-> passes + 1, generation |-> u.generation, rows |-> u.rows, next |-> 0,
                completed |-> FALSE, alerts |-> Inherited(checkpoint)]
  IN /\ u.step = "resume"
     /\ IF Continues(checkpoint, u)
          THEN /\ scrub' = [scrub EXCEPT ![s] =
                    [step |-> "canaries", rows |-> u.rows, state |-> checkpoint]]
               /\ UNCHANGED <<passes, split>>
          ELSE /\ passes < MaxPasses /\ passes' = passes + 1
               /\ scrub' = [scrub EXCEPT ![s] = [step |-> "canaries", rows |-> u.rows, state |-> fresh]]
               /\ split' = IF u.crossed THEN split \cup {passes'} ELSE split
     /\ UNCHANGED <<outside, events, checkpoint, proven, overlapped>>

(* A file is there and cannot be read: any other OSError. *)
Unread == events < MaxEvents /\ events' = events + 1

(* _check_canaries: the alerts, and whether the file was read.             *)
CanaryLook(look) ==
  \/ /\ look = [alerts |-> IF canary = "right" THEN {} ELSE {Canary}, read |-> canary # "missing"]
     /\ UNCHANGED events
  \/ look = [alerts |-> {Canary}, read |-> FALSE] /\ Unread

(* The canaries are read afresh, and alerts about notes the index no       *)
(* longer holds are retired.                                               *)
CheckCanaries(s) ==
  LET u == scrub[s] IN
  /\ u.step = "canaries"
  /\ \E alerts \in SUBSET {Canary}, read \in BOOLEAN :
       /\ CanaryLook([alerts |-> alerts, read |-> read])
       /\ checkpoint' = [u.state EXCEPT !.alerts = (u.state.alerts \cap Indexed(u.rows)) \cup alerts]
       /\ scrub' = [scrub EXCEPT ![s] =
            [step |-> "walk", rows |-> u.rows, state |-> checkpoint', worked |-> read]]
  /\ UNCHANGED <<outside, passes, proven, overlapped, split>>

(* _check_note: is the note as its row says?  One that is gone, reads      *)
(* otherwise or cannot be read is an alert.                                *)
NoteLook(n, text, right) ==
  \/ right = (file[n] = text) /\ UNCHANGED events
  \/ right = FALSE /\ Unread

(* A note is read; every so many notes the checkpoint is written.          *)
ScrubNote(s) ==
  LET u == scrub[s]
      c == u.state
      n == NoteAt(u.rows, c.next)
  IN /\ u.step = "walk" /\ c.next < Cardinality(Indexed(u.rows))
     /\ \E right \in BOOLEAN :
          LET state == [c EXCEPT !.next = c.next + 1,
                                 !.alerts = IF right THEN c.alerts \ {n} ELSE c.alerts \cup {n}]
          IN /\ NoteLook(n, u.rows[n], right)
             /\ scrub' = [scrub EXCEPT ![s] =
                  [step |-> "walk", rows |-> u.rows, state |-> state, worked |-> TRUE]]
             /\ proven' = IF right THEN proven \cup {<<c.pass, n, u.rows[n]>>} ELSE proven
             /\ checkpoint' \in {checkpoint, state}
     /\ UNCHANGED <<outside, passes, overlapped, split>>

(* The walk is over, or the time is; something has been read by then.      *)
FinishScrub(s) ==
  LET u == scrub[s]
      done == u.state.next = Cardinality(Indexed(u.state.rows))
  IN /\ u.step = "walk" /\ (done \/ u.worked)
     /\ checkpoint' = [u.state EXCEPT !.completed = done]
     /\ scrub' = [scrub EXCEPT ![s] = Idle]
     /\ UNCHANGED <<outside, events, passes, proven, overlapped, split>>

ScrubDies(s) ==
  /\ Active(s)
  /\ scrub' = [scrub EXCEPT ![s] = Idle]
  /\ UNCHANGED <<outside, events, checkpoint, passes, proven, overlapped, split>>

--------------------------------------------------------------------------------
(* Around it.                                                              *)

EditNote ==
  /\ events < MaxEvents /\ events' = events + 1
  /\ \E n \in NoteNumbers, t \in NoteTexts \cup {NoText} :
       t # file[n] /\ file' = [file EXCEPT ![n] = t]
  /\ UNCHANGED <<canary, row, generation, checkpoint, scrub, passes, proven,
                 overlapped, split, peak, unmoved>>

(* An index pass publishes rows one by one, and moves the counter after    *)
(* them, unless its process died.                                          *)
PublishRow ==
  /\ events < MaxEvents /\ events' = events + 1
  /\ \E n \in NoteNumbers : file[n] # row[n] /\ row' = [row EXCEPT ![n] = file[n]]
  /\ unmoved' = TRUE
  /\ UNCHANGED <<file, canary, generation, checkpoint, scrub, passes, proven, overlapped, split, peak>>

(* A value is new or one the counter had before. *)
Moved(g) ==
  /\ generation' = g
  /\ peak' = IF g > peak THEN g ELSE peak
  /\ unmoved' = (g <= peak /\ (unmoved \/ g # generation))
  /\ UNCHANGED <<file, canary, row, checkpoint, scrub, passes, proven, overlapped, split>>

(* increment_generation reads the counter and then sets it.                *)
MoveGeneration == unmoved /\ peak < MaxEvents /\ Moved(generation + 1) /\ UNCHANGED events

(* Other passes moved it between the two, and it goes back to a value that *)
(* it had, or had already: nothing keeps two servers apart.                *)
MoveLate ==
  /\ \E g \in 1..(generation - 1) : Moved(g)
  /\ UNCHANGED events

Tamper ==
  /\ events < MaxEvents /\ events' = events + 1
  /\ canary' \in {"missing", "altered"} \ {canary}
  /\ UNCHANGED <<file, row, generation, checkpoint, scrub, passes, proven,
                 overlapped, split, peak, unmoved>>

(* scrub-init creates a missing canary and leaves an altered one alone.    *)
InitializeCanaries ==
  /\ canary = "missing" /\ canary' = "right"
  /\ UNCHANGED <<file, row, generation, events, checkpoint, scrub, passes, proven,
                 overlapped, split, peak, unmoved>>

ScrubNext ==
  \/ \E s \in Scrubs :
       \/ ReadIndex(s) \/ ReadRest(s) \/ Resume(s) \/ CheckCanaries(s)
       \/ ScrubNote(s) \/ FinishScrub(s) \/ ScrubDies(s)
  \/ EditNote \/ PublishRow \/ MoveGeneration \/ MoveLate \/ Tamper \/ InitializeCanaries

ScrubSpec == ScrubInit /\ [][ScrubNext]_scrubVars

--------------------------------------------------------------------------------
(* read_scrubber_health.                                                   *)
Health ==
  CASE checkpoint = NoCheckpoint -> "not_run"
    [] checkpoint # NoCheckpoint /\ checkpoint.alerts # {} -> "critical"
    [] checkpoint # NoCheckpoint /\ checkpoint.alerts = {} ->
         IF \/ checkpoint.generation # generation
            \/ Cardinality(Indexed(checkpoint.rows)) # Cardinality(Indexed(row)) THEN "stale"
         ELSE IF checkpoint.completed THEN "complete" ELSE "running"

(* "complete" is no empty word: every row the pass names was compared with *)
(* its note within that pass, and found right, whatever invocations were   *)
(* cut short or overlapped.  And these are the rows of the index, once its *)
(* counter has followed them to a value it never had, unless they moved    *)
(* while the pass read them.                                               *)
HealthIsHonest ==
  Health = "complete" =>
    /\ \A n \in Indexed(checkpoint.rows) : <<checkpoint.pass, n, checkpoint.rows[n]>> \in proven
    /\ ~unmoved /\ checkpoint.pass \notin split => checkpoint.rows = row

(* An alert about a note goes only when the note is read again and found   *)
(* right, or has left the index, as long as invocations do not overlap.    *)
KeepsAlerts ==
  checkpoint # NoCheckpoint /\ ~overlapped' =>
    \A n \in checkpoint.alerts \ (checkpoint'.alerts \cup {Canary}) :
      \/ n \notin Indexed(checkpoint'.rows)
      \/ <<checkpoint'.pass, n, checkpoint'.rows[n]>> \in proven'

EvidenceIsKept == [][KeepsAlerts]_scrubVars
================================================================================
