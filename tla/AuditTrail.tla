------------------------------- MODULE AuditTrail ------------------------------
(***************************************************************************)
(* What a vault's journal promises about its notes, said without locks,    *)
(* processes, manifests' life cycles or recovery.  An operation is         *)
(* declared before it touches its note, it changes the note from exactly   *)
(* the bytes it declared, it may leave without a record only if the note   *)
(* does not hold its bytes, and it is recorded only while the note does.   *)
(***************************************************************************)
EXTENDS Naturals, Sequences

CONSTANTS
  Paths,    \* notes
  Bytes     \* what a note can hold, its absence included

VARIABLES note, intents, journal, answered, outside

trail == <<note, intents, journal, answered, outside>>

Recorded(i) == \E n \in DOMAIN journal : journal[n].id = i
Superseded(i) == \E n \in DOMAIN journal : journal[n].resolves = i

Init ==
  /\ note \in [Paths -> Bytes]
  /\ intents = {}
  /\ journal = <<>>
  /\ answered = {}
  /\ outside = 0

(* A fresh operation says what it will do, on the bytes the note has. *)
Declare(r) ==
  /\ \A s \in intents : s.id # r.id
  /\ ~Recorded(r.id)
  /\ ~Superseded(r.id)
  /\ r.before = note[r.path]
  /\ intents' = intents \cup {r}
  /\ UNCHANGED <<note, journal, answered, outside>>

(* The note goes from the declared bytes to the declared bytes. *)
LandIntent(r) ==
  /\ r \in intents
  /\ ~Recorded(r.id)
  /\ note[r.path] = r.before
  /\ note' = [note EXCEPT ![r.path] = r.after]
  /\ UNCHANGED <<intents, journal, answered, outside>>

(* It is recorded once, while the note holds its bytes, and never after a  *)
(* repair took its place.                                                  *)
Record(r) ==
  /\ r \in intents
  /\ ~Recorded(r.id)
  /\ ~Superseded(r.id)
  /\ note[r.path] = r.after
  /\ journal' = Append(journal, r)
  /\ UNCHANGED <<note, intents, answered, outside>>

(* It goes away when it is recorded, repaired, or not on the note. *)
Withdraw(r) ==
  /\ r \in intents
  /\ Recorded(r.id) \/ Superseded(r.id) \/ note[r.path] # r.after
  /\ intents' = intents \ {r}
  /\ UNCHANGED <<note, journal, answered, outside>>

(* A caller hears "committed" of recorded operations only. *)
Answer(i) ==
  /\ Recorded(i)
  /\ answered' = answered \cup {i}
  /\ UNCHANGED <<note, intents, journal, outside>>

(* A repair withdraws what it resolved and answers in one step. *)
Settle(r, i) ==
  /\ r \in intents
  /\ Superseded(r.id)
  /\ Recorded(i)
  /\ intents' = intents \ {r}
  /\ answered' = answered \cup {i}
  /\ UNCHANGED <<note, journal, outside>>

(* Somebody else changes a note: no other step touches one it did not declare. *)
Edit(path) ==
  /\ \E b \in Bytes : note' = [note EXCEPT ![path] = b]
  /\ outside' = outside + 1
  /\ UNCHANGED <<intents, journal, answered>>

Next ==
  \/ \E r \in intents : LandIntent(r) \/ Record(r) \/ Withdraw(r)
  \/ \E r \in intents' : Declare(r)
  \/ \E n \in DOMAIN journal :
       Answer(journal[n].id) \/ \E r \in intents : Settle(r, journal[n].id)
  \/ \E path \in Paths : Edit(path)

Spec == Init /\ [][Next]_trail
================================================================================
