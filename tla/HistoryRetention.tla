---------------------------- MODULE HistoryRetention ----------------------------
(***************************************************************************)
(* The clock of the journal and the sweep of the history blobs             *)
(* (core/operation_log.py), for servers of one vault on a wall clock that  *)
(* may step back.                                                          *)
(*                                                                         *)
(* Everything here runs under the "mutation" and "oplog" locks, so a write *)
(* is one step, complete or cut off by a crash (NoteTransaction has its    *)
(* inside).  A hash stands for the bytes of a note and for their blob.     *)
(***************************************************************************)
EXTENDS Naturals, Sequences

CONSTANTS
  Servers,     \* processes with a journal object of their own
  Notes, Hashes,
  Never,       \* a server that has not swept yet
  Window,      \* the retention period, in ticks of the clock
  Interval,    \* the least time between two sweeps of one server
  Journals,    \* what an earlier version may have left: records,
  Leftovers,   \* and sets of pending manifests
  MaxTime, MaxWrites  \* bounds

Records == [note : Notes, at : Nat, before : Hashes, after : Hashes]

ASSUME RetentionAssumption ==
  /\ Never \notin Nat /\ Window \in Nat /\ Interval \in Nat
  /\ Journals \subseteq Seq(Records)
  /\ \A m \in Leftovers : m \subseteq Records
  /\ MaxTime \in Nat /\ MaxWrites \in Nat

VARIABLES
  journal,     \* operations.jsonl
  manifests,   \* oplog/pending
  blobs,       \* oplog/history
  bytes,       \* the notes
  wall,        \* the wall clock
  sweptAt,     \* _last_purge_at of each server
  historyMode, \* history_mode in VAULT.yaml
  inherited,   \* ghost: how many records an earlier version wrote
  refused      \* ghost: did an append ever refuse a record?

retention == <<journal, manifests, blobs, bytes, wall, sweptAt, historyMode, inherited, refused>>

RetentionTypeOK ==
  /\ journal \in Seq(Records) /\ manifests \subseteq Records /\ blobs \subseteq Hashes
  /\ bytes \in [Notes -> Hashes] /\ wall \in Nat
  /\ sweptAt \in [Servers -> Nat \cup {Never}]
  /\ historyMode \in {"full", "redacted"}
  /\ inherited \in Nat /\ refused \in BOOLEAN

Names(r) == {r.before, r.after}

HistoryInit ==
  /\ journal \in Journals /\ inherited = Len(journal)
  /\ manifests \in Leftovers
  /\ bytes \in [Notes -> Hashes]
  /\ blobs = Hashes
  /\ wall \in 0..MaxTime
  /\ sweptAt = [s \in Servers |-> Never]
  /\ historyMode = "full" /\ refused = FALSE

--------------------------------------------------------------------------------
(* The clock.                                                              *)

(* Mutant: the wall clock alone. *)
WallTimestamp(log) == wall

(* One microsecond past the tail, if the clock is not past it already. *)
NextTimestamp(log) ==
  IF log # <<>> /\ wall <= log[Len(log)].at THEN log[Len(log)].at + 1 ELSE wall

(* Mutant: a recovered record keeps the timestamp it was prepared with. *)
NotRestamped(log, r) == r

RestampedPastTail(log, r) ==
  IF log # <<>> /\ r.at < log[Len(log)].at THEN [r EXCEPT !.at = NextTimestamp(log)] ELSE r

(* append_record: a record that precedes the tail is refused. *)
Accepts(log, r) == log # <<>> => r.at >= log[Len(log)].at

--------------------------------------------------------------------------------
(* The sweep.                                                              *)

Expired(r, now) == r.at + Window < now

(* The backward scan reads up to the first expired record. *)
Read(log, now) ==
  {k \in DOMAIN log : \A m \in DOMAIN log : m > k => ~Expired(log[m], now)}

(* A pair it has read both records of is out of order. *)
Contradicted(log, now) ==
  \E k \in Read(log, now) : k + 1 \in DOMAIN log /\ log[k].at > log[k + 1].at

(* Mutant: no fall-back to the full scan. *)
RetainedByScan(log, now) ==
  UNION {Names(log[k]) : k \in {m \in Read(log, now) : ~Expired(log[m], now)}}

(* _hashes_within_retention. *)
Retained(log, now) ==
  LET within == {m \in DOMAIN log : ~Expired(log[m], now)}
  IN UNION {Names(log[k]) : k \in IF Contradicted(log, now) THEN within
                                  ELSE Read(log, now) \cap within}

(* Mutant: the sweep runs in every mode. *)
SweepsAlways(s) == sweptAt[s] # Never => wall >= sweptAt[s] + Interval

Sweeps(s) ==
  /\ historyMode = "full"
  /\ sweptAt[s] # Never => wall >= sweptAt[s] + Interval

(* purge_history; a blob another program holds open stays, and so does     *)
(* everything when the sweep fails.                                        *)
Sweep(s, log, stored) ==
  IF Sweeps(s)
    THEN /\ \E lost \in SUBSET (stored \ Retained(log, wall)) : blobs' = stored \ lost
         /\ sweptAt' \in {sweptAt, [sweptAt EXCEPT ![s] = wall]}
    ELSE blobs' = stored /\ UNCHANGED sweptAt

(* store_history keeps nothing in redacted mode. *)
Stored(h) == IF historyMode = "full" THEN blobs \cup {h} ELSE blobs

--------------------------------------------------------------------------------
Prepared(n, h) == [note |-> n, at |-> NextTimestamp(journal), before |-> bytes[n], after |-> h]

(* A write refuses to start on pending manifests.  A record the journal    *)
(* refuses leaves its manifest behind, the note already replaced.          *)
Write(s, n, h) ==
  LET r == Prepared(n, h)
  IN /\ manifests = {} /\ Len(journal) < inherited + MaxWrites /\ h # bytes[n]
     /\ bytes' = [bytes EXCEPT ![n] = h]
     /\ IF Accepts(journal, r)
          THEN /\ journal' = Append(journal, r)
               /\ Sweep(s, journal', Stored(bytes[n]))
               /\ UNCHANGED <<manifests, refused>>
          ELSE /\ manifests' = {r} /\ blobs' = Stored(bytes[n]) /\ refused' = TRUE
               /\ UNCHANGED <<journal, sweptAt>>
     /\ UNCHANGED <<wall, historyMode, inherited>>

(* A crash before or after the note is replaced; the server restarts with  *)
(* no memory of its sweeps.                                                *)
WriteCut(s, n, h) ==
  LET r == Prepared(n, h)
  IN /\ manifests = {} /\ Len(journal) < inherited + MaxWrites /\ h # bytes[n]
     /\ manifests' = {r} /\ blobs' = Stored(bytes[n])
     /\ bytes' \in {bytes, [bytes EXCEPT ![n] = h]}
     /\ sweptAt' = [sweptAt EXCEPT ![s] = Never]
     /\ UNCHANGED <<journal, wall, historyMode, inherited, refused>>

(* Recovery of one manifest: its write took place, or it did not.  The     *)
(* sweep follows the last one.                                             *)
Recover(s, r) ==
  LET stamped == RestampedPastTail(journal, r)
      log == IF bytes[r.note] = r.after THEN Append(journal, stamped) ELSE journal
  IN /\ r \in manifests /\ bytes[r.note] \in Names(r)
     /\ IF bytes[r.note] = r.after /\ ~Accepts(journal, stamped)
          THEN refused' = TRUE /\ UNCHANGED <<journal, manifests, blobs, sweptAt>>
          ELSE /\ journal' = log /\ manifests' = manifests \ {r}
               /\ IF manifests = {r} THEN Sweep(s, log, blobs)
                                     ELSE UNCHANGED <<blobs, sweptAt>>
               /\ UNCHANGED refused
     /\ UNCHANGED <<bytes, wall, historyMode, inherited>>

(* The "ops purge" command and the sweep of a start. *)
Purge(s) ==
  /\ manifests = {} /\ Sweep(s, journal, blobs)
  /\ UNCHANGED <<journal, manifests, bytes, wall, historyMode, inherited, refused>>

(* The clock goes on, or is set to another time. *)
Clock ==
  /\ wall' \in 0..MaxTime
  /\ UNCHANGED <<journal, manifests, blobs, bytes, sweptAt, historyMode, inherited, refused>>

(* The operator edits VAULT.yaml; the servers restart to read it. *)
SwitchMode ==
  /\ historyMode' \in {"full", "redacted"} \ {historyMode}
  /\ sweptAt' = [s \in Servers |-> Never]
  /\ UNCHANGED <<journal, manifests, blobs, bytes, wall, inherited, refused>>

HistoryNext ==
  \/ \E s \in Servers :
       \/ \E n \in Notes, h \in Hashes : Write(s, n, h) \/ WriteCut(s, n, h)
       \/ \E r \in manifests : Recover(s, r)
       \/ Purge(s)
  \/ Clock \/ SwitchMode

HistorySpec == HistoryInit /\ [][HistoryNext]_retention

--------------------------------------------------------------------------------
(* The journal never refuses the record of a write that took place,        *)
(* however the clock steps, whichever server writes and however old the    *)
(* manifest is: a refusal would block every later write of the vault.      *)
NoRecordIsRefused == ~refused

(* A blob that goes is one no record inside the window names, and no blob  *)
(* goes while the history is redacted.  Of a journal that is out of order  *)
(* this needs the disorder to show inside the window.                      *)
Ordered(log) == \A k, m \in DOMAIN log : k < m => log[k].at <= log[m].at

KeepsWindow ==
  blobs' # blobs /\ (Ordered(journal') \/ Contradicted(journal', wall)) =>
    /\ historyMode = "full"
    /\ \A h \in blobs \ blobs', k \in DOMAIN journal' :
         h \in Names(journal'[k]) => Expired(journal'[k], wall)

WindowIsKept == [][KeepsWindow]_retention
================================================================================
