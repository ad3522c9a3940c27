------------------------------- MODULE Reconcile -------------------------------
(***************************************************************************)
(* Keeping the search index in step with the vault                         *)
(* (indexing/reconcile.py over indexing/fts5_store.py).                    *)
(*                                                                         *)
(* A pass walks the vault for the mtimes, takes a snapshot of the index,   *)
(* reads every note the mtime gate does not skip to learn its identity,    *)
(* purges what is gone, and reads each new or changed note a second time   *)
(* to store it.  Rows are committed in batches; the index generation moves *)
(* once afterwards, and tells the temporal cache of every server that its  *)
(* answer is stale.  Editors change the vault between any two of these     *)
(* steps; other processes run passes of their own against the same file.   *)
(*                                                                         *)
(* A hash stands for the bytes of a note, for their SHA-256 and, with the  *)
(* chunker version, for the chunks made of them.                           *)
(***************************************************************************)
EXTENDS Naturals, FiniteSets

CONSTANTS
  Procs,        \* processes with a connection of their own to the index
  Paths, Ids,   \* notes, by vault-relative path and by ULID
  Hashes,       \* contents of a note
  Undecodable,  \* the one content that cannot be decoded
  Absent,       \* no file, no row, no cached answer, nothing in hand
  Unreadable,   \* outcome of a read that failed
  NoProc,       \* owner of a free SQLite write lock
  Settings,     \* what may happen: the behaviours start in one of these
  MaxGen        \* bound: no targeted refresh beyond this generation

PassKinds  == {"sweep", "write", "full", "note"}
EditKinds  == {"save", "delete", "move", "again", "restore", "same_mtime"}
FaultKinds == {"read", "store", "cancel", "crash"}

(* A setting: the processes at work and the passes they make, commit_every, *)
(* whether the index was written by another chunker version, whether       *)
(* searches ask for the temporal metadata, what happens to the vault and   *)
(* what goes wrong, with the bounds on both.                               *)
SettingType ==
  [procs : SUBSET Procs, kinds : SUBSET PassKinds, batch : Nat \ {0},
   old : BOOLEAN, caching : BOOLEAN,
   edits : SUBSET EditKinds, maxEdits : Nat,
   faults : SUBSET FaultKinds, maxFaults : Nat]

Notes == [id : Ids, hash : Hashes, mtime : Nat]
(* mtime 0 is the NULL of a targeted refresh; "current" tells whether the  *)
(* row's chunks were made by this chunker version.                         *)
Rows == [path : Paths, hash : Hashes, mtime : Nat, current : BOOLEAN]
Tables == [Ids -> Rows \cup {Absent}]
Identities == [id : Ids, hash : Hashes]
Handed == [path : Paths, id : Ids, hash : Hashes]

ASSUME ReconcileAssumption ==
  /\ IsFiniteSet(Paths) /\ Undecodable \in Hashes
  /\ Absent \notin Hashes \cup Ids \cup Paths \cup Notes \cup Rows \cup Identities \cup Handed
  /\ Unreadable \notin Hashes \cup Ids \cup Paths \cup Identities \cup {Absent}
  /\ Undecodable \notin Identities
  /\ NoProc \notin Procs
  /\ Settings \subseteq SettingType /\ MaxGen \in Nat

PassTypes ==
  [pc : {"idle", "walk", "snapshot", "prepare", "purge", "apply", "stamp", "get", "set",
         "drop", "store"},
   kind : PassKinds,
   marks : SUBSET Paths,   \* notes found stale that the pass took along
   upgrade : BOOLEAN,      \* was the index written by another chunker version?
   snap : Tables, live : [Paths -> Nat],
   prepared : [Paths -> Identities \cup {Absent, Unreadable, Undecodable}],
   owners : [Ids -> Paths \cup {Absent}],
   todo : SUBSET Paths, gone : SUBSET Ids,
   hand : Handed \cup {Absent},
   deleted : BOOLEAN, reindexed : BOOLEAN, failed : BOOLEAN, next : Nat]

VARIABLES
  disk,      \* the vault: path -> note
  clock,     \* the last mtime handed out
  held,      \* notes each path has held, what a backup can bring back
  index,     \* committed rows: note_id -> row
  stamped,   \* is the recorded chunker version this one?
  gen,       \* the generation counter of the index
  lock,      \* the SQLite writer: owner, its uncommitted rows, notes in the batch
  pass,      \* the pass each process is making
  stale,     \* repair_state.stale_note_paths of each process
  cache,     \* _temporal_metadata_cache of each process
  asked,     \* the generation a running list_temporal_metadata has read
  found,     \* history: <<process, path>> found stale by a hit since the last change
  touched,   \* history: paths whose file was changed at least once
  returned,  \* history: paths whose file is back with an mtime it had there before
  missed,    \* history: paths a pass could not read when their turn came
  crossed,   \* history: notes whose row was another one than the pass took its mtime for
  slipped,   \* history: has the generation ever moved backwards?
  calm,      \* history: has only this pass touched vault and index since it began?
  env,       \* the setting of this behaviour, never changed
  edits, faults

vars == <<disk, clock, held, index, stamped, gen, lock, pass, stale, cache, asked,
          found, touched, returned, missed, crossed, slipped, calm, env, edits, faults>>
editVars == <<disk, clock, held, found, touched, returned, env, edits>>
vaultVars == <<editVars, missed, crossed, slipped>>
readerVars == <<cache, asked>>

Idle == [pc |-> "idle", kind |-> "sweep", marks |-> {}, upgrade |-> FALSE,
         snap |-> [i \in Ids |-> Absent], live |-> [x \in Paths |-> 0],
         prepared |-> [x \in Paths |-> Absent], owners |-> [i \in Ids |-> Absent],
         todo |-> {}, gone |-> {}, hand |-> Absent,
         deleted |-> FALSE, reindexed |-> FALSE, failed |-> FALSE, next |-> 0]

NoAnswer == [gen |-> 0, rows |-> [i \in Ids |-> Absent]]

FreeLock == [owner |-> NoProc, rows |-> [i \in Ids |-> Absent], units |-> 0]

TypeOK ==
  /\ disk \in [Paths -> Notes \cup {Absent}] /\ clock \in Nat
  /\ held \in [Paths -> SUBSET Notes]
  /\ index \in Tables /\ stamped \in BOOLEAN /\ gen \in Nat
  /\ lock \in [owner : Procs \cup {NoProc}, rows : Tables, units : Nat]
  /\ pass \in [Procs -> PassTypes]
  /\ stale \in [Procs -> SUBSET Paths]
  /\ cache \in [Procs -> [gen : Nat, rows : [Ids -> Hashes \cup {Absent}]]]
  /\ asked \in [Procs -> Nat]
  /\ touched \subseteq Paths /\ returned \subseteq Paths /\ missed \subseteq Paths
  /\ crossed \subseteq Ids /\ slipped \in BOOLEAN
  /\ found \subseteq Procs \X Paths
  /\ calm \in [Procs -> BOOLEAN]
  /\ env \in Settings /\ edits \in 0..env.maxEdits /\ faults \in 0..env.maxFaults

(* A vault indexed by an earlier pass: every note has its row, and no two  *)
(* files were written within one tick.  Generation 0 would be a legacy     *)
(* index, which is never cached.                                           *)
Tick == CHOOSE t \in [Paths -> 1..Cardinality(Paths)] : \A x, y \in Paths : t[x] = t[y] => x = y

Init ==
  /\ env \in Settings
  /\ \E f \in [Paths -> Ids \cup {Absent}] :
       /\ \A x, y \in Paths : f[x] = f[y] /\ f[x] # Absent => x = y
       /\ \E h \in Hashes \ {Undecodable} :
            disk = [x \in Paths |-> IF f[x] = Absent THEN Absent
                                    ELSE [id |-> f[x], hash |-> h, mtime |-> Tick[x]]]
       /\ index = [i \in Ids |->
            IF \E x \in Paths : f[x] = i
              THEN LET x == CHOOSE y \in Paths : f[y] = i
                   IN  [path |-> x, hash |-> disk[x].hash, mtime |-> Tick[x],
                        current |-> ~env.old]
              ELSE Absent]
  /\ held = [x \in Paths |-> IF disk[x] = Absent THEN {} ELSE {disk[x]}]
  /\ clock = Cardinality(Paths) /\ gen = 1 /\ stamped = ~env.old /\ lock = FreeLock
  /\ pass = [p \in Procs |-> Idle]
  /\ stale = [p \in Procs |-> {}]
  /\ cache = [p \in Procs |-> NoAnswer] /\ asked = [p \in Procs |-> 0]
  /\ found = {} /\ touched = {} /\ returned = {} /\ missed = {}
  /\ crossed = {} /\ slipped = FALSE
  /\ calm = [p \in Procs |-> FALSE]
  /\ edits = 0 /\ faults = 0

--------------------------------------------------------------------------------
(* The vault.  Every save moves the mtime, except what lands within one    *)
(* tick of it; a rename keeps it and a restore brings an old one back.     *)
(* "again": a save may bring an earlier content back, under a new mtime.   *)

(* Where a file has come back with the mtime it had there before. *)
Returned(x, n) == IF n \in held[x] THEN returned \cup {x} ELSE returned \ {x}

Touch(x, n) ==
  /\ edits < env.maxEdits /\ edits' = edits + 1
  /\ disk' = [disk EXCEPT ![x] = n] /\ touched' = touched \cup {x}
  /\ found' = {f \in found : f[2] # x} /\ returned' = Returned(x, n)
  /\ held' = IF n = Absent THEN held ELSE [held EXCEPT ![x] = @ \cup {n}]
  /\ calm' = [p \in Procs |-> FALSE]
  /\ UNCHANGED <<missed, crossed, slipped, env, index, stamped, gen, lock, pass, stale,
                 readerVars, faults>>

Save(x) ==
  /\ "save" \in env.edits
  /\ \E i \in Ids, h \in Hashes :
       /\ "again" \in env.edits \/ h \notin {n.hash : n \in held[x]}
       /\ Touch(x, [id |-> i, hash |-> h, mtime |-> clock + 1])
  /\ clock' = clock + 1

Delete(x) ==
  /\ "delete" \in env.edits /\ disk[x] # Absent
  /\ Touch(x, Absent) /\ UNCHANGED clock

Move(x, y) ==
  /\ "move" \in env.edits /\ disk[x] # Absent /\ disk[y] = Absent
  /\ edits < env.maxEdits /\ edits' = edits + 1
  /\ disk' = [disk EXCEPT ![x] = Absent, ![y] = disk[x]]
  /\ touched' = touched \cup {x, y} /\ held' = [held EXCEPT ![y] = @ \cup {disk[x]}]
  /\ found' = {f \in found : f[2] \notin {x, y}} /\ returned' = Returned(y, disk[x]) \ {x}
  /\ calm' = [p \in Procs |-> FALSE]
  /\ UNCHANGED <<clock, missed, crossed, slipped, env, index, stamped, gen, lock, pass,
                 stale, readerVars, faults>>

Restore(x) ==
  /\ "restore" \in env.edits
  /\ \E n \in held[x] : n # disk[x] /\ Touch(x, n)
  /\ UNCHANGED clock

SaveSameTick(x) ==
  /\ "same_mtime" \in env.edits /\ disk[x] # Absent
  /\ \E h \in Hashes : Touch(x, [disk[x] EXCEPT !.hash = h])
  /\ UNCHANGED clock

Edit == \E x \in Paths :
          Save(x) \/ Delete(x) \/ Restore(x) \/ SaveSameTick(x) \/ \E y \in Paths : Move(x, y)

--------------------------------------------------------------------------------
(* The store.  A connection sees its own uncommitted rows, the others see  *)
(* the committed ones; BEGIN IMMEDIATE waits for the owner of the lock.    *)

View(p) == IF lock.owner = p THEN lock.rows ELSE index

CanWrite(p) == lock.owner \in {NoProc, p}

Bulk(p) == pass[p].kind # "note"

(* One write unit: on its own, or as part of the batch, which commits when *)
(* it is full.                                                             *)
Write(p, rows) ==
  /\ CanWrite(p)
  /\ IF Bulk(p) /\ lock.units + 1 < env.batch
       THEN /\ lock' = [owner |-> p, rows |-> rows, units |-> lock.units + 1]
            /\ UNCHANGED index
       ELSE lock' = FreeLock /\ index' = rows
  /\ calm' = [q \in Procs |-> calm[q] /\ q = p]

(* Leaving the bulk scope commits what is open; an exception rolls it back. *)
Commit(p) == IF lock.owner = p THEN index' = lock.rows /\ lock' = FreeLock
                               ELSE UNCHANGED <<index, lock>>

Rollback(p) == lock' = IF lock.owner = p THEN FreeLock ELSE lock

Without(rows, i) == [rows EXCEPT ![i] = Absent]

(* upsert_note: the identity belongs to one path, and a path to one note. *)
OwnedElsewhere(rows, i, x) == rows[i] # Absent /\ rows[i].path # x

Upsert(rows, i, row) ==
  [j \in Ids |-> IF j = i THEN row
                 ELSE IF rows[j] # Absent /\ rows[j].path = row.path THEN Absent
                 ELSE rows[j]]

WithMtime(rows, i, m) == IF rows[i] = Absent THEN rows ELSE [rows EXCEPT ![i].mtime = m]

(* record_mtime looks the row up by its note_id alone: it need not be the  *)
(* row of this path and these bytes that the pass has in its snapshot.     *)
RecordMtime(p, i, x, m) ==
  LET row == View(p)[i]
  IN /\ Write(p, WithMtime(View(p), i, m))
     /\ crossed' = IF row = Absent \/ (row.path = x /\ row.hash = pass[p].snap[i].hash)
                     THEN crossed ELSE crossed \cup {i}

--------------------------------------------------------------------------------
(* A pass.  "sweep" is the repair before a read: it walks first and takes  *)
(* the notes found stale along; "write" follows a batch and "full" checks  *)
(* every hash: both take the snapshot first.                               *)

Set(p, s) == pass' = [pass EXCEPT ![p] = s]
Reads == UNCHANGED <<vaultVars, index, stamped, gen, lock, stale, readerVars, calm, faults>>

Start(p) ==
  /\ p \in env.procs /\ pass[p].pc = "idle"
  /\ \E kind \in env.kinds \ {"note"} :
       Set(p, [pass[p] EXCEPT !.kind = kind, !.pc = IF kind = "sweep" THEN "walk" ELSE "snapshot",
                              !.todo = Paths, !.marks = IF kind = "sweep" THEN stale[p] ELSE {}])
  /\ calm' = [calm EXCEPT ![p] = lock.owner = NoProc]
  /\ UNCHANGED <<vaultVars, index, stamped, gen, lock, stale, readerVars, faults>>

(* stat_notes: one file after the other. *)
Walk(p) ==
  /\ pass[p].pc = "walk"
  /\ \E x \in pass[p].todo :
       LET rest == pass[p].todo \ {x}
       IN  Set(p, [pass[p] EXCEPT
                     !.live[x] = IF disk[x] = Absent THEN 0 ELSE disk[x].mtime,
                     !.todo = IF rest = {} THEN Paths ELSE rest, !.upgrade = ~stamped,
                     !.pc = IF rest # {} THEN "walk"
                            ELSE IF pass[p].kind = "sweep" THEN "snapshot" ELSE "prepare"])
  /\ Reads

Snapshot(p) ==
  /\ pass[p].pc = "snapshot"
  /\ Set(p, [pass[p] EXCEPT !.snap = View(p), !.upgrade = ~stamped,
                            !.pc = IF pass[p].kind = "sweep" THEN "prepare" ELSE "walk"])
  /\ Reads

Live(s) == {x \in Paths : s.live[x] # 0}

(* The indexed note of a path, at most one. *)
Entry(s, x) == {i \in Ids : s.snap[i] # Absent /\ s.snap[i].path = x}

(* Mutant: the marks of stale notes are not handed to the pass. *)
RechunkedOnUpgrade(s) == IF s.upgrade THEN Live(s) ELSE {}

(* Mutant: the chunker version is recorded and never compared. *)
RechunkedMarks(s) == s.marks

Rechunked(s) == IF s.upgrade THEN Live(s) ELSE s.marks

(* Mutant: an older file than the indexed one is taken for unchanged. *)
GatedNotNewer(s, x) ==
  /\ s.kind # "full" /\ x \in Live(s) \ Rechunked(s)
  /\ \E i \in Entry(s, x) : s.snap[i].mtime # 0 /\ s.snap[i].mtime >= s.live[x]

Gated(s, x) ==
  /\ s.kind # "full" /\ x \in Live(s) \ Rechunked(s)
  /\ \E i \in Entry(s, x) : s.snap[i].mtime # 0 /\ s.snap[i].mtime = s.live[x]

Unchanged(s, x, n) ==
  \E i \in Entry(s, x) : n = [id |-> i, hash |-> s.snap[i].hash]

(* Mutant: a decoding error is taken for a passing one. *)
ReadTransient(x) == IF disk[x] = Absent \/ disk[x].hash = Undecodable THEN Unreadable
                    ELSE [id |-> disk[x].id, hash |-> disk[x].hash]

(* What read_note of a path gives now. *)
ReadNow(x) == IF disk[x] = Absent THEN Unreadable
              ELSE IF disk[x].hash = Undecodable THEN Undecodable
              ELSE [id |-> disk[x].id, hash |-> disk[x].hash]

Faulty(kind) == kind \in env.faults /\ faults < env.maxFaults /\ faults' = faults + 1

(* Mutant: a failed pass leaves the generation where it was. *)
RaiseOnly(p) == Rollback(p) /\ pass' = [pass EXCEPT ![p] = Idle]

Raise(p) ==
  /\ Rollback(p)
  /\ IF Bulk(p) /\ (pass[p].deleted \/ pass[p].reindexed)
       THEN Set(p, [pass[p] EXCEPT !.pc = "get", !.failed = TRUE, !.hand = Absent])
       ELSE pass' = [pass EXCEPT ![p] = Idle]

(* _prepare_live_identities, one note: the gate, the read, the owner check. *)
Claims(p, x, outcome, i) ==
  IF i # Absent /\ pass[p].owners[i] # Absent
    THEN Raise(p) /\ UNCHANGED missed
    ELSE /\ Set(p, [pass[p] EXCEPT !.prepared[x] = outcome, !.todo = @ \ {x},
                                   !.owners = IF i = Absent THEN @ ELSE [@ EXCEPT ![i] = x]])
         /\ missed' = IF outcome = Unreadable THEN missed \cup {x} ELSE missed
         /\ UNCHANGED lock

Prepare(p) ==
  /\ pass[p].pc = "prepare"
  /\ \E x \in pass[p].todo \cap Live(pass[p]) :
       \/ /\ Gated(pass[p], x)
          /\ Claims(p, x, Absent, CHOOSE i \in Entry(pass[p], x) : TRUE)
          /\ UNCHANGED <<calm, faults>>
       \/ /\ ~Gated(pass[p], x)
          /\ LET n == ReadNow(x)
             IN Claims(p, x, n, IF n \in {Unreadable, Undecodable} THEN Absent ELSE n.id)
          /\ UNCHANGED <<calm, faults>>
       \/ /\ ~Gated(pass[p], x) /\ Faulty("read")
          /\ Claims(p, x, Unreadable, Absent)
          /\ calm' = [calm EXCEPT ![p] = FALSE]
  /\ UNCHANGED <<editVars, crossed, slipped, index, stamped, gen, stale, readerVars>>

Kept(s) == {x \in Live(s) : s.prepared[x] # Undecodable}

(* Mutant: rows of a note that could not be read are purged too. *)
VanishedUnread(s) ==
  {i \in Ids : /\ s.snap[i] # Absent
               /\ \/ s.snap[i].path \notin Kept(s)
                  \/ s.prepared[s.snap[i].path] = Unreadable
                  \/ /\ s.prepared[s.snap[i].path] # Absent
                     /\ s.prepared[s.snap[i].path].id # i}

Vanished(s) ==
  {i \in Ids : /\ s.snap[i] # Absent
               /\ \/ s.snap[i].path \notin Kept(s)
                  \/ /\ s.prepared[s.snap[i].path] \notin {Absent, Unreadable}
                     /\ s.prepared[s.snap[i].path].id # i}

Prepared(p) ==
  /\ pass[p].pc = "prepare" /\ pass[p].todo \cap Live(pass[p]) = {}
  /\ Set(p, [pass[p] EXCEPT !.pc = "purge", !.gone = Vanished(pass[p])])
  /\ Reads

(* _purge_vanished_notes; the count is assigned when the last row is gone. *)
Purge(p) ==
  /\ pass[p].pc = "purge"
  /\ \E i \in pass[p].gone :
       /\ Write(p, Without(View(p), i))
       /\ Set(p, [pass[p] EXCEPT !.gone = @ \ {i}])
  /\ UNCHANGED <<vaultVars, stamped, gen, stale, readerVars, faults>>

Purged(p) ==
  /\ pass[p].pc = "purge" /\ pass[p].gone = {}
  /\ Set(p, [pass[p] EXCEPT
                !.pc = "apply", !.deleted = Vanished(pass[p]) # {},
                !.todo = {x \in Kept(pass[p]) : ~Gated(pass[p], x)
                                               /\ pass[p].prepared[x] # Unreadable}])
  /\ Reads

Settled(p, x) == Set(p, [pass[p] EXCEPT !.todo = @ \ {x}])

(* A note whose content did not change: at most its mtime is recorded. *)
Skip(p, x) ==
  /\ Unchanged(pass[p], x, pass[p].prepared[x]) /\ x \notin Rechunked(pass[p])
  /\ LET i == pass[p].prepared[x].id
     IN IF pass[p].snap[i].mtime = pass[p].live[x]
          THEN UNCHANGED <<index, lock, calm, crossed>>
          ELSE RecordMtime(p, i, x, pass[p].live[x])
  /\ Settled(p, x) /\ UNCHANGED <<missed, faults>>

(* A new or changed note is read again; another identity than the one the  *)
(* pre-pass saw must not belong to another live note.                      *)
SecondRead(p, x) ==
  /\ ~Unchanged(pass[p], x, pass[p].prepared[x]) \/ x \in Rechunked(pass[p])
  /\ LET n == ReadNow(x)
         s == pass[p]
     IN \/ /\ n \in {Unreadable, Undecodable}
           /\ Settled(p, x) /\ missed' = missed \cup {x} /\ UNCHANGED <<lock, faults, calm>>
        \/ /\ Faulty("read")
           /\ Settled(p, x) /\ missed' = missed \cup {x} /\ UNCHANGED lock
           /\ calm' = [calm EXCEPT ![p] = FALSE]
        \/ /\ n \notin {Unreadable, Undecodable}
           /\ IF n.id # s.prepared[x].id /\ s.owners[n.id] \notin {Absent, x}
                THEN Raise(p)
                ELSE /\ Set(p, [s EXCEPT !.todo = @ \ {x}, !.owners[n.id] = x,
                                         !.hand = [path |-> x, id |-> n.id, hash |-> n.hash]])
                     /\ UNCHANGED lock
           /\ UNCHANGED <<missed, faults, calm>>
  /\ UNCHANGED <<index, crossed>>

Apply(p) ==
  /\ pass[p].pc = "apply" /\ pass[p].hand = Absent
  /\ \E x \in pass[p].todo : Skip(p, x) \/ SecondRead(p, x)
  /\ UNCHANGED <<editVars, slipped, stamped, gen, stale, readerVars>>

(* Mutant: the mtime the file has when the row is written. *)
MtimeAfterRead(p, x) == IF disk[x] = Absent THEN 0 ELSE disk[x].mtime

(* A row gets the mtime of the walk, before both reads; a targeted refresh *)
(* has walked nothing and gives none.                                      *)
MtimeFor(p, x) == IF Bulk(p) THEN pass[p].live[x] ELSE 0

(* The chunks in the index are already the ones of this note. *)
SameChunks(rows, n) == rows[n.id] # Absent /\ rows[n.id].hash = n.hash /\ rows[n.id].current

(* Older bytes than those on disk, stored late, are a change to the others. *)
OwnFound(p, x) == {f \in found : f[1] = p \/ f[2] # x}

Store(p) ==
  LET s == pass[p]
      n == s.hand
      m == MtimeFor(p, n.path)
  IN /\ s.pc = IF Bulk(p) THEN "apply" ELSE "store"
     /\ n # Absent
     /\ IF /\ Bulk(p) /\ n.path \in Rechunked(s)
           /\ Unchanged(s, n.path, [id |-> n.id, hash |-> n.hash])
           /\ SameChunks(View(p), n)
          THEN /\ IF s.snap[n.id].mtime = m
                    THEN UNCHANGED <<index, lock, calm, crossed>>
                    ELSE RecordMtime(p, n.id, n.path, m)
               /\ Set(p, [s EXCEPT !.hand = Absent]) /\ UNCHANGED found
          ELSE IF OwnedElsewhere(View(p), n.id, n.path)
                 THEN CanWrite(p) /\ Raise(p) /\ UNCHANGED <<index, calm, found, crossed>>
                 ELSE /\ Write(p, Upsert(View(p), n.id,
                                         [path |-> n.path, hash |-> n.hash, mtime |-> m,
                                          current |-> TRUE]))
                      /\ Set(p, [s EXCEPT !.hand = Absent, !.reindexed = TRUE,
                                          !.pc = IF Bulk(p) THEN "apply" ELSE "get"])
                      /\ found' = IF ReadNow(n.path) = [id |-> n.id, hash |-> n.hash]
                                   THEN found ELSE OwnFound(p, n.path)
                      /\ UNCHANGED crossed
     /\ UNCHANGED <<disk, clock, held, touched, returned, env, edits, missed, slipped,
                    stamped, gen, stale, readerVars, faults>>

Applied(p) ==
  /\ pass[p].pc = "apply" /\ pass[p].todo = {} /\ pass[p].hand = Absent
  /\ Commit(p)
  /\ Set(p, [pass[p] EXCEPT !.pc = "stamp"])
  /\ UNCHANGED <<vaultVars, stamped, gen, stale, readerVars, calm, faults>>

--------------------------------------------------------------------------------
(* After the batch: the chunker version, then the generation, read and     *)
(* written back in two steps of the store.                                 *)

Finish(p) ==
  /\ pass' = [pass EXCEPT ![p] = Idle]
  /\ stale' = IF pass[p].failed THEN stale
              ELSE [stale EXCEPT ![p] = @ \ pass[p].marks]

Stamp(p) ==
  /\ pass[p].pc = "stamp"
  /\ IF pass[p].upgrade THEN CanWrite(p) /\ stamped' = TRUE ELSE UNCHANGED stamped
  /\ IF pass[p].deleted \/ pass[p].reindexed
       THEN Set(p, [pass[p] EXCEPT !.pc = "get"]) /\ UNCHANGED stale
       ELSE Finish(p)
  /\ UNCHANGED <<vaultVars, index, gen, lock, readerVars, calm, faults>>

GetGeneration(p) ==
  /\ pass[p].pc = "get"
  /\ Set(p, [pass[p] EXCEPT !.pc = "set", !.next = gen + 1])
  /\ Reads

SetGeneration(p) ==
  /\ pass[p].pc = "set" /\ CanWrite(p)
  /\ gen' = pass[p].next /\ slipped' = (slipped \/ pass[p].next < gen)
  /\ Finish(p)
  /\ UNCHANGED <<editVars, missed, crossed, index, stamped, lock, readerVars, calm, faults>>

(* The targeted refresh of a note that was just written. *)
Target(p, x) ==
  /\ "note" \in env.kinds /\ pass[p].pc = "idle" /\ gen < MaxGen
  /\ ReadNow(x) \notin {Unreadable, Undecodable}
  /\ Set(p, [pass[p] EXCEPT !.kind = "note", !.pc = "drop",
                            !.hand = [path |-> x, id |-> disk[x].id, hash |-> disk[x].hash]])
  /\ UNCHANGED <<vaultVars, index, stamped, gen, lock, stale, readerVars, calm, faults>>

Drop(p) ==
  /\ pass[p].pc = "drop"
  /\ LET old == {i \in Ids : /\ View(p)[i] # Absent
                             /\ View(p)[i].path = pass[p].hand.path
                             /\ i # pass[p].hand.id}
     IN IF old = {} THEN UNCHANGED <<index, lock, calm>>
        ELSE \E i \in old : Write(p, Without(View(p), i))
  /\ Set(p, [pass[p] EXCEPT !.pc = "store"])
  /\ UNCHANGED <<vaultVars, stamped, gen, stale, readerVars, faults>>

--------------------------------------------------------------------------------
(* What goes wrong: a write the database refuses, a cancelled request      *)
(* (CancelledError is no Exception), the death of the process.             *)

StoreFails(p) ==
  /\ pass[p].pc \in {"purge", "apply", "stamp", "set", "drop", "store"} /\ Faulty("store")
  /\ IF pass[p].pc \in {"stamp", "set"}
       THEN pass' = [pass EXCEPT ![p] = Idle] /\ Rollback(p)
       ELSE Raise(p)
  /\ calm' = [calm EXCEPT ![p] = FALSE]
  /\ UNCHANGED <<vaultVars, index, stamped, gen, stale, readerVars>>

(* The scope of a batch rolls back over any exception.  A write of its own *)
(* that is cancelled between its first statement and its commit does not:  *)
(* its transaction, and with it the writer of the database, stays with the *)
(* server until that commits again or ends.  Here it is rolled back too.   *)
Cancel(p) ==
  /\ pass[p].pc # "idle" /\ Faulty("cancel")
  /\ pass' = [pass EXCEPT ![p] = Idle] /\ Rollback(p)
  /\ UNCHANGED <<vaultVars, index, stamped, gen, stale, readerVars, calm>>

Crash(p) ==
  /\ Faulty("crash")
  /\ pass' = [pass EXCEPT ![p] = Idle] /\ Rollback(p)
  /\ stale' = [stale EXCEPT ![p] = {}]
  /\ cache' = [cache EXCEPT ![p] = NoAnswer] /\ asked' = [asked EXCEPT ![p] = 0]
  /\ found' = {f \in found : f[1] # p}
  /\ UNCHANGED <<disk, clock, held, touched, returned, missed, crossed, slipped, env, edits,
                 index, stamped, gen, calm>>

--------------------------------------------------------------------------------
(* Searches of the same server, while a pass of it may be running.         *)

(* A hit whose chunk is no longer what the note gives is marked.  A sweep  *)
(* that took an older mark of the note along will drop the new one too;    *)
(* and while another server holds rows it has not committed, the hit does  *)
(* not tell what is about to be the index.                                 *)
Hit(p, i) ==
  /\ "same_mtime" \in env.edits \/ env.old
  /\ View(p)[i] # Absent
  /\ LET x == View(p)[i].path
     IN /\ ReadNow(x) # [id |-> i, hash |-> View(p)[i].hash] \/ ~View(p)[i].current
        /\ stale' = [stale EXCEPT ![p] = @ \cup {x}]
        /\ found' = IF x \in pass[p].marks \/ ~CanWrite(p) THEN found
                                                           ELSE found \cup {<<p, x>>}
  /\ UNCHANGED <<disk, clock, held, touched, returned, missed, crossed, slipped, env, edits,
                 index, stamped, gen, lock, pass, readerVars, calm, faults>>

Rowset(rows) == [i \in Ids |-> IF rows[i] = Absent THEN Absent ELSE rows[i].hash]

(* list_temporal_metadata reads the generation first, then the rows. *)
AskGeneration(p) ==
  /\ env.caching /\ asked[p] = 0
  /\ cache[p].gen # gen
  /\ asked' = [asked EXCEPT ![p] = gen]
  /\ UNCHANGED <<vaultVars, index, stamped, gen, lock, pass, stale, cache, calm, faults>>

AskRows(p) ==
  /\ asked[p] # 0
  /\ cache' = [cache EXCEPT ![p] = [gen |-> asked[p], rows |-> Rowset(View(p))]]
  /\ asked' = [asked EXCEPT ![p] = 0]
  /\ UNCHANGED <<vaultVars, index, stamped, gen, lock, pass, stale, calm, faults>>

--------------------------------------------------------------------------------
Step(p) ==
  \/ Start(p) \/ Walk(p) \/ Snapshot(p) \/ Prepare(p) \/ Prepared(p)
  \/ Purge(p) \/ Purged(p) \/ Apply(p) \/ Store(p) \/ Applied(p)
  \/ Stamp(p) \/ GetGeneration(p) \/ SetGeneration(p) \/ Drop(p)

Next ==
  \/ Edit
  \/ \E p \in env.procs :
       \/ Step(p) \/ \E x \in Paths : Target(p, x)
       \/ StoreFails(p) \/ Cancel(p) \/ Crash(p)
       \/ \E i \in Ids : Hit(p, i)
       \/ AskGeneration(p) \/ AskRows(p)

Spec == Init /\ [][Next]_vars

(* Clients keep asking, and a pass that can go on goes on. *)
FairSpec == Spec /\ \A p \in Procs : WF_vars(Step(p))

--------------------------------------------------------------------------------
(* A save that keeps the mtime is beyond what a gate by mtime can see; the *)
(* notes a search finds stale (MarksSurvive) are the answer to that.       *)
SavesMoveMtime == "same_mtime" \notin env.edits

(* A committed row that carries the mtime its file has on disk also        *)
(* carries the hash of that file, unless an older file came back there.    *)
TrueRow(i) ==
  (/\ index[i] # Absent /\ disk[index[i].path] # Absent
   /\ index[i].path \notin returned
   /\ index[i].mtime = disk[index[i].path].mtime)
    => index[i].hash = disk[index[i].path].hash

(* What the mtime gate relies on: every row is a true one.  With a second  *)
(* server it is not so, see GateSound.                                     *)
GateTrusted == SavesMoveMtime => \A i \in Ids : TrueRow(i)

(* The one hole in the gate: record_mtime gave the row of a note an mtime  *)
(* that the pass took for another row than it found there.  Every other    *)
(* row may be skipped by its mtime.                                        *)
GateSound == SavesMoveMtime => \A i \in Ids \ crossed : TrueRow(i)

(* One row for every decodable note, none for anything else.               *)
Mirrors(rows) ==
  \A x \in Paths :
    LET here == {i \in Ids : rows[i] # Absent /\ rows[i].path = x}
    IN IF ReadNow(x) \in {Unreadable, Undecodable} THEN here = {}
       ELSE here = {disk[x].id} /\ rows[disk[x].id].hash = disk[x].hash

(* A pass that nothing disturbed leaves the index equal to the vault, from *)
(* whatever state it found: a full one always, a gated one as long as      *)
(* mtimes tell the contents of a note.                                     *)
CalmPassSettles ==
  \A p \in Procs :
    (/\ calm[p] /\ pass[p].pc \in {"stamp", "get", "set"} /\ ~pass[p].failed /\ Bulk(p)
     /\ pass[p].kind = "full" \/ (SavesMoveMtime /\ returned = {} /\ crossed = {}))
      => Mirrors(index)

(* A note that nobody ever touched keeps the row it had at the beginning,  *)
(* whatever fails and whatever the other notes do.                         *)
SteadyNotesStay ==
  \A x \in Paths :
    (disk[x] # Absent /\ x \notin touched)
      => /\ index[disk[x].id] # Absent
         /\ index[disk[x].id].path = x /\ index[disk[x].id].hash = disk[x].hash

(* Every variable has its type, and a note that stayed readable keeps its  *)
(* row through passes that fail to read it (SteadyNotesStay).              *)
TypedNotesStay == TypeOK /\ SteadyNotesStay

(* Nothing ends a pass between its rows and the generation: neither a      *)
(* cancelled request nor a write the database refuses, nor a targeted      *)
(* refresh, which drops the old row before it may refuse the new one.  The *)
(* death of a server takes its own cache along, not those of the others.   *)
UncutPasses ==
  /\ env.faults \cap {"store", "cancel"} = {} /\ "note" \notin env.kinds
  /\ "crash" \in env.faults => \A p, q \in env.procs : p = q

(* Between such passes, an answer cached under the current generation is   *)
(* what the index holds, unless two servers that read one generation have  *)
(* moved it backwards.                                                     *)
CacheFresh ==
  UncutPasses /\ ~slipped => \A p \in Procs :
    (cache[p].gen = gen /\ \A q \in Procs : pass[q].pc = "idle")
      => cache[p].rows = Rowset(index)

(* Every row of a note is of this chunker version and of its bytes.        *)
Current(x) ==
  \A i \in Ids : (index[i] # Absent /\ index[i].path = x) =>
    /\ disk[x] # Absent /\ i = disk[x].id
    /\ index[i].hash = disk[x].hash /\ index[i].current

(* A note that a search found stale (Hit tells which hits count), and that *)
(* was not edited since nor stored with older bytes by another server,     *)
(* stays marked until it is current.  A sweep that could not read the note *)
(* drops its mark all the same.                                            *)
MarksSurvive ==
  \A p \in Procs, x \in Paths :
    (<<p, x>> \in found /\ lock.owner = NoProc)
      => x \in stale[p] \/ x \in missed \/ Current(x)

(* Once the new chunker version is recorded, it made the chunks of every   *)
(* row, but for notes that could not be read when their turn came.         *)
UpgradeReachesEveryNote ==
  stamped => \A i \in Ids :
    (index[i] # Absent /\ index[i].path \notin missed) => index[i].current

(* When the vault comes to rest, the index becomes and stays its mirror,   *)
(* unless two notes claim one identity.                                    *)
Contested == \E x, y \in Paths : /\ x # y /\ disk[x] # Absent /\ disk[y] # Absent
                                 /\ disk[x].id = disk[y].id

IndexCatchesUp == <>[](Mirrors(index) \/ Contested)
================================================================================
