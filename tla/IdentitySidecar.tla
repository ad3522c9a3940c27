---------------------------- MODULE IdentitySidecar ----------------------------
(***************************************************************************)
(* The identities of notes that carry none: ulids.json, its older twin     *)
(* ulids.json.migrated, and the copy of both that every server keeps in    *)
(* memory (JsonIdStore in core/vault.py).                                  *)
(*                                                                         *)
(* A server writes the whole file from its copy, under a lock no other     *)
(* process knows of.  Two writers change single keys behind its back: an   *)
(* organization batch that moves a note, and "datacron ops repair-id".     *)
(* Each of them is one step here; BatchTransaction has the inside of a     *)
(* batch, to which a server's write is an edit.                            *)
(***************************************************************************)
EXTENDS Naturals, FiniteSets

CONSTANTS
  Servers,
  Places,      \* paths of notes
  Ids,         \* identities
  Derived,     \* derive_note_id: the identity that follows from a path
  NoId,        \* no such key, or no id in the frontmatter
  Gone,        \* no such note
  NoMap,       \* no such file, nothing in memory, nothing to flush
  MaxPasses, MaxChanges, MaxHands  \* bounds

ASSUME SidecarAssumption ==
  /\ Derived \in [Places -> Ids]
  /\ NoId \notin Ids /\ Gone \notin Ids /\ NoId # Gone
  /\ NoMap \notin [Places -> Ids \cup {NoId}]

VARIABLES
  own,         \* the id in the frontmatter of each note
  primary,     \* ulids.json
  migrated,    \* ulids.json.migrated
  readable,    \* ulids.json can be read and parsed at the moment
  memory,      \* the copy of each server
  task,        \* what a server is about to write for a place, or at its start
  deferring,   \* servers whose pass stages identities
  dirty,       \* those of them that have staged one
  flush,       \* the map each server's pass is about to write
  mending,     \* the map each server's load is about to write
  passes, changes, hands,
  reference,   \* ghost: the identity the sidecar last recorded for a place
  behind,      \* ghost: places that changed behind a server's back
  overrun      \* ghost: places that a server behind on them has written over

files == <<own, primary, migrated, readable>>
stores == <<memory, task, deferring, dirty, flush, mending>>
counts == <<passes, changes, hands>>
bookkeeping == <<reference, behind, overrun>>
sidecar == <<files, stores, counts, bookkeeping>>

Maps == [Places -> Ids \cup {NoId}]
Files == Maps \cup {NoMap}

Resting == [do |-> "nothing"]
Tasks ==
  {Resting} \cup [do : {"assign"}, at : Places] \cup [do : {"seal"}, map : Maps]

IdentityTypeOK ==
  /\ own \in [Places -> Ids \cup {NoId, Gone}]
  /\ primary \in Files /\ migrated \in Files /\ readable \in BOOLEAN
  /\ memory \in [Servers -> Files]
  /\ flush \in [Servers -> Files] /\ mending \in [Servers -> Files]
  /\ task \in [Servers -> Tasks]
  /\ deferring \subseteq Servers /\ dirty \subseteq Servers
  /\ reference \in [Places -> Ids]
  /\ behind \in [Servers -> SUBSET Places] /\ overrun \subseteq Places

(* read_ulid_mappings *)
Mappings(f) == IF f = NoMap THEN [x \in Places |-> NoId] ELSE f

(* The merge of _load_sync: the migrated file goes first.                  *)
Merged(p, m) == [x \in Places |-> IF m[x] # NoId THEN m[x] ELSE p[x]]

OnDisk == Merged(Mappings(primary), Mappings(migrated))

Read == Merged(Mappings(IF readable THEN primary ELSE NoMap), Mappings(migrated))

(* _resolve_id, of a note without an id of its own.                        *)
IdentityIn(map, x) == IF map[x] # NoId THEN map[x] ELSE Derived[x]

IdentityInit ==
  /\ own \in [Places -> Ids \cup {NoId, Gone}]
  /\ primary \in Files /\ migrated \in Files /\ readable = TRUE
  /\ memory = [s \in Servers |-> NoMap]
  /\ flush = [s \in Servers |-> NoMap] /\ mending = [s \in Servers |-> NoMap]
  /\ task = [s \in Servers |-> Resting]
  /\ deferring = {} /\ dirty = {}
  /\ passes = 0 /\ changes = 0 /\ hands = 0
  /\ reference = [x \in Places |-> IdentityIn(OnDisk, x)]
  /\ behind = [s \in Servers |-> {}] /\ overrun = {}

--------------------------------------------------------------------------------
(* The store of a server.                                                  *)

(* s replaces ulids.json by map.                                           *)
Put(s, map) ==
  /\ primary' = map /\ readable' = TRUE
  /\ overrun' = overrun \cup behind[s]

(* The write may fail.                                                     *)
Write(s, map) == Put(s, map) \/ UNCHANGED <<primary, readable, overrun>>

(* Mutant: a file that cannot be read is taken for an empty one. *)
LoadsAnyway == TRUE

(* _load_sync.  A file that cannot be read raises, and is not taken for an *)
(* empty one.  What the migrated file adds is written back.                *)
Loads == readable

Load(s) ==
  /\ memory[s] = NoMap /\ mending[s] = NoMap /\ Loads
  /\ IF Read = Mappings(primary)
       THEN memory' = [memory EXCEPT ![s] = Read] /\ UNCHANGED mending
       ELSE mending' = [mending EXCEPT ![s] = Read] /\ UNCHANGED memory
  /\ UNCHANGED <<files, task, deferring, dirty, flush, counts, bookkeeping>>

(* If the write raises, before the file is replaced or after, there is no  *)
(* copy.                                                                   *)
Mend(s) ==
  /\ mending[s] # NoMap /\ mending' = [mending EXCEPT ![s] = NoMap]
  /\ \/ Put(s, mending[s]) /\ memory' = [memory EXCEPT ![s] = mending[s]]
     \/ Write(s, mending[s]) /\ UNCHANGED memory
  /\ UNCHANGED <<own, migrated, task, deferring, dirty, flush, counts, reference, behind>>

(* get and set of _resolve_id: between them other coroutines may run.      *)
Ask(s) ==
  /\ memory[s] # NoMap /\ task[s] = Resting
  /\ \E x \in Places :
       /\ own[x] = NoId /\ memory[s][x] = NoId
       /\ task' = [task EXCEPT ![s] = [do |-> "assign", at |-> x]]
  /\ UNCHANGED <<files, memory, deferring, dirty, flush, mending, counts, bookkeeping>>

Assigned(s) == [memory[s] EXCEPT ![task[s].at] = Derived[task[s].at]]

Assign(s) ==
  /\ task[s].do = "assign" /\ memory[s] # NoMap
  /\ memory' = [memory EXCEPT ![s] = Assigned(s)]
  /\ task' = [task EXCEPT ![s] = Resting]
  /\ IF s \in deferring
       THEN dirty' = dirty \cup {s} /\ UNCHANGED <<primary, readable, overrun>>
       ELSE Write(s, Assigned(s)) /\ UNCHANGED dirty
  /\ UNCHANGED <<own, migrated, deferring, flush, mending, counts, reference, behind>>

(* The copy is gone and cannot be loaded again.                            *)
AssignRaises(s) ==
  /\ task[s].do = "assign" /\ memory[s] = NoMap /\ ~Loads
  /\ task' = [task EXCEPT ![s] = Resting]
  /\ UNCHANGED <<files, memory, deferring, dirty, flush, mending, counts, bookkeeping>>

(* deferred_writes, around a pass.                                         *)
BeginPass(s) ==
  /\ s \notin deferring /\ deferring' = deferring \cup {s}
  /\ passes < MaxPasses /\ passes' = passes + 1
  /\ UNCHANGED <<files, memory, task, dirty, flush, mending, changes, hands, bookkeeping>>

(* _flush_deferred takes a copy under the lock and writes it without.      *)
EndPass(s) ==
  /\ s \in deferring /\ flush[s] = NoMap /\ mending[s] = NoMap
  /\ dirty' = dirty \ {s}
  /\ IF s \in dirty /\ memory[s] # NoMap
       THEN flush' = [flush EXCEPT ![s] = memory[s]] /\ UNCHANGED deferring
       ELSE deferring' = deferring \ {s} /\ UNCHANGED flush
  /\ UNCHANGED <<files, memory, task, mending, counts, bookkeeping>>

FlushDeferred(s) ==
  /\ flush[s] # NoMap /\ Write(s, flush[s])
  /\ flush' = [flush EXCEPT ![s] = NoMap]
  /\ deferring' = deferring \ {s} /\ dirty' = dirty \ {s}
  /\ UNCHANGED <<own, migrated, memory, task, mending, counts, reference, behind>>

(* invalidate_cache, after every pass that changed the index.              *)
Invalidate(s) ==
  /\ memory[s] # NoMap /\ memory' = [memory EXCEPT ![s] = NoMap]
  /\ behind' = IF task[s] = Resting /\ flush[s] = NoMap THEN [behind EXCEPT ![s] = {}] ELSE behind
  /\ UNCHANGED <<files, task, deferring, dirty, flush, mending, counts, reference, overrun>>

(* _migrate_ulid_sidecar, when the index is opened: a file that is missing *)
(* is made from the other one, as it was read before.                      *)
OpenStore(s) ==
  /\ task[s] = Resting
  /\ primary # NoMap \/ migrated # NoMap
  /\ primary = NoMap \/ readable
  /\ task' = [task EXCEPT ![s] =
       [do |-> "seal", map |-> IF primary # NoMap THEN primary ELSE migrated]]
  /\ UNCHANGED <<files, memory, deferring, dirty, flush, mending, counts, bookkeeping>>

Seal(s) ==
  /\ task[s].do = "seal" /\ task' = [task EXCEPT ![s] = Resting]
  /\ primary' = IF primary = NoMap THEN task[s].map ELSE primary
  /\ migrated' = IF migrated = NoMap THEN task[s].map ELSE migrated
  /\ overrun' = IF primary = NoMap \/ migrated = NoMap THEN overrun \cup behind[s] ELSE overrun
  /\ UNCHANGED <<own, readable, memory, deferring, dirty, flush, mending, counts, reference, behind>>

(* A server dies, wherever it is, and is started again.                    *)
Restart(s) ==
  /\ memory' = [memory EXCEPT ![s] = NoMap] /\ mending' = [mending EXCEPT ![s] = NoMap]
  /\ flush' = [flush EXCEPT ![s] = NoMap] /\ task' = [task EXCEPT ![s] = Resting]
  /\ deferring' = deferring \ {s} /\ dirty' = dirty \ {s}
  /\ behind' = [behind EXCEPT ![s] = {}]
  /\ UNCHANGED <<files, counts, reference, overrun>>

--------------------------------------------------------------------------------
(* Changes behind a server's back.                                         *)

Holding(s) ==
  memory[s] # NoMap \/ mending[s] # NoMap \/ flush[s] # NoMap \/ task[s] # Resting

Changed(places) ==
  /\ behind' = [s \in Servers |-> IF Holding(s) THEN behind[s] \cup places ELSE behind[s]]
  /\ overrun' = overrun \ places
  /\ changes < MaxChanges /\ changes' = changes + 1

(* The places that carry an id, in their frontmatter or in the sidecar.    *)
Claimants(i) == {x \in Places : own[x] = i \/ OnDisk[x] = i}

(* A batch moves a note that has an id, with its key if there is one       *)
(* (_derive_identity_sidecar_update).                                      *)
Movable(x, y) ==
  /\ readable /\ x # y /\ own[y] = Gone /\ own[x] \in Ids
  /\ Mappings(migrated)[x] = NoId /\ Mappings(primary)[x] \in {NoId, own[x]}
  /\ OnDisk[y] = NoId /\ Claimants(own[x]) \subseteq {x}

Move(x, y) ==
  /\ Movable(x, y)
  /\ own' = [own EXCEPT ![x] = Gone, ![y] = own[x]]
  /\ IF Mappings(primary)[x] = NoId
       THEN /\ changes < MaxChanges /\ changes' = changes + 1
            /\ UNCHANGED <<primary, bookkeeping>>
       ELSE /\ primary' = [primary EXCEPT ![x] = NoId, ![y] = own[x]]
            /\ reference' = [reference EXCEPT ![x] = Derived[x], ![y] = own[x]]
            /\ Changed({x, y})
  /\ UNCHANGED <<migrated, readable, stores, passes, hands>>

(* Mutant: the migrated file is not asked. *)
AgreesUnasked(x, i) == TRUE

(* _assert_migrated_sidecar_agrees *)
Agrees(x, i) == Mappings(migrated)[x] \in {NoId, i}

(* ops repair-id --action adopt-frontmatter.                               *)
RepairId(x) ==
  /\ readable /\ own[x] \in Ids
  /\ Mappings(primary)[x] \notin {NoId, own[x]}
  /\ Claimants(own[x]) \subseteq {x} /\ Agrees(x, own[x])
  /\ primary' = [primary EXCEPT ![x] = own[x]]
  /\ reference' = [reference EXCEPT ![x] = own[x]]
  /\ Changed({x})
  /\ UNCHANGED <<own, migrated, readable, stores, passes, hands>>

(* Someone makes a note, takes its id away, gives it the one in the sidecar *)
(* (as ops repair-id --action adopt-index does), or removes it.            *)
EditNote(x) ==
  /\ hands < MaxHands /\ hands' = hands + 1
  /\ \E i \in {NoId, Gone, OnDisk[x]} : own' = [own EXCEPT ![x] = i]
  /\ UNCHANGED <<primary, migrated, readable, stores, passes, changes, bookkeeping>>

(* A conflict of a sync client, a scan, and their end.                     *)
Garble ==
  /\ primary # NoMap /\ readable' = ~readable
  /\ UNCHANGED <<own, primary, migrated, stores, counts, bookkeeping>>

IdentityNext ==
  \/ \E s \in Servers :
       \/ Load(s) \/ Mend(s) \/ Ask(s) \/ Assign(s) \/ AssignRaises(s)
       \/ BeginPass(s) \/ EndPass(s) \/ FlushDeferred(s) \/ Invalidate(s)
       \/ OpenStore(s) \/ Seal(s) \/ Restart(s)
  \/ \E x \in Places : RepairId(x) \/ EditNote(x) \/ \E y \in Places : Move(x, y)
  \/ Garble

IdentitySpec == IdentityInit /\ [][IdentityNext]_sidecar

--------------------------------------------------------------------------------
(* vault.py:344, "Deferring loses nothing on a crash": a note without an   *)
(* id has the identity the sidecar last recorded for its place, or else    *)
(* the derived one, for every server and whenever it asks, through lost    *)
(* updates, deaths, passes and unreadable files.  The exception is a place *)
(* whose key a batch or a repair changed while a server held the old map,  *)
(* for that server, and for all once it writes its map.                    *)
IdentitiesStay ==
  \A x \in Places \ overrun :
    /\ IdentityIn(OnDisk, x) = reference[x]
    /\ \A s \in Servers :
         memory[s] # NoMap /\ x \notin behind[s] => IdentityIn(memory[s], x) = reference[x]
================================================================================
