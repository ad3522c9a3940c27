------------------------------- MODULE Migration -------------------------------
(***************************************************************************)
(* datacron migrate-memory (migration.py): the sidecar and the memory      *)
(* folders of a vault are copied to a vault of their own and, now or by a  *)
(* later run, removed from the first through a tombstone.                  *)
(*                                                                         *)
(* A run may be cut short at any step and started again.  Servers and      *)
(* clients write between runs only: they are to be stopped (setup.md), and *)
(* the source is locked.  A text stands for its SHA-256 too.               *)
(***************************************************************************)
EXTENDS Naturals, FiniteSets

CONSTANTS
  Config,      \* VAULT.yaml
  Identities,  \* ulids.json, for the sidecar entries that diverge
  MemoryFiles, \* the files of _memory and _runbooks
  Texts,
  Absent,      \* there is no file, or no entry in the manifest
  MaxMigrations, MaxSaves  \* bounds

ASSUME MigrationAssumption ==
  /\ Config # Identities /\ {Config, Identities} \cap MemoryFiles = {}
  /\ Absent \notin Texts
  /\ MaxMigrations \in Nat /\ MaxSaves \in Nat

VARIABLES
  source,      \* .datacron and the memory folders of the old vault
  target,      \* those of the memory vault
  manifest,    \* migration-manifest.json
  tombstone,   \* what earlier runs left in tombstones
  migration,   \* the run
  started, saves,
  delivered,   \* ghost: what the target ever held
  seen,        \* ghost: what the source ever held or a run made up
  others,      \* ghost: files of the target that are not only copies
  cut,         \* ghost: what runs planned to copy when they were cut short
  halted,      \* ghost: was a run cut short with a copy of an earlier one to refresh?
  told,        \* ghost: did a run report, or die over, a tombstone?
  lost         \* ghost: notes deleted that the target never held

migrationVars == <<source, target, manifest, tombstone, migration, started, saves,
                   delivered, seen, others, cut, halted, told, lost>>

Sidecar == {Config, Identities}
Items == Sidecar \cup MemoryFiles
Trees == [Items -> Texts \cup {Absent}]
Copies == Items \X Texts

Holds(tree) == {i \in Items : tree[i] # Absent}
Pairs(tree) == {<<i, tree[i]>> : i \in Holds(tree)}

(* What is renamed at once: an entry of the sidecar, a memory folder.      *)
Units == {{i} : i \in Sidecar} \cup {MemoryFiles}

NoMigration == [step |-> "none"]

MigrationTypeOK ==
  /\ source \in Trees /\ target \in Trees /\ manifest \in Trees
  /\ tombstone \subseteq Copies
  /\ migration.step \in {"none", "conflict", "plan", "copy", "initialize", "rebuild",
                         "record", "clients", "verify", "bury", "undo", "delete"}
  /\ migration.step \in {"bury", "undo", "delete"} =>
       migration.moved \subseteq Copies /\ migration.moved \cap Pairs(source) = {}

MigrationInit ==
  /\ source \in Trees
  /\ target = [i \in Items |-> Absent] /\ manifest = target
  /\ tombstone = {} /\ migration = NoMigration /\ started = 0 /\ saves = 0
  /\ delivered = {} /\ seen = Pairs(source) /\ others = {}
  /\ cut = {} /\ halted = FALSE /\ told = FALSE /\ lost = {}

--------------------------------------------------------------------------------
(* The run, under the lock of the source.                                  *)

(* Refused, without effect, while the lock is held, over pending           *)
(* operations, or with nothing to migrate; but an empty _memory counts as  *)
(* something, and files do not tell whether there is one.                  *)
StartRun ==
  /\ migration.step \in {"none", "conflict"}
  /\ started < MaxMigrations /\ started' = started + 1
  /\ migration' \in {[step |-> "plan", keep |-> TRUE], [step |-> "plan", keep |-> FALSE],
                     [step |-> "verify"]}
  /\ UNCHANGED <<source, target, manifest, tombstone, saves,
                 delivered, seen, others, cut, halted, told, lost>>

(* Mutant: what a previous run put there is not known for its own.         *)
OverwritableUnchanged(i) == target[i] \in {Absent, source[i]}

(* Mutant: whatever a previous run put there is overwritten. *)
OverwritableLoose(i) == target[i] \in {Absent, source[i]} \/ manifest[i] # Absent

(* The file holds the bytes of the source, or those the manifest names.    *)
Overwritable(i) == target[i] \in {Absent, source[i], manifest[i]}

(* The manifest is written before the first file. *)
Plan ==
  /\ migration.step = "plan"
  /\ IF \A i \in Holds(source) : Overwritable(i)
       THEN /\ manifest' = [i \in Items |-> IF source[i] # Absent THEN source[i] ELSE manifest[i]]
            /\ migration' = [step |-> "copy", keep |-> migration.keep,
                             pairs |-> Holds(source), todo |-> Holds(source)]
       ELSE /\ migration' = [step |-> "conflict",
                             over |-> {i \in Holds(source) : ~Overwritable(i)}]
            /\ UNCHANGED manifest
  /\ UNCHANGED <<source, target, tombstone, started, saves,
                 delivered, seen, others, cut, halted, told, lost>>

(* The sidecar first. *)
Copy ==
  /\ migration.step = "copy"
  /\ \E i \in migration.todo :
       /\ i \in MemoryFiles => migration.todo \subseteq MemoryFiles
       /\ target' = [target EXCEPT ![i] = source[i]]
       /\ delivered' = delivered \cup {<<i, source[i]>>}
       /\ migration' = [migration EXCEPT !.todo = @ \ {i}]
  /\ UNCHANGED <<source, manifest, tombstone, started, saves, seen, others, cut, halted, told, lost>>

Copied ==
  /\ migration.step = "copy" /\ migration.todo = {}
  /\ migration' = [step |-> "initialize", keep |-> migration.keep, pairs |-> migration.pairs]
  /\ UNCHANGED <<source, target, manifest, tombstone, started, saves,
                 delivered, seen, others, cut, halted, told, lost>>

(* initialize_vault writes a configuration if there is none. *)
Initialize ==
  /\ migration.step = "initialize"
  /\ IF target[Config] = Absent
       THEN \E t \in Texts :
              /\ target' = [target EXCEPT ![Config] = t]
              /\ delivered' = delivered \cup {<<Config, t>>} /\ seen' = seen \cup {<<Config, t>>}
              /\ others' = others \cup {Config}
       ELSE UNCHANGED <<target, delivered, seen, others>>
  /\ migration' = [migration EXCEPT !.step = "rebuild"]
  /\ UNCHANGED <<source, manifest, tombstone, started, saves, cut, halted, told, lost>>

(* rebuild_index_atomic reads without writing identities, and writes only  *)
(* the index, which is not copied; it may fail (StopRun).                  *)
Rebuild ==
  /\ migration.step = "rebuild"
  /\ migration' = [migration EXCEPT !.step = "record"]
  /\ UNCHANGED <<source, target, manifest, tombstone, started, saves,
                 delivered, seen, others, cut, halted, told, lost>>

Recorded ==
  [i \in Items |-> IF i \in migration.pairs /\ target[i] # Absent THEN target[i] ELSE manifest[i]]

(* _record_destination_hashes *)
RecordHashes ==
  /\ migration.step = "record"
  /\ manifest' = Recorded
  /\ migration' = [step |-> "clients", keep |-> migration.keep]
  /\ UNCHANGED <<source, target, tombstone, started, saves,
                 delivered, seen, others, cut, halted, told, lost>>

(* run_setup: the source stays when a client could not be switched. *)
SwitchClients ==
  /\ migration.step = "clients"
  /\ \E errors \in BOOLEAN :
       migration' = IF migration.keep \/ errors THEN NoMigration ELSE [step |-> "bury", moved |-> {}]
  /\ UNCHANGED <<source, target, manifest, tombstone, started, saves,
                 delivered, seen, others, cut, halted, told, lost>>

--------------------------------------------------------------------------------
(* The source goes.                                                        *)

(* Mutant: that a note was once copied is enough. *)
SafeLoose(i) == target[i] # Absent \/ manifest[i] # Absent

(* _verify_cleanup_matches_destination.  Of the sidecar, what diverges is  *)
(* not compared, and of the rest only that it was copied.                  *)
Safe(i) ==
  IF i \in MemoryFiles THEN source[i] \in {target[i], manifest[i]}
  ELSE i = Config => target[i] # Absent \/ manifest[i] # Absent

Verify ==
  /\ migration.step = "verify"
  /\ migration' = IF /\ Holds(manifest) # {} /\ target[Config] # Absent
                     /\ \A i \in Holds(source) : Safe(i)
                    THEN [step |-> "bury", moved |-> {}] ELSE NoMigration
  /\ UNCHANGED <<source, target, manifest, tombstone, started, saves,
                 delivered, seen, others, cut, halted, told, lost>>

Without(tree, S) == [i \in Items |-> IF i \in S THEN Absent ELSE tree[i]]

(* _quarantine_source: renames, the sidecar first. *)
Bury ==
  /\ migration.step = "bury" /\ Holds(source) # {}
  /\ \E U \in Units :
       /\ U \cap Holds(source) # {}
       /\ U = MemoryFiles => Sidecar \cap Holds(source) = {}
       /\ migration' = [migration EXCEPT
            !.moved = @ \cup {p \in Pairs(source) : p[1] \in U}]
       /\ source' = Without(source, U)
  /\ UNCHANGED <<target, manifest, tombstone, started, saves,
                 delivered, seen, others, cut, halted, told, lost>>

(* A rename is refused, say over a database that a server holds open.      *)
BuryFails ==
  /\ migration.step = "bury" /\ Holds(source) # {}
  /\ migration' = [migration EXCEPT !.step = "undo"]
  /\ UNCHANGED <<source, target, manifest, tombstone, started, saves,
                 delivered, seen, others, cut, halted, told, lost>>

(* Mutant: what is moved stays where it is. *)
BackAgain == {}

(* _undo_moves: the units moved. *)
ToUndo == {U \in Units : \E p \in migration.moved : p[1] \in U}

(* Each goes back, or is named as stranded. *)
Undo ==
  /\ migration.step = "undo"
  /\ \E U \in ToUndo :
       LET back == {p \in migration.moved : p[1] \in U} IN
       /\ migration' = [migration EXCEPT !.moved = @ \ back]
       /\ \/ /\ source' = [i \in Items |-> IF \E p \in back : p[1] = i
                                             THEN (CHOOSE p \in back : p[1] = i)[2] ELSE source[i]]
             /\ UNCHANGED <<tombstone, told>>
          \/ /\ tombstone' = tombstone \cup back /\ told' = TRUE
             /\ UNCHANGED source
  /\ UNCHANGED <<target, manifest, started, saves, delivered, seen, others, cut, halted, lost>>

Undone ==
  /\ migration.step = "undo" /\ ToUndo = {}
  /\ tombstone' = tombstone \cup migration.moved
  /\ migration' = NoMigration
  /\ UNCHANGED <<source, target, manifest, started, saves,
                 delivered, seen, others, cut, halted, told, lost>>

Buried ==
  /\ migration.step = "bury" /\ Holds(source) = {}
  /\ migration' = [migration EXCEPT !.step = "delete"]
  /\ UNCHANGED <<source, target, manifest, tombstone, started, saves,
                 delivered, seen, others, cut, halted, told, lost>>

(* _delete_tree, earlier tombstones included: some files may be left.      *)
Delete ==
  /\ migration.step = "delete"
  /\ \E rest \in SUBSET (tombstone \cup migration.moved) :
       /\ tombstone' = rest /\ told' = (rest # {})
       /\ lost' = lost \cup {p \in (tombstone \cup migration.moved) \ rest :
                               p[1] \in MemoryFiles /\ p \notin delivered}
  /\ migration' = NoMigration
  /\ UNCHANGED <<source, target, manifest, started, saves, delivered, seen, others, cut, halted>>

--------------------------------------------------------------------------------
(* Around it.                                                              *)

(* Copies of an earlier run that the one under way has yet to refresh.      *)
ToRefresh ==
  IF migration.step = "copy" THEN {i \in migration.todo : target[i] \notin {Absent, source[i]}} ELSE {}

(* Death, or an error, at any step. *)
StopRun ==
  /\ migration.step \notin {"none", "conflict"}
  /\ cut' = IF migration.step = "copy"
              THEN cut \cup {<<i, source[i]>> : i \in migration.todo} ELSE cut
  /\ halted' = (halted \/ ToRefresh # {})
  /\ IF migration.step \in {"bury", "undo", "delete"}
       THEN tombstone' = tombstone \cup migration.moved /\ told' = TRUE
       ELSE UNCHANGED <<tombstone, told>>
  /\ migration' = NoMigration
  /\ UNCHANGED <<source, target, manifest, started, saves, delivered, seen, others, lost>>

(* A server of the old layout, or the user. *)
SaveSource ==
  /\ migration.step \in {"none", "conflict"} /\ saves < MaxSaves /\ saves' = saves + 1
  /\ \E i \in Items, t \in Texts \cup {Absent} : source' = [source EXCEPT ![i] = t]
  /\ seen' = seen \cup Pairs(source')
  /\ UNCHANGED <<target, manifest, tombstone, migration, started,
                 delivered, others, cut, halted, told, lost>>

(* A client of the new one. *)
SaveTarget ==
  /\ migration.step \in {"none", "conflict"} /\ saves < MaxSaves /\ saves' = saves + 1
  /\ \E i \in Items, t \in Texts \cup {Absent} :
       target' = [target EXCEPT ![i] = t] /\ others' = others \cup {i}
  /\ delivered' = delivered \cup Pairs(target')
  /\ UNCHANGED <<source, manifest, tombstone, migration, started, seen, cut, halted, told, lost>>

MigrationNext ==
  \/ StartRun \/ Plan \/ Copy \/ Copied \/ Initialize \/ Rebuild \/ RecordHashes \/ SwitchClients
  \/ Verify \/ Bury \/ BuryFails \/ Undo \/ Undone \/ Buried \/ Delete
  \/ StopRun \/ SaveSource \/ SaveTarget

MigrationSpec == MigrationInit /\ [][MigrationNext]_migrationVars

--------------------------------------------------------------------------------
(* setup.md, migration.py: the source is removed once every note of it is  *)
(* proven to be in the memory vault.                                       *)
NothingIsLost == lost = {}

(* It is, but for what a run was about to copy when it was cut short: the  *)
(* manifest names that already.                                            *)
OnlyCutCopiesAreLost == lost \subseteq cut

(* A run stops rather than replace, in the memory vault, what neither the  *)
(* source nor a run ever held.                                             *)
OthersWorkStays ==
  [][migration.step \notin {"none", "conflict"} =>
       \A i \in Items :
         target'[i] # target[i] => target[i] = Absent \/ <<i, target[i]>> \in seen]_migrationVars

(* A run that stopped earlier can be rerun: what stands in the way is      *)
(* somebody else's.                                                        *)
RerunWorks == migration.step = "conflict" => migration.over \subseteq others

(* That holds unless a run was cut short before it had refreshed all that  *)
(* an earlier one copied: the manifest names the new text by then, and the *)
(* file still holds the old one.                                           *)
RerunWorksUnlessHalted == ~halted => RerunWorks

(* The source goes whole or not at all, unless a run says, or died, over   *)
(* what it left in a tombstone.                                            *)
WholeOrNothing == ~told => tombstone = {}
================================================================================
