---------------------------- MODULE MigrationProofs ----------------------------
(***************************************************************************)
(* What a migration may delete and what it may overwrite, for any files    *)
(* and contents, any number of runs, deaths and saves between them.        *)
(*                                                                         *)
(* The invariant follows the manifest: what it names was delivered, or is  *)
(* about to be by the run that wrote it, or was planned by a run that was  *)
(* cut short.  RerunInv follows the target: what the manifest does not     *)
(* explain there is more than a copy, or the run in progress has yet to    *)
(* copy it.                                                                *)
(***************************************************************************)
EXTENDS Migration, TLAPS

(* The shapes of a run. *)
Resting  == {NoMigration} \cup [step : {"conflict"}, over : SUBSET Items]
Planning == [step : {"plan"}, keep : BOOLEAN] \cup [step : {"verify"}]
Copying  == [step : {"copy"}, keep : BOOLEAN, pairs : SUBSET Items, todo : SUBSET Items]
Opening  == [step : {"initialize", "rebuild", "record"}, keep : BOOLEAN, pairs : SUBSET Items]
Closing  == [step : {"clients"}, keep : BOOLEAN]
Burying  == [step : {"bury", "undo", "delete"}, moved : SUBSET Copies]

TypeInv ==
  /\ source \in Trees /\ target \in Trees /\ manifest \in Trees
  /\ tombstone \subseteq Copies /\ delivered \subseteq Copies /\ seen \subseteq Copies
  /\ migration \in Resting \cup Planning \cup Copying \cup Opening \cup Closing \cup Burying

(* Every file of the tree is one of these copies. *)
Within(tree, copies) == \A i \in Items : tree[i] # Absent => <<i, tree[i]>> \in copies

Memories(copies) == {p \in copies : p[1] \in MemoryFiles}

Accounted == delivered \cup cut

(* What the run has still to copy. *)
Pending ==
  IF migration.step = "copy" THEN {<<i, source[i]>> : i \in migration.todo} ELSE {}

DeliveryInv ==
  /\ Within(target, delivered)
  /\ Within(manifest, Accounted \cup Pending)
  /\ migration.step = "copy" =>
       migration.todo \subseteq Holds(source) /\ Within(source, delivered \cup Pending)
  /\ migration.step \in {"initialize", "rebuild", "record", "clients"} => Within(source, delivered)

(* The notes that leave the source. *)
BurialInv ==
  /\ Memories(tombstone) \subseteq Accounted
  /\ migration.step \in {"bury", "undo", "delete"} =>
       /\ \A i \in MemoryFiles : source[i] # Absent => <<i, source[i]>> \in Accounted
       /\ Memories(migration.moved) \subseteq Accounted

(* What stands where a run is going to write. *)
SeenInv ==
  /\ Within(source, seen) /\ Within(manifest, seen)
  /\ migration.step = "copy" => migration.todo \subseteq migration.pairs
  /\ migration.step \in {"copy", "initialize", "rebuild", "record"} =>
       \A i \in migration.pairs : target[i] # Absent => <<i, target[i]>> \in seen
  /\ migration.step \in {"bury", "undo", "delete"} => migration.moved \subseteq seen

MigrationInv == TypeInv /\ DeliveryInv /\ BurialInv /\ SeenInv /\ OnlyCutCopiesAreLost

--------------------------------------------------------------------------------
LEMMA Shapes ==
  ASSUME TypeInv
  PROVE  /\ migration.step = "plan" => migration \in [step : {"plan"}, keep : BOOLEAN]
         /\ migration.step = "copy" <=> migration \in Copying
         /\ migration.step \in {"initialize", "rebuild", "record"} <=> migration \in Opening
         /\ migration.step = "clients" <=> migration \in Closing
         /\ migration.step \in {"bury", "undo", "delete"} <=> migration \in Burying
<1>1. CASE migration \in Resting
  BY <1>1 DEF Resting, NoMigration, Copying, Opening, Closing, Burying
<1>2. CASE migration \in Planning
  BY <1>2 DEF Planning, Copying, Opening, Closing, Burying
<1>3. CASE migration \in Copying \cup Opening \cup Closing \cup Burying
  BY <1>3 DEF Copying, Opening, Closing, Burying
<1> QED BY <1>1, <1>2, <1>3 DEF TypeInv

LEMMA PairsOfTree ==
  ASSUME NEW tree \in Trees
  PROVE  /\ Pairs(tree) \subseteq Copies
         /\ Within(tree, Pairs(tree))
         /\ \A p \in Pairs(tree) : p[1] \in Items /\ tree[p[1]] # Absent /\ p = <<p[1], tree[p[1]]>>
BY DEF Pairs, Holds, Within, Trees, Copies

LEMMA MigrationInvInit == MigrationInit => MigrationInv
<1> SUFFICES ASSUME MigrationInit PROVE MigrationInv
  OBVIOUS
<1>1. NoMigration \in Resting /\ migration.step = "none"
  BY DEF MigrationInit, Resting, NoMigration
<1>2. TypeInv
  BY <1>1, PairsOfTree DEF MigrationInit, TypeInv, Trees
<1>3. DeliveryInv
  BY <1>1 DEF MigrationInit, DeliveryInv, Within
<1>4. SeenInv
  BY <1>1, PairsOfTree DEF MigrationInit, SeenInv, Within
<1>5. BurialInv /\ OnlyCutCopiesAreLost
  BY <1>1 DEF MigrationInit, BurialInv, Memories, OnlyCutCopiesAreLost
<1> QED BY <1>2, <1>3, <1>4, <1>5 DEF MigrationInv

(* A run that starts, ends or comes to nothing. *)
LEMMA RestsOrPlans ==
  ASSUME MigrationInv, migration' \in Resting \cup Planning, Pending = {},
         UNCHANGED <<source, target, manifest, tombstone, delivered, seen, cut, lost>>
  PROVE  MigrationInv'
<1>1. migration'.step \in {"none", "conflict", "plan", "verify"}
  BY DEF Resting, Planning, NoMigration
<1>2. TypeInv'
  BY DEF MigrationInv, TypeInv
<1>3. DeliveryInv'
  BY <1>1 DEF MigrationInv, DeliveryInv, Within, Accounted, Pending
<1>4. BurialInv' /\ SeenInv' /\ OnlyCutCopiesAreLost'
  BY <1>1 DEF MigrationInv, BurialInv, SeenInv, Within, Accounted, OnlyCutCopiesAreLost
<1> QED BY <1>2, <1>3, <1>4 DEF MigrationInv

LEMMA GoesOnOpening ==
  ASSUME MigrationInv, migration \in Opening,
         UNCHANGED <<source, target, manifest, tombstone, delivered, seen, cut, lost>>,
         migration' \in Opening, migration'.pairs = migration.pairs
  PROVE  MigrationInv'
<1>1. /\ migration.step \in {"initialize", "rebuild", "record"}
      /\ migration'.step \in {"initialize", "rebuild", "record"}
  BY DEF Opening
<1>2. Pending = {} /\ Pending' = {}
  BY <1>1 DEF Pending
<1>3. TypeInv'
  BY DEF MigrationInv, TypeInv
<1>4. DeliveryInv'
  BY <1>1, <1>2 DEF MigrationInv, DeliveryInv, Within, Accounted
<1>5. BurialInv' /\ SeenInv' /\ OnlyCutCopiesAreLost'
  BY <1>1 DEF MigrationInv, BurialInv, SeenInv, Within, Accounted, OnlyCutCopiesAreLost
<1> QED BY <1>3, <1>4, <1>5 DEF MigrationInv

--------------------------------------------------------------------------------
LEMMA PlanKeeps == MigrationInv /\ Plan => MigrationInv'
<1> SUFFICES ASSUME MigrationInv, Plan PROVE MigrationInv'
  OBVIOUS
<1>1. TypeInv /\ migration.step = "plan" /\ Pending = {}
  BY DEF MigrationInv, Plan, Pending
<1>2. migration \in [step : {"plan"}, keep : BOOLEAN]
  BY <1>1, Shapes
<1>3. UNCHANGED <<source, target, tombstone, delivered, seen, cut, lost>>
  BY DEF Plan
<1>4. CASE \A i \in Holds(source) : Overwritable(i)
  <2>1. /\ manifest' = [i \in Items |-> IF source[i] # Absent THEN source[i] ELSE manifest[i]]
        /\ migration' = [step |-> "copy", keep |-> migration.keep,
                         pairs |-> Holds(source), todo |-> Holds(source)]
    BY <1>4 DEF Plan
  <2>2. migration' \in Copying /\ migration'.step = "copy"
    BY <1>2, <2>1 DEF Copying, Holds
  <2>3. TypeInv'
    BY <1>1, <1>3, <2>1, <2>2 DEF TypeInv, Trees
  <2>4. Pending' = {<<i, source[i]>> : i \in Holds(source)}
    BY <1>3, <2>1 DEF Pending
  <2>5. Within(source, Pending') /\ Within(manifest', Accounted \cup Pending')
    BY <1>1, <2>1, <2>4 DEF Within, Holds, MigrationInv, DeliveryInv
  <2>6. DeliveryInv'
    BY <1>3, <2>1, <2>2, <2>5 DEF MigrationInv, DeliveryInv, Within, Accounted, Holds
  <2>7. Within(manifest', seen)
    BY <2>1 DEF MigrationInv, SeenInv, Within
  <2>8. \A i \in Holds(source) : target[i] # Absent => <<i, target[i]>> \in seen
    BY <1>4 DEF Overwritable, MigrationInv, SeenInv, Within, Holds
  <2>9. SeenInv'
    BY <1>3, <2>1, <2>7, <2>8 DEF MigrationInv, SeenInv, Within
  <2>10. BurialInv' /\ OnlyCutCopiesAreLost'
    BY <1>3, <2>2 DEF MigrationInv, BurialInv, Accounted, OnlyCutCopiesAreLost
  <2> QED BY <2>3, <2>6, <2>9, <2>10 DEF MigrationInv
<1>5. CASE ~ \A i \in Holds(source) : Overwritable(i)
  <2>1. /\ migration' = [step |-> "conflict", over |-> {i \in Holds(source) : ~Overwritable(i)}]
        /\ manifest' = manifest
    BY <1>5 DEF Plan
  <2>2. migration' \in Resting
    BY <2>1 DEF Resting, Holds
  <2> QED BY <1>1, <1>3, <2>1, <2>2, RestsOrPlans
<1> QED BY <1>4, <1>5

LEMMA CopyKeeps == MigrationInv /\ Copy => MigrationInv'
<1> SUFFICES ASSUME MigrationInv, Copy PROVE MigrationInv'
  OBVIOUS
<1>1. TypeInv /\ migration.step = "copy" /\ migration \in Copying
  BY Shapes DEF MigrationInv, Copy
<1>2. UNCHANGED <<source, manifest, tombstone, seen, cut, lost>>
  BY DEF Copy
<1>3. PICK i \in migration.todo :
        /\ target' = [target EXCEPT ![i] = source[i]]
        /\ delivered' = delivered \cup {<<i, source[i]>>}
        /\ migration' = [migration EXCEPT !.todo = @ \ {i}]
  BY DEF Copy
<1>4. /\ migration' \in Copying /\ migration'.step = "copy"
      /\ migration'.todo = migration.todo \ {i} /\ migration'.pairs = migration.pairs
  BY <1>1, <1>3 DEF Copying
<1>5. i \in Items
  BY <1>1 DEF Copying
<1>6. source \in [Items -> Texts \cup {Absent}] /\ target \in [Items -> Texts \cup {Absent}]
  BY <1>1 DEF TypeInv, Trees
<1>7. source[i] # Absent
  BY <1>1 DEF MigrationInv, DeliveryInv, Holds
<1>8. TypeInv'
  BY <1>1, <1>2, <1>3, <1>4, <1>5, <1>6, <1>7 DEF TypeInv, Trees, Copies
<1>9. /\ Pending = {<<j, source[j]>> : j \in migration.todo}
      /\ Pending' = {<<j, source[j]>> : j \in migration.todo \ {i}}
  BY <1>1, <1>2, <1>4 DEF Pending
<1>10. Pending \subseteq Pending' \cup {<<i, source[i]>>}
  BY <1>9
<1>11. DeliveryInv'
  BY <1>1, <1>2, <1>3, <1>4, <1>5, <1>6, <1>10 DEF MigrationInv, DeliveryInv, Within, Accounted, Holds
<1>12. <<i, source[i]>> \in seen
  BY <1>5, <1>7 DEF MigrationInv, SeenInv, Within
<1>13. SeenInv'
  BY <1>1, <1>2, <1>3, <1>4, <1>5, <1>6, <1>12 DEF MigrationInv, SeenInv, Within, Copying
<1>14. BurialInv' /\ OnlyCutCopiesAreLost'
  BY <1>2, <1>3, <1>4 DEF MigrationInv, BurialInv, Accounted, OnlyCutCopiesAreLost
<1> QED BY <1>8, <1>11, <1>13, <1>14 DEF MigrationInv

LEMMA CopiedKeeps == MigrationInv /\ Copied => MigrationInv'
<1> SUFFICES ASSUME MigrationInv, Copied PROVE MigrationInv'
  OBVIOUS
<1>1. TypeInv /\ migration \in Copying /\ migration.step = "copy" /\ migration.todo = {}
  BY Shapes DEF MigrationInv, Copied
<1>2. /\ UNCHANGED <<source, target, manifest, tombstone, delivered, seen, cut, lost>>
      /\ migration' = [step |-> "initialize", keep |-> migration.keep, pairs |-> migration.pairs]
  BY DEF Copied
<1>3. migration' \in Opening /\ Pending = {} /\ Pending' = {}
  BY <1>1, <1>2 DEF Opening, Copying, Pending
<1>4. TypeInv'
  BY <1>1, <1>2, <1>3 DEF TypeInv
<1>5. DeliveryInv'
  BY <1>1, <1>2, <1>3 DEF MigrationInv, DeliveryInv, Within, Accounted
<1>6. SeenInv'
  BY <1>1, <1>2 DEF MigrationInv, SeenInv, Within
<1>7. BurialInv' /\ OnlyCutCopiesAreLost'
  BY <1>2 DEF MigrationInv, BurialInv, Accounted, OnlyCutCopiesAreLost
<1> QED BY <1>4, <1>5, <1>6, <1>7 DEF MigrationInv

LEMMA InitializeKeeps == MigrationInv /\ Initialize => MigrationInv'
<1> SUFFICES ASSUME MigrationInv, Initialize PROVE MigrationInv'
  OBVIOUS
<1>1. /\ migration \in Opening /\ migration.step = "initialize"
      /\ UNCHANGED <<source, manifest, tombstone, cut, lost>>
  BY Shapes DEF MigrationInv, Initialize
<1>2. /\ migration' \in Opening /\ migration'.step = "rebuild"
      /\ migration'.pairs = migration.pairs /\ migration.pairs \subseteq Items
  BY <1>1 DEF Initialize, Opening
<1>3. CASE target[Config] = Absent
  <2>1. PICK t \in Texts :
          /\ target' = [target EXCEPT ![Config] = t]
          /\ delivered' = delivered \cup {<<Config, t>>} /\ seen' = seen \cup {<<Config, t>>}
    BY <1>3 DEF Initialize
  <2>2. Config \in Items /\ target \in [Items -> Texts \cup {Absent}] /\ Pending = {} /\ Pending' = {}
    BY <1>1, <1>2 DEF Items, Sidecar, MigrationInv, TypeInv, Trees, Pending
  <2>3. TypeInv'
    BY <1>1, <1>2, <2>1, <2>2 DEF MigrationInv, TypeInv, Trees, Copies
  <2>4. DeliveryInv'
    BY <1>1, <1>2, <2>1, <2>2 DEF MigrationInv, DeliveryInv, Within, Accounted
  <2>5. SeenInv'
    BY <1>1, <1>2, <2>1, <2>2 DEF MigrationInv, SeenInv, Within
  <2>6. BurialInv' /\ OnlyCutCopiesAreLost'
    BY <1>1, <1>2, <2>1 DEF MigrationInv, BurialInv, Accounted, OnlyCutCopiesAreLost
  <2> QED BY <2>3, <2>4, <2>5, <2>6 DEF MigrationInv
<1>4. CASE target[Config] # Absent
  BY <1>1, <1>2, <1>4, GoesOnOpening DEF Initialize
<1> QED BY <1>3, <1>4

LEMMA RebuildKeeps == MigrationInv /\ Rebuild => MigrationInv'
<1> SUFFICES ASSUME MigrationInv, Rebuild PROVE MigrationInv'
  OBVIOUS
<1>1. migration \in Opening
  BY Shapes DEF MigrationInv, Rebuild
<1>2. migration' \in Opening /\ migration'.pairs = migration.pairs
  BY <1>1 DEF Rebuild, Opening
<1> QED BY <1>1, <1>2, GoesOnOpening DEF Rebuild

LEMMA RecordKeeps == MigrationInv /\ RecordHashes => MigrationInv'
<1> SUFFICES ASSUME MigrationInv, RecordHashes PROVE MigrationInv'
  OBVIOUS
<1>1. TypeInv /\ migration \in Opening /\ migration.step = "record"
  BY Shapes DEF MigrationInv, RecordHashes
<1>2. /\ UNCHANGED <<source, target, tombstone, delivered, seen, cut, lost>>
      /\ manifest' = Recorded /\ migration' = [step |-> "clients", keep |-> migration.keep]
  BY DEF RecordHashes
<1>3. migration' \in Closing /\ Pending = {} /\ Pending' = {}
  BY <1>1, <1>2 DEF Opening, Closing, Pending
<1>4. manifest' \in Trees
  BY <1>1, <1>2 DEF Recorded, Trees, TypeInv
<1>5. Within(manifest', Accounted) /\ Within(manifest', seen)
  BY <1>1, <1>2, <1>3 DEF Within, Recorded, MigrationInv, DeliveryInv, SeenInv, Accounted
<1>6. TypeInv'
  BY <1>1, <1>2, <1>3, <1>4 DEF TypeInv
<1>7. DeliveryInv'
  BY <1>1, <1>2, <1>3, <1>5 DEF MigrationInv, DeliveryInv, Within, Accounted
<1>8. SeenInv'
  BY <1>2, <1>5 DEF MigrationInv, SeenInv, Within
<1>9. BurialInv' /\ OnlyCutCopiesAreLost'
  BY <1>2 DEF MigrationInv, BurialInv, Accounted, OnlyCutCopiesAreLost
<1> QED BY <1>6, <1>7, <1>8, <1>9 DEF MigrationInv

(* A run that begins to bury, or goes on, with nothing moved. *)
LEMMA BuryingBegins ==
  ASSUME MigrationInv, Pending = {}, migration' = [step |-> "bury", moved |-> {}],
         UNCHANGED <<source, target, manifest, tombstone, delivered, seen, cut, lost>>,
         \A i \in MemoryFiles : source[i] # Absent => <<i, source[i]>> \in Accounted
  PROVE  MigrationInv'
<1>1. migration' \in Burying /\ migration'.step = "bury" /\ migration'.moved = {} /\ Pending' = {}
  BY DEF Burying, Pending
<1>2. TypeInv'
  BY <1>1 DEF MigrationInv, TypeInv
<1>3. DeliveryInv'
  BY <1>1 DEF MigrationInv, DeliveryInv, Within, Accounted
<1>4. BurialInv'
  BY <1>1 DEF MigrationInv, BurialInv, Accounted, Memories
<1>5. SeenInv' /\ OnlyCutCopiesAreLost'
  BY <1>1 DEF MigrationInv, SeenInv, Within, OnlyCutCopiesAreLost
<1> QED BY <1>2, <1>3, <1>4, <1>5 DEF MigrationInv

LEMMA SwitchKeeps == MigrationInv /\ SwitchClients => MigrationInv'
<1> SUFFICES ASSUME MigrationInv, SwitchClients PROVE MigrationInv'
  OBVIOUS
<1>1. /\ migration.step = "clients" /\ Pending = {}
      /\ UNCHANGED <<source, target, manifest, tombstone, delivered, seen, cut, lost>>
  BY DEF SwitchClients, Pending
<1>2. CASE migration' = NoMigration
  BY <1>1, <1>2, RestsOrPlans DEF Resting
<1>3. CASE migration' = [step |-> "bury", moved |-> {}]
  <2>1. \A i \in MemoryFiles : source[i] # Absent => <<i, source[i]>> \in Accounted
    BY <1>1 DEF MigrationInv, DeliveryInv, Within, Accounted, Items
  <2> QED BY <1>1, <1>3, <2>1, BuryingBegins
<1> QED BY <1>2, <1>3 DEF SwitchClients

LEMMA VerifyKeeps == MigrationInv /\ Verify => MigrationInv'
<1> SUFFICES ASSUME MigrationInv, Verify PROVE MigrationInv'
  OBVIOUS
<1>1. /\ migration.step = "verify" /\ Pending = {}
      /\ UNCHANGED <<source, target, manifest, tombstone, delivered, seen, cut, lost>>
  BY DEF Verify, Pending
<1>2. CASE migration' = NoMigration
  BY <1>1, <1>2, RestsOrPlans DEF Resting
<1>3. CASE \A i \in Holds(source) : Safe(i)
  <2>1. CASE migration' = [step |-> "bury", moved |-> {}]
    <3>1. \A i \in MemoryFiles : source[i] # Absent => <<i, source[i]>> \in Accounted
      BY <1>1, <1>3 DEF MigrationInv, DeliveryInv, Within, Accounted, Items, Holds, Safe
    <3> QED BY <1>1, <2>1, <3>1, BuryingBegins
  <2> QED BY <1>2, <2>1 DEF Verify
<1> QED BY <1>2, <1>3 DEF Verify

--------------------------------------------------------------------------------
LEMMA BuryKeeps == MigrationInv /\ Bury => MigrationInv'
<1> SUFFICES ASSUME MigrationInv, Bury PROVE MigrationInv'
  OBVIOUS
<1>1. TypeInv /\ migration \in Burying /\ migration.step = "bury"
  BY Shapes DEF MigrationInv, Bury
<1>2. PICK U \in Units :
        /\ migration' = [migration EXCEPT !.moved = @ \cup {p \in Pairs(source) : p[1] \in U}]
        /\ source' = Without(source, U)
  BY DEF Bury
<1>3. UNCHANGED <<target, manifest, tombstone, delivered, seen, cut, lost>>
  BY DEF Bury
<1>4. source \in Trees
  BY <1>1 DEF TypeInv
<1>5. /\ migration' \in Burying /\ migration'.step = "bury"
      /\ migration'.moved = migration.moved \cup {p \in Pairs(source) : p[1] \in U}
  BY <1>1, <1>2, <1>4, PairsOfTree DEF Burying
<1>6. source' \in Trees /\ \A i \in Items : source'[i] # Absent => source'[i] = source[i]
  BY <1>2, <1>4 DEF Without, Trees
<1>7. TypeInv'
  BY <1>1, <1>3, <1>5, <1>6 DEF TypeInv
<1>8. Pending = {} /\ Pending' = {}
  BY <1>1, <1>5 DEF Pending
<1>9. DeliveryInv'
  BY <1>3, <1>5, <1>8 DEF MigrationInv, DeliveryInv, Within, Accounted
<1>10. Memories(migration'.moved) \subseteq Accounted
  BY <1>1, <1>4, <1>5, PairsOfTree DEF Memories, MigrationInv, BurialInv
<1>11. BurialInv'
  BY <1>1, <1>3, <1>5, <1>6, <1>10 DEF MigrationInv, BurialInv, Accounted, Items
<1>12. SeenInv'
  BY <1>1, <1>3, <1>4, <1>5, <1>6, PairsOfTree DEF MigrationInv, SeenInv, Within
<1>13. OnlyCutCopiesAreLost'
  BY <1>3 DEF MigrationInv, OnlyCutCopiesAreLost
<1> QED BY <1>7, <1>9, <1>11, <1>12, <1>13 DEF MigrationInv

(* A run that goes on burying, or undoing, with what it has moved. *)
LEMMA GoesOnBurying ==
  ASSUME MigrationInv, migration \in Burying, migration' \in Burying,
         migration'.moved = migration.moved,
         UNCHANGED <<source, target, manifest, tombstone, delivered, seen, cut, lost>>
  PROVE  MigrationInv'
<1>1. /\ migration.step \in {"bury", "undo", "delete"} /\ migration'.step \in {"bury", "undo", "delete"}
      /\ Pending = {} /\ Pending' = {}
  BY DEF Burying, Pending
<1>2. TypeInv'
  BY DEF MigrationInv, TypeInv
<1>3. DeliveryInv'
  BY <1>1 DEF MigrationInv, DeliveryInv, Within, Accounted
<1>4. BurialInv' /\ SeenInv' /\ OnlyCutCopiesAreLost'
  BY <1>1 DEF MigrationInv, BurialInv, SeenInv, Within, Accounted, OnlyCutCopiesAreLost
<1> QED BY <1>2, <1>3, <1>4 DEF MigrationInv

LEMMA TurnsKeep == MigrationInv /\ (BuryFails \/ Buried) => MigrationInv'
<1> SUFFICES ASSUME MigrationInv, BuryFails \/ Buried PROVE MigrationInv'
  OBVIOUS
<1>1. migration \in Burying
  BY Shapes DEF MigrationInv, BuryFails, Buried
<1>2. migration' \in Burying /\ migration'.moved = migration.moved
  BY <1>1 DEF Burying, BuryFails, Buried
<1> QED BY <1>1, <1>2, GoesOnBurying DEF BuryFails, Buried

LEMMA UndoKeeps == MigrationInv /\ Undo => MigrationInv'
<1> SUFFICES ASSUME MigrationInv, Undo PROVE MigrationInv'
  OBVIOUS
<1>1. TypeInv /\ migration \in Burying /\ migration.step = "undo"
  BY Shapes DEF MigrationInv, Undo
<1>2. PICK U \in ToUndo :
        LET back == {p \in migration.moved : p[1] \in U} IN
        /\ migration' = [migration EXCEPT !.moved = @ \ back]
        /\ \/ /\ source' = [i \in Items |-> IF \E p \in back : p[1] = i
                                              THEN (CHOOSE p \in back : p[1] = i)[2] ELSE source[i]]
              /\ UNCHANGED <<tombstone, told>>
           \/ /\ tombstone' = tombstone \cup back /\ told' = TRUE
              /\ UNCHANGED source
  BY DEF Undo
<1> DEFINE back == {p \in migration.moved : p[1] \in U}
<1>3. UNCHANGED <<target, manifest, delivered, seen, cut, lost>>
  BY DEF Undo
<1>4. back \subseteq migration.moved /\ back \subseteq Copies
  BY <1>1 DEF Burying
<1>5. /\ migration' \in Burying /\ migration'.step = "undo"
      /\ migration'.moved = migration.moved \ back
  BY <1>1, <1>2 DEF Burying
<1> HIDE DEF back
<1>6. /\ tombstone' \subseteq tombstone \cup back
      /\ source' \in Trees
      /\ \A i \in Items : \/ source'[i] = source[i]
                          \/ <<i, source'[i]>> \in back
  <2>1. CASE source' = source /\ tombstone' = tombstone \cup back
    BY <1>1, <2>1 DEF TypeInv
  <2>2. CASE /\ tombstone' = tombstone
             /\ source' = [i \in Items |-> IF \E p \in back : p[1] = i
                                             THEN (CHOOSE p \in back : p[1] = i)[2] ELSE source[i]]
    <3>1. ASSUME NEW i \in Items
          PROVE  \/ source'[i] = source[i] /\ source'[i] \in Texts \cup {Absent}
                 \/ <<i, source'[i]>> \in back /\ source'[i] \in Texts
      <4>1. CASE \E p \in back : p[1] = i
        <5> DEFINE q == CHOOSE p \in back : p[1] = i
        <5>1. q \in back /\ q[1] = i
          BY <4>1
        <5>2. source'[i] = q[2]
          BY <2>2, <4>1
        <5> HIDE DEF q
        <5>3. q = <<i, q[2]>> /\ q[2] \in Texts
          BY <1>4, <5>1 DEF Copies
        <5> QED BY <5>1, <5>2, <5>3
      <4>2. CASE ~ \E p \in back : p[1] = i
        BY <1>1, <2>2, <4>2 DEF TypeInv, Trees
      <4> QED BY <4>1, <4>2
    <3>2. source' \in Trees
      BY <2>2, <3>1 DEF Trees
    <3> QED BY <2>2, <3>1, <3>2
  <2> QED BY <1>2, <2>1, <2>2 DEF back
<1>7. TypeInv'
  BY <1>1, <1>3, <1>4, <1>5, <1>6 DEF TypeInv
<1>8. Pending = {} /\ Pending' = {}
  BY <1>1, <1>5 DEF Pending
<1>9. DeliveryInv'
  BY <1>3, <1>5, <1>8 DEF MigrationInv, DeliveryInv, Within, Accounted
<1>10. \A i \in MemoryFiles : <<i, source'[i]>> \in back => <<i, source'[i]>> \in Accounted
  BY <1>1, <1>4 DEF MigrationInv, BurialInv, Memories
<1>11. Memories(back) \subseteq Accounted
  BY <1>1, <1>4 DEF MigrationInv, BurialInv, Memories
<1>12. BurialInv'
  BY <1>1, <1>3, <1>5, <1>6, <1>10, <1>11
    DEF MigrationInv, BurialInv, Accounted, Items, Memories
<1>13. SeenInv'
  BY <1>1, <1>3, <1>4, <1>5, <1>6 DEF MigrationInv, SeenInv, Within
<1>14. OnlyCutCopiesAreLost'
  BY <1>3 DEF MigrationInv, OnlyCutCopiesAreLost
<1> QED BY <1>7, <1>9, <1>12, <1>13, <1>14 DEF MigrationInv

(* What is moved when a run is over stays in the tombstone. *)
LEMMA TombstoneStays ==
  ASSUME MigrationInv, migration \in Burying, migration' = NoMigration,
         tombstone' \subseteq tombstone \cup migration.moved,
         lost' \subseteq lost \cup (Memories(tombstone \cup migration.moved) \ delivered),
         UNCHANGED <<source, target, manifest, delivered, seen, cut>>
  PROVE  MigrationInv'
<1>1. /\ migration.step \in {"bury", "undo", "delete"} /\ migration'.step = "none"
      /\ migration' \in Resting /\ migration.moved \subseteq Copies
      /\ Pending = {} /\ Pending' = {}
  BY DEF Burying, Pending, NoMigration, Resting
<1>2. TypeInv'
  BY <1>1 DEF MigrationInv, TypeInv
<1>3. DeliveryInv'
  BY <1>1 DEF MigrationInv, DeliveryInv, Within, Accounted
<1>4. Memories(tombstone \cup migration.moved) \subseteq Accounted
  BY <1>1 DEF MigrationInv, BurialInv, Memories
<1>5. BurialInv'
  BY <1>1, <1>4 DEF BurialInv, Memories, Accounted
<1>6. SeenInv'
  BY <1>1 DEF MigrationInv, SeenInv, Within
<1>7. OnlyCutCopiesAreLost'
  BY <1>4 DEF MigrationInv, OnlyCutCopiesAreLost, Accounted
<1> QED BY <1>2, <1>3, <1>5, <1>6, <1>7 DEF MigrationInv

LEMMA UndoneKeeps == MigrationInv /\ Undone => MigrationInv'
<1> SUFFICES ASSUME MigrationInv, Undone PROVE MigrationInv'
  OBVIOUS
<1>1. migration \in Burying
  BY Shapes DEF MigrationInv, Undone
<1> QED BY <1>1, TombstoneStays DEF Undone

LEMMA DeleteKeeps == MigrationInv /\ Delete => MigrationInv'
<1> SUFFICES ASSUME MigrationInv, Delete PROVE MigrationInv'
  OBVIOUS
<1>1. migration \in Burying
  BY Shapes DEF MigrationInv, Delete
<1>2. PICK rest \in SUBSET (tombstone \cup migration.moved) :
        /\ tombstone' = rest
        /\ lost' = lost \cup {p \in (tombstone \cup migration.moved) \ rest :
                                p[1] \in MemoryFiles /\ p \notin delivered}
  BY DEF Delete
<1>3. lost' \subseteq lost \cup (Memories(tombstone \cup migration.moved) \ delivered)
  BY <1>2 DEF Memories
<1>4. tombstone' \subseteq tombstone \cup migration.moved
  BY <1>2
<1>5. migration' = NoMigration /\ UNCHANGED <<source, target, manifest, delivered, seen, cut>>
  BY DEF Delete
<1> QED BY <1>1, <1>3, <1>4, <1>5, TombstoneStays

--------------------------------------------------------------------------------
LEMMA StopKeeps == MigrationInv /\ StopRun => MigrationInv'
<1> SUFFICES ASSUME MigrationInv, StopRun PROVE MigrationInv'
  OBVIOUS
<1>1. TypeInv /\ migration' = NoMigration
  BY DEF MigrationInv, StopRun
<1>2. CASE migration.step \in {"bury", "undo", "delete"}
  <2>1. migration \in Burying
    BY <1>1, <1>2, Shapes
  <2>2. tombstone' = tombstone \cup migration.moved /\ cut' = cut
    BY <1>2 DEF StopRun
  <2> QED BY <1>1, <2>1, <2>2, TombstoneStays DEF StopRun
<1>3. CASE migration.step = "copy"
  <2>1. /\ cut' = cut \cup Pending
        /\ UNCHANGED <<source, target, manifest, tombstone, delivered, seen, lost>>
    BY <1>3 DEF StopRun, Pending
  <2>2. migration' \in Resting /\ migration'.step = "none" /\ Pending' = {}
    BY <1>1 DEF Resting, NoMigration, Pending
  <2>3. TypeInv'
    BY <1>1, <2>1, <2>2 DEF TypeInv
  <2>4. DeliveryInv'
    BY <2>1, <2>2 DEF MigrationInv, DeliveryInv, Within, Accounted
  <2>5. BurialInv' /\ SeenInv' /\ OnlyCutCopiesAreLost'
    BY <2>1, <2>2 DEF MigrationInv, BurialInv, SeenInv, Within, Accounted, OnlyCutCopiesAreLost
  <2> QED BY <2>3, <2>4, <2>5 DEF MigrationInv
<1>4. CASE migration.step \notin {"copy", "bury", "undo", "delete"}
  <2>1. UNCHANGED <<source, target, manifest, tombstone, delivered, seen, cut, lost>> /\ Pending = {}
    BY <1>4 DEF StopRun, Pending
  <2> QED BY <1>1, <2>1, RestsOrPlans DEF Resting
<1> QED BY <1>2, <1>3, <1>4

LEMMA SaveKeeps == MigrationInv /\ (SaveSource \/ SaveTarget) => MigrationInv'
<1> SUFFICES ASSUME MigrationInv, SaveSource \/ SaveTarget PROVE MigrationInv'
  OBVIOUS
<1>1. /\ TypeInv /\ migration.step \in {"none", "conflict"} /\ Pending = {}
      /\ UNCHANGED <<manifest, tombstone, migration, cut, lost>>
  BY DEF MigrationInv, SaveSource, SaveTarget, Pending
<1>2. Pending' = {}
  BY <1>1 DEF Pending
<1>3. CASE SaveSource
  <2>1. source' \in Trees /\ seen' = seen \cup Pairs(source') /\ UNCHANGED <<target, delivered>>
    BY <1>1, <1>3 DEF SaveSource, TypeInv, Trees
  <2>2. TypeInv'
    BY <1>1, <2>1, PairsOfTree DEF TypeInv
  <2>3. DeliveryInv'
    BY <1>1, <1>2, <2>1 DEF MigrationInv, DeliveryInv, Within, Accounted
  <2>4. SeenInv'
    BY <1>1, <2>1, PairsOfTree DEF MigrationInv, SeenInv, Within
  <2>5. BurialInv' /\ OnlyCutCopiesAreLost'
    BY <1>1, <2>1 DEF MigrationInv, BurialInv, Accounted, OnlyCutCopiesAreLost
  <2> QED BY <2>2, <2>3, <2>4, <2>5 DEF MigrationInv
<1>4. CASE SaveTarget
  <2>1. target' \in Trees /\ delivered' = delivered \cup Pairs(target') /\ UNCHANGED <<source, seen>>
    BY <1>1, <1>4 DEF SaveTarget, TypeInv, Trees
  <2>2. TypeInv'
    BY <1>1, <2>1, PairsOfTree DEF TypeInv
  <2>3. DeliveryInv'
    BY <1>1, <1>2, <2>1, PairsOfTree DEF MigrationInv, DeliveryInv, Within, Accounted
  <2>4. SeenInv'
    BY <1>1, <2>1 DEF MigrationInv, SeenInv, Within
  <2>5. BurialInv' /\ OnlyCutCopiesAreLost'
    BY <1>1, <2>1 DEF MigrationInv, BurialInv, Accounted, OnlyCutCopiesAreLost
  <2> QED BY <2>2, <2>3, <2>4, <2>5 DEF MigrationInv
<1> QED BY <1>3, <1>4

LEMMA StartKeeps == MigrationInv /\ StartRun => MigrationInv'
<1> SUFFICES ASSUME MigrationInv, StartRun PROVE MigrationInv'
  OBVIOUS
<1>1. Pending = {}
  BY DEF StartRun, Pending
<1>2. migration' \in Planning
  <2>1. CASE migration' = [step |-> "verify"]
    BY <2>1 DEF Planning
  <2>2. CASE \E keep \in BOOLEAN : migration' = [step |-> "plan", keep |-> keep]
    BY <2>2 DEF Planning
  <2> QED BY <2>1, <2>2 DEF StartRun
<1> QED BY <1>1, <1>2, RestsOrPlans DEF StartRun

LEMMA MigrationInvNext == MigrationInv /\ [MigrationNext]_migrationVars => MigrationInv'
<1> SUFFICES ASSUME MigrationInv, [MigrationNext]_migrationVars PROVE MigrationInv'
  OBVIOUS
<1>1. CASE UNCHANGED migrationVars
  <2>1. Pending' = Pending
    BY <1>1 DEF Pending, migrationVars
  <2> QED BY <1>1, <2>1 DEF migrationVars, MigrationInv, TypeInv, DeliveryInv, BurialInv, SeenInv,
        Within, Accounted, OnlyCutCopiesAreLost
<1> QED BY <1>1, StartKeeps, PlanKeeps, CopyKeeps, CopiedKeeps, InitializeKeeps, RebuildKeeps,
      RecordKeeps, SwitchKeeps, VerifyKeeps, BuryKeeps, TurnsKeep, UndoKeeps, UndoneKeeps,
      DeleteKeeps, StopKeeps, SaveKeeps DEF MigrationNext

(* A run writes where nothing is, or over what it or the source once held. *)
LEMMA OnlySeenIsReplaced ==
  MigrationInv /\ MigrationNext /\ migration.step \notin {"none", "conflict"} =>
    \A i \in Items : target'[i] # target[i] => target[i] = Absent \/ <<i, target[i]>> \in seen
<1> SUFFICES ASSUME MigrationInv, MigrationNext, migration.step \notin {"none", "conflict"},
                    NEW i \in Items, target'[i] # target[i], target[i] # Absent
             PROVE  <<i, target[i]>> \in seen
  OBVIOUS
<1>1. TypeInv
  BY DEF MigrationInv
<1>2. CASE Copy
  <2>1. PICK j \in migration.todo : target' = [target EXCEPT ![j] = source[j]]
    BY <1>2 DEF Copy
  <2>2. migration.step = "copy" /\ j \in migration.pairs
    BY <1>2 DEF Copy, MigrationInv, SeenInv
  <2>3. i = j
    BY <1>1, <2>1 DEF TypeInv, Trees
  <2> QED BY <2>2, <2>3 DEF MigrationInv, SeenInv
<1>3. CASE Initialize
  <2>1. target[Config] = Absent /\ \E t \in Texts : target' = [target EXCEPT ![Config] = t]
    BY <1>3 DEF Initialize
  <2> QED BY <1>1, <2>1 DEF TypeInv, Trees
<1> QED BY <1>2, <1>3 DEF MigrationNext, StartRun, Plan, Copied, Rebuild, RecordHashes, SwitchClients,
      Verify, Bury, BuryFails, Undo, Undone, Buried, Delete, StopRun, SaveSource, SaveTarget

--------------------------------------------------------------------------------
(* Runs that go on where another stopped.                                 *)

(* A file of the memory vault that the next plan need not refuse, or that  *)
(* is not only a copy.                                                     *)
Explained(i) == target[i] \in {Absent, manifest[i]} \/ i \in others

(* What the run has planned and not copied. *)
Unsettled == IF migration.step = "copy" THEN migration.todo ELSE {}

RerunInv ==
  ~halted =>
    /\ RerunWorks
    /\ \A i \in Items \ Unsettled : Explained(i)
    /\ migration.step = "copy" => \A i \in migration.todo : manifest[i] = source[i]

LEMMA RerunInvInit == MigrationInit => RerunInv
BY DEF MigrationInit, NoMigration, RerunInv, RerunWorks, Unsettled, Explained

LEMMA PlanExplains == RerunInv /\ Plan => RerunInv'
<1> SUFFICES ASSUME RerunInv, Plan, ~halted PROVE RerunInv'
  BY DEF Plan, RerunInv
<1>1. UNCHANGED <<source, target, others, halted>> /\ \A i \in Items : Explained(i)
  BY DEF Plan, RerunInv, Unsettled
<1>2. CASE \A i \in Holds(source) : Overwritable(i)
  <2>1. /\ manifest' = [i \in Items |-> IF source[i] # Absent THEN source[i] ELSE manifest[i]]
        /\ migration' = [step |-> "copy", keep |-> migration.keep,
                         pairs |-> Holds(source), todo |-> Holds(source)]
    BY <1>2 DEF Plan
  <2>2. /\ \A i \in Holds(source) : i \in Items /\ manifest'[i] = source[i]
        /\ \A i \in Items \ Holds(source) : manifest'[i] = manifest[i]
    BY <2>1 DEF Holds
  <2> QED BY <1>1, <2>1, <2>2 DEF RerunInv, RerunWorks, Unsettled, Explained
<1>3. CASE ~ \A i \in Holds(source) : Overwritable(i)
  <2>1. /\ migration' = [step |-> "conflict", over |-> {i \in Holds(source) : ~Overwritable(i)}]
        /\ manifest' = manifest
    BY <1>3 DEF Plan
  <2>2. migration'.step = "conflict" /\ migration'.over \subseteq others
    BY <1>1, <2>1 DEF Overwritable, Explained, Holds
  <2> QED BY <1>1, <2>1, <2>2 DEF RerunInv, RerunWorks, Unsettled, Explained
<1> QED BY <1>2, <1>3

LEMMA CopyExplains == MigrationInv /\ RerunInv /\ (Copy \/ Copied) => RerunInv'
<1> SUFFICES ASSUME MigrationInv, RerunInv, Copy \/ Copied, ~halted PROVE RerunInv'
  BY DEF Copy, Copied, RerunInv
<1>1. /\ migration \in Copying /\ migration.step = "copy" /\ target \in [Items -> Texts \cup {Absent}]
      /\ UNCHANGED <<source, manifest, others, halted>>
  BY Shapes DEF MigrationInv, TypeInv, Trees, Copy, Copied
<1>2. CASE Copy
  <2>1. PICK i \in migration.todo :
          /\ target' = [target EXCEPT ![i] = source[i]]
          /\ migration' = [migration EXCEPT !.todo = @ \ {i}]
    BY <1>2 DEF Copy
  <2>2. /\ migration'.step = "copy" /\ migration'.todo = migration.todo \ {i} /\ i \in Items
    BY <1>1, <2>1 DEF Copying
  <2>3. target'[i] = source[i] /\ \A j \in Items \ {i} : target'[j] = target[j]
    BY <1>1, <2>1, <2>2
  <2>4. \A j \in Items \ migration'.todo : Explained(j)'
    BY <1>1, <2>2, <2>3 DEF RerunInv, Unsettled, Explained
  <2> QED BY <1>1, <2>2, <2>4 DEF RerunInv, RerunWorks, Unsettled
<1>3. CASE Copied
  <2>1. /\ migration.todo = {} /\ target' = target
        /\ migration' = [step |-> "initialize", keep |-> migration.keep, pairs |-> migration.pairs]
    BY <1>3 DEF Copied
  <2> QED BY <1>1, <2>1 DEF RerunInv, RerunWorks, Unsettled, Explained
<1> QED BY <1>2, <1>3

LEMMA OpeningExplains == MigrationInv /\ RerunInv /\ (Initialize \/ Rebuild) => RerunInv'
<1> SUFFICES ASSUME MigrationInv, RerunInv, Initialize \/ Rebuild, ~halted PROVE RerunInv'
  BY DEF Initialize, Rebuild, RerunInv
<1>1. migration \in Opening /\ target \in [Items -> Texts \cup {Absent}]
  BY Shapes DEF MigrationInv, TypeInv, Trees, Initialize, Rebuild
<1>2. /\ migration'.step \in {"rebuild", "record"} /\ UNCHANGED <<manifest, halted>>
      /\ \A i \in Items : Explained(i)
  BY <1>1 DEF Initialize, Rebuild, Opening, RerunInv, Unsettled
<1>3. CASE \E t \in Texts : target' = [target EXCEPT ![Config] = t] /\ others' = others \cup {Config}
  <2>1. \A i \in Items : Explained(i)'
    BY <1>1, <1>2, <1>3 DEF Explained
  <2> QED BY <1>2, <2>1 DEF RerunInv, RerunWorks, Unsettled
<1>4. CASE UNCHANGED <<target, others>>
  BY <1>2, <1>4 DEF RerunInv, RerunWorks, Unsettled, Explained
<1> QED BY <1>3, <1>4 DEF Initialize, Rebuild

LEMMA RecordExplains == MigrationInv /\ RerunInv /\ RecordHashes => RerunInv'
<1> SUFFICES ASSUME MigrationInv, RerunInv, RecordHashes, ~halted PROVE RerunInv'
  BY DEF RecordHashes, RerunInv
<1>1. /\ UNCHANGED <<target, others, halted>> /\ migration.step = "record"
      /\ manifest' = Recorded /\ migration' = [step |-> "clients", keep |-> migration.keep]
  BY DEF RecordHashes
<1>2. \A i \in Items : IF i \in migration.pairs /\ target[i] # Absent
                         THEN manifest'[i] = target[i] ELSE manifest'[i] = manifest[i]
  BY <1>1 DEF Recorded
<1>3. \A i \in Items : Explained(i)'
  BY <1>1, <1>2 DEF RerunInv, Unsettled, Explained
<1> QED BY <1>1, <1>3 DEF RerunInv, RerunWorks, Unsettled

(* Nothing is planned, and neither the memory vault nor its manifest move. *)
LEMMA RestExplains ==
  ASSUME RerunInv, UNCHANGED <<target, manifest, others, halted>>, Unsettled = {},
         migration'.step # "copy",
         migration'.step = "conflict" => migration' = migration
  PROVE  RerunInv'
BY DEF RerunInv, RerunWorks, Unsettled, Explained

LEMMA SourceExplains ==
  MigrationInv /\ RerunInv /\
    (SwitchClients \/ Verify \/ Bury \/ BuryFails \/ Undo \/ Undone \/ Buried \/ Delete) => RerunInv'
<1> SUFFICES ASSUME MigrationInv, RerunInv,
                    \/ SwitchClients \/ Verify \/ Bury \/ BuryFails
                    \/ Undo \/ Undone \/ Buried \/ Delete
             PROVE  RerunInv'
  OBVIOUS
<1>1. UNCHANGED <<target, manifest, others, halted>>
  BY DEF SwitchClients, Verify, Bury, BuryFails, Undo, Undone, Buried, Delete
<1>2. Unsettled = {}
  BY DEF SwitchClients, Verify, Bury, BuryFails, Undo, Undone, Buried, Delete, Unsettled
<1>3. migration'.step \in {"none", "bury", "undo", "delete"}
  <2>1. CASE SwitchClients \/ Verify
    BY <2>1 DEF SwitchClients, Verify, NoMigration
  <2>2. CASE Undone \/ Delete
    BY <2>2 DEF Undone, Delete, NoMigration
  <2>3. CASE Bury \/ BuryFails \/ Undo \/ Buried
    <3>1. migration \in Burying
      BY <2>3, Shapes DEF MigrationInv, Bury, BuryFails, Undo, Buried
    <3> QED BY <2>3, <3>1 DEF Burying, Bury, BuryFails, Undo, Buried
  <2> QED BY <2>1, <2>2, <2>3
<1> QED BY <1>1, <1>2, <1>3, RestExplains

LEMMA StartExplains == RerunInv /\ StartRun => RerunInv'
<1> SUFFICES ASSUME RerunInv, StartRun PROVE RerunInv'
  OBVIOUS
<1>1. UNCHANGED <<target, manifest, others, halted>> /\ Unsettled = {}
  BY DEF StartRun, Unsettled
<1>2. migration'.step \in {"plan", "verify"}
  BY DEF StartRun
<1> QED BY <1>1, <1>2, RestExplains

(* A run cut short between its plan and its copies has changed nothing of  *)
(* what an earlier one copied, or there would be something to refresh.     *)
LEMMA StopExplains == MigrationInv /\ RerunInv /\ StopRun => RerunInv'
<1> SUFFICES ASSUME MigrationInv, RerunInv, StopRun, ~halted' PROVE RerunInv'
  BY DEF RerunInv
<1>1. /\ ~halted /\ ToRefresh = {} /\ migration' = NoMigration
      /\ UNCHANGED <<target, manifest, others>>
  BY DEF StopRun
<1>2. ASSUME NEW i \in Unsettled
      PROVE  target[i] \in {Absent, manifest[i]}
  <2>1. migration.step = "copy" /\ i \in migration.todo
    BY <1>2 DEF Unsettled
  <2>2. manifest[i] = source[i]
    BY <1>1, <2>1 DEF RerunInv
  <2> QED BY <1>1, <2>1, <2>2 DEF ToRefresh
<1>3. \A i \in Items : Explained(i)
  BY <1>1, <1>2 DEF RerunInv, Explained
<1> QED BY <1>1, <1>3 DEF NoMigration, RerunInv, RerunWorks, Unsettled, Explained

LEMMA SaveExplains == MigrationInv /\ RerunInv /\ (SaveSource \/ SaveTarget) => RerunInv'
<1> SUFFICES ASSUME MigrationInv, RerunInv, SaveSource \/ SaveTarget, ~halted PROVE RerunInv'
  BY DEF SaveSource, SaveTarget, RerunInv
<1>1. /\ UNCHANGED <<migration, manifest, halted>> /\ migration.step \in {"none", "conflict"}
      /\ target \in [Items -> Texts \cup {Absent}]
  BY DEF SaveSource, SaveTarget, MigrationInv, TypeInv, Trees
<1>2. others \subseteq others' /\ \A i \in Items : target'[i] = target[i] \/ i \in others'
  <2>1. CASE SaveSource
    BY <2>1 DEF SaveSource
  <2>2. CASE SaveTarget
    BY <1>1, <2>2 DEF SaveTarget
  <2> QED BY <2>1, <2>2
<1>3. \A i \in Items : Explained(i)'
  BY <1>1, <1>2 DEF RerunInv, Unsettled, Explained
<1> QED BY <1>1, <1>2, <1>3 DEF RerunInv, RerunWorks, Unsettled

LEMMA RerunInvNext ==
  MigrationInv /\ RerunInv /\ [MigrationNext]_migrationVars => RerunInv'
<1> SUFFICES ASSUME MigrationInv, RerunInv, [MigrationNext]_migrationVars PROVE RerunInv'
  OBVIOUS
<1>1. CASE UNCHANGED migrationVars
  BY <1>1 DEF migrationVars, RerunInv, RerunWorks, Unsettled, Explained
<1> QED BY <1>1, StartExplains, PlanExplains, CopyExplains, OpeningExplains, RecordExplains,
      SourceExplains, StopExplains, SaveExplains DEF MigrationNext

--------------------------------------------------------------------------------
(* What a run has moved to the tombstone has left the old vault. *)
MovedAway ==
  migration.step \in {"bury", "undo", "delete"} =>
    \A p \in migration.moved : source[p[1]] = Absent

LEMMA MovedAwayNext ==
  MigrationInv /\ MovedAway /\ [MigrationNext]_migrationVars => MovedAway'
<1> SUFFICES ASSUME MigrationInv, MovedAway, [MigrationNext]_migrationVars PROVE MovedAway'
  OBVIOUS
<1>0. TypeInv
  BY DEF MigrationInv
<1>1. CASE UNCHANGED <<source, migration>>
  BY <1>1 DEF MovedAway
<1>2. CASE Bury
  <2>1. migration \in Burying /\ source \in Trees /\ migration.step = "bury"
    BY <1>0, <1>2, Shapes DEF Bury, TypeInv
  <2>2. PICK U \in Units :
          /\ migration' = [migration EXCEPT !.moved = @ \cup {p \in Pairs(source) : p[1] \in U}]
          /\ source' = Without(source, U)
    BY <1>2 DEF Bury
  <2>3. migration'.moved = migration.moved \cup {p \in Pairs(source) : p[1] \in U}
    BY <2>1, <2>2 DEF Burying
  <2>4. \A p \in migration'.moved : p \in Copies
    BY <2>1, <2>3, PairsOfTree DEF Burying
  <2>5. ASSUME NEW p \in migration'.moved
        PROVE  source'[p[1]] = Absent
    <3>1. p[1] \in Items
      BY <2>4, <2>5 DEF Copies
    <3>2. p[1] \in U \/ source[p[1]] = Absent
      BY <2>1, <2>3, <2>5 DEF MovedAway
    <3> QED BY <2>2, <3>1, <3>2 DEF Without
  <2> QED BY <2>5 DEF MovedAway
<1>3. CASE Undo
  <2>1. migration \in Burying /\ migration.step = "undo"
    BY <1>0, <1>3, Shapes DEF Undo
  <2>2. PICK U \in ToUndo :
          LET back == {p \in migration.moved : p[1] \in U}
          IN  /\ migration' = [migration EXCEPT !.moved = @ \ back]
              /\ \/ source' = [i \in Items |-> IF \E p \in back : p[1] = i
                                                THEN (CHOOSE p \in back : p[1] = i)[2]
                                                ELSE source[i]]
                 \/ UNCHANGED source
    BY <1>3 DEF Undo
  <2> DEFINE back == {p \in migration.moved : p[1] \in U}
  <2>3. migration'.moved = migration.moved \ back
    BY <2>1, <2>2 DEF Burying
  <2>4. ASSUME NEW p \in migration'.moved
        PROVE  source'[p[1]] = Absent
    <3>1. p \in migration.moved /\ p[1] \notin U /\ p[1] \in Items
      BY <2>1, <2>3, <2>4 DEF Burying, Copies
    <3>2. ~ \E q \in back : q[1] = p[1]
      BY <3>1
    <3>3. source[p[1]] = Absent
      BY <2>1, <3>1 DEF MovedAway
    <3> QED BY <2>2, <3>1, <3>2, <3>3
  <2> QED BY <2>4 DEF MovedAway
<1>4. CASE SwitchClients \/ Verify
  BY <1>4 DEF SwitchClients, Verify, NoMigration, MovedAway
<1>5. CASE BuryFails \/ Buried
  <2>1. migration \in Burying /\ migration.step = "bury" /\ source' = source
    BY <1>0, <1>5, Shapes DEF BuryFails, Buried
  <2>2. migration'.moved = migration.moved
    BY <1>5, <2>1 DEF BuryFails, Buried, Burying
  <2> QED BY <2>1, <2>2 DEF MovedAway
<1>6. CASE Undone \/ Delete \/ StopRun
  BY <1>6 DEF Undone, Delete, StopRun, NoMigration, MovedAway
<1>7. CASE StartRun \/ Plan \/ Copied \/ RecordHashes
  BY <1>7 DEF StartRun, Plan, Copied, RecordHashes, MovedAway
<1>8. CASE Copy \/ Initialize \/ Rebuild
  <2>1. migration \in Copying \cup Opening
    BY <1>0, <1>8, Shapes DEF Copy, Initialize, Rebuild
  <2> QED BY <1>8, <2>1 DEF Copy, Initialize, Rebuild, Copying, Opening, MovedAway
<1>9. CASE SaveSource \/ SaveTarget
  BY <1>9 DEF SaveSource, SaveTarget, MovedAway
<1> QED BY <1>1, <1>2, <1>3, <1>4, <1>5, <1>6, <1>7, <1>8, <1>9 DEF MigrationNext, migrationVars

(* A migration keeps the types of both vaults, manifest and tombstone, and *)
(* what it has moved aside is never still in the old vault.                *)
THEOREM MigrationTypes == MigrationSpec => []MigrationTypeOK
<1>1. MigrationInit => MovedAway
  BY DEF MigrationInit, NoMigration, MovedAway
<1>2. ASSUME MigrationInv, MovedAway
      PROVE  MigrationTypeOK
  <2>1. TypeInv
    BY <1>2 DEF MigrationInv
  <2>2. migration.step \in {"none", "conflict", "plan", "copy", "initialize", "rebuild",
                           "record", "clients", "verify", "bury", "undo", "delete"}
    <3>1. CASE migration \in Resting \cup Planning
      BY <3>1 DEF Resting, Planning, NoMigration
    <3>2. CASE migration \in Copying \cup Opening \cup Closing \cup Burying
      BY <3>2 DEF Copying, Opening, Closing, Burying
    <3> QED BY <2>1, <3>1, <3>2 DEF TypeInv
  <2>3. ASSUME migration.step \in {"bury", "undo", "delete"}
        PROVE  migration.moved \subseteq Copies /\ migration.moved \cap Pairs(source) = {}
    <3>1. migration.moved \subseteq Copies
      BY <2>1, <2>3, Shapes DEF Burying
    <3>2. ASSUME NEW p \in Pairs(source)
          PROVE  p \notin migration.moved
      <4>1. source[p[1]] # Absent
        BY <3>2 DEF Pairs, Holds
      <4> QED BY <1>2, <2>3, <4>1 DEF MovedAway
    <3> QED BY <3>1, <3>2
  <2> QED BY <2>1, <2>2, <2>3 DEF TypeInv, MigrationTypeOK
<1> QED BY <1>1, <1>2, MovedAwayNext, MigrationInvInit, MigrationInvNext, PTL DEF MigrationSpec

(* A note that is deleted from the old vault was delivered to the new one, *)
(* or a run was about to copy it when it was cut short.                    *)
THEOREM CopiesComeFirst == MigrationSpec => []OnlyCutCopiesAreLost
<1>1. MigrationInv => OnlyCutCopiesAreLost
  BY DEF MigrationInv
<1> QED BY <1>1, MigrationInvInit, MigrationInvNext, PTL DEF MigrationSpec

(* What clients wrote in the new vault is never overwritten by a run.      *)
THEOREM ClientsKeepTheirWork == MigrationSpec => OthersWorkStays
<1>1. MigrationInv /\ [MigrationNext]_migrationVars =>
        [migration.step \notin {"none", "conflict"} =>
           \A i \in Items :
             target'[i] # target[i] => target[i] = Absent \/ <<i, target[i]>> \in seen]_migrationVars
  <2> SUFFICES ASSUME MigrationInv, MigrationNext, migration.step \notin {"none", "conflict"}
               PROVE  \A i \in Items :
                        target'[i] # target[i] => target[i] = Absent \/ <<i, target[i]>> \in seen
    BY DEF migrationVars
  <2> QED BY OnlySeenIsReplaced
<1> QED BY <1>1, MigrationInvInit, MigrationInvNext, PTL DEF MigrationSpec, OthersWorkStays

(* The source is removed whole or not at all, but for what a run reported, *)
(* or died over.                                                           *)
THEOREM SourceGoesWhole == MigrationSpec => []WholeOrNothing
<1>1. MigrationInit => WholeOrNothing
  BY DEF MigrationInit, WholeOrNothing
<1>2. MigrationInv /\ WholeOrNothing /\ [MigrationNext]_migrationVars => WholeOrNothing'
  <2> SUFFICES ASSUME MigrationInv, WholeOrNothing, MigrationNext PROVE WholeOrNothing'
    BY DEF WholeOrNothing, migrationVars
  <2>1. CASE Undone
    <3>1. migration.moved \subseteq Copies
      BY <2>1, Shapes DEF Undone, MigrationInv, Burying
    <3>2. \A i \in Items : \E U \in Units : i \in U
      BY DEF Items, Units
    <3>3. migration.moved = {}
      <4> SUFFICES ASSUME NEW p \in migration.moved PROVE FALSE
        OBVIOUS
      <4>1. p[1] \in Items
        BY <3>1 DEF Copies
      <4>2. PICK U \in Units : p[1] \in U
        BY <3>2, <4>1
      <4>3. U \in ToUndo
        BY <4>2 DEF ToUndo
      <4> QED BY <2>1, <4>3 DEF Undone
    <3> QED BY <2>1, <3>3 DEF Undone, WholeOrNothing
  <2>2. CASE Undo
    BY <2>2 DEF Undo, WholeOrNothing
  <2>3. CASE Delete
    BY <2>3 DEF Delete, WholeOrNothing
  <2>4. CASE StopRun
    BY <2>4 DEF StopRun, WholeOrNothing
  <2>5. CASE UNCHANGED <<tombstone, told>>
    BY <2>5 DEF WholeOrNothing
  <2> QED BY <2>1, <2>2, <2>3, <2>4, <2>5 DEF MigrationNext, StartRun, Plan, Copy, Copied,
        Initialize, Rebuild, RecordHashes, SwitchClients, Verify, Bury, BuryFails, Buried,
        SaveSource, SaveTarget
<1> QED BY <1>1, <1>2, MigrationInvInit, MigrationInvNext, PTL DEF MigrationSpec

(* Unless a run died with a copy of an earlier one still to refresh, a run *)
(* that refuses to overwrite refuses for files that are not only copies.   *)
THEOREM RerunsGoOn == MigrationSpec => []RerunWorksUnlessHalted
<1>1. RerunInv => RerunWorksUnlessHalted
  BY DEF RerunInv, RerunWorksUnlessHalted
<1> QED BY <1>1, MigrationInvInit, MigrationInvNext, RerunInvInit, RerunInvNext, PTL
      DEF MigrationSpec
================================================================================
