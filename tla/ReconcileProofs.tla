---------------------------- MODULE ReconcileProofs ----------------------------
(***************************************************************************)
(* Proofs about Reconcile, for any notes, contents, settings and number of *)
(* servers.                                                                *)
(*                                                                         *)
(* Types; Steady: a pass only drops a row whose note it found gone,        *)
(* undecodable or under another identity; Upgrading: rows of the older     *)
(* chunker only ever disappear, and a pass that found the old version has  *)
(* each of them still ahead.  Then, on top of what a pass holds at each    *)
(* step (Orderly) and of what a calm one knows of the index (Knows): a row *)
(* that is skipped by its mtime is a true one (Rightly), answers served    *)
(* from the cache are fresh (Fresh), marks are kept (Marked), and a pass   *)
(* nothing disturbs leaves the index equal to the vault (Calm).            *)
(*                                                                         *)
(* One server (SingleServer) needs the exceptions of none of them: nothing *)
(* crosses and the generation never moves backwards (Alone).               *)
(***************************************************************************)
EXTENDS Reconcile, FiniteSetTheorems, FunctionTheorems, TLAPS

LEMMA IdleTyped == Idle \in PassTypes
BY DEF Idle, PassTypes, PassKinds, Tables

LEMMA SetTyped ==
  ASSUME TypeOK, NEW p \in Procs, NEW s \in PassTypes, Set(p, s)
  PROVE  pass' \in [Procs -> PassTypes]
BY DEF TypeOK, Set

LEMMA EndTyped ==
  ASSUME TypeOK, NEW p \in Procs, pass' = [pass EXCEPT ![p] = Idle]
  PROVE  pass' \in [Procs -> PassTypes]
BY IdleTyped DEF TypeOK

LEMMA ViewTyped ==
  ASSUME TypeOK, NEW p \in Procs
  PROVE  View(p) \in Tables
BY DEF TypeOK, View

LEMMA WithoutTyped ==
  ASSUME NEW rows \in Tables, NEW i \in Ids
  PROVE  Without(rows, i) \in Tables
BY DEF Tables, Without

LEMMA UpsertTyped ==
  ASSUME NEW rows \in Tables, NEW i \in Ids, NEW row \in Rows
  PROVE  Upsert(rows, i, row) \in Tables
BY DEF Tables, Upsert

LEMMA WithMtimeTyped ==
  ASSUME NEW rows \in Tables, NEW i \in Ids, NEW m \in Nat
  PROVE  WithMtime(rows, i, m) \in Tables
<1>1. CASE rows[i] = Absent
  BY <1>1 DEF WithMtime
<1>2. CASE rows[i] # Absent
  <2>1. rows[i] \in Rows
    BY <1>2 DEF Tables
  <2>2. [rows[i] EXCEPT !.mtime = m] \in Rows
    BY <2>1 DEF Rows
  <2>3. WithMtime(rows, i, m) = [rows EXCEPT ![i] = [rows[i] EXCEPT !.mtime = m]]
    BY <1>2 DEF WithMtime, Tables
  <2> QED BY <2>2, <2>3 DEF Tables
<1> QED BY <1>1, <1>2

LEMMA FreeLockTyped ==
  FreeLock \in [owner : Procs \cup {NoProc}, rows : Tables, units : Nat]
BY DEF FreeLock, Tables

LEMMA WriteTyped ==
  ASSUME TypeOK, NEW p \in Procs, NEW rows \in Tables, Write(p, rows)
  PROVE  /\ index' \in Tables
         /\ lock' \in [owner : Procs \cup {NoProc}, rows : Tables, units : Nat]
         /\ calm' \in [Procs -> BOOLEAN]
BY FreeLockTyped DEF TypeOK, Write

LEMMA RollbackTyped ==
  ASSUME TypeOK, NEW p \in Procs, Rollback(p)
  PROVE  lock' \in [owner : Procs \cup {NoProc}, rows : Tables, units : Nat]
BY FreeLockTyped DEF TypeOK, Rollback

LEMMA CommitTyped ==
  ASSUME TypeOK, NEW p \in Procs, Commit(p)
  PROVE  /\ index' \in Tables
         /\ lock' \in [owner : Procs \cup {NoProc}, rows : Tables, units : Nat]
BY FreeLockTyped DEF TypeOK, Commit

LEMMA StopTyped ==
  ASSUME NEW s \in PassTypes
  PROVE  [s EXCEPT !.pc = "get", !.failed = TRUE, !.hand = Absent] \in PassTypes
BY DEF PassTypes

LEMMA RaiseTyped ==
  ASSUME TypeOK, NEW p \in Procs, Raise(p)
  PROVE  /\ pass' \in [Procs -> PassTypes]
         /\ lock' \in [owner : Procs \cup {NoProc}, rows : Tables, units : Nat]
<1>1. lock' \in [owner : Procs \cup {NoProc}, rows : Tables, units : Nat]
  BY RollbackTyped DEF Raise
<1>2. [pass[p] EXCEPT !.pc = "get", !.failed = TRUE, !.hand = Absent] \in PassTypes
  BY StopTyped DEF TypeOK
<1> QED BY <1>1, <1>2, SetTyped, EndTyped DEF Raise

LEMMA TickIsInjective ==
  /\ Cardinality(Paths) \in Nat
  /\ Tick \in [Paths -> 1..Cardinality(Paths)]
  /\ \A x, y \in Paths : Tick[x] = Tick[y] => x = y
<1> DEFINE T == 1..Cardinality(Paths)
<1>1. Cardinality(Paths) \in Nat /\ ExistsBijection(T, Paths)
  BY ReconcileAssumption, FS_CardinalityType
<1>2. PICK t : t \in Bijection(Paths, T)
  BY <1>1, Fun_ExistsBijSymmetric, Fun_ExistsBij
<1>3. t \in [Paths -> T] /\ \A x, y \in Paths : t[x] = t[y] => x = y
  BY <1>2 DEF Bijection, Injection, IsInjective
<1> QED BY <1>1, <1>3 DEF Tick

(* What the handlers write into the record of a pass has its type. *)

LEMMA StartedTyped ==
  ASSUME NEW s \in PassTypes, NEW kind \in PassKinds, NEW c \in {"walk", "snapshot"},
         NEW marks \in SUBSET Paths
  PROVE  [s EXCEPT !.kind = kind, !.pc = c, !.todo = Paths, !.marks = marks] \in PassTypes
BY DEF PassTypes

LEMMA WalkedTyped ==
  ASSUME NEW s \in PassTypes, NEW x \in Paths, NEW m \in Nat, NEW todo \in SUBSET Paths,
         NEW u \in BOOLEAN, NEW c \in {"walk", "snapshot", "prepare"}
  PROVE  [s EXCEPT !.live[x] = m, !.todo = todo, !.upgrade = u, !.pc = c] \in PassTypes
<1>1. [s.live EXCEPT ![x] = m] \in [Paths -> Nat]
  BY DEF PassTypes
<1> QED BY <1>1 DEF PassTypes

LEMMA SnappedTyped ==
  ASSUME NEW s \in PassTypes, NEW t \in Tables, NEW u \in BOOLEAN,
         NEW c \in {"walk", "prepare"}
  PROVE  [s EXCEPT !.snap = t, !.upgrade = u, !.pc = c] \in PassTypes
BY DEF PassTypes

LEMMA ClaimedTyped ==
  ASSUME NEW s \in PassTypes, NEW x \in Paths,
         NEW outcome \in Identities \cup {Absent, Unreadable, Undecodable},
         NEW owners \in [Ids -> Paths \cup {Absent}]
  PROVE  [s EXCEPT !.prepared[x] = outcome, !.todo = @ \ {x}, !.owners = owners] \in PassTypes
<1>1. [s.prepared EXCEPT ![x] = outcome]
        \in [Paths -> Identities \cup {Absent, Unreadable, Undecodable}]
  BY DEF PassTypes
<1>2. s.todo \ {x} \in SUBSET Paths
  BY DEF PassTypes
<1> QED BY <1>1, <1>2 DEF PassTypes

LEMMA GoneTyped ==
  ASSUME NEW s \in PassTypes, NEW gone \in SUBSET Ids
  PROVE  [s EXCEPT !.pc = "purge", !.gone = gone] \in PassTypes
BY DEF PassTypes

LEMMA PurgedTyped ==
  ASSUME NEW s \in PassTypes, NEW deleted \in BOOLEAN, NEW todo \in SUBSET Paths
  PROVE  [s EXCEPT !.pc = "apply", !.deleted = deleted, !.todo = todo] \in PassTypes
BY DEF PassTypes

LEMMA SettledTyped ==
  ASSUME NEW s \in PassTypes, NEW x
  PROVE  [s EXCEPT !.todo = @ \ {x}] \in PassTypes
<1>1. s.todo \ {x} \in SUBSET Paths
  BY DEF PassTypes
<1> QED BY <1>1 DEF PassTypes

LEMMA PurgingTyped ==
  ASSUME NEW s \in PassTypes, NEW i
  PROVE  [s EXCEPT !.gone = @ \ {i}] \in PassTypes
<1>1. s.gone \ {i} \in SUBSET Ids
  BY DEF PassTypes
<1> QED BY <1>1 DEF PassTypes

LEMMA HandedTyped ==
  ASSUME NEW s \in PassTypes, NEW x \in Paths, NEW i \in Ids, NEW h \in Hashes
  PROVE  [s EXCEPT !.todo = @ \ {x}, !.owners[i] = x,
                   !.hand = [path |-> x, id |-> i, hash |-> h]] \in PassTypes
<1>1. s.todo \ {x} \in SUBSET Paths /\ [s.owners EXCEPT ![i] = x] \in [Ids -> Paths \cup {Absent}]
  BY DEF PassTypes
<1>2. [path |-> x, id |-> i, hash |-> h] \in Handed \cup {Absent}
  BY DEF Handed
<1> QED BY <1>1, <1>2 DEF PassTypes

LEMMA StoredTyped ==
  ASSUME NEW s \in PassTypes, NEW c \in {"apply", "get"}
  PROVE  /\ [s EXCEPT !.hand = Absent] \in PassTypes
         /\ [s EXCEPT !.hand = Absent, !.reindexed = TRUE, !.pc = c] \in PassTypes
BY DEF PassTypes

LEMMA AdvancedTyped ==
  ASSUME NEW s \in PassTypes, NEW c \in {"stamp", "get", "store"}, NEW n \in Nat
  PROVE  /\ [s EXCEPT !.pc = c] \in PassTypes
         /\ [s EXCEPT !.pc = "set", !.next = n] \in PassTypes
BY DEF PassTypes

LEMMA TargetedTyped ==
  ASSUME NEW s \in PassTypes, NEW x \in Paths, NEW i \in Ids, NEW h \in Hashes
  PROVE  [s EXCEPT !.kind = "note", !.pc = "drop",
                   !.hand = [path |-> x, id |-> i, hash |-> h]] \in PassTypes
<1>1. [path |-> x, id |-> i, hash |-> h] \in Handed \cup {Absent}
  BY DEF Handed
<1> QED BY <1>1 DEF PassTypes, PassKinds


LEMMA ReadNowTyped ==
  ASSUME TypeOK, NEW x \in Paths
  PROVE  /\ ReadNow(x) \in Identities \cup {Unreadable, Undecodable}
         /\ ReadNow(x) \notin {Unreadable, Undecodable}
              => /\ disk[x] \in Notes
                 /\ ReadNow(x) = [id |-> disk[x].id, hash |-> disk[x].hash]
                 /\ ReadNow(x).id \in Ids /\ ReadNow(x).hash \in Hashes
BY DEF TypeOK, ReadNow, Notes, Identities

LEMMA FaultyTyped ==
  ASSUME TypeOK, NEW kind, Faulty(kind)
  PROVE  faults' \in 0..env.maxFaults
<1>1. env.maxFaults \in Nat
  BY ReconcileAssumption DEF TypeOK, SettingType
<1> QED BY <1>1 DEF TypeOK, Faulty

LEMMA TouchTyped ==
  ASSUME TypeOK, NEW x \in Paths, NEW n \in Notes \cup {Absent}, Touch(x, n), clock' \in Nat
  PROVE  TypeOK'
<1>1. env.maxEdits \in Nat
  BY ReconcileAssumption DEF TypeOK, SettingType
<1>2. edits' \in 0..env.maxEdits
  BY <1>1 DEF TypeOK, Touch
<1>3. disk' \in [Paths -> Notes \cup {Absent}] /\ held' \in [Paths -> SUBSET Notes]
  BY DEF TypeOK, Touch
<1>4. touched' \subseteq Paths /\ returned' \subseteq Paths /\ found' \subseteq Procs \X Paths
  BY DEF TypeOK, Touch, Returned
<1>5. calm' \in [Procs -> BOOLEAN]
  BY DEF Touch
<1> QED BY <1>2, <1>3, <1>4, <1>5 DEF TypeOK, Touch, readerVars

LEMMA EditTyped ==
  ASSUME TypeOK, Edit
  PROVE  TypeOK'
<1> PICK x \in Paths : Save(x) \/ Delete(x) \/ Restore(x) \/ SaveSameTick(x)
                          \/ \E y \in Paths : Move(x, y)
  BY DEF Edit
<1>1. CASE Save(x)
  <2>1. PICK i \in Ids, h \in Hashes : Touch(x, [id |-> i, hash |-> h, mtime |-> clock + 1])
    BY <1>1 DEF Save
  <2>2. clock' \in Nat /\ [id |-> i, hash |-> h, mtime |-> clock + 1] \in Notes
    BY <1>1 DEF TypeOK, Save, Notes
  <2> QED BY <2>1, <2>2, TouchTyped
<1>2. CASE Delete(x)
  BY <1>2, TouchTyped DEF TypeOK, Delete
<1>3. CASE Restore(x)
  <2>1. PICK n \in held[x] : Touch(x, n)
    BY <1>3 DEF Restore
  <2>2. n \in Notes /\ clock' \in Nat
    BY <1>3 DEF TypeOK, Restore
  <2> QED BY <2>1, <2>2, TouchTyped
<1>4. CASE SaveSameTick(x)
  <2>1. PICK h \in Hashes : Touch(x, [disk[x] EXCEPT !.hash = h])
    BY <1>4 DEF SaveSameTick
  <2>2. clock' \in Nat /\ disk[x] \in Notes
    BY <1>4 DEF TypeOK, SaveSameTick
  <2>3. [disk[x] EXCEPT !.hash = h] \in Notes
    BY <2>2 DEF Notes
  <2> QED BY <2>1, <2>2, <2>3, TouchTyped
<1>5. ASSUME NEW y \in Paths, Move(x, y)
      PROVE  TypeOK'
  <2>1. env.maxEdits \in Nat
    BY ReconcileAssumption DEF TypeOK, SettingType
  <2>2. edits' \in 0..env.maxEdits
    BY <2>1, <1>5 DEF TypeOK, Move
  <2>3. disk' \in [Paths -> Notes \cup {Absent}] /\ held' \in [Paths -> SUBSET Notes]
    BY <1>5 DEF TypeOK, Move
  <2>4. touched' \subseteq Paths /\ returned' \subseteq Paths /\ found' \subseteq Procs \X Paths
    BY <1>5 DEF TypeOK, Move, Returned
  <2>5. calm' \in [Procs -> BOOLEAN]
    BY <1>5 DEF Move
  <2> QED BY <1>5, <2>2, <2>3, <2>4, <2>5 DEF TypeOK, Move, readerVars
<1> QED BY <1>1, <1>2, <1>3, <1>4, <1>5


LEMMA InitTyped ==
  ASSUME Init
  PROVE  TypeOK
<1> USE TickIsInjective
<1>1. env \in SettingType /\ env.maxEdits \in Nat /\ env.maxFaults \in Nat
  BY ReconcileAssumption DEF Init, SettingType
<1>2. PICK f \in [Paths -> Ids \cup {Absent}] :
        /\ \E h \in Hashes \ {Undecodable} :
             disk = [x \in Paths |-> IF f[x] = Absent THEN Absent
                                     ELSE [id |-> f[x], hash |-> h, mtime |-> Tick[x]]]
        /\ index = [i \in Ids |->
             IF \E x \in Paths : f[x] = i
               THEN LET x == CHOOSE y \in Paths : f[y] = i
                    IN  [path |-> x, hash |-> disk[x].hash, mtime |-> Tick[x],
                         current |-> ~env.old]
               ELSE Absent]
  BY DEF Init
<1>3. disk \in [Paths -> Notes \cup {Absent}]
  BY <1>2 DEF Notes
<1>4. index \in Tables
  <2>1. ASSUME NEW i \in Ids, \E x \in Paths : f[x] = i
        PROVE  index[i] \in Rows
    <3>1. PICK x : x = CHOOSE y \in Paths : f[y] = i
      OBVIOUS
    <3>2. x \in Paths /\ f[x] = i
      BY <2>1, <3>1
    <3>3. disk[x] \in Notes
      BY <1>2, <3>2, ReconcileAssumption DEF Notes
    <3>4. PICK v \in BOOLEAN : v = ~env.old
      OBVIOUS
    <3>5. index[i] = [path |-> x, hash |-> disk[x].hash, mtime |-> Tick[x], current |-> v]
      BY <1>2, <2>1, <3>1, <3>4
    <3> QED BY <3>2, <3>3, <3>5 DEF Notes, Rows
  <2> QED BY <1>2, <2>1 DEF Tables
<1>5. held \in [Paths -> SUBSET Notes]
  BY <1>3 DEF Init
<1>6. pass \in [Procs -> PassTypes]
  BY IdleTyped DEF Init
<1>7. cache \in [Procs -> [gen : Nat, rows : [Ids -> Hashes \cup {Absent}]]]
  BY DEF Init, NoAnswer
<1>8. /\ touched \subseteq Paths /\ returned \subseteq Paths /\ missed \subseteq Paths
      /\ crossed \subseteq Ids /\ slipped \in BOOLEAN /\ found \subseteq Procs \X Paths
      /\ calm \in [Procs -> BOOLEAN] /\ stale \in [Procs -> SUBSET Paths]
  BY DEF Init
<1> QED BY <1>1, <1>3, <1>4, <1>5, <1>6, <1>7, <1>8, FreeLockTyped DEF Init, TypeOK

LEMMA ClaimsTyped ==
  ASSUME TypeOK, NEW p \in Procs, NEW x \in Paths,
         NEW outcome \in Identities \cup {Absent, Unreadable, Undecodable},
         NEW i \in Ids \cup {Absent}, Claims(p, x, outcome, i)
  PROVE  /\ pass' \in [Procs -> PassTypes]
         /\ lock' \in [owner : Procs \cup {NoProc}, rows : Tables, units : Nat]
         /\ missed' \subseteq Paths
<1>1. CASE i # Absent /\ pass[p].owners[i] # Absent
  BY <1>1, RaiseTyped DEF Claims, TypeOK
<1>2. CASE ~(i # Absent /\ pass[p].owners[i] # Absent)
  <2> DEFINE owners == IF i = Absent THEN pass[p].owners ELSE [pass[p].owners EXCEPT ![i] = x]
  <2>1. pass[p] \in PassTypes /\ pass[p].owners \in [Ids -> Paths \cup {Absent}]
    BY DEF TypeOK, PassTypes
  <2>2. owners \in [Ids -> Paths \cup {Absent}]
    BY <2>1
  <2>3. Set(p, [pass[p] EXCEPT !.prepared[x] = outcome, !.todo = @ \ {x}, !.owners = owners])
    BY <1>2 DEF Claims
  <2> HIDE DEF owners
  <2>4. pass' \in [Procs -> PassTypes]
    BY <2>1, <2>2, <2>3, ClaimedTyped, SetTyped
  <2> QED BY <1>2, <2>4 DEF Claims, TypeOK
<1> QED BY <1>1, <1>2

LEMMA EntryIsKnown ==
  ASSUME NEW s \in PassTypes, NEW x \in Paths, Gated(s, x)
  PROVE  (CHOOSE i \in Entry(s, x) : TRUE) \in Entry(s, x) /\ Entry(s, x) \subseteq Ids
BY DEF Gated, Entry

LEMMA PrepareTyped ==
  ASSUME TypeOK, NEW p \in Procs, Prepare(p)
  PROVE  TypeOK'
<1> PICK x \in pass[p].todo \cap Live(pass[p]) :
       \/ /\ Gated(pass[p], x)
          /\ Claims(p, x, Absent, CHOOSE i \in Entry(pass[p], x) : TRUE)
          /\ UNCHANGED <<calm, faults>>
       \/ /\ ~Gated(pass[p], x)
          /\ Claims(p, x, ReadNow(x),
                    IF ReadNow(x) \in {Unreadable, Undecodable} THEN Absent ELSE ReadNow(x).id)
          /\ UNCHANGED <<calm, faults>>
       \/ /\ ~Gated(pass[p], x) /\ Faulty("read")
          /\ Claims(p, x, Unreadable, Absent)
          /\ calm' = [calm EXCEPT ![p] = FALSE]
  BY DEF Prepare
<1>1. x \in Paths /\ pass[p] \in PassTypes
  BY DEF Live, TypeOK
<1>2. /\ pass' \in [Procs -> PassTypes]
      /\ lock' \in [owner : Procs \cup {NoProc}, rows : Tables, units : Nat]
      /\ missed' \subseteq Paths
  <2>1. CASE Gated(pass[p], x) /\ Claims(p, x, Absent, CHOOSE i \in Entry(pass[p], x) : TRUE)
    BY <1>1, <2>1, EntryIsKnown, ClaimsTyped
  <2>2. CASE Claims(p, x, ReadNow(x),
               IF ReadNow(x) \in {Unreadable, Undecodable} THEN Absent ELSE ReadNow(x).id)
    BY <1>1, <2>2, ReadNowTyped, ClaimsTyped
  <2>3. CASE Claims(p, x, Unreadable, Absent)
    BY <1>1, <2>3, ClaimsTyped
  <2> QED BY <2>1, <2>2, <2>3
<1>3. calm' \in [Procs -> BOOLEAN] /\ faults' \in 0..env.maxFaults
  BY FaultyTyped DEF TypeOK
<1> QED BY <1>2, <1>3 DEF Prepare, TypeOK, editVars, readerVars


LEMMA ScanTyped ==
  ASSUME TypeOK, NEW p \in Procs, Start(p) \/ Walk(p) \/ Snapshot(p) \/ Prepared(p)
  PROVE  TypeOK'
<1> USE DEF vaultVars, editVars, readerVars, Reads
<1>0. /\ pass[p] \in PassTypes /\ pass[p].todo \in SUBSET Paths /\ stale[p] \in SUBSET Paths
      /\ stamped \in BOOLEAN
  BY DEF TypeOK, PassTypes
<1>1. CASE Start(p)
  <2>1. PICK kind : /\ kind \in env.kinds \ {"note"}
                    /\ Set(p, [pass[p] EXCEPT !.kind = kind,
                                  !.pc = IF kind = "sweep" THEN "walk" ELSE "snapshot",
                                  !.todo = Paths,
                                  !.marks = IF kind = "sweep" THEN stale[p] ELSE {}])
    BY <1>1 DEF Start
  <2>2. kind \in PassKinds
    BY <2>1, ReconcileAssumption DEF TypeOK, SettingType
  <2>3. pass' \in [Procs -> PassTypes]
    BY <1>0, <2>1, <2>2, StartedTyped, SetTyped
  <2>4. PICK free \in BOOLEAN : free = (lock.owner = NoProc)
    OBVIOUS
  <2>5. calm' = [calm EXCEPT ![p] = free]
    BY <1>1, <2>4 DEF Start
  <2>6. calm' \in [Procs -> BOOLEAN]
    BY <2>5 DEF TypeOK
  <2> QED BY <1>1, <2>3, <2>6 DEF Start, TypeOK
<1>2. CASE Walk(p)
  <2>1. PICK x \in pass[p].todo :
          LET rest == pass[p].todo \ {x}
          IN  Set(p, [pass[p] EXCEPT
                        !.live[x] = IF disk[x] = Absent THEN 0 ELSE disk[x].mtime,
                        !.todo = IF rest = {} THEN Paths ELSE rest, !.upgrade = ~stamped,
                        !.pc = IF rest # {} THEN "walk"
                               ELSE IF pass[p].kind = "sweep" THEN "snapshot" ELSE "prepare"])
    BY <1>2 DEF Walk
  <2>2. PICK m, todo, u, c :
          /\ m = (IF disk[x] = Absent THEN 0 ELSE disk[x].mtime)
          /\ todo = (IF pass[p].todo \ {x} = {} THEN Paths ELSE pass[p].todo \ {x})
          /\ u \in BOOLEAN /\ u = ~stamped
          /\ c = (IF pass[p].todo \ {x} # {} THEN "walk"
                  ELSE IF pass[p].kind = "sweep" THEN "snapshot" ELSE "prepare")
    OBVIOUS
  <2>3. x \in Paths /\ m \in Nat /\ todo \in SUBSET Paths /\ c \in {"walk", "snapshot", "prepare"}
    BY <1>0, <2>2 DEF TypeOK, Notes
  <2>4. Set(p, [pass[p] EXCEPT !.live[x] = m, !.todo = todo, !.upgrade = u, !.pc = c])
    BY <2>1, <2>2
  <2>5. pass' \in [Procs -> PassTypes]
    BY <1>0, <2>2, <2>3, <2>4, WalkedTyped, SetTyped
  <2> QED BY <1>2, <2>5 DEF Walk, TypeOK
<1>3. CASE Snapshot(p)
  <2>1. PICK u \in BOOLEAN : u = ~stamped
    OBVIOUS
  <2>2. Set(p, [pass[p] EXCEPT !.snap = View(p), !.upgrade = u,
                               !.pc = IF pass[p].kind = "sweep" THEN "prepare" ELSE "walk"])
    BY <1>3, <2>1 DEF Snapshot
  <2>3. pass' \in [Procs -> PassTypes]
    BY <1>0, <2>1, <2>2, ViewTyped, SnappedTyped, SetTyped
  <2> QED BY <1>3, <2>3 DEF Snapshot, TypeOK
<1>4. CASE Prepared(p)
  <2>1. Vanished(pass[p]) \in SUBSET Ids
    BY DEF Vanished
  <2>2. pass' \in [Procs -> PassTypes]
    BY <1>0, <1>4, <2>1, GoneTyped, SetTyped DEF Prepared
  <2> QED BY <1>4, <2>2 DEF Prepared, TypeOK
<1> QED BY <1>1, <1>2, <1>3, <1>4

LEMMA PurgeTyped ==
  ASSUME TypeOK, NEW p \in Procs, Purge(p) \/ Purged(p) \/ Applied(p)
  PROVE  TypeOK'
<1> USE DEF vaultVars, editVars, readerVars, Reads
<1>0. pass[p] \in PassTypes /\ pass[p].gone \in SUBSET Ids
  BY DEF TypeOK, PassTypes
<1>1. CASE Purge(p)
  <2>1. PICK i \in pass[p].gone : /\ Write(p, Without(View(p), i))
                                  /\ Set(p, [pass[p] EXCEPT !.gone = @ \ {i}])
    BY <1>1 DEF Purge
  <2>2. pass' \in [Procs -> PassTypes]
    BY <1>0, <2>1, PurgingTyped, SetTyped
  <2>3. /\ index' \in Tables
        /\ lock' \in [owner : Procs \cup {NoProc}, rows : Tables, units : Nat]
        /\ calm' \in [Procs -> BOOLEAN]
    BY <1>0, <2>1, ViewTyped, WithoutTyped, WriteTyped
  <2> QED BY <1>1, <2>2, <2>3 DEF Purge, TypeOK
<1>2. CASE Purged(p)
  <2>1. PICK d, todo : /\ d \in BOOLEAN /\ d = (Vanished(pass[p]) # {})
                       /\ todo = {x \in Kept(pass[p]) : ~Gated(pass[p], x)
                                               /\ pass[p].prepared[x] # Unreadable}
    OBVIOUS
  <2>2. todo \in SUBSET Paths
    BY <2>1 DEF Kept, Live
  <2>3. Set(p, [pass[p] EXCEPT !.pc = "apply", !.deleted = d, !.todo = todo])
    BY <1>2, <2>1 DEF Purged
  <2>4. pass' \in [Procs -> PassTypes]
    BY <1>0, <2>1, <2>2, <2>3, PurgedTyped, SetTyped
  <2> QED BY <1>2, <2>4 DEF Purged, TypeOK
<1>3. CASE Applied(p)
  <2>1. pass' \in [Procs -> PassTypes]
    BY <1>0, <1>3, AdvancedTyped, SetTyped DEF Applied
  <2> QED BY <1>3, <2>1, CommitTyped DEF Applied, TypeOK
<1> QED BY <1>1, <1>2, <1>3

LEMMA SkipTyped ==
  ASSUME TypeOK, NEW p \in Procs, NEW x \in Paths, Skip(p, x)
  PROVE  /\ pass' \in [Procs -> PassTypes] /\ index' \in Tables
         /\ lock' \in [owner : Procs \cup {NoProc}, rows : Tables, units : Nat]
         /\ calm' \in [Procs -> BOOLEAN] /\ missed' \subseteq Paths
         /\ faults' \in 0..env.maxFaults /\ crossed' \subseteq Ids
<1>0. pass[p] \in PassTypes /\ pass[p].live[x] \in Nat
  BY DEF TypeOK, PassTypes
<1>1. PICK i \in Ids : pass[p].prepared[x] = [id |-> i, hash |-> pass[p].snap[i].hash]
  BY DEF Skip, Unchanged, Entry
<1>2. pass[p].prepared[x].id = i
  BY <1>1
<1>3. pass' \in [Procs -> PassTypes]
  BY <1>0, <1>1, SettledTyped, SetTyped DEF Skip, Settled
<1>4. CASE pass[p].snap[i].mtime = pass[p].live[x]
  BY <1>2, <1>3, <1>4 DEF Skip, TypeOK
<1>5. CASE pass[p].snap[i].mtime # pass[p].live[x]
  <2>1. Write(p, WithMtime(View(p), i, pass[p].live[x])) /\ crossed' \subseteq Ids
    BY <1>2, <1>5 DEF Skip, RecordMtime, TypeOK
  <2> QED BY <1>0, <1>3, <2>1, ViewTyped, WithMtimeTyped, WriteTyped DEF Skip, TypeOK
<1> QED BY <1>4, <1>5

LEMMA SecondReadTyped ==
  ASSUME TypeOK, NEW p \in Procs, NEW x \in Paths, SecondRead(p, x)
  PROVE  /\ pass' \in [Procs -> PassTypes] /\ index' \in Tables
         /\ lock' \in [owner : Procs \cup {NoProc}, rows : Tables, units : Nat]
         /\ calm' \in [Procs -> BOOLEAN] /\ missed' \subseteq Paths
         /\ faults' \in 0..env.maxFaults /\ crossed' \subseteq Ids
<1>0. pass[p] \in PassTypes
  BY DEF TypeOK
<1>1. PICK n : n = ReadNow(x)
  OBVIOUS
<1>2. CASE Settled(p, x) /\ missed' = missed \cup {x} /\ UNCHANGED lock
  <2>1. pass' \in [Procs -> PassTypes]
    BY <1>0, <1>2, SettledTyped, SetTyped DEF Settled
  <2>2. calm' \in [Procs -> BOOLEAN] /\ faults' \in 0..env.maxFaults
    BY FaultyTyped DEF SecondRead, TypeOK
  <2> QED BY <1>2, <2>1, <2>2 DEF SecondRead, TypeOK
<1>3. CASE /\ n \notin {Unreadable, Undecodable}
           /\ IF n.id # pass[p].prepared[x].id /\ pass[p].owners[n.id] \notin {Absent, x}
                THEN Raise(p)
                ELSE /\ Set(p, [pass[p] EXCEPT !.todo = @ \ {x}, !.owners[n.id] = x,
                                  !.hand = [path |-> x, id |-> n.id, hash |-> n.hash]])
                     /\ UNCHANGED lock
           /\ UNCHANGED <<missed, faults, calm>>
  <2>1. n.id \in Ids /\ n.hash \in Hashes
    BY <1>1, <1>3, ReadNowTyped
  <2>2. /\ pass' \in [Procs -> PassTypes]
        /\ lock' \in [owner : Procs \cup {NoProc}, rows : Tables, units : Nat]
    <3>1. CASE Raise(p)
      BY <3>1, RaiseTyped
    <3>2. CASE ~Raise(p)
      <4>1. Set(p, [pass[p] EXCEPT !.todo = @ \ {x}, !.owners[n.id] = x,
                                  !.hand = [path |-> x, id |-> n.id, hash |-> n.hash]])
        BY <1>3, <3>2
      <4> QED BY <1>0, <1>3, <2>1, <3>2, <4>1, HandedTyped, SetTyped DEF TypeOK
    <3> QED BY <3>1, <3>2
  <2> QED BY <1>3, <2>2 DEF SecondRead, TypeOK
<1> QED BY <1>1, <1>2, <1>3 DEF SecondRead


LEMMA ApplyTyped ==
  ASSUME TypeOK, NEW p \in Procs, Apply(p)
  PROVE  TypeOK'
<1>1. PICK x \in pass[p].todo : Skip(p, x) \/ SecondRead(p, x)
  BY DEF Apply
<1>2. x \in Paths
  BY DEF TypeOK, PassTypes
<1> QED BY <1>1, <1>2, SkipTyped, SecondReadTyped DEF Apply, TypeOK, editVars, readerVars

LEMMA StoreTyped ==
  ASSUME TypeOK, NEW p \in Procs, Store(p)
  PROVE  TypeOK'
<1> USE DEF vaultVars, editVars, readerVars
<1>0. /\ pass[p] \in PassTypes /\ pass[p].hand \in Handed
      /\ pass[p].hand.path \in Paths /\ pass[p].hand.id \in Ids /\ pass[p].hand.hash \in Hashes
  BY DEF Store, TypeOK, PassTypes, Handed
<1>1. MtimeFor(p, pass[p].hand.path) \in Nat
  BY <1>0 DEF MtimeFor, PassTypes
<1>2. PICK m, row : /\ m = MtimeFor(p, pass[p].hand.path)
                    /\ row = [path |-> pass[p].hand.path, hash |-> pass[p].hand.hash,
                              mtime |-> m, current |-> TRUE]
  OBVIOUS
<1>3. row \in Rows
  BY <1>0, <1>1, <1>2 DEF Rows
<1>7. /\ crossed' \subseteq Ids /\ found' \subseteq Procs \X Paths
      /\ UNCHANGED <<disk, clock, held, touched, returned, env, edits, missed, slipped,
                     stamped, gen, stale, readerVars, faults>>
  <2>1. crossed' = crossed \/ crossed' = crossed \cup {pass[p].hand.id}
    BY DEF Store, RecordMtime
  <2>2. found' \subseteq found
    BY DEF Store, OwnFound
  <2> QED BY <1>0, <2>1, <2>2 DEF Store, TypeOK
<1>4. CASE /\ \/ UNCHANGED <<index, lock, calm>>
              \/ Write(p, WithMtime(View(p), pass[p].hand.id, m))
           /\ Set(p, [pass[p] EXCEPT !.hand = Absent])
  <2>1. pass' \in [Procs -> PassTypes]
    BY <1>0, <1>4, StoredTyped, SetTyped
  <2> QED BY <1>0, <1>1, <1>2, <1>4, <1>7, <2>1, ViewTyped, WithMtimeTyped, WriteTyped DEF TypeOK
<1>5. CASE Raise(p) /\ UNCHANGED <<index, calm>>
  BY <1>5, <1>7, RaiseTyped DEF TypeOK
<1>6. CASE /\ Write(p, Upsert(View(p), pass[p].hand.id, row))
           /\ Set(p, [pass[p] EXCEPT !.hand = Absent, !.reindexed = TRUE,
                                     !.pc = IF Bulk(p) THEN "apply" ELSE "get"])
  <2>1. pass' \in [Procs -> PassTypes]
    BY <1>0, <1>6, StoredTyped, SetTyped
  <2> QED BY <1>0, <1>3, <1>6, <1>7, <2>1, ViewTyped, UpsertTyped, WriteTyped DEF TypeOK
<1> QED BY <1>2, <1>4, <1>5, <1>6 DEF Store, RecordMtime

LEMMA FinishTyped ==
  ASSUME TypeOK, NEW p \in Procs, Finish(p)
  PROVE  pass' \in [Procs -> PassTypes] /\ stale' \in [Procs -> SUBSET Paths]
BY EndTyped DEF TypeOK, Finish

LEMMA EndingTyped ==
  ASSUME TypeOK, NEW p \in Procs,
         Stamp(p) \/ GetGeneration(p) \/ SetGeneration(p) \/ Drop(p)
           \/ \E x \in Paths : Target(p, x)
  PROVE  TypeOK'
<1> USE DEF vaultVars, editVars, readerVars, Reads
<1>0. pass[p] \in PassTypes /\ pass[p].next \in Nat
  BY DEF TypeOK, PassTypes
<1>1. CASE Stamp(p)
  <2>1. CASE Set(p, [pass[p] EXCEPT !.pc = "get"]) /\ UNCHANGED stale
    <3>1. pass' \in [Procs -> PassTypes]
      BY <1>0, <2>1, AdvancedTyped, SetTyped
    <3> QED BY <1>1, <2>1, <3>1 DEF Stamp, TypeOK
  <2>2. CASE Finish(p)
    BY <1>1, <2>2, FinishTyped DEF Stamp, TypeOK
  <2> QED BY <1>1, <2>1, <2>2 DEF Stamp
<1>2. CASE GetGeneration(p)
  <2>1. gen + 1 \in Nat
    BY DEF TypeOK
  <2>2. pass' \in [Procs -> PassTypes]
    BY <1>0, <1>2, <2>1, AdvancedTyped, SetTyped DEF GetGeneration
  <2> QED BY <1>2, <2>2 DEF GetGeneration, TypeOK
<1>3. CASE SetGeneration(p)
  BY <1>0, <1>3, FinishTyped DEF SetGeneration, TypeOK
<1>4. CASE Drop(p)
  <2>1. pass' \in [Procs -> PassTypes]
    BY <1>0, <1>4, AdvancedTyped, SetTyped DEF Drop
  <2>2. CASE UNCHANGED <<index, lock, calm>>
    BY <1>4, <2>1, <2>2 DEF Drop, TypeOK
  <2>3. CASE \E i \in Ids : Write(p, Without(View(p), i))
    BY <1>4, <2>1, <2>3, ViewTyped, WithoutTyped, WriteTyped DEF Drop, TypeOK
  <2> QED BY <1>4, <2>2, <2>3 DEF Drop
<1>5. ASSUME NEW x \in Paths, Target(p, x)
      PROVE  TypeOK'
  <2>1. disk[x].id \in Ids /\ disk[x].hash \in Hashes
    BY <1>5, ReadNowTyped DEF Target, Notes
  <2>2. pass' \in [Procs -> PassTypes]
    BY <1>0, <1>5, <2>1, TargetedTyped, SetTyped DEF Target
  <2> QED BY <1>5, <2>2 DEF Target, TypeOK
<1> QED BY <1>1, <1>2, <1>3, <1>4, <1>5

LEMMA FaultTyped ==
  ASSUME TypeOK, NEW p \in Procs, StoreFails(p) \/ Cancel(p) \/ Crash(p)
  PROVE  TypeOK'
<1> USE DEF vaultVars, editVars, readerVars
<1>1. CASE StoreFails(p)
  <2>1. pass' \in [Procs -> PassTypes]
        /\ lock' \in [owner : Procs \cup {NoProc}, rows : Tables, units : Nat]
    BY <1>1, EndTyped, RollbackTyped, RaiseTyped DEF StoreFails
  <2> QED BY <1>1, <2>1, FaultyTyped DEF StoreFails, TypeOK
<1>2. CASE Cancel(p)
  BY <1>2, EndTyped, RollbackTyped, FaultyTyped DEF Cancel, TypeOK
<1>3. CASE Crash(p)
  <2>1. NoAnswer \in [gen : Nat, rows : [Ids -> Hashes \cup {Absent}]]
    BY DEF NoAnswer
  <2> QED BY <1>3, <2>1, EndTyped, RollbackTyped, FaultyTyped DEF Crash, TypeOK
<1> QED BY <1>1, <1>2, <1>3

LEMMA RowsetTyped ==
  ASSUME NEW rows \in Tables
  PROVE  Rowset(rows) \in [Ids -> Hashes \cup {Absent}]
BY DEF Rowset, Tables, Rows

LEMMA SearchTyped ==
  ASSUME TypeOK, NEW p \in Procs,
         AskGeneration(p) \/ AskRows(p) \/ \E i \in Ids : Hit(p, i)
  PROVE  TypeOK'
<1> USE DEF vaultVars, editVars, readerVars
<1>1. CASE AskGeneration(p)
  BY <1>1 DEF AskGeneration, TypeOK
<1>2. CASE AskRows(p)
  BY <1>2, ViewTyped, RowsetTyped DEF AskRows, TypeOK
<1>3. ASSUME NEW i \in Ids, Hit(p, i)
      PROVE  TypeOK'
  <2>1. View(p)[i].path \in Paths
    BY <1>3, ViewTyped DEF Hit, Tables, Rows
  <2> QED BY <1>3, <2>1 DEF Hit, TypeOK
<1> QED BY <1>1, <1>2, <1>3

(* Every variable keeps its type, whatever the processes and editors do. *)
THEOREM PassTypesHold == Spec => []TypeOK
<1>1. ASSUME TypeOK, [Next]_vars
      PROVE  TypeOK'
  <2>1. env.procs \subseteq Procs
    BY <1>1, ReconcileAssumption DEF TypeOK, SettingType
  <2>2. CASE Edit
    BY <1>1, <2>2, EditTyped
  <2>3. ASSUME NEW p \in env.procs,
               Step(p) \/ (\E x \in Paths : Target(p, x)) \/ StoreFails(p) \/ Cancel(p)
                 \/ Crash(p) \/ (\E i \in Ids : Hit(p, i)) \/ AskGeneration(p) \/ AskRows(p)
        PROVE  TypeOK'
    BY <1>1, <2>1, <2>3, ScanTyped, PrepareTyped, PurgeTyped, ApplyTyped, StoreTyped,
       EndingTyped, FaultTyped, SearchTyped DEF Step
  <2>4. CASE UNCHANGED vars
    BY <1>1, <2>4 DEF TypeOK, vars
  <2> QED BY <1>1, <2>2, <2>3, <2>4 DEF Next
<1> QED BY <1>1, InitTyped, PTL DEF Spec

--------------------------------------------------------------------------------
(***************************************************************************)
(* A note nobody touched (SteadyNotesStay).  The rows it has, committed or *)
(* not, are its own, and no pass holds anything that could drop or         *)
(* overwrite them: what was read of it is what it is, it is not among the  *)
(* vanished, and once walked it is alive.                                  *)
(***************************************************************************)

Own(rows, x, n) == rows[n.id] # Absent /\ rows[n.id].path = x /\ rows[n.id].hash = n.hash

OwnKept(x, n) == Own(index, x, n) /\ (lock.owner # NoProc => Own(lock.rows, x, n))

Walked(s, x) ==
  \/ s.pc = "walk" /\ x \notin s.todo
  \/ s.pc = "snapshot" /\ s.kind = "sweep"
  \/ s.pc = "prepare"

SteadyPass(s, x, n) ==
  /\ s.prepared[x] \in {Absent, Unreadable, [id |-> n.id, hash |-> n.hash]}
  /\ s.snap[n.id] # Absent => s.snap[n.id].path = x
  /\ n.id \notin s.gone
  /\ (s.hand # Absent /\ s.hand.path = x) => (s.hand.id = n.id /\ s.hand.hash = n.hash)
  /\ Walked(s, x) => s.live[x] # 0
  /\ s.pc = "snapshot" => x \in s.todo
  /\ s.pc \in {"drop", "store"} => s.hand # Absent

SteadyAt(x, n) ==
  /\ n \in Notes /\ n.hash # Undecodable /\ n.mtime # 0
  /\ OwnKept(x, n)
  /\ \A p \in Procs : SteadyPass(pass[p], x, n)

Untouched(x) == disk[x] # Absent /\ x \notin touched

Steady == \A x \in Paths : Untouched(x) => SteadyAt(x, disk[x])

LEMMA OwnWithout ==
  ASSUME NEW rows \in Tables, NEW x \in Paths, NEW n \in Notes, Own(rows, x, n),
         NEW i \in Ids, i # n.id
  PROVE  Own(Without(rows, i), x, n)
BY DEF Own, Without, Tables, Notes

LEMMA OwnUpsert ==
  ASSUME NEW rows \in Tables, NEW x \in Paths, NEW n \in Notes, Own(rows, x, n),
         NEW i \in Ids, NEW row \in Rows, ~OwnedElsewhere(rows, i, row.path),
         row.path = x => (i = n.id /\ row.hash = n.hash)
  PROVE  Own(Upsert(rows, i, row), x, n)
<1>1. n.id \in Ids /\ row # Absent
  BY ReconcileAssumption DEF Notes
<1>2. CASE i = n.id
  BY <1>1, <1>2 DEF Own, Upsert, OwnedElsewhere
<1>3. CASE i # n.id
  BY <1>1, <1>3 DEF Own, Upsert
<1> QED BY <1>2, <1>3

LEMMA OwnWithMtime ==
  ASSUME NEW rows \in Tables, NEW x \in Paths, NEW n \in Notes, Own(rows, x, n),
         NEW i \in Ids, NEW m \in Nat
  PROVE  Own(WithMtime(rows, i, m), x, n)
<1>1. CASE i # n.id \/ rows[i] = Absent
  BY <1>1 DEF Own, WithMtime, Tables, Notes
<1>2. CASE i = n.id /\ rows[i] # Absent
  <2>1. rows[i] \in Rows /\ WithMtime(rows, i, m)[i] = [rows[i] EXCEPT !.mtime = m]
    BY <1>2 DEF WithMtime, Tables
  <2>2. /\ [rows[i] EXCEPT !.mtime = m] \in Rows
        /\ [rows[i] EXCEPT !.mtime = m].path = rows[i].path
        /\ [rows[i] EXCEPT !.mtime = m].hash = rows[i].hash
    BY <2>1 DEF Rows
  <2> QED BY <1>2, <2>1, <2>2, ReconcileAssumption DEF Own
<1> QED BY <1>1, <1>2

LEMMA ViewOwn ==
  ASSUME NEW x, NEW n, OwnKept(x, n), NEW p \in Procs
  PROVE  Own(View(p), x, n)
BY ReconcileAssumption DEF OwnKept, View

LEMMA WriteOwn ==
  ASSUME NEW x, NEW n, OwnKept(x, n), NEW p \in Procs, NEW rows, Own(rows, x, n), Write(p, rows)
  PROVE  OwnKept(x, n)'
BY DEF OwnKept, Write, FreeLock, Own

LEMMA CommitOwn ==
  ASSUME NEW x, NEW n, OwnKept(x, n), NEW p \in Procs, Commit(p) \/ (Rollback(p) /\ UNCHANGED index)
  PROVE  OwnKept(x, n)'
BY ReconcileAssumption DEF OwnKept, Commit, Rollback, FreeLock, Own

LEMMA IdleSteady ==
  ASSUME NEW x \in Paths, NEW n \in Notes
  PROVE  SteadyPass(Idle, x, n)
BY DEF SteadyPass, Idle, Walked, Notes

LEMMA SetSteady ==
  ASSUME TypeOK, NEW x, NEW n, NEW p \in Procs, \A q \in Procs : SteadyPass(pass[q], x, n),
         NEW s, SteadyPass(s, x, n), pass' = [pass EXCEPT ![p] = s]
  PROVE  \A q \in Procs : SteadyPass(pass'[q], x, n)
BY DEF TypeOK

LEMMA RaiseSteady ==
  ASSUME TypeOK, NEW x \in Paths, NEW n \in Notes, NEW p \in Procs, Raise(p),
         \A q \in Procs : SteadyPass(pass[q], x, n)
  PROVE  \A q \in Procs : SteadyPass(pass'[q], x, n)
<1>1. pass[p] \in PassTypes
  BY DEF TypeOK
<1>2. SteadyPass([pass[p] EXCEPT !.pc = "get", !.failed = TRUE, !.hand = Absent], x, n)
  BY <1>1 DEF SteadyPass, Walked, PassTypes
<1> QED BY <1>2, IdleSteady, SetSteady DEF Raise, Set


LEMMA EditSteady ==
  ASSUME TypeOK, Steady, Edit
  PROVE  Steady'
<1>1. PICK y \in Paths, z \in Paths :
        /\ \A x \in Paths \ {y, z} : disk'[x] = disk[x]
        /\ touched' = touched \cup {y, z}
        /\ UNCHANGED <<index, lock, pass>>
  <2>1. ASSUME NEW x \in Paths, NEW n, Touch(x, n)
        PROVE  /\ \A y \in Paths \ {x} : disk'[y] = disk[y]
               /\ touched' = touched \cup {x, x} /\ UNCHANGED <<index, lock, pass>>
    BY <2>1 DEF Touch, TypeOK
  <2>2. ASSUME NEW x \in Paths, NEW y \in Paths, Move(x, y)
        PROVE  /\ \A z \in Paths \ {x, y} : disk'[z] = disk[z]
               /\ touched' = touched \cup {x, y} /\ UNCHANGED <<index, lock, pass>>
    BY <2>2 DEF Move, TypeOK
  <2>3. PICK x \in Paths : (\E n : Touch(x, n)) \/ \E y \in Paths : Move(x, y)
    BY DEF Edit, Save, Delete, Restore, SaveSameTick
  <2> QED BY <2>1, <2>2, <2>3
<1>2. ASSUME NEW x \in Paths, Untouched(x)'
      PROVE  SteadyAt(x, disk[x])'
  <2>1. disk'[x] = disk[x] /\ Untouched(x)
    BY <1>1, <1>2 DEF Untouched
  <2>2. SteadyAt(x, disk[x])
    BY <2>1 DEF Steady
  <2> QED BY <1>1, <2>1, <2>2 DEF SteadyAt, OwnKept
<1> QED BY <1>2 DEF Steady

LEMMA ScanSteady ==
  ASSUME TypeOK, NEW p \in Procs, Start(p) \/ Walk(p) \/ Snapshot(p) \/ Prepared(p),
         NEW x \in Paths, Untouched(x), SteadyAt(x, disk[x])
  PROVE  SteadyAt(x, disk[x])'
<1> USE DEF vaultVars, editVars, readerVars, Reads
<1> DEFINE n == disk[x]
<1>0. /\ pass[p] \in PassTypes /\ n \in Notes /\ n.id \in Ids /\ n.mtime # 0
      /\ n.hash # Undecodable /\ disk[x] # Absent
      /\ SteadyPass(pass[p], x, n) /\ \A q \in Procs : SteadyPass(pass[q], x, n)
      /\ UNCHANGED <<disk, index, lock>>
  BY DEF TypeOK, SteadyAt, Notes, Start, Walk, Snapshot, Prepared, Untouched
<1>1. CASE Start(p)
  <2>1. PICK kind : Set(p, [pass[p] EXCEPT !.kind = kind,
                              !.pc = IF kind = "sweep" THEN "walk" ELSE "snapshot",
                              !.todo = Paths,
                              !.marks = IF kind = "sweep" THEN stale[p] ELSE {}])
    BY <1>1 DEF Start
  <2>2. PICK s : s = [pass[p] EXCEPT !.kind = kind,
                        !.pc = IF kind = "sweep" THEN "walk" ELSE "snapshot",
                        !.todo = Paths,
                        !.marks = IF kind = "sweep" THEN stale[p] ELSE {}]
    OBVIOUS
  <2>3. SteadyPass(s, x, n)
    BY <1>0, <2>2 DEF SteadyPass, Walked, PassTypes
  <2> QED BY <1>0, <2>1, <2>2, <2>3, SetSteady DEF Set, SteadyAt, OwnKept
<1>2. CASE Walk(p)
  <2>1. PICK y \in pass[p].todo :
          LET rest == pass[p].todo \ {y}
          IN  Set(p, [pass[p] EXCEPT
                        !.live[y] = IF disk[y] = Absent THEN 0 ELSE disk[y].mtime,
                        !.todo = IF rest = {} THEN Paths ELSE rest, !.upgrade = ~stamped,
                        !.pc = IF rest # {} THEN "walk"
                               ELSE IF pass[p].kind = "sweep" THEN "snapshot" ELSE "prepare"])
    BY <1>2 DEF Walk
  <2>a. PICK m, todo, u, c :
          /\ m = (IF disk[y] = Absent THEN 0 ELSE disk[y].mtime)
          /\ todo = (IF pass[p].todo \ {y} = {} THEN Paths ELSE pass[p].todo \ {y})
          /\ u = ~stamped
          /\ c = (IF pass[p].todo \ {y} # {} THEN "walk"
                  ELSE IF pass[p].kind = "sweep" THEN "snapshot" ELSE "prepare")
    OBVIOUS
  <2>2. PICK s : s = [pass[p] EXCEPT !.live[y] = m, !.todo = todo, !.upgrade = u, !.pc = c]
    OBVIOUS
  <2>3. pass' = [pass EXCEPT ![p] = s]
    BY <2>1, <2>a, <2>2 DEF Set
  <2>4. s.live[x] = IF x = y THEN n.mtime ELSE pass[p].live[x]
    BY <1>0, <2>a, <2>2 DEF PassTypes
  <2>5. /\ s.todo = todo /\ s.pc = c /\ s.kind = pass[p].kind /\ s.prepared = pass[p].prepared
        /\ s.snap = pass[p].snap /\ s.gone = pass[p].gone /\ s.hand = pass[p].hand
    BY <1>0, <2>2 DEF PassTypes
  <2>6. Walked(s, x) => s.live[x] # 0
    <3>1. pass[p].pc = "walk"
      BY <1>2 DEF Walk
    <3>2. Walked(s, x) => (x = y \/ x \notin pass[p].todo)
      BY <2>a, <2>5 DEF Walked
    <3>3. x \notin pass[p].todo => pass[p].live[x] # 0
      BY <1>0, <3>1 DEF SteadyPass, Walked
    <3> QED BY <1>0, <2>4, <3>2, <3>3
  <2>7. s.pc = "snapshot" => x \in s.todo
    BY <2>a, <2>5
  <2>8. s.pc \notin {"drop", "store"}
    BY <2>a, <2>5
  <2>9. SteadyPass(s, x, n)
    BY <1>0, <2>5, <2>6, <2>7, <2>8 DEF SteadyPass
  <2> QED BY <1>0, <2>3, <2>9, SetSteady DEF SteadyAt, OwnKept
<1>3. CASE Snapshot(p)
  <2>1. PICK s, u : /\ u = ~stamped
                    /\ s = [pass[p] EXCEPT !.snap = View(p), !.upgrade = u,
                              !.pc = IF pass[p].kind = "sweep" THEN "prepare" ELSE "walk"]
    OBVIOUS
  <2>2. pass' = [pass EXCEPT ![p] = s] /\ pass[p].pc = "snapshot"
    BY <1>3, <2>1 DEF Snapshot, Set
  <2>3. View(p)[n.id].path = x
    BY ViewOwn DEF SteadyAt, Own
  <2>4. SteadyPass(s, x, n)
    BY <1>0, <2>1, <2>2, <2>3 DEF SteadyPass, Walked, PassTypes
  <2> QED BY <1>0, <2>2, <2>4, SetSteady DEF SteadyAt, OwnKept
<1>4. CASE Prepared(p)
  <2>1. PICK s : s = [pass[p] EXCEPT !.pc = "purge", !.gone = Vanished(pass[p])]
    OBVIOUS
  <2>2. pass' = [pass EXCEPT ![p] = s] /\ pass[p].pc = "prepare"
    BY <1>4, <2>1 DEF Prepared, Set
  <2>3. pass[p].prepared[x] # Undecodable /\ pass[p].live[x] # 0
    <3>1. [id |-> n.id, hash |-> n.hash] \in Identities
      BY <1>0 DEF Notes, Identities
    <3> QED BY <1>0, <2>2, <3>1, ReconcileAssumption DEF SteadyPass, Walked
  <2>4. n.id \notin Vanished(pass[p])
    BY <1>0, <2>3 DEF SteadyPass, Vanished, Kept, Live
  <2>5. SteadyPass(s, x, n)
    BY <1>0, <2>1, <2>4 DEF SteadyPass, Walked, PassTypes
  <2> QED BY <1>0, <2>2, <2>5, SetSteady DEF SteadyAt, OwnKept
<1> QED BY <1>1, <1>2, <1>3, <1>4


LEMMA SteadyFacts ==
  ASSUME TypeOK, NEW x \in Paths, Untouched(x), SteadyAt(x, disk[x]), NEW p \in Procs
  PROVE  /\ pass[p] \in PassTypes /\ disk[x] \in Notes /\ disk[x] # Absent
         /\ disk[x].id \in Ids /\ disk[x].mtime # 0 /\ disk[x].hash # Undecodable
         /\ SteadyPass(pass[p], x, disk[x]) /\ \A q \in Procs : SteadyPass(pass[q], x, disk[x])
         /\ OwnKept(x, disk[x]) /\ Own(View(p), x, disk[x])
         /\ ReadNow(x) = [id |-> disk[x].id, hash |-> disk[x].hash]
BY ViewOwn DEF TypeOK, SteadyAt, Notes, Untouched, ReadNow

LEMMA SteadyStep ==
  ASSUME TypeOK, NEW x \in Paths, Untouched(x), SteadyAt(x, disk[x]), NEW p \in Procs,
         disk' = disk, OwnKept(x, disk[x])', NEW s, SteadyPass(s, x, disk[x]),
         pass' = [pass EXCEPT ![p] = s]
  PROVE  SteadyAt(x, disk[x])'
BY SteadyFacts, SetSteady DEF SteadyAt

LEMMA PrepareSteady ==
  ASSUME TypeOK, NEW p \in Procs, Prepare(p),
         NEW x \in Paths, Untouched(x), SteadyAt(x, disk[x])
  PROVE  SteadyAt(x, disk[x])'
<1> USE DEF editVars
<1>1. PICK y, outcome, i :
        /\ y \in Paths /\ Claims(p, y, outcome, i)
        /\ outcome \in {Absent, Unreadable, ReadNow(y)}
  BY DEF Prepare, Live
<1>2. disk' = disk /\ UNCHANGED index
  BY DEF Prepare
<1>3. CASE i # Absent /\ pass[p].owners[i] # Absent
  <2>1. Raise(p)
    BY <1>1, <1>3 DEF Claims
  <2>2. OwnKept(x, disk[x])'
    <3>1. Rollback(p)
      BY <2>1 DEF Raise
    <3> QED BY <1>2, <3>1, SteadyFacts, CommitOwn
  <2> QED BY <1>2, <2>1, <2>2, SteadyFacts, RaiseSteady DEF SteadyAt
<1>4. CASE ~(i # Absent /\ pass[p].owners[i] # Absent)
  <2>1. PICK owners : owners = IF i = Absent THEN pass[p].owners
                                            ELSE [pass[p].owners EXCEPT ![i] = y]
    OBVIOUS
  <2>2. PICK s : s = [pass[p] EXCEPT !.prepared[y] = outcome, !.todo = @ \ {y},
                                     !.owners = owners]
    OBVIOUS
  <2>3. pass' = [pass EXCEPT ![p] = s] /\ UNCHANGED lock
    BY <1>1, <1>4, <2>1, <2>2 DEF Claims, Set
  <2>4. /\ s.pc = pass[p].pc /\ s.kind = pass[p].kind /\ s.live = pass[p].live
        /\ s.snap = pass[p].snap /\ s.gone = pass[p].gone /\ s.hand = pass[p].hand
        /\ s.prepared[x] = IF x = y THEN outcome ELSE pass[p].prepared[x]
    BY <1>1, <2>2, SteadyFacts DEF PassTypes
  <2>5. pass[p].pc = "prepare"
    BY DEF Prepare
  <2>6. SteadyPass(s, x, disk[x])
    BY <1>1, <2>4, <2>5, SteadyFacts DEF SteadyPass, Walked
  <2>7. OwnKept(x, disk[x])'
    BY <1>2, <2>3, SteadyFacts DEF OwnKept
  <2> QED BY <1>2, <2>3, <2>6, <2>7, SteadyStep
<1> QED BY <1>3, <1>4

LEMMA PurgeSteady ==
  ASSUME TypeOK, NEW p \in Procs, Purge(p) \/ Purged(p) \/ Applied(p),
         NEW x \in Paths, Untouched(x), SteadyAt(x, disk[x])
  PROVE  SteadyAt(x, disk[x])'
<1> USE DEF vaultVars, editVars, Reads
<1>1. CASE Purge(p)
  <2>1. PICK i \in pass[p].gone : /\ Write(p, Without(View(p), i))
                                  /\ Set(p, [pass[p] EXCEPT !.gone = @ \ {i}])
    BY <1>1 DEF Purge
  <2>2. PICK s : s = [pass[p] EXCEPT !.gone = @ \ {i}]
    OBVIOUS
  <2>3. i \in Ids /\ i # disk[x].id
    BY SteadyFacts DEF SteadyPass, PassTypes
  <2>4. OwnKept(x, disk[x])'
    <3>1. Own(Without(View(p), i), x, disk[x])
      BY <2>3, SteadyFacts, ViewTyped, OwnWithout
    <3> QED BY <1>1, <2>1, <3>1, SteadyFacts, WriteOwn DEF Purge
  <2>5. SteadyPass(s, x, disk[x])
    BY <2>2, SteadyFacts DEF SteadyPass, Walked, PassTypes
  <2> QED BY <1>1, <2>1, <2>2, <2>4, <2>5, SteadyStep DEF Purge, Set
<1>2. CASE Purged(p)
  <2>1. PICK d, todo : /\ d = (Vanished(pass[p]) # {})
                       /\ todo = {y \in Kept(pass[p]) : ~Gated(pass[p], y)
                                               /\ pass[p].prepared[y] # Unreadable}
    OBVIOUS
  <2>2. PICK s : s = [pass[p] EXCEPT !.pc = "apply", !.deleted = d, !.todo = todo]
    OBVIOUS
  <2>3. pass' = [pass EXCEPT ![p] = s]
    BY <1>2, <2>1, <2>2 DEF Purged, Set
  <2>4. SteadyPass(s, x, disk[x])
    BY <2>2, SteadyFacts DEF SteadyPass, Walked, PassTypes
  <2> QED BY <1>2, <2>3, <2>4, SteadyFacts, SteadyStep DEF Purged, OwnKept
<1>3. CASE Applied(p)
  <2>1. PICK s : s = [pass[p] EXCEPT !.pc = "stamp"]
    OBVIOUS
  <2>2. pass' = [pass EXCEPT ![p] = s]
    BY <1>3, <2>1 DEF Applied, Set
  <2>3. SteadyPass(s, x, disk[x])
    BY <2>1, SteadyFacts DEF SteadyPass, Walked, PassTypes
  <2>4. OwnKept(x, disk[x])'
    BY <1>3, SteadyFacts, CommitOwn DEF Applied
  <2> QED BY <1>3, <2>2, <2>3, <2>4, SteadyStep DEF Applied
<1> QED BY <1>1, <1>2, <1>3

LEMMA SkipSteady ==
  ASSUME TypeOK, NEW p \in Procs, NEW y \in Paths, Skip(p, y), disk' = disk,
         pass[p].pc = "apply", NEW x \in Paths, Untouched(x), SteadyAt(x, disk[x])
  PROVE  SteadyAt(x, disk[x])'
<1>0. pass[p] \in PassTypes /\ pass[p].live[y] \in Nat
  BY DEF TypeOK, PassTypes
<1>1. PICK i \in Ids : pass[p].prepared[y] = [id |-> i, hash |-> pass[p].snap[i].hash]
  BY DEF Skip, Unchanged, Entry
<1>2. pass[p].prepared[y].id = i
  BY <1>1
<1>3. OwnKept(x, disk[x])'
  <2>1. CASE pass[p].snap[i].mtime = pass[p].live[y]
    BY <1>2, <2>1, SteadyFacts DEF Skip, OwnKept
  <2>2. CASE pass[p].snap[i].mtime # pass[p].live[y]
    <3>1. Write(p, WithMtime(View(p), i, pass[p].live[y]))
      BY <1>2, <2>2 DEF Skip, RecordMtime
    <3>2. Own(WithMtime(View(p), i, pass[p].live[y]), x, disk[x])
      BY <1>0, SteadyFacts, ViewTyped, OwnWithMtime
    <3> QED BY <3>1, <3>2, SteadyFacts, WriteOwn
  <2> QED BY <2>1, <2>2
<1>4. PICK s : s = [pass[p] EXCEPT !.todo = @ \ {y}]
  OBVIOUS
<1>5. SteadyPass(s, x, disk[x])
  BY <1>4, SteadyFacts DEF SteadyPass, Walked, PassTypes
<1> QED BY <1>3, <1>4, <1>5, SteadyStep DEF Skip, Settled, Set

LEMMA SecondReadSteady ==
  ASSUME TypeOK, NEW p \in Procs, NEW y \in Paths, SecondRead(p, y), disk' = disk,
         pass[p].pc = "apply", NEW x \in Paths, Untouched(x), SteadyAt(x, disk[x])
  PROVE  SteadyAt(x, disk[x])'
<1>1. PICK n : n = ReadNow(y)
  OBVIOUS
<1>2. CASE Settled(p, y) /\ UNCHANGED <<lock, index>>
  <2>1. PICK s : s = [pass[p] EXCEPT !.todo = @ \ {y}]
    OBVIOUS
  <2>2. SteadyPass(s, x, disk[x])
    BY <2>1, SteadyFacts DEF SteadyPass, Walked, PassTypes
  <2>3. OwnKept(x, disk[x])'
    BY <1>2, SteadyFacts DEF OwnKept
  <2> QED BY <1>2, <2>1, <2>2, <2>3, SteadyStep DEF Settled, Set
<1>3. CASE Raise(p) /\ UNCHANGED index
  <2>1. OwnKept(x, disk[x])'
    BY <1>3, SteadyFacts, CommitOwn DEF Raise
  <2> QED BY <1>3, <2>1, SteadyFacts, RaiseSteady DEF SteadyAt
<1>4. CASE /\ n \notin {Unreadable, Undecodable}
           /\ Set(p, [pass[p] EXCEPT !.todo = @ \ {y}, !.owners[n.id] = y,
                                     !.hand = [path |-> y, id |-> n.id, hash |-> n.hash]])
           /\ UNCHANGED <<lock, index>>
  <2>1. PICK s : s = [pass[p] EXCEPT !.todo = @ \ {y}, !.owners[n.id] = y,
                                     !.hand = [path |-> y, id |-> n.id, hash |-> n.hash]]
    OBVIOUS
  <2>2. /\ s.pc = pass[p].pc /\ s.snap = pass[p].snap /\ s.gone = pass[p].gone
        /\ s.prepared = pass[p].prepared
        /\ s.hand = [path |-> y, id |-> n.id, hash |-> n.hash]
    BY <2>1, SteadyFacts DEF PassTypes
  <2>3. SteadyPass(s, x, disk[x])
    BY <1>1, <2>2, SteadyFacts DEF SteadyPass, Walked
  <2>4. OwnKept(x, disk[x])'
    BY <1>4, SteadyFacts DEF OwnKept
  <2> QED BY <1>4, <2>1, <2>3, <2>4, SteadyStep DEF Set
<1> QED BY <1>1, <1>2, <1>3, <1>4 DEF SecondRead

LEMMA StoreSteady ==
  ASSUME TypeOK, NEW p \in Procs, Store(p), NEW x \in Paths, Untouched(x), SteadyAt(x, disk[x])
  PROVE  SteadyAt(x, disk[x])'
<1> USE DEF vaultVars, editVars
<1>0. /\ pass[p] \in PassTypes /\ pass[p].hand # Absent /\ pass[p].hand \in Handed
      /\ pass[p].hand.path \in Paths /\ pass[p].hand.id \in Ids /\ pass[p].hand.hash \in Hashes
      /\ disk' = disk /\ pass[p].pc \in {"apply", "store"}
  BY DEF Store, TypeOK, PassTypes, Handed
<1>1. MtimeFor(p, pass[p].hand.path) \in Nat
  BY <1>0 DEF MtimeFor, PassTypes
<1>2. PICK m, row : /\ m = MtimeFor(p, pass[p].hand.path)
                    /\ row = [path |-> pass[p].hand.path, hash |-> pass[p].hand.hash,
                              mtime |-> m, current |-> TRUE]
  OBVIOUS
<1>3. row \in Rows
  BY <1>0, <1>1, <1>2 DEF Rows
<1>4. CASE /\ Bulk(p)
           /\ \/ UNCHANGED <<index, lock, calm>>
              \/ Write(p, WithMtime(View(p), pass[p].hand.id, m))
           /\ Set(p, [pass[p] EXCEPT !.hand = Absent])
  <2>1. PICK s : s = [pass[p] EXCEPT !.hand = Absent]
    OBVIOUS
  <2>2. SteadyPass(s, x, disk[x])
    <3>1. pass[p].pc = "apply"
      BY <1>4 DEF Store
    <3> QED BY <3>1, <2>1, SteadyFacts DEF SteadyPass, Walked, PassTypes
  <2>3. Own(WithMtime(View(p), pass[p].hand.id, m), x, disk[x])
    BY <1>0, <1>1, <1>2, SteadyFacts, ViewTyped, OwnWithMtime
  <2>4. CASE UNCHANGED <<index, lock>>
    BY <1>0, <1>4, <2>1, <2>2, <2>4, SteadyFacts, SteadyStep DEF OwnKept, Set
  <2>5. CASE Write(p, WithMtime(View(p), pass[p].hand.id, m))
    <3>1. OwnKept(x, disk[x])'
      BY <1>0, <2>3, <2>5, SteadyFacts, WriteOwn
    <3> QED BY <1>0, <1>4, <2>1, <2>2, <3>1, SteadyStep DEF Set
  <2> QED BY <1>4, <2>4, <2>5
<1>5. CASE Raise(p) /\ UNCHANGED <<index, calm>>
  <2>1. OwnKept(x, disk[x])'
    BY <1>0, <1>5, SteadyFacts, CommitOwn DEF Raise
  <2> QED BY <1>0, <1>5, <2>1, SteadyFacts, RaiseSteady DEF SteadyAt
<1>6. CASE /\ ~OwnedElsewhere(View(p), pass[p].hand.id, pass[p].hand.path)
           /\ Write(p, Upsert(View(p), pass[p].hand.id, row))
           /\ Set(p, [pass[p] EXCEPT !.hand = Absent, !.reindexed = TRUE,
                                     !.pc = IF Bulk(p) THEN "apply" ELSE "get"])
  <2>1. PICK s : s = [pass[p] EXCEPT !.hand = Absent, !.reindexed = TRUE,
                                     !.pc = IF Bulk(p) THEN "apply" ELSE "get"]
    OBVIOUS
  <2>2. SteadyPass(s, x, disk[x])
    BY <1>0, <2>1, SteadyFacts DEF SteadyPass, Walked, PassTypes
  <2>3. row.path = x => (pass[p].hand.id = disk[x].id /\ row.hash = disk[x].hash)
    BY <1>0, <1>2, SteadyFacts DEF SteadyPass
  <2>4. Own(Upsert(View(p), pass[p].hand.id, row), x, disk[x])
    BY <1>0, <1>2, <1>3, <1>6, <2>3, SteadyFacts, ViewTyped, OwnUpsert
  <2>5. OwnKept(x, disk[x])'
    BY <1>0, <1>6, <2>4, SteadyFacts, WriteOwn
  <2> QED BY <1>0, <1>6, <2>1, <2>2, <2>5, SteadyStep DEF Set
<1> QED BY <1>2, <1>4, <1>5, <1>6 DEF Store, RecordMtime


LEMMA ApplySteady ==
  ASSUME TypeOK, NEW p \in Procs, Apply(p), NEW x \in Paths, Untouched(x), SteadyAt(x, disk[x])
  PROVE  SteadyAt(x, disk[x])'
<1>1. PICK y \in pass[p].todo : Skip(p, y) \/ SecondRead(p, y)
  BY DEF Apply
<1>2. y \in Paths /\ pass[p].pc = "apply" /\ disk' = disk
  BY SteadyFacts DEF Apply, PassTypes, editVars
<1> QED BY <1>1, <1>2, SkipSteady, SecondReadSteady

LEMMA EndingSteady ==
  ASSUME TypeOK, NEW p \in Procs,
         Stamp(p) \/ GetGeneration(p) \/ SetGeneration(p) \/ Drop(p)
           \/ \E y \in Paths : Target(p, y),
         NEW x \in Paths, Untouched(x), SteadyAt(x, disk[x])
  PROVE  SteadyAt(x, disk[x])'
<1> USE DEF vaultVars, editVars, Reads
<1>0. disk' = disk
  BY DEF Stamp, GetGeneration, SetGeneration, Drop, Target
<1>1. ASSUME NEW c \in {"get", "store"}, c = "store" => pass[p].hand # Absent,
             pass' = [pass EXCEPT ![p] = [pass[p] EXCEPT !.pc = c]],
             OwnKept(x, disk[x])'
      PROVE  SteadyAt(x, disk[x])'
  <2>1. PICK s : s = [pass[p] EXCEPT !.pc = c]
    OBVIOUS
  <2>2. SteadyPass(s, x, disk[x])
    BY <1>1, <2>1, SteadyFacts DEF SteadyPass, Walked, PassTypes
  <2> QED BY <1>0, <1>1, <2>1, <2>2, SteadyStep
<1>2. ASSUME pass' = [pass EXCEPT ![p] = Idle], OwnKept(x, disk[x])'
      PROVE  SteadyAt(x, disk[x])'
  BY <1>0, <1>2, SteadyFacts, IdleSteady, SteadyStep
<1>3. CASE Stamp(p)
  BY <1>0, <1>1, <1>2, <1>3, SteadyFacts DEF Stamp, Finish, OwnKept, Set
<1>4. CASE SetGeneration(p)
  BY <1>0, <1>2, <1>4, SteadyFacts DEF SetGeneration, Finish, OwnKept
<1>5. CASE GetGeneration(p)
  <2>1. PICK s : s = [pass[p] EXCEPT !.pc = "set", !.next = gen + 1]
    OBVIOUS
  <2>2. SteadyPass(s, x, disk[x])
    BY <2>1, SteadyFacts DEF SteadyPass, Walked, PassTypes
  <2> QED BY <1>0, <1>5, <2>1, <2>2, SteadyFacts, SteadyStep DEF GetGeneration, OwnKept, Set
<1>6. CASE Drop(p)
  <2>1. OwnKept(x, disk[x])'
    <3>1. CASE UNCHANGED <<index, lock>>
      BY <1>0, <3>1, SteadyFacts DEF OwnKept
    <3>2. ASSUME NEW i \in Ids, View(p)[i].path = pass[p].hand.path, i # pass[p].hand.id,
                 pass[p].hand # Absent, Write(p, Without(View(p), i))
          PROVE  OwnKept(x, disk[x])'
      <4>1. i # disk[x].id
        BY <3>2, SteadyFacts DEF SteadyPass, Own
      <4>2. Own(Without(View(p), i), x, disk[x])
        BY <3>2, <4>1, SteadyFacts, ViewTyped, OwnWithout
      <4> QED BY <1>0, <3>2, <4>2, SteadyFacts, WriteOwn
    <3>3. pass[p].hand # Absent
      BY <1>6, SteadyFacts DEF Drop, SteadyPass
    <3> QED BY <1>6, <3>1, <3>2, <3>3 DEF Drop
  <2>2. pass[p].hand # Absent
    BY <1>6, SteadyFacts DEF Drop, SteadyPass
  <2> QED BY <1>1, <1>6, <2>1, <2>2 DEF Drop, Set
<1>7. ASSUME NEW y \in Paths, Target(p, y)
      PROVE  SteadyAt(x, disk[x])'
  <2>1. PICK s : s = [pass[p] EXCEPT !.kind = "note", !.pc = "drop",
                        !.hand = [path |-> y, id |-> disk[y].id, hash |-> disk[y].hash]]
    OBVIOUS
  <2>2. s.hand = [path |-> y, id |-> disk[y].id, hash |-> disk[y].hash] /\ s.hand # Absent
    <3>1. disk[y].id \in Ids /\ disk[y].hash \in Hashes
      BY <1>7, ReadNowTyped DEF Target, Notes
    <3>2. [path |-> y, id |-> disk[y].id, hash |-> disk[y].hash] \in Handed
      BY <3>1 DEF Handed
    <3> QED BY <2>1, <3>2, SteadyFacts, ReconcileAssumption DEF PassTypes
  <2>3. SteadyPass(s, x, disk[x])
    BY <2>1, <2>2, SteadyFacts DEF SteadyPass, Walked, PassTypes
  <2> QED BY <1>0, <1>7, <2>1, <2>3, SteadyFacts, SteadyStep DEF Target, OwnKept, Set
<1> QED BY <1>3, <1>4, <1>5, <1>6, <1>7

LEMMA FaultSteady ==
  ASSUME TypeOK, NEW p \in Procs, StoreFails(p) \/ Cancel(p) \/ Crash(p),
         NEW x \in Paths, Untouched(x), SteadyAt(x, disk[x])
  PROVE  SteadyAt(x, disk[x])'
<1>1. disk' = disk /\ index' = index /\ Rollback(p)
  BY DEF StoreFails, Cancel, Crash, Raise, vaultVars, editVars
<1>2. OwnKept(x, disk[x])'
  BY <1>1, SteadyFacts, CommitOwn
<1>3. CASE pass' = [pass EXCEPT ![p] = Idle]
  BY <1>1, <1>2, <1>3, SteadyFacts, IdleSteady, SteadyStep
<1>4. CASE Raise(p)
  BY <1>1, <1>2, <1>4, SteadyFacts, RaiseSteady DEF SteadyAt
<1> QED BY <1>3, <1>4 DEF StoreFails, Cancel, Crash

LEMMA InitSteady ==
  ASSUME Init
  PROVE  Steady
<1> USE TickIsInjective
<1>1. PICK f \in [Paths -> Ids \cup {Absent}] :
        /\ \A x, y \in Paths : (f[x] = f[y] /\ f[x] # Absent) => x = y
        /\ \E h \in Hashes \ {Undecodable} :
             disk = [x \in Paths |-> IF f[x] = Absent THEN Absent
                                     ELSE [id |-> f[x], hash |-> h, mtime |-> Tick[x]]]
        /\ index = [i \in Ids |->
             IF \E x \in Paths : f[x] = i
               THEN LET x == CHOOSE y \in Paths : f[y] = i
                    IN  [path |-> x, hash |-> disk[x].hash, mtime |-> Tick[x],
                         current |-> ~env.old]
               ELSE Absent]
  BY DEF Init
<1>2. ASSUME NEW x \in Paths, disk[x] # Absent
      PROVE  SteadyAt(x, disk[x])
  <2>1. disk[x] \in Notes /\ disk[x].id = f[x] /\ f[x] \in Ids /\ disk[x].hash # Undecodable
        /\ disk[x].mtime # 0
    BY <1>1, <1>2 DEF Notes
  <2>2. (CHOOSE y \in Paths : f[y] = f[x]) = x
    BY <1>1, <2>1, ReconcileAssumption
  <2>3. PICK v \in BOOLEAN : v = ~env.old
    OBVIOUS
  <2>4. index[f[x]] = [path |-> x, hash |-> disk[x].hash, mtime |-> Tick[x], current |-> v]
    BY <1>1, <2>1, <2>2, <2>3
  <2>5. index[f[x]] \in Rows
    BY <2>1, <2>4 DEF Rows, Notes
  <2>6. Own(index, x, disk[x])
    BY <2>1, <2>4, <2>5, ReconcileAssumption DEF Own
  <2>7. lock.owner = NoProc
    BY DEF Init, FreeLock
  <2> QED BY <2>1, <2>6, <2>7, IdleSteady DEF SteadyAt, OwnKept, Init
<1> QED BY <1>2 DEF Steady, Untouched

(* Every variable has its type, and a note that nobody touched keeps the   *)
(* row it had, whatever the passes of any processes read, fail to read,    *)
(* purge, raise or leave undone.                                           *)
THEOREM SteadyRows == Spec => []TypedNotesStay
<1>1. ASSUME TypeOK, Steady, [Next]_vars
      PROVE  Steady'
  <2>1. env.procs \subseteq Procs
    BY <1>1, ReconcileAssumption DEF TypeOK, SettingType
  <2>2. CASE Edit
    BY <1>1, <2>2, EditSteady
  <2>3. ASSUME NEW p \in env.procs, NEW x \in Paths, Untouched(x)',
               Step(p) \/ (\E y \in Paths : Target(p, y)) \/ StoreFails(p) \/ Cancel(p)
                 \/ Crash(p) \/ (\E i \in Ids : Hit(p, i)) \/ AskGeneration(p) \/ AskRows(p)
        PROVE  SteadyAt(x, disk[x])'
    <3>1. CASE Step(p) \/ (\E y \in Paths : Target(p, y)) \/ StoreFails(p) \/ Cancel(p)
                 \/ Crash(p)
      <4>1. Untouched(x)
        BY <2>3, <3>1 DEF Untouched, Step, Start, Walk, Snapshot, Prepare, Prepared, Purge, Purged,
           Apply, Store, Applied, Stamp, GetGeneration, SetGeneration, Drop, Target, StoreFails,
           Cancel, Crash, Reads, vaultVars, editVars
      <4>2. SteadyAt(x, disk[x])
        BY <1>1, <4>1 DEF Steady
      <4> QED BY <1>1, <2>1, <3>1, <4>1, <4>2, ScanSteady, PrepareSteady, PurgeSteady, ApplySteady,
                 StoreSteady, EndingSteady, FaultSteady DEF Step
    <3>2. CASE (\E i \in Ids : Hit(p, i)) \/ AskGeneration(p) \/ AskRows(p)
      BY <1>1, <2>3, <3>2 DEF Hit, AskGeneration, AskRows, Steady, SteadyAt, OwnKept, Untouched,
         vaultVars, editVars, readerVars
    <3> QED BY <2>3, <3>1, <3>2
  <2>4. CASE UNCHANGED vars
    BY <1>1, <2>4 DEF Steady, SteadyAt, OwnKept, Untouched, vars
  <2> QED BY <1>1, <2>2, <2>3, <2>4 DEF Next, Steady
<1>2. TypeOK /\ Steady => TypedNotesStay
  BY DEF TypedNotesStay, SteadyNotesStay, Steady, SteadyAt, OwnKept, Own, Untouched
<1> QED BY <1>1, <1>2, InitSteady, PassTypesHold, PTL DEF Spec

--------------------------------------------------------------------------------
(***************************************************************************)
(* The upgrade (UpgradeReachesEveryNote).  Rows of the older chunker only  *)
(* ever disappear, so a pass that found the old version still has every    *)
(* one of them ahead: it saw it in its snapshot, and its path is yet to be *)
(* read, to be purged, to be applied or in hand, unless it was missed.     *)
(***************************************************************************)

Old(rows, i) == rows[i] # Absent /\ ~rows[i].current

OldIn(rows, others) ==
  \A i \in Ids : Old(rows, i) => Old(others, i) /\ others[i].path = rows[i].path

OnePerPath(rows) ==
  \A i, j \in Ids :
    (rows[i] # Absent /\ rows[j] # Absent /\ rows[i].path = rows[j].path) => i = j

Seen(s, rows) ==
  (s.pc \in {"prepare", "purge", "apply"} \/ (s.pc = "walk" /\ s.kind # "sweep")) =>
    \A i \in Ids : Old(rows, i) => s.snap[i] # Absent /\ s.snap[i].path = rows[i].path

Due(s, i, y) ==
  \/ s.pc \notin {"prepare", "purge", "apply", "stamp"}
  \/ s.pc = "prepare" /\ (y \in Live(s) \ s.todo => s.prepared[y] \notin {Absent, Unreadable})
  \/ s.pc = "purge" /\ (i \in s.gone \/ (/\ y \in Kept(s)
                                        /\ s.prepared[y] \notin {Absent, Unreadable}))
  \/ s.pc = "apply" /\ (y \in s.todo \/ (s.hand # Absent /\ s.hand.path = y))

UpgradePass(s, rows, unread) ==
  /\ OnePerPath(s.snap) /\ Seen(s, rows)
  /\ s.pc = "snapshot" => s.todo = Paths
  /\ s.pc \in {"drop", "store"} => s.kind = "note"
  /\ s.pc = "apply" => s.todo \subseteq Live(s)
  /\ s.upgrade => \A i \in Ids : Old(rows, i) => rows[i].path \in unread \/ Due(s, i, rows[i].path)

TablesOk ==
  /\ OnePerPath(index)
  /\ lock.owner # NoProc => /\ OnePerPath(lock.rows) /\ OldIn(lock.rows, index)
                            /\ pass[lock.owner].pc \in {"purge", "apply"}

Upgrading ==
  /\ TablesOk
  /\ \A p \in Procs : UpgradePass(pass[p], View(p), missed)
  /\ stamped => \A i \in Ids : Old(index, i) => index[i].path \in missed

LEMMA OldInRefl == \A rows : OldIn(rows, rows)
BY DEF OldIn

LEMMA OldInTrans ==
  ASSUME NEW a, NEW b, NEW c, OldIn(a, b), OldIn(b, c)
  PROVE  OldIn(a, c)
BY DEF OldIn

LEMMA WithoutShrinks ==
  ASSUME NEW rows \in Tables, OnePerPath(rows), NEW i \in Ids
  PROVE  OnePerPath(Without(rows, i)) /\ OldIn(Without(rows, i), rows)
BY DEF OnePerPath, OldIn, Old, Without, Tables

LEMMA UpsertShrinks ==
  ASSUME NEW rows \in Tables, OnePerPath(rows), NEW i \in Ids, NEW row \in Rows, row.current
  PROVE  /\ OnePerPath(Upsert(rows, i, row)) /\ OldIn(Upsert(rows, i, row), rows)
         /\ \A j \in Ids : Old(Upsert(rows, i, row), j) => rows[j].path # row.path
BY DEF OnePerPath, OldIn, Old, Upsert, Tables

LEMMA WithMtimeKeeps ==
  ASSUME NEW rows \in Tables, NEW i \in Ids, NEW m \in Nat, NEW j \in Ids
  PROVE  /\ (WithMtime(rows, i, m)[j] = Absent) <=> (rows[j] = Absent)
         /\ WithMtime(rows, i, m)[j].path = rows[j].path
         /\ WithMtime(rows, i, m)[j].hash = rows[j].hash
         /\ WithMtime(rows, i, m)[j].current = rows[j].current
         /\ (rows[j] # Absent /\ i = j) => WithMtime(rows, i, m)[j].mtime = m
<1>1. CASE i # j \/ rows[i] = Absent
  BY <1>1 DEF WithMtime, Tables
<1>2. CASE i = j /\ rows[i] # Absent
  <2>1. rows[i] \in Rows /\ WithMtime(rows, i, m)[i] = [rows[i] EXCEPT !.mtime = m]
    BY <1>2 DEF WithMtime, Tables
  <2>2. [rows[i] EXCEPT !.mtime = m] \in Rows
    BY <2>1 DEF Rows
  <2> QED BY <1>2, <2>1, <2>2, ReconcileAssumption DEF Rows
<1> QED BY <1>1, <1>2

LEMMA WithMtimeShrinks ==
  ASSUME NEW rows \in Tables, OnePerPath(rows), NEW i \in Ids, NEW m \in Nat
  PROVE  OnePerPath(WithMtime(rows, i, m)) /\ OldIn(WithMtime(rows, i, m), rows)
<1> PICK w : w = WithMtime(rows, i, m)
  OBVIOUS
<1>1. \A j \in Ids : /\ (w[j] = Absent) <=> (rows[j] = Absent)
                     /\ w[j].path = rows[j].path /\ w[j].current = rows[j].current
  BY WithMtimeKeeps
<1>2. OnePerPath(w)
  BY <1>1 DEF OnePerPath
<1>3. \A j \in Ids : Old(w, j) <=> Old(rows, j)
  BY <1>1 DEF Old
<1>4. OldIn(w, rows)
  BY <1>1, <1>3 DEF OldIn
<1> QED BY <1>2, <1>4

LEMMA ViewOk ==
  ASSUME TypeOK, TablesOk, NEW p \in Procs
  PROVE  OnePerPath(View(p)) /\ OldIn(View(p), index)
BY OldInRefl, ReconcileAssumption DEF TablesOk, View

LEMMA WriteOk ==
  ASSUME TypeOK, TablesOk, NEW p \in Procs, NEW rows, Write(p, rows), OnePerPath(rows),
         OldIn(rows, View(p)), Bulk(p) => pass'[p].pc \in {"purge", "apply"}
  PROVE  /\ TablesOk' /\ View(p)' = rows /\ OldIn(index', index)
         /\ \A q \in Procs \ {p} : OldIn(View(q)', View(q))
<1>1. OldIn(rows, index)
  BY ViewOk, OldInTrans
<1>2. CASE lock' = FreeLock /\ index' = rows
  BY <1>1, <1>2, ReconcileAssumption DEF Write, CanWrite, FreeLock, TablesOk, View
<1>3. CASE Bulk(p) /\ lock'.owner = p /\ lock'.rows = rows /\ UNCHANGED index
  BY <1>1, <1>3, OldInRefl, ReconcileAssumption DEF Write, CanWrite, TablesOk, View
<1> QED BY <1>2, <1>3 DEF Write

LEMMA CommitOk ==
  ASSUME TypeOK, TablesOk, NEW p \in Procs, Commit(p),
         \A q \in Procs \ {p} : pass'[q] = pass[q]
  PROVE  /\ TablesOk' /\ View(p)' = View(p) /\ OldIn(index', index) /\ lock'.owner # p
         /\ \A q \in Procs \ {p} : OldIn(View(q)', View(q))
<1>1. CASE lock.owner = p
  BY <1>1, ReconcileAssumption DEF Commit, TablesOk, View, FreeLock
<1>2. CASE lock.owner # p
  <2>1. UNCHANGED <<index, lock>>
    BY <1>2 DEF Commit
  <2>2. lock.owner # NoProc => pass'[lock.owner] = pass[lock.owner]
    BY <1>2 DEF TypeOK
  <2> QED BY <1>2, <2>1, <2>2, OldInRefl DEF TablesOk, View
<1> QED BY <1>1, <1>2

LEMMA RollbackOk ==
  ASSUME TypeOK, TablesOk, NEW p \in Procs, Rollback(p), UNCHANGED index,
         \A q \in Procs \ {p} : pass'[q] = pass[q]
  PROVE  /\ TablesOk' /\ View(p)' = index /\ OldIn(index', index) /\ lock'.owner # p
         /\ \A q \in Procs \ {p} : OldIn(View(q)', View(q))
<1>1. CASE lock.owner = p
  BY <1>1, OldInRefl, ReconcileAssumption DEF Rollback, TablesOk, View, FreeLock
<1>2. CASE lock.owner # p
  <2>1. UNCHANGED <<index, lock>>
    BY <1>2 DEF Rollback
  <2>2. lock.owner # NoProc => pass'[lock.owner] = pass[lock.owner]
    BY <1>2 DEF TypeOK
  <2> QED BY <1>2, <2>1, <2>2, OldInRefl DEF TablesOk, View
<1> QED BY <1>1, <1>2

LEMMA RestOk ==
  ASSUME TypeOK, TablesOk, NEW p \in Procs, UNCHANGED <<index, lock>>,
         \A q \in Procs \ {p} : pass'[q] = pass[q],
         lock.owner = p => pass'[p].pc \in {"purge", "apply"}
  PROVE  /\ TablesOk' /\ View(p)' = View(p) /\ OldIn(index', index)
         /\ \A q \in Procs \ {p} : OldIn(View(q)', View(q))
<1>1. lock.owner \in Procs \ {p} => pass'[lock.owner] = pass[lock.owner]
  OBVIOUS
<1> QED BY <1>1, OldInRefl DEF TablesOk, View, TypeOK

(* Other processes, or this one, writing newer rows and missing more paths *)
(* leave what a pass has ahead of it as it is.                             *)
LEMMA DueStays ==
  ASSUME NEW s, NEW rows, NEW after, NEW unread, NEW more, UpgradePass(s, rows, unread),
         OldIn(after, rows), unread \subseteq more
  PROVE  UpgradePass(s, after, more)
BY DEF UpgradePass, Seen, OldIn

LEMMA IdleUpgrade ==
  ASSUME NEW rows, NEW unread
  PROVE  UpgradePass(Idle, rows, unread)
BY DEF UpgradePass, Seen, Idle, OnePerPath

LEMMA UpgradeStep ==
  ASSUME TypeOK, Upgrading, NEW p \in Procs, NEW s, pass' = [pass EXCEPT ![p] = s],
         TablesOk', \A q \in Procs \ {p} : OldIn(View(q)', View(q)), OldIn(index', index),
         missed \subseteq missed', stamped' = stamped, UpgradePass(s, View(p)', missed')
  PROVE  Upgrading'
<1>1. ASSUME NEW q \in Procs
      PROVE  UpgradePass(pass'[q], View(q)', missed')
  <2>1. CASE q = p
    BY <2>1 DEF TypeOK
  <2>2. CASE q # p
    <3>1. pass'[q] = pass[q] /\ UpgradePass(pass[q], View(q), missed)
      BY <2>2 DEF TypeOK, Upgrading
    <3> QED BY <2>2, <3>1, DueStays
  <2> QED BY <2>1, <2>2
<1>2. stamped' => \A i \in Ids : Old(index', i) => index'[i].path \in missed'
  BY DEF Upgrading, OldIn
<1> QED BY <1>1, <1>2 DEF Upgrading


LEMMA UpgradeFacts ==
  ASSUME TypeOK, Upgrading, NEW p \in Procs
  PROVE  /\ pass[p] \in PassTypes /\ TablesOk /\ UpgradePass(pass[p], View(p), missed)
         /\ View(p) \in Tables /\ OnePerPath(View(p))
         /\ lock.owner = p => pass[p].pc \in {"purge", "apply"}
BY ViewOk, ViewTyped, ReconcileAssumption DEF TypeOK, Upgrading, TablesOk

LEMMA UpgradeRest ==
  ASSUME TypeOK, Upgrading, NEW p \in Procs, NEW s, pass' = [pass EXCEPT ![p] = s],
         UNCHANGED <<index, lock, stamped>>, missed \subseteq missed',
         s.pc \in {"purge", "apply"} \/ pass[p].pc \notin {"purge", "apply"},
         UpgradePass(s, View(p), missed')
  PROVE  Upgrading'
<1>1. pass'[p] = s /\ \A q \in Procs \ {p} : pass'[q] = pass[q]
  BY DEF TypeOK
<1>2. /\ TablesOk' /\ View(p)' = View(p) /\ OldIn(index', index)
      /\ \A q \in Procs \ {p} : OldIn(View(q)', View(q))
  BY <1>1, UpgradeFacts, RestOk
<1> QED BY <1>2, UpgradeStep

LEMMA ScanUpgrade ==
  ASSUME TypeOK, Upgrading, NEW p \in Procs,
         Start(p) \/ Walk(p) \/ Snapshot(p) \/ Prepared(p)
  PROVE  Upgrading'
<1> USE DEF vaultVars, editVars, readerVars, Reads
<1>0. /\ pass[p] \in PassTypes /\ UpgradePass(pass[p], View(p), missed)
      /\ UNCHANGED <<index, lock, stamped, missed>>
  BY UpgradeFacts DEF Start, Walk, Snapshot, Prepared
<1>1. CASE Start(p)
  <2>1. PICK kind : Set(p, [pass[p] EXCEPT !.kind = kind,
                              !.pc = IF kind = "sweep" THEN "walk" ELSE "snapshot",
                              !.todo = Paths,
                              !.marks = IF kind = "sweep" THEN stale[p] ELSE {}])
    BY <1>1 DEF Start
  <2>2. PICK s : s = [pass[p] EXCEPT !.kind = kind,
                        !.pc = IF kind = "sweep" THEN "walk" ELSE "snapshot",
                        !.todo = Paths,
                        !.marks = IF kind = "sweep" THEN stale[p] ELSE {}]
    OBVIOUS
  <2>3. /\ s.kind = kind /\ s.todo = Paths /\ s.snap = pass[p].snap
        /\ s.pc = IF kind = "sweep" THEN "walk" ELSE "snapshot"
    BY <1>0, <2>2 DEF PassTypes
  <2>4. UpgradePass(s, View(p), missed)
    BY <1>0, <2>3 DEF UpgradePass, Seen, Due
  <2>5. pass' = [pass EXCEPT ![p] = s] /\ pass[p].pc = "idle"
    BY <1>1, <2>1, <2>2 DEF Start, Set
  <2> QED BY <1>0, <2>4, <2>5, UpgradeRest
<1>2. CASE Walk(p)
  <2>1. PICK y \in pass[p].todo :
          LET rest == pass[p].todo \ {y}
          IN  Set(p, [pass[p] EXCEPT
                        !.live[y] = IF disk[y] = Absent THEN 0 ELSE disk[y].mtime,
                        !.todo = IF rest = {} THEN Paths ELSE rest, !.upgrade = ~stamped,
                        !.pc = IF rest # {} THEN "walk"
                               ELSE IF pass[p].kind = "sweep" THEN "snapshot" ELSE "prepare"])
    BY <1>2 DEF Walk
  <2>2. PICK m, todo, u, c :
          /\ m = (IF disk[y] = Absent THEN 0 ELSE disk[y].mtime)
          /\ todo = (IF pass[p].todo \ {y} = {} THEN Paths ELSE pass[p].todo \ {y})
          /\ u = ~stamped
          /\ c = (IF pass[p].todo \ {y} # {} THEN "walk"
                  ELSE IF pass[p].kind = "sweep" THEN "snapshot" ELSE "prepare")
    OBVIOUS
  <2>3. PICK s : s = [pass[p] EXCEPT !.live[y] = m, !.todo = todo, !.upgrade = u, !.pc = c]
    OBVIOUS
  <2>4. pass' = [pass EXCEPT ![p] = s]
    BY <2>1, <2>2, <2>3 DEF Set
  <2>5. /\ s.kind = pass[p].kind /\ s.todo = todo /\ s.snap = pass[p].snap /\ s.pc = c
    BY <1>0, <2>3 DEF PassTypes
  <2>6. c # "walk" => todo = Paths
    BY <2>2
  <2>7. \A i \in Ids, x \in Paths : Due(s, i, x)
    BY <2>2, <2>5, <2>6 DEF Due, Live
  <2>8. pass[p].pc = "walk" /\ View(p) \in Tables
    BY <1>2, UpgradeFacts DEF Walk
  <2>9. \A i \in Ids : Old(View(p), i) => View(p)[i].path \in Paths
    BY <2>8 DEF Tables, Rows, Old
  <2>10. OnePerPath(s.snap) /\ Seen(s, View(p))
    BY <1>0, <2>2, <2>5, <2>8 DEF UpgradePass, Seen
  <2>11. UpgradePass(s, View(p), missed)
    BY <2>2, <2>5, <2>6, <2>7, <2>9, <2>10 DEF UpgradePass
  <2> QED BY <1>0, <2>4, <2>8, <2>11, UpgradeRest
<1>3. CASE Snapshot(p)
  <2>1. PICK u : u = ~stamped
    OBVIOUS
  <2>2. PICK s : s = [pass[p] EXCEPT !.snap = View(p), !.upgrade = u,
                        !.pc = IF pass[p].kind = "sweep" THEN "prepare" ELSE "walk"]
    OBVIOUS
  <2>3. pass' = [pass EXCEPT ![p] = s] /\ pass[p].pc = "snapshot"
    BY <1>3, <2>1, <2>2 DEF Snapshot, Set
  <2>4. /\ s.snap = View(p) /\ s.todo = pass[p].todo
        /\ s.pc = IF pass[p].kind = "sweep" THEN "prepare" ELSE "walk"
    BY <1>0, <2>2 DEF PassTypes
  <2>5. \A i \in Ids, x \in Paths : Due(s, i, x)
    BY <1>0, <2>3, <2>4 DEF Due, Live, UpgradePass
  <2>6. \A i \in Ids : Old(View(p), i) => View(p)[i] # Absent /\ View(p)[i].path \in Paths
    BY UpgradeFacts DEF Tables, Rows, Old
  <2>7. UpgradePass(s, View(p), missed)
    BY <1>0, <2>3, <2>4, <2>5, <2>6, UpgradeFacts DEF UpgradePass, Seen
  <2> QED BY <1>0, <2>3, <2>7, UpgradeRest
<1>4. CASE Prepared(p)
  <2>1. PICK s : s = [pass[p] EXCEPT !.pc = "purge", !.gone = Vanished(pass[p])]
    OBVIOUS
  <2>2. /\ pass' = [pass EXCEPT ![p] = s] /\ pass[p].pc = "prepare"
        /\ pass[p].todo \cap Live(pass[p]) = {}
    BY <1>4, <2>1 DEF Prepared, Set
  <2>3. /\ s.snap = pass[p].snap /\ s.pc = "purge" /\ s.gone = Vanished(pass[p])
        /\ s.live = pass[p].live /\ s.prepared = pass[p].prepared /\ s.upgrade = pass[p].upgrade
    BY <1>0, <2>1 DEF PassTypes
  <2>4. ASSUME NEW i \in Ids, Old(View(p), i), pass[p].upgrade, View(p)[i].path \notin missed
        PROVE  Due(s, i, View(p)[i].path)
    <3>1. PICK y \in Paths : y = View(p)[i].path
      BY <2>4, UpgradeFacts DEF Old, Tables, Rows
    <3>2. pass[p].snap[i] # Absent /\ pass[p].snap[i].path = y
      BY <1>0, <2>2, <2>4, <3>1 DEF UpgradePass, Seen
    <3>3. y \in Live(pass[p]) => pass[p].prepared[y] \notin {Absent, Unreadable}
      BY <1>0, <2>2, <2>4, <3>1 DEF UpgradePass, Due
    <3>4. i \in Vanished(pass[p]) \/ y \in Kept(pass[p])
      BY <3>2 DEF Vanished
    <3>5. Kept(s) = Kept(pass[p]) /\ Kept(pass[p]) \subseteq Live(pass[p])
      BY <2>3 DEF Kept, Live
    <3> QED BY <2>3, <3>1, <3>3, <3>4, <3>5 DEF Due
  <2>5. UpgradePass(s, View(p), missed)
    BY <1>0, <2>2, <2>3, <2>4 DEF UpgradePass, Seen
  <2> QED BY <1>0, <2>2, <2>3, <2>5, UpgradeRest
<1> QED BY <1>1, <1>2, <1>3, <1>4


LEMMA UpgradeWrite ==
  ASSUME TypeOK, Upgrading, NEW p \in Procs, NEW rows, Write(p, rows), OnePerPath(rows),
         OldIn(rows, View(p)), NEW s, pass' = [pass EXCEPT ![p] = s], stamped' = stamped,
         missed \subseteq missed', Bulk(p) => s.pc \in {"purge", "apply"},
         UpgradePass(s, rows, missed')
  PROVE  Upgrading'
<1>1. pass'[p] = s
  BY DEF TypeOK
<1>2. /\ TablesOk' /\ View(p)' = rows /\ OldIn(index', index)
      /\ \A q \in Procs \ {p} : OldIn(View(q)', View(q))
  BY <1>1, UpgradeFacts, WriteOk
<1> QED BY <1>2, UpgradeStep

LEMMA UpgradeStop ==
  ASSUME TypeOK, Upgrading, NEW p \in Procs, NEW s, pass' = [pass EXCEPT ![p] = s],
         Rollback(p), UNCHANGED <<index, stamped>>, missed \subseteq missed',
         OnePerPath(s.snap), s.pc \in {"idle", "get"}
  PROVE  Upgrading'
<1>1. /\ TablesOk' /\ View(p)' = index /\ OldIn(index', index)
      /\ \A q \in Procs \ {p} : OldIn(View(q)', View(q))
  BY UpgradeFacts, RollbackOk DEF TypeOK
<1>2. UpgradePass(s, index, missed')
  BY DEF UpgradePass, Seen, Due
<1> QED BY <1>1, <1>2, UpgradeStep

LEMMA IdleSnap == OnePerPath(Idle.snap) /\ Idle.pc = "idle"
BY DEF Idle, OnePerPath

LEMMA UpgradeRaise ==
  ASSUME TypeOK, Upgrading, NEW p \in Procs, Raise(p), UNCHANGED <<index, stamped>>,
         missed \subseteq missed'
  PROVE  Upgrading'
<1>1. PICK s : s = [pass[p] EXCEPT !.pc = "get", !.failed = TRUE, !.hand = Absent]
  OBVIOUS
<1>2. OnePerPath(s.snap) /\ s.pc = "get"
  BY <1>1, UpgradeFacts DEF UpgradePass, PassTypes
<1> QED BY <1>1, <1>2, IdleSnap, UpgradeStop DEF Raise, Set

LEMMA PrepareUpgrade ==
  ASSUME TypeOK, Upgrading, NEW p \in Procs, Prepare(p)
  PROVE  Upgrading'
<1> USE DEF editVars
<1>1. PICK y, outcome, i :
        /\ y \in pass[p].todo \cap Live(pass[p]) /\ Claims(p, y, outcome, i)
        /\ (outcome = Absent /\ Gated(pass[p], y)) \/ outcome \in {Unreadable, ReadNow(y)}
  BY DEF Prepare
<1>2. /\ UNCHANGED <<index, stamped>> /\ pass[p].pc = "prepare" /\ y \in Paths
      /\ pass[p] \in PassTypes /\ UpgradePass(pass[p], View(p), missed)
  BY <1>1, UpgradeFacts DEF Prepare, Live
<1>3. CASE i # Absent /\ pass[p].owners[i] # Absent
  BY <1>1, <1>2, <1>3, UpgradeRaise DEF Claims
<1>4. CASE ~(i # Absent /\ pass[p].owners[i] # Absent)
  <2>1. PICK owners : owners = IF i = Absent THEN pass[p].owners
                                            ELSE [pass[p].owners EXCEPT ![i] = y]
    OBVIOUS
  <2>2. PICK s : s = [pass[p] EXCEPT !.prepared[y] = outcome, !.todo = @ \ {y},
                                     !.owners = owners]
    OBVIOUS
  <2>3. /\ pass' = [pass EXCEPT ![p] = s] /\ UNCHANGED lock
        /\ missed' = IF outcome = Unreadable THEN missed \cup {y} ELSE missed
    BY <1>1, <1>4, <2>1, <2>2 DEF Claims, Set
  <2>4. /\ s.pc = pass[p].pc /\ s.kind = pass[p].kind /\ s.live = pass[p].live
        /\ s.snap = pass[p].snap /\ s.upgrade = pass[p].upgrade /\ s.todo = pass[p].todo \ {y}
        /\ \A x \in Paths : s.prepared[x] = IF x = y THEN outcome ELSE pass[p].prepared[x]
    BY <1>2, <2>2 DEF PassTypes
  <2>5. pass[p].upgrade => outcome \in {Unreadable, ReadNow(y)}
    BY <1>1 DEF Gated, Rechunked
  <2>6. ReadNow(y) \notin {Absent, Unreadable} \/ ReadNow(y) = Unreadable
    BY <1>2, ReadNowTyped, ReconcileAssumption
  <2>7. ASSUME NEW j \in Ids, NEW x \in Paths, pass[p].upgrade,
               x \in missed \/ Due(pass[p], j, x)
        PROVE  x \in missed' \/ Due(s, j, x)
    BY <1>2, <2>3, <2>4, <2>5, <2>6, <2>7 DEF Due, Live
  <2>8. \A j \in Ids : Old(View(p), j) => View(p)[j].path \in Paths
    BY UpgradeFacts DEF Tables, Rows, Old
  <2>9. UpgradePass(s, View(p), missed')
    BY <1>2, <2>4, <2>7, <2>8 DEF UpgradePass, Seen
  <2> QED BY <1>2, <2>3, <2>9, UpgradeRest
<1> QED BY <1>3, <1>4

LEMMA PurgeUpgrade ==
  ASSUME TypeOK, Upgrading, NEW p \in Procs, Purge(p) \/ Purged(p) \/ Applied(p)
  PROVE  Upgrading'
<1> USE DEF vaultVars, editVars, Reads
<1>0. /\ UNCHANGED <<stamped, missed>> /\ pass[p] \in PassTypes /\ View(p) \in Tables
      /\ UpgradePass(pass[p], View(p), missed) /\ OnePerPath(View(p))
  BY UpgradeFacts DEF Purge, Purged, Applied
<1>1. CASE Purge(p)
  <2>1. PICK i \in pass[p].gone : /\ Write(p, Without(View(p), i))
                                  /\ Set(p, [pass[p] EXCEPT !.gone = @ \ {i}])
    BY <1>1 DEF Purge
  <2>2. PICK s : s = [pass[p] EXCEPT !.gone = @ \ {i}]
    OBVIOUS
  <2>3. i \in Ids /\ pass[p].pc = "purge"
    BY <1>0, <1>1 DEF PassTypes, Purge
  <2>4. OnePerPath(Without(View(p), i)) /\ OldIn(Without(View(p), i), View(p))
    BY <1>0, <2>3, WithoutShrinks
  <2>5. /\ s.pc = pass[p].pc /\ s.kind = pass[p].kind /\ s.live = pass[p].live
        /\ s.snap = pass[p].snap /\ s.upgrade = pass[p].upgrade /\ s.gone = pass[p].gone \ {i}
        /\ s.prepared = pass[p].prepared
    BY <1>0, <2>2 DEF PassTypes
  <2>6. \A j \in Ids \ {i} : \A y : Due(pass[p], j, y) => Due(s, j, y)
    BY <2>3, <2>5 DEF Due, Kept, Live
  <2>7. ~Old(Without(View(p), i), i)
    BY <1>0, <2>3 DEF Old, Without, Tables
  <2>8. UpgradePass(pass[p], Without(View(p), i), missed)
    BY <1>0, <2>4, DueStays
  <2>9. UpgradePass(s, Without(View(p), i), missed)
    BY <2>3, <2>5, <2>6, <2>7, <2>8 DEF UpgradePass, Seen
  <2>10. s.pc = "purge" /\ pass' = [pass EXCEPT ![p] = s]
    BY <2>1, <2>2, <2>3, <2>5 DEF Set
  <2> QED BY <1>0, <2>1, <2>4, <2>9, <2>10, UpgradeWrite
<1>2. CASE Purged(p)
  <2>1. PICK d, todo : /\ d = (Vanished(pass[p]) # {})
                       /\ todo = {y \in Kept(pass[p]) : ~Gated(pass[p], y)
                                               /\ pass[p].prepared[y] # Unreadable}
    OBVIOUS
  <2>2. PICK s : s = [pass[p] EXCEPT !.pc = "apply", !.deleted = d, !.todo = todo]
    OBVIOUS
  <2>3. /\ pass' = [pass EXCEPT ![p] = s] /\ pass[p].pc = "purge" /\ pass[p].gone = {}
        /\ UNCHANGED <<index, lock>>
    BY <1>2, <2>1, <2>2 DEF Purged, Set
  <2>4. /\ s.pc = "apply" /\ s.snap = pass[p].snap /\ s.upgrade = pass[p].upgrade /\ s.todo = todo
    BY <1>0, <2>2 DEF PassTypes
  <2>5. ASSUME NEW i \in Ids, NEW y \in Paths, pass[p].upgrade, Due(pass[p], i, y)
        PROVE  Due(s, i, y)
    BY <2>1, <2>3, <2>4, <2>5 DEF Due, Gated, Rechunked
  <2>6. \A j \in Ids : Old(View(p), j) => View(p)[j].path \in Paths
    BY <1>0 DEF Tables, Rows, Old
  <2>7. s.todo \subseteq Live(s)
    BY <1>0, <2>1, <2>2 DEF Kept, Live, PassTypes
  <2>8. UpgradePass(s, View(p), missed)
    BY <1>0, <2>3, <2>4, <2>5, <2>6, <2>7 DEF UpgradePass, Seen
  <2> QED BY <1>0, <2>3, <2>4, <2>8, UpgradeRest
<1>3. CASE Applied(p)
  <2>1. PICK s : s = [pass[p] EXCEPT !.pc = "stamp"]
    OBVIOUS
  <2>2. /\ pass' = [pass EXCEPT ![p] = s] /\ pass[p].pc = "apply" /\ pass[p].todo = {}
        /\ pass[p].hand = Absent /\ Commit(p)
    BY <1>3, <2>1 DEF Applied, Set
  <2>3. /\ s.pc = "stamp" /\ s.snap = pass[p].snap /\ s.upgrade = pass[p].upgrade
    BY <1>0, <2>1 DEF PassTypes
  <2>4. \A i \in Ids : \A y : ~Due(pass[p], i, y)
    BY <2>2 DEF Due
  <2>5. UpgradePass(s, View(p), missed)
    BY <1>0, <2>3, <2>4 DEF UpgradePass, Seen
  <2>6. /\ TablesOk' /\ View(p)' = View(p) /\ OldIn(index', index)
        /\ \A q \in Procs \ {p} : OldIn(View(q)', View(q))
    BY <2>2, UpgradeFacts, CommitOk DEF TypeOK
  <2> QED BY <1>0, <2>2, <2>5, <2>6, UpgradeStep
<1> QED BY <1>1, <1>2, <1>3


LEMMA ApplyFacts ==
  ASSUME TypeOK, Upgrading, NEW p \in Procs, pass[p].pc = "apply"
  PROVE  /\ pass[p].todo \subseteq Live(pass[p])
         /\ \A i \in Ids : Old(View(p), i) =>
              /\ View(p)[i].path \in Paths
              /\ pass[p].snap[i] # Absent /\ pass[p].snap[i].path = View(p)[i].path
              /\ pass[p].upgrade => \/ View(p)[i].path \in missed \cup pass[p].todo
                                    \/ /\ pass[p].hand # Absent
                                       /\ pass[p].hand.path = View(p)[i].path
<1>1. \A i \in Ids : Old(View(p), i) => View(p)[i].path \in Paths
  BY UpgradeFacts DEF Tables, Rows, Old
<1> QED BY <1>1, UpgradeFacts DEF UpgradePass, Seen, Due

(* What remains of an applying pass when it turns to s. *)
LEMMA ApplyGoesOn ==
  ASSUME TypeOK, Upgrading, NEW p \in Procs, pass[p].pc = "apply", NEW s, s.pc = "apply",
         s.snap = pass[p].snap, s.upgrade = pass[p].upgrade, s.live = pass[p].live,
         s.todo \subseteq pass[p].todo, NEW rows, OldIn(rows, View(p)), NEW unread,
         \A i \in Ids : (Old(rows, i) /\ pass[p].upgrade) =>
            rows[i].path \in unread \cup s.todo \/ (s.hand # Absent /\ s.hand.path = rows[i].path)
  PROVE  UpgradePass(s, rows, unread)
<1>1. OnePerPath(s.snap)
  BY UpgradeFacts DEF UpgradePass
<1>2. s.todo \subseteq Live(s)
  BY ApplyFacts DEF Live
<1>3. Seen(s, rows)
  BY ApplyFacts DEF Seen, OldIn
<1>4. \A i \in Ids : (Old(rows, i) /\ s.upgrade) =>
         rows[i].path \in unread \/ Due(s, i, rows[i].path)
  BY DEF Due
<1> QED BY <1>1, <1>2, <1>3, <1>4 DEF UpgradePass

LEMMA SkipUpgrade ==
  ASSUME TypeOK, Upgrading, NEW p \in Procs, pass[p].pc = "apply", NEW y \in pass[p].todo,
         Skip(p, y), stamped' = stamped
  PROVE  Upgrading'
<1>0. pass[p] \in PassTypes /\ y \in Paths /\ pass[p].live[y] \in Nat /\ missed' = missed
  BY UpgradeFacts DEF PassTypes, Skip
<1>1. PICK i \in Ids : pass[p].prepared[y] = [id |-> i, hash |-> pass[p].snap[i].hash]
  BY DEF Skip, Unchanged, Entry
<1>2. pass[p].prepared[y].id = i
  BY <1>1
<1>3. ~pass[p].upgrade
  BY ApplyFacts DEF Skip, Rechunked
<1>4. PICK s : s = [pass[p] EXCEPT !.todo = @ \ {y}]
  OBVIOUS
<1>5. /\ s.pc = "apply" /\ s.snap = pass[p].snap /\ s.upgrade = pass[p].upgrade
      /\ s.live = pass[p].live /\ s.todo \subseteq pass[p].todo /\ pass' = [pass EXCEPT ![p] = s]
  BY <1>0, <1>4 DEF PassTypes, Skip, Settled, Set
<1>6. CASE UNCHANGED <<index, lock>>
  <2>1. UpgradePass(s, View(p), missed)
    BY <1>3, <1>5, OldInRefl, ApplyGoesOn
  <2> QED BY <1>0, <1>5, <1>6, <2>1, UpgradeRest
<1>7. CASE Write(p, WithMtime(View(p), i, pass[p].live[y]))
  <2>1. /\ OnePerPath(WithMtime(View(p), i, pass[p].live[y]))
        /\ OldIn(WithMtime(View(p), i, pass[p].live[y]), View(p))
    BY <1>0, UpgradeFacts, WithMtimeShrinks
  <2>2. UpgradePass(s, WithMtime(View(p), i, pass[p].live[y]), missed)
    BY <1>3, <1>5, <2>1, ApplyGoesOn
  <2> QED BY <1>0, <1>5, <1>7, <2>1, <2>2, UpgradeWrite
<1> QED BY <1>2, <1>6, <1>7 DEF Skip, RecordMtime

LEMMA SecondReadUpgrade ==
  ASSUME TypeOK, Upgrading, NEW p \in Procs, pass[p].pc = "apply", pass[p].hand = Absent,
         NEW y \in pass[p].todo, SecondRead(p, y), stamped' = stamped
  PROVE  Upgrading'
<1>0. pass[p] \in PassTypes /\ y \in Paths /\ index' = index
  BY UpgradeFacts DEF PassTypes, SecondRead
<1>1. PICK n : n = ReadNow(y)
  OBVIOUS
<1>2. CASE Settled(p, y) /\ UNCHANGED lock /\ missed' = missed \cup {y}
  <2>1. PICK s : s = [pass[p] EXCEPT !.todo = @ \ {y}]
    OBVIOUS
  <2>2. /\ s.pc = "apply" /\ s.snap = pass[p].snap /\ s.upgrade = pass[p].upgrade
        /\ s.live = pass[p].live /\ s.todo = pass[p].todo \ {y}
        /\ s.hand = pass[p].hand /\ pass' = [pass EXCEPT ![p] = s]
    BY <1>0, <1>2, <2>1 DEF PassTypes, Settled, Set
  <2>3. \A i \in Ids : (Old(View(p), i) /\ pass[p].upgrade) =>
           View(p)[i].path \in missed' \cup s.todo
    BY <1>2, <2>2, ApplyFacts
  <2>4. UpgradePass(s, View(p), missed')
    BY <2>2, <2>3, OldInRefl, ApplyGoesOn
  <2> QED BY <1>0, <1>2, <2>2, <2>4, UpgradeRest
<1>3. CASE Raise(p) /\ missed' = missed
  BY <1>0, <1>3, UpgradeRaise
<1>4. CASE /\ n \notin {Unreadable, Undecodable}
           /\ Set(p, [pass[p] EXCEPT !.todo = @ \ {y}, !.owners[n.id] = y,
                                     !.hand = [path |-> y, id |-> n.id, hash |-> n.hash]])
           /\ UNCHANGED <<lock, missed>>
  <2>1. PICK s : s = [pass[p] EXCEPT !.todo = @ \ {y}, !.owners[n.id] = y,
                                     !.hand = [path |-> y, id |-> n.id, hash |-> n.hash]]
    OBVIOUS
  <2>2. /\ s.pc = "apply" /\ s.snap = pass[p].snap /\ s.upgrade = pass[p].upgrade
        /\ s.live = pass[p].live /\ s.todo = pass[p].todo \ {y}
        /\ s.hand = [path |-> y, id |-> n.id, hash |-> n.hash] /\ pass' = [pass EXCEPT ![p] = s]
    BY <1>0, <1>4, <2>1 DEF PassTypes, Set
  <2>3. s.hand # Absent /\ s.hand.path = y
    <3>1. n.id \in Ids /\ n.hash \in Hashes
      BY <1>0, <1>1, <1>4, ReadNowTyped
    <3>2. s.hand \in Handed
      BY <1>0, <2>2, <3>1 DEF Handed
    <3> QED BY <2>2, <3>2, ReconcileAssumption
  <2>4. \A i \in Ids : (Old(View(p), i) /\ pass[p].upgrade) =>
           View(p)[i].path \in missed \cup s.todo \/ s.hand.path = View(p)[i].path
    BY <2>2, <2>3, ApplyFacts
  <2>5. UpgradePass(s, View(p), missed)
    BY <2>2, <2>3, <2>4, OldInRefl, ApplyGoesOn
  <2> QED BY <1>0, <1>4, <2>2, <2>5, UpgradeRest
<1> QED BY <1>1, <1>2, <1>3, <1>4 DEF SecondRead

LEMMA ApplyUpgrade ==
  ASSUME TypeOK, Upgrading, NEW p \in Procs, Apply(p)
  PROVE  Upgrading'
BY SkipUpgrade, SecondReadUpgrade DEF Apply


LEMMA StoreUpgrade ==
  ASSUME TypeOK, Upgrading, NEW p \in Procs, Store(p)
  PROVE  Upgrading'
<1> USE DEF vaultVars, editVars
<1>0. /\ pass[p] \in PassTypes /\ pass[p].hand # Absent /\ pass[p].hand \in Handed
      /\ pass[p].hand.path \in Paths /\ pass[p].hand.id \in Ids /\ pass[p].hand.hash \in Hashes
      /\ UNCHANGED <<stamped, missed>> /\ pass[p].pc = IF Bulk(p) THEN "apply" ELSE "store"
      /\ View(p) \in Tables /\ OnePerPath(View(p)) /\ OnePerPath(pass[p].snap)
  BY UpgradeFacts DEF Store, TypeOK, PassTypes, Handed, UpgradePass
<1>1. MtimeFor(p, pass[p].hand.path) \in Nat
  BY <1>0 DEF MtimeFor, PassTypes
<1>2. PICK m, row : /\ m = MtimeFor(p, pass[p].hand.path)
                    /\ row = [path |-> pass[p].hand.path, hash |-> pass[p].hand.hash,
                              mtime |-> m, current |-> TRUE]
  OBVIOUS
<1>3. row \in Rows /\ row.current /\ row.path = pass[p].hand.path
  BY <1>0, <1>1, <1>2 DEF Rows
<1>4. CASE /\ Bulk(p)
           /\ Unchanged(pass[p], pass[p].hand.path,
                        [id |-> pass[p].hand.id, hash |-> pass[p].hand.hash])
           /\ SameChunks(View(p), pass[p].hand)
           /\ \/ UNCHANGED <<index, lock, calm>>
              \/ Write(p, WithMtime(View(p), pass[p].hand.id, m))
           /\ Set(p, [pass[p] EXCEPT !.hand = Absent])
  <2>1. PICK s : s = [pass[p] EXCEPT !.hand = Absent]
    OBVIOUS
  <2>2. /\ s.pc = "apply" /\ s.snap = pass[p].snap /\ s.upgrade = pass[p].upgrade
        /\ s.live = pass[p].live /\ s.todo = pass[p].todo /\ pass' = [pass EXCEPT ![p] = s]
        /\ pass[p].pc = "apply"
    BY <1>0, <1>4, <2>1 DEF PassTypes, Set
  <2>3. /\ pass[p].snap[pass[p].hand.id] # Absent
        /\ pass[p].snap[pass[p].hand.id].path = pass[p].hand.path
    BY <1>4 DEF Unchanged, Entry
  <2>4. ASSUME NEW i \in Ids, Old(View(p), i)
        PROVE  View(p)[i].path # pass[p].hand.path
    BY <1>0, <1>4, <2>2, <2>3, <2>4, ApplyFacts DEF OnePerPath, SameChunks, Old
  <2>5. \A i \in Ids : (Old(View(p), i) /\ pass[p].upgrade) =>
           View(p)[i].path \in missed \cup s.todo
    BY <2>2, <2>4, ApplyFacts
  <2>6. CASE UNCHANGED <<index, lock>>
    <3>1. UpgradePass(s, View(p), missed)
      BY <2>2, <2>5, OldInRefl, ApplyGoesOn
    <3> QED BY <1>0, <2>2, <2>6, <3>1, UpgradeRest
  <2>7. CASE Write(p, WithMtime(View(p), pass[p].hand.id, m))
    <3>1. PICK rows : rows = WithMtime(View(p), pass[p].hand.id, m)
      OBVIOUS
    <3>2. OnePerPath(rows) /\ OldIn(rows, View(p))
      BY <1>0, <1>1, <1>2, <3>1, WithMtimeShrinks
    <3>3. UpgradePass(s, rows, missed)
      BY <2>2, <2>5, <3>2, ApplyGoesOn DEF OldIn
    <3> QED BY <1>0, <2>2, <2>7, <3>1, <3>2, <3>3, UpgradeWrite
  <2> QED BY <1>4, <2>6, <2>7
<1>5. CASE Raise(p) /\ UNCHANGED <<index, calm>>
  BY <1>0, <1>5, UpgradeRaise
<1>6. CASE /\ Write(p, Upsert(View(p), pass[p].hand.id, row))
           /\ Set(p, [pass[p] EXCEPT !.hand = Absent, !.reindexed = TRUE,
                                     !.pc = IF Bulk(p) THEN "apply" ELSE "get"])
  <2>1. PICK s : s = [pass[p] EXCEPT !.hand = Absent, !.reindexed = TRUE,
                                     !.pc = IF Bulk(p) THEN "apply" ELSE "get"]
    OBVIOUS
  <2>2. /\ s.pc = (IF Bulk(p) THEN "apply" ELSE "get")
        /\ s.snap = pass[p].snap /\ s.upgrade = pass[p].upgrade
        /\ s.live = pass[p].live /\ s.todo = pass[p].todo /\ pass' = [pass EXCEPT ![p] = s]
    BY <1>0, <1>6, <2>1 DEF PassTypes, Set
  <2>3. PICK rows : rows = Upsert(View(p), pass[p].hand.id, row)
    OBVIOUS
  <2>4. /\ OnePerPath(rows) /\ OldIn(rows, View(p))
        /\ \A i \in Ids : Old(rows, i) => View(p)[i].path # pass[p].hand.path
    BY <1>0, <1>3, <2>3, UpsertShrinks
  <2>5. UpgradePass(s, rows, missed)
    <3>1. CASE Bulk(p)
      <4>1. pass[p].pc = "apply" /\ s.pc = "apply"
        BY <1>0, <2>2, <3>1
      <4>2. \A i \in Ids : (Old(rows, i) /\ pass[p].upgrade) =>
               rows[i].path \in missed \cup s.todo
        BY <2>2, <2>4, <4>1, ApplyFacts DEF OldIn
      <4> QED BY <2>2, <2>4, <4>1, <4>2, ApplyGoesOn
    <3>2. CASE ~Bulk(p)
      BY <1>0, <2>2, <3>2 DEF UpgradePass, Seen, Due
    <3> QED BY <3>1, <3>2
  <2>6. Bulk(p) => s.pc \in {"purge", "apply"}
    BY <2>2
  <2> QED BY <1>0, <1>6, <2>2, <2>3, <2>4, <2>5, <2>6, UpgradeWrite
<1> QED BY <1>2, <1>4, <1>5, <1>6 DEF Store, RecordMtime

LEMMA EndingUpgrade ==
  ASSUME TypeOK, Upgrading, NEW p \in Procs,
         Stamp(p) \/ GetGeneration(p) \/ SetGeneration(p) \/ Drop(p)
           \/ \E y \in Paths : Target(p, y)
  PROVE  Upgrading'
<1> USE DEF vaultVars, editVars, Reads
<1>0. /\ pass[p] \in PassTypes /\ TablesOk /\ UpgradePass(pass[p], View(p), missed)
      /\ View(p) \in Tables /\ OnePerPath(View(p)) /\ missed' = missed
      /\ pass[p].pc \notin {"purge", "apply"} => lock.owner # p
  BY UpgradeFacts DEF Stamp, GetGeneration, SetGeneration, Drop, Target
<1>1. CASE Stamp(p)
  <2>1. pass[p].pc = "stamp" /\ UNCHANGED <<index, lock>> /\ lock.owner # p
    BY <1>0, <1>1 DEF Stamp
  <2>2. \A i \in Ids : (Old(index, i) /\ (pass[p].upgrade \/ stamped)) => index[i].path \in missed
    <3>1. View(p) = index
      BY <2>1 DEF View
    <3>2. \A i \in Ids : \A y : ~Due(pass[p], i, y)
      BY <2>1 DEF Due
    <3> QED BY <1>0, <3>1, <3>2 DEF UpgradePass, Upgrading
  <2>3. stamped' => (pass[p].upgrade \/ stamped)
    BY <1>1 DEF Stamp
  <2>4. PICK s : pass' = [pass EXCEPT ![p] = s] /\ s \in {Idle, [pass[p] EXCEPT !.pc = "get"]}
    BY <1>1 DEF Stamp, Finish, Set
  <2>5. s.pc \in {"idle", "get"} /\ OnePerPath(s.snap)
    BY <1>0, <2>4, IdleSnap DEF UpgradePass, PassTypes
  <2>6. UpgradePass(s, View(p), missed)
    BY <2>5 DEF UpgradePass, Seen, Due
  <2>7. /\ TablesOk' /\ \A q \in Procs : View(q)' = View(q)
    <3>1. lock.owner # NoProc => pass'[lock.owner] = pass[lock.owner]
      BY <2>1, <2>4 DEF TypeOK
    <3> QED BY <1>0, <2>1, <3>1 DEF TablesOk, View
  <2>8. ASSUME NEW q \in Procs
        PROVE  UpgradePass(pass'[q], View(q)', missed')
    BY <1>0, <2>4, <2>6, <2>7 DEF TypeOK, Upgrading
  <2> QED BY <1>0, <2>1, <2>2, <2>3, <2>7, <2>8 DEF Upgrading
<1>2. CASE SetGeneration(p)
  <2>1. /\ UNCHANGED <<index, lock, stamped>> /\ pass[p].pc = "set"
        /\ pass' = [pass EXCEPT ![p] = Idle]
    BY <1>2 DEF SetGeneration, Finish
  <2> QED BY <1>0, <2>1, IdleUpgrade, UpgradeRest
<1>3. CASE GetGeneration(p)
  <2>1. PICK s : s = [pass[p] EXCEPT !.pc = "set", !.next = gen + 1]
    OBVIOUS
  <2>2. s.pc = "set" /\ OnePerPath(s.snap)
    BY <1>0, <2>1 DEF UpgradePass, PassTypes
  <2>3. UpgradePass(s, View(p), missed)
    BY <2>2 DEF UpgradePass, Seen, Due
  <2>4. /\ UNCHANGED <<index, lock, stamped>> /\ pass[p].pc = "get"
        /\ pass' = [pass EXCEPT ![p] = s]
    BY <1>3, <2>1 DEF GetGeneration, Set
  <2> QED BY <1>0, <2>3, <2>4, UpgradeRest
<1>4. CASE Drop(p)
  <2>1. PICK s : s = [pass[p] EXCEPT !.pc = "store"]
    OBVIOUS
  <2>2. /\ pass[p].pc = "drop" /\ pass[p].kind = "note" /\ ~Bulk(p)
        /\ pass' = [pass EXCEPT ![p] = s] /\ UNCHANGED stamped
    BY <1>0, <1>4, <2>1 DEF Drop, Set, UpgradePass, Bulk
  <2>3. s.pc = "store" /\ s.kind = "note" /\ OnePerPath(s.snap)
    BY <1>0, <2>1, <2>2 DEF UpgradePass, PassTypes
  <2>4. \A rows : UpgradePass(s, rows, missed)
    BY <2>3 DEF UpgradePass, Seen, Due
  <2>5. CASE UNCHANGED <<index, lock>>
    BY <1>0, <2>2, <2>4, <2>5, UpgradeRest
  <2>6. ASSUME NEW i \in Ids, Write(p, Without(View(p), i))
        PROVE  Upgrading'
    BY <1>0, <2>2, <2>4, <2>6, WithoutShrinks, UpgradeWrite
  <2> QED BY <1>4, <2>5, <2>6 DEF Drop
<1>5. ASSUME NEW y \in Paths, Target(p, y)
      PROVE  Upgrading'
  <2>1. PICK s : s = [pass[p] EXCEPT !.kind = "note", !.pc = "drop",
                        !.hand = [path |-> y, id |-> disk[y].id, hash |-> disk[y].hash]]
    OBVIOUS
  <2>2. s.pc = "drop" /\ s.kind = "note" /\ OnePerPath(s.snap)
    BY <1>0, <2>1 DEF UpgradePass, PassTypes
  <2>3. UpgradePass(s, View(p), missed)
    BY <2>2 DEF UpgradePass, Seen, Due
  <2>4. /\ UNCHANGED <<index, lock, stamped>> /\ pass[p].pc = "idle"
        /\ pass' = [pass EXCEPT ![p] = s]
    BY <1>5, <2>1 DEF Target, Set
  <2> QED BY <1>0, <2>3, <2>4, UpgradeRest
<1> QED BY <1>1, <1>2, <1>3, <1>4, <1>5


LEMMA FaultUpgrade ==
  ASSUME TypeOK, Upgrading, NEW p \in Procs, StoreFails(p) \/ Cancel(p) \/ Crash(p)
  PROVE  Upgrading'
<1>1. UNCHANGED <<index, stamped, missed>> /\ Rollback(p)
  BY DEF StoreFails, Cancel, Crash, Raise, vaultVars
<1>2. CASE pass' = [pass EXCEPT ![p] = Idle]
  BY <1>1, <1>2, IdleSnap, UpgradeStop
<1>3. CASE Raise(p)
  BY <1>1, <1>3, UpgradeRaise
<1> QED BY <1>2, <1>3 DEF StoreFails, Cancel, Crash

LEMMA OtherUpgrade ==
  ASSUME Upgrading, UNCHANGED <<index, lock, pass, missed, stamped>>
  PROVE  Upgrading'
BY DEF Upgrading, TablesOk, View

LEMMA InitOnePerPath ==
  ASSUME Init
  PROVE  OnePerPath(index)
<1>1. PICK f \in [Paths -> Ids \cup {Absent}] :
        index = [i \in Ids |->
          IF \E x \in Paths : f[x] = i
            THEN LET x == CHOOSE y \in Paths : f[y] = i
                 IN  [path |-> x, hash |-> disk[x].hash, mtime |-> Tick[x],
                      current |-> ~env.old]
            ELSE Absent]
  BY DEF Init
<1>2. ASSUME NEW i \in Ids, index[i] # Absent
      PROVE  index[i].path \in Paths /\ f[index[i].path] = i
  <2>1. PICK x : x = CHOOSE y \in Paths : f[y] = i
    OBVIOUS
  <2>2. x \in Paths /\ f[x] = i
    BY <1>1, <1>2, <2>1
  <2>3. index[i].path = x
    BY <1>1, <1>2, <2>1
  <2> QED BY <2>2, <2>3
<1> QED BY <1>2 DEF OnePerPath

LEMMA InitUpgrade ==
  ASSUME Init
  PROVE  Upgrading
<1>1. lock.owner = NoProc /\ \A p \in Procs : pass[p] = Idle
  BY DEF Init, FreeLock
<1>2. TablesOk
  BY <1>1, InitOnePerPath DEF TablesOk
<1>3. \A p \in Procs : UpgradePass(pass[p], View(p), missed)
  BY <1>1, IdleUpgrade
<1>4. ASSUME stamped, NEW i \in Ids, Old(index, i)
      PROVE  FALSE
  <2>1. PICK f \in [Paths -> Ids \cup {Absent}] : index = [j \in Ids |->
          IF \E x \in Paths : f[x] = j
            THEN LET x == CHOOSE y \in Paths : f[y] = j
                 IN  [path |-> x, hash |-> disk[x].hash, mtime |-> Tick[x],
                      current |-> ~env.old]
            ELSE Absent]
    BY DEF Init
  <2>2. PICK x : x = CHOOSE y \in Paths : f[y] = i
    OBVIOUS
  <2>3. index[i] = [path |-> x, hash |-> disk[x].hash, mtime |-> Tick[x], current |-> ~env.old]
    BY <1>4, <2>1, <2>2 DEF Old
  <2>4. index[i].current = ~env.old
    BY <2>3
  <2> QED BY <1>4, <2>4 DEF Old, Init
<1> QED BY <1>2, <1>3, <1>4 DEF Upgrading

LEMMA UpgradeNext ==
  ASSUME TypeOK, Upgrading, [Next]_vars
  PROVE  Upgrading'
<1>1. env.procs \subseteq Procs
  BY ReconcileAssumption DEF TypeOK, SettingType
<1>2. CASE Edit
  BY <1>2, OtherUpgrade DEF Edit, Save, Delete, Restore, SaveSameTick, Move, Touch
<1>3. ASSUME NEW p \in env.procs,
             Step(p) \/ (\E y \in Paths : Target(p, y)) \/ StoreFails(p) \/ Cancel(p) \/ Crash(p)
      PROVE  Upgrading'
  BY <1>1, <1>3, ScanUpgrade, PrepareUpgrade, PurgeUpgrade, ApplyUpgrade, StoreUpgrade,
     EndingUpgrade, FaultUpgrade DEF Step
<1>4. ASSUME NEW p \in env.procs,
             (\E i \in Ids : Hit(p, i)) \/ AskGeneration(p) \/ AskRows(p)
      PROVE  Upgrading'
  BY <1>4, OtherUpgrade DEF Hit, AskGeneration, AskRows, vaultVars
<1>5. CASE UNCHANGED vars
  BY <1>5, OtherUpgrade DEF vars
<1> QED BY <1>2, <1>3, <1>4, <1>5 DEF Next

LEMMA UpgradingHolds == Spec => [](TypeOK /\ Upgrading)
BY UpgradeNext, InitUpgrade, PassTypesHold, PTL DEF Spec

(* When the new chunker version is recorded, every row that was not missed *)
(* was made by it: with any processes and batches, whatever is edited or   *)
(* fails in between, and for good.                                         *)
THEOREM UpgradeIsComplete == Spec => []UpgradeReachesEveryNote
<1>1. Upgrading => UpgradeReachesEveryNote
  BY DEF Upgrading, UpgradeReachesEveryNote, Old
<1> QED BY <1>1, UpgradingHolds, PTL

(***************************************************************************)
(* What each step of a pass does to the pass, its view and the index, for  *)
(* every invariant below.                                                  *)
(***************************************************************************)

LEMMA ReadNowFacts ==
  ASSUME TypeOK, NEW x \in Paths, ReadNow(x) \in Identities
  PROVE  /\ disk[x] \in Notes /\ disk[x] # Absent
         /\ ReadNow(x).id = disk[x].id /\ ReadNow(x).hash = disk[x].hash
         /\ ReadNow(x).id \in Ids /\ ReadNow(x).hash \in Hashes
         /\ ReadNow(x).hash # Undecodable
<1>1. ReadNow(x) \notin {Unreadable, Undecodable}
  BY ReconcileAssumption
<1>2. disk[x] # Absent /\ disk[x].hash # Undecodable
  BY <1>1 DEF ReadNow
<1> QED BY <1>1, <1>2, ReadNowTyped

(***************************************************************************)
(* What each action does to the pass it belongs to.                        *)
(***************************************************************************)

SameScan(s, t) ==
  /\ t.kind = s.kind /\ t.marks = s.marks /\ t.upgrade = s.upgrade
  /\ t.snap = s.snap /\ t.live = s.live

SamePlan(s, t) == SameScan(s, t) /\ t.prepared = s.prepared

SameFlags(s, t) ==
  t.deleted = s.deleted /\ t.reindexed = s.reindexed /\ t.failed = s.failed

(* The pass ends, or goes on to move the generation for what it published. *)
Stopped(s, t) ==
  \/ t = Idle /\ (s.kind = "note" \/ ~(s.deleted \/ s.reindexed))
  \/ /\ t.pc = "get" /\ t.failed /\ t.hand = Absent /\ SamePlan(s, t) /\ t.owners = s.owners
     /\ s.kind # "note" /\ (s.deleted \/ s.reindexed)

LEMMA SameScanKeeps ==
  ASSUME NEW s, NEW t, SameScan(s, t)
  PROVE  /\ Live(t) = Live(s) /\ Rechunked(t) = Rechunked(s)
         /\ \A x : Entry(t, x) = Entry(s, x) /\ (Gated(t, x) <=> Gated(s, x))
         /\ \A x, n : Unchanged(t, x, n) <=> Unchanged(s, x, n)
<1>1. Live(t) = Live(s) /\ \A x : Entry(t, x) = Entry(s, x)
  BY DEF SameScan, Live, Entry
<1>2. Rechunked(t) = Rechunked(s)
  BY <1>1 DEF SameScan, Rechunked
<1> QED BY <1>1, <1>2 DEF SameScan, Gated, Unchanged

LEMMA SamePlanKeeps ==
  ASSUME NEW s, NEW t, SamePlan(s, t)
  PROVE  Kept(t) = Kept(s) /\ Vanished(t) = Vanished(s)
<1>1. Live(t) = Live(s) /\ t.prepared = s.prepared /\ t.snap = s.snap
  BY SameScanKeeps DEF SamePlan, SameScan
<1>2. Kept(t) = Kept(s)
  BY <1>1 DEF Kept
<1> QED BY <1>1, <1>2 DEF Vanished

LEMMA SettleEffect ==
  ASSUME TypeOK, NEW p \in Procs, NEW x, Settled(p, x)
  PROVE  /\ SamePlan(pass[p], pass'[p]) /\ SameFlags(pass[p], pass'[p])
         /\ pass'[p].pc = pass[p].pc /\ pass'[p].todo = pass[p].todo \ {x}
         /\ pass'[p].owners = pass[p].owners /\ pass'[p].hand = pass[p].hand
BY DEF TypeOK, PassTypes, Settled, Set, SamePlan, SameScan, SameFlags

LEMMA RaiseEffect ==
  ASSUME TypeOK, NEW p \in Procs, Raise(p)
  PROVE  Stopped(pass[p], pass'[p])
<1>1. CASE Bulk(p) /\ (pass[p].deleted \/ pass[p].reindexed)
  <2>1. PICK s : s = [pass[p] EXCEPT !.pc = "get", !.failed = TRUE, !.hand = Absent]
    OBVIOUS
  <2>2. pass'[p] = s
    BY <1>1, <2>1 DEF TypeOK, Raise, Set
  <2>3. /\ s.pc = "get" /\ s.failed /\ s.hand = Absent /\ SamePlan(pass[p], s)
        /\ s.owners = pass[p].owners
    BY <2>1 DEF TypeOK, PassTypes, SamePlan, SameScan
  <2> QED BY <1>1, <2>2, <2>3 DEF Stopped, Bulk
<1>2. CASE ~(Bulk(p) /\ (pass[p].deleted \/ pass[p].reindexed))
  BY <1>2 DEF TypeOK, Raise, Bulk, Stopped
<1> QED BY <1>1, <1>2

LEMMA StartEffect ==
  ASSUME TypeOK, NEW p \in Procs, Start(p)
  PROVE  /\ pass[p].pc = "idle" /\ pass'[p].kind \in {"sweep", "write", "full"}
         /\ UNCHANGED <<index, lock, missed, gen, stale>>
         /\ pass'[p].pc = (IF pass'[p].kind = "sweep" THEN "walk" ELSE "snapshot")
         /\ pass'[p].todo = Paths
         /\ pass'[p].marks = (IF pass'[p].kind = "sweep" THEN stale[p] ELSE {})
         /\ SameFlags(pass[p], pass'[p]) /\ pass'[p].prepared = pass[p].prepared
         /\ pass'[p].snap = pass[p].snap /\ pass'[p].live = pass[p].live
         /\ pass'[p].owners = pass[p].owners /\ pass'[p].hand = pass[p].hand
<1>1. PICK kind \in env.kinds \ {"note"} :
        Set(p, [pass[p] EXCEPT !.kind = kind, !.pc = IF kind = "sweep" THEN "walk" ELSE "snapshot",
                               !.todo = Paths, !.marks = IF kind = "sweep" THEN stale[p] ELSE {}])
  BY DEF Start
<1>2. kind \in {"sweep", "write", "full"}
  BY <1>1, ReconcileAssumption DEF TypeOK, SettingType, PassKinds
<1>3. PICK c, marks : /\ c = (IF kind = "sweep" THEN "walk" ELSE "snapshot")
                      /\ marks = (IF kind = "sweep" THEN stale[p] ELSE {})
  OBVIOUS
<1>4. PICK s : s = [pass[p] EXCEPT !.kind = kind, !.pc = c, !.todo = Paths, !.marks = marks]
  OBVIOUS
<1>5. pass'[p] = s /\ pass[p].pc = "idle" /\ UNCHANGED <<index, lock, missed, gen, stale>>
  BY <1>1, <1>3, <1>4 DEF Start, Set, TypeOK, vaultVars
<1>6. /\ s.kind = kind /\ s.pc = c /\ s.todo = Paths /\ s.marks = marks
      /\ SameFlags(pass[p], s) /\ s.prepared = pass[p].prepared
      /\ s.snap = pass[p].snap /\ s.live = pass[p].live
      /\ s.owners = pass[p].owners /\ s.hand = pass[p].hand
  BY <1>4 DEF TypeOK, PassTypes, SameFlags
<1> QED BY <1>2, <1>3, <1>5, <1>6

LEMMA WalkEffect ==
  ASSUME TypeOK, NEW p \in Procs, Walk(p)
  PROVE  \E y \in pass[p].todo :
           /\ UNCHANGED <<index, lock, missed, gen, stale>>
           /\ pass[p].pc = "walk" /\ pass'[p].kind = pass[p].kind /\ pass'[p].marks = pass[p].marks
           /\ pass'[p].snap = pass[p].snap /\ pass'[p].prepared = pass[p].prepared
           /\ pass'[p].owners = pass[p].owners /\ pass'[p].hand = pass[p].hand
           /\ SameFlags(pass[p], pass'[p])
           /\ \A x \in Paths : pass'[p].live[x] =
                IF x # y THEN pass[p].live[x] ELSE IF disk[y] = Absent THEN 0 ELSE disk[y].mtime
           /\ IF pass[p].todo \ {y} # {}
                THEN pass'[p].pc = "walk" /\ pass'[p].todo = pass[p].todo \ {y}
                ELSE /\ pass'[p].todo = Paths
                     /\ pass'[p].pc = IF pass[p].kind = "sweep" THEN "snapshot" ELSE "prepare"
<1>1. PICK y \in pass[p].todo :
        LET rest == pass[p].todo \ {y}
        IN  Set(p, [pass[p] EXCEPT
                      !.live[y] = IF disk[y] = Absent THEN 0 ELSE disk[y].mtime,
                      !.todo = IF rest = {} THEN Paths ELSE rest, !.upgrade = ~stamped,
                      !.pc = IF rest # {} THEN "walk"
                             ELSE IF pass[p].kind = "sweep" THEN "snapshot" ELSE "prepare"])
  BY DEF Walk
<1>2. PICK m, todo, u, c :
        /\ m = (IF disk[y] = Absent THEN 0 ELSE disk[y].mtime)
        /\ todo = (IF pass[p].todo \ {y} = {} THEN Paths ELSE pass[p].todo \ {y})
        /\ u = ~stamped
        /\ c = (IF pass[p].todo \ {y} # {} THEN "walk"
                ELSE IF pass[p].kind = "sweep" THEN "snapshot" ELSE "prepare")
  OBVIOUS
<1>3. PICK s : s = [pass[p] EXCEPT !.live[y] = m, !.todo = todo, !.upgrade = u, !.pc = c]
  OBVIOUS
<1>4. pass'[p] = s
  BY <1>1, <1>2, <1>3 DEF Set, TypeOK
<1>5. /\ s.kind = pass[p].kind /\ s.marks = pass[p].marks /\ s.snap = pass[p].snap
      /\ s.prepared = pass[p].prepared /\ s.owners = pass[p].owners /\ s.hand = pass[p].hand
      /\ SameFlags(pass[p], s) /\ s.pc = c /\ s.todo = todo
      /\ s.live = [pass[p].live EXCEPT ![y] = m]
  BY <1>3 DEF TypeOK, PassTypes, SameFlags
<1>6. \A x \in Paths : s.live[x] = IF x # y THEN pass[p].live[x] ELSE m
  BY <1>5 DEF TypeOK, PassTypes
<1>7. pass[p].pc = "walk" /\ UNCHANGED <<index, lock, missed, gen, stale>>
  BY DEF Walk, Reads, vaultVars
<1> QED BY <1>2, <1>4, <1>5, <1>6, <1>7

LEMMA SnapshotEffect ==
  ASSUME TypeOK, NEW p \in Procs, Snapshot(p)
  PROVE  /\ UNCHANGED <<index, lock, missed, gen, stale>>
         /\ pass[p].pc = "snapshot" /\ pass'[p].kind = pass[p].kind
         /\ pass'[p].pc = (IF pass[p].kind = "sweep" THEN "prepare" ELSE "walk")
         /\ pass'[p].snap = View(p) /\ pass'[p].live = pass[p].live
         /\ pass'[p].prepared = pass[p].prepared /\ pass'[p].owners = pass[p].owners
         /\ pass'[p].marks = pass[p].marks /\ pass'[p].hand = pass[p].hand
         /\ pass'[p].todo = pass[p].todo /\ SameFlags(pass[p], pass'[p])
<1>1. PICK u : u = ~stamped
  OBVIOUS
<1>2. PICK s : s = [pass[p] EXCEPT !.snap = View(p), !.upgrade = u,
                      !.pc = IF pass[p].kind = "sweep" THEN "prepare" ELSE "walk"]
  OBVIOUS
<1>3. pass'[p] = s /\ pass[p].pc = "snapshot" /\ UNCHANGED <<index, lock, missed, gen, stale>>
  BY <1>1, <1>2 DEF Snapshot, Set, TypeOK, Reads, vaultVars
<1> QED BY <1>2, <1>3 DEF TypeOK, PassTypes, SameFlags

(* One note of the pre-pass, and what was found of it. *)
Found(p, y, outcome) ==
  \/ outcome = Absent /\ Gated(pass[p], y)
  \/ outcome = ReadNow(y) /\ ~Gated(pass[p], y)
  \/ outcome = Unreadable /\ ~Gated(pass[p], y) /\ calm' = [calm EXCEPT ![p] = FALSE]

Claimed(p, y, outcome) ==
  /\ UNCHANGED lock /\ SameScan(pass[p], pass'[p]) /\ SameFlags(pass[p], pass'[p])
  /\ pass'[p].pc = "prepare" /\ pass'[p].hand = pass[p].hand
  /\ pass'[p].todo = pass[p].todo \ {y}
  /\ \A x \in Paths : pass'[p].prepared[x] = IF x = y THEN outcome ELSE pass[p].prepared[x]
  /\ \A j \in Ids : pass'[p].owners[j] # pass[p].owners[j] =>
       pass[p].owners[j] = Absent /\ pass'[p].owners[j] = y
  /\ outcome \in Identities => pass'[p].owners[outcome.id] = y
  /\ missed' = IF outcome = Unreadable THEN missed \cup {y} ELSE missed

LEMMA PrepareEffect ==
  ASSUME TypeOK, NEW p \in Procs, Prepare(p)
  PROVE  /\ pass[p].pc = "prepare" /\ UNCHANGED index
         /\ \E y \in Paths, outcome \in Identities \cup {Absent, Unreadable, Undecodable} :
              /\ y \in pass[p].todo /\ y \in Live(pass[p]) /\ Found(p, y, outcome)
              /\ (Raise(p) /\ missed' = missed) \/ Claimed(p, y, outcome)
<1>1. PICK y, outcome, i :
        /\ y \in pass[p].todo \cap Live(pass[p]) /\ Claims(p, y, outcome, i)
        /\ \/ outcome = Absent /\ Gated(pass[p], y) /\ i = CHOOSE j \in Entry(pass[p], y) : TRUE
           \/ /\ outcome = ReadNow(y) /\ ~Gated(pass[p], y)
              /\ i = IF outcome \in {Unreadable, Undecodable} THEN Absent ELSE outcome.id
           \/ /\ outcome = Unreadable /\ i = Absent /\ ~Gated(pass[p], y)
              /\ calm' = [calm EXCEPT ![p] = FALSE]
  BY DEF Prepare
<1>2. pass[p] \in PassTypes /\ pass[p].pc = "prepare" /\ UNCHANGED index /\ y \in Paths
  BY <1>1 DEF Prepare, TypeOK, Live
<1>3. outcome \in Identities \cup {Absent, Unreadable, Undecodable}
  BY <1>1, <1>2, ReadNowTyped
<1>9. Found(p, y, outcome)
  BY <1>1 DEF Found
<1>4. CASE i # Absent /\ pass[p].owners[i] # Absent
  <2>1. Raise(p) /\ missed' = missed
    BY <1>1, <1>4 DEF Claims
  <2> QED BY <1>1, <1>2, <1>3, <1>9, <2>1
<1>5. CASE ~(i # Absent /\ pass[p].owners[i] # Absent)
  <2>1. PICK owners : owners = IF i = Absent THEN pass[p].owners
                                            ELSE [pass[p].owners EXCEPT ![i] = y]
    OBVIOUS
  <2>2. PICK s : s = [pass[p] EXCEPT !.prepared[y] = outcome, !.todo = @ \ {y},
                                     !.owners = owners]
    OBVIOUS
  <2>3. /\ pass'[p] = s /\ UNCHANGED lock
        /\ missed' = IF outcome = Unreadable THEN missed \cup {y} ELSE missed
    BY <1>1, <1>5, <2>1, <2>2 DEF Claims, Set, TypeOK
  <2>4. /\ s.pc = pass[p].pc /\ SameScan(pass[p], s) /\ SameFlags(pass[p], s)
        /\ s.hand = pass[p].hand /\ s.todo = pass[p].todo \ {y} /\ s.owners = owners
        /\ s.prepared = [pass[p].prepared EXCEPT ![y] = outcome]
    BY <1>2, <2>2 DEF PassTypes, SameScan, SameFlags
  <2>5. \A x \in Paths : s.prepared[x] = IF x = y THEN outcome ELSE pass[p].prepared[x]
    BY <1>2, <2>4 DEF PassTypes
  <2>6. \A j \in Ids : s.owners[j] # pass[p].owners[j] =>
           pass[p].owners[j] = Absent /\ s.owners[j] = y
    BY <1>2, <1>5, <2>1, <2>4 DEF PassTypes
  <2>7. outcome \in Identities => s.owners[outcome.id] = y
    <3>1. outcome \in Identities => outcome.id \in Ids /\ outcome.id # Absent /\ i = outcome.id
      BY <1>1, ReconcileAssumption DEF Identities
    <3> QED BY <1>2, <2>1, <2>4, <3>1 DEF PassTypes
  <2>8. Claimed(p, y, outcome)
    BY <1>2, <2>3, <2>4, <2>5, <2>6, <2>7 DEF Claimed
  <2> QED BY <1>1, <1>2, <1>3, <1>9, <2>8
<1> QED BY <1>4, <1>5

LEMMA PurgeEffect ==
  ASSUME TypeOK, NEW p \in Procs, Purge(p)
  PROVE  \E i \in pass[p].gone :
           /\ pass[p].pc = "purge" /\ Write(p, Without(View(p), i)) /\ i \in Ids
           /\ SamePlan(pass[p], pass'[p]) /\ SameFlags(pass[p], pass'[p])
           /\ pass'[p].pc = "purge" /\ pass'[p].gone = pass[p].gone \ {i}
           /\ pass'[p].owners = pass[p].owners /\ pass'[p].hand = pass[p].hand
BY DEF Purge, TypeOK, PassTypes, Set, SamePlan, SameScan, SameFlags

(* The three steps between the phases of a pass. *)
LEMMA PreparedEffect ==
  ASSUME TypeOK, NEW p \in Procs, Prepared(p)
  PROVE  /\ pass[p].pc = "prepare" /\ pass[p].todo \cap Live(pass[p]) = {}
         /\ UNCHANGED <<index, lock, missed>>
         /\ SamePlan(pass[p], pass'[p]) /\ SameFlags(pass[p], pass'[p])
         /\ pass'[p].pc = "purge" /\ pass'[p].gone = Vanished(pass[p])
         /\ pass'[p].owners = pass[p].owners /\ pass'[p].hand = pass[p].hand
BY DEF Prepared, Reads, vaultVars, TypeOK, PassTypes, Set, SamePlan, SameScan, SameFlags

LEMMA PurgedEffect ==
  ASSUME TypeOK, NEW p \in Procs, Purged(p)
  PROVE  /\ pass[p].pc = "purge" /\ pass[p].gone = {} /\ UNCHANGED <<index, lock, missed>>
         /\ SamePlan(pass[p], pass'[p]) /\ pass'[p].pc = "apply"
         /\ pass'[p].reindexed = pass[p].reindexed /\ pass'[p].failed = pass[p].failed
         /\ pass'[p].deleted <=> (Vanished(pass[p]) # {})
         /\ pass'[p].todo = {x \in Kept(pass[p]) : ~Gated(pass[p], x)
                                                  /\ pass[p].prepared[x] # Unreadable}
         /\ pass'[p].owners = pass[p].owners /\ pass'[p].hand = pass[p].hand
<1>1. PICK d, todo : /\ d = (Vanished(pass[p]) # {})
                     /\ todo = {x \in Kept(pass[p]) : ~Gated(pass[p], x)
                                               /\ pass[p].prepared[x] # Unreadable}
  OBVIOUS
<1>2. PICK s : s = [pass[p] EXCEPT !.pc = "apply", !.deleted = d, !.todo = todo]
  OBVIOUS
<1>3. /\ pass'[p] = s /\ pass[p].pc = "purge" /\ pass[p].gone = {}
      /\ UNCHANGED <<index, lock, missed>>
  BY <1>1, <1>2 DEF Purged, Set, Reads, TypeOK, vaultVars
<1>4. /\ SamePlan(pass[p], s) /\ s.pc = "apply" /\ s.reindexed = pass[p].reindexed
      /\ s.failed = pass[p].failed /\ s.deleted = d /\ s.todo = todo
      /\ s.owners = pass[p].owners /\ s.hand = pass[p].hand
  BY <1>2 DEF TypeOK, PassTypes, SamePlan, SameScan
<1> QED BY <1>1, <1>3, <1>4

LEMMA AppliedEffect ==
  ASSUME TypeOK, NEW p \in Procs, Applied(p)
  PROVE  /\ pass[p].pc = "apply" /\ pass[p].todo = {} /\ pass[p].hand = Absent /\ Commit(p)
         /\ SamePlan(pass[p], pass'[p]) /\ SameFlags(pass[p], pass'[p])
         /\ pass'[p].pc = "stamp" /\ pass'[p].owners = pass[p].owners /\ pass'[p].hand = Absent
BY DEF Applied, TypeOK, PassTypes, Set, SamePlan, SameScan, SameFlags

(* A note read for the second time is taken in hand. *)
InHand(p, y) ==
  /\ UNCHANGED <<lock, missed, calm>> /\ ReadNow(y) \in Identities
  /\ \/ ReadNow(y).id = pass[p].prepared[y].id
     \/ pass[p].owners[ReadNow(y).id] \in {Absent, y}
  /\ SamePlan(pass[p], pass'[p]) /\ SameFlags(pass[p], pass'[p])
  /\ pass'[p].pc = pass[p].pc /\ pass'[p].todo = pass[p].todo \ {y}
  /\ \A j \in Ids : pass'[p].owners[j] = IF j = ReadNow(y).id THEN y ELSE pass[p].owners[j]
  /\ pass'[p].hand # Absent /\ pass'[p].hand.path = y
  /\ pass'[p].hand.id = ReadNow(y).id /\ pass'[p].hand.hash = ReadNow(y).hash

LEMMA SecondReadEffect ==
  ASSUME TypeOK, NEW p \in Procs, NEW y \in Paths, SecondRead(p, y)
  PROVE  /\ UNCHANGED index
         /\ \/ Settled(p, y) /\ UNCHANGED lock /\ missed' = missed \cup {y}
                 /\ (ReadNow(y) \in {Unreadable, Undecodable} \/ calm' = [calm EXCEPT ![p] = FALSE])
            \/ Raise(p) /\ missed' = missed
            \/ InHand(p, y)
<1>0. pass[p] \in PassTypes /\ index' = index
  BY DEF TypeOK, SecondRead
<1>1. PICK n : n = ReadNow(y)
  OBVIOUS
<1>2. CASE /\ Settled(p, y) /\ UNCHANGED lock /\ missed' = missed \cup {y}
           /\ n \in {Unreadable, Undecodable} \/ calm' = [calm EXCEPT ![p] = FALSE]
  BY <1>0, <1>1, <1>2
<1>3. CASE Raise(p) /\ missed' = missed
  BY <1>0, <1>3
<1>4. CASE /\ n \notin {Unreadable, Undecodable}
           /\ n.id = pass[p].prepared[y].id \/ pass[p].owners[n.id] \in {Absent, y}
           /\ Set(p, [pass[p] EXCEPT !.todo = @ \ {y}, !.owners[n.id] = y,
                                     !.hand = [path |-> y, id |-> n.id, hash |-> n.hash]])
           /\ UNCHANGED <<lock, missed, calm>>
  <2>1. PICK hand : hand = [path |-> y, id |-> n.id, hash |-> n.hash]
    OBVIOUS
  <2>2. PICK s : s = [pass[p] EXCEPT !.todo = @ \ {y}, !.owners[n.id] = y, !.hand = hand]
    OBVIOUS
  <2>3. pass'[p] = s
    BY <1>4, <2>1, <2>2 DEF Set, TypeOK
  <2>4. /\ SamePlan(pass[p], s) /\ SameFlags(pass[p], s) /\ s.pc = pass[p].pc
        /\ s.todo = pass[p].todo \ {y} /\ s.hand = hand
        /\ s.owners = [pass[p].owners EXCEPT ![n.id] = y]
    BY <1>0, <2>2 DEF PassTypes, SamePlan, SameScan, SameFlags
  <2>5. n \in Identities /\ n.id \in Ids /\ n.hash \in Hashes
    BY <1>1, <1>4, ReadNowTyped DEF Identities
  <2>6. hand # Absent /\ hand.path = y /\ hand.id = n.id /\ hand.hash = n.hash
    BY <2>1, <2>5, ReconcileAssumption DEF Handed
  <2>7. \A j \in Ids : s.owners[j] = IF j = n.id THEN y ELSE pass[p].owners[j]
    BY <1>0, <2>4 DEF PassTypes
  <2>8. InHand(p, y)
    BY <1>1, <1>4, <2>3, <2>4, <2>5, <2>6, <2>7 DEF InHand
  <2> QED BY <1>0, <2>8
<1> QED BY <1>1, <1>2, <1>3, <1>4 DEF SecondRead

(* An mtime is recorded for the row of the snapshot, or the row is crossed. *)
SnapshotRow(p, i, x) ==
  View(p)[i] # Absent => View(p)[i].path = x /\ View(p)[i].hash = pass[p].snap[i].hash

CrossesAt(p, i, x) ==
  \/ UNCHANGED <<index, lock, calm, crossed>>
  \/ crossed' = crossed \cup {i} /\ ~SnapshotRow(p, i, x)
  \/ crossed' = crossed /\ SnapshotRow(p, i, x)

(* The note in hand needs no row but a newer mtime, or gets its row. *)
StoreSame(p) ==
  /\ Bulk(p) /\ SameChunks(View(p), pass[p].hand)
  /\ pass[p].hand.id \in Entry(pass[p], pass[p].hand.path)
  /\ pass[p].snap[pass[p].hand.id].hash = pass[p].hand.hash
  /\ \/ UNCHANGED <<index, lock, calm>>
     \/ Write(p, WithMtime(View(p), pass[p].hand.id, pass[p].live[pass[p].hand.path]))
  /\ CrossesAt(p, pass[p].hand.id, pass[p].hand.path) /\ found' = found
  /\ SamePlan(pass[p], pass'[p]) /\ SameFlags(pass[p], pass'[p]) /\ pass'[p].pc = "apply"
  /\ pass'[p].todo = pass[p].todo /\ pass'[p].owners = pass[p].owners /\ pass'[p].hand = Absent

StoreRow(p) ==
  /\ ~OwnedElsewhere(View(p), pass[p].hand.id, pass[p].hand.path)
  /\ Write(p, Upsert(View(p), pass[p].hand.id,
                     [path |-> pass[p].hand.path, hash |-> pass[p].hand.hash,
                      mtime |-> MtimeFor(p, pass[p].hand.path), current |-> TRUE]))
  /\ crossed' = crossed
  /\ found' = IF ReadNow(pass[p].hand.path) = [id |-> pass[p].hand.id, hash |-> pass[p].hand.hash]
                THEN found ELSE OwnFound(p, pass[p].hand.path)
  /\ SamePlan(pass[p], pass'[p]) /\ pass'[p].reindexed /\ pass'[p].failed = pass[p].failed
  /\ pass'[p].pc = (IF Bulk(p) THEN "apply" ELSE "get")
  /\ pass'[p].todo = pass[p].todo /\ pass'[p].owners = pass[p].owners /\ pass'[p].hand = Absent

LEMMA StoreEffect ==
  ASSUME TypeOK, NEW p \in Procs, Store(p)
  PROVE  /\ pass[p].pc = IF Bulk(p) THEN "apply" ELSE "store"
         /\ pass[p].hand # Absent /\ pass[p].hand \in Handed
         /\ pass[p].hand.path \in Paths /\ pass[p].hand.id \in Ids /\ pass[p].hand.hash \in Hashes
         /\ missed' = missed
         /\ StoreSame(p) \/ StoreRow(p) \/ (Raise(p) /\ UNCHANGED <<index, found, crossed>>)
<1>0. /\ pass[p] \in PassTypes /\ pass[p].pc = (IF Bulk(p) THEN "apply" ELSE "store")
      /\ pass[p].hand # Absent /\ pass[p].hand \in Handed
      /\ pass[p].hand.path \in Paths /\ pass[p].hand.id \in Ids /\ pass[p].hand.hash \in Hashes
      /\ missed' = missed
  BY DEF TypeOK, PassTypes, Handed, Store, vaultVars
<1>1. CASE /\ Bulk(p)
           /\ Unchanged(pass[p], pass[p].hand.path,
                        [id |-> pass[p].hand.id, hash |-> pass[p].hand.hash])
           /\ SameChunks(View(p), pass[p].hand)
           /\ \/ UNCHANGED <<index, lock, calm, crossed>>
              \/ RecordMtime(p, pass[p].hand.id, pass[p].hand.path, MtimeFor(p, pass[p].hand.path))
           /\ Set(p, [pass[p] EXCEPT !.hand = Absent]) /\ found' = found
  <2>1. PICK s : s = [pass[p] EXCEPT !.hand = Absent]
    OBVIOUS
  <2>2. pass'[p] = s
    BY <1>1, <2>1 DEF Set, TypeOK
  <2>3. /\ SamePlan(pass[p], s) /\ SameFlags(pass[p], s) /\ s.pc = "apply"
        /\ s.todo = pass[p].todo /\ s.owners = pass[p].owners /\ s.hand = Absent
    BY <1>0, <1>1, <2>1 DEF PassTypes, SamePlan, SameScan, SameFlags
  <2>4. MtimeFor(p, pass[p].hand.path) = pass[p].live[pass[p].hand.path]
    BY <1>1 DEF MtimeFor
  <2>5. /\ pass[p].hand.id \in Entry(pass[p], pass[p].hand.path)
        /\ pass[p].snap[pass[p].hand.id].hash = pass[p].hand.hash
    BY <1>1 DEF Unchanged
  <2>7. /\ \/ UNCHANGED <<index, lock, calm>>
           \/ Write(p, WithMtime(View(p), pass[p].hand.id, pass[p].live[pass[p].hand.path]))
        /\ CrossesAt(p, pass[p].hand.id, pass[p].hand.path)
    BY <1>1, <2>4 DEF RecordMtime, CrossesAt, SnapshotRow
  <2>6. StoreSame(p)
    BY <1>1, <2>2, <2>3, <2>5, <2>7 DEF StoreSame
  <2> QED BY <1>0, <2>6
<1>2. CASE Raise(p) /\ UNCHANGED <<index, found, crossed>>
  BY <1>0, <1>2
<1>3. CASE /\ ~OwnedElsewhere(View(p), pass[p].hand.id, pass[p].hand.path)
           /\ crossed' = crossed
           /\ found' = IF ReadNow(pass[p].hand.path)
                             = [id |-> pass[p].hand.id, hash |-> pass[p].hand.hash]
                         THEN found ELSE OwnFound(p, pass[p].hand.path)
           /\ Write(p, Upsert(View(p), pass[p].hand.id,
                              [path |-> pass[p].hand.path, hash |-> pass[p].hand.hash,
                               mtime |-> MtimeFor(p, pass[p].hand.path), current |-> TRUE]))
           /\ Set(p, [pass[p] EXCEPT !.hand = Absent, !.reindexed = TRUE,
                                     !.pc = IF Bulk(p) THEN "apply" ELSE "get"])
  <2>1. PICK s : s = [pass[p] EXCEPT !.hand = Absent, !.reindexed = TRUE,
                                     !.pc = IF Bulk(p) THEN "apply" ELSE "get"]
    OBVIOUS
  <2>2. pass'[p] = s
    BY <1>3, <2>1 DEF Set, TypeOK
  <2>3. /\ SamePlan(pass[p], s) /\ s.reindexed /\ s.failed = pass[p].failed
        /\ s.pc = (IF Bulk(p) THEN "apply" ELSE "get")
        /\ s.todo = pass[p].todo /\ s.owners = pass[p].owners /\ s.hand = Absent
    BY <1>0, <2>1 DEF PassTypes, SamePlan, SameScan
  <2>4. StoreRow(p)
    BY <1>3, <2>2, <2>3 DEF StoreRow
  <2> QED BY <1>0, <2>4
<1> QED BY <1>1, <1>2, <1>3 DEF Store

LEMMA SkipEffect ==
  ASSUME TypeOK, NEW p \in Procs, NEW y, Skip(p, y)
  PROVE  \E i \in Ids :
           /\ pass[p].prepared[y] = [id |-> i, hash |-> pass[p].snap[i].hash]
           /\ i \in Entry(pass[p], y) /\ y \notin Rechunked(pass[p])
           /\ UNCHANGED <<index, lock, calm>> \/ Write(p, WithMtime(View(p), i, pass[p].live[y]))
           /\ CrossesAt(p, i, y) /\ Settled(p, y) /\ missed' = missed
<1>1. PICK i \in Entry(pass[p], y) :
        pass[p].prepared[y] = [id |-> i, hash |-> pass[p].snap[i].hash]
  BY DEF Skip, Unchanged
<1>2. pass[p].prepared[y].id = i /\ i \in Ids
  BY <1>1 DEF Entry
<1>3. /\ UNCHANGED <<index, lock, calm>> \/ Write(p, WithMtime(View(p), i, pass[p].live[y]))
      /\ CrossesAt(p, i, y)
  BY <1>2 DEF Skip, RecordMtime, CrossesAt, SnapshotRow
<1> QED BY <1>1, <1>2, <1>3 DEF Skip

(* What follows the rows. *)
LEMMA StampEffect ==
  ASSUME TypeOK, NEW p \in Procs, Stamp(p)
  PROVE  /\ pass[p].pc = "stamp" /\ UNCHANGED <<index, lock, missed, gen>>
         /\ \/ /\ pass[p].deleted \/ pass[p].reindexed
               /\ SamePlan(pass[p], pass'[p]) /\ SameFlags(pass[p], pass'[p])
               /\ pass'[p].pc = "get" /\ pass'[p].owners = pass[p].owners
               /\ pass'[p].hand = pass[p].hand /\ stale' = stale
            \/ ~(pass[p].deleted \/ pass[p].reindexed) /\ Finish(p) /\ pass'[p] = Idle
<1>1. pass[p].pc = "stamp" /\ UNCHANGED <<index, lock, missed, gen>>
  BY DEF Stamp, vaultVars
<1>2. CASE pass[p].deleted \/ pass[p].reindexed
  <2>1. PICK s : s = [pass[p] EXCEPT !.pc = "get"]
    OBVIOUS
  <2>2. pass'[p] = s /\ stale' = stale
    BY <1>2, <2>1 DEF Stamp, Set, TypeOK
  <2>3. /\ SamePlan(pass[p], s) /\ SameFlags(pass[p], s) /\ s.pc = "get"
        /\ s.owners = pass[p].owners /\ s.hand = pass[p].hand
    BY <2>1 DEF TypeOK, PassTypes, SamePlan, SameScan, SameFlags
  <2> QED BY <1>1, <1>2, <2>2, <2>3
<1>3. CASE ~(pass[p].deleted \/ pass[p].reindexed)
  BY <1>1, <1>3 DEF Stamp, Finish, TypeOK
<1> QED BY <1>2, <1>3

LEMMA GetEffect ==
  ASSUME TypeOK, NEW p \in Procs, GetGeneration(p)
  PROVE  /\ pass[p].pc = "get" /\ UNCHANGED <<index, lock, missed, gen, stale>>
         /\ SamePlan(pass[p], pass'[p]) /\ SameFlags(pass[p], pass'[p])
         /\ pass'[p].pc = "set" /\ pass'[p].next = gen + 1
         /\ pass'[p].owners = pass[p].owners /\ pass'[p].hand = pass[p].hand
<1>1. PICK s : s = [pass[p] EXCEPT !.pc = "set", !.next = gen + 1]
  OBVIOUS
<1>2. pass'[p] = s /\ pass[p].pc = "get" /\ UNCHANGED <<index, lock, missed, gen, stale>>
  BY <1>1 DEF GetGeneration, Set, TypeOK, Reads, vaultVars
<1>3. /\ SamePlan(pass[p], s) /\ SameFlags(pass[p], s) /\ s.pc = "set" /\ s.next = gen + 1
      /\ s.owners = pass[p].owners /\ s.hand = pass[p].hand
  BY <1>1 DEF TypeOK, PassTypes, SamePlan, SameScan, SameFlags
<1> QED BY <1>2, <1>3

LEMMA SetEffect ==
  ASSUME TypeOK, NEW p \in Procs, SetGeneration(p)
  PROVE  /\ pass[p].pc = "set" /\ UNCHANGED <<index, lock, missed>> /\ gen' = pass[p].next
         /\ Finish(p) /\ pass'[p] = Idle
BY DEF SetGeneration, Finish, TypeOK, vaultVars

LEMMA TargetEffect ==
  ASSUME TypeOK, NEW p \in Procs, NEW x \in Paths, Target(p, x)
  PROVE  /\ pass[p].pc = "idle" /\ "note" \in env.kinds /\ ReadNow(x) \in Identities
         /\ UNCHANGED <<index, lock, missed>> /\ pass'[p].kind = "note" /\ pass'[p].pc = "drop"
         /\ SameFlags(pass[p], pass'[p]) /\ pass'[p].prepared = pass[p].prepared
         /\ pass'[p].marks = pass[p].marks
         /\ pass'[p].snap = pass[p].snap /\ pass'[p].live = pass[p].live
         /\ pass'[p].owners = pass[p].owners /\ pass'[p].hand # Absent
         /\ pass'[p].hand.path = x /\ pass'[p].hand.id = ReadNow(x).id
         /\ pass'[p].hand.hash = ReadNow(x).hash
<1>1. ReadNow(x) \in Identities /\ disk[x] # Absent /\ disk[x].hash # Undecodable
  BY ReadNowTyped DEF Target, ReadNow
<1>2. PICK hand : hand = [path |-> x, id |-> disk[x].id, hash |-> disk[x].hash]
  OBVIOUS
<1>3. PICK s : s = [pass[p] EXCEPT !.kind = "note", !.pc = "drop", !.hand = hand]
  OBVIOUS
<1>4. /\ pass'[p] = s /\ pass[p].pc = "idle" /\ "note" \in env.kinds
      /\ UNCHANGED <<index, lock, missed>>
  BY <1>2, <1>3 DEF Target, Set, TypeOK, vaultVars
<1>5. disk[x].id \in Ids /\ disk[x].hash \in Hashes
  BY <1>1 DEF TypeOK, Notes
<1>6. /\ hand # Absent /\ hand.path = x /\ hand.id = ReadNow(x).id
      /\ hand.hash = ReadNow(x).hash
  BY <1>1, <1>2, <1>5, ReconcileAssumption DEF Handed, ReadNow
<1>7. /\ s.kind = "note" /\ s.pc = "drop" /\ s.hand = hand /\ SameFlags(pass[p], s)
      /\ s.prepared = pass[p].prepared /\ s.marks = pass[p].marks /\ s.snap = pass[p].snap
      /\ s.live = pass[p].live /\ s.owners = pass[p].owners
  BY <1>3 DEF TypeOK, PassTypes, SameFlags
<1> QED BY <1>1, <1>4, <1>6, <1>7

LEMMA DropEffect ==
  ASSUME TypeOK, NEW p \in Procs, Drop(p)
  PROVE  /\ pass[p].pc = "drop" /\ missed' = missed
         /\ UNCHANGED <<index, lock, calm>> \/ \E i \in Ids : Write(p, Without(View(p), i))
         /\ SamePlan(pass[p], pass'[p]) /\ SameFlags(pass[p], pass'[p]) /\ pass'[p].pc = "store"
         /\ pass'[p].owners = pass[p].owners /\ pass'[p].hand = pass[p].hand
<1>1. PICK s : s = [pass[p] EXCEPT !.pc = "store"]
  OBVIOUS
<1>2. pass'[p] = s /\ pass[p].pc = "drop" /\ missed' = missed
  BY <1>1 DEF Drop, Set, TypeOK, vaultVars
<1>3. /\ SamePlan(pass[p], s) /\ SameFlags(pass[p], s) /\ s.pc = "store"
      /\ s.owners = pass[p].owners /\ s.hand = pass[p].hand
  BY <1>1 DEF TypeOK, PassTypes, SamePlan, SameScan, SameFlags
<1>4. UNCHANGED <<index, lock, calm>> \/ \E i \in Ids : Write(p, Without(View(p), i))
  BY DEF Drop
<1> QED BY <1>2, <1>3, <1>4

LEMMA FaultEffect ==
  ASSUME TypeOK, NEW p \in Procs, StoreFails(p) \/ Cancel(p) \/ Crash(p)
  PROVE  /\ UNCHANGED <<index, missed, gen>> /\ Rollback(p)
         /\ pass'[p] = Idle \/ (Stopped(pass[p], pass'[p]) /\ StoreFails(p))
BY RaiseEffect DEF StoreFails, Cancel, Crash, Raise, vaultVars, TypeOK

(***************************************************************************)
(* Order: what a pass holds at each of its steps.                          *)
(***************************************************************************)

Orderly(s) ==
  /\ s.pc = "idle" => s = Idle
  /\ s.pc \in {"idle", "walk", "snapshot"} => \A x \in Paths : s.prepared[x] = Absent
  /\ s.pc \notin {"apply", "drop", "store"} => s.hand = Absent
  /\ s.pc \in {"walk", "snapshot", "prepare", "purge", "apply", "stamp"} => s.kind # "note"
  /\ \A x \in Paths : s.prepared[x] \in Identities => s.owners[s.prepared[x].id] = x
  /\ s.pc = "prepare" => \A x \in Live(s) \ s.todo : s.prepared[x] # Absent \/ Gated(s, x)
  /\ s.pc = "purge" => /\ s.gone \subseteq Vanished(s)
                       /\ \A x \in Live(s) : s.prepared[x] # Absent \/ Gated(s, x)
  /\ s.pc = "apply" => /\ \A x \in s.todo : s.prepared[x] \in Identities
                       /\ s.hand # Absent => /\ s.owners[s.hand.id] = s.hand.path
                                             /\ s.hand.path \notin s.todo

InOrder == \A p \in Procs : Orderly(pass[p])

LEMMA IdleOrderly == Orderly(Idle)
BY ReconcileAssumption DEF Orderly, Idle

LEMMA StoppedOrderly ==
  ASSUME NEW s, NEW t, Orderly(s), Stopped(s, t)
  PROVE  Orderly(t)
<1>1. CASE t = Idle
  BY <1>1, IdleOrderly
<1>2. CASE t.pc = "get" /\ t.hand = Absent /\ SamePlan(s, t) /\ t.owners = s.owners
  BY <1>2 DEF Orderly, SamePlan
<1> QED BY <1>1, <1>2 DEF Stopped

LEMMA ScanOrderly ==
  ASSUME TypeOK, InOrder, Upgrading, NEW p \in Procs, Start(p) \/ Walk(p) \/ Snapshot(p)
  PROVE  Orderly(pass'[p])
<1>0. Orderly(pass[p])
  BY DEF InOrder
<1>1. CASE Start(p)
  BY <1>0, <1>1, StartEffect DEF Orderly
<1>2. CASE Walk(p)
  BY <1>0, <1>2, WalkEffect DEF Orderly, Live
<1>3. CASE Snapshot(p)
  <2>1. pass[p].todo = Paths /\ pass[p].pc = "snapshot"
    BY <1>3, UpgradeFacts, SnapshotEffect DEF UpgradePass
  <2> QED BY <1>0, <1>3, <2>1, SnapshotEffect DEF Orderly, Live
<1> QED BY <1>1, <1>2, <1>3

LEMMA PrepareOrderly ==
  ASSUME TypeOK, InOrder, NEW p \in Procs, Prepare(p)
  PROVE  Orderly(pass'[p])
<1>0. Orderly(pass[p]) /\ pass[p] \in PassTypes
  BY DEF InOrder, TypeOK
<1>1. PICK y \in Paths, outcome \in Identities \cup {Absent, Unreadable, Undecodable} :
        /\ y \in pass[p].todo /\ y \in Live(pass[p]) /\ Found(p, y, outcome)
        /\ Raise(p) \/ Claimed(p, y, outcome)
  BY PrepareEffect
<1>2. CASE Raise(p)
  BY <1>0, <1>2, RaiseEffect, StoppedOrderly
<1>3. CASE Claimed(p, y, outcome)
  <2>1. /\ Live(pass'[p]) = Live(pass[p])
        /\ \A x : Gated(pass'[p], x) <=> Gated(pass[p], x)
    BY <1>3, SameScanKeeps DEF Claimed
  <2>2. outcome # Absent \/ Gated(pass[p], y)
    BY <1>1, ReadNowTyped, ReconcileAssumption DEF Found
  <2>3. \A x \in Live(pass'[p]) \ pass'[p].todo :
           pass'[p].prepared[x] # Absent \/ Gated(pass'[p], x)
    BY <1>0, <1>3, <2>1, <2>2, PrepareEffect DEF Claimed, Orderly, Live
  <2>4. ASSUME NEW x \in Paths, pass'[p].prepared[x] \in Identities
        PROVE  pass'[p].owners[pass'[p].prepared[x].id] = x
    <3>1. CASE x = y
      BY <1>3, <2>4, <3>1 DEF Claimed
    <3>2. CASE x # y
      <4>1. pass'[p].prepared[x] = pass[p].prepared[x]
        BY <1>3, <3>2 DEF Claimed
      <4>2. pass[p].prepared[x].id \in Ids /\ pass[p].owners[pass[p].prepared[x].id] = x
        BY <1>0, <2>4, <4>1 DEF Orderly, Identities
      <4> QED BY <1>3, <4>1, <4>2, ReconcileAssumption DEF Claimed
    <3> QED BY <3>1, <3>2
  <2>5. pass'[p].pc = "prepare" /\ pass'[p].hand = Absent /\ pass'[p].kind # "note"
    BY <1>0, <1>3, PrepareEffect DEF Claimed, Orderly, SameScan
  <2> QED BY <2>3, <2>4, <2>5 DEF Orderly
<1> QED BY <1>1, <1>2, <1>3

LEMMA PurgeOrderly ==
  ASSUME TypeOK, InOrder, NEW p \in Procs, Prepared(p) \/ Purge(p) \/ Purged(p) \/ Applied(p)
  PROVE  Orderly(pass'[p])
<1>0. Orderly(pass[p]) /\ pass[p] \in PassTypes
  BY DEF InOrder, TypeOK
<1>1. CASE Prepared(p)
  <2>1. /\ SamePlan(pass[p], pass'[p]) /\ pass'[p].pc = "purge" /\ pass'[p].hand = pass[p].hand
        /\ pass[p].pc = "prepare" /\ pass[p].todo \cap Live(pass[p]) = {}
        /\ pass'[p].owners = pass[p].owners /\ pass'[p].gone = Vanished(pass[p])
    BY <1>1, PreparedEffect
  <2>2. /\ Live(pass'[p]) = Live(pass[p]) /\ Vanished(pass'[p]) = Vanished(pass[p])
        /\ \A x : Gated(pass'[p], x) <=> Gated(pass[p], x)
        /\ pass'[p].prepared = pass[p].prepared /\ pass'[p].kind = pass[p].kind
    BY <2>1, SameScanKeeps, SamePlanKeeps DEF SamePlan, SameScan
  <2> QED BY <1>0, <2>1, <2>2 DEF Orderly
<1>2. CASE Purge(p)
  <2>1. /\ SamePlan(pass[p], pass'[p]) /\ pass'[p].pc = "purge" /\ pass'[p].hand = pass[p].hand
        /\ pass[p].pc = "purge" /\ pass'[p].gone \subseteq pass[p].gone
        /\ pass'[p].owners = pass[p].owners
    BY <1>2, PurgeEffect
  <2>2. /\ Live(pass'[p]) = Live(pass[p]) /\ Vanished(pass'[p]) = Vanished(pass[p])
        /\ \A x : Gated(pass'[p], x) <=> Gated(pass[p], x)
        /\ pass'[p].prepared = pass[p].prepared /\ pass'[p].kind = pass[p].kind
    BY <2>1, SameScanKeeps, SamePlanKeeps DEF SamePlan, SameScan
  <2> QED BY <1>0, <2>1, <2>2 DEF Orderly
<1>3. CASE Purged(p)
  <2>1. /\ SamePlan(pass[p], pass'[p]) /\ pass'[p].pc = "apply" /\ pass'[p].hand = pass[p].hand
        /\ pass[p].pc = "purge" /\ pass'[p].owners = pass[p].owners
        /\ pass'[p].todo = {x \in Kept(pass[p]) : ~Gated(pass[p], x)
                                                 /\ pass[p].prepared[x] # Unreadable}
    BY <1>3, PurgedEffect
  <2>2. ASSUME NEW x \in pass'[p].todo
        PROVE  pass[p].prepared[x] \in Identities
    <3>1. /\ x \in Live(pass[p]) /\ pass[p].prepared[x] \notin {Undecodable, Unreadable}
          /\ ~Gated(pass[p], x)
      BY <2>1 DEF Kept
    <3>2. pass[p].prepared[x] \in Identities \cup {Absent, Unreadable, Undecodable}
      BY <1>0, <3>1 DEF PassTypes, Live
    <3> QED BY <1>0, <2>1, <3>1, <3>2 DEF Orderly
  <2>3. pass'[p].hand = Absent /\ pass'[p].prepared = pass[p].prepared /\ pass'[p].kind # "note"
    BY <1>0, <2>1 DEF Orderly, SamePlan, SameScan
  <2> QED BY <1>0, <2>1, <2>2, <2>3 DEF Orderly
<1>4. CASE Applied(p)
  BY <1>0, <1>4, AppliedEffect DEF Orderly, SamePlan, SameScan
<1> QED BY <1>1, <1>2, <1>3, <1>4

LEMMA SettledOrderly ==
  ASSUME TypeOK, NEW p \in Procs, Orderly(pass[p]), NEW y, Settled(p, y),
         pass[p].pc = "apply"
  PROVE  Orderly(pass'[p])
BY SettleEffect DEF Orderly, SamePlan, SameScan

LEMMA InHandOrderly ==
  ASSUME NEW p \in Procs, Orderly(pass[p]), pass[p].pc = "apply", NEW y \in pass[p].todo,
         y \in Paths, InHand(p, y)
  PROVE  Orderly(pass'[p])
<1>1. /\ pass[p].prepared[y] \in Identities /\ pass[p].owners[pass[p].prepared[y].id] = y
      /\ ReadNow(y).id \in Ids
  BY DEF Orderly, InHand, Identities
<1>2. pass[p].owners[ReadNow(y).id] \in {Absent, y}
  BY <1>1 DEF InHand
<1>3. ASSUME NEW x \in Paths, pass[p].prepared[x] \in Identities
      PROVE  pass'[p].owners[pass[p].prepared[x].id] = x
  <2>1. pass[p].prepared[x].id \in Ids /\ pass[p].owners[pass[p].prepared[x].id] = x
    BY <1>3 DEF Orderly, Identities
  <2>2. CASE pass[p].prepared[x].id = ReadNow(y).id
    BY <1>2, <2>1, <2>2, ReconcileAssumption DEF InHand
  <2>3. CASE pass[p].prepared[x].id # ReadNow(y).id
    BY <2>1, <2>3 DEF InHand
  <2> QED BY <2>2, <2>3
<1>4. /\ pass'[p].pc = "apply" /\ pass'[p].kind = pass[p].kind /\ pass'[p].hand.path = y
      /\ pass'[p].todo = pass[p].todo \ {y} /\ pass'[p].prepared = pass[p].prepared
      /\ pass'[p].owners[pass'[p].hand.id] = y
  BY <1>1 DEF InHand, SamePlan, SameScan
<1> QED BY <1>3, <1>4 DEF Orderly

LEMMA ApplyOrderly ==
  ASSUME TypeOK, InOrder, NEW p \in Procs, Apply(p) \/ Store(p)
  PROVE  Orderly(pass'[p])
<1>0. Orderly(pass[p]) /\ pass[p] \in PassTypes
  BY DEF InOrder, TypeOK
<1>1. CASE Apply(p)
  <2>1. PICK y \in pass[p].todo : Skip(p, y) \/ SecondRead(p, y)
    BY <1>1 DEF Apply
  <2>2. y \in Paths /\ pass[p].pc = "apply"
    BY <1>0, <1>1 DEF Apply, PassTypes
  <2>3. Settled(p, y) \/ Raise(p) \/ InHand(p, y)
    BY <2>1, <2>2, SecondReadEffect DEF Skip
  <2> QED BY <1>0, <2>2, <2>3, SettledOrderly, InHandOrderly, RaiseEffect, StoppedOrderly
<1>2. CASE Store(p)
  <2>1. CASE Raise(p)
    BY <1>0, <2>1, RaiseEffect, StoppedOrderly
  <2>2. CASE StoreSame(p) \/ StoreRow(p)
    <3>1. /\ SamePlan(pass[p], pass'[p]) /\ pass'[p].pc \in {"apply", "get"}
          /\ pass'[p].pc = "apply" => pass[p].pc = "apply"
          /\ pass'[p].owners = pass[p].owners /\ pass'[p].todo = pass[p].todo
          /\ pass'[p].hand = Absent
      BY <1>2, <2>2, StoreEffect DEF StoreSame, StoreRow
    <3> QED BY <1>0, <3>1 DEF Orderly, SamePlan, SameScan
  <2> QED BY <1>2, <2>1, <2>2, StoreEffect
<1> QED BY <1>1, <1>2

LEMMA EndingOrderly ==
  ASSUME TypeOK, InOrder, NEW p \in Procs,
         \/ Stamp(p) \/ GetGeneration(p) \/ SetGeneration(p) \/ Drop(p)
         \/ \E y \in Paths : Target(p, y)
         \/ StoreFails(p) \/ Cancel(p) \/ Crash(p)
  PROVE  Orderly(pass'[p])
<1>0. Orderly(pass[p])
  BY DEF InOrder
<1>1. CASE Stamp(p)
  BY <1>0, <1>1, StampEffect, IdleOrderly DEF Orderly, SamePlan, SameScan
<1>2. CASE GetGeneration(p)
  BY <1>0, <1>2, GetEffect DEF Orderly, SamePlan, SameScan
<1>3. CASE SetGeneration(p)
  BY <1>3, SetEffect, IdleOrderly
<1>4. CASE Drop(p)
  BY <1>0, <1>4, DropEffect DEF Orderly, SamePlan, SameScan
<1>5. ASSUME NEW y \in Paths, Target(p, y)
      PROVE  Orderly(pass'[p])
  BY <1>0, <1>5, TargetEffect DEF Orderly
<1>6. CASE StoreFails(p) \/ Cancel(p) \/ Crash(p)
  BY <1>0, <1>6, FaultEffect, IdleOrderly, StoppedOrderly
<1> QED BY <1>1, <1>2, <1>3, <1>4, <1>5, <1>6

(* What a process does leaves the passes of the others alone. *)
Acts(p) ==
  \/ Step(p) \/ \E y \in Paths : Target(p, y)
  \/ StoreFails(p) \/ Cancel(p) \/ Crash(p)

LEMMA OthersRest ==
  ASSUME TypeOK, NEW p \in Procs, Acts(p)
  PROVE  env' = env /\ \A q \in Procs \ {p} : pass'[q] = pass[q] /\ cache'[q] = cache[q]
<1>1. env' = env /\ (UNCHANGED cache \/ cache' = [cache EXCEPT ![p] = NoAnswer])
  BY DEF Acts, Step, Start, Walk, Snapshot, Prepare, Prepared, Purge, Purged, Apply, Store, Applied,
     Stamp, GetGeneration, SetGeneration, Drop, Target, StoreFails, Cancel, Crash,
     Reads, vaultVars, editVars, readerVars
<1>2. \E s : pass' = [pass EXCEPT ![p] = s]
  BY DEF Acts, Step, Start, Walk, Snapshot, Prepare, Prepared, Purge, Purged, Apply, Store, Applied,
     Stamp, GetGeneration, SetGeneration, Drop, Target, StoreFails, Cancel, Crash,
     Set, Claims, Skip, SecondRead, Settled, Raise, Finish
<1> QED BY <1>1, <1>2 DEF TypeOK

LEMMA OrderNext ==
  ASSUME TypeOK, Upgrading, InOrder, [Next]_vars
  PROVE  InOrder'
<1>1. env.procs \subseteq Procs
  BY ReconcileAssumption DEF TypeOK, SettingType
<1>2. CASE pass' = pass
  BY <1>2 DEF InOrder
<1>3. ASSUME NEW p \in env.procs, Acts(p)
      PROVE  InOrder'
  <2>1. Orderly(pass'[p])
    BY <1>1, <1>3, ScanOrderly, PrepareOrderly, PurgeOrderly, ApplyOrderly, EndingOrderly
       DEF Acts, Step
  <2> QED BY <1>1, <1>3, <2>1, OthersRest DEF InOrder
<1> QED BY <1>2, <1>3 DEF Next, Edit, Save, Delete, Restore, SaveSameTick, Move, Touch,
         Hit, AskGeneration, AskRows, vars, Acts

(***************************************************************************)
(* A pass that nobody disturbs knows what is in the index.  Unclaimed      *)
(* identities have the row of the snapshot, or none.                       *)
(***************************************************************************)

Unclaimed(s, i) ==
  \/ s.owners[i] = Absent \/ s.owners[i] \in s.todo
  \/ s.hand # Absent /\ s.owners[i] = s.hand.path

Knows(s, rows) ==
  /\ (s.pc = "prepare" \/ (s.pc = "walk" /\ s.kind # "sweep")) => rows = s.snap
  /\ s.pc = "purge" => \A i \in Ids :
       rows[i] = IF i \in Vanished(s) \ s.gone THEN Absent ELSE s.snap[i]
  /\ s.pc = "apply" => \A i \in Ids : Unclaimed(s, i) => rows[i] \in {s.snap[i], Absent}

Known ==
  \A p \in Procs : calm[p] => Knows(pass[p], View(p)) /\ lock.owner \in {NoProc, p}

(* Processes that are not part of the setting take no part. *)
Bystanders ==
  /\ lock.owner \in env.procs \cup {NoProc}
  /\ found \subseteq env.procs \X Paths
  /\ \A p \in Procs \ env.procs : pass[p] = Idle /\ cache[p] = NoAnswer

(* What this process sees of the index after a step. *)
LEMMA ViewAfter ==
  ASSUME TypeOK, NEW p \in Procs
  PROVE  /\ \A rows : Write(p, rows) => View(p)' = rows
         /\ UNCHANGED <<index, lock>> => View(p)' = View(p)
         /\ (Rollback(p) /\ UNCHANGED index) => View(p)' = index
         /\ Commit(p) => View(p)' = View(p)
<1>1. ASSUME NEW rows, Write(p, rows)
      PROVE  View(p)' = rows
  BY <1>1, ReconcileAssumption DEF Write, View, FreeLock
<1>2. (Rollback(p) /\ UNCHANGED index) => View(p)' = index
  BY ReconcileAssumption DEF Rollback, View, FreeLock
<1>3. Commit(p) => View(p)' = View(p)
  BY ReconcileAssumption DEF Commit, View, FreeLock
<1>4. UNCHANGED <<index, lock>> => View(p)' = View(p)
  BY DEF View
<1> QED BY <1>1, <1>2, <1>3, <1>4

LEMMA StoppedKnows ==
  ASSUME NEW s, NEW t, NEW rows, Stopped(s, t) \/ t = Idle
  PROVE  Knows(t, rows)
BY DEF Stopped, Knows, Idle

LEMMA ScanKnows ==
  ASSUME TypeOK, NEW p \in Procs, Knows(pass[p], View(p)),
         Start(p) \/ Walk(p) \/ Snapshot(p) \/ Prepared(p)
  PROVE  Knows(pass'[p], View(p)')
<1>1. CASE Start(p)
  BY <1>1, StartEffect DEF Knows
<1>2. CASE Walk(p)
  BY <1>2, WalkEffect, ViewAfter DEF Knows
<1>3. CASE Snapshot(p)
  BY <1>3, SnapshotEffect, ViewAfter DEF Knows
<1>4. CASE Prepared(p)
  <2>1. /\ SamePlan(pass[p], pass'[p]) /\ pass'[p].pc = "purge" /\ pass[p].pc = "prepare"
        /\ pass'[p].gone = Vanished(pass[p]) /\ View(p)' = View(p)
    BY <1>4, PreparedEffect, ViewAfter
  <2>2. Vanished(pass'[p]) = Vanished(pass[p]) /\ pass'[p].snap = pass[p].snap
    BY <2>1, SamePlanKeeps DEF SamePlan, SameScan
  <2> QED BY <2>1, <2>2 DEF Knows
<1> QED BY <1>1, <1>2, <1>3, <1>4

LEMMA PurgeKnows ==
  ASSUME TypeOK, InOrder, NEW p \in Procs, Knows(pass[p], View(p)),
         Prepare(p) \/ Purge(p) \/ Purged(p) \/ Applied(p)
  PROVE  Knows(pass'[p], View(p)')
<1>0. Orderly(pass[p]) /\ pass[p] \in PassTypes /\ View(p) \in Tables
  BY ViewTyped DEF InOrder, TypeOK
<1>1. CASE Prepare(p)
  <2>1. PICK y \in Paths, outcome \in Identities \cup {Absent, Unreadable, Undecodable} :
          Raise(p) \/ Claimed(p, y, outcome)
    BY <1>1, PrepareEffect
  <2>2. CASE Raise(p)
    BY <2>2, RaiseEffect, StoppedKnows
  <2>3. CASE Claimed(p, y, outcome)
    BY <1>1, <2>3, PrepareEffect, ViewAfter DEF Claimed, SameScan, Knows
  <2> QED BY <2>1, <2>2, <2>3
<1>2. CASE Purge(p)
  <2>1. PICK i \in pass[p].gone :
          /\ pass[p].pc = "purge" /\ View(p)' = Without(View(p), i) /\ i \in Ids
          /\ SamePlan(pass[p], pass'[p]) /\ pass'[p].pc = "purge"
          /\ pass'[p].gone = pass[p].gone \ {i}
    BY <1>2, PurgeEffect, ViewAfter
  <2>2. Vanished(pass'[p]) = Vanished(pass[p]) /\ pass'[p].snap = pass[p].snap
    BY <2>1, SamePlanKeeps DEF SamePlan, SameScan
  <2>3. i \in Vanished(pass[p])
    BY <1>0, <2>1 DEF Orderly
  <2>4. \A j \in Ids : Without(View(p), i)[j] = IF j = i THEN Absent ELSE View(p)[j]
    BY <1>0 DEF Without, Tables
  <2>5. \A j \in Ids : Without(View(p), i)[j] =
           IF j \in Vanished(pass'[p]) \ pass'[p].gone THEN Absent ELSE pass'[p].snap[j]
    BY <2>1, <2>2, <2>3, <2>4 DEF Knows
  <2> QED BY <2>1, <2>5 DEF Knows
<1>3. CASE Purged(p)
  <2>1. /\ SamePlan(pass[p], pass'[p]) /\ pass'[p].pc = "apply" /\ pass[p].pc = "purge"
        /\ pass[p].gone = {} /\ View(p)' = View(p)
    BY <1>3, PurgedEffect, ViewAfter
  <2>2. pass'[p].snap = pass[p].snap
    BY <2>1 DEF SamePlan, SameScan
  <2> QED BY <2>1, <2>2 DEF Knows
<1>4. CASE Applied(p)
  BY <1>4, AppliedEffect DEF Knows
<1> QED BY <1>1, <1>2, <1>3, <1>4

LEMMA ApplyKnows ==
  ASSUME TypeOK, InOrder, NEW p \in Procs, Knows(pass[p], View(p)), Apply(p)
  PROVE  Knows(pass'[p], View(p)')
<1>0. Orderly(pass[p]) /\ pass[p] \in PassTypes /\ View(p) \in Tables
  BY ViewTyped DEF InOrder, TypeOK
<1>1. PICK y \in pass[p].todo : Skip(p, y) \/ SecondRead(p, y)
  BY DEF Apply
<1>2. /\ y \in Paths /\ pass[p].pc = "apply" /\ pass[p].hand = Absent
      /\ pass[p].prepared[y] \in Identities /\ pass[p].live[y] \in Nat
  BY <1>0, <1>1 DEF Apply, PassTypes, Orderly
<1>3. ASSUME Settled(p, y), View(p)' = View(p)
      PROVE  Knows(pass'[p], View(p)')
  <2>1. /\ pass'[p].snap = pass[p].snap /\ pass'[p].pc = "apply"
        /\ pass'[p].todo \subseteq pass[p].todo
        /\ pass'[p].owners = pass[p].owners /\ pass'[p].hand = Absent
    BY <1>2, <1>3, SettleEffect DEF SamePlan, SameScan
  <2> QED BY <1>2, <1>3, <2>1 DEF Knows, Unclaimed
<1>4. CASE Skip(p, y)
  <2>1. PICK i \in Ids :
          /\ pass[p].prepared[y] = [id |-> i, hash |-> pass[p].snap[i].hash]
          /\ UNCHANGED <<index, lock, calm>> \/ Write(p, WithMtime(View(p), i, pass[p].live[y]))
          /\ Settled(p, y)
    BY <1>4, SkipEffect
  <2>2. CASE UNCHANGED <<index, lock, calm>>
    BY <1>3, <2>1, <2>2, ViewAfter
  <2>3. CASE Write(p, WithMtime(View(p), i, pass[p].live[y]))
    <3>1. View(p)' = WithMtime(View(p), i, pass[p].live[y])
      BY <2>3, ViewAfter
    <3>2. pass[p].prepared[y].id = i
      BY <2>1
    <3>3. pass[p].owners[i] = y
      BY <1>0, <1>2, <3>2 DEF Orderly
    <3>4. /\ pass'[p].snap = pass[p].snap /\ pass'[p].pc = "apply"
          /\ pass'[p].todo = pass[p].todo \ {y}
          /\ pass'[p].owners = pass[p].owners /\ pass'[p].hand = Absent
      BY <1>2, <2>1, SettleEffect DEF SamePlan, SameScan
    <3>5. \A j \in Ids \ {i} : WithMtime(View(p), i, pass[p].live[y])[j] = View(p)[j]
      BY <1>0 DEF WithMtime, Tables
    <3>6. ~Unclaimed(pass'[p], i)
      BY <1>2, <3>3, <3>4, ReconcileAssumption DEF Unclaimed
    <3>7. \A j \in Ids : Unclaimed(pass'[p], j) => Unclaimed(pass[p], j)
      BY <3>4 DEF Unclaimed
    <3> QED BY <1>2, <3>1, <3>4, <3>5, <3>6, <3>7 DEF Knows
  <2> QED BY <2>1, <2>2, <2>3
<1>5. CASE SecondRead(p, y)
  <2>1. CASE Settled(p, y) /\ UNCHANGED <<index, lock>>
    BY <1>3, <2>1, ViewAfter
  <2>2. CASE Raise(p)
    BY <2>2, RaiseEffect, StoppedKnows
  <2>3. CASE InHand(p, y) /\ UNCHANGED index
    <3>1. /\ View(p)' = View(p) /\ pass'[p].snap = pass[p].snap /\ pass'[p].pc = "apply"
          /\ pass'[p].todo = pass[p].todo \ {y} /\ pass'[p].hand.path = y
      BY <1>2, <2>3, ViewAfter DEF InHand, SamePlan, SameScan
    <3>2. pass[p].owners[pass[p].prepared[y].id] = y
      BY <1>0, <1>2 DEF Orderly
    <3>3. pass[p].owners[ReadNow(y).id] \in {Absent, y}
      BY <2>3, <3>2 DEF InHand
    <3>4. ASSUME NEW j \in Ids, Unclaimed(pass'[p], j)
          PROVE  Unclaimed(pass[p], j)
      <4>1. CASE j = ReadNow(y).id
        BY <1>1, <3>3, <4>1 DEF Unclaimed
      <4>2. CASE j # ReadNow(y).id
        <5>1. pass'[p].owners[j] = pass[p].owners[j]
          BY <2>3, <4>2 DEF InHand
        <5> QED BY <1>1, <3>1, <3>4, <5>1 DEF Unclaimed
      <4> QED BY <4>1, <4>2
    <3> QED BY <1>2, <3>1, <3>4 DEF Knows
  <2> QED BY <1>2, <1>5, <2>1, <2>2, <2>3, SecondReadEffect
<1> QED BY <1>1, <1>4, <1>5

LEMMA StoreKnows ==
  ASSUME TypeOK, InOrder, NEW p \in Procs, Knows(pass[p], View(p)), Store(p)
  PROVE  Knows(pass'[p], View(p)')
<1>0. /\ Orderly(pass[p]) /\ pass[p] \in PassTypes /\ View(p) \in Tables
      /\ pass[p].pc = (IF Bulk(p) THEN "apply" ELSE "store") /\ pass[p].hand # Absent
      /\ pass[p].hand.path \in Paths /\ pass[p].hand.id \in Ids
  BY ViewTyped, StoreEffect DEF InOrder, TypeOK
<1>1. CASE Raise(p)
  BY <1>1, RaiseEffect, StoppedKnows
<1>2. CASE ~Bulk(p) /\ StoreRow(p)
  BY <1>2 DEF StoreRow, Knows
<1>3. CASE Bulk(p) /\ (StoreSame(p) \/ StoreRow(p))
  <2>1. /\ pass'[p].snap = pass[p].snap /\ pass'[p].pc = "apply" /\ pass[p].pc = "apply"
        /\ pass'[p].todo = pass[p].todo /\ pass'[p].owners = pass[p].owners
        /\ pass'[p].hand = Absent
    BY <1>0, <1>3 DEF StoreSame, StoreRow, SamePlan, SameScan
  <2>2. /\ pass[p].owners[pass[p].hand.id] = pass[p].hand.path
        /\ pass[p].hand.path \notin pass[p].todo
    BY <1>0, <2>1 DEF Orderly
  <2>3. ~Unclaimed(pass'[p], pass[p].hand.id)
    BY <1>0, <2>1, <2>2, ReconcileAssumption DEF Unclaimed
  <2>4. \A j \in Ids : Unclaimed(pass'[p], j) => Unclaimed(pass[p], j)
    BY <2>1 DEF Unclaimed
  <2>5. \A j \in Ids \ {pass[p].hand.id} : View(p)'[j] \in {View(p)[j], Absent}
    <3>1. CASE StoreSame(p)
      <4>1. \/ View(p)' = View(p)
            \/ View(p)' = WithMtime(View(p), pass[p].hand.id, pass[p].live[pass[p].hand.path])
        BY <3>1, ViewAfter DEF StoreSame
      <4> QED BY <1>0, <4>1 DEF WithMtime, Tables
    <3>2. CASE StoreRow(p)
      BY <3>2, ViewAfter DEF StoreRow, Upsert
    <3> QED BY <1>3, <3>1, <3>2
  <2> QED BY <2>1, <2>3, <2>4, <2>5 DEF Knows
<1> QED BY <1>1, <1>2, <1>3, StoreEffect DEF StoreSame

LEMMA EndingKnows ==
  ASSUME TypeOK, NEW p \in Procs, Knows(pass[p], View(p)),
         \/ Stamp(p) \/ GetGeneration(p) \/ SetGeneration(p) \/ Drop(p)
         \/ \E y \in Paths : Target(p, y)
         \/ StoreFails(p) \/ Cancel(p) \/ Crash(p)
  PROVE  Knows(pass'[p], View(p)')
<1>1. pass'[p] = Idle \/ pass'[p].pc \in {"get", "set", "drop", "store"}
  BY StampEffect, GetEffect, SetEffect, DropEffect, TargetEffect, FaultEffect DEF Stopped
<1> QED BY <1>1 DEF Knows, Idle

LEMMA ActsKnows ==
  ASSUME TypeOK, InOrder, NEW p \in Procs, Knows(pass[p], View(p)), Acts(p)
  PROVE  Knows(pass'[p], View(p)')
BY ScanKnows, PurgeKnows, ApplyKnows, StoreKnows, EndingKnows DEF Acts, Step

(* How a step may change the index, and what it tells the other passes. *)
LEMMA ActsWrites ==
  ASSUME NEW p, Acts(p)
  PROVE  \/ UNCHANGED <<index, lock>> \/ (Rollback(p) /\ UNCHANGED index)
         \/ Commit(p) \/ \E rows : Write(p, rows)
BY DEF Acts, Step, Start, Walk, Snapshot, Prepare, Prepared, Purge, Purged, Apply, Store, Applied,
   Stamp, GetGeneration, SetGeneration, Drop, Target, StoreFails, Cancel, Crash, Reads,
   Claims, Skip, SecondRead, Raise, RecordMtime

LEMMA ActsCalm ==
  ASSUME TypeOK, NEW q \in Procs, Acts(q), NEW p \in Procs \ {q}, calm'[p]
  PROVE  calm[p] /\ ~\E rows : Write(q, rows)
<1>1. \/ calm' = calm \/ \E v : calm' = [calm EXCEPT ![q] = v]
      \/ \E rows : Write(q, rows)
  BY DEF Acts, Step, Start, Walk, Snapshot, Prepare, Prepared, Purge, Purged, Apply, Store, Applied,
     Stamp, GetGeneration, SetGeneration, Drop, Target, StoreFails, Cancel, Crash, Reads,
     Skip, SecondRead, RecordMtime
<1>2. ~\E rows : Write(q, rows)
  BY DEF Write
<1> QED BY <1>1, <1>2 DEF TypeOK

(* As long as a pass is calm, a step of another one changes nothing of it. *)
LEMMA CalmRest ==
  ASSUME TypeOK, Known, NEW q \in Procs, Acts(q), NEW p \in Procs \ {q}, calm'[p]
  PROVE  calm[p] /\ UNCHANGED <<index, lock>> /\ pass'[p] = pass[p]
<1>1. calm[p] /\ ~\E rows : Write(q, rows)
  BY ActsCalm
<1>2. lock.owner # q
  BY <1>1, ReconcileAssumption DEF Known
<1> QED BY <1>1, <1>2, ActsWrites, OthersRest DEF Commit, Rollback

LEMMA CalmLock ==
  ASSUME TypeOK, Known, NEW p \in Procs, Acts(p), calm'[p]
  PROVE  /\ lock'.owner \in {NoProc, p}
         /\ calm[p] \/ Start(p)
<1>1. \/ calm' = calm \/ calm' = [calm EXCEPT ![p] = FALSE]
      \/ Start(p) \/ \E rows : Write(p, rows)
  BY DEF Acts, Step, Walk, Snapshot, Prepare, Prepared, Purge, Purged, Apply, Store, Applied,
     Stamp, GetGeneration, SetGeneration, Drop, Target, StoreFails, Cancel, Crash, Reads,
     Skip, SecondRead, RecordMtime
<1>2. calm[p] \/ Start(p)
  BY <1>1 DEF TypeOK, Write
<1>3. Start(p) => lock'.owner \in {NoProc, p}
  BY DEF Start, TypeOK
<1>4. ASSUME calm[p]
      PROVE  lock'.owner \in {NoProc, p}
  <2>1. lock.owner \in {NoProc, p}
    BY <1>4 DEF Known
  <2> QED BY <2>1, ActsWrites DEF Write, Commit, Rollback, FreeLock
<1>5. lock'.owner \in {NoProc, p}
  BY <1>2, <1>3, <1>4
<1> QED BY <1>2, <1>5

LEMMA KnownNext ==
  ASSUME TypeOK, InOrder, Known, [Next]_vars
  PROVE  Known'
<1>1. env.procs \subseteq Procs
  BY ReconcileAssumption DEF TypeOK, SettingType
<1>2. CASE UNCHANGED <<index, lock, pass, calm>>
  BY <1>2 DEF Known, View
<1>3. CASE Edit
  <2>1. \A p \in Procs : ~calm'[p]
    BY <1>3 DEF Edit, Save, Delete, Restore, SaveSameTick, Move, Touch
  <2> QED BY <2>1 DEF Known
<1>4. ASSUME NEW q \in env.procs, Acts(q), NEW p \in Procs, calm'[p]
      PROVE  Knows(pass'[p], View(p)') /\ lock'.owner \in {NoProc, p}
  <2>1. CASE p # q
    <3>1. calm[p] /\ UNCHANGED <<index, lock>> /\ pass'[p] = pass[p]
      BY <1>1, <1>4, <2>1, CalmRest
    <3> QED BY <3>1 DEF Known, View
  <2>2. CASE p = q
    <3>1. lock'.owner \in {NoProc, p} /\ (calm[p] \/ Start(p))
      BY <1>4, <2>2, CalmLock
    <3>2. CASE calm[p]
      BY <1>4, <2>2, <3>1, <3>2, ActsKnows DEF Known
    <3>3. CASE Start(p)
      BY <3>1, <3>3, StartEffect DEF Knows
    <3> QED BY <3>1, <3>2, <3>3
  <2> QED BY <2>1, <2>2
<1>5. ASSUME NEW q \in env.procs, Acts(q)
      PROVE  Known'
  BY <1>4, <1>5 DEF Known
<1> QED BY <1>2, <1>3, <1>5 DEF Next, Hit, AskGeneration, AskRows, vars, Acts, vaultVars, editVars

(* What the processes that are not there do: nothing. *)
LEMMA BystandersNext ==
  ASSUME TypeOK, Bystanders, [Next]_vars
  PROVE  Bystanders'
<1>1. env.procs \subseteq Procs /\ env' = env
  BY ReconcileAssumption, OthersRest DEF TypeOK, SettingType, Next, Acts, vars, Edit, Save, Delete,
     Restore, SaveSameTick, Move, Touch, Hit, AskGeneration, AskRows, vaultVars, editVars
<1>2. CASE UNCHANGED <<lock, pass, cache>> /\ found' \subseteq found
  BY <1>1, <1>2 DEF Bystanders
<1>3. ASSUME NEW p \in env.procs, Acts(p)
      PROVE  Bystanders'
  <2>1. lock' = lock \/ Rollback(p) \/ Commit(p) \/ \E rows : Write(p, rows)
    BY <1>3, ActsWrites
  <2>3. lock' = lock \/ lock'.owner \in {p, NoProc}
    BY <2>1 DEF Write, Commit, Rollback, FreeLock
  <2>2. found' \subseteq found
    BY <1>3 DEF Acts, Step, Start, Walk, Snapshot, Prepare, Prepared, Purge, Purged, Apply, Store,
       Applied, Stamp, GetGeneration, SetGeneration, Drop, Target, StoreFails, Cancel, Crash, Reads,
       vaultVars, editVars, OwnFound
  <2> QED BY <1>1, <1>3, <2>2, <2>3, OthersRest DEF Bystanders
<1>4. ASSUME NEW p \in env.procs, NEW i \in Ids, Hit(p, i)
      PROVE  Bystanders'
  <2>1. View(p)[i].path \in Paths
    BY <1>1, <1>4, ViewTyped DEF Hit, Tables, Rows
  <2> QED BY <1>1, <1>4, <2>1 DEF Hit, Bystanders, readerVars
<1>5. ASSUME NEW p \in env.procs, AskRows(p)
      PROVE  Bystanders'
  BY <1>1, <1>5 DEF AskRows, Bystanders, TypeOK, vaultVars, editVars
<1> QED BY <1>2, <1>3, <1>4, <1>5 DEF Next, Acts, Edit, Save, Delete, Restore, SaveSameTick, Move,
         Touch, AskGeneration, vars, vaultVars, editVars, readerVars

(***************************************************************************)
(* The gate.  <<x, m, i, h>> is true if the note that x had at mtime m was *)
(* i with hash h, or is gone from x by now, or came back there.  Rows of   *)
(* crossed notes need not be true; what a pass read itself always is.      *)
(***************************************************************************)

Truths ==
  {t \in Paths \X Nat \X Ids \X Hashes :
     \E n \in held[t[1]] :
        /\ n.mtime = t[2]
        /\ (n.id = t[3] /\ n.hash = t[4]) \/ disk[t[1]] # n \/ t[1] \in returned}

Excused == Truths \cup {t \in Paths \X Nat \X Ids \X Hashes : t[3] \in crossed}

HeldNotes ==
  \A x \in Paths :
    /\ disk[x] # Absent => disk[x] \in held[x]
    /\ \A n \in held[x] : n.mtime \in 1..clock

MtimesTell ==
  \A x, y \in Paths : \A n \in held[x], k \in held[y] : n.mtime = k.mtime => n = k

RowsTrue(rows, truths) ==
  \A i \in Ids : rows[i] # Absent =>
    /\ rows[i].hash # Undecodable
    /\ rows[i].mtime # 0 => <<rows[i].path, rows[i].mtime, i, rows[i].hash>> \in truths

PassTrue(s, truths, excused) ==
  /\ RowsTrue(s.snap, excused)
  /\ \A x \in Paths : s.live[x] # 0 =>
       /\ \E i \in Ids, h \in Hashes : <<x, s.live[x], i, h>> \in truths
       /\ s.prepared[x] \in Identities =>
            <<x, s.live[x], s.prepared[x].id, s.prepared[x].hash>> \in truths
  /\ s.hand # Absent =>
       /\ s.hand.hash # Undecodable
       /\ s.kind # "note" => <<s.hand.path, s.live[s.hand.path], s.hand.id, s.hand.hash>> \in truths

Rightly ==
  /\ HeldNotes /\ (SavesMoveMtime => MtimesTell)
  /\ RowsTrue(index, Excused) /\ (lock.owner # NoProc => RowsTrue(lock.rows, Excused))
  /\ \A p \in Procs : PassTrue(pass[p], Truths, Excused)

LEMMA TruthsGrow ==
  ASSUME NEW old, NEW new, old \subseteq new, NEW few, NEW many, few \subseteq many
  PROVE  /\ \A rows : RowsTrue(rows, few) => RowsTrue(rows, many)
         /\ \A s : PassTrue(s, old, few) => PassTrue(s, new, many)
<1>1. \A rows : RowsTrue(rows, few) => RowsTrue(rows, many)
  BY DEF RowsTrue
<1> QED BY <1>1 DEF PassTrue

LEMMA IdleTrue ==
  ASSUME NEW truths, NEW excused
  PROVE  PassTrue(Idle, truths, excused)
BY DEF PassTrue, RowsTrue, Idle

LEMMA StoppedTrue ==
  ASSUME NEW truths, NEW excused, NEW s, NEW t, PassTrue(s, truths, excused), Stopped(s, t)
  PROVE  PassTrue(t, truths, excused)
<1>1. CASE t.hand = Absent /\ SamePlan(s, t)
  BY <1>1 DEF PassTrue, SamePlan, SameScan
<1> QED BY <1>1, IdleTrue DEF Stopped

(* What is read from a path now is true of any mtime the path had. *)
LEMMA ReadIsTrue ==
  ASSUME TypeOK, NEW x \in Paths, NEW m, NEW j \in Ids, NEW g \in Hashes,
         <<x, m, j, g>> \in Truths, ReadNow(x) \in Identities
  PROVE  <<x, m, ReadNow(x).id, ReadNow(x).hash>> \in Truths
<1>1. PICK n \in held[x] :
        n.mtime = m /\ ((n.id = j /\ n.hash = g) \/ disk[x] # n \/ x \in returned)
  BY DEF Truths
<1>2. m \in Nat
  BY DEF Truths
<1>3. /\ disk[x] \in Notes /\ ReadNow(x).id = disk[x].id /\ ReadNow(x).hash = disk[x].hash
      /\ ReadNow(x).id \in Ids /\ ReadNow(x).hash \in Hashes
  BY ReadNowFacts
<1>4. (n.id = ReadNow(x).id /\ n.hash = ReadNow(x).hash) \/ disk[x] # n
  BY <1>3
<1> QED BY <1>1, <1>2, <1>3, <1>4 DEF Truths

LEMMA DiskIsTrue ==
  ASSUME TypeOK, HeldNotes, NEW x \in Paths, disk[x] # Absent
  PROVE  /\ disk[x].id \in Ids /\ disk[x].hash \in Hashes /\ disk[x].mtime \in Nat \ {0}
         /\ <<x, disk[x].mtime, disk[x].id, disk[x].hash>> \in Truths
<1>1. disk[x] \in Notes /\ disk[x] \in held[x] /\ disk[x].mtime \in 1..clock
  BY DEF TypeOK, HeldNotes
<1>2. disk[x].id \in Ids /\ disk[x].hash \in Hashes /\ disk[x].mtime \in Nat \ {0}
  BY <1>1 DEF Notes, TypeOK
<1> QED BY <1>1, <1>2 DEF Truths

(* The vault. *)
LEMMA TouchKeepsTruths ==
  ASSUME TypeOK, NEW x \in Paths, NEW n, Touch(x, n)
  PROVE  Truths \subseteq Truths'
<1>1. ASSUME NEW t \in Truths
      PROVE  t \in Truths'
  <2>1. PICK k \in held[t[1]] :
          /\ k.mtime = t[2]
          /\ (k.id = t[3] /\ k.hash = t[4]) \/ disk[t[1]] # k \/ t[1] \in returned
    BY DEF Truths
  <2>2. t \in Paths \X Nat \X Ids \X Hashes /\ t[1] \in Paths
    BY DEF Truths
  <2>3. k \in held'[t[1]]
    BY <2>1, <2>2 DEF Touch, TypeOK
  <2>4. (k.id = t[3] /\ k.hash = t[4]) \/ disk'[t[1]] # k \/ t[1] \in returned'
    BY <2>1, <2>2 DEF Touch, Returned, TypeOK
  <2> QED BY <2>1, <2>2, <2>3, <2>4 DEF Truths
<1> QED BY <1>1

LEMMA MoveKeepsTruths ==
  ASSUME TypeOK, NEW x \in Paths, NEW y \in Paths, Move(x, y)
  PROVE  Truths \subseteq Truths'
<1>1. ASSUME NEW t \in Truths
      PROVE  t \in Truths'
  <2>1. PICK k \in held[t[1]] :
          /\ k.mtime = t[2]
          /\ (k.id = t[3] /\ k.hash = t[4]) \/ disk[t[1]] # k \/ t[1] \in returned
    BY DEF Truths
  <2>2. t \in Paths \X Nat \X Ids \X Hashes /\ t[1] \in Paths
    BY DEF Truths
  <2>3. k \in held'[t[1]] /\ k # Absent /\ x # y
    BY <2>1, <2>2, ReconcileAssumption DEF Move, TypeOK
  <2>4. (k.id = t[3] /\ k.hash = t[4]) \/ disk'[t[1]] # k \/ t[1] \in returned'
    BY <2>1, <2>2, <2>3 DEF Move, Returned, TypeOK
  <2> QED BY <2>1, <2>2, <2>3, <2>4 DEF Truths
<1> QED BY <1>1

(* Every edit brings back a note held before, or one with a new mtime, or  *)
(* keeps the mtime.                                                        *)
LEMMA EditHeld ==
  ASSUME TypeOK, HeldNotes, SavesMoveMtime => MtimesTell, Edit
  PROVE  HeldNotes' /\ (SavesMoveMtime => MtimesTell)'
<1>0. env' = env /\ clock \in Nat
  BY DEF Edit, Save, Delete, Restore, SaveSameTick, Move, Touch, TypeOK
<1>1. ASSUME NEW x \in Paths, Save(x)
      PROVE  HeldNotes' /\ (SavesMoveMtime => MtimesTell)'
  <2>1. PICK i \in Ids, h \in Hashes :
          Touch(x, [id |-> i, hash |-> h, mtime |-> clock + 1]) /\ clock' = clock + 1
    BY <1>1 DEF Save
  <2>2. PICK n : n = [id |-> i, hash |-> h, mtime |-> clock + 1]
    OBVIOUS
  <2>3. n # Absent /\ n.mtime = clock + 1
    BY <2>2, <1>0, ReconcileAssumption DEF Notes
  <2>4. /\ disk' = [disk EXCEPT ![x] = n] /\ held' = [held EXCEPT ![x] = @ \cup {n}]
    BY <2>1, <2>2, <2>3 DEF Touch
  <2>5. \A z \in Paths : \A k \in held'[z] : k \in held[z] \/ k = n
    BY <2>4 DEF TypeOK
  <2>6. HeldNotes'
    BY <1>0, <2>1, <2>3, <2>4, <2>5 DEF HeldNotes, TypeOK
  <2>7. MtimesTell => MtimesTell'
    <3>1. \A z \in Paths : \A k \in held[z] : k.mtime # n.mtime
      BY <1>0, <2>3 DEF HeldNotes
    <3> QED BY <2>5, <3>1 DEF MtimesTell
  <2> QED BY <1>0, <2>6, <2>7 DEF SavesMoveMtime
<1>2. ASSUME NEW x \in Paths, Delete(x)
      PROVE  HeldNotes' /\ (SavesMoveMtime => MtimesTell)'
  <2>1. disk' = [disk EXCEPT ![x] = Absent] /\ UNCHANGED <<held, clock>>
    BY <1>2 DEF Delete, Touch
  <2> QED BY <1>0, <2>1 DEF HeldNotes, MtimesTell, SavesMoveMtime, TypeOK
<1>3. ASSUME NEW x \in Paths, Restore(x)
      PROVE  HeldNotes' /\ (SavesMoveMtime => MtimesTell)'
  <2>1. PICK n \in held[x] : Touch(x, n) /\ clock' = clock
    BY <1>3 DEF Restore
  <2>2. disk' = [disk EXCEPT ![x] = n] /\ held' = held /\ n # Absent
    BY <2>1, ReconcileAssumption DEF Touch, TypeOK
  <2> QED BY <1>0, <2>1, <2>2 DEF HeldNotes, MtimesTell, SavesMoveMtime, TypeOK
<1>4. ASSUME NEW x \in Paths, SaveSameTick(x)
      PROVE  HeldNotes' /\ (SavesMoveMtime => MtimesTell)'
  <2>1. PICK h \in Hashes : Touch(x, [disk[x] EXCEPT !.hash = h]) /\ clock' = clock
    BY <1>4 DEF SaveSameTick
  <2>2. PICK n : n = [disk[x] EXCEPT !.hash = h]
    OBVIOUS
  <2>3. disk[x] \in Notes
    BY <1>4 DEF SaveSameTick, TypeOK
  <2>4. n \in Notes /\ n.mtime = disk[x].mtime
    BY <2>2, <2>3 DEF Notes
  <2>5. n # Absent
    BY <2>4, ReconcileAssumption
  <2>6. disk' = [disk EXCEPT ![x] = n] /\ held' = [held EXCEPT ![x] = @ \cup {n}]
    BY <2>1, <2>2, <2>5 DEF Touch
  <2>7. HeldNotes'
    BY <1>0, <2>1, <2>3, <2>4, <2>5, <2>6, ReconcileAssumption DEF HeldNotes, TypeOK
  <2>8. ~SavesMoveMtime'
    BY <1>0, <1>4 DEF SaveSameTick, SavesMoveMtime
  <2> QED BY <2>7, <2>8
<1>5. ASSUME NEW x \in Paths, NEW y \in Paths, Move(x, y)
      PROVE  HeldNotes' /\ (SavesMoveMtime => MtimesTell)'
  <2>1. /\ disk' = [disk EXCEPT ![x] = Absent, ![y] = disk[x]] /\ disk[x] \in held[x] /\ x # y
        /\ held' = [held EXCEPT ![y] = @ \cup {disk[x]}] /\ clock' = clock
    BY <1>5 DEF Move, HeldNotes
  <2>2. HeldNotes'
    BY <1>0, <2>1 DEF HeldNotes, TypeOK
  <2>3. \A z \in Paths : \A k \in held'[z] : \E w \in Paths : k \in held[w]
    BY <2>1 DEF TypeOK
  <2>4. MtimesTell => MtimesTell'
    BY <2>3 DEF MtimesTell
  <2> QED BY <1>0, <2>2, <2>4 DEF SavesMoveMtime
<1> QED BY <1>1, <1>2, <1>3, <1>4, <1>5 DEF Edit

LEMMA EditRight ==
  ASSUME TypeOK, Rightly, Edit
  PROVE  Rightly'
<1>1. HeldNotes' /\ (SavesMoveMtime => MtimesTell)'
  BY EditHeld DEF Rightly
<1>2. UNCHANGED <<index, lock, pass, crossed>>
  BY DEF Edit, Save, Delete, Restore, SaveSameTick, Move, Touch
<1>3. Truths \subseteq Truths'
  BY TouchKeepsTruths, MoveKeepsTruths DEF Edit, Save, Delete, Restore, SaveSameTick
<1>4. Excused \subseteq Excused'
  BY <1>2, <1>3 DEF Excused
<1> QED BY <1>1, <1>2, <1>3, <1>4, TruthsGrow DEF Rightly

(* The passes. *)
LEMMA VaultRests ==
  ASSUME UNCHANGED <<disk, clock, held, returned, env>>, Rightly, crossed \subseteq crossed'
  PROVE  /\ Truths' = Truths /\ Excused \subseteq Excused'
         /\ HeldNotes' /\ (SavesMoveMtime => MtimesTell)'
<1>1. Truths' = Truths
  BY DEF Truths
<1> QED BY <1>1 DEF Rightly, Excused, HeldNotes, MtimesTell, SavesMoveMtime

LEMMA ActsRest ==
  ASSUME NEW p, Acts(p)
  PROVE  /\ UNCHANGED <<disk, clock, held, returned, env, touched, edits>>
         /\ crossed \subseteq crossed'
<1>1. UNCHANGED <<disk, clock, held, returned, env, touched, edits>>
  BY DEF Acts, Step, Start, Walk, Snapshot, Prepare, Prepared, Purge, Purged, Apply, Store, Applied,
     Stamp, GetGeneration, SetGeneration, Drop, Target, StoreFails, Cancel, Crash,
     Reads, vaultVars, editVars
<1>2. crossed' = crossed \/ \E i, x, m : RecordMtime(p, i, x, m)
  BY DEF Acts, Step, Start, Walk, Snapshot, Prepare, Prepared, Purge, Purged, Apply, Store, Applied,
     Stamp, GetGeneration, SetGeneration, Drop, Target, StoreFails, Cancel, Crash,
     Reads, vaultVars, Skip, SecondRead
<1> QED BY <1>1, <1>2 DEF RecordMtime

LEMMA RightFacts ==
  ASSUME TypeOK, Rightly, InOrder, NEW p \in Procs, Acts(p)
  PROVE  /\ pass[p] \in PassTypes /\ PassTrue(pass[p], Truths, Excused') /\ Orderly(pass[p])
         /\ View(p) \in Tables /\ RowsTrue(View(p), Excused') /\ RowsTrue(index, Excused')
<1>1. Excused \subseteq Excused'
  BY ActsRest, VaultRests
<1>2. RowsTrue(View(p), Excused) /\ RowsTrue(index, Excused) /\ PassTrue(pass[p], Truths, Excused)
  BY ReconcileAssumption DEF Rightly, View
<1> QED BY <1>1, <1>2, TruthsGrow, ViewTyped DEF TypeOK, InOrder

(* What a step puts into the index was in it, or is what this process sees. *)
LEMMA RightStep ==
  ASSUME TypeOK, Rightly, NEW p \in Procs, Acts(p), PassTrue(pass'[p], Truths, Excused'),
         RowsTrue(View(p)', Excused')
  PROVE  Rightly'
<1>1. /\ Truths' = Truths /\ Excused \subseteq Excused'
      /\ HeldNotes' /\ (SavesMoveMtime => MtimesTell)'
  BY ActsRest, VaultRests
<1>2. \A q \in Procs : PassTrue(pass'[q], Truths, Excused')
  BY <1>1, OthersRest, TruthsGrow DEF Rightly
<1>3. /\ RowsTrue(index, Excused')
      /\ lock.owner # NoProc => RowsTrue(lock.rows, Excused')
  BY <1>1, TruthsGrow DEF Rightly
<1>4. RowsTrue(index', Excused') /\ (lock'.owner # NoProc => RowsTrue(lock'.rows, Excused'))
  <2>1. CASE UNCHANGED <<index, lock>>
    BY <1>3, <2>1
  <2>2. CASE Rollback(p) /\ UNCHANGED index
    BY <1>3, <2>2 DEF Rollback, FreeLock
  <2>3. CASE Commit(p)
    BY <1>3, <2>3, ReconcileAssumption DEF Commit, FreeLock
  <2>4. ASSUME NEW rows, Write(p, rows)
        PROVE  /\ RowsTrue(index', Excused')
               /\ lock'.owner # NoProc => RowsTrue(lock'.rows, Excused')
    <3>1. View(p)' = rows
      BY <2>4, ViewAfter
    <3> QED BY <1>3, <2>4, <3>1 DEF Write, FreeLock
  <2> QED BY <2>1, <2>2, <2>3, <2>4, ActsWrites
<1> QED BY <1>1, <1>2, <1>4 DEF Rightly

LEMMA WithoutTrue ==
  ASSUME NEW rows \in Tables, NEW truths, RowsTrue(rows, truths), NEW i
  PROVE  RowsTrue(Without(rows, i), truths)
BY DEF RowsTrue, Without, Tables

LEMMA RaiseRight ==
  ASSUME TypeOK, Rightly, InOrder, NEW p \in Procs, Acts(p), UNCHANGED index, Rollback(p),
         Stopped(pass[p], pass'[p]) \/ pass'[p] = Idle
  PROVE  Rightly'
<1>1. PassTrue(pass'[p], Truths, Excused')
  BY RightFacts, StoppedTrue, IdleTrue
<1>2. View(p)' = index
  BY ViewAfter
<1> QED BY <1>1, <1>2, RightFacts, RightStep

LEMMA ScanRight ==
  ASSUME TypeOK, Rightly, InOrder, NEW p \in Procs, Acts(p), Start(p) \/ Walk(p) \/ Snapshot(p)
  PROVE  Rightly'
<1>0. PassTrue(pass[p], Truths, Excused') /\ Orderly(pass[p]) /\ RowsTrue(View(p), Excused')
  BY RightFacts
<1>1. View(p)' = View(p) /\ UNCHANGED <<index, lock>>
  BY StartEffect, WalkEffect, SnapshotEffect, ViewAfter
<1>2. CASE Start(p)
  <2>1. PassTrue(pass'[p], Truths, Excused')
    BY <1>0, <1>2, StartEffect DEF PassTrue, Orderly
  <2> QED BY <1>0, <1>1, <2>1, RightStep
<1>3. CASE Walk(p)
  <2>1. PICK y \in pass[p].todo :
          /\ pass[p].pc = "walk" /\ pass'[p].kind = pass[p].kind
          /\ pass'[p].snap = pass[p].snap /\ pass'[p].prepared = pass[p].prepared
          /\ pass'[p].hand = pass[p].hand
          /\ \A x \in Paths : pass'[p].live[x] =
               IF x # y THEN pass[p].live[x] ELSE IF disk[y] = Absent THEN 0 ELSE disk[y].mtime
    BY <1>3, WalkEffect
  <2>2. y \in Paths
    BY RightFacts, <2>1 DEF PassTypes
  <2>3. /\ pass'[p].hand = Absent
        /\ \A x \in Paths : pass'[p].prepared[x] \notin Identities
    BY <1>0, <2>1, ReconcileAssumption DEF Orderly
  <2>4. ASSUME NEW x \in Paths, pass'[p].live[x] # 0
        PROVE  \E i \in Ids, h \in Hashes : <<x, pass'[p].live[x], i, h>> \in Truths
    <3>1. CASE x = y
      BY <2>1, <2>4, <3>1, DiskIsTrue DEF Rightly
    <3>2. CASE x # y
      BY <1>0, <2>1, <2>4, <3>2 DEF PassTrue
    <3> QED BY <3>1, <3>2
  <2>5. PassTrue(pass'[p], Truths, Excused')
    BY <1>0, <2>1, <2>3, <2>4 DEF PassTrue
  <2> QED BY <1>0, <1>1, <2>5, RightStep
<1>4. CASE Snapshot(p)
  <2>1. PassTrue(pass'[p], Truths, Excused')
    BY <1>0, <1>4, SnapshotEffect DEF PassTrue
  <2> QED BY <1>0, <1>1, <2>1, RightStep
<1> QED BY <1>2, <1>3, <1>4

LEMMA PrepareRight ==
  ASSUME TypeOK, Rightly, InOrder, NEW p \in Procs, Acts(p), Prepare(p)
  PROVE  Rightly'
<1>0. PassTrue(pass[p], Truths, Excused') /\ Orderly(pass[p]) /\ RowsTrue(View(p), Excused')
  BY RightFacts
<1>1. PICK y \in Paths, outcome \in Identities \cup {Absent, Unreadable, Undecodable} :
        /\ pass[p].pc = "prepare" /\ UNCHANGED index
        /\ y \in Live(pass[p]) /\ Found(p, y, outcome)
        /\ Raise(p) \/ Claimed(p, y, outcome)
  BY PrepareEffect
<1>2. CASE Raise(p)
  BY <1>1, <1>2, RaiseEffect, RaiseRight DEF Raise
<1>3. CASE Claimed(p, y, outcome)
  <2>1. View(p)' = View(p) /\ UNCHANGED <<index, lock>>
    BY <1>1, <1>3, ViewAfter DEF Claimed
  <2>2. outcome \in Identities =>
          <<y, pass[p].live[y], outcome.id, outcome.hash>> \in Truths
    <3>1. outcome \in Identities => outcome = ReadNow(y)
      BY <1>1, ReconcileAssumption DEF Found
    <3>2. PICK i \in Ids, h \in Hashes : <<y, pass[p].live[y], i, h>> \in Truths
      BY <1>0, <1>1 DEF PassTrue, Live
    <3> QED BY <3>1, <3>2, ReadIsTrue
  <2>3. /\ pass'[p].snap = pass[p].snap /\ pass'[p].live = pass[p].live /\ pass'[p].hand = Absent
        /\ \A x \in Paths : pass'[p].prepared[x] = IF x = y THEN outcome ELSE pass[p].prepared[x]
    BY <1>0, <1>1, <1>3 DEF Claimed, SameScan, Orderly
  <2>4. PassTrue(pass'[p], Truths, Excused')
    BY <1>0, <2>2, <2>3 DEF PassTrue
  <2> QED BY <1>0, <2>1, <2>4, RightStep
<1> QED BY <1>1, <1>2, <1>3

LEMMA PurgeRight ==
  ASSUME TypeOK, Rightly, InOrder, NEW p \in Procs, Acts(p),
         Prepared(p) \/ Purge(p) \/ Purged(p) \/ Applied(p)
  PROVE  Rightly'
<1>0. /\ PassTrue(pass[p], Truths, Excused') /\ Orderly(pass[p]) /\ RowsTrue(View(p), Excused')
      /\ View(p) \in Tables
  BY RightFacts
<1>1. /\ SamePlan(pass[p], pass'[p]) /\ pass'[p].hand = pass[p].hand
  BY PreparedEffect, PurgeEffect, PurgedEffect, AppliedEffect
<1>2. PassTrue(pass'[p], Truths, Excused')
  BY <1>0, <1>1 DEF PassTrue, SamePlan, SameScan
<1>3. CASE Prepared(p) \/ Purged(p)
  BY <1>0, <1>2, <1>3, PreparedEffect, PurgedEffect, ViewAfter, RightStep
<1>4. CASE Applied(p)
  BY <1>0, <1>2, <1>4, AppliedEffect, ViewAfter, RightStep
<1>5. CASE Purge(p)
  <2>1. PICK i : Write(p, Without(View(p), i))
    BY <1>5, PurgeEffect
  <2>2. RowsTrue(View(p)', Excused')
    BY <1>0, <2>1, WithoutTrue, ViewAfter
  <2> QED BY <1>2, <2>1, <2>2, RightStep
<1> QED BY <1>3, <1>4, <1>5

(* A newer mtime for a row that holds what the note had then, or for a row *)
(* that is crossed from now on.                                            *)
LEMMA WithMtimeTrue ==
  ASSUME NEW truths, NEW rows \in Tables, RowsTrue(rows, truths), NEW i \in Ids, NEW m \in Nat,
         rows[i] # Absent => <<rows[i].path, m, i, rows[i].hash>> \in truths
  PROVE  RowsTrue(WithMtime(rows, i, m), truths)
<1> PICK w : w = WithMtime(rows, i, m)
  OBVIOUS
<1>1. ASSUME NEW j \in Ids, w[j] # Absent
      PROVE  /\ w[j].hash # Undecodable
             /\ w[j].mtime # 0 => <<w[j].path, w[j].mtime, j, w[j].hash>> \in truths
  <2>1. rows[j] # Absent /\ w[j].path = rows[j].path /\ w[j].hash = rows[j].hash
    BY <1>1, WithMtimeKeeps
  <2>2. CASE j = i
    BY <2>1, <2>2, WithMtimeKeeps DEF RowsTrue
  <2>3. CASE j # i
    <3>1. w[j] = rows[j]
      BY <2>3 DEF WithMtime, Tables
    <3> QED BY <2>1, <3>1 DEF RowsTrue
  <2> QED BY <2>2, <2>3
<1> QED BY <1>1 DEF RowsTrue

LEMMA RecordedTrue ==
  ASSUME TypeOK, Rightly, InOrder, NEW p \in Procs, Acts(p), NEW i \in Ids, NEW x \in Paths,
         <<x, pass[p].live[x], i, pass[p].snap[i].hash>> \in Truths, CrossesAt(p, i, x),
         \/ UNCHANGED <<index, lock, calm>>
         \/ Write(p, WithMtime(View(p), i, pass[p].live[x]))
  PROVE  RowsTrue(View(p)', Excused')
<1>0. /\ RowsTrue(View(p), Excused') /\ View(p) \in Tables /\ pass[p].live[x] \in Nat
      /\ Truths' = Truths
  BY RightFacts, ActsRest, VaultRests DEF PassTypes
<1>1. CASE UNCHANGED <<index, lock>>
  BY <1>0, <1>1, ViewAfter
<1>2. CASE /\ Write(p, WithMtime(View(p), i, pass[p].live[x]))
           /\ crossed' = crossed \cup {i} \/
                (View(p)[i] # Absent =>
                   View(p)[i].path = x /\ View(p)[i].hash = pass[p].snap[i].hash)
  <2>1. ASSUME View(p)[i] # Absent
        PROVE  <<View(p)[i].path, pass[p].live[x], i, View(p)[i].hash>> \in Excused'
    <3>1. CASE View(p)[i].path = x /\ View(p)[i].hash = pass[p].snap[i].hash
      BY <1>0, <3>1 DEF Excused
    <3>2. CASE i \in crossed'
      <4>1. View(p)[i].path \in Paths /\ View(p)[i].hash \in Hashes
        BY <1>0, <2>1 DEF Tables, Rows
      <4> QED BY <1>0, <3>2, <4>1 DEF Excused
    <3> QED BY <1>2, <2>1, <3>1, <3>2
  <2>2. RowsTrue(WithMtime(View(p), i, pass[p].live[x]), Excused')
    BY <1>0, <2>1, WithMtimeTrue
  <2> QED BY <1>2, <2>2, ViewAfter
<1> QED BY <1>1, <1>2 DEF CrossesAt, SnapshotRow

LEMMA ApplyRight ==
  ASSUME TypeOK, Rightly, InOrder, Upgrading, NEW p \in Procs, Acts(p), Apply(p)
  PROVE  Rightly'
<1>0. /\ PassTrue(pass[p], Truths, Excused') /\ Orderly(pass[p]) /\ RowsTrue(View(p), Excused')
      /\ View(p) \in Tables /\ pass[p] \in PassTypes
  BY RightFacts
<1>1. PICK y \in pass[p].todo : Skip(p, y) \/ SecondRead(p, y)
  BY DEF Apply
<1>2. /\ y \in Paths /\ pass[p].pc = "apply" /\ y \in Live(pass[p]) /\ pass[p].hand = Absent
      /\ pass[p].prepared[y] \in Identities /\ pass[p].live[y] \in Nat \ {0}
  BY <1>0, <1>1, ApplyFacts DEF Apply, PassTypes, Orderly, Live
<1>3. Settled(p, y) => PassTrue(pass'[p], Truths, Excused')
  BY <1>0, SettleEffect DEF PassTrue, SamePlan, SameScan
<1>4. CASE Skip(p, y)
  <2>1. PICK i \in Ids :
          /\ pass[p].prepared[y] = [id |-> i, hash |-> pass[p].snap[i].hash]
          /\ UNCHANGED <<index, lock, calm>> \/ Write(p, WithMtime(View(p), i, pass[p].live[y]))
          /\ CrossesAt(p, i, y) /\ Settled(p, y)
    BY <1>4, SkipEffect
  <2>2. pass[p].prepared[y].id = i /\ pass[p].prepared[y].hash = pass[p].snap[i].hash
    BY <2>1
  <2>3. <<y, pass[p].live[y], i, pass[p].snap[i].hash>> \in Truths
    BY <1>0, <1>2, <2>2 DEF PassTrue
  <2>4. RowsTrue(View(p)', Excused')
    BY <1>2, <2>1, <2>3, RecordedTrue
  <2> QED BY <1>3, <2>1, <2>4, RightStep
<1>5. CASE SecondRead(p, y)
  <2>1. UNCHANGED index
    BY <1>2, <1>5, SecondReadEffect
  <2>2. CASE Settled(p, y) /\ UNCHANGED lock
    BY <1>0, <1>3, <2>1, <2>2, ViewAfter, RightStep
  <2>3. CASE Raise(p)
    BY <2>1, <2>3, RaiseEffect, RaiseRight DEF Raise
  <2>4. CASE InHand(p, y)
    <3>1. /\ pass'[p].snap = pass[p].snap /\ pass'[p].live = pass[p].live
          /\ pass'[p].prepared = pass[p].prepared /\ pass'[p].hand.path = y
          /\ pass'[p].hand.id = ReadNow(y).id /\ pass'[p].hand.hash = ReadNow(y).hash
      BY <2>4 DEF InHand, SamePlan, SameScan
    <3>2. PICK i \in Ids, h \in Hashes : <<y, pass[p].live[y], i, h>> \in Truths
      BY <1>0, <1>2 DEF PassTrue
    <3>3. <<y, pass[p].live[y], ReadNow(y).id, ReadNow(y).hash>> \in Truths
      BY <1>2, <2>4, <3>2, ReadIsTrue DEF InHand
    <3>4. ReadNow(y).hash # Undecodable
      BY <1>2, <2>4, ReadNowFacts DEF InHand
    <3>5. PassTrue(pass'[p], Truths, Excused')
      BY <1>0, <3>1, <3>3, <3>4 DEF PassTrue
    <3> QED BY <1>0, <2>1, <2>4, <3>5, ViewAfter, RightStep DEF InHand
  <2> QED BY <1>2, <1>5, <2>2, <2>3, <2>4, SecondReadEffect
<1> QED BY <1>1, <1>4, <1>5

LEMMA StoreRight ==
  ASSUME TypeOK, Rightly, InOrder, NEW p \in Procs, Acts(p), Store(p)
  PROVE  Rightly'
<1>0. /\ PassTrue(pass[p], Truths, Excused') /\ Orderly(pass[p]) /\ RowsTrue(View(p), Excused')
      /\ View(p) \in Tables /\ pass[p] \in PassTypes
      /\ pass[p].pc = (IF Bulk(p) THEN "apply" ELSE "store") /\ pass[p].hand # Absent
      /\ pass[p].hand.path \in Paths /\ pass[p].hand.id \in Ids /\ pass[p].hand.hash \in Hashes
  BY RightFacts, StoreEffect
<1>1. PICK x, i, h : x = pass[p].hand.path /\ i = pass[p].hand.id /\ h = pass[p].hand.hash
  OBVIOUS
<1>2. h # Undecodable /\ (Bulk(p) => <<x, pass[p].live[x], i, h>> \in Truths)
  BY <1>0, <1>1 DEF PassTrue, Bulk
<1>3. CASE Raise(p) /\ UNCHANGED index
  BY <1>3, RaiseEffect, RaiseRight DEF Raise
<1>4. CASE StoreSame(p)
  <2>1. PassTrue(pass'[p], Truths, Excused')
    BY <1>0, <1>4 DEF StoreSame, PassTrue, SamePlan, SameScan
  <2>2. <<x, pass[p].live[x], i, pass[p].snap[i].hash>> \in Truths
    BY <1>1, <1>2, <1>4 DEF StoreSame
  <2>3. RowsTrue(View(p)', Excused')
    BY <1>0, <1>1, <1>4, <2>2, RecordedTrue DEF StoreSame
  <2> QED BY <2>1, <2>3, RightStep
<1>5. CASE StoreRow(p)
  <2>1. PassTrue(pass'[p], Truths, Excused')
    BY <1>0, <1>5 DEF StoreRow, PassTrue, SamePlan, SameScan
  <2>2. PICK row : row = [path |-> x, hash |-> h, mtime |-> MtimeFor(p, x), current |-> TRUE]
    OBVIOUS
  <2>3. Write(p, Upsert(View(p), i, row))
    BY <1>1, <1>5, <2>2 DEF StoreRow
  <2>4. /\ row.path = x /\ row.hash = h
        /\ row.mtime # 0 => <<x, row.mtime, i, h>> \in Excused'
    <3>1. Truths' = Truths
      BY ActsRest, VaultRests
    <3> QED BY <1>2, <2>2, <3>1 DEF MtimeFor, Excused
  <2>5. RowsTrue(Upsert(View(p), i, row), Excused')
    BY <1>0, <1>2, <2>4 DEF RowsTrue, Upsert
  <2> QED BY <2>1, <2>3, <2>5, ViewAfter, RightStep
<1> QED BY <1>3, <1>4, <1>5, StoreEffect

LEMMA EndingRight ==
  ASSUME TypeOK, Rightly, InOrder, NEW p \in Procs, Acts(p),
         \/ Stamp(p) \/ GetGeneration(p) \/ SetGeneration(p) \/ Drop(p)
         \/ \E y \in Paths : Target(p, y)
         \/ StoreFails(p) \/ Cancel(p) \/ Crash(p)
  PROVE  Rightly'
<1>0. /\ PassTrue(pass[p], Truths, Excused') /\ Orderly(pass[p]) /\ RowsTrue(View(p), Excused')
      /\ View(p) \in Tables
  BY RightFacts
<1>1. CASE StoreFails(p) \/ Cancel(p) \/ Crash(p)
  BY <1>1, FaultEffect, RaiseRight
<1>2. CASE Stamp(p) \/ GetGeneration(p) \/ SetGeneration(p)
  <2>1. /\ UNCHANGED <<index, lock>>
        /\ pass'[p] = Idle \/ (SamePlan(pass[p], pass'[p]) /\ pass'[p].hand = pass[p].hand)
    BY <1>2, StampEffect, GetEffect, SetEffect
  <2>2. PassTrue(pass'[p], Truths, Excused')
    BY <1>0, <2>1, IdleTrue DEF PassTrue, SamePlan, SameScan
  <2> QED BY <1>0, <2>1, <2>2, ViewAfter, RightStep
<1>3. CASE Drop(p)
  <2>1. PassTrue(pass'[p], Truths, Excused')
    BY <1>0, <1>3, DropEffect DEF PassTrue, SamePlan, SameScan
  <2>2. CASE UNCHANGED <<index, lock, calm>>
    BY <1>0, <2>1, <2>2, ViewAfter, RightStep
  <2>3. ASSUME NEW i \in Ids, Write(p, Without(View(p), i))
        PROVE  Rightly'
    BY <1>0, <2>1, <2>3, WithoutTrue, ViewAfter, RightStep
  <2> QED BY <1>3, <2>2, <2>3, DropEffect
<1>4. ASSUME NEW y \in Paths, Target(p, y)
      PROVE  Rightly'
  <2>1. ReadNow(y).hash # Undecodable
    BY <1>4, TargetEffect, ReadNowFacts
  <2>2. PassTrue(pass'[p], Truths, Excused')
    BY <1>0, <1>4, <2>1, TargetEffect DEF PassTrue
  <2> QED BY <1>0, <1>4, <2>2, TargetEffect, ViewAfter, RightStep
<1> QED BY <1>1, <1>2, <1>3, <1>4

LEMMA RightNext ==
  ASSUME TypeOK, Upgrading, InOrder, Rightly, [Next]_vars
  PROVE  Rightly'
<1>1. env.procs \subseteq Procs
  BY ReconcileAssumption DEF TypeOK, SettingType
<1>2. CASE Edit
  BY <1>2, EditRight
<1>3. CASE UNCHANGED <<disk, clock, held, returned, env, index, lock, pass, crossed>>
  <2>1. Truths' = Truths /\ Excused' = Excused
    BY <1>3 DEF Truths, Excused
  <2> QED BY <1>3, <2>1, VaultRests DEF Rightly
<1>4. ASSUME NEW p \in env.procs, Acts(p)
      PROVE  Rightly'
  BY <1>1, <1>4, ScanRight, PrepareRight, PurgeRight, ApplyRight, StoreRight, EndingRight
     DEF Acts, Step
<1> QED BY <1>2, <1>3, <1>4 DEF Next, Acts, Hit, AskGeneration, AskRows, vars, vaultVars, editVars

LEMMA InitRight ==
  ASSUME Init
  PROVE  Rightly
<1> USE TickIsInjective
<1>0. TypeOK
  BY InitTyped
<1>1. PICK f \in [Paths -> Ids \cup {Absent}] :
        /\ \E h \in Hashes \ {Undecodable} :
             disk = [x \in Paths |-> IF f[x] = Absent THEN Absent
                                     ELSE [id |-> f[x], hash |-> h, mtime |-> Tick[x]]]
        /\ index = [i \in Ids |->
             IF \E x \in Paths : f[x] = i
               THEN LET x == CHOOSE y \in Paths : f[y] = i
                    IN  [path |-> x, hash |-> disk[x].hash, mtime |-> Tick[x],
                         current |-> ~env.old]
               ELSE Absent]
  BY DEF Init
<1>2. /\ \A x \in Paths : held[x] = IF disk[x] = Absent THEN {} ELSE {disk[x]}
      /\ clock = Cardinality(Paths) /\ lock.owner = NoProc /\ \A p \in Procs : pass[p] = Idle
  BY DEF Init, FreeLock
<1>3. ASSUME NEW x \in Paths, disk[x] # Absent
      PROVE  /\ disk[x].id = f[x] /\ disk[x].mtime = Tick[x] /\ disk[x].hash # Undecodable
             /\ disk[x].mtime \in 1..clock
  BY <1>1, <1>2, <1>3
<1>9. ASSUME NEW x \in Paths, NEW n \in held[x]
      PROVE  disk[x] # Absent /\ n = disk[x] /\ n.mtime = Tick[x] /\ n.mtime \in 1..clock
  <2>1. disk[x] # Absent /\ n = disk[x]
    BY <1>2, <1>9
  <2> QED BY <1>3, <2>1
<1>4. HeldNotes
  <2>1. ASSUME NEW x \in Paths, disk[x] # Absent
        PROVE  disk[x] \in held[x]
    <3>1. held[x] = {disk[x]}
      BY <1>2, <2>1
    <3> QED BY <3>1
  <2> QED BY <1>9, <2>1 DEF HeldNotes
<1>5. MtimesTell
  <2>1. ASSUME NEW x \in Paths, NEW y \in Paths, NEW n \in held[x], NEW k \in held[y],
               n.mtime = k.mtime
        PROVE  n = k
    <3>1. n = disk[x] /\ k = disk[y] /\ Tick[x] = Tick[y]
      BY <1>9, <2>1
    <3>2. x = y
      BY <3>1
    <3> QED BY <3>1, <3>2
  <2> QED BY <2>1 DEF MtimesTell
<1>6. ASSUME NEW i \in Ids, index[i] # Absent
      PROVE  /\ index[i].hash # Undecodable
             /\ <<index[i].path, index[i].mtime, i, index[i].hash>> \in Truths
  <2>1. PICK x : x = CHOOSE y \in Paths : f[y] = i
    OBVIOUS
  <2>2. x \in Paths /\ f[x] = i
    BY <1>1, <1>6, <2>1
  <2>3. disk[x] # Absent
    <3>1. PICK h \in Hashes : disk[x] = [id |-> f[x], hash |-> h, mtime |-> Tick[x]]
      BY <1>1, <2>2, ReconcileAssumption
    <3>2. disk[x] \in Notes
      BY <2>2, <3>1 DEF Notes
    <3> QED BY <3>2, ReconcileAssumption
  <2>4. index[i].path = x /\ index[i].hash = disk[x].hash /\ index[i].mtime = disk[x].mtime
    BY <1>1, <1>3, <1>6, <2>1, <2>2, <2>3
  <2>5. <<x, disk[x].mtime, disk[x].id, disk[x].hash>> \in Truths
    BY <1>0, <1>4, <2>2, <2>3, DiskIsTrue
  <2> QED BY <1>3, <2>2, <2>3, <2>4, <2>5
<1>7. RowsTrue(index, Excused)
  BY <1>6 DEF RowsTrue, Excused
<1> QED BY <1>2, <1>4, <1>5, <1>7, IdleTrue DEF Rightly

LEMMA InitKnown ==
  ASSUME Init
  PROVE  InOrder /\ Known /\ Bystanders
<1>1. /\ lock.owner = NoProc /\ found = {}
      /\ \A p \in Procs : pass[p] = Idle /\ cache[p] = NoAnswer /\ ~calm[p]
  BY DEF Init, FreeLock
<1> QED BY <1>1, IdleOrderly DEF Known, InOrder, Bystanders

(* What the passes of any number of servers can rely on. *)
PassInv == TypeOK /\ Upgrading /\ InOrder /\ Known /\ Bystanders /\ Rightly

LEMMA PassInvHolds == Spec => []PassInv
<1>1. Init => PassInv
  BY InitTyped, InitUpgrade, InitRight, InitKnown DEF PassInv
<1>2. ASSUME TypeOK, TypeOK', PassInv, [Next]_vars
      PROVE  PassInv'
  BY <1>2, UpgradeNext, OrderNext, KnownNext, BystandersNext, RightNext DEF PassInv
<1> QED BY <1>1, <1>2, PassTypesHold, PTL DEF Spec

(* If saves move the mtime, a row that carries the mtime of its file       *)
(* carries its hash, unless an older file came back, or record_mtime once  *)
(* gave the row of its note an mtime that was taken for another row: the   *)
(* mtime gate skips nothing else it should read, with any number of        *)
(* servers, through edits between any two steps of a pass, batches,        *)
(* failures and deaths.                                                    *)
THEOREM GateIsSound == Spec => []GateSound
<1>1. ASSUME PassInv, SavesMoveMtime, NEW i \in Ids \ crossed
      PROVE  TrueRow(i)
  <2>0. SUFFICES ASSUME index[i] # Absent, disk[index[i].path] # Absent,
                        index[i].path \notin returned,
                        index[i].mtime = disk[index[i].path].mtime
                 PROVE  index[i].hash = disk[index[i].path].hash
    BY DEF TrueRow
  <2>1. PICK x \in Paths : x = index[i].path
    BY <1>1, <2>0 DEF PassInv, TypeOK, Tables, Rows
  <2>2. disk[x] \in held[x] /\ disk[x].mtime # 0
    BY <1>1, <2>0, <2>1, DiskIsTrue DEF PassInv, Rightly, HeldNotes
  <2>3. <<x, index[i].mtime, i, index[i].hash>> \in Truths
    BY <1>1, <2>0, <2>1, <2>2 DEF PassInv, Rightly, RowsTrue, Excused
  <2>4. PICK n \in held[x] : n.mtime = disk[x].mtime /\ (n.hash = index[i].hash \/ disk[x] # n)
    BY <2>0, <2>1, <2>3 DEF Truths
  <2>5. n = disk[x]
    BY <1>1, <2>1, <2>2, <2>4 DEF PassInv, Rightly, MtimesTell
  <2> QED BY <2>1, <2>4, <2>5
<1>2. PassInv => GateSound
  BY <1>1 DEF GateSound
<1> QED BY <1>2, PassInvHolds, PTL

(***************************************************************************)
(* One server: nobody else writes the index, so every pass knows what is   *)
(* in it, records mtimes for the rows of its snapshot alone and counts the *)
(* generations one by one.                                                 *)
(***************************************************************************)

SingleServer == \A setting \in Settings : \A p, q \in setting.procs : p = q

Alone ==
  /\ crossed = {} /\ ~slipped
  /\ \A p \in env.procs : /\ Knows(pass[p], View(p))
                          /\ pass[p].pc = "set" => pass[p].next = gen + 1

LEMMA SkipsOwnRow ==
  ASSUME TypeOK, InOrder, NEW p \in Procs, Knows(pass[p], View(p)), Apply(p)
  PROVE  crossed' = crossed
<1>0. Orderly(pass[p]) /\ pass[p] \in PassTypes
  BY DEF InOrder, TypeOK
<1>1. PICK y \in pass[p].todo : Skip(p, y) \/ SecondRead(p, y)
  BY DEF Apply
<1>2. pass[p].pc = "apply" /\ y \in Paths /\ pass[p].prepared[y] \in Identities
  BY <1>0, <1>1 DEF Apply, Orderly, PassTypes
<1>3. CASE Skip(p, y)
  <2>1. PICK i \in Ids : /\ pass[p].prepared[y] = [id |-> i, hash |-> pass[p].snap[i].hash]
                         /\ i \in Entry(pass[p], y) /\ CrossesAt(p, i, y)
    BY <1>3, SkipEffect
  <2>2. pass[p].prepared[y].id = i
    BY <2>1
  <2>3. pass[p].owners[i] = y
    BY <1>0, <1>2, <2>2 DEF Orderly
  <2>4. SnapshotRow(p, i, y)
    BY <1>1, <1>2, <2>1, <2>3 DEF Knows, Unclaimed, SnapshotRow, Entry
  <2> QED BY <2>1, <2>4 DEF CrossesAt
<1>4. CASE SecondRead(p, y)
  BY <1>4 DEF SecondRead
<1> QED BY <1>1, <1>3, <1>4

LEMMA StoresOwnRow ==
  ASSUME TypeOK, InOrder, NEW p \in Procs, Knows(pass[p], View(p)), Store(p)
  PROVE  crossed' = crossed
<1>0. /\ Orderly(pass[p]) /\ pass[p] \in PassTypes
      /\ pass[p].pc = (IF Bulk(p) THEN "apply" ELSE "store") /\ pass[p].hand # Absent
      /\ pass[p].hand.path \in Paths /\ pass[p].hand.id \in Ids
  BY StoreEffect DEF InOrder, TypeOK
<1>1. CASE StoreSame(p)
  <2>1. /\ pass[p].hand.id \in Entry(pass[p], pass[p].hand.path) /\ pass[p].pc = "apply"
        /\ CrossesAt(p, pass[p].hand.id, pass[p].hand.path)
    BY <1>0, <1>1 DEF StoreSame
  <2>2. Unclaimed(pass[p], pass[p].hand.id)
    BY <1>0, <2>1 DEF Orderly, Unclaimed
  <2>3. SnapshotRow(p, pass[p].hand.id, pass[p].hand.path)
    BY <1>0, <2>1, <2>2 DEF Knows, SnapshotRow, Entry
  <2> QED BY <2>1, <2>3 DEF CrossesAt
<1>2. CASE StoreRow(p) \/ (Raise(p) /\ UNCHANGED <<index, found, crossed>>)
  BY <1>2 DEF StoreRow
<1> QED BY <1>1, <1>2, StoreEffect

LEMMA SoleWriter ==
  ASSUME TypeOK, SingleServer
  PROVE  env.procs \subseteq Procs /\ \A p, q \in env.procs : p = q
BY ReconcileAssumption DEF TypeOK, SettingType, SingleServer

(* Only reading the generation leads to writing it. *)
LEMMA NotYetSet ==
  ASSUME TypeOK, NEW p \in Procs, Acts(p), ~GetGeneration(p)
  PROVE  pass'[p].pc # "set"
<1>0. Idle.pc # "set" /\ \A t : Stopped(pass[p], t) => t.pc # "set"
  BY DEF Stopped, Idle
<1>1. CASE Start(p) \/ Walk(p) \/ Snapshot(p)
  BY <1>1, StartEffect, WalkEffect, SnapshotEffect
<1>2. CASE Prepare(p)
  BY <1>0, <1>2, PrepareEffect, RaiseEffect DEF Claimed
<1>3. CASE Prepared(p) \/ Purge(p) \/ Purged(p) \/ Applied(p)
  BY <1>3, PreparedEffect, PurgeEffect, PurgedEffect, AppliedEffect
<1>4. CASE Apply(p)
  <2>1. PICK y \in pass[p].todo : Skip(p, y) \/ SecondRead(p, y)
    BY <1>4 DEF Apply
  <2>2. y \in Paths /\ pass[p].pc = "apply"
    BY <1>4 DEF Apply, TypeOK, PassTypes
  <2>3. Settled(p, y) \/ Raise(p) \/ InHand(p, y)
    BY <2>1, <2>2, SkipEffect, SecondReadEffect
  <2> QED BY <1>0, <2>2, <2>3, SettleEffect, RaiseEffect DEF InHand
<1>5. CASE Store(p)
  BY <1>0, <1>5, StoreEffect, RaiseEffect DEF StoreSame, StoreRow
<1>6. CASE Stamp(p) \/ SetGeneration(p) \/ Drop(p)
  BY <1>0, <1>6, StampEffect, SetEffect, DropEffect
<1>7. CASE \E y \in Paths : Target(p, y)
  BY <1>7, TargetEffect
<1>8. CASE StoreFails(p) \/ Cancel(p) \/ Crash(p)
  BY <1>0, <1>8, FaultEffect
<1> QED BY <1>1, <1>2, <1>3, <1>4, <1>5, <1>6, <1>7, <1>8 DEF Acts, Step

LEMMA AloneNext ==
  ASSUME TypeOK, InOrder, Alone, SingleServer, [Next]_vars
  PROVE  Alone'
<1>1. env.procs \subseteq Procs /\ \A p, q \in env.procs : p = q
  BY SoleWriter
<1>2. CASE UNCHANGED <<index, lock, pass, env, gen, crossed, slipped>>
  BY <1>2 DEF Alone, View
<1>3. ASSUME NEW p \in env.procs, Acts(p)
      PROVE  Alone'
  <2>0. /\ p \in Procs /\ Knows(pass[p], View(p)) /\ env' = env /\ gen \in Nat
        /\ crossed = {} /\ ~slipped /\ (pass[p].pc = "set" => pass[p].next = gen + 1)
    BY <1>1, <1>3, OthersRest DEF Alone, TypeOK
  <2>1. Knows(pass'[p], View(p)')
    BY <1>3, <2>0, ActsKnows
  <2>2. crossed' = crossed
    <3>1. CASE Apply(p) \/ Store(p)
      BY <2>0, <3>1, SkipsOwnRow, StoresOwnRow
    <3>2. CASE ~(Apply(p) \/ Store(p))
      BY <1>3, <3>2 DEF Acts, Step, Start, Walk, Snapshot, Prepare, Prepared, Purge, Purged,
         Applied, Stamp, GetGeneration, SetGeneration, Drop, Target, StoreFails, Cancel, Crash,
         Reads, vaultVars
    <3> QED BY <3>1, <3>2
  <2>3. ~slipped' /\ (pass'[p].pc = "set" => pass'[p].next = gen' + 1)
    <3>1. CASE GetGeneration(p)
      BY <2>0, <3>1, GetEffect DEF GetGeneration, Reads, vaultVars
    <3>2. CASE SetGeneration(p)
      <4>1. pass[p].pc = "set" /\ pass'[p] = Idle /\ Idle.pc # "set"
        BY <2>0, <3>2, SetEffect DEF Idle
      <4>2. ~(pass[p].next < gen)
        BY <2>0, <4>1
      <4>3. ~slipped'
        BY <2>0, <3>2, <4>2 DEF SetGeneration
      <4> QED BY <4>1, <4>3
    <3>3. CASE ~GetGeneration(p) /\ ~SetGeneration(p)
      <4>1. slipped' = slipped /\ gen' = gen
        BY <1>3, <3>3 DEF Acts, Step, Start, Walk, Snapshot, Prepare, Prepared, Purge, Purged,
           Apply, Store, Applied, Stamp, Drop, Target, StoreFails, Cancel, Crash, Reads, vaultVars
      <4>2. pass'[p].pc # "set"
        BY <1>3, <2>0, <3>3, NotYetSet
      <4> QED BY <2>0, <4>1, <4>2
    <3> QED BY <3>1, <3>2, <3>3
  <2> QED BY <1>1, <2>0, <2>1, <2>2, <2>3 DEF Alone
<1> QED BY <1>2, <1>3 DEF Next, Edit, Save, Delete, Restore, SaveSameTick, Move, Touch,
         Hit, AskGeneration, AskRows, vars, Acts, vaultVars, editVars

LEMMA AloneHolds ==
  ASSUME SingleServer
  PROVE  Spec => []Alone
<1>1. Init => Alone
  <2>1. ASSUME Init
        PROVE  /\ crossed = {} /\ ~slipped /\ \A p \in Procs : pass[p] = Idle
               /\ env.procs \subseteq Procs
    BY <2>1, InitTyped, ReconcileAssumption DEF Init, TypeOK, SettingType
  <2>2. ASSUME NEW rows
        PROVE  Knows(Idle, rows) /\ Idle.pc # "set"
    BY StoppedKnows DEF Idle
  <2> QED BY <2>1, <2>2 DEF Alone
<1>2. ASSUME PassInv, Alone, [Next]_vars
      PROVE  Alone'
  BY <1>2, AloneNext DEF PassInv
<1> QED BY <1>1, <1>2, PassInvHolds, PTL DEF Spec

(* With one server record_mtime always meets the row of the snapshot, and  *)
(* the generation never moves backwards: the exceptions of GateSound and   *)
(* CacheFresh need a second server.                                        *)
THEOREM AloneNothingCrosses ==
  ASSUME SingleServer
  PROVE  Spec => [](crossed = {} /\ ~slipped)
<1>1. Alone => crossed = {} /\ ~slipped
  BY DEF Alone
<1> QED BY <1>1, AloneHolds, PTL

(* With one server the mtime gate can be trusted without exception.        *)
THEOREM GateIsTrusted ==
  ASSUME SingleServer
  PROVE  Spec => []GateTrusted
<1>1. GateSound /\ crossed = {} => GateTrusted
  BY DEF GateSound, GateTrusted
<1> QED BY <1>1, GateIsSound, AloneNothingCrosses, PTL

(***************************************************************************)
(* The temporal cache.  Until a pass that changed rows has moved the       *)
(* generation, an answer of this generation may be out of date.            *)
(***************************************************************************)

WillMove(s) ==
  \/ s.pc \in {"get", "set"} \/ s.reindexed \/ s.deleted
  \/ s.pc = "purge" /\ Vanished(s) # {}

(* A move beyond generation g is ahead. *)
Ahead(s, g) == IF s.pc = "set" THEN s.next > g ELSE WillMove(s)

UpToDate(g, rows) ==
  \/ g < gen \/ rows = Rowset(index)
  \/ \E q \in env.procs : Ahead(pass[q], g)

FreshAt(p) ==
  /\ cache[p].gen <= gen /\ asked[p] <= gen /\ pass[p].kind # "note"
  /\ pass[p].pc \in {"idle", "walk", "snapshot", "prepare", "purge"} =>
       ~pass[p].deleted /\ ~pass[p].reindexed
  /\ ~WillMove(pass[p]) => Rowset(View(p)) = Rowset(index)

Fresh ==
  UncutPasses /\ ~slipped =>
    gen > 0 /\ \A p \in env.procs : FreshAt(p) /\ UpToDate(cache[p].gen, cache[p].rows)

(* No answer of a generation that was handed out goes out of date. *)
StaysTimely ==
  \A g \in Nat : \A rows : (g <= gen /\ UpToDate(g, rows)) => UpToDate(g, rows)'

LEMMA RowsetWithMtime ==
  ASSUME NEW rows \in Tables, NEW i \in Ids, NEW m \in Nat
  PROVE  Rowset(WithMtime(rows, i, m)) = Rowset(rows)
BY WithMtimeKeeps DEF Rowset

LEMMA IdleFlags ==
  /\ Idle.pc = "idle" /\ Idle.kind = "sweep"
  /\ ~Idle.deleted /\ ~Idle.reindexed /\ ~Idle.failed /\ ~WillMove(Idle)
BY DEF Idle, WillMove

(* A step that neither moves the generation nor answers a search.  Where   *)
(* no move is ahead after it, none was before, and the rows are the same.  *)
LEMMA FreshStep ==
  ASSUME TypeOK, NEW p \in env.procs, p \in Procs, FreshAt(p), Acts(p),
         UNCHANGED <<gen, cache, asked>>,
         pass'[p].kind # "note", pass'[p].pc # "set",
         pass'[p].pc \in {"idle", "walk", "snapshot", "prepare", "purge"} =>
           ~pass'[p].deleted /\ ~pass'[p].reindexed,
         ~WillMove(pass'[p]) =>
           /\ ~WillMove(pass[p]) /\ Rowset(View(p)') \in {Rowset(View(p)), Rowset(index)}
           /\ Rowset(index') \in {Rowset(View(p)), Rowset(index)}
  PROVE  FreshAt(p)' /\ StaysTimely
<1>0. /\ \A rows : Rowset(rows)' = Rowset(rows)
      /\ Rowset(View(p))' = Rowset(View(p)') /\ Rowset(index)' = Rowset(index')
  BY DEF Rowset
<1>1. ~WillMove(pass'[p]) => Rowset(View(p)') = Rowset(index') /\ Rowset(index') = Rowset(index)
  BY DEF FreshAt
<1>2. FreshAt(p)'
  BY <1>0, <1>1 DEF FreshAt, WillMove
<1>3. env' = env /\ \A q \in Procs \ {p} : pass'[q] = pass[q]
  BY OthersRest
<1>4. env.procs \subseteq Procs
  BY ReconcileAssumption DEF TypeOK, SettingType
<1>5. ASSUME NEW g \in Nat, NEW rows, UpToDate(g, rows)
      PROVE  UpToDate(g, rows)'
  <2>1. CASE WillMove(pass'[p])
    BY <1>3, <2>1 DEF UpToDate, Ahead
  <2>2. CASE ~WillMove(pass'[p])
    <3>1. ~Ahead(pass[p], g) /\ Rowset(index)' = Rowset(index)
      BY <1>0, <1>1, <2>2 DEF Ahead, WillMove
    <3>2. \A q \in env.procs : Ahead(pass[q], g) => pass'[q] = pass[q]
      BY <1>3, <1>4, <3>1
    <3> QED BY <1>3, <1>5, <3>1, <3>2 DEF UpToDate
  <2> QED BY <2>1, <2>2
<1> QED BY <1>2, <1>5 DEF StaysTimely

LEMMA WriteRowset ==
  ASSUME TypeOK, NEW p \in Procs, NEW rows, Rowset(rows) = Rowset(View(p)),
         Write(p, rows) \/ UNCHANGED <<index, lock, calm>>
  PROVE  /\ Rowset(View(p)') = Rowset(View(p))
         /\ Rowset(index') \in {Rowset(View(p)), Rowset(index)}
<1>1. CASE Write(p, rows)
  BY <1>1, ViewAfter DEF Write
<1>2. CASE UNCHANGED <<index, lock, calm>>
  BY <1>2, ViewAfter
<1> QED BY <1>1, <1>2

LEMMA StoppedFresh ==
  ASSUME TypeOK, NEW p \in env.procs, p \in Procs, FreshAt(p), Acts(p),
         pass[p].pc \notin {"get", "set", "purge"},
         Raise(p), UNCHANGED <<index, gen, cache, asked>>
  PROVE  FreshAt(p)' /\ StaysTimely
<1>1. Stopped(pass[p], pass'[p]) /\ pass[p].kind # "note" /\ View(p)' = index
  BY RaiseEffect, ViewAfter DEF FreshAt, Raise
<1>2. CASE pass'[p] = Idle /\ ~(pass[p].deleted \/ pass[p].reindexed)
  <2>1. ~WillMove(pass[p])
    BY <1>2 DEF WillMove
  <2> QED BY <1>1, <1>2, <2>1, IdleFlags, FreshStep
<1>3. CASE pass'[p].pc = "get" /\ SamePlan(pass[p], pass'[p])
  BY <1>1, <1>3, FreshStep DEF WillMove, SamePlan, SameScan
<1> QED BY <1>1, <1>2, <1>3 DEF Stopped

LEMMA ScanFresh ==
  ASSUME TypeOK, InOrder, NEW p \in env.procs, p \in Procs, FreshAt(p), Acts(p),
         Start(p) \/ Walk(p) \/ Snapshot(p)
  PROVE  FreshAt(p)' /\ StaysTimely
<1>1. UNCHANGED <<index, lock, gen, cache, asked>>
  BY DEF Start, Walk, Snapshot, Reads, readerVars
<1>2. /\ pass'[p].kind # "note" /\ SameFlags(pass[p], pass'[p])
      /\ pass[p].pc \in {"idle", "walk", "snapshot"}
      /\ pass'[p].pc \in {"walk", "snapshot", "prepare"}
  BY StartEffect, WalkEffect, SnapshotEffect DEF FreshAt
<1>3. ~WillMove(pass[p])
  BY <1>2 DEF WillMove, FreshAt
<1> QED BY <1>1, <1>2, <1>3, ViewAfter, FreshStep DEF SameFlags, FreshAt

LEMMA PlanFresh ==
  ASSUME TypeOK, InOrder, NEW p \in env.procs, p \in Procs, FreshAt(p), Acts(p),
         Prepare(p) \/ Prepared(p)
  PROVE  FreshAt(p)' /\ StaysTimely
<1>1. UNCHANGED <<index, gen, cache, asked>> /\ pass[p].pc = "prepare"
  BY DEF Prepare, Prepared, Reads, readerVars
<1>2. ~WillMove(pass[p]) /\ ~pass[p].deleted /\ ~pass[p].reindexed
  BY <1>1 DEF WillMove, FreshAt
<1>3. CASE UNCHANGED lock /\ SameScan(pass[p], pass'[p]) /\ SameFlags(pass[p], pass'[p])
           /\ pass'[p].pc \in {"prepare", "purge"}
  BY <1>1, <1>2, <1>3, ViewAfter, FreshStep DEF SameScan, SameFlags, FreshAt
<1>4. CASE Raise(p)
  BY <1>1, <1>4, StoppedFresh
<1> QED BY <1>3, <1>4, PrepareEffect, PreparedEffect DEF Claimed, SamePlan

LEMMA PurgeFresh ==
  ASSUME TypeOK, InOrder, NEW p \in env.procs, p \in Procs, FreshAt(p), Acts(p),
         Purge(p) \/ Purged(p)
  PROVE  FreshAt(p)' /\ StaysTimely
<1>1. UNCHANGED <<gen, cache, asked>> /\ pass[p].pc = "purge" /\ Orderly(pass[p])
  BY DEF Purge, Purged, Reads, readerVars, InOrder
<1>2. /\ SamePlan(pass[p], pass'[p]) /\ pass'[p].kind # "note"
      /\ Vanished(pass'[p]) = Vanished(pass[p])
      /\ ~pass[p].deleted /\ ~pass[p].reindexed /\ pass'[p].reindexed = pass[p].reindexed
  BY <1>1, PurgeEffect, PurgedEffect, SamePlanKeeps DEF SamePlan, SameScan, SameFlags, FreshAt
<1>3. CASE Purge(p)
  <2>1. PICK i \in pass[p].gone : pass'[p].pc = "purge" /\ SameFlags(pass[p], pass'[p])
    BY <1>3, PurgeEffect
  <2>2. WillMove(pass'[p])
    BY <1>1, <1>2, <2>1 DEF Orderly, WillMove
  <2> QED BY <1>1, <1>2, <2>1, <2>2, FreshStep DEF SameFlags
<1>4. CASE Purged(p)
  <2>1. /\ UNCHANGED <<index, lock>> /\ pass'[p].pc = "apply"
        /\ pass'[p].deleted <=> (Vanished(pass[p]) # {})
    BY <1>4, PurgedEffect
  <2>2. ~WillMove(pass'[p]) => ~WillMove(pass[p])
    BY <1>1, <1>2, <2>1 DEF WillMove
  <2> QED BY <1>1, <1>2, <2>1, <2>2, ViewAfter, FreshStep DEF FreshAt
<1> QED BY <1>3, <1>4

LEMMA ApplyFresh ==
  ASSUME TypeOK, InOrder, NEW p \in env.procs, p \in Procs, FreshAt(p), Acts(p),
         Apply(p)
  PROVE  FreshAt(p)' /\ StaysTimely
<1>1. UNCHANGED <<gen, cache, asked>> /\ pass[p].pc = "apply" /\ pass[p] \in PassTypes
      /\ View(p) \in Tables
  BY ViewTyped DEF Apply, readerVars, TypeOK
<1>2. PICK y \in pass[p].todo : y \in Paths /\ (Skip(p, y) \/ SecondRead(p, y))
  BY <1>1 DEF Apply, PassTypes
<1>3. ASSUME SamePlan(pass[p], pass'[p]), SameFlags(pass[p], pass'[p]), pass'[p].pc = "apply",
             Rowset(View(p)') = Rowset(View(p)),
             Rowset(index') \in {Rowset(View(p)), Rowset(index)}
      PROVE  FreshAt(p)' /\ StaysTimely
  <2>1. ~WillMove(pass'[p]) => ~WillMove(pass[p])
    BY <1>1, <1>3 DEF WillMove, SameFlags
  <2> QED BY <1>1, <1>3, <2>1, FreshStep DEF SamePlan, SameScan, FreshAt
<1>4. CASE Skip(p, y)
  <2>1. PICK i \in Ids :
          /\ UNCHANGED <<index, lock, calm>> \/ Write(p, WithMtime(View(p), i, pass[p].live[y]))
          /\ Settled(p, y)
    BY <1>4, SkipEffect
  <2>2. Rowset(WithMtime(View(p), i, pass[p].live[y])) = Rowset(View(p))
    BY <1>1, <1>2, RowsetWithMtime DEF PassTypes
  <2> QED BY <1>1, <1>3, <2>1, <2>2, WriteRowset, SettleEffect
<1>5. CASE SecondRead(p, y)
  <2>1. index' = index
    BY <1>2, <1>5, SecondReadEffect
  <2>2. CASE Raise(p)
    BY <1>1, <2>1, <2>2, StoppedFresh
  <2>3. CASE UNCHANGED lock /\ SamePlan(pass[p], pass'[p]) /\ SameFlags(pass[p], pass'[p])
             /\ pass'[p].pc = "apply"
    BY <1>3, <2>1, <2>3, ViewAfter
  <2> QED BY <1>1, <1>2, <1>5, <2>2, <2>3, SecondReadEffect, SettleEffect DEF InHand
<1> QED BY <1>2, <1>4, <1>5

LEMMA StoreFresh ==
  ASSUME TypeOK, Upgrading, InOrder, NEW p \in env.procs, p \in Procs, FreshAt(p), Acts(p),
         Store(p) \/ Applied(p)
  PROVE  FreshAt(p)' /\ StaysTimely
<1>1. /\ UNCHANGED <<gen, cache, asked>> /\ pass[p] \in PassTypes
      /\ View(p) \in Tables /\ pass[p].kind # "note"
  BY ViewTyped DEF Store, Applied, readerVars, TypeOK, FreshAt
<1>2. CASE Store(p)
  <2>1. /\ pass[p].pc = "apply" /\ pass[p].hand.id \in Ids /\ pass[p].hand.path \in Paths
        /\ pass[p].live[pass[p].hand.path] \in Nat /\ Bulk(p)
    BY <1>1, <1>2, StoreEffect DEF Bulk, PassTypes
  <2>2. CASE Raise(p) /\ UNCHANGED index
    BY <1>1, <2>1, <2>2, StoppedFresh
  <2>3. CASE StoreRow(p)
    <3>1. pass'[p].reindexed /\ pass'[p].pc = "apply" /\ pass'[p].kind = pass[p].kind
      BY <2>1, <2>3 DEF StoreRow, SamePlan, SameScan
    <3> QED BY <1>1, <3>1, FreshStep DEF WillMove
  <2>4. CASE StoreSame(p)
    <3>1. Rowset(WithMtime(View(p), pass[p].hand.id, pass[p].live[pass[p].hand.path])) =
            Rowset(View(p))
      BY <1>1, <2>1, RowsetWithMtime
    <3>2. /\ Rowset(View(p)') = Rowset(View(p))
          /\ Rowset(index') \in {Rowset(View(p)), Rowset(index)}
      BY <2>4, <3>1, WriteRowset DEF StoreSame
    <3>3. pass'[p].pc = "apply" /\ pass'[p].kind = pass[p].kind /\ SameFlags(pass[p], pass'[p])
      BY <2>4 DEF StoreSame, SamePlan, SameScan
    <3>4. ~WillMove(pass'[p]) => ~WillMove(pass[p])
      BY <2>1, <3>3 DEF WillMove, SameFlags
    <3> QED BY <1>1, <3>2, <3>3, <3>4, FreshStep
  <2> QED BY <1>2, <2>2, <2>3, <2>4, StoreEffect
<1>3. CASE Applied(p)
  <2>1. /\ pass[p].pc = "apply" /\ pass'[p].pc = "stamp" /\ pass'[p].kind = pass[p].kind
        /\ SameFlags(pass[p], pass'[p]) /\ Commit(p)
    BY <1>3, AppliedEffect DEF SamePlan, SameScan
  <2>2. View(p)' = View(p) /\ index' \in {View(p), index}
    BY <2>1, ViewAfter DEF Commit, View
  <2>3. ~WillMove(pass'[p]) => ~WillMove(pass[p])
    BY <2>1 DEF WillMove, SameFlags
  <2> QED BY <1>1, <2>1, <2>2, <2>3, FreshStep
<1> QED BY <1>2, <1>3

LEMMA EndingFresh ==
  ASSUME TypeOK, Upgrading, InOrder, NEW p \in env.procs, p \in Procs, FreshAt(p), Acts(p),
         ~slipped', Stamp(p) \/ GetGeneration(p) \/ SetGeneration(p)
  PROVE  FreshAt(p)' /\ StaysTimely
<1>0. lock.owner = p => pass[p].pc \in {"purge", "apply"}
  BY UpgradeFacts
<1>1. /\ env' = env /\ env.procs \subseteq Procs /\ \A q \in Procs \ {p} : pass'[q] = pass[q]
      /\ \A rows : Rowset(rows)' = Rowset(rows)
      /\ Rowset(View(p))' = Rowset(View(p)') /\ Rowset(index)' = Rowset(index')
  BY OthersRest, ReconcileAssumption DEF TypeOK, SettingType, Rowset
<1>2. CASE Stamp(p)
  <2>1. UNCHANGED <<index, lock, gen, cache, asked>> /\ pass[p].pc = "stamp"
    BY <1>2 DEF Stamp, readerVars
  <2>2. CASE pass'[p].pc = "get" /\ SamePlan(pass[p], pass'[p])
    BY <2>1, <2>2, FreshStep DEF WillMove, SamePlan, SameScan, FreshAt
  <2>3. CASE pass'[p] = Idle /\ ~(pass[p].deleted \/ pass[p].reindexed)
    <3>1. ~WillMove(pass[p])
      BY <2>1, <2>3 DEF WillMove
    <3> QED BY <2>1, <2>3, <3>1, IdleFlags, ViewAfter, FreshStep
  <2> QED BY <1>2, <2>1, <2>2, <2>3, StampEffect
<1>3. CASE GetGeneration(p)
  <2>1. /\ UNCHANGED <<index, lock, gen, cache, asked>> /\ pass'[p].kind = pass[p].kind
        /\ pass'[p].pc = "set" /\ pass'[p].next = gen + 1
    BY <1>3, GetEffect DEF GetGeneration, Reads, readerVars, SamePlan, SameScan
  <2>2. FreshAt(p)'
    BY <2>1 DEF FreshAt, WillMove
  <2>3. \A g \in Nat : g <= gen => Ahead(pass'[p], g)
    BY <2>1 DEF Ahead, TypeOK
  <2> QED BY <1>1, <2>2, <2>3 DEF StaysTimely, UpToDate
<1>4. CASE SetGeneration(p)
  <2>1. /\ UNCHANGED <<index, lock, cache, asked>> /\ gen' = pass[p].next /\ pass'[p] = Idle
        /\ pass[p].pc = "set" /\ ~(pass[p].next < gen)
    BY <1>4, SetEffect DEF SetGeneration, readerVars
  <2>2. View(p)' = index' /\ lock.owner # p
    BY <1>0, <2>1 DEF View
  <2>3. /\ cache[p].gen \in Nat /\ asked[p] \in Nat /\ gen \in Nat /\ pass[p].next \in Nat
        /\ gen <= gen'
    BY <2>1 DEF TypeOK, PassTypes
  <2>4. cache'[p].gen <= gen' /\ asked'[p] <= gen'
    BY <2>1, <2>3 DEF FreshAt
  <2>5. FreshAt(p)'
    BY <1>1, <2>1, <2>2, <2>4, IdleFlags DEF FreshAt
  <2>6. ASSUME NEW g \in Nat, NEW rows, UpToDate(g, rows)
        PROVE  UpToDate(g, rows)'
    <3>1. CASE g < gen \/ Ahead(pass[p], g)
      <4>1. g < gen'
        BY <2>1, <2>3, <3>1 DEF Ahead
      <4> QED BY <4>1 DEF UpToDate
    <3>2. CASE rows = Rowset(index)
      BY <1>1, <2>1, <3>2 DEF UpToDate
    <3>3. ASSUME NEW q \in env.procs \ {p}, Ahead(pass[q], g)
          PROVE  UpToDate(g, rows)'
      BY <1>1, <3>3 DEF UpToDate
    <3> QED BY <2>6, <3>1, <3>2, <3>3 DEF UpToDate
  <2> QED BY <2>5, <2>6 DEF StaysTimely
<1> QED BY <1>2, <1>3, <1>4

(* What another server sees: the committed rows, or nothing happens to it. *)
LEMMA OthersView ==
  ASSUME TypeOK, NEW q \in Procs, Acts(q), NEW p \in Procs \ {q}
  PROVE  \/ View(p) = index /\ View(p)' = index' /\ lock.owner # p /\ lock'.owner # p
         \/ UNCHANGED <<index, lock>> /\ View(p)' = View(p) /\ lock.owner = p
<1>1. CASE lock.owner = p
  <2>1. UNCHANGED <<index, lock>>
    BY <1>1, ActsWrites, ReconcileAssumption DEF Write, CanWrite, Rollback, Commit
  <2> QED BY <1>1, <2>1 DEF View
<1>2. CASE lock.owner # p
  <2>1. lock'.owner # p
    BY <1>2, ActsWrites, ReconcileAssumption DEF Write, Rollback, Commit, FreeLock
  <2> QED BY <1>2, <2>1 DEF View
<1> QED BY <1>1, <1>2

LEMMA OthersFresh ==
  ASSUME TypeOK, NEW q \in Procs, Acts(q), NEW p \in Procs \ {q}, FreshAt(p),
         gen <= gen', asked'[p] = asked[p], gen' \in Nat
  PROVE  FreshAt(p)'
<1>1. /\ pass'[p] = pass[p] /\ cache'[p] = cache[p] /\ gen \in Nat
      /\ cache[p].gen \in Nat /\ asked[p] \in Nat
  BY OthersRest DEF TypeOK
<1>2. cache'[p].gen <= gen' /\ asked'[p] <= gen'
  BY <1>1 DEF FreshAt
<1>3. Rowset(View(p)') = Rowset(index') \/ (View(p)' = View(p) /\ index' = index)
  BY OthersView
<1> QED BY <1>1, <1>2, <1>3 DEF FreshAt, Rowset

LEMMA AskFresh ==
  ASSUME TypeOK, Upgrading, NEW p \in env.procs, p \in Procs, FreshAt(p), gen > 0,
         UpToDate(cache[p].gen, cache[p].rows), AskGeneration(p) \/ AskRows(p)
  PROVE  /\ gen' = gen /\ FreshAt(p)' /\ UpToDate(cache[p].gen, cache[p].rows)'
         /\ \A q \in env.procs \ {p} : (FreshAt(q) /\ UpToDate(cache[q].gen, cache[q].rows)) =>
              FreshAt(q)' /\ UpToDate(cache[q].gen, cache[q].rows)'
<1>1. UNCHANGED <<index, lock, gen, pass, env>> /\ gen \in Nat /\ env.procs \subseteq Procs
  BY ReconcileAssumption DEF AskGeneration, AskRows, TypeOK, SettingType, vaultVars, editVars
<1>2. /\ \A g, rows : UpToDate(g, rows)' <=> UpToDate(g, rows)
      /\ \A q \in Procs : View(q)' = View(q)
  BY <1>1 DEF UpToDate, View, Rowset
<1>3. \A q \in env.procs \ {p} : cache'[q] = cache[q] /\ asked'[q] = asked[q]
  BY <1>1 DEF AskGeneration, AskRows, TypeOK
<1>4. \A q \in env.procs \ {p} : (FreshAt(q) /\ UpToDate(cache[q].gen, cache[q].rows)) =>
              FreshAt(q)' /\ UpToDate(cache[q].gen, cache[q].rows)'
  BY <1>1, <1>2, <1>3 DEF FreshAt, Rowset, UpToDate
<1>5. CASE AskGeneration(p)
  <2>1. cache' = cache /\ asked'[p] = gen
    BY <1>5 DEF AskGeneration, TypeOK
  <2>2. FreshAt(p)'
    BY <1>1, <1>2, <2>1 DEF FreshAt, Rowset
  <2> QED BY <1>1, <1>4, <2>1, <2>2 DEF UpToDate, Rowset
<1>6. CASE AskRows(p)
  <2>1. /\ cache'[p].gen = asked[p] /\ cache'[p].rows = Rowset(View(p)) /\ asked'[p] = 0
    BY <1>6 DEF AskRows, TypeOK
  <2>2. FreshAt(p)'
    BY <1>1, <1>2, <2>1 DEF FreshAt, Rowset
  <2>3. Rowset(View(p)) = Rowset(index) \/ Ahead(pass[p], asked[p])
    <3>1. pass[p].pc = "set" => View(p) = index
      BY UpgradeFacts DEF View
    <3> QED BY <3>1 DEF FreshAt, Ahead
  <2>4. UpToDate(cache[p].gen, cache[p].rows)'
    BY <1>1, <2>1, <2>3 DEF UpToDate, Rowset
  <2> QED BY <1>1, <1>4, <2>2, <2>4
<1> QED BY <1>5, <1>6

LEMMA FreshNext ==
  ASSUME TypeOK, TypeOK', Upgrading, InOrder, Fresh, [Next]_vars
  PROVE  Fresh'
<1> SUFFICES ASSUME UncutPasses', ~slipped'
             PROVE  /\ gen' > 0
                    /\ \A p \in env'.procs :
                         FreshAt(p)' /\ UpToDate(cache[p].gen, cache[p].rows)'
  BY DEF Fresh
<1>1. env.procs \subseteq Procs
  BY ReconcileAssumption DEF TypeOK, SettingType
<1>2. CASE UNCHANGED <<index, lock, gen, pass, cache, asked, env, slipped>>
  <2>1. UncutPasses /\ ~slipped
    BY <1>2 DEF UncutPasses
  <2> QED BY <1>2, <2>1 DEF Fresh, FreshAt, View, UpToDate, Rowset
<1>3. ASSUME NEW p \in env.procs, Acts(p)
      PROVE  /\ gen' > 0
             /\ \A q \in env'.procs : FreshAt(q)' /\ UpToDate(cache[q].gen, cache[q].rows)'
  <2>1. /\ env' = env
        /\ \A q \in Procs \ {p} : pass'[q] = pass[q] /\ cache'[q] = cache[q]
    BY <1>1, <1>3, OthersRest
  <2>2. ~slipped
    BY <1>3 DEF Acts, Step, Start, Walk, Snapshot, Prepare, Prepared, Purge, Purged, Apply, Store,
       Applied, Stamp, GetGeneration, SetGeneration, Drop, Target, StoreFails, Cancel, Crash,
       Reads, vaultVars
  <2>3. /\ UncutPasses /\ gen > 0
        /\ \A q \in env.procs : FreshAt(q) /\ UpToDate(cache[q].gen, cache[q].rows)
    BY <2>1, <2>2 DEF Fresh, UncutPasses
  <2>4. /\ ~StoreFails(p) /\ ~Cancel(p) /\ ~Drop(p) /\ \A y \in Paths : ~Target(p, y)
    BY <1>1, <2>3, UpgradeFacts DEF StoreFails, Cancel, Target, Faulty, UncutPasses,
       UpgradePass, FreshAt, Drop
  <2>5. CASE Crash(p)
    <3>1. /\ UNCHANGED <<index, gen>> /\ Rollback(p) /\ pass'[p] = Idle
          /\ cache'[p] = NoAnswer /\ asked'[p] = 0
      BY <1>1, <2>5 DEF Crash, TypeOK
    <3>2. View(p)' = index /\ cache'[p].gen = 0 /\ gen \in Nat
      BY <1>1, <3>1, ViewAfter DEF NoAnswer, TypeOK
    <3>3. \A q \in env.procs : q = p
      BY <2>3, <2>5 DEF Crash, Faulty, UncutPasses
    <3>4. FreshAt(p)'
      BY <3>1, <3>2, IdleFlags DEF FreshAt, Rowset
    <3>5. UpToDate(cache[p].gen, cache[p].rows)'
      BY <2>3, <3>1, <3>2 DEF UpToDate
    <3> QED BY <2>1, <2>3, <3>1, <3>3, <3>4, <3>5
  <2>6. ASSUME gen <= gen', UNCHANGED <<cache, asked>>, FreshAt(p)', StaysTimely
        PROVE  /\ gen' > 0
               /\ \A q \in env'.procs : FreshAt(q)' /\ UpToDate(cache[q].gen, cache[q].rows)'
    <3>1. gen \in Nat /\ gen' \in Nat /\ \A q \in env.procs : cache[q].gen \in Nat
      BY <1>1 DEF TypeOK
    <3>2. \A q \in env.procs : FreshAt(q)'
      BY <1>1, <1>3, <2>3, <2>6, <3>1, OthersFresh
    <3>3. ASSUME NEW q \in env.procs
          PROVE  UpToDate(cache[q].gen, cache[q].rows)'
      <4>1. UpToDate(cache[q].gen, cache[q].rows) /\ cache[q].gen <= gen /\ cache[q].gen \in Nat
        BY <2>3, <3>1 DEF FreshAt
      <4>2. PICK g, rows : g \in Nat /\ g = cache[q].gen /\ rows = cache[q].rows
        BY <4>1
      <4>3. UpToDate(g, rows)'
        BY <2>6, <4>1, <4>2 DEF StaysTimely
      <4> QED BY <2>6, <4>2, <4>3 DEF UpToDate
    <3> QED BY <2>1, <2>3, <2>6, <3>1, <3>2, <3>3
  <2>7. CASE Stamp(p) \/ GetGeneration(p) \/ SetGeneration(p)
    <3>1. UNCHANGED <<cache, asked>> /\ gen <= gen'
      <4>1. UNCHANGED <<cache, asked>>
        BY <2>7 DEF Stamp, GetGeneration, SetGeneration, Reads, readerVars
      <4>2. gen \in Nat /\ pass[p].next \in Nat
        BY <1>1 DEF TypeOK, PassTypes
      <4>3. gen' = gen \/ (gen' = pass[p].next /\ ~(pass[p].next < gen))
        BY <2>7 DEF Stamp, GetGeneration, SetGeneration, Reads
      <4> QED BY <4>1, <4>2, <4>3
    <3> QED BY <1>1, <1>3, <2>3, <2>6, <2>7, <3>1, EndingFresh
  <2>8. CASE \/ Start(p) \/ Walk(p) \/ Snapshot(p) \/ Prepare(p) \/ Prepared(p)
             \/ Purge(p) \/ Purged(p) \/ Apply(p) \/ Store(p) \/ Applied(p)
    <3>1. UNCHANGED <<cache, asked, gen>>
      BY <2>8 DEF Start, Walk, Snapshot, Prepare, Prepared, Purge, Purged, Apply, Store, Applied,
         Reads, readerVars
    <3>2. FreshAt(p)' /\ StaysTimely
      BY <1>1, <1>3, <2>3, <2>8, ScanFresh, PlanFresh, PurgeFresh, ApplyFresh, StoreFresh
    <3>3. gen <= gen'
      BY <3>1 DEF TypeOK
    <3> QED BY <2>6, <3>1, <3>2, <3>3
  <2> QED BY <1>3, <2>4, <2>5, <2>7, <2>8 DEF Acts, Step
<1>4. ASSUME NEW p \in env.procs, AskGeneration(p) \/ AskRows(p)
      PROVE  /\ gen' > 0
             /\ \A q \in env'.procs : FreshAt(q)' /\ UpToDate(cache[q].gen, cache[q].rows)'
  <2>1. UNCHANGED <<env, slipped>>
    BY <1>4 DEF AskGeneration, AskRows, vaultVars, editVars
  <2>2. gen > 0 /\ \A q \in env.procs : FreshAt(q) /\ UpToDate(cache[q].gen, cache[q].rows)
    BY <2>1 DEF Fresh, UncutPasses
  <2> QED BY <1>1, <1>4, <2>1, <2>2, AskFresh
<1> QED BY <1>2, <1>3, <1>4 DEF Next, Edit, Save, Delete, Restore, SaveSameTick, Move, Touch,
         Hit, vars, Acts, vaultVars, editVars, readerVars

LEMMA InitFresh ==
  ASSUME Init
  PROVE  Fresh
<1>1. /\ \A p \in Procs : pass[p] = Idle /\ cache[p] = NoAnswer /\ asked[p] = 0
      /\ lock.owner = NoProc /\ gen = 1 /\ env.procs \subseteq Procs
  BY ReconcileAssumption DEF Init, FreeLock, SettingType
<1>2. \A p \in Procs : View(p) = index /\ cache[p].gen = 0
  BY <1>1, ReconcileAssumption DEF View, NoAnswer
<1>3. \A p \in Procs : FreshAt(p) /\ UpToDate(cache[p].gen, cache[p].rows)
  BY <1>1, <1>2, IdleFlags DEF FreshAt, UpToDate
<1> QED BY <1>1, <1>3 DEF Fresh

LEMMA FreshHolds == Spec => [](PassInv /\ Fresh)
<1>1. ASSUME PassInv, PassInv', Fresh, [Next]_vars
      PROVE  Fresh'
  BY <1>1, FreshNext DEF PassInv
<1> QED BY <1>1, InitFresh, PassInvHolds, PTL DEF Spec

(* As long as nothing cuts a pass off between its rows and the generation, *)
(* and the generation has not moved backwards, an answer cached under the  *)
(* current generation is what the index holds, with any number of servers  *)
(* and however searches, batches and edits fall between the steps.         *)
THEOREM AnswersAreFresh == Spec => []CacheFresh
<1>1. ASSUME PassInv, Fresh, UncutPasses, ~slipped, NEW p \in Procs, cache[p].gen = gen,
             \A q \in Procs : pass[q].pc = "idle"
      PROVE  cache[p].rows = Rowset(index)
  <2>0. gen \in Nat /\ gen > 0 /\ env.procs \subseteq Procs
    BY <1>1, ReconcileAssumption DEF PassInv, TypeOK, SettingType, Fresh
  <2>1. CASE p \in env.procs
    <3>1. UpToDate(cache[p].gen, cache[p].rows)
      BY <1>1, <2>1 DEF Fresh
    <3>2. \A q \in env.procs : pass[q] = Idle
      BY <1>1, <2>0 DEF PassInv, InOrder, Orderly
    <3>3. ~Ahead(Idle, gen)
      BY IdleFlags DEF Ahead
    <3> QED BY <1>1, <2>0, <3>1, <3>2, <3>3 DEF UpToDate
  <2>2. CASE p \notin env.procs
    BY <1>1, <2>0, <2>2 DEF PassInv, Bystanders, NoAnswer
  <2> QED BY <2>1, <2>2
<1>2. PassInv /\ Fresh => CacheFresh
  BY <1>1 DEF CacheFresh
<1> QED BY <1>2, FreshHolds, PTL

(***************************************************************************)
(* The marks.  A note that a search found stale stays marked, or its rows  *)
(* are those of its file; a sweep that took the mark along still owes the  *)
(* note a reading as long as a row of it is left to heal.                  *)
(***************************************************************************)

Whole(row, i, n) == n # Absent /\ i = n.id /\ row.hash = n.hash /\ row.current

Healed(rows, x, n) ==
  \A i \in Ids : (rows[i] # Absent /\ rows[i].path = x) => Whole(rows[i], i, n)

(* The pass has the row in its snapshot, and its note before it. *)
Awaits(s, i, x) ==
  /\ Due(s, i, x)
  /\ s.pc \in {"prepare", "purge", "apply"} => s.snap[i] # Absent /\ s.snap[i].path = x

Owed(s, rows, x, n) ==
  \A i \in Ids : (rows[i] # Absent /\ rows[i].path = x) => Whole(rows[i], i, n) \/ Awaits(s, i, x)

Holds(s, x, n) ==
  (s.hand # Absent /\ s.hand.path = x) =>
    n # Absent /\ s.hand.id = n.id /\ s.hand.hash = n.hash

Served(s, rows, committed, x, n, unread, kept) ==
  /\ (x \in s.marks \/ x \notin kept) => Holds(s, x, n)
  /\ x \notin kept => x \in unread \/ (Healed(committed, x, n) /\ Healed(rows, x, n))
  /\ x \in s.marks =>
       \/ x \in unread \/ s.failed \/ Healed(rows, x, n)
       \/ s.pc \notin {"get", "set"} /\ Owed(s, rows, x, n)

ServedAt(p, x) ==
  Served(pass[p], View(p), index, x, disk[x], missed, stale[p])

(* Every row of x is whole, or was there before, but perhaps for its mtime. *)
Fewer(after, rows, x, n) ==
  \A i \in Ids : (after[i] # Absent /\ after[i].path = x) =>
    \/ Whole(after[i], i, n)
    \/ /\ rows[i] # Absent /\ rows[i].path = x
       /\ rows[i].hash = after[i].hash /\ rows[i].current = after[i].current

(* What another server has not committed yet brings back no older bytes. *)
ApartAt(p, x) ==
  lock.owner \notin {NoProc, p} => Fewer(lock.rows, index, x, disk[x])

MarksKept(p) ==
  /\ pass[p].marks \subseteq stale[p] /\ (pass[p].kind # "sweep" => pass[p].marks = {})
  /\ \A x \in Paths : <<p, x>> \in found => ServedAt(p, x)

Apart(p) == \A x \in Paths : <<p, x>> \in found => ApartAt(p, x)

Marked == \A p \in env.procs : MarksKept(p) /\ Apart(p)

LEMMA FewerRefl == \A rows, x, n : Fewer(rows, rows, x, n)
BY DEF Fewer

LEMMA FewerTrans ==
  ASSUME NEW a, NEW b, NEW c, NEW x, NEW n, Fewer(a, b, x, n), Fewer(b, c, x, n)
  PROVE  Fewer(a, c, x, n)
BY DEF Fewer, Whole

LEMMA FewerKeeps ==
  ASSUME NEW rows, NEW after, NEW x, NEW n, NEW s, Fewer(after, rows, x, n)
  PROVE  /\ Healed(rows, x, n) => Healed(after, x, n)
         /\ Owed(s, rows, x, n) => Owed(s, after, x, n)
<1>1. \A i \in Ids : (/\ rows[i].hash = after[i].hash /\ rows[i].current = after[i].current
                      /\ Whole(rows[i], i, n)) => Whole(after[i], i, n)
  BY DEF Whole
<1>2. Healed(rows, x, n) => Healed(after, x, n)
  BY <1>1 DEF Fewer, Healed
<1>3. Owed(s, rows, x, n) => Owed(s, after, x, n)
  BY <1>1 DEF Fewer, Owed
<1> QED BY <1>2, <1>3

LEMMA OwedStays ==
  ASSUME NEW rows, NEW after, NEW x, NEW n, NEW s, NEW t, Fewer(after, rows, x, n),
         Owed(s, rows, x, n), \A i \in Ids : Awaits(s, i, x) => Awaits(t, i, x)
  PROVE  Owed(t, after, x, n)
<1>1. Owed(s, after, x, n)
  BY FewerKeeps
<1> QED BY <1>1 DEF Owed

LEMMA FewerSteps ==
  ASSUME NEW rows \in Tables, NEW i \in Ids, NEW x, NEW n
  PROVE  /\ Fewer(Without(rows, i), rows, x, n)
         /\ \A m \in Nat : Fewer(WithMtime(rows, i, m), rows, x, n)
         /\ \A row \in Rows : (row.path # x \/ Whole(row, i, n)) =>
              Fewer(Upsert(rows, i, row), rows, x, n)
<1>2. Fewer(Without(rows, i), rows, x, n)
  BY DEF Fewer, Without, Tables
<1>3. ASSUME NEW m \in Nat
      PROVE  Fewer(WithMtime(rows, i, m), rows, x, n)
  BY WithMtimeKeeps DEF Fewer
<1>4. ASSUME NEW row \in Rows, row.path # x \/ Whole(row, i, n)
      PROVE  Fewer(Upsert(rows, i, row), rows, x, n)
  BY <1>4 DEF Fewer, Upsert
<1> QED BY <1>2, <1>3, <1>4

LEMMA ServedStep ==
  ASSUME NEW s, NEW t, NEW rows, NEW after, NEW committed, NEW new, NEW x, NEW n,
         NEW unread, NEW more, NEW kept, Served(s, rows, committed, x, n, unread, kept),
         t.marks = s.marks, s.failed => t.failed, unread \subseteq more,
         (x \in s.marks \/ x \notin kept) => Holds(t, x, n),
         Fewer(after, rows, x, n), new \in {committed, after},
         (x \in s.marks /\ s.pc \notin {"get", "set"} /\ Owed(s, rows, x, n)) =>
           \/ x \in more \/ Healed(after, x, n)
           \/ t.pc \notin {"get", "set"} /\ Owed(t, after, x, n)
  PROVE  Served(t, after, new, x, n, more, kept)
<1>1. Healed(rows, x, n) => Healed(after, x, n)
  BY FewerKeeps
<1> QED BY <1>1 DEF Served

(* The same note in hand, nothing of x settled: what is due stays due. *)
LEMMA ServedRest ==
  ASSUME NEW s, NEW t, NEW rows, NEW after, NEW committed, NEW new, NEW x, NEW n,
         NEW unread, NEW more, NEW kept, Served(s, rows, committed, x, n, unread, kept),
         t.marks = s.marks, s.failed => t.failed, unread \subseteq more,
         t.hand \in {s.hand, Absent},
         Fewer(after, rows, x, n), new \in {committed, after},
         s.pc \in {"get", "set"} \/ t.pc \notin {"get", "set"},
         \A i \in Ids : Awaits(s, i, x) => Awaits(t, i, x)
  PROVE  Served(t, after, new, x, n, more, kept)
<1>1. (x \in s.marks \/ x \notin kept) => Holds(t, x, n)
  BY DEF Served, Holds
<1>2. Owed(s, rows, x, n) => Owed(t, after, x, n)
  BY OwedStays
<1> QED BY <1>1, <1>2, ServedStep

(* A pass that stops keeps the marks, or leaves them to the next. *)
LEMMA ServedStop ==
  ASSUME NEW s, NEW t, NEW rows, NEW committed, NEW x, NEW n, NEW unread, NEW kept,
         Served(s, rows, committed, x, n, unread, kept), Stopped(s, t) \/ t = Idle
  PROVE  Served(t, committed, committed, x, n, unread, kept)
<1>1. CASE t = Idle
  BY <1>1 DEF Served, Idle, Holds
<1>2. CASE t.failed /\ t.hand = Absent
  BY <1>2 DEF Served, Holds
<1> QED BY <1>1, <1>2 DEF Stopped

LEMMA MarksStep ==
  ASSUME TypeOK, NEW p \in Procs, MarksKept(p), UNCHANGED <<disk, stale>>,
         found' \subseteq found, pass'[p].marks = pass[p].marks, pass'[p].kind = pass[p].kind,
         \A x \in Paths : ServedAt(p, x) =>
           Served(pass'[p], View(p)', index', x, disk[x], missed', stale[p])
  PROVE  MarksKept(p)'
BY DEF MarksKept, ServedAt

LEMMA MarksStop ==
  ASSUME TypeOK, NEW p \in Procs, MarksKept(p), UNCHANGED <<disk, stale, index, missed>>,
         found' \subseteq found, View(p)' = index, Stopped(pass[p], pass'[p]) \/ pass'[p] = Idle
  PROVE  MarksKept(p)'
<1>1. \A x \in Paths : ServedAt(p, x) => ServedAt(p, x)'
  BY ServedStop DEF ServedAt
<1>2. pass'[p].marks = {} \/ (pass'[p].marks = pass[p].marks /\ pass'[p].kind = pass[p].kind)
  BY DEF Stopped, Idle, SamePlan, SameScan
<1> QED BY <1>1, <1>2 DEF MarksKept

LEMMA RaiseMarks ==
  ASSUME TypeOK, NEW p \in Procs, MarksKept(p), UNCHANGED <<disk, stale, index, missed>>,
         found' \subseteq found, Raise(p)
  PROVE  MarksKept(p)'
<1>1. Stopped(pass[p], pass'[p]) /\ View(p)' = index
  BY RaiseEffect, ViewAfter DEF Raise
<1> QED BY <1>1, MarksStop

(* A marked note is neither gated nor skipped. *)
LEMMA MarkedIsRead ==
  ASSUME NEW s, NEW x \in s.marks, x \in Live(s)
  PROVE  x \in Rechunked(s) /\ ~Gated(s, x)
BY DEF Rechunked, Gated

LEMMA ScanMarks ==
  ASSUME TypeOK, Upgrading, InOrder, NEW p \in Procs, MarksKept(p),
         Start(p) \/ Walk(p) \/ Snapshot(p)
  PROVE  MarksKept(p)'
<1>1. UNCHANGED <<disk, found, stale, index, lock, missed>> /\ View(p)' = View(p)
  BY ViewAfter DEF Start, Walk, Snapshot, Reads, vaultVars, editVars
<1>2. CASE Start(p)
  <2>1. /\ pass[p].pc = "idle" /\ pass'[p].pc \in {"walk", "snapshot"}
        /\ pass'[p].marks \in {stale[p], {}}
        /\ pass'[p].kind # "sweep" => pass'[p].marks = {}
        /\ pass'[p].hand = pass[p].hand /\ pass[p].hand = Absent
    BY <1>2, StartEffect, IdleOrderly DEF InOrder, Orderly
  <2>2. ASSUME NEW x \in Paths, ServedAt(p, x)
        PROVE  ServedAt(p, x)'
    <3>1. Holds(pass'[p], x, disk[x]) /\ Owed(pass'[p], View(p), x, disk[x])
      BY <2>1 DEF Holds, Owed, Awaits, Due
    <3> QED BY <1>1, <2>1, <2>2, <3>1 DEF ServedAt, Served
  <2> QED BY <1>1, <2>1, <2>2 DEF MarksKept
<1>3. CASE Walk(p) \/ Snapshot(p)
  <2>1. /\ pass[p].pc \in {"walk", "snapshot"} /\ pass'[p].pc \in {"walk", "snapshot", "prepare"}
        /\ pass'[p].kind = pass[p].kind /\ pass'[p].marks = pass[p].marks
        /\ pass'[p].hand = pass[p].hand /\ pass'[p].failed = pass[p].failed
    BY <1>3, WalkEffect, SnapshotEffect DEF SameFlags
  <2>2. ASSUME NEW x \in pass[p].marks
        PROVE  Owed(pass'[p], View(p), x, disk[x])
    <3>1. CASE pass'[p].pc # "prepare"
      BY <2>1, <3>1 DEF Owed, Awaits, Due
    <3>2. CASE pass'[p].pc = "prepare"
      <4>1. pass[p].kind = "sweep"
        BY <2>2 DEF MarksKept
      <4>2. Snapshot(p)
        BY <1>3, <3>2, <4>1, WalkEffect
      <4>3. pass'[p].snap = View(p) /\ pass'[p].todo = Paths
        BY <4>2, SnapshotEffect, UpgradeFacts DEF UpgradePass
      <4> QED BY <3>2, <4>3 DEF Owed, Awaits, Due, Live
    <3> QED BY <3>1, <3>2
  <2>3. ASSUME NEW x \in Paths, ServedAt(p, x)
        PROVE  Served(pass'[p], View(p)', index', x, disk[x], missed', stale[p])
    <3>1. (x \in pass[p].marks \/ x \notin stale[p]) => Holds(pass'[p], x, disk[x])
      BY <2>1, <2>3 DEF ServedAt, Served, Holds
    <3> QED BY <1>1, <2>1, <2>2, <2>3, <3>1, FewerRefl, ServedStep DEF ServedAt
  <2> QED BY <1>1, <2>1, <2>3, MarksStep
<1> QED BY <1>2, <1>3

LEMMA PrepareMarks ==
  ASSUME TypeOK, InOrder, NEW p \in Procs, MarksKept(p), Prepare(p)
  PROVE  MarksKept(p)'
<1>1. UNCHANGED <<disk, found, stale, index>> /\ pass[p] \in PassTypes
  BY DEF Prepare, editVars, TypeOK
<1>2. PICK y \in Paths, outcome \in Identities \cup {Absent, Unreadable, Undecodable} :
        /\ y \in pass[p].todo /\ y \in Live(pass[p]) /\ Found(p, y, outcome)
        /\ (Raise(p) /\ missed' = missed) \/ Claimed(p, y, outcome)
  BY PrepareEffect
<1>3. CASE Raise(p) /\ missed' = missed
  BY <1>1, <1>3, RaiseMarks
<1>4. CASE Claimed(p, y, outcome)
  <2>1. /\ View(p)' = View(p) /\ SameScan(pass[p], pass'[p]) /\ SameFlags(pass[p], pass'[p])
        /\ Live(pass'[p]) = Live(pass[p]) /\ missed \subseteq missed'
        /\ pass[p].pc = "prepare" /\ pass'[p].pc = "prepare"
    BY <1>1, <1>4, PrepareEffect, SameScanKeeps, ViewAfter DEF Claimed
  <2>2. ASSUME NEW x \in Paths, ServedAt(p, x)
        PROVE  Served(pass'[p], View(p)', index', x, disk[x], missed', stale[p])
    <3>1. Fewer(View(p), View(p), x, disk[x])
      BY FewerRefl
    <3>2. (x \in pass[p].marks \/ x \notin stale[p]) => Holds(pass'[p], x, disk[x])
      BY <1>4, <2>2 DEF ServedAt, Served, Holds, Claimed
    <3>3. CASE x # y
      <4>1. \A i \in Ids : Due(pass[p], i, x) => Due(pass'[p], i, x)
        BY <1>4, <2>1, <3>3 DEF Due, Claimed
      <4>2. Owed(pass[p], View(p), x, disk[x]) => Owed(pass'[p], View(p), x, disk[x])
        BY <2>1, <4>1 DEF Owed, Awaits, SameScan
      <4> QED BY <1>1, <2>1, <2>2, <3>1, <3>2, <4>2, ServedStep DEF ServedAt, SameScan, SameFlags
    <3>4. CASE x = y /\ x \in pass[p].marks
      <4>1. outcome # Absent /\ (outcome = Unreadable => x \in missed')
        BY <1>2, <1>4, <3>4, MarkedIsRead, ReadNowTyped, ReconcileAssumption DEF Found, Claimed
      <4>2. x \in missed' \/ pass'[p].prepared[x] \notin {Absent, Unreadable}
        BY <1>4, <3>4, <4>1 DEF Claimed
      <4>3. \/ x \in missed'
            \/ Owed(pass[p], View(p), x, disk[x]) => Owed(pass'[p], View(p), x, disk[x])
        BY <2>1, <4>2 DEF Owed, Awaits, Due, SameScan
      <4> QED BY <1>1, <2>1, <2>2, <3>1, <3>2, <4>3, ServedStep DEF ServedAt, SameScan, SameFlags
    <3>5. CASE x \notin pass[p].marks
      BY <1>1, <2>1, <2>2, <3>1, <3>2, <3>5, ServedStep DEF ServedAt, SameScan, SameFlags
    <3> QED BY <3>3, <3>4, <3>5
  <2> QED BY <1>1, <2>1, <2>2, MarksStep DEF SameScan
<1> QED BY <1>2, <1>3, <1>4

LEMMA PurgeMarks ==
  ASSUME TypeOK, Upgrading, InOrder, NEW p \in Procs, MarksKept(p),
         Prepared(p) \/ Purge(p) \/ Purged(p)
  PROVE  MarksKept(p)'
<1>0. /\ UNCHANGED <<disk, found, stale, missed>> /\ pass[p] \in PassTypes /\ View(p) \in Tables
      /\ Orderly(pass[p])
  BY ViewTyped DEF Prepared, Purge, Purged, Reads, vaultVars, editVars, TypeOK, InOrder
<1>1. /\ SamePlan(pass[p], pass'[p]) /\ pass'[p].hand = pass[p].hand
      /\ pass'[p].failed = pass[p].failed
      /\ pass[p].pc \in {"prepare", "purge"} /\ pass'[p].pc \in {"purge", "apply"}
      /\ pass[p].hand = Absent
  BY <1>0, PreparedEffect, PurgeEffect, PurgedEffect DEF SameFlags, Orderly
<1>2. /\ Live(pass'[p]) = Live(pass[p]) /\ Kept(pass'[p]) = Kept(pass[p])
      /\ pass'[p].prepared = pass[p].prepared
  BY <1>1, SameScanKeeps, SamePlanKeeps DEF SamePlan
<1>3. index' \in {index, View(p)'} /\ \A x \in Paths : Fewer(View(p)', View(p), x, disk[x])
  <2>1. CASE Prepared(p) \/ Purged(p)
    <3>1. index' = index /\ View(p)' = View(p)
      BY <2>1, PreparedEffect, PurgedEffect, ViewAfter
    <3> QED BY <3>1, FewerRefl
  <2>2. CASE Purge(p)
    <3>1. PICK i \in Ids : Write(p, Without(View(p), i))
      BY <2>2, PurgeEffect
    <3> QED BY <1>0, <3>1, FewerSteps, ViewAfter DEF Write
  <2> QED BY <2>1, <2>2
<1>4. ASSUME NEW x \in Paths, x \in pass[p].marks, Owed(pass[p], View(p), x, disk[x])
      PROVE  Owed(pass'[p], View(p)', x, disk[x])
  <2>1. x \in Live(pass[p]) => ~Gated(pass[p], x)
    BY <1>4, MarkedIsRead
  <2>2. ASSUME NEW i \in Ids, View(p)'[i] # Absent, View(p)'[i].path = x,
               ~Whole(View(p)'[i], i, disk[x])
        PROVE  Awaits(pass'[p], i, x)
    <3>0. Owed(pass[p], View(p)', x, disk[x])
      BY <1>3, <1>4, FewerKeeps
    <3>1. /\ Due(pass[p], i, x) /\ pass[p].snap[i] # Absent /\ pass[p].snap[i].path = x
          /\ pass'[p].snap = pass[p].snap
      BY <1>1, <2>2, <3>0 DEF Owed, Awaits, SamePlan, SameScan
    <3>9. SUFFICES Due(pass'[p], i, x)
      BY <3>1 DEF Awaits
    <3>2. CASE Prepared(p)
      <4>1. /\ pass[p].pc = "prepare" /\ pass'[p].pc = "purge"
            /\ pass'[p].gone = Vanished(pass[p]) /\ pass[p].todo \cap Live(pass[p]) = {}
        BY <3>2, PreparedEffect
      <4>2. pass[p].snap[i] # Absent /\ pass[p].snap[i].path = x
        BY <3>1
      <4>3. x \in Live(pass[p]) => pass[p].prepared[x] \notin {Absent, Unreadable}
        BY <3>1, <4>1 DEF Due
      <4>4. x \notin Kept(pass[p]) => i \in Vanished(pass[p])
        BY <4>2 DEF Vanished
      <4>5. Kept(pass[p]) \subseteq Live(pass[p])
        BY DEF Kept
      <4> QED BY <1>2, <4>1, <4>3, <4>4, <4>5 DEF Due
    <3>3. CASE Purge(p)
      <4>1. PICK j \in pass[p].gone :
              /\ pass[p].pc = "purge" /\ pass'[p].pc = "purge" /\ View(p)' = Without(View(p), j)
              /\ pass'[p].gone = pass[p].gone \ {j} /\ j \in Ids
        BY <3>3, PurgeEffect, ViewAfter
      <4>2. i # j
        BY <1>0, <2>2, <4>1 DEF Without, Tables
      <4> QED BY <1>2, <3>1, <4>1, <4>2 DEF Due
    <3>4. CASE Purged(p)
      <4>1. /\ pass[p].pc = "purge" /\ pass'[p].pc = "apply" /\ pass[p].gone = {}
            /\ pass'[p].todo = {y \in Kept(pass[p]) : ~Gated(pass[p], y)
                                                     /\ pass[p].prepared[y] # Unreadable}
        BY <3>4, PurgedEffect
      <4>2. x \in Kept(pass[p]) /\ pass[p].prepared[x] # Unreadable
        BY <3>1, <4>1 DEF Due
      <4>3. x \in Live(pass[p])
        BY <4>2 DEF Kept
      <4> QED BY <2>1, <4>1, <4>2, <4>3 DEF Due
    <3> QED BY <3>2, <3>3, <3>4
  <2> QED BY <2>2 DEF Owed
<1>5. ASSUME NEW x \in Paths, ServedAt(p, x)
      PROVE  Served(pass'[p], View(p)', index', x, disk[x], missed', stale[p])
  <2>1. Holds(pass'[p], x, disk[x])
    BY <1>1 DEF Holds
  <2>2. pass'[p].marks = pass[p].marks /\ pass'[p].pc \notin {"get", "set"}
    BY <1>1 DEF SamePlan, SameScan
  <2> QED BY <1>0, <1>1, <1>3, <1>4, <1>5, <2>1, <2>2, ServedStep DEF ServedAt
<1> QED BY <1>0, <1>1, <1>5, MarksStep DEF SamePlan, SameScan

LEMMA SettledMarks ==
  ASSUME TypeOK, NEW p \in Procs, MarksKept(p), UNCHANGED <<disk, found, stale>>,
         missed \subseteq missed', NEW y, Settled(p, y), pass[p].pc = "apply",
         index' \in {index, View(p)'},
         \A x \in Paths : Fewer(View(p)', View(p), x, disk[x]),
         y \in pass[p].marks => y \in missed'
  PROVE  MarksKept(p)'
<1>1. /\ pass'[p].marks = pass[p].marks /\ pass'[p].kind = pass[p].kind
      /\ pass'[p].failed = pass[p].failed /\ pass'[p].pc = "apply"
      /\ pass'[p].todo = pass[p].todo \ {y} /\ pass'[p].hand = pass[p].hand
      /\ pass'[p].snap = pass[p].snap
  BY SettleEffect DEF SamePlan, SameScan, SameFlags
<1>2. ASSUME NEW x \in Paths, ServedAt(p, x)
      PROVE  Served(pass'[p], View(p)', index', x, disk[x], missed', stale[p])
  <2>1. (x \in pass[p].marks \/ x \notin stale[p]) => Holds(pass'[p], x, disk[x])
    BY <1>1, <1>2 DEF ServedAt, Served, Holds
  <2>3. x # y => \A i \in Ids : Awaits(pass[p], i, x) => Awaits(pass'[p], i, x)
    BY <1>1 DEF Due, Awaits
  <2>2. (x # y /\ Owed(pass[p], View(p), x, disk[x])) => Owed(pass'[p], View(p)', x, disk[x])
    BY <2>3, OwedStays
  <2> QED BY <1>1, <1>2, <2>1, <2>2, ServedStep DEF ServedAt
<1> QED BY <1>1, <1>2, MarksStep

LEMMA InHandMarks ==
  ASSUME TypeOK, NEW p \in Procs, MarksKept(p), UNCHANGED <<disk, found, stale, index>>,
         NEW y \in Paths, InHand(p, y), pass[p].pc = "apply", pass[p].hand = Absent
  PROVE  MarksKept(p)'
<1>1. /\ pass'[p].marks = pass[p].marks /\ pass'[p].kind = pass[p].kind
      /\ pass'[p].failed = pass[p].failed /\ pass'[p].pc = "apply" /\ View(p)' = View(p)
      /\ pass'[p].todo = pass[p].todo \ {y} /\ missed' = missed
      /\ pass'[p].hand # Absent /\ pass'[p].hand.path = y /\ pass'[p].snap = pass[p].snap
  BY ViewAfter DEF InHand, SamePlan, SameScan, SameFlags
<1>2. /\ disk[y] # Absent /\ pass'[p].hand.id = disk[y].id
      /\ pass'[p].hand.hash = disk[y].hash
  BY ReadNowFacts DEF InHand
<1>3. ASSUME NEW x \in Paths, ServedAt(p, x)
      PROVE  Served(pass'[p], View(p)', index', x, disk[x], missed', stale[p])
  <2>1. Holds(pass'[p], x, disk[x])
    BY <1>1, <1>2 DEF Holds
  <2>2. Owed(pass[p], View(p), x, disk[x]) => Owed(pass'[p], View(p), x, disk[x])
    BY <1>1 DEF Owed, Awaits, Due
  <2>3. Fewer(View(p), View(p), x, disk[x])
    BY FewerRefl
  <2> QED BY <1>1, <1>3, <2>1, <2>2, <2>3, ServedStep DEF ServedAt
<1> QED BY <1>1, <1>3, MarksStep

LEMMA ApplyMarks ==
  ASSUME TypeOK, Upgrading, InOrder, NEW p \in Procs, MarksKept(p), Apply(p)
  PROVE  MarksKept(p)'
<1>0. /\ UNCHANGED <<disk, found, stale>> /\ pass[p] \in PassTypes /\ View(p) \in Tables
      /\ pass[p].pc = "apply" /\ pass[p].hand = Absent /\ pass[p].todo \subseteq Live(pass[p])
  BY ViewTyped, UpgradeFacts DEF Apply, editVars, TypeOK, UpgradePass
<1>1. PICK y \in pass[p].todo : y \in Paths /\ (Skip(p, y) \/ SecondRead(p, y))
  BY <1>0 DEF Apply, PassTypes
<1>2. CASE Skip(p, y)
  <2>1. PICK i \in Ids :
          /\ UNCHANGED <<index, lock, calm>> \/ Write(p, WithMtime(View(p), i, pass[p].live[y]))
          /\ Settled(p, y) /\ y \notin Rechunked(pass[p]) /\ missed' = missed
    BY <1>2, SkipEffect
  <2>2. y \notin pass[p].marks
    BY <1>0, <1>1, <2>1, MarkedIsRead
  <2>3. pass[p].live[y] \in Nat
    BY <1>0, <1>1 DEF PassTypes
  <2>4. index' \in {index, View(p)'} /\ \A x \in Paths : Fewer(View(p)', View(p), x, disk[x])
    <3>1. CASE UNCHANGED <<index, lock, calm>>
      BY <3>1, FewerRefl, ViewAfter
    <3>2. CASE Write(p, WithMtime(View(p), i, pass[p].live[y]))
      BY <1>0, <2>3, <3>2, FewerSteps, ViewAfter DEF Write
    <3> QED BY <2>1, <3>1, <3>2
  <2> QED BY <1>0, <2>1, <2>2, <2>4, SettledMarks
<1>3. CASE SecondRead(p, y)
  <2>1. index' = index
    BY <1>1, <1>3, SecondReadEffect
  <2>2. CASE Settled(p, y) /\ UNCHANGED lock /\ missed' = missed \cup {y}
    <3>1. View(p)' = View(p) /\ \A x \in Paths : Fewer(View(p), View(p), x, disk[x])
      BY <2>1, <2>2, FewerRefl, ViewAfter
    <3> QED BY <1>0, <2>1, <2>2, <3>1, SettledMarks
  <2>3. CASE Raise(p) /\ missed' = missed
    BY <1>0, <2>1, <2>3, RaiseMarks
  <2>4. CASE InHand(p, y)
    BY <1>0, <1>1, <2>1, <2>4, InHandMarks
  <2> QED BY <1>1, <1>3, <2>2, <2>3, <2>4, SecondReadEffect
<1> QED BY <1>1, <1>2, <1>3

LEMMA StoreSameMarks ==
  ASSUME TypeOK, Upgrading, NEW p \in Procs, MarksKept(p), UNCHANGED <<disk, stale, missed>>,
         found' \subseteq found,
         pass[p].pc = "apply", pass[p].hand # Absent, pass[p].hand \in Handed, StoreSame(p)
  PROVE  MarksKept(p)'
<1> DEFINE h == pass[p].hand
<1>0. /\ pass[p] \in PassTypes /\ View(p) \in Tables /\ OnePerPath(pass[p].snap)
      /\ h.id \in Ids /\ h.path \in Paths /\ pass[p].live[h.path] \in Nat
  BY ViewTyped, UpgradeFacts DEF TypeOK, PassTypes, Handed, UpgradePass
<1>1. /\ pass'[p].marks = pass[p].marks /\ pass'[p].kind = pass[p].kind
      /\ pass'[p].failed = pass[p].failed /\ pass'[p].pc = "apply"
      /\ pass'[p].todo = pass[p].todo /\ pass'[p].hand = Absent /\ pass'[p].snap = pass[p].snap
  BY DEF StoreSame, SamePlan, SameScan, SameFlags
<1>2. index' \in {index, View(p)'} /\ \A x \in Paths : Fewer(View(p)', View(p), x, disk[x])
  <2>1. CASE UNCHANGED <<index, lock, calm>>
    BY <2>1, FewerRefl, ViewAfter
  <2>2. CASE Write(p, WithMtime(View(p), h.id, pass[p].live[h.path]))
    BY <1>0, <2>2, FewerSteps, ViewAfter DEF Write
  <2> QED BY <2>1, <2>2 DEF StoreSame
<1>3. ASSUME NEW x \in Paths, ServedAt(p, x)
      PROVE  Served(pass'[p], View(p)', index', x, disk[x], missed', stale[p])
  <2>1. Holds(pass'[p], x, disk[x])
    BY <1>1 DEF Holds
  <2>2. x # h.path => \A i \in Ids : Awaits(pass[p], i, x) => Awaits(pass'[p], i, x)
    BY <1>1 DEF Awaits, Due
  <2>3. (x # h.path /\ Owed(pass[p], View(p), x, disk[x])) => Owed(pass'[p], View(p)', x, disk[x])
    BY <1>2, <2>2, OwedStays
  <2>4. ASSUME x = h.path, x \in pass[p].marks, Owed(pass[p], View(p), x, disk[x])
        PROVE  Healed(View(p)', x, disk[x])
    <3>0. Healed(View(p), x, disk[x]) => Healed(View(p)', x, disk[x])
      BY <1>2, FewerKeeps
    <3>1. SUFFICES ASSUME NEW i \in Ids, View(p)[i] # Absent, View(p)[i].path = x,
                          ~Whole(View(p)[i], i, disk[x])
                   PROVE  FALSE
      BY <3>0 DEF Healed
    <3>2. disk[x] # Absent /\ h.id = disk[x].id /\ h.hash = disk[x].hash
      BY <1>3, <2>4 DEF ServedAt, Served, Holds
    <3>3. pass[p].snap[i] # Absent /\ pass[p].snap[i].path = x
      BY <2>4, <3>1 DEF Owed, Awaits
    <3>4. i = h.id
      BY <1>0, <2>4, <3>3 DEF StoreSame, Entry, OnePerPath
    <3> QED BY <3>1, <3>2, <3>4 DEF StoreSame, SameChunks, Whole
  <2> QED BY <1>1, <1>2, <1>3, <2>1, <2>3, <2>4, ServedStep DEF ServedAt
<1> QED BY <1>1, <1>3, MarksStep

LEMMA StoreRowMarks ==
  ASSUME TypeOK, NEW p \in Procs, MarksKept(p),
         UNCHANGED <<disk, stale, missed>>, found' \subseteq found,
         pass[p].pc = (IF Bulk(p) THEN "apply" ELSE "store"),
         pass[p].hand # Absent, pass[p].hand \in Handed, StoreRow(p)
  PROVE  MarksKept(p)'
<1> DEFINE n == pass[p].hand
<1>0. /\ pass[p] \in PassTypes /\ View(p) \in Tables
      /\ n.id \in Ids /\ n.path \in Paths /\ n.hash \in Hashes
      /\ MtimeFor(p, n.path) \in Nat
  BY ViewTyped DEF TypeOK, PassTypes, Handed, MtimeFor
<1>1. /\ pass'[p].marks = pass[p].marks /\ pass'[p].kind = pass[p].kind
      /\ pass'[p].failed = pass[p].failed
      /\ pass'[p].todo = pass[p].todo /\ pass'[p].hand = Absent /\ pass'[p].snap = pass[p].snap
      /\ pass'[p].pc = (IF Bulk(p) THEN "apply" ELSE "get")
  BY DEF StoreRow, SamePlan, SameScan
<1>2. PICK row \in Rows :
        /\ row.path = n.path /\ row.hash = n.hash /\ row.current
        /\ View(p)' = Upsert(View(p), n.id, row) /\ index' \in {index, View(p)'}
  <2>1. PICK row : row = [path |-> n.path, hash |-> n.hash, mtime |-> MtimeFor(p, n.path),
                          current |-> TRUE]
    OBVIOUS
  <2>2. row \in Rows /\ row.path = n.path /\ row.hash = n.hash /\ row.current
    BY <1>0, <2>1 DEF Rows
  <2>3. Write(p, Upsert(View(p), n.id, row))
    BY <2>1 DEF StoreRow
  <2>4. View(p)' = Upsert(View(p), n.id, row) /\ index' \in {index, View(p)'}
    BY <2>3, ViewAfter DEF Write
  <2> QED BY <2>2, <2>4
<1>3. ASSUME NEW x \in Paths, ServedAt(p, x)
      PROVE  Served(pass'[p], View(p)', index', x, disk[x], missed', stale[p])
  <2>1. Holds(pass'[p], x, disk[x])
    BY <1>1 DEF Holds
  <2>2. CASE x # n.path
    <3>1. Fewer(View(p)', View(p), x, disk[x])
      BY <1>0, <1>2, <2>2, FewerSteps
    <3>2. Bulk(p) => \A i \in Ids : Awaits(pass[p], i, x) => Awaits(pass'[p], i, x)
      BY <1>1, <2>2 DEF Awaits, Due
    <3>3. Bulk(p) => (Owed(pass[p], View(p), x, disk[x]) => Owed(pass'[p], View(p)', x, disk[x]))
      BY <3>1, <3>2, OwedStays
    <3>4. ~Bulk(p) => x \notin pass[p].marks
      BY DEF MarksKept, Bulk
    <3>5. (x \in pass[p].marks /\ Owed(pass[p], View(p), x, disk[x])) =>
            pass'[p].pc \notin {"get", "set"} /\ Owed(pass'[p], View(p)', x, disk[x])
      BY <1>1, <3>3, <3>4
    <3> QED BY <1>1, <1>2, <1>3, <2>1, <3>1, <3>5, ServedStep DEF ServedAt
  <2>3. CASE x = n.path /\ (x \in pass[p].marks \/ x \notin stale[p])
    <3>1. disk[x] # Absent /\ n.id = disk[x].id /\ n.hash = disk[x].hash
      BY <1>3, <2>3 DEF ServedAt, Served, Holds
    <3>2. Healed(View(p)', x, disk[x])
      BY <1>2, <2>3, <3>1 DEF Healed, Whole, Upsert
    <3> QED BY <1>1, <1>2, <1>3, <2>1, <3>2 DEF ServedAt, Served
  <2>4. CASE x \notin pass[p].marks /\ x \in stale[p]
    BY <1>1, <2>4 DEF Served
  <2> QED BY <2>2, <2>3, <2>4
<1> QED BY <1>1, <1>3, MarksStep

LEMMA StoreMarks ==
  ASSUME TypeOK, Upgrading, NEW p \in Procs, MarksKept(p), Store(p)
  PROVE  MarksKept(p)'
<1>1. UNCHANGED <<disk, stale, missed>>
  BY DEF Store
<1>2. found' \subseteq found
  BY DEF Store, OwnFound
<1>3. StoreSame(p) => pass[p].pc = "apply"
  BY StoreEffect DEF StoreSame
<1> QED BY <1>1, <1>2, <1>3, StoreEffect, StoreSameMarks, StoreRowMarks, RaiseMarks

(* Nothing is owed any more once the rows are written. *)
LEMMA NothingOwed ==
  ASSUME NEW s, NEW rows, NEW x, NEW n, Owed(s, rows, x, n),
         \/ s.pc = "apply" /\ s.todo = {} /\ s.hand = Absent
         \/ s.pc = "stamp"
  PROVE  Healed(rows, x, n)
BY DEF Owed, Awaits, Due, Healed

LEMMA AppliedMarks ==
  ASSUME TypeOK, NEW p \in Procs, MarksKept(p), Applied(p)
  PROVE  MarksKept(p)'
<1>1. /\ UNCHANGED <<disk, found, stale, missed>> /\ View(p)' = View(p)
      /\ index' \in {index, View(p)} /\ SamePlan(pass[p], pass'[p])
      /\ SameFlags(pass[p], pass'[p]) /\ pass'[p].pc = "stamp" /\ pass'[p].hand = Absent
      /\ pass[p].pc = "apply" /\ pass[p].todo = {} /\ pass[p].hand = Absent
  BY AppliedEffect, ViewAfter DEF Applied, vaultVars, editVars, Commit, View
<1>2. ASSUME NEW x \in Paths, ServedAt(p, x)
      PROVE  Served(pass'[p], View(p)', index', x, disk[x], missed', stale[p])
  <2>1. Holds(pass'[p], x, disk[x]) /\ Fewer(View(p), View(p), x, disk[x])
    BY <1>1, FewerRefl DEF Holds
  <2>2. Owed(pass[p], View(p), x, disk[x]) => Healed(View(p), x, disk[x])
    BY <1>1, NothingOwed
  <2> QED BY <1>1, <1>2, <2>1, <2>2, ServedStep DEF ServedAt, SamePlan, SameScan, SameFlags
<1> QED BY <1>1, <1>2, MarksStep DEF SamePlan, SameScan

(* A mark is dropped only with a note that is healed or was missed. *)
LEMMA FinishMarks ==
  ASSUME TypeOK, NEW p \in Procs, MarksKept(p), UNCHANGED <<disk, found, index, lock, missed>>,
         pass[p].pc \in {"stamp", "set"}, lock.owner # p, Finish(p)
  PROVE  MarksKept(p)'
<1>1. /\ pass'[p] = Idle /\ View(p) = index /\ View(p)' = index
      /\ stale'[p] = (IF pass[p].failed THEN stale[p] ELSE stale[p] \ pass[p].marks)
  BY DEF Finish, TypeOK, View
<1>2. ASSUME NEW x \in Paths, ServedAt(p, x)
      PROVE  ServedAt(p, x)'
  <2>1. x \notin stale'[p] => x \in missed \/ Healed(index, x, disk[x])
    <3>1. CASE x \notin stale[p]
      BY <1>2, <3>1 DEF ServedAt, Served
    <3>2. CASE x \in pass[p].marks /\ ~pass[p].failed
      BY <1>1, <1>2, <3>2, NothingOwed DEF ServedAt, Served
    <3> QED BY <1>1, <3>1, <3>2
  <2> QED BY <1>1, <2>1 DEF ServedAt, Served, Idle, Holds
<1> QED BY <1>1, <1>2 DEF MarksKept, Idle

LEMMA EndingMarks ==
  ASSUME TypeOK, Upgrading, InOrder, NEW p \in Procs, MarksKept(p),
         Stamp(p) \/ GetGeneration(p) \/ SetGeneration(p)
  PROVE  MarksKept(p)'
<1>1. /\ UNCHANGED <<disk, found, index, lock, missed>> /\ View(p)' = View(p)
      /\ pass[p].pc \in {"stamp", "get", "set"} /\ lock.owner # p
  BY UpgradeFacts, ViewAfter
     DEF Stamp, GetGeneration, SetGeneration, Reads, vaultVars, editVars
<1>2. CASE Finish(p) /\ pass[p].pc \in {"stamp", "set"}
  BY <1>1, <1>2, FinishMarks
<1>3. CASE /\ SamePlan(pass[p], pass'[p]) /\ SameFlags(pass[p], pass'[p])
           /\ pass'[p].pc \in {"get", "set"} /\ pass'[p].hand = pass[p].hand /\ stale' = stale
           /\ pass[p].pc \in {"stamp", "get"}
  <2>1. ASSUME NEW x \in Paths, ServedAt(p, x)
        PROVE  Served(pass'[p], View(p)', index', x, disk[x], missed', stale[p])
    <3>1. Fewer(View(p), View(p), x, disk[x])
      BY FewerRefl
    <3>2. (x \in pass[p].marks \/ x \notin stale[p]) => Holds(pass'[p], x, disk[x])
      BY <1>3, <2>1 DEF ServedAt, Served, Holds
    <3>3. (pass[p].pc \notin {"get", "set"} /\ Owed(pass[p], View(p), x, disk[x]))
            => Healed(View(p), x, disk[x])
      BY <1>3, NothingOwed
    <3> QED BY <1>1, <1>3, <2>1, <3>1, <3>2, <3>3, ServedStep
            DEF ServedAt, SamePlan, SameScan, SameFlags
  <2> QED BY <1>1, <1>3, <2>1, MarksStep DEF SamePlan, SameScan
<1> QED BY <1>2, <1>3, StampEffect, GetEffect, SetEffect

LEMMA TargetMarks ==
  ASSUME TypeOK, Upgrading, InOrder, NEW p \in Procs, MarksKept(p),
         Drop(p) \/ \E y \in Paths : Target(p, y)
  PROVE  MarksKept(p)'
<1>0. UNCHANGED <<disk, found, stale, missed>> /\ View(p) \in Tables
  BY ViewTyped DEF Drop, Target, vaultVars, editVars
<1>1. CASE Drop(p)
  <2>1. /\ SamePlan(pass[p], pass'[p]) /\ SameFlags(pass[p], pass'[p])
        /\ pass'[p].pc = "store" /\ pass'[p].hand = pass[p].hand /\ pass[p].pc = "drop"
    BY <1>1, DropEffect
  <2>2. index' \in {index, View(p)'} /\ \A x \in Paths : Fewer(View(p)', View(p), x, disk[x])
    <3>1. CASE UNCHANGED <<index, lock, calm>>
      BY <3>1, FewerRefl, ViewAfter
    <3>2. ASSUME NEW i \in Ids, Write(p, Without(View(p), i))
          PROVE  /\ index' \in {index, View(p)'}
                 /\ \A x \in Paths : Fewer(View(p)', View(p), x, disk[x])
      BY <1>0, <3>2, FewerSteps, ViewAfter DEF Write
    <3> QED BY <1>1, <3>1, <3>2, DropEffect
  <2>3. \A x \in Paths, i \in Ids : Awaits(pass'[p], i, x)
    BY <2>1 DEF Awaits, Due
  <2> QED BY <1>0, <2>1, <2>2, <2>3, ServedRest, MarksStep
          DEF SamePlan, SameScan, SameFlags, ServedAt
<1>2. ASSUME NEW y \in Paths, Target(p, y)
      PROVE  MarksKept(p)'
  <2>1. /\ pass[p] = Idle /\ pass'[p].marks = Idle.marks /\ pass'[p].hand.path = y
        /\ pass'[p].hand.id = disk[y].id /\ pass'[p].hand.hash = disk[y].hash
        /\ disk[y] # Absent /\ UNCHANGED <<index, lock>>
    BY <1>2, TargetEffect, ReadNowFacts DEF InOrder, Orderly
  <2>2. pass'[p].marks = {} /\ View(p)' = View(p)
    BY <2>1, ViewAfter DEF Idle
  <2>3. ASSUME NEW x \in Paths, ServedAt(p, x)
        PROVE  ServedAt(p, x)'
    <3>1. Holds(pass'[p], x, disk[x])
      BY <2>1 DEF Holds
    <3> QED BY <1>0, <2>1, <2>2, <2>3, <3>1 DEF ServedAt, Served
  <2> QED BY <1>0, <2>2, <2>3 DEF MarksKept
<1> QED BY <1>1, <1>2

LEMMA FaultMarks ==
  ASSUME TypeOK, NEW p \in Procs, MarksKept(p), StoreFails(p) \/ Cancel(p) \/ Crash(p)
  PROVE  MarksKept(p)'
<1>1. /\ UNCHANGED <<index, missed, disk>> /\ View(p)' = index
      /\ Stopped(pass[p], pass'[p]) \/ pass'[p] = Idle
  BY FaultEffect, ViewAfter DEF StoreFails, Cancel, Crash, vaultVars, editVars
<1>2. CASE StoreFails(p) \/ Cancel(p)
  BY <1>1, <1>2, MarksStop DEF StoreFails, Cancel, vaultVars, editVars
<1>3. CASE Crash(p)
  <2>1. pass'[p] = Idle /\ \A x \in Paths : <<p, x>> \notin found'
    BY <1>3 DEF Crash, TypeOK
  <2> QED BY <2>1 DEF MarksKept, Idle
<1> QED BY <1>2, <1>3

(* A hit marks the note for the next sweep. *)
LEMMA HitMarks ==
  ASSUME TypeOK, NEW p \in Procs, NEW i \in Ids, MarksKept(p), Apart(p), Hit(p, i)
  PROVE  MarksKept(p)' /\ Apart(p)'
<1>1. PICK x \in Paths : x = View(p)[i].path
  BY ViewTyped DEF Hit, Tables, Rows
<1>2. /\ UNCHANGED <<disk, index, lock, pass, missed>> /\ stale'[p] = stale[p] \cup {x}
      /\ found' = IF x \in pass[p].marks \/ ~CanWrite(p) THEN found ELSE found \cup {<<p, x>>}
  BY <1>1 DEF Hit, TypeOK
<1>3. View(p)' = View(p)
  BY <1>2, ViewAfter
<1>4. ASSUME NEW y \in Paths, <<p, y>> \in found'
      PROVE  ServedAt(p, y)' /\ ApartAt(p, y)'
  <2>1. CASE <<p, y>> \in found
    BY <1>2, <1>3, <2>1 DEF MarksKept, ServedAt, Served, Apart, ApartAt
  <2>2. CASE y = x /\ x \notin pass[p].marks /\ CanWrite(p)
    BY <1>2, <1>3, <2>2 DEF ServedAt, Served, ApartAt, CanWrite
  <2> QED BY <1>2, <1>4, <2>1, <2>2
<1> QED BY <1>2, <1>4 DEF MarksKept, Apart

LEMMA OthersHit ==
  ASSUME TypeOK, NEW q \in Procs, NEW i \in Ids, Hit(q, i), NEW p \in Procs \ {q},
         MarksKept(p), Apart(p)
  PROVE  MarksKept(p)' /\ Apart(p)'
<1>1. /\ UNCHANGED <<disk, index, lock, pass, missed>> /\ stale'[p] = stale[p]
      /\ \A x \in Paths : <<p, x>> \in found' => <<p, x>> \in found
  BY DEF Hit, TypeOK
<1>2. View(p)' = View(p)
  BY <1>1, ViewAfter
<1> QED BY <1>1, <1>2 DEF MarksKept, ServedAt, Apart, ApartAt

(* What becomes of a note that was edited is for its new mtime to tell. *)
LEMMA EditMarks ==
  ASSUME TypeOK, NEW p \in Procs, MarksKept(p), Apart(p), Edit
  PROVE  MarksKept(p)' /\ Apart(p)'
<1>1. /\ UNCHANGED <<index, lock, pass, missed, stale>>
      /\ \A x \in Paths : <<p, x>> \in found' => <<p, x>> \in found /\ disk'[x] = disk[x]
  <2>1. ASSUME NEW x \in Paths, NEW n, Touch(x, n)
        PROVE  /\ UNCHANGED <<index, lock, pass, missed, stale>>
               /\ \A y \in Paths : <<p, y>> \in found' => <<p, y>> \in found /\ disk'[y] = disk[y]
    BY <2>1 DEF Touch, TypeOK
  <2>2. ASSUME NEW x \in Paths, NEW y \in Paths, Move(x, y)
        PROVE  /\ UNCHANGED <<index, lock, pass, missed, stale>>
               /\ \A z \in Paths : <<p, z>> \in found' => <<p, z>> \in found /\ disk'[z] = disk[z]
    BY <2>2 DEF Move, TypeOK
  <2> QED BY <2>1, <2>2 DEF Edit, Save, Delete, Restore, SaveSameTick
<1>2. View(p)' = View(p)
  BY <1>1, ViewAfter
<1> QED BY <1>1, <1>2 DEF MarksKept, ServedAt, Apart, ApartAt

(* A step of the server itself leaves alone what others have not committed. *)
LEMMA OwnApart ==
  ASSUME TypeOK, NEW p \in Procs, Apart(p), Acts(p), disk' = disk, found' \subseteq found
  PROVE  Apart(p)'
<1>1. lock'.owner \in {NoProc, p} \/ UNCHANGED <<index, lock>>
  BY ActsWrites, ReconcileAssumption DEF Write, CanWrite, Commit, Rollback, FreeLock
<1> QED BY <1>1 DEF Apart, ApartAt

(* What a server writes is whole, or was there, or is a change to others. *)
LEMMA ActsFewer ==
  ASSUME TypeOK, Upgrading, NEW q \in Procs, Acts(q)
  PROVE  \/ UNCHANGED <<index, lock>> \/ (Rollback(q) /\ UNCHANGED index) \/ Commit(q)
         \/ \E rows :
              /\ Write(q, rows)
              /\ \A p \in Procs \ {q}, x \in Paths :
                   <<p, x>> \in found' => Fewer(rows, View(q), x, disk[x])
<1> DEFINE Writes(rows) ==
             /\ Write(q, rows)
             /\ \A p \in Procs \ {q}, x \in Paths :
                  <<p, x>> \in found' => Fewer(rows, View(q), x, disk[x])
           Rests == UNCHANGED <<index, lock>> \/ (Rollback(q) /\ UNCHANGED index) \/ Commit(q)
<1>0. View(q) \in Tables /\ pass[q] \in PassTypes
  BY ViewTyped DEF TypeOK
<1>1. CASE Purge(q)
  BY <1>0, <1>1, PurgeEffect, FewerSteps
<1>2. CASE Drop(q)
  BY <1>0, <1>2, DropEffect, FewerSteps
<1>3. CASE Apply(q)
  <2>1. PICK y \in pass[q].todo : y \in Paths /\ (Skip(q, y) \/ SecondRead(q, y))
    BY <1>0, <1>3 DEF Apply, PassTypes
  <2>2. pass[q].live[y] \in Nat
    BY <1>0, <2>1 DEF PassTypes
  <2>3. CASE Skip(q, y)
    BY <1>0, <2>2, <2>3, SkipEffect, FewerSteps
  <2>4. CASE SecondRead(q, y)
    BY <2>1, <2>4, SecondReadEffect DEF InHand, Raise
  <2> QED BY <2>1, <2>3, <2>4
<1>4. CASE Store(q)
  <2> DEFINE h == pass[q].hand
  <2>1. /\ h \in Handed /\ h.path \in Paths /\ h.id \in Ids /\ h.hash \in Hashes
        /\ MtimeFor(q, h.path) \in Nat /\ pass[q].live[h.path] \in Nat
    BY <1>0, <1>4, StoreEffect DEF MtimeFor, PassTypes
  <2>2. CASE StoreSame(q)
    BY <1>0, <2>1, <2>2, FewerSteps DEF StoreSame
  <2>3. CASE StoreRow(q)
    <3>1. PICK row : row = [path |-> h.path, hash |-> h.hash, mtime |-> MtimeFor(q, h.path),
                            current |-> TRUE]
      OBVIOUS
    <3>2. row \in Rows /\ row.path = h.path /\ row.hash = h.hash /\ row.current
      BY <2>1, <3>1 DEF Rows
    <3>3. Write(q, Upsert(View(q), h.id, row))
      BY <2>3, <3>1 DEF StoreRow
    <3>4. ASSUME NEW p \in Procs \ {q}, NEW x \in Paths, <<p, x>> \in found'
          PROVE  x # h.path \/ Whole(row, h.id, disk[x])
      <4>1. CASE ReadNow(h.path) = [id |-> h.id, hash |-> h.hash]
        <5>1. ReadNow(h.path) \in Identities
          BY <2>1, <4>1 DEF Identities
        <5> QED BY <2>1, <3>2, <4>1, <5>1, ReadNowFacts DEF Whole
      <4>2. CASE found' = OwnFound(q, h.path)
        BY <3>4, <4>2 DEF OwnFound
      <4> QED BY <2>3, <4>1, <4>2 DEF StoreRow
    <3>5. \A p \in Procs \ {q}, x \in Paths :
            <<p, x>> \in found' => Fewer(Upsert(View(q), h.id, row), View(q), x, disk[x])
      BY <1>0, <2>1, <3>2, <3>4, FewerSteps
    <3> QED BY <3>3, <3>5
  <2> QED BY <1>4, <2>2, <2>3, StoreEffect DEF Raise
<1>5. CASE ~(Purge(q) \/ Drop(q) \/ Apply(q) \/ Store(q))
  BY <1>5 DEF Acts, Step, Start, Walk, Snapshot, Prepare, Prepared, Purged, Applied, Stamp,
     GetGeneration, SetGeneration, Target, StoreFails, Cancel, Crash, Reads, Claims, Raise
<1> QED BY <1>1, <1>2, <1>3, <1>4, <1>5

LEMMA ActsAround ==
  ASSUME TypeOK, NEW q \in Procs, Acts(q)
  PROVE  /\ disk' = disk /\ missed \subseteq missed' /\ found' \subseteq found
         /\ \A p \in Procs \ {q} : stale'[p] = stale[p]
<1>1. disk' = disk /\ missed \subseteq missed' /\ found' \subseteq found
  BY DEF Acts, Step, Start, Walk, Snapshot, Prepare, Prepared, Purge, Purged, Apply, Store,
     Applied, Stamp, GetGeneration, SetGeneration, Drop, Target, StoreFails, Cancel, Crash, Reads,
     Claims, Skip, SecondRead, vaultVars, editVars, OwnFound
<1>2. \/ stale' = stale \/ \E v : stale' = [stale EXCEPT ![q] = v]
  BY DEF Acts, Step, Start, Walk, Snapshot, Prepare, Prepared, Purge, Purged, Apply, Store,
     Applied, Stamp, GetGeneration, SetGeneration, Drop, Target, StoreFails, Cancel, Crash, Reads,
     Finish
<1> QED BY <1>1, <1>2 DEF TypeOK

(* A server finds its notes as it left them, or better, after the others. *)
LEMMA OthersMarks ==
  ASSUME TypeOK, Upgrading, NEW q \in Procs, Acts(q), NEW p \in Procs \ {q},
         MarksKept(p), Apart(p)
  PROVE  MarksKept(p)' /\ Apart(p)'
<1>1. /\ disk' = disk /\ missed \subseteq missed' /\ found' \subseteq found
      /\ stale'[p] = stale[p] /\ pass'[p] = pass[p]
  BY ActsAround, OthersRest
<1>2. CASE UNCHANGED <<index, lock>> /\ View(p)' = View(p)
  <2>1. \A x \in Paths : Fewer(View(p), View(p), x, disk[x])
    BY FewerRefl
  <2>2. \A x \in Paths : ServedAt(p, x) => ServedAt(p, x)'
    BY <1>1, <1>2, <2>1, ServedRest DEF ServedAt
  <2> QED BY <1>1, <1>2, <2>2 DEF MarksKept, Apart, ApartAt
<1>3. CASE View(p) = index /\ View(p)' = index' /\ lock.owner # p /\ lock'.owner # p
  <2>1. ASSUME NEW x \in Paths, <<p, x>> \in found'
        PROVE  Fewer(index', index, x, disk[x]) /\ ApartAt(p, x)'
    <3>0. <<p, x>> \in found /\ ApartAt(p, x)
      BY <1>1, <2>1 DEF Apart
    <3>1. CASE UNCHANGED <<index, lock>> \/ (Rollback(q) /\ UNCHANGED index)
      BY <1>1, <3>0, <3>1, FewerRefl DEF ApartAt, Rollback, FreeLock
    <3>2. CASE Commit(q)
      BY <1>1, <1>3, <3>0, <3>2, FewerRefl, ReconcileAssumption DEF ApartAt, Commit, FreeLock
    <3>3. ASSUME NEW rows, Write(q, rows), Fewer(rows, View(q), x, disk[x])
          PROVE  Fewer(index', index, x, disk[x]) /\ ApartAt(p, x)'
      <4>1. Fewer(View(q), index, x, disk[x])
        BY <1>3, <3>0, FewerRefl, ReconcileAssumption DEF ApartAt, View
      <4>2. Fewer(rows, index, x, disk[x])
        BY <3>3, <4>1, FewerTrans
      <4> QED BY <1>1, <3>3, <4>2, FewerRefl, ReconcileAssumption DEF Write, ApartAt, FreeLock
    <3> QED BY <2>1, <3>1, <3>2, <3>3, ActsFewer
  <2>2. \A x \in Paths : (<<p, x>> \in found' /\ ServedAt(p, x)) => ServedAt(p, x)'
    BY <1>1, <1>3, <2>1, ServedRest DEF ServedAt
  <2> QED BY <1>1, <2>1, <2>2 DEF MarksKept, Apart
<1> QED BY <1>2, <1>3, OthersView

LEMMA MarkedNext ==
  ASSUME TypeOK, Upgrading, InOrder, Marked, [Next]_vars
  PROVE  Marked'
<1>1. env.procs \subseteq Procs
  BY ReconcileAssumption DEF TypeOK, SettingType
<1>2. CASE UNCHANGED <<disk, found, index, lock, missed, pass, stale, env>>
  BY <1>2 DEF Marked, MarksKept, ServedAt, View, Apart, ApartAt
<1>3. CASE Edit
  <2>1. env' = env
    BY <1>3 DEF Edit, Save, Delete, Restore, SaveSameTick, Move, Touch
  <2> QED BY <1>1, <1>3, <2>1, EditMarks DEF Marked
<1>4. ASSUME NEW q \in env.procs, Acts(q), NEW p \in env.procs
      PROVE  MarksKept(p)' /\ Apart(p)'
  <2>1. CASE p # q
    BY <1>1, <1>4, <2>1, OthersMarks DEF Marked
  <2>2. CASE p = q
    <3>1. MarksKept(p)'
      BY <1>1, <1>4, <2>2, ScanMarks, PrepareMarks, PurgeMarks, ApplyMarks, StoreMarks,
         AppliedMarks, EndingMarks, TargetMarks, FaultMarks DEF Marked, Acts, Step
    <3>2. Apart(p)'
      BY <1>1, <1>4, <2>2, ActsAround, OwnApart DEF Marked
    <3> QED BY <3>1, <3>2
  <2> QED BY <2>1, <2>2
<1>5. ASSUME NEW q \in env.procs, Acts(q)
      PROVE  Marked'
  BY <1>1, <1>4, <1>5, OthersRest DEF Marked
<1>6. ASSUME NEW q \in env.procs, NEW i \in Ids, Hit(q, i)
      PROVE  Marked'
  BY <1>1, <1>6, HitMarks, OthersHit DEF Marked, Hit
<1> QED BY <1>2, <1>3, <1>5, <1>6 DEF Next, AskGeneration, AskRows, vars, Acts, vaultVars, editVars

LEMMA InitMarked ==
  ASSUME Init
  PROVE  Marked
<1>1. env.procs \subseteq Procs /\ found = {} /\ \A p \in Procs : pass[p] = Idle
  BY ReconcileAssumption DEF Init, SettingType
<1> QED BY <1>1 DEF Marked, MarksKept, Apart, Idle

LEMMA MarkedHolds == Spec => [](PassInv /\ Marked)
<1>1. ASSUME PassInv, Marked, [Next]_vars
      PROVE  Marked'
  BY <1>1, MarkedNext DEF PassInv
<1> QED BY <1>1, InitMarked, PassInvHolds, PTL DEF Spec

(* A note that a search found stale stays marked until its rows are those  *)
(* of its file, through passes that fail, are cancelled or take the mark   *)
(* along while searches go on, and whatever the other servers write but    *)
(* older bytes of the note; except for notes that were missed.             *)
THEOREM MarksAreKept == Spec => []MarksSurvive
<1>1. ASSUME PassInv, Marked, NEW p \in Procs, NEW x \in Paths, <<p, x>> \in found
      PROVE  x \in stale[p] \/ x \in missed \/ Current(x)
  <2>1. p \in env.procs
    BY <1>1 DEF PassInv, Bystanders
  <2>2. ServedAt(p, x)
    BY <1>1, <2>1 DEF Marked, MarksKept
  <2> QED BY <2>2 DEF ServedAt, Served, Healed, Whole, Current
<1>2. PassInv /\ Marked => MarksSurvive
  BY <1>1 DEF MarksSurvive
<1> QED BY <1>2, MarkedHolds, PTL

(***************************************************************************)
(* A pass that nothing disturbs.  What it walked and read is what the      *)
(* vault is, and each note it is done with has its row and no other.       *)
(***************************************************************************)

At(rows, i, x) == rows[i] # Absent /\ rows[i].path = x

NoOther(rows, x, i) == \A j \in Ids : At(rows, j, x) => j = i

(* n is what a reading of x gives. *)
MirrorAt(rows, x, n) ==
  IF n \in Identities
    THEN At(rows, n.id, x) /\ rows[n.id].hash = n.hash /\ NoOther(rows, x, n.id)
    ELSE \A j \in Ids : ~At(rows, j, x)

Reading == [x \in Paths |-> ReadNow(x)]
Mtimes == [x \in Paths |-> IF disk[x] = Absent THEN 0 ELSE disk[x].mtime]

Carries(s, x) == s.hand # Absent /\ s.hand.path = x

Settling(s, rows, reads, mtimes) ==
  /\ \A x \in Paths : (Walked(s, x) \/ s.pc \in {"purge", "apply"}) => s.live[x] = mtimes[x]
  /\ \A x \in Live(s) : (s.pc = "purge" \/ (s.pc = "prepare" /\ x \notin s.todo)) =>
       s.prepared[x] = IF Gated(s, x) THEN Absent ELSE reads[x]
  /\ s.pc = "apply" => \A x \in Paths :
       /\ x \in s.todo =>
            /\ s.prepared[x] = reads[x] /\ NoOther(rows, x, reads[x].id)
            /\ \A i \in Entry(s, x) : i = reads[x].id => rows[i] = s.snap[i]
       /\ Carries(s, x) =>
            /\ reads[x] \in Identities /\ s.hand.id = reads[x].id /\ s.hand.hash = reads[x].hash
            /\ NoOther(rows, x, reads[x].id)
       /\ (x \notin s.todo /\ ~Carries(s, x)) => MirrorAt(rows, x, reads[x])
  /\ s.pc \in {"stamp", "get", "set"} => \A x \in Paths : MirrorAt(rows, x, reads[x])

(* Nothing has misled the mtime gate. *)
Trusting == SavesMoveMtime /\ returned = {} /\ crossed = {}

Undisturbed(p) ==
  /\ calm[p] /\ (pass[p].kind = "full" \/ Trusting)
  /\ pass[p].pc # "idle" /\ pass[p].kind # "note" /\ ~pass[p].failed

SettlingAt(p) == Undisturbed(p) => Settling(pass[p], View(p), Reading, Mtimes)

Calm == \A p \in Procs : SettlingAt(p)

LEMMA SettlingStep ==
  ASSUME NEW p \in Procs, SettlingAt(p), Acts(p), UNCHANGED <<disk, env, returned>>,
         Undisturbed(p)' => /\ pass[p].pc # "idle" /\ pass[p].kind # "note" /\ ~pass[p].failed
                            /\ calm[p] /\ pass'[p].kind = pass[p].kind,
         (/\ Undisturbed(p) /\ calm'[p] /\ pass'[p].pc # "idle" /\ ~pass'[p].failed
          /\ Settling(pass[p], View(p), Reading, Mtimes))
            => Settling(pass'[p], View(p)', Reading, Mtimes)
  PROVE  SettlingAt(p)'
<1>1. Reading' = Reading /\ Mtimes' = Mtimes
  BY DEF Reading, Mtimes, ReadNow
<1>2. Trusting' => Trusting
  BY ActsRest DEF Trusting, SavesMoveMtime
<1>3. Undisturbed(p)' => Undisturbed(p)
  BY <1>2 DEF Undisturbed
<1> QED BY <1>1, <1>3 DEF SettlingAt, Undisturbed

(* A pass that stops promises nothing. *)
LEMMA StoppedSettling ==
  ASSUME NEW p \in Procs, Stopped(pass[p], pass'[p]) \/ pass'[p] = Idle
  PROVE  SettlingAt(p)'
BY DEF SettlingAt, Undisturbed, Stopped, Idle

LEMMA ReadingFacts ==
  ASSUME TypeOK, HeldNotes, NEW x \in Paths
  PROVE  /\ Reading[x] = ReadNow(x) /\ Reading[x] \in Identities \cup {Unreadable, Undecodable}
         /\ Reading[x] \in Identities =>
              /\ Reading[x].id \in Ids /\ Reading[x].id = disk[x].id
              /\ Reading[x].hash = disk[x].hash /\ Reading[x].hash # Undecodable
              /\ disk[x] # Absent
         /\ Mtimes[x] = (IF disk[x] = Absent THEN 0 ELSE disk[x].mtime)
         /\ (Mtimes[x] = 0) <=> (disk[x] = Absent)
         /\ (Reading[x] = Unreadable) <=> (disk[x] = Absent)
<1>1. Reading[x] = ReadNow(x) /\ Mtimes[x] = (IF disk[x] = Absent THEN 0 ELSE disk[x].mtime)
  BY DEF Reading, Mtimes
<1>2. ReadNow(x) \in Identities \cup {Unreadable, Undecodable}
  BY ReadNowTyped
<1>3. disk[x] # Absent => disk[x].mtime # 0
  BY DiskIsTrue
<1>4. (ReadNow(x) = Unreadable) <=> (disk[x] = Absent)
  <2>1. disk[x] # Absent => disk[x].id \in Ids /\ disk[x].hash \in Hashes
    BY DiskIsTrue
  <2> QED BY <2>1, ReconcileAssumption DEF ReadNow, Identities
<1> QED BY <1>1, <1>2, <1>3, <1>4, ReadNowFacts

LEMMA ScanSettling ==
  ASSUME TypeOK, Upgrading, InOrder, NEW p \in Procs, Acts(p), SettlingAt(p),
         Start(p) \/ Walk(p) \/ Snapshot(p)
  PROVE  SettlingAt(p)'
<1>0. UNCHANGED <<disk, env, returned>> /\ pass[p] \in PassTypes
  BY DEF Start, Walk, Snapshot, Reads, vaultVars, editVars, TypeOK
<1>1. CASE Start(p)
  BY <1>1, StartEffect DEF SettlingAt, Settling, Walked
<1>2. CASE Walk(p)
  <2>1. PICK y \in pass[p].todo :
          /\ pass[p].pc = "walk" /\ pass'[p].kind = pass[p].kind
          /\ SameFlags(pass[p], pass'[p])
          /\ \A x \in Paths : pass'[p].live[x] =
               IF x # y THEN pass[p].live[x] ELSE IF disk[y] = Absent THEN 0 ELSE disk[y].mtime
          /\ IF pass[p].todo \ {y} # {}
               THEN pass'[p].pc = "walk" /\ pass'[p].todo = pass[p].todo \ {y}
               ELSE /\ pass'[p].todo = Paths
                    /\ pass'[p].pc = IF pass[p].kind = "sweep" THEN "snapshot" ELSE "prepare"
    BY <1>2, WalkEffect
  <2>2. calm' = calm
    BY <1>2 DEF Walk, Reads
  <2>3. ASSUME Settling(pass[p], View(p), Reading, Mtimes)
        PROVE  Settling(pass'[p], View(p)', Reading, Mtimes)
    <3>1. \A x \in Paths : x \notin pass[p].todo \/ x = y => pass'[p].live[x] = Mtimes[x]
      BY <2>1, <2>3 DEF Settling, Walked, Mtimes
    <3>2. \A x \in Live(pass'[p]) : x \in Paths
      BY DEF Live
    <3> QED BY <2>1, <3>1, <3>2 DEF Settling, Walked
  <2> QED BY <1>0, <2>1, <2>2, <2>3, SettlingStep DEF SameFlags, Undisturbed
<1>3. CASE Snapshot(p)
  <2>1. /\ pass[p].pc = "snapshot" /\ pass'[p].kind = pass[p].kind
        /\ pass'[p].pc = (IF pass[p].kind = "sweep" THEN "prepare" ELSE "walk")
        /\ pass'[p].live = pass[p].live /\ pass'[p].todo = Paths
        /\ SameFlags(pass[p], pass'[p])
    BY <1>3, SnapshotEffect, UpgradeFacts DEF UpgradePass
  <2>2. calm' = calm
    BY <1>3 DEF Snapshot, Reads
  <2>3. ASSUME Settling(pass[p], View(p), Reading, Mtimes)
        PROVE  Settling(pass'[p], View(p)', Reading, Mtimes)
    BY <2>1, <2>3 DEF Settling, Walked, Live
  <2> QED BY <1>0, <2>1, <2>2, <2>3, SettlingStep DEF SameFlags, Undisturbed
<1> QED BY <1>1, <1>2, <1>3

LEMMA PrepareSettling ==
  ASSUME TypeOK, InOrder, NEW p \in Procs, Acts(p), SettlingAt(p), Prepare(p) \/ Prepared(p)
  PROVE  SettlingAt(p)'
<1>0. UNCHANGED <<disk, env, returned>> /\ pass[p] \in PassTypes
  BY DEF Prepare, Prepared, Reads, vaultVars, editVars, TypeOK
<1>1. CASE Prepare(p)
  <2>1. PICK y \in Paths, outcome \in Identities \cup {Absent, Unreadable, Undecodable} :
          /\ y \in pass[p].todo /\ y \in Live(pass[p]) /\ Found(p, y, outcome)
          /\ Raise(p) \/ Claimed(p, y, outcome)
    BY <1>1, PrepareEffect
  <2>2. CASE Raise(p)
    BY <2>2, RaiseEffect, StoppedSettling
  <2>3. CASE Claimed(p, y, outcome)
    <3>1. /\ pass[p].pc = "prepare" /\ pass'[p].pc = "prepare"
          /\ Live(pass'[p]) = Live(pass[p]) /\ pass'[p].live = pass[p].live
          /\ \A x : Gated(pass'[p], x) <=> Gated(pass[p], x)
          /\ pass'[p].kind = pass[p].kind /\ pass'[p].failed = pass[p].failed
          /\ pass'[p].todo = pass[p].todo \ {y}
          /\ \A x \in Paths : pass'[p].prepared[x] = IF x = y THEN outcome ELSE pass[p].prepared[x]
      BY <1>1, <2>3, PrepareEffect, SameScanKeeps DEF Claimed, SameScan, SameFlags
    <3>2. calm'[p] => calm[p] /\ outcome = IF Gated(pass[p], y) THEN Absent ELSE Reading[y]
      <4>1. calm'[p] => ~(calm' = [calm EXCEPT ![p] = FALSE])
        BY DEF TypeOK
      <4>2. calm' = calm \/ calm' = [calm EXCEPT ![p] = FALSE]
        BY <1>1 DEF Prepare
      <4> QED BY <2>1, <4>1, <4>2 DEF Found, Reading
    <3>3. ASSUME Settling(pass[p], View(p), Reading, Mtimes), calm'[p]
          PROVE  Settling(pass'[p], View(p)', Reading, Mtimes)
      <4>1. \A x \in Paths : pass'[p].live[x] = Mtimes[x]
        BY <3>1, <3>3 DEF Settling, Walked
      <4>2. \A x \in Live(pass[p]) \ pass'[p].todo :
               pass'[p].prepared[x] = IF Gated(pass[p], x) THEN Absent ELSE Reading[x]
        BY <3>1, <3>2, <3>3 DEF Settling, Live
      <4> QED BY <3>1, <4>1, <4>2 DEF Settling, Walked
    <3> QED BY <1>0, <3>1, <3>2, <3>3, SettlingStep DEF Undisturbed
  <2> QED BY <2>1, <2>2, <2>3
<1>2. CASE Prepared(p)
  <2>1. /\ SamePlan(pass[p], pass'[p]) /\ pass'[p].pc = "purge" /\ pass[p].pc = "prepare"
        /\ pass[p].todo \cap Live(pass[p]) = {} /\ calm' = calm
        /\ SameFlags(pass[p], pass'[p])
    BY <1>2, PreparedEffect DEF Prepared, Reads
  <2>2. /\ Live(pass'[p]) = Live(pass[p]) /\ pass'[p].live = pass[p].live
        /\ \A x : Gated(pass'[p], x) <=> Gated(pass[p], x)
        /\ pass'[p].prepared = pass[p].prepared /\ pass'[p].kind = pass[p].kind
    BY <2>1, SameScanKeeps DEF SamePlan, SameScan
  <2>3. ASSUME Settling(pass[p], View(p), Reading, Mtimes)
        PROVE  Settling(pass'[p], View(p)', Reading, Mtimes)
    BY <2>1, <2>2, <2>3 DEF Settling, Walked
  <2> QED BY <1>0, <2>1, <2>2, <2>3, SettlingStep DEF SameFlags, Undisturbed
<1> QED BY <1>1, <1>2

LEMMA PurgeSettling ==
  ASSUME TypeOK, InOrder, NEW p \in Procs, Acts(p), SettlingAt(p), Purge(p)
  PROVE  SettlingAt(p)'
<1>1. /\ UNCHANGED <<disk, env, returned>>
      /\ SamePlan(pass[p], pass'[p]) /\ SameFlags(pass[p], pass'[p])
      /\ pass'[p].pc = "purge" /\ pass[p].pc = "purge" /\ (calm'[p] => calm[p])
  BY PurgeEffect DEF Purge, vaultVars, editVars, Write
<1>2. /\ Live(pass'[p]) = Live(pass[p]) /\ pass'[p].live = pass[p].live
      /\ \A x : Gated(pass'[p], x) <=> Gated(pass[p], x)
      /\ pass'[p].prepared = pass[p].prepared /\ pass'[p].kind = pass[p].kind
  BY <1>1, SameScanKeeps DEF SamePlan, SameScan
<1>3. ASSUME Settling(pass[p], View(p), Reading, Mtimes)
      PROVE  Settling(pass'[p], View(p)', Reading, Mtimes)
  BY <1>1, <1>2, <1>3 DEF Settling, Walked
<1> QED BY <1>1, <1>2, <1>3, SettlingStep DEF SameFlags, Undisturbed

(* A note the gate skipped has the row of its file: no other note had its  *)
(* mtime, and no older file came back.                                     *)
LEMMA GatedIsMirrored ==
  ASSUME TypeOK, HeldNotes, MtimesTell, returned = {}, crossed = {}, NEW s \in PassTypes,
         NEW x \in Paths, RowsTrue(s.snap, Excused), s.live[x] = Mtimes[x], Gated(s, x)
  PROVE  /\ disk[x] # Absent /\ Reading[x] \in Identities
         /\ Reading[x].id \in Entry(s, x) /\ s.snap[Reading[x].id].hash = Reading[x].hash
<1>1. PICK i \in Entry(s, x) : s.snap[i].mtime # 0 /\ s.snap[i].mtime = s.live[x]
  BY DEF Gated
<1>2. /\ i \in Ids /\ s.snap[i] # Absent /\ s.snap[i].path = x
      /\ disk[x] # Absent /\ s.snap[i].mtime = disk[x].mtime
  BY <1>1, ReadingFacts DEF Entry
<1>3. s.snap[i].hash # Undecodable /\ <<x, disk[x].mtime, i, s.snap[i].hash>> \in Truths
  BY <1>1, <1>2 DEF RowsTrue, Excused
<1>4. PICK n \in held[x] :
        n.mtime = disk[x].mtime /\ ((n.id = i /\ n.hash = s.snap[i].hash) \/ disk[x] # n)
  BY <1>3 DEF Truths
<1>5. n = disk[x]
  BY <1>2, <1>4 DEF HeldNotes, MtimesTell
<1>6. disk[x].id = i /\ disk[x].hash = s.snap[i].hash
  BY <1>4, <1>5
<1>7. ReadNow(x) = [id |-> i, hash |-> s.snap[i].hash]
  BY <1>2, <1>3, <1>6 DEF ReadNow
<1>8. Reading[x] = ReadNow(x) /\ ReadNow(x) \in Identities
  <2>1. s.snap[i].hash \in Hashes
    BY <1>2 DEF PassTypes, Tables, Rows
  <2> QED BY <1>2, <1>7, <2>1 DEF Reading, Identities
<1> QED BY <1>1, <1>2, <1>7, <1>8

LEMMA PurgedSettling ==
  ASSUME TypeOK, Upgrading, InOrder, Rightly, NEW p \in Procs, Acts(p),
         Knows(pass[p], View(p)), SettlingAt(p), Purged(p)
  PROVE  SettlingAt(p)'
<1> DEFINE s == pass[p]
<1> DEFINE t == pass'[p]
<1>0. /\ s \in PassTypes /\ Orderly(s) /\ OnePerPath(s.snap) /\ RowsTrue(s.snap, Excused)
      /\ View(p) \in Tables /\ HeldNotes
  BY UpgradeFacts DEF UpgradePass, PassTrue, Rightly, InOrder
<1>1. /\ UNCHANGED <<disk, env, returned, calm>> /\ View(p)' = View(p)
      /\ s.pc = "purge" /\ t.pc = "apply" /\ s.gone = {} /\ SamePlan(s, t)
      /\ t.failed = s.failed /\ t.hand = Absent
      /\ t.todo = {x \in Kept(s) : ~Gated(s, x) /\ s.prepared[x] # Unreadable}
  BY <1>0, PurgedEffect, ViewAfter DEF Purged, Reads, vaultVars, editVars, Orderly
<1>2. /\ t.prepared = s.prepared /\ t.live = s.live /\ t.snap = s.snap /\ t.kind = s.kind
      /\ Live(t) = Live(s)
      /\ \A x : Entry(t, x) = Entry(s, x)
  BY <1>1, SameScanKeeps DEF SamePlan, SameScan
<1>3. \A i \in Ids : View(p)[i] = IF i \in Vanished(s) THEN Absent ELSE s.snap[i]
  BY <1>1 DEF Knows
<1>4. ASSUME s.kind = "full" \/ Trusting, Settling(s, View(p), Reading, Mtimes)
      PROVE  Settling(t, View(p)', Reading, Mtimes)
  <2>1. \A x \in Paths : s.live[x] = Mtimes[x]
    BY <1>1, <1>4 DEF Settling
  <2>2. \A x \in Live(s) : s.prepared[x] = IF Gated(s, x) THEN Absent ELSE Reading[x]
    BY <1>1, <1>4 DEF Settling
  <2>3. ASSUME NEW x \in Paths, NEW j \in Ids, At(View(p), j, x)
        PROVE  /\ j \notin Vanished(s) /\ s.snap[j] # Absent /\ s.snap[j].path = x
               /\ View(p)[j] = s.snap[j]
    BY <1>3, <2>3 DEF At
  <2>4. ASSUME NEW x \in Paths, x \in t.todo
        PROVE  /\ t.prepared[x] = Reading[x] /\ NoOther(View(p), x, Reading[x].id)
               /\ \A i \in Entry(t, x) : i = Reading[x].id => View(p)[i] = t.snap[i]
    <3>1. /\ x \in Live(s) /\ x \in Kept(s) /\ ~Gated(s, x)
          /\ s.prepared[x] = Reading[x] /\ Reading[x] # Unreadable
      BY <1>1, <2>2, <2>4 DEF Kept
    <3>2. Reading[x] \notin {Absent, Unreadable}
      BY <1>0, <3>1, ReadingFacts, ReconcileAssumption
    <3>3. \A j \in Ids : At(View(p), j, x) => j = Reading[x].id
      BY <2>3, <3>1, <3>2 DEF Vanished
    <3>4. \A i \in Entry(s, x) : i = Reading[x].id => i \notin Vanished(s)
      BY <3>1 DEF Entry, Vanished
    <3>5. \A i \in Entry(s, x) : i \in Ids
      BY DEF Entry
    <3> QED BY <1>2, <1>3, <3>1, <3>3, <3>4, <3>5 DEF NoOther
  <2>5. ASSUME NEW x \in Paths, x \notin t.todo
        PROVE  MirrorAt(View(p), x, Reading[x])
    <3>1. CASE x \notin Live(s)
      <4>1. disk[x] = Absent
        BY <1>0, <2>1, <3>1, ReadingFacts DEF Live
      <4>2. Reading[x] \notin Identities
        BY <1>0, <4>1, ReadingFacts
      <4>3. \A j \in Ids : ~At(View(p), j, x)
        BY <2>3, <3>1 DEF Vanished, Kept
      <4> QED BY <4>2, <4>3 DEF MirrorAt
    <3>2. CASE x \in Live(s) /\ Gated(s, x)
      <4>1. /\ Reading[x] \in Identities /\ Reading[x].id \in Entry(s, x)
            /\ s.snap[Reading[x].id].hash = Reading[x].hash
        <5>1. Trusting
          BY <1>4, <3>2 DEF Gated
        <5> QED BY <1>0, <2>1, <3>2, <5>1, GatedIsMirrored DEF Rightly, Trusting
      <4>2. s.prepared[x] = Absent /\ x \in Kept(s)
        BY <2>2, <3>2, ReconcileAssumption DEF Kept
      <4>3. Reading[x].id \in Ids /\ Reading[x].id \notin Vanished(s)
        BY <4>1, <4>2 DEF Entry, Vanished
      <4>4. At(View(p), Reading[x].id, x) /\ View(p)[Reading[x].id].hash = Reading[x].hash
        BY <1>3, <4>1, <4>3 DEF At, Entry
      <4>5. NoOther(View(p), x, Reading[x].id)
        BY <1>0, <2>3, <4>3, <4>4 DEF NoOther, OnePerPath, At
      <4> QED BY <4>1, <4>4, <4>5 DEF MirrorAt
    <3>3. CASE x \in Live(s) /\ ~Gated(s, x)
      <4>1. s.prepared[x] = Reading[x] /\ disk[x] # Absent
        BY <1>0, <2>1, <2>2, <3>3, ReadingFacts DEF Live
      <4>2. Reading[x] # Unreadable
        BY <1>0, <4>1, ReadingFacts
      <4>3. x \notin Kept(s) /\ Reading[x] = Undecodable
        BY <1>1, <2>5, <3>3, <4>1, <4>2 DEF Kept
      <4>4. \A j \in Ids : ~At(View(p), j, x)
        BY <2>3, <4>3 DEF Vanished
      <4> QED BY <4>3, <4>4, ReconcileAssumption DEF MirrorAt
    <3> QED BY <3>1, <3>2, <3>3
  <2> QED BY <1>1, <1>2, <2>1, <2>4, <2>5 DEF Settling, Carries, Walked
<1> QED BY <1>1, <1>2, <1>4, SettlingStep DEF Undisturbed

(* A note that is settled, the others as they were. *)
LEMMA MtimeSettles ==
  ASSUME NEW rows \in Tables, NEW i \in Ids, NEW m \in Nat, NEW after,
         after = WithMtime(rows, i, m)
  PROVE  /\ \A x, j : j \in Ids => (At(after, j, x) <=> At(rows, j, x))
         /\ \A x, n : MirrorAt(rows, x, n) => MirrorAt(after, x, n)
         /\ \A x, n : NoOther(rows, x, n) => NoOther(after, x, n)
         /\ \A j \in Ids \ {i} : after[j] = rows[j]
<1>1. \A j \in Ids : /\ (after[j] = Absent) <=> (rows[j] = Absent)
                     /\ after[j].path = rows[j].path /\ after[j].hash = rows[j].hash
  BY WithMtimeKeeps
<1>2. \A x, j : j \in Ids => (At(after, j, x) <=> At(rows, j, x))
  BY <1>1 DEF At
<1>3. \A j \in Ids \ {i} : after[j] = rows[j]
  BY DEF WithMtime, Tables
<1>4. \A x, n : NoOther(rows, x, n) => NoOther(after, x, n)
  BY <1>2 DEF NoOther
<1>5. \A n : n \in Identities => n.id \in Ids
  BY DEF Identities
<1>6. ASSUME NEW x, NEW n, MirrorAt(rows, x, n)
      PROVE  MirrorAt(after, x, n)
  <2>1. CASE n \in Identities
    BY <1>1, <1>2, <1>4, <1>5, <1>6, <2>1 DEF MirrorAt
  <2>2. CASE n \notin Identities
    BY <1>2, <1>6, <2>2 DEF MirrorAt
  <2> QED BY <2>1, <2>2
<1> QED BY <1>2, <1>3, <1>4, <1>6

LEMMA SkipSettling ==
  ASSUME TypeOK, Upgrading, InOrder, HeldNotes, NEW p \in Procs, Acts(p), SettlingAt(p),
         pass[p].pc = "apply", pass[p].hand = Absent, NEW y \in pass[p].todo, y \in Paths,
         Skip(p, y), UNCHANGED <<disk, env, returned>>
  PROVE  SettlingAt(p)'
<1> DEFINE s == pass[p]
<1> DEFINE t == pass'[p]
<1>0. s \in PassTypes /\ View(p) \in Tables /\ Orderly(s) /\ s.prepared[y] \in Identities
  BY ViewTyped DEF TypeOK, InOrder, Orderly
<1>1. PICK i \in Ids :
        /\ s.prepared[y] = [id |-> i, hash |-> s.snap[i].hash] /\ i \in Entry(s, y)
        /\ UNCHANGED <<index, lock, calm>> \/ Write(p, WithMtime(View(p), i, s.live[y]))
        /\ Settled(p, y)
  BY SkipEffect
<1>2. /\ SamePlan(s, t) /\ SameFlags(s, t) /\ t.pc = "apply" /\ t.todo = s.todo \ {y}
      /\ t.hand = Absent /\ (calm'[p] => calm[p])
  BY <1>1, SettleEffect DEF Write
<1>3. /\ t.prepared = s.prepared /\ t.live = s.live /\ t.snap = s.snap /\ t.kind = s.kind
      /\ \A x : Entry(t, x) = Entry(s, x)
  BY <1>2, SameScanKeeps DEF SamePlan, SameScan
<1>4. /\ \A x, n : MirrorAt(View(p), x, n) => MirrorAt(View(p)', x, n)
      /\ \A x, n : NoOther(View(p), x, n) => NoOther(View(p)', x, n)
      /\ \A x, j : j \in Ids => (At(View(p)', j, x) <=> At(View(p), j, x))
      /\ \A j \in Ids \ {i} : View(p)'[j] = View(p)[j]
      /\ View(p)'[i].hash = View(p)[i].hash
  <2>1. CASE UNCHANGED <<index, lock, calm>>
    BY <2>1, ViewAfter
  <2>2. CASE Write(p, WithMtime(View(p), i, s.live[y]))
    <3>1. View(p)' = WithMtime(View(p), i, s.live[y]) /\ s.live[y] \in Nat
      BY <1>0, <2>2, ViewAfter DEF PassTypes
    <3> QED BY <1>0, <3>1, MtimeSettles, WithMtimeKeeps
  <2> QED BY <1>1, <2>1, <2>2
<1>5. ASSUME Settling(s, View(p), Reading, Mtimes)
      PROVE  Settling(t, View(p)', Reading, Mtimes)
  <2>1. /\ Reading[y] = [id |-> i, hash |-> s.snap[i].hash] /\ Reading[y] \in Identities
        /\ NoOther(View(p), y, i) /\ View(p)[i] = s.snap[i]
    BY <1>0, <1>1, <1>5 DEF Settling
  <2>2. s.snap[i] # Absent /\ s.snap[i].path = y
    BY <1>1 DEF Entry
  <2>3. At(View(p), i, y) /\ View(p)[i].hash = Reading[y].hash /\ Reading[y].id = i
    BY <2>1, <2>2 DEF At
  <2>4. MirrorAt(View(p)', y, Reading[y])
    BY <1>4, <2>1, <2>3 DEF MirrorAt
  <2>5. ASSUME NEW x \in Paths, x \in t.todo
        PROVE  /\ t.prepared[x] = Reading[x] /\ NoOther(View(p)', x, Reading[x].id)
               /\ \A j \in Entry(t, x) : j = Reading[x].id => View(p)'[j] = t.snap[j]
    <3>1. x # y /\ x \in s.todo
      BY <1>2, <2>5
    <3>2. \A j \in Entry(s, x) : j \in Ids /\ j # i
      BY <2>2, <3>1 DEF Entry
    <3> QED BY <1>2, <1>3, <1>4, <1>5, <3>1, <3>2 DEF Settling
  <2>6. ASSUME NEW x \in Paths, x \notin t.todo
        PROVE  MirrorAt(View(p)', x, Reading[x])
    <3>1. CASE x = y
      BY <2>4, <3>1
    <3>2. CASE x \notin s.todo
      <4>1. ~Carries(s, x)
        BY DEF Carries
      <4> QED BY <1>4, <1>5, <3>2, <4>1 DEF Settling
    <3> QED BY <1>2, <2>6, <3>1, <3>2
  <2>7. \A x \in Paths : t.live[x] = Mtimes[x] /\ ~Carries(t, x)
    BY <1>2, <1>3, <1>5 DEF Settling, Carries
  <2> QED BY <1>2, <2>5, <2>6, <2>7 DEF Settling, Walked
<1> QED BY <1>2, <1>3, <1>5, SettlingStep DEF SameFlags, Undisturbed

LEMMA InHandSettling ==
  ASSUME TypeOK, InOrder, HeldNotes, NEW p \in Procs, Acts(p), SettlingAt(p),
         pass[p].pc = "apply", pass[p].hand = Absent, NEW y \in pass[p].todo, y \in Paths,
         InHand(p, y), UNCHANGED <<disk, env, returned, index>>
  PROVE  SettlingAt(p)'
<1> DEFINE s == pass[p]
<1> DEFINE t == pass'[p]
<1>2. /\ SamePlan(s, t) /\ SameFlags(s, t) /\ t.pc = "apply" /\ t.todo = s.todo \ {y}
      /\ t.hand # Absent /\ t.hand.path = y /\ calm' = calm /\ View(p)' = View(p)
      /\ t.hand.id = Reading[y].id /\ t.hand.hash = Reading[y].hash /\ Reading[y] \in Identities
  BY ViewAfter DEF InHand, Reading
<1>3. /\ t.prepared = s.prepared /\ t.live = s.live /\ t.snap = s.snap /\ t.kind = s.kind
      /\ \A x : Entry(t, x) = Entry(s, x)
  BY <1>2, SameScanKeeps DEF SamePlan, SameScan
<1>4. ASSUME Settling(s, View(p), Reading, Mtimes)
      PROVE  Settling(t, View(p)', Reading, Mtimes)
  <2>1. \A x \in Paths : ~Carries(s, x) /\ (Carries(t, x) => x = y)
    BY <1>2 DEF Carries
  <2>2. Carries(t, y)
    BY <1>2 DEF Carries
  <2>3. \A x \in Paths : (x \notin t.todo /\ ~Carries(t, x)) => x \notin s.todo
    BY <1>2, <2>2
  <2>4. \A x \in Paths : t.live[x] = Mtimes[x]
    BY <1>3, <1>4 DEF Settling
  <2> QED BY <1>2, <1>3, <1>4, <2>1, <2>3, <2>4 DEF Settling, Walked
<1> QED BY <1>2, <1>3, <1>4, SettlingStep DEF SameFlags, Undisturbed

LEMMA ApplySettling ==
  ASSUME TypeOK, Upgrading, InOrder, HeldNotes, NEW p \in Procs, Acts(p), SettlingAt(p), Apply(p)
  PROVE  SettlingAt(p)'
<1>0. /\ UNCHANGED <<disk, env, returned>> /\ pass[p] \in PassTypes
      /\ pass[p].pc = "apply" /\ pass[p].hand = Absent /\ Orderly(pass[p])
  BY DEF Apply, editVars, TypeOK, InOrder
<1>1. PICK y \in pass[p].todo : y \in Paths /\ (Skip(p, y) \/ SecondRead(p, y))
  BY <1>0 DEF Apply, PassTypes
<1>2. CASE Skip(p, y)
  BY <1>0, <1>1, <1>2, SkipSettling
<1>3. CASE SecondRead(p, y)
  <2>1. index' = index
    BY <1>1, <1>3, SecondReadEffect
  <2>2. CASE Settled(p, y) /\ (\/ ReadNow(y) \in {Unreadable, Undecodable}
                               \/ calm' = [calm EXCEPT ![p] = FALSE])
    <3>1. CASE calm' = [calm EXCEPT ![p] = FALSE]
      BY <3>1 DEF SettlingAt, Undisturbed, TypeOK
    <3>2. CASE ReadNow(y) \in {Unreadable, Undecodable}
      <4>1. ~Settling(pass[p], View(p), Reading, Mtimes)
        <5>1. pass[p].prepared[y] \in Identities
          BY <1>0, <1>1 DEF Orderly
        <5>2. Reading[y] = ReadNow(y)
          BY <1>1 DEF Reading
        <5>3. pass[p].prepared[y] # Reading[y]
          BY <3>2, <5>1, <5>2, ReconcileAssumption
        <5> QED BY <1>0, <1>1, <5>3 DEF Settling
      <4>2. pass'[p].kind = pass[p].kind /\ pass'[p].failed = pass[p].failed
        BY <2>2, SettleEffect DEF SamePlan, SameScan, SameFlags
      <4>3. calm'[p] => calm[p]
        BY <1>3 DEF SecondRead, TypeOK
      <4> QED BY <1>0, <4>1, <4>2, <4>3, SettlingStep DEF Undisturbed
    <3> QED BY <2>2, <3>1, <3>2
  <2>3. CASE Raise(p)
    BY <2>3, RaiseEffect, StoppedSettling
  <2>4. CASE InHand(p, y)
    BY <1>0, <1>1, <2>1, <2>4, InHandSettling
  <2> QED BY <1>1, <1>3, <2>2, <2>3, <2>4, SecondReadEffect
<1> QED BY <1>1, <1>2, <1>3

(* The note in hand is settled by its row. *)
LEMMA HandSettling ==
  ASSUME TypeOK, InOrder, NEW p \in Procs, Acts(p), SettlingAt(p),
         pass[p].pc = "apply", pass[p].hand \in Handed, pass[p].hand # Absent,
         UNCHANGED <<disk, env, returned>>, calm'[p] => calm[p],
         SamePlan(pass[p], pass'[p]), pass'[p].failed = pass[p].failed,
         pass'[p].pc = "apply", pass'[p].todo = pass[p].todo, pass'[p].hand = Absent,
         NoOther(View(p), pass[p].hand.path, pass[p].hand.id) =>
           /\ At(View(p)', pass[p].hand.id, pass[p].hand.path)
           /\ View(p)'[pass[p].hand.id].hash = pass[p].hand.hash
           /\ NoOther(View(p)', pass[p].hand.path, pass[p].hand.id),
         \A x \in Paths \ {pass[p].hand.path} :
           /\ \A j \in Ids : /\ At(View(p)', j, x) <=> At(View(p), j, x)
                             /\ At(View(p), j, x) => View(p)'[j].hash = View(p)[j].hash
           /\ \A j \in Entry(pass[p], x) : View(p)[j] = pass[p].snap[j] =>
                View(p)'[j] = pass[p].snap[j]
  PROVE  SettlingAt(p)'
<1> DEFINE s == pass[p]
<1> DEFINE t == pass'[p]
<1> DEFINE y == s.hand.path
<1>1. y \in Paths /\ s.hand.id \in Ids /\ y \notin s.todo
  BY DEF Handed, InOrder, Orderly
<1>2. /\ t.prepared = s.prepared /\ t.live = s.live /\ t.snap = s.snap /\ t.kind = s.kind
      /\ \A x : Entry(t, x) = Entry(s, x)
  BY SameScanKeeps DEF SamePlan, SameScan
<1>4. /\ t.pc = "apply" /\ t.hand = Absent /\ t.failed = s.failed /\ s.pc = "apply"
      /\ calm'[p] => calm[p]
  OBVIOUS
<1>3. ASSUME Settling(s, View(p), Reading, Mtimes)
      PROVE  Settling(t, View(p)', Reading, Mtimes)
  <2>1. /\ Reading[y] \in Identities /\ s.hand.id = Reading[y].id
        /\ s.hand.hash = Reading[y].hash /\ NoOther(View(p), y, s.hand.id)
    BY <1>1, <1>3 DEF Settling, Carries
  <2>2. MirrorAt(View(p)', y, Reading[y])
    BY <2>1 DEF MirrorAt
  <2>3. ASSUME NEW x \in Paths, x \in t.todo
        PROVE  /\ t.prepared[x] = Reading[x] /\ NoOther(View(p)', x, Reading[x].id)
               /\ \A j \in Entry(t, x) : j = Reading[x].id => View(p)'[j] = t.snap[j]
    <3>1. /\ x # y /\ x \in s.todo /\ s.prepared[x] = Reading[x]
          /\ NoOther(View(p), x, Reading[x].id)
          /\ \A j \in Entry(s, x) : j = Reading[x].id => View(p)[j] = s.snap[j]
      BY <1>1, <1>3, <2>3 DEF Settling
    <3>2. NoOther(View(p)', x, Reading[x].id)
      BY <3>1 DEF NoOther
    <3>3. \A j \in Entry(s, x) : j = Reading[x].id => View(p)'[j] = s.snap[j]
      BY <3>1
    <3> QED BY <1>2, <3>1, <3>2, <3>3
  <2>4. ASSUME NEW x \in Paths, x \notin t.todo
        PROVE  MirrorAt(View(p)', x, Reading[x])
    <3>1. CASE x # y
      <4>1. MirrorAt(View(p), x, Reading[x])
        BY <1>3, <2>4, <3>1 DEF Settling, Carries
      <4>2. NoOther(View(p), x, Reading[x].id) => NoOther(View(p)', x, Reading[x].id)
        BY <3>1 DEF NoOther
      <4>3. Reading[x] \in Identities => Reading[x].id \in Ids
        BY DEF Identities
      <4>4. CASE Reading[x] \in Identities
        BY <3>1, <4>1, <4>2, <4>3, <4>4 DEF MirrorAt
      <4>5. CASE Reading[x] \notin Identities
        BY <3>1, <4>1, <4>5 DEF MirrorAt
      <4> QED BY <4>4, <4>5
    <3> QED BY <2>2, <3>1
  <2>6. \A x \in Paths : s.live[x] = Mtimes[x]
    BY <1>3, <1>4 DEF Settling
  <2>5. \A x \in Paths : t.live[x] = Mtimes[x] /\ ~Carries(t, x)
    BY <1>2, <1>4, <2>6 DEF Carries
  <2> QED BY <2>3, <2>4, <2>5 DEF Settling, Walked
<1>5. /\ pass[p].pc = "apply" /\ pass'[p].kind = pass[p].kind
      /\ pass'[p].failed = pass[p].failed
  BY <1>2
<1> HIDE DEF s, t
<1>6. Undisturbed(p)' => /\ pass[p].pc # "idle" /\ pass[p].kind # "note" /\ ~pass[p].failed
                         /\ calm[p] /\ pass'[p].kind = pass[p].kind
  BY <1>5 DEF Undisturbed
<1>7. Settling(pass[p], View(p), Reading, Mtimes) => Settling(pass'[p], View(p)', Reading, Mtimes)
  BY <1>3 DEF s, t
<1> QED BY <1>6, <1>7, SettlingStep

LEMMA StoreSettling ==
  ASSUME TypeOK, Upgrading, InOrder, Rightly, NEW p \in Procs, Acts(p),
         Knows(pass[p], View(p)), SettlingAt(p), Store(p)
  PROVE  SettlingAt(p)'
<1> DEFINE n == pass[p].hand
<1>0. /\ UNCHANGED <<disk, env, returned>> /\ pass[p] \in PassTypes /\ View(p) \in Tables
      /\ Orderly(pass[p]) /\ OnePerPath(View(p))
      /\ pass[p].pc = (IF Bulk(p) THEN "apply" ELSE "store")
      /\ n # Absent /\ n \in Handed /\ n.path \in Paths /\ n.id \in Ids /\ n.hash \in Hashes
      /\ pass[p].live[n.path] \in Nat /\ MtimeFor(p, n.path) \in Nat
  <2>1. UNCHANGED <<disk, env, returned>>
    BY DEF Store, vaultVars, editVars
  <2>2. pass[p] \in PassTypes /\ View(p) \in Tables /\ OnePerPath(View(p))
    BY UpgradeFacts
  <2>3. Orderly(pass[p])
    BY DEF InOrder
  <2>4. /\ pass[p].pc = (IF Bulk(p) THEN "apply" ELSE "store")
        /\ n # Absent /\ n \in Handed /\ n.path \in Paths /\ n.id \in Ids /\ n.hash \in Hashes
    BY StoreEffect
  <2>5. pass[p].live \in [Paths -> Nat]
    BY <2>2 DEF PassTypes
  <2>6. pass[p].live[n.path] \in Nat
    BY <2>4, <2>5
  <2>7. MtimeFor(p, n.path) \in Nat
    BY <2>6 DEF MtimeFor
  <2> QED BY <2>1, <2>2, <2>3, <2>4, <2>6, <2>7
<1>1. CASE Raise(p)
  BY <1>1, RaiseEffect, StoppedSettling
<1>2. CASE ~Bulk(p) /\ StoreRow(p)
  <2>1. pass'[p].kind = "note"
    BY <1>2 DEF Bulk, StoreRow, SamePlan, SameScan
  <2> QED BY <2>1 DEF SettlingAt, Undisturbed
<1>3. CASE StoreSame(p)
  <2>1. /\ SamePlan(pass[p], pass'[p]) /\ pass'[p].failed = pass[p].failed
        /\ pass[p].pc = "apply" /\ pass'[p].pc = "apply" /\ pass'[p].todo = pass[p].todo
        /\ pass'[p].hand = Absent /\ (calm'[p] => calm[p])
        /\ n.id \in Entry(pass[p], n.path)
        /\ View(p)[n.id] # Absent /\ View(p)[n.id].hash = n.hash
    BY <1>0, <1>3 DEF StoreSame, SameFlags, SameChunks, Write
  <2>2. /\ \A x, j : j \in Ids => (At(View(p)', j, x) <=> At(View(p), j, x))
        /\ \A j \in Ids \ {n.id} : View(p)'[j] = View(p)[j]
        /\ \A j \in Ids : View(p)'[j].hash = View(p)[j].hash
    <3>1. CASE UNCHANGED <<index, lock, calm>>
      BY <3>1, ViewAfter
    <3>2. CASE Write(p, WithMtime(View(p), n.id, pass[p].live[n.path]))
      <4>1. View(p)' = WithMtime(View(p), n.id, pass[p].live[n.path])
        BY <3>2, ViewAfter
      <4> QED BY <1>0, <4>1, MtimeSettles, WithMtimeKeeps
    <3> QED BY <1>3, <3>1, <3>2 DEF StoreSame
  <2>3. pass[p].snap[n.id] # Absent /\ pass[p].snap[n.id].path = n.path
    BY <2>1 DEF Entry
  <2>4. View(p)[n.id].path = n.path
    <3>1. pass[p].owners[n.id] = n.path
      BY <1>0, <2>1 DEF Orderly
    <3>2. Unclaimed(pass[p], n.id)
      BY <1>0, <3>1 DEF Unclaimed
    <3> QED BY <1>0, <2>1, <2>3, <3>2 DEF Knows
  <2>5. At(View(p)', n.id, n.path) /\ View(p)'[n.id].hash = n.hash
    BY <1>0, <2>1, <2>2, <2>4 DEF At
  <2>6. NoOther(View(p)', n.path, n.id)
    BY <1>0, <2>1, <2>2, <2>4 DEF NoOther, At, OnePerPath
  <2>7. ASSUME NEW x \in Paths \ {n.path}
        PROVE  /\ \A j \in Ids : /\ At(View(p)', j, x) <=> At(View(p), j, x)
                                 /\ At(View(p), j, x) => View(p)'[j].hash = View(p)[j].hash
               /\ \A j \in Entry(pass[p], x) : View(p)[j] = pass[p].snap[j] =>
                    View(p)'[j] = pass[p].snap[j]
    <3>1. \A j \in Entry(pass[p], x) : j \in Ids \ {n.id}
      BY <2>3, <2>7 DEF Entry
    <3> QED BY <2>2, <3>1
  <2> QED BY <1>0, <2>1, <2>5, <2>6, <2>7, HandSettling
<1>4. CASE Bulk(p) /\ StoreRow(p)
  <2>1. /\ SamePlan(pass[p], pass'[p]) /\ pass'[p].failed = pass[p].failed
        /\ pass[p].pc = "apply" /\ pass'[p].pc = "apply" /\ pass'[p].todo = pass[p].todo
        /\ pass'[p].hand = Absent /\ (calm'[p] => calm[p])
        /\ ~OwnedElsewhere(View(p), n.id, n.path)
    BY <1>0, <1>4 DEF StoreRow, Write
  <2>2. PICK row : row = [path |-> n.path, hash |-> n.hash, mtime |-> MtimeFor(p, n.path),
                          current |-> TRUE]
    OBVIOUS
  <2>3. row \in Rows /\ row # Absent /\ row.path = n.path /\ row.hash = n.hash
    <3>1. row \in Rows /\ row.path = n.path /\ row.hash = n.hash
      BY <1>0, <2>2 DEF Rows
    <3> QED BY <3>1, ReconcileAssumption
  <2>4. View(p)' = Upsert(View(p), n.id, row)
    BY <1>4, <2>2, ViewAfter DEF StoreRow
  <2>5. /\ At(View(p)', n.id, n.path) /\ View(p)'[n.id].hash = n.hash
        /\ NoOther(View(p)', n.path, n.id)
    BY <1>0, <2>3, <2>4 DEF Upsert, At, NoOther
  <2>6. ASSUME NEW x \in Paths \ {n.path}
        PROVE  /\ \A j \in Ids : /\ At(View(p)', j, x) <=> At(View(p), j, x)
                                 /\ At(View(p), j, x) => View(p)'[j].hash = View(p)[j].hash
               /\ \A j \in Entry(pass[p], x) : View(p)[j] = pass[p].snap[j] =>
                    View(p)'[j] = pass[p].snap[j]
    <3>1. ASSUME NEW j \in Ids, At(View(p), j, x)
          PROVE  View(p)'[j] = View(p)[j]
      <4>1. View(p)[j] # Absent /\ View(p)[j].path = x /\ x # n.path
        BY <2>6, <3>1 DEF At
      <4>2. j # n.id
        BY <2>1, <4>1 DEF OwnedElsewhere
      <4> QED BY <2>3, <2>4, <4>1, <4>2 DEF Upsert
    <3>2. \A j \in Ids : At(View(p)', j, x) => At(View(p), j, x)
      BY <1>0, <2>3, <2>4, <2>6 DEF At, Upsert
    <3>3. \A j \in Entry(pass[p], x) : View(p)[j] = pass[p].snap[j] => At(View(p), j, x)
      BY DEF Entry, At
    <3>4. \A j \in Entry(pass[p], x) : j \in Ids
      BY DEF Entry
    <3> QED BY <3>1, <3>2, <3>3, <3>4 DEF At
  <2> QED BY <1>0, <2>1, <2>5, <2>6, HandSettling
<1> QED BY <1>1, <1>2, <1>3, <1>4, StoreEffect DEF StoreSame

LEMMA AppliedSettling ==
  ASSUME TypeOK, Upgrading, InOrder, NEW p \in Procs, Acts(p), SettlingAt(p),
         Applied(p) \/ Stamp(p) \/ GetGeneration(p) \/ SetGeneration(p)
  PROVE  SettlingAt(p)'
<1>0. UNCHANGED <<disk, env, returned, calm>>
  BY DEF Applied, Stamp, GetGeneration, SetGeneration, Reads, vaultVars, editVars
<1>1. CASE pass'[p] = Idle
  BY <1>1, StoppedSettling
<1>2. CASE /\ SamePlan(pass[p], pass'[p]) /\ SameFlags(pass[p], pass'[p]) /\ View(p)' = View(p)
           /\ pass'[p].pc \in {"stamp", "get", "set"}
           /\ \/ pass[p].pc \in {"stamp", "get", "set"}
              \/ pass[p].pc = "apply" /\ pass[p].todo = {} /\ pass[p].hand = Absent
  <2>1. ASSUME Settling(pass[p], View(p), Reading, Mtimes)
        PROVE  \A x \in Paths : MirrorAt(View(p), x, Reading[x])
    BY <1>2, <2>1 DEF Settling, Carries
  <2>2. Settling(pass[p], View(p), Reading, Mtimes) => Settling(pass'[p], View(p)', Reading, Mtimes)
    BY <1>2, <2>1 DEF Settling, Walked
  <2>3. Undisturbed(p)' => /\ pass[p].pc # "idle" /\ pass[p].kind # "note" /\ ~pass[p].failed
                           /\ calm[p] /\ pass'[p].kind = pass[p].kind
    BY <1>0, <1>2 DEF Undisturbed, SamePlan, SameScan, SameFlags
  <2> QED BY <1>0, <2>2, <2>3, SettlingStep
<1>3. CASE Applied(p)
  BY <1>2, <1>3, AppliedEffect, ViewAfter
<1>4. CASE Stamp(p)
  BY <1>1, <1>2, <1>4, StampEffect, ViewAfter
<1>5. CASE GetGeneration(p)
  BY <1>2, <1>5, GetEffect, ViewAfter
<1>6. CASE SetGeneration(p)
  BY <1>1, <1>6, SetEffect
<1> QED BY <1>3, <1>4, <1>5, <1>6

LEMMA OtherSettling ==
  ASSUME TypeOK, Upgrading, InOrder, NEW p \in Procs, Acts(p), SettlingAt(p),
         \/ Drop(p) \/ \E y \in Paths : Target(p, y)
         \/ StoreFails(p) \/ Cancel(p) \/ Crash(p)
  PROVE  SettlingAt(p)'
<1>1. CASE Drop(p)
  <2>1. pass'[p].kind = "note"
    BY <1>1, DropEffect, UpgradeFacts DEF UpgradePass, SamePlan, SameScan
  <2> QED BY <2>1 DEF SettlingAt, Undisturbed
<1>2. CASE \E y \in Paths : Target(p, y)
  BY <1>2, TargetEffect DEF SettlingAt, Undisturbed
<1>3. CASE StoreFails(p) \/ Cancel(p) \/ Crash(p)
  BY <1>3, FaultEffect, StoppedSettling
<1> QED BY <1>1, <1>2, <1>3

LEMMA CalmNext ==
  ASSUME TypeOK, Upgrading, InOrder, Known, Rightly, Calm, [Next]_vars
  PROVE  Calm'
<1>1. env.procs \subseteq Procs
  BY ReconcileAssumption DEF TypeOK, SettingType
<1>2. CASE UNCHANGED <<disk, env, returned, crossed, index, lock, pass, calm>>
  <2>1. Reading' = Reading /\ Mtimes' = Mtimes /\ \A p \in Procs : View(p)' = View(p)
    BY <1>2, ViewAfter DEF Reading, Mtimes, ReadNow
  <2> QED BY <1>2, <2>1 DEF Calm, SettlingAt, Undisturbed, Trusting, SavesMoveMtime
<1>3. CASE Edit
  <2>1. \A p \in Procs : ~calm'[p]
    BY <1>3 DEF Edit, Save, Delete, Restore, SaveSameTick, Move, Touch
  <2> QED BY <2>1 DEF Calm, SettlingAt, Undisturbed
<1>4. ASSUME NEW q \in env.procs, Acts(q), NEW p \in Procs, calm'[p]
      PROVE  SettlingAt(p)'
  <2>1. /\ SettlingAt(p) /\ HeldNotes /\ UNCHANGED <<disk, env, returned>>
        /\ crossed \subseteq crossed'
    BY <1>4, ActsRest DEF Calm, Rightly
  <2>2. CASE p # q
    <3>1. calm[p] /\ UNCHANGED <<index, lock>> /\ pass'[p] = pass[p]
      BY <1>1, <1>4, <2>2, CalmRest
    <3>2. /\ Reading' = Reading /\ Mtimes' = Mtimes /\ View(p)' = View(p)
          /\ Trusting' => Trusting
      BY <2>1, <3>1 DEF Reading, Mtimes, ReadNow, View, Trusting, SavesMoveMtime
    <3> QED BY <2>1, <3>1, <3>2 DEF SettlingAt, Undisturbed
  <2>3. CASE p = q
    <3>1. calm[p] \/ Start(p)
      BY <1>4, <2>3, CalmLock
    <3>2. CASE Start(p)
      BY <1>4, <2>1, <2>3, <3>2, ScanSettling
    <3>3. CASE calm[p]
      <4>1. Knows(pass[p], View(p))
        BY <3>3 DEF Known
      <4> QED BY <1>4, <2>1, <2>3, <4>1, ScanSettling, PrepareSettling, PurgeSettling,
           PurgedSettling, ApplySettling, StoreSettling, AppliedSettling, OtherSettling
           DEF Acts, Step
    <3> QED BY <3>1, <3>2, <3>3
  <2> QED BY <2>2, <2>3
<1>5. ASSUME NEW q \in env.procs, Acts(q)
      PROVE  Calm'
  <2>1. ASSUME NEW p \in Procs, ~calm'[p]
        PROVE  SettlingAt(p)'
    BY <2>1 DEF SettlingAt, Undisturbed
  <2> QED BY <1>4, <1>5, <2>1 DEF Calm
<1> QED BY <1>2, <1>3, <1>5 DEF Next, Hit, AskGeneration, AskRows, vars, Acts, vaultVars, editVars

LEMMA CalmHolds == Spec => [](PassInv /\ Calm)
<1>1. ASSUME Init
      PROVE  Calm
  BY <1>1 DEF Init, Calm, SettlingAt, Undisturbed, Idle
<1>2. ASSUME PassInv, Calm, [Next]_vars
      PROVE  Calm'
  BY <1>2, CalmNext DEF PassInv
<1> QED BY <1>1, <1>2, PassInvHolds, PTL DEF Spec

(* A pass that nothing disturbed leaves the index equal to the vault,      *)
(* whatever it found when it began: rows of another content, of notes long *)
(* gone or under old paths, of another chunker version.  Of the other      *)
(* servers it takes only that none writes meanwhile; and only a pass that  *)
(* trusts the mtimes needs them to be what GateSound makes of them.        *)
THEOREM CalmPassMirrors == Spec => []CalmPassSettles
<1>1. ASSUME PassInv, Calm, NEW p \in Procs, pass[p].kind = "full" \/ Trusting,
             calm[p], pass[p].pc \in {"stamp", "get", "set"}, ~pass[p].failed, Bulk(p)
      PROVE  Mirrors(index)
  <2>1. lock.owner # p
    BY <1>1, UpgradeFacts DEF PassInv
  <2>2. \A x \in Paths : MirrorAt(index, x, Reading[x])
    BY <1>1, <2>1 DEF Calm, SettlingAt, Undisturbed, Bulk, View, Settling
  <2>3. ASSUME NEW x \in Paths
        PROVE  LET here == {i \in Ids : index[i] # Absent /\ index[i].path = x}
               IN IF ReadNow(x) \in {Unreadable, Undecodable} THEN here = {}
                  ELSE here = {disk[x].id} /\ index[disk[x].id].hash = disk[x].hash
    <3>1. CASE ReadNow(x) \in Identities
      <4>1. /\ disk[x].id \in Ids /\ ReadNow(x).id = disk[x].id /\ ReadNow(x).hash = disk[x].hash
            /\ ReadNow(x) \notin {Unreadable, Undecodable} /\ Reading[x] = ReadNow(x)
        BY <1>1, <3>1, ReadNowFacts, ReconcileAssumption DEF PassInv, Reading
      <4>2. /\ At(index, disk[x].id, x) /\ index[disk[x].id].hash = disk[x].hash
            /\ NoOther(index, x, disk[x].id)
        BY <2>2, <3>1, <4>1 DEF MirrorAt
      <4> QED BY <4>1, <4>2 DEF At, NoOther
    <3>2. CASE ReadNow(x) \notin Identities
      <4>1. ReadNow(x) \in {Unreadable, Undecodable} /\ Reading[x] = ReadNow(x)
        BY <1>1, <3>2, ReadNowTyped DEF PassInv, Reading
      <4>2. \A j \in Ids : ~At(index, j, x)
        BY <2>2, <3>2, <4>1 DEF MirrorAt
      <4> QED BY <4>1, <4>2 DEF At
    <3> QED BY <3>1, <3>2
  <2> QED BY <2>3 DEF Mirrors
<1>2. PassInv /\ Calm => CalmPassSettles
  BY <1>1 DEF CalmPassSettles, Trusting
<1> QED BY <1>2, CalmHolds, PTL

================================================================================
