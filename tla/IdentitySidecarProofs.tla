------------------------- MODULE IdentitySidecarProofs -------------------------
(***************************************************************************)
(* Identities stay, for any servers, places, identities and files to begin *)
(* with.                                                                   *)
(*                                                                         *)
(* The invariant says of each of the maps a server may write, its copy and *)
(* what it took from it, that they give every place its recorded identity, *)
(* but for the places that changed behind the server's back; and of an     *)
(* assignment on its way that the derived identity is the recorded one.    *)
(***************************************************************************)
EXTENDS IdentitySidecar, TLAPS

(* map, if there is one, gives x the identity it should have. *)
Tells(map, x) == map # NoMap => IdentityIn(map, x) = reference[x]

(* What s takes from ulids.json.migrated or for it is only of use while    *)
(* one of the files is missing.                                            *)
TaskFits(s, x) ==
  /\ task[s].do = "assign" /\ task[s].at = x => reference[x] = Derived[x]
  /\ task[s].do = "seal" /\ (primary = NoMap \/ migrated = NoMap) => Tells(task[s].map, x)

CopyInv(s) ==
  /\ \A x \in Places \ (overrun \cup behind[s]) :
       Tells(memory[s], x) /\ Tells(mending[s], x) /\ Tells(flush[s], x) /\ TaskFits(s, x)
  /\ mending[s] # NoMap => memory[s] = NoMap
  /\ task[s].do = "seal" => primary # NoMap \/ migrated # NoMap

FileInv == \A x \in Places \ overrun : IdentityIn(OnDisk, x) = reference[x]

SidecarInv ==
  /\ IdentityTypeOK
  /\ FileInv
  /\ \A s \in Servers : CopyInv(s)

--------------------------------------------------------------------------------
(* Maps, files and what is looked up in them. *)
LEMMA MapFacts ==
  /\ NoMap \notin Maps
  /\ \A f \in Files : Mappings(f) \in Maps /\ (f # NoMap => Mappings(f) = f)
  /\ \A p, m \in Maps : Merged(p, m) \in Maps
  /\ \A f \in Maps, x \in Places : IdentityIn(f, x) \in Ids
BY SidecarAssumption DEF Maps, Files, Mappings, Merged, IdentityIn

(* What is on disk, and what is read of it, is a map. *)
LEMMA DiskIsMap == IdentityTypeOK => OnDisk \in Maps /\ Read \in Maps
<1> SUFFICES ASSUME IdentityTypeOK PROVE OnDisk \in Maps /\ Read \in Maps
  OBVIOUS
<1>1. Mappings(primary) \in Maps /\ Mappings(migrated) \in Maps
  BY MapFacts DEF IdentityTypeOK
<1>2. Mappings(IF readable THEN primary ELSE NoMap) \in Maps
  BY MapFacts DEF IdentityTypeOK, Files
<1> QED BY <1>1, <1>2, MapFacts DEF OnDisk, Read

(* Tasks by their kind. *)
LEMMA TaskFacts ==
  ASSUME NEW t \in Tasks
  PROVE  /\ t.do \in {"nothing", "assign", "seal"}
         /\ t.do = "nothing" <=> t = Resting
         /\ t.do = "assign" => t.at \in Places
         /\ t.do = "seal" => t.map \in Maps
BY DEF Tasks, Resting

--------------------------------------------------------------------------------
(* Whatever fails or changes in between, files, copies and tasks keep      *)
(* their types.                                                            *)
THEOREM IdentityTypes == IdentitySpec => []IdentityTypeOK
<1>1. IdentityInit => IdentityTypeOK
  <2> SUFFICES ASSUME IdentityInit PROVE IdentityTypeOK
    OBVIOUS
  <2>1. OnDisk \in Maps
    BY MapFacts DEF IdentityInit, OnDisk
  <2>2. reference \in [Places -> Ids]
    BY <2>1, MapFacts DEF IdentityInit
  <2> QED BY <2>2 DEF IdentityInit, IdentityTypeOK, Tasks, Resting, Files
<1>2. ASSUME IdentityTypeOK, [IdentityNext]_sidecar PROVE IdentityTypeOK'
  <2> USE <1>2 DEF IdentityTypeOK
  <2>1. NoMap \in Files /\ Maps \subseteq Files /\ Resting \in Tasks
    BY DEF Files, Tasks
  <2>2. ASSUME NEW s \in Servers, NEW map \in Maps, Put(s, map)
        PROVE  primary' \in Files /\ readable' \in BOOLEAN /\ overrun' \subseteq Places
    BY <2>1, <2>2 DEF Put
  <2>3. ASSUME NEW s \in Servers, NEW map \in Maps, Write(s, map)
        PROVE  primary' \in Files /\ readable' \in BOOLEAN /\ overrun' \subseteq Places
    BY <2>2, <2>3 DEF Write
  <2>4. ASSUME NEW s \in Servers, Load(s) PROVE IdentityTypeOK'
    BY <2>1, <2>4, DiskIsMap DEF Load, files, counts, bookkeeping
  <2>5. ASSUME NEW s \in Servers, Mend(s) PROVE IdentityTypeOK'
    <3>1. mending[s] \in Maps
      BY <2>5 DEF Mend, Files
    <3> QED BY <2>1, <2>2, <2>3, <2>5, <3>1 DEF Mend, counts
  <2>6. ASSUME NEW s \in Servers, Ask(s) PROVE IdentityTypeOK'
    BY <2>6 DEF Ask, files, counts, bookkeeping, Tasks
  <2>7. ASSUME NEW s \in Servers, Assign(s) PROVE IdentityTypeOK'
    <3>1. Assigned(s) \in Maps
      BY <2>7, TaskFacts, SidecarAssumption DEF Assign, Assigned, Files, Maps
    <3> QED BY <2>1, <2>3, <2>7, <3>1 DEF Assign, counts
  <2>8. ASSUME NEW s \in Servers, AssignRaises(s) \/ BeginPass(s) \/ Invalidate(s) \/ Restart(s)
        PROVE  IdentityTypeOK'
    BY <2>1, <2>8 DEF AssignRaises, BeginPass, Invalidate, Restart, files, counts, bookkeeping
  <2>9. ASSUME NEW s \in Servers, EndPass(s) PROVE IdentityTypeOK'
    BY <2>9 DEF EndPass, files, counts, bookkeeping
  <2>10. ASSUME NEW s \in Servers, FlushDeferred(s) PROVE IdentityTypeOK'
    <3>1. flush[s] \in Maps
      BY <2>10 DEF FlushDeferred, Files
    <3> QED BY <2>1, <2>3, <2>10, <3>1 DEF FlushDeferred, counts
  <2>11. ASSUME NEW s \in Servers, OpenStore(s) PROVE IdentityTypeOK'
    <3>1. [do |-> "seal", map |-> IF primary # NoMap THEN primary ELSE migrated] \in Tasks
      BY <2>11 DEF OpenStore, Files, Tasks
    <3> QED BY <2>11, <3>1 DEF OpenStore, files, counts, bookkeeping
  <2>12. ASSUME NEW s \in Servers, Seal(s) PROVE IdentityTypeOK'
    <3>1. task[s].map \in Files
      BY <2>1, <2>12, TaskFacts DEF Seal
    <3> QED BY <2>1, <2>12, <3>1 DEF Seal, counts
  <2>13. ASSUME NEW x \in Places, RepairId(x) PROVE IdentityTypeOK'
    <3>1. primary \in Maps
      BY <2>13, MapFacts DEF RepairId, Mappings, Files
    <3>2. primary' \in Files
      BY <2>1, <2>13, <3>1 DEF RepairId, Maps
    <3> QED BY <2>13, <3>2 DEF RepairId, Changed, stores
  <2>14. ASSUME NEW x \in Places, EditNote(x) PROVE IdentityTypeOK'
    <3>1. OnDisk[x] \in Ids \cup {NoId}
      BY DiskIsMap DEF Maps
    <3> QED BY <2>14, <3>1 DEF EditNote, stores, bookkeeping
  <2>15. ASSUME NEW x \in Places, NEW y \in Places, Move(x, y) PROVE IdentityTypeOK'
    <3>1. own' \in [Places -> Ids \cup {NoId, Gone}]
      BY <2>15 DEF Move, Movable
    <3>2. CASE Mappings(primary)[x] = NoId
      BY <2>15, <3>1, <3>2 DEF Move, stores, bookkeeping
    <3>3. CASE Mappings(primary)[x] # NoId
      <4>1. primary \in Maps
        BY <2>15, <3>3 DEF Mappings, Files
      <4>2. primary' \in Files
        BY <2>1, <2>15, <3>3, <4>1 DEF Move, Movable, Maps
      <4>3. reference' \in [Places -> Ids]
        BY <2>15, <3>3, SidecarAssumption DEF Move, Movable
      <4> QED BY <2>15, <3>1, <3>3, <4>2, <4>3 DEF Move, Changed, stores
    <3> QED BY <3>2, <3>3
  <2>16. CASE Garble
    BY <2>16 DEF Garble, stores, counts, bookkeeping
  <2>17. CASE UNCHANGED sidecar
    BY <2>17 DEF sidecar, files, stores, counts, bookkeeping
  <2> QED
    BY <1>2, <2>4, <2>5, <2>6, <2>7, <2>8, <2>9, <2>10, <2>11, <2>12, <2>13, <2>14, <2>15,
       <2>16, <2>17 DEF IdentityNext
<1> QED BY <1>1, <1>2, PTL DEF IdentitySpec
--------------------------------------------------------------------------------
(* Steps that leave a server's maps alone, whatever they write. *)
LEMMA CopiesStay ==
  ASSUME NEW s \in Servers, CopyInv(s),
         memory'[s] = memory[s], mending'[s] = mending[s], flush'[s] = flush[s],
         task'[s] = task[s], behind'[s] = behind[s], reference' = reference,
         overrun \subseteq overrun', primary # NoMap => primary' # NoMap,
         migrated # NoMap => migrated' # NoMap
  PROVE  CopyInv(s)'
BY DEF CopyInv, Tells, TaskFits, IdentityIn

(* A server that writes what it may write only misleads places it is       *)
(* behind on.                                                              *)
LEMMA PutKeepsFiles ==
  ASSUME IdentityTypeOK, FileInv, NEW s \in Servers, NEW map \in Maps, Put(s, map),
         \A x \in Places \ (overrun \cup behind[s]) : Tells(map, x),
         migrated' = migrated, reference' = reference
  PROVE  FileInv' /\ overrun \subseteq overrun' /\ primary' # NoMap
<1>1. map # NoMap /\ primary' = map /\ overrun' = overrun \cup behind[s]
  BY MapFacts DEF Put
<1>2. Mappings(primary) \in Maps /\ Mappings(migrated) \in Maps /\ Mappings(primary') = map
  BY <1>1, MapFacts DEF IdentityTypeOK, Mappings
<1>3. ASSUME NEW x \in Places \ overrun' PROVE IdentityIn(OnDisk', x) = reference'[x]
  <2>1. IdentityIn(OnDisk, x) = reference[x] /\ IdentityIn(map, x) = reference[x]
    BY <1>1, <1>3 DEF FileInv, Tells
  <2>2. OnDisk'[x] = IF Mappings(migrated)[x] # NoId THEN Mappings(migrated)[x] ELSE map[x]
    BY <1>2 DEF OnDisk, Merged, Mappings
  <2>3. OnDisk[x] = IF Mappings(migrated)[x] # NoId THEN Mappings(migrated)[x]
                    ELSE Mappings(primary)[x]
    BY DEF OnDisk, Merged
  <2> QED BY <2>1, <2>2, <2>3 DEF IdentityIn
<1> QED BY <1>1, <1>3 DEF FileInv, IdentityIn

(* And so does one whose write may fail. *)
LEMMA WriteKeepsFiles ==
  ASSUME IdentityTypeOK, FileInv, NEW s \in Servers, NEW map \in Maps, Write(s, map),
         \A x \in Places \ (overrun \cup behind[s]) : Tells(map, x),
         migrated' = migrated, reference' = reference
  PROVE  /\ FileInv' /\ overrun \subseteq overrun'
         /\ primary # NoMap => primary' # NoMap
<1>1. CASE Put(s, map)
  BY <1>1, PutKeepsFiles
<1>2. CASE UNCHANGED <<primary, readable, overrun>>
  BY <1>2 DEF FileInv, OnDisk, Mappings, Merged, IdentityIn
<1> QED BY <1>1, <1>2 DEF Write

(* A change behind the servers' backs: who holds a map is behind, who does *)
(* not has nothing to be wrong about.                                      *)
LEMMA ChangeKeepsCopies ==
  ASSUME IdentityTypeOK, NEW s \in Servers, CopyInv(s), NEW P \in SUBSET Places, Changed(P),
         UNCHANGED <<migrated, stores>>, primary' # NoMap,
         \A x \in Places \ P : reference'[x] = reference[x]
  PROVE  CopyInv(s)'
<1>1. UNCHANGED <<memory, task, flush, mending>>
  BY DEF stores
<1>2. CASE Holding(s)
  <2>1. behind'[s] = behind[s] \cup P
    BY <1>2 DEF Changed, IdentityTypeOK
  <2>2. overrun' = overrun \ P
    BY DEF Changed
  <2>3. ASSUME NEW x \in Places, x \notin overrun', x \notin behind'[s]
        PROVE  x \in Places \ (overrun \cup behind[s]) /\ reference'[x] = reference[x]
    BY <2>1, <2>2, <2>3
  <2>4. task[s].do = "seal" => primary # NoMap \/ migrated # NoMap
    BY DEF CopyInv
  <2>5. ASSUME NEW x \in Places, x \notin overrun', x \notin behind'[s]
        PROVE  (Tells(memory[s], x) /\ Tells(mending[s], x) /\ Tells(flush[s], x)
                /\ TaskFits(s, x))'
    BY <1>1, <2>3, <2>5 DEF CopyInv, Tells, TaskFits, IdentityIn
  <2> QED BY <1>1, <2>5 DEF CopyInv
<1>3. CASE ~Holding(s)
  BY <1>1, <1>3 DEF Holding, CopyInv, Tells, TaskFits, Resting
<1> QED BY <1>2, <1>3

(* A step of s that keeps the files and its own maps in order keeps those  *)
(* of the others, which it does not touch.                                 *)
OthersRest(s) ==
  \A t \in Servers \ {s} :
    /\ memory'[t] = memory[t] /\ mending'[t] = mending[t] /\ flush'[t] = flush[t]
    /\ task'[t] = task[t] /\ behind'[t] = behind[t]

FilesRemain ==
  /\ overrun \subseteq overrun'
  /\ primary # NoMap => primary' # NoMap
  /\ migrated # NoMap => migrated' # NoMap

(* One server at a time: the invariant of the others follows from its own. *)
LEMMA OwnStep ==
  ASSUME NEW s \in Servers, \A t \in Servers : CopyInv(t), OthersRest(s), FilesRemain,
         reference' = reference, CopyInv(s)'
  PROVE  \A t \in Servers : CopyInv(t)'
<1> TAKE t \in Servers
<1>1. CASE t = s
  BY <1>1
<1>2. CASE t # s
  BY <1>2, CopiesStay DEF OthersRest, FilesRemain
<1> QED BY <1>1, <1>2

(* The invariant is inductive. *)
LEMMA SidecarStep ==
  ASSUME SidecarInv, IdentityTypeOK', [IdentityNext]_sidecar
  PROVE  SidecarInv'
<1> USE DEF SidecarInv
<1>1. SUFFICES FileInv' /\ \A s \in Servers : CopyInv(s)'
  OBVIOUS
<1>2. ASSUME UNCHANGED <<primary, migrated, reference, overrun>> PROVE FileInv' /\ FilesRemain
  BY <1>2 DEF FileInv, OnDisk, Mappings, Merged, IdentityIn, FilesRemain
<1>3. OnDisk \in Maps /\ Read \in Maps
  BY DiskIsMap
<1>4. ASSUME NEW s \in Servers, Load(s) PROVE FileInv' /\ \A t \in Servers : CopyInv(t)'
  <2>1. OthersRest(s) /\ UNCHANGED <<primary, migrated, reference, overrun, behind, flush, task>>
    BY <1>4 DEF Load, files, bookkeeping, OthersRest, IdentityTypeOK
  <2>2. Read = OnDisk
    BY <1>4 DEF Load, Loads, Read, OnDisk
  <2>3. Read # NoMap /\ \A x \in Places \ overrun : Tells(Read, x)
    BY <1>3, <2>2, MapFacts DEF FileInv, Tells
  <2>4. CopyInv(s)'
    <3>1. CASE Read = Mappings(primary)
      <4>1. memory'[s] = Read /\ mending'[s] = NoMap
        BY <1>4, <3>1 DEF Load, IdentityTypeOK
      <4> QED BY <2>1, <2>3, <4>1 DEF CopyInv, Tells, TaskFits, IdentityIn
    <3>2. CASE Read # Mappings(primary)
      <4>1. mending'[s] = Read /\ memory'[s] = NoMap
        BY <1>4, <3>2 DEF Load, IdentityTypeOK
      <4> QED BY <2>1, <2>3, <4>1 DEF CopyInv, Tells, TaskFits, IdentityIn
    <3> QED BY <3>1, <3>2
  <2> QED BY <1>2, <2>1, <2>4, OwnStep
<1>5. ASSUME NEW s \in Servers, Mend(s) PROVE FileInv' /\ \A t \in Servers : CopyInv(t)'
  <2>1. OthersRest(s) /\ UNCHANGED <<migrated, reference, behind, flush, task>>
    BY <1>5 DEF Mend, OthersRest, IdentityTypeOK
  <2>2. /\ mending[s] \in Maps /\ memory[s] = NoMap
        /\ \A x \in Places \ (overrun \cup behind[s]) : Tells(mending[s], x)
    BY <1>5 DEF Mend, CopyInv, IdentityTypeOK, Files
  <2>3. FileInv' /\ FilesRemain
    BY <1>5, <2>1, <2>2, PutKeepsFiles, WriteKeepsFiles DEF Mend, FilesRemain
  <2>4. mending'[s] = NoMap /\ memory'[s] \in {NoMap, mending[s]}
    BY <1>5, <2>2 DEF Mend, IdentityTypeOK
  <2>5. CopyInv(s)'
    BY <2>1, <2>2, <2>3, <2>4 DEF CopyInv, Tells, TaskFits, IdentityIn, FilesRemain
  <2> QED BY <2>1, <2>3, <2>5, OwnStep
<1>6. ASSUME NEW s \in Servers, Ask(s) PROVE FileInv' /\ \A t \in Servers : CopyInv(t)'
  <2>1. /\ OthersRest(s)
        /\ UNCHANGED <<primary, migrated, reference, overrun, behind, memory, mending, flush>>
    BY <1>6 DEF Ask, files, bookkeeping, OthersRest, IdentityTypeOK
  <2>2. PICK x \in Places : memory[s][x] = NoId /\ task'[s] = [do |-> "assign", at |-> x]
    BY <1>6 DEF Ask, IdentityTypeOK
  <2>3. x \notin overrun \cup behind[s] => reference[x] = Derived[x]
    BY <1>6, <2>2 DEF Ask, CopyInv, Tells, IdentityIn
  <2>4. CopyInv(s)'
    BY <2>1, <2>2, <2>3 DEF CopyInv, Tells, TaskFits, IdentityIn
  <2> QED BY <1>2, <2>1, <2>4, OwnStep
<1>7. ASSUME NEW s \in Servers, Assign(s) PROVE FileInv' /\ \A t \in Servers : CopyInv(t)'
  <2>1. OthersRest(s) /\ UNCHANGED <<migrated, reference, behind, mending, flush>>
    BY <1>7 DEF Assign, OthersRest, IdentityTypeOK
  <2>2. task[s].at \in Places /\ memory[s] \in Maps
    BY <1>7, TaskFacts DEF Assign, IdentityTypeOK, Files
  <2>3. Assigned(s) \in Maps
    BY <2>2, SidecarAssumption DEF Assigned, Maps
  <2>4. ASSUME NEW x \in Places \ (overrun \cup behind[s]) PROVE Tells(Assigned(s), x)
    <3>1. Derived[x] # NoId /\ (x = task[s].at => reference[x] = Derived[x])
      BY <1>7, <2>4, SidecarAssumption DEF Assign, CopyInv, TaskFits
    <3>2. IdentityIn(memory[s], x) = reference[x]
      BY <2>2, <2>4, MapFacts DEF CopyInv, Tells
    <3>3. Assigned(s)[x] = IF x = task[s].at THEN Derived[x] ELSE memory[s][x]
      BY <2>2 DEF Assigned, Maps
    <3> QED BY <3>1, <3>2, <3>3 DEF Tells, IdentityIn
  <2>5. FileInv' /\ FilesRemain
    BY <1>2, <1>7, <2>1, <2>3, <2>4, WriteKeepsFiles DEF Assign, FilesRemain
  <2>6. memory'[s] = Assigned(s) /\ task'[s] = Resting
    BY <1>7 DEF Assign, IdentityTypeOK
  <2>7. mending[s] = NoMap
    BY <1>7 DEF Assign, CopyInv
  <2>8. \A x \in Places \ (overrun' \cup behind'[s]) : Tells(Assigned(s), x)
    BY <2>1, <2>4, <2>5 DEF FilesRemain
  <2>9. CopyInv(s)'
    <3>1. Resting.do # "assign" /\ Resting.do # "seal"
      BY DEF Resting
    <3>2. \A x \in Places \ (overrun' \cup behind'[s]) : Tells(flush[s], x)
      BY <2>1, <2>5 DEF CopyInv, FilesRemain
    <3> QED BY <2>1, <2>6, <2>7, <2>8, <3>1, <3>2 DEF CopyInv, Tells, TaskFits, IdentityIn
  <2> QED BY <2>1, <2>5, <2>9, OwnStep
<1>8. ASSUME NEW s \in Servers, AssignRaises(s) \/ BeginPass(s)
      PROVE  FileInv' /\ \A t \in Servers : CopyInv(t)'
  <2>1. /\ OthersRest(s)
        /\ UNCHANGED <<primary, migrated, reference, overrun, behind, memory, mending, flush>>
        /\ task'[s] \in {task[s], Resting}
    BY <1>8 DEF AssignRaises, BeginPass, files, bookkeeping, OthersRest, IdentityTypeOK
  <2>2. CopyInv(s)'
    BY <2>1 DEF CopyInv, Tells, TaskFits, IdentityIn, Resting
  <2> QED BY <1>2, <2>1, <2>2, OwnStep
<1>9. ASSUME NEW s \in Servers, EndPass(s) PROVE FileInv' /\ \A t \in Servers : CopyInv(t)'
  <2>1. /\ OthersRest(s)
        /\ UNCHANGED <<primary, migrated, reference, overrun, behind, memory, mending, task>>
        /\ flush'[s] \in {flush[s], memory[s]}
    BY <1>9 DEF EndPass, files, bookkeeping, OthersRest, IdentityTypeOK
  <2>2. CopyInv(s)'
    BY <2>1 DEF CopyInv, Tells, TaskFits, IdentityIn
  <2> QED BY <1>2, <2>1, <2>2, OwnStep
<1>10. ASSUME NEW s \in Servers, FlushDeferred(s)
       PROVE  FileInv' /\ \A t \in Servers : CopyInv(t)'
  <2>1. /\ OthersRest(s) /\ UNCHANGED <<migrated, reference, behind, memory, mending, task>>
        /\ flush'[s] = NoMap
    BY <1>10 DEF FlushDeferred, OthersRest, IdentityTypeOK
  <2>2. /\ flush[s] \in Maps
        /\ \A x \in Places \ (overrun \cup behind[s]) : Tells(flush[s], x)
    BY <1>10 DEF FlushDeferred, CopyInv, IdentityTypeOK, Files
  <2>3. FileInv' /\ FilesRemain
    BY <1>10, <2>1, <2>2, WriteKeepsFiles DEF FlushDeferred, FilesRemain
  <2>4. CopyInv(s)'
    BY <2>1, <2>3 DEF CopyInv, Tells, TaskFits, IdentityIn, FilesRemain
  <2> QED BY <2>1, <2>3, <2>4, OwnStep
<1>11. ASSUME NEW s \in Servers, Invalidate(s) PROVE FileInv' /\ \A t \in Servers : CopyInv(t)'
  <2>1. /\ OthersRest(s)
        /\ UNCHANGED <<primary, migrated, reference, overrun, mending, flush, task>>
        /\ memory'[s] = NoMap /\ mending[s] = NoMap
    BY <1>11 DEF Invalidate, CopyInv, files, OthersRest, IdentityTypeOK
  <2>2. CopyInv(s)'
    <3>1. CASE task[s] = Resting /\ flush[s] = NoMap
      BY <2>1, <3>1 DEF CopyInv, Tells, TaskFits, Resting
    <3>2. CASE ~(task[s] = Resting /\ flush[s] = NoMap)
      <4>1. behind' = behind
        BY <1>11, <3>2 DEF Invalidate
      <4> QED BY <2>1, <4>1 DEF CopyInv, Tells, TaskFits, IdentityIn
    <3> QED BY <3>1, <3>2
  <2> QED BY <1>2, <2>1, <2>2, OwnStep
<1>12. ASSUME NEW s \in Servers, OpenStore(s) PROVE FileInv' /\ \A t \in Servers : CopyInv(t)'
  <2> DEFINE map == IF primary # NoMap THEN primary ELSE migrated
  <2>1. /\ OthersRest(s)
        /\ UNCHANGED <<primary, migrated, reference, overrun, behind, memory, mending, flush>>
        /\ task'[s] = [do |-> "seal", map |-> map]
    BY <1>12 DEF OpenStore, files, bookkeeping, OthersRest, IdentityTypeOK
  <2>2. primary # NoMap \/ migrated # NoMap
    BY <1>12 DEF OpenStore
  <2>3. ASSUME NEW x \in Places \ (overrun \cup behind[s]), primary = NoMap \/ migrated = NoMap
        PROVE  Tells(map, x)
    BY <2>2, <2>3, MapFacts DEF FileInv, Tells, OnDisk, Merged, Mappings, IdentityIn, IdentityTypeOK
  <2>4. CopyInv(s)'
    BY <2>1, <2>2, <2>3 DEF CopyInv, Tells, TaskFits, IdentityIn
  <2> QED BY <1>2, <2>1, <2>4, OwnStep
<1>13. ASSUME NEW s \in Servers, Seal(s) PROVE FileInv' /\ \A t \in Servers : CopyInv(t)'
  <2>1. /\ OthersRest(s) /\ UNCHANGED <<reference, behind, memory, mending, flush>>
        /\ task'[s] = Resting
    BY <1>13 DEF Seal, OthersRest, IdentityTypeOK
  <2>2. task[s].map \in Maps
    BY <1>13, TaskFacts DEF Seal, IdentityTypeOK
  <2>3. FilesRemain
    BY <1>13, <2>2, MapFacts DEF Seal, FilesRemain
  <2>4. FileInv'
    <3>1. CASE primary # NoMap /\ migrated # NoMap
      BY <1>2, <1>13, <3>1 DEF Seal
    <3>2. CASE ~(primary # NoMap /\ migrated # NoMap)
      <4>1. overrun' = overrun \cup behind[s]
        BY <1>13, <3>2 DEF Seal
      <4>2. \A x \in Places \ overrun' : Tells(task[s].map, x)
                                             /\ IdentityIn(OnDisk, x) = reference[x]
        BY <1>13, <3>2, <4>1 DEF Seal, CopyInv, TaskFits, FileInv
      <4>3. primary # NoMap \/ migrated # NoMap
        BY <1>13 DEF Seal, CopyInv
      <4>4. CASE primary = NoMap
        <5>1. primary' = task[s].map /\ migrated' = migrated
          BY <1>13, <4>3, <4>4 DEF Seal
        <5> QED BY <2>1, <2>2, <4>2, <4>3, <4>4, <5>1, MapFacts
                DEF FileInv, OnDisk, Merged, Mappings, Tells, IdentityIn
      <4>5. CASE migrated = NoMap
        <5>1. primary' = primary /\ migrated' = task[s].map
          BY <1>13, <4>3, <4>5 DEF Seal
        <5> QED BY <2>1, <2>2, <4>2, <4>3, <4>5, <5>1, MapFacts
                DEF FileInv, OnDisk, Merged, Mappings, Tells, IdentityIn
      <4> QED BY <3>2, <4>4, <4>5
    <3> QED BY <3>1, <3>2
  <2>5. CopyInv(s)'
    BY <2>1, <2>3 DEF CopyInv, Tells, TaskFits, IdentityIn, FilesRemain, Resting
  <2> QED BY <2>1, <2>3, <2>4, <2>5, OwnStep
<1>14. ASSUME NEW s \in Servers, Restart(s) PROVE FileInv' /\ \A t \in Servers : CopyInv(t)'
  <2>1. /\ OthersRest(s) /\ UNCHANGED <<primary, migrated, reference, overrun>>
        /\ memory'[s] = NoMap /\ mending'[s] = NoMap /\ flush'[s] = NoMap /\ task'[s] = Resting
    BY <1>14 DEF Restart, files, OthersRest, IdentityTypeOK
  <2>2. CopyInv(s)'
    BY <2>1 DEF CopyInv, Tells, TaskFits, Resting
  <2> QED BY <1>2, <2>1, <2>2, OwnStep
<1>15. ASSUME NEW x \in Places, RepairId(x) PROVE FileInv' /\ \A t \in Servers : CopyInv(t)'
  <2>1. primary \in Maps /\ primary' = [primary EXCEPT ![x] = own[x]] /\ own[x] \in Ids
    BY <1>15 DEF RepairId, Mappings, IdentityTypeOK, Files
  <2>2. primary' \in Maps
    BY <2>1 DEF Maps
  <2>3. /\ Changed({x}) /\ UNCHANGED <<migrated, stores>>
        /\ reference' = [reference EXCEPT ![x] = own[x]]
    BY <1>15 DEF RepairId
  <2>4. Mappings(migrated)[x] \in {NoId, own[x]}
    BY <1>15 DEF RepairId, Agrees
  <2>5. ASSUME NEW z \in Places \ overrun' PROVE IdentityIn(OnDisk', z) = reference'[z]
    <3>1. OnDisk'[z] = IF Mappings(migrated)[z] # NoId THEN Mappings(migrated)[z] ELSE primary'[z]
      BY <2>2, <2>3, MapFacts DEF OnDisk, Merged, Mappings
    <3>2. CASE z = x
      <4>1. primary'[x] = own[x] /\ reference'[x] = own[x] /\ own[x] # NoId
        BY <2>1, <2>3, SidecarAssumption DEF Maps, IdentityTypeOK
      <4> QED BY <2>4, <3>1, <3>2, <4>1 DEF IdentityIn
    <3>3. CASE z # x
      <4>1. primary'[z] = primary[z] /\ reference'[z] = reference[z] /\ z \notin overrun
        BY <2>1, <2>3, <2>5, <3>3 DEF Maps, IdentityTypeOK, Changed
      <4>2. OnDisk'[z] = OnDisk[z]
        BY <2>1, <3>1, <4>1, MapFacts DEF OnDisk, Merged, Mappings
      <4> QED BY <4>1, <4>2 DEF FileInv, IdentityIn
    <3> QED BY <3>2, <3>3
  <2>6. \A z \in Places \ {x} : reference'[z] = reference[z]
    BY <2>3 DEF IdentityTypeOK
  <2>7. \A t \in Servers : CopyInv(t)'
    BY <2>2, <2>3, <2>6, ChangeKeepsCopies, MapFacts
  <2> QED BY <2>5, <2>7 DEF FileInv, IdentityIn
<1>16. ASSUME NEW x \in Places, NEW y \in Places, Move(x, y)
       PROVE  FileInv' /\ \A t \in Servers : CopyInv(t)'
  <2>1. x # y /\ own[x] \in Ids /\ OnDisk[y] = NoId /\ Mappings(migrated)[x] = NoId
    BY <1>16 DEF Move, Movable
  <2>2. UNCHANGED <<migrated, stores>>
    BY <1>16 DEF Move
  <2>3. CASE Mappings(primary)[x] = NoId
    <3>1. UNCHANGED <<primary, reference, overrun, behind, memory, mending, flush, task>>
      BY <1>16, <2>3 DEF Move, stores, bookkeeping
    <3> QED BY <1>2, <2>2, <3>1, CopiesStay
  <2>4. CASE Mappings(primary)[x] # NoId
    <3>1. primary \in Maps /\ primary' = [primary EXCEPT ![x] = NoId, ![y] = own[x]]
      BY <1>16, <2>4 DEF Move, Mappings, IdentityTypeOK, Files
    <3>2. primary' \in Maps
      BY <2>1, <3>1 DEF Maps
    <3>3. Changed({x, y}) /\ reference' = [reference EXCEPT ![x] = Derived[x], ![y] = own[x]]
      BY <1>16, <2>4 DEF Move
    <3>4. Mappings(migrated)[y] = NoId
      BY <2>1 DEF OnDisk, Merged
    <3>5. ASSUME NEW z \in Places \ overrun' PROVE IdentityIn(OnDisk', z) = reference'[z]
      <4>1. OnDisk'[z] = IF Mappings(migrated)[z] # NoId THEN Mappings(migrated)[z] ELSE primary'[z]
        BY <2>2, <3>2, MapFacts DEF OnDisk, Merged, Mappings
      <4>2. CASE z = x
        BY <2>1, <3>1, <3>3, <4>1, <4>2 DEF IdentityIn, Maps, IdentityTypeOK
      <4>3. CASE z = y
        BY <2>1, <3>1, <3>3, <3>4, <4>1, <4>3, SidecarAssumption
           DEF IdentityIn, Maps, IdentityTypeOK
      <4>4. CASE z # x /\ z # y
        <5>1. primary'[z] = primary[z] /\ reference'[z] = reference[z] /\ z \notin overrun
          BY <3>1, <3>3, <3>5, <4>4 DEF Maps, IdentityTypeOK, Changed
        <5>2. OnDisk'[z] = OnDisk[z]
          BY <3>1, <4>1, <5>1, MapFacts DEF OnDisk, Merged, Mappings
        <5> QED BY <5>1, <5>2 DEF FileInv, IdentityIn
      <4> QED BY <4>2, <4>3, <4>4
    <3>6. \A z \in Places \ {x, y} : reference'[z] = reference[z]
      BY <3>3 DEF IdentityTypeOK
    <3>7. \A t \in Servers : CopyInv(t)'
      BY <2>2, <3>2, <3>3, <3>6, ChangeKeepsCopies, MapFacts
    <3> QED BY <3>5, <3>7 DEF FileInv, IdentityIn
  <2> QED BY <2>3, <2>4
<1>17. ASSUME UNCHANGED <<primary, migrated, reference, overrun, behind>>,
              UNCHANGED <<memory, mending, flush, task>>
       PROVE  FileInv' /\ \A t \in Servers : CopyInv(t)'
  BY <1>2, <1>17, CopiesStay
<1>18. ASSUME NEW x \in Places, EditNote(x) PROVE FileInv' /\ \A t \in Servers : CopyInv(t)'
  BY <1>17, <1>18 DEF EditNote, stores, bookkeeping
<1>19. CASE Garble
  BY <1>17, <1>19 DEF Garble, stores, bookkeeping
<1>20. CASE UNCHANGED sidecar
  BY <1>17, <1>20 DEF sidecar, files, stores, bookkeeping
<1> QED
  BY <1>4, <1>5, <1>6, <1>7, <1>8, <1>9, <1>10, <1>11, <1>12, <1>13, <1>14, <1>15, <1>16,
     <1>18, <1>19, <1>20 DEF IdentityNext

--------------------------------------------------------------------------------
(* A note keeps the identity the sidecar recorded for it, for every server *)
(* (JsonIdStore, "Deferring loses nothing on a crash").                    *)
THEOREM IdentitiesAreKept == IdentitySpec => []IdentitiesStay
<1>1. IdentityInit /\ IdentityTypeOK => SidecarInv
  BY DEF IdentityInit, SidecarInv, FileInv, CopyInv, Tells, TaskFits, Resting, IdentityIn
<1>2. SidecarInv /\ IdentityTypeOK' /\ [IdentityNext]_sidecar => SidecarInv'
  BY SidecarStep
<1>3. SidecarInv => IdentitiesStay
  BY DEF SidecarInv, FileInv, CopyInv, Tells, IdentitiesStay
<1> QED BY <1>1, <1>2, <1>3, IdentityTypes, PTL DEF IdentitySpec
================================================================================
