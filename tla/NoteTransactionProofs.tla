------------------------ MODULE NoteTransactionProofs --------------------------
(***************************************************************************)
(* What TLC checks of NoteTransaction on small instances, proved for any   *)
(* number of processes, notes, contents, operations, deaths and edits.     *)
(***************************************************************************)
EXTENDS NoteTransaction, TLAPS

(* Calls, repairs and sweeps are told apart by their kind. *)
LEMMA KindsDiffer ==
  /\ Sweep \notin Calls
  /\ Sweep \notin Repairs
  /\ \A j \in Calls : j \notin Repairs
<1>1. \A j \in Calls : j.kind \in CallKinds
  BY CallsAssumption
<1>2. \A j \in Repairs : j.kind \in RepairKinds
  BY DEF Repairs
<1>3. Sweep.kind \notin CallKinds \cup RepairKinds /\ CallKinds \cap RepairKinds = {}
  BY DEF Sweep, CallKinds, RepairKinds
<1> QED BY <1>1, <1>2, <1>3

-----------------------------------------------------------------------------
(* Typing, with what each step knows of the job and the record in hand. *)
Holding == {"save", "declare", "replace", "inspect", "append", "forget", "settle"}

StepTypes ==
  \A p \in Procs :
    /\ pc[p] \in Holding => rec[p] \in Records
    /\ pc[p] = "sweep" /\ job[p] # Sweep => rec[p] \in Records
    /\ pc[p] # "idle" => job[p] # NoJob
    /\ pc[p] = "repair" => job[p] \in Repairs
    /\ pc[p] \in {"torn", "scan", "check"} => job[p] \notin Repairs
    /\ pc[p] = "check" => job[p] # Sweep
    /\ pc[p] \in {"idle", "waiting"} => todo[p] = {}
    /\ job[p] \in Repairs => todo[p] = {}

TypeInv == TypeOK /\ StepTypes

LEMMA TypeInit == Init => TypeInv
BY ConstantsAssumption DEF Init, TypeInv, TypeOK, StepTypes, Steps, Holding

LEMMA TypeEnd ==
  ASSUME TypeInv, NEW p \in Procs, End(p)
  PROVE  /\ lock' \in Procs \cup {NoProc}
         /\ pc' \in [Procs -> Steps]
         /\ job' \in [Procs -> Calls \cup Repairs \cup {Sweep, NoJob}]
         /\ rec' \in [Procs -> Records \cup {NoRec}]
         /\ todo' \in [Procs -> SUBSET Records]
         /\ hit' \in [Procs -> BOOLEAN]
         /\ StepTypes'
BY DEF TypeInv, TypeOK, StepTypes, End, Steps, Holding

LEMMA TypeNext == TypeInv /\ [Next]_vars => TypeInv'
<1> SUFFICES ASSUME TypeInv, [Next]_vars PROVE TypeInv'
  OBVIOUS
<1> USE DEF TypeInv
<1>1. ASSUME NEW p \in Procs, Begin(p) PROVE TypeInv'
  BY <1>1, JobsAssumption, KindsDiffer DEF Begin, Goto, TypeOK, StepTypes, Steps, Holding, durable, budget, ghosts
<1>2. ASSUME NEW p \in Procs, BeginRepair(p) PROVE TypeInv'
  <2>1. PICK r \in pending, k \in RepairKinds :
          /\ AdoptAvailable(r)
          /\ job' = [job EXCEPT ![p] = [kind |-> k, target |-> r.id, expected |-> disk[r.path]]]
    BY <1>2 DEF BeginRepair
  <2>2. [kind |-> k, target |-> r.id, expected |-> disk[r.path]] \in Repairs
    BY <2>1 DEF TypeOK, Records, Repairs, AdoptAvailable, Bytes
  <2> QED BY <1>2, <2>1, <2>2, JobsAssumption
       DEF BeginRepair, Goto, TypeOK, StepTypes, Steps, Holding, durable, budget, ghosts
<1>3. ASSUME NEW p \in Procs, Acquire(p) PROVE TypeInv'
  BY <1>3 DEF Acquire, Goto, TypeOK, StepTypes, Steps, Holding, durable, budget, ghosts
<1>4. ASSUME NEW p \in Procs, Timeout(p) PROVE TypeInv'
  BY <1>4, TypeEnd DEF Timeout, TypeOK, durable, budget, ghosts
<1>5. ASSUME NEW p \in Procs, Recover(p) PROVE TypeInv'
  <2>1. CASE RepairTornTail(p)
    BY <2>1 DEF RepairTornTail, Goto, TypeOK, StepTypes, Steps, Holding, budget, ghosts
  <2>2. ASSUME NEW r \in todo[p], RecoverFinished(p, r) PROVE TypeInv'
    BY <2>2 DEF RecoverFinished, TypeOK, StepTypes, Steps, Holding, budget, ghosts
  <2>3. ASSUME NEW r \in todo[p], RecoverLanded(p, r) PROVE TypeInv'
    BY <2>3 DEF RecoverLanded, ScanNext, Goto, TypeOK, StepTypes, Steps, Holding, durable, budget, ghosts
  <2>4. ASSUME NEW r \in todo[p], RecoverBlocked(p, r) PROVE TypeInv'
    BY <2>4 DEF RecoverBlocked, TypeOK, StepTypes, Steps, Holding, durable, budget, ghosts
  <2>5. CASE RecoverRefused(p)
    BY <2>5, TypeEnd DEF RecoverRefused, TypeOK, durable, budget, ghosts
  <2>6. CASE RecoverDone(p)
    <3>1. CASE hit[p]
      BY <2>6, <3>1, TypeEnd DEF RecoverDone, TypeOK, durable, budget, ghosts
    <3>2. CASE ~hit[p]
      BY <2>6, <3>2 DEF RecoverDone, Goto, TypeOK, StepTypes, Steps, Holding, durable, budget, ghosts
    <3> QED BY <3>1, <3>2
  <2> QED BY <1>5, <2>1, <2>2, <2>3, <2>4, <2>5, <2>6 DEF Recover
<1>6. ASSUME NEW p \in Procs, CheckReplay(p) PROVE TypeInv'
  <2>1. \A n \in DOMAIN log : log[n] \in Records
    BY DEF TypeOK
  <2>2. \A n \in DOMAIN log : log[n].id \in Nat
    BY <2>1 DEF Records
  <2>3. told' \subseteq Nat
    BY <1>6, <2>2 DEF CheckReplay, TypeOK
  <2> QED BY <1>6, <2>3, TypeEnd DEF CheckReplay, TypeOK, durable, budget
<1>7. ASSUME NEW p \in Procs, CheckAccept(p) PROVE TypeInv'
  <2>1. job[p] \in Calls
    BY <1>7 DEF CheckAccept, TypeOK, StepTypes
  <2>2. PICK after \in Results(job[p]) :
          rec' = [rec EXCEPT ![p] = [id |-> nextId, path |-> job[p].path,
                                     before |-> disk[job[p].path], after |-> after,
                                     call |-> job[p], resolves |-> 0]]
    BY <1>7 DEF CheckAccept
  <2>3. after \in Contents /\ job[p].path \in Paths
    BY <2>1, <2>2, CallsAssumption DEF Results
  <2>4. [id |-> nextId, path |-> job[p].path, before |-> disk[job[p].path], after |-> after,
         call |-> job[p], resolves |-> 0] \in Records
    BY <2>1, <2>3 DEF TypeOK, Records
  <2> QED BY <1>7, <2>2, <2>4
       DEF CheckAccept, Goto, TypeOK, StepTypes, Steps, Holding, durable, ghosts
<1>8. ASSUME NEW p \in Procs, CheckRefuse(p) PROVE TypeInv'
  BY <1>8, TypeEnd DEF CheckRefuse, TypeOK, durable, budget, ghosts
<1>9. ASSUME NEW p \in Procs, RepairAccept(p) PROVE TypeInv'
  <2>1. job[p] \in Repairs
    BY <1>9 DEF RepairAccept, TypeOK, StepTypes
  <2> DEFINE New(r) == [id |-> nextId, path |-> r.path, before |-> disk[r.path],
                        after |-> IF job[p].kind = "restore-before" THEN r.before ELSE disk[r.path],
                        call |-> NoCall, resolves |-> r.id]
  <2>2. PICK r \in pending : RepairAccepted(job[p], r) /\ rec' = [rec EXCEPT ![p] = New(r)]
    BY <1>9 DEF RepairAccept
  <2>3. New(r) \in Records
    BY <2>2 DEF TypeOK, Records, RepairAccepted, RestoreAvailable, Bytes
  <2> HIDE DEF New
  <2> QED BY <1>9, <2>1, <2>2, <2>3
       DEF RepairAccept, Goto, TypeOK, StepTypes, Steps, Holding, durable, ghosts
<1>10. ASSUME NEW p \in Procs, RepairRefuse(p) PROVE TypeInv'
  BY <1>10, TypeEnd DEF RepairRefuse, TypeOK, durable, budget, ghosts
<1>11. ASSUME NEW p \in Procs, Commit(p) PROVE TypeInv'
  <2>1. CASE SaveHistory(p)
    BY <2>1 DEF SaveHistory, Goto, TypeOK, StepTypes, Steps, Holding, Records, Bytes, budget, ghosts
  <2>2. CASE WritePending(p)
    BY <2>2 DEF WritePending, Goto, TypeOK, StepTypes, Steps, Holding, budget, ghosts
  <2>3. ASSUME pc[p] = "replace", Land(rec[p])
        PROVE disk' \in [Paths -> Bytes] /\ origin' \in [Paths -> Nat]
    BY <2>3 DEF Land, TypeOK, StepTypes, Holding, Records, Bytes
  <2>4. CASE ReplaceNote(p)
    BY <2>3, <2>4 DEF ReplaceNote, Goto, TypeOK, StepTypes, Steps, Holding, budget
  <2>5. CASE ReplaceFails(p)
    <3>1. disk' \in [Paths -> Bytes] /\ origin' \in [Paths -> Nat]
      BY <2>3, <2>5 DEF ReplaceFails, TypeOK
    <3>2. CASE job[p] \in Repairs
      BY <2>5, <3>1, <3>2, TypeEnd DEF ReplaceFails, TypeOK
    <3>3. CASE job[p] \notin Repairs
      <4>1. pc[p] = "replace" /\ Goto(p, "inspect") /\ UNCHANGED <<lock, job, rec, todo, hit>>
        BY <2>5, <3>3 DEF ReplaceFails
      <4>2. StepTypes'
        BY <4>1 DEF Goto, TypeOK, StepTypes, Steps, Holding
      <4> QED BY <2>5, <3>1, <4>1, <4>2 DEF ReplaceFails, Goto, TypeOK, Steps
    <3> QED BY <3>2, <3>3
  <2>6. CASE DiscardUnstarted(p)
    BY <2>6, TypeEnd DEF DiscardUnstarted, TypeOK, budget, ghosts
  <2>7. CASE AppendRecord(p)
    <3>1. log' \in Seq(Records)
      BY <2>7 DEF AppendRecord, TypeOK, StepTypes, Holding
    <3> QED BY <2>7, <3>1 DEF AppendRecord, Goto, TypeOK, StepTypes, Steps, Holding, budget, ghosts
  <2>8. CASE AppendFails(p)
    BY <2>8, TypeEnd DEF AppendFails, TypeOK, ghosts
  <2>9. CASE RemovePending(p)
    <3>1. CASE rec[p] \in todo[p]
      <4>1. job[p] \notin Repairs /\ job[p] # NoJob
        BY <2>9, <3>1 DEF RemovePending, StepTypes
      <4>2. StepTypes'
        BY <2>9, <3>1, <4>1 DEF RemovePending, Goto, TypeOK, StepTypes, Holding
      <4> QED BY <2>9, <3>1, <4>2 DEF RemovePending, Goto, TypeOK, Steps, budget, ghosts
    <3>2. CASE rec[p] \notin todo[p]
      BY <2>9, <3>2 DEF RemovePending, Goto, TypeOK, StepTypes, Steps, Holding, budget, ghosts
    <3> QED BY <3>1, <3>2
  <2>10. CASE SettleRepaired(p)
    <3>1. told' \subseteq Nat
      BY <2>10 DEF SettleRepaired, TypeOK, StepTypes, Holding, Records
    <3> QED BY <2>10, <3>1, TypeEnd DEF SettleRepaired, TypeOK, budget
  <2>11. CASE PurgeHistory(p)
    <3>1. told' \subseteq Nat
      BY <2>11 DEF PurgeHistory, TypeOK, StepTypes, Records
    <3>2. history' \subseteq history
      BY <2>11 DEF PurgeHistory
    <3> QED BY <2>11, <3>1, <3>2, TypeEnd DEF PurgeHistory, TypeOK, budget
  <2> QED BY <1>11, <2>1, <2>2, <2>4, <2>5, <2>6, <2>7, <2>8, <2>9, <2>10, <2>11 DEF Commit
<1>12. ASSUME NEW p \in Procs, Crash(p) PROVE TypeInv'
  BY <1>12, TypeEnd DEF Crash, TypeOK, ghosts
<1>13. ASSUME NEW path \in Paths, EditOutside(path) PROVE TypeInv'
  BY <1>13 DEF EditOutside, TypeOK, StepTypes, Steps, Holding, local
<1>14. CASE UNCHANGED vars
  BY <1>14 DEF vars, durable, local, budget, ghosts, TypeOK, StepTypes, Steps, Holding
<1> QED BY <1>1, <1>2, <1>3, <1>4, <1>5, <1>6, <1>7, <1>8, <1>9, <1>10, <1>11, <1>12, <1>13, <1>14
     DEF Next, Proceed

(* The state of the vault and of every process stays well formed: no step  *)
(* journals, lands or reports an operation it does not hold.               *)
THEOREM TypeCorrect == Spec => []TypeOK
<1>1. Spec => []TypeInv
  BY TypeInit, TypeNext, PTL DEF Spec
<1>2. TypeInv => TypeOK
  BY DEF TypeInv
<1> QED BY <1>1, <1>2, PTL

-----------------------------------------------------------------------------
(* A step of one process leaves what the other processes hold alone. *)
StepOf(p) == Begin(p) \/ BeginRepair(p) \/ Proceed(p) \/ Crash(p)

Stands(q) == /\ pc'[q] = pc[q] /\ job'[q] = job[q] /\ rec'[q] = rec[q]
             /\ todo'[q] = todo[q] /\ hit'[q] = hit[q]

LEMMA OthersStand ==
  ASSUME TypeInv, NEW p \in Procs, StepOf(p), NEW q \in Procs, q # p
  PROVE  Stands(q)
<1> USE DEF TypeInv, TypeOK, Stands
<1>1. ASSUME End(p) PROVE Stands(q)
  BY <1>1 DEF End
<1>2. CASE Begin(p) \/ BeginRepair(p) \/ Acquire(p)
  BY <1>2 DEF Begin, BeginRepair, Acquire, Goto
<1>3. CASE Timeout(p) \/ CheckReplay(p) \/ CheckRefuse(p) \/ RepairRefuse(p) \/ Crash(p)
  BY <1>1, <1>3 DEF Timeout, CheckReplay, CheckRefuse, RepairRefuse, Crash
<1>4. CASE Recover(p)
  <2>1. CASE RepairTornTail(p) \/ RecoverRefused(p) \/ RecoverDone(p)
    BY <1>1, <2>1 DEF RepairTornTail, RecoverRefused, RecoverDone, Goto
  <2>2. ASSUME NEW r \in todo[p],
               RecoverFinished(p, r) \/ RecoverLanded(p, r) \/ RecoverBlocked(p, r)
        PROVE  Stands(q)
    BY <2>2 DEF RecoverFinished, RecoverLanded, RecoverBlocked, Goto
  <2> QED BY <1>4, <2>1, <2>2 DEF Recover
<1>5. CASE CheckAccept(p) \/ RepairAccept(p)
  BY <1>5 DEF CheckAccept, RepairAccept, Goto
<1>6. CASE Commit(p)
  <2>1. CASE SaveHistory(p) \/ WritePending(p) \/ ReplaceNote(p) \/ AppendRecord(p)
    BY <2>1 DEF SaveHistory, WritePending, ReplaceNote, AppendRecord, Goto
  <2>2. CASE ReplaceFails(p) \/ DiscardUnstarted(p) \/ AppendFails(p) \/ SettleRepaired(p)
               \/ PurgeHistory(p)
    BY <1>1, <2>2
       DEF ReplaceFails, DiscardUnstarted, AppendFails, SettleRepaired, PurgeHistory, Goto
  <2>3. CASE RemovePending(p)
    BY <2>3 DEF RemovePending, Goto
  <2> QED BY <1>6, <2>1, <2>2, <2>3 DEF Commit
<1> QED BY <1>2, <1>3, <1>4, <1>5, <1>6 DEF StepOf, Proceed

(* A process past "waiting" holds the lock it took there, until it ends. *)
LEMMA LockInStep ==
  ASSUME TypeInv, MutualExclusion, NEW p \in Procs, StepOf(p)
  PROVE  /\ pc'[p] \in Critical => lock' = p
         /\ lock' # lock => lock \in {p, NoProc}
<1> USE DEF TypeInv, TypeOK, MutualExclusion, Critical, Steps
<1>1. ASSUME End(p)
      PROVE  /\ pc'[p] \in Critical => lock' = p
             /\ lock' # lock => lock \in {p, NoProc}
  BY <1>1 DEF End
<1>2. CASE Begin(p) \/ BeginRepair(p) \/ Acquire(p)
  BY <1>2 DEF Begin, BeginRepair, Acquire, Goto
<1>3. CASE Timeout(p) \/ CheckReplay(p) \/ CheckRefuse(p) \/ RepairRefuse(p) \/ Crash(p)
  BY <1>1, <1>3 DEF Timeout, CheckReplay, CheckRefuse, RepairRefuse, Crash
<1>4. CASE Recover(p)
  <2>1. CASE RepairTornTail(p) \/ RecoverRefused(p) \/ RecoverDone(p)
    BY <1>1, <2>1 DEF RepairTornTail, RecoverRefused, RecoverDone, Goto
  <2>2. ASSUME NEW r \in todo[p],
               RecoverFinished(p, r) \/ RecoverLanded(p, r) \/ RecoverBlocked(p, r)
        PROVE  lock' = lock /\ lock = p
    BY <2>2 DEF RecoverFinished, RecoverLanded, RecoverBlocked, ScanNext, Goto
  <2> QED BY <1>4, <2>1, <2>2 DEF Recover
<1>5. CASE CheckAccept(p) \/ RepairAccept(p)
  BY <1>5 DEF CheckAccept, RepairAccept, Goto
<1>6. CASE Commit(p)
  <2>1. CASE SaveHistory(p) \/ WritePending(p) \/ ReplaceNote(p) \/ AppendRecord(p)
               \/ RemovePending(p)
    BY <2>1 DEF SaveHistory, WritePending, ReplaceNote, AppendRecord, RemovePending, Goto
  <2>2. CASE ReplaceFails(p) \/ DiscardUnstarted(p) \/ AppendFails(p) \/ SettleRepaired(p)
               \/ PurgeHistory(p)
    BY <1>1, <2>2
       DEF ReplaceFails, DiscardUnstarted, AppendFails, SettleRepaired, PurgeHistory, Goto
  <2> QED BY <1>6, <2>1, <2>2 DEF Commit
<1> QED BY <1>2, <1>3, <1>4, <1>5, <1>6 DEF StepOf, Proceed

LEMMA ExclusionNext == TypeInv /\ MutualExclusion /\ [Next]_vars => MutualExclusion'
<1> SUFFICES ASSUME TypeInv, MutualExclusion, [Next]_vars PROVE MutualExclusion'
  OBVIOUS
<1>1. ASSUME NEW p \in Procs, StepOf(p), NEW q \in Procs, pc'[q] \in Critical
      PROVE  lock' = q
  <2>1. CASE q = p
    BY <1>1, <2>1, LockInStep
  <2>2. CASE q # p
    <3>1. lock = q
      BY <1>1, <2>2, OthersStand DEF Stands, MutualExclusion
    <3> QED BY <1>1, <2>2, <3>1, LockInStep, ConstantsAssumption
  <2> QED BY <2>1, <2>2
<1>2. ASSUME NEW path \in Paths, EditOutside(path) PROVE MutualExclusion'
  BY <1>2 DEF EditOutside, local, MutualExclusion
<1>3. CASE UNCHANGED vars
  BY <1>3 DEF vars, local, MutualExclusion
<1> QED BY <1>1, <1>2, <1>3 DEF Next, StepOf, MutualExclusion

(* No two processes are ever inside a transaction, a recovery or a repair: *)
(* the advisory lock is held from the first step of each to its last,      *)
(* whatever dies or times out around it.                                   *)
THEOREM OneTransactionAtATime == Spec => []MutualExclusion
<1>1. Init => MutualExclusion
  BY DEF Init, MutualExclusion, Critical
<1>2. Spec => []TypeInv
  BY TypeInit, TypeNext, PTL DEF Spec
<1> QED BY <1>1, <1>2, ExclusionNext, PTL DEF Spec

-----------------------------------------------------------------------------
(* What the manifests are at each step of the process that holds the lock. *)
(* Recovery leaves none behind unless it met a blocked one, and a call     *)
(* goes on only if there is none, so from there to its end the call's own  *)
(* manifest is the only one.                                               *)
Committing == {"save", "declare", "replace", "inspect", "append", "forget"}

Work(p) ==
  /\ todo[p] \subseteq pending \/ pc[p] \in {"idle", "waiting"}
  /\ pc[p] \in {"idle", "waiting", "torn"} => ~hit[p] /\ todo[p] = {}
  /\ pc[p] = "scan" /\ ~hit[p] => pending = todo[p]
  /\ pc[p] \in {"check", "sweep"} => pending = {}
  /\ pc[p] \in {"save", "declare", "replace", "inspect"} => job[p] # Sweep
  /\ pc[p] = "settle" => job[p] \in Repairs
  /\ pc[p] \in {"save", "declare"} /\ job[p] \in Calls =>
       pending = {} /\ rec[p].resolves = 0
  /\ pc[p] \in {"replace", "inspect"} /\ job[p] \in Calls => pending = {rec[p]}
  /\ pc[p] \in {"append", "forget"} =>
       /\ rec[p] \in todo[p] /\ ~hit[p] => pending = todo[p]
       /\ rec[p] \notin todo[p] /\ job[p] \in Calls => pending = {rec[p]}
       /\ job[p] = Sweep => rec[p] \in todo[p]
  /\ pc[p] \in Committing /\ job[p] \in Repairs => rec[p].resolves # 0

WorkInv == \A p \in Procs : Work(p)

LEMMA WorkElsewhere ==
  ASSUME TypeInv, MutualExclusion, WorkInv, NEW p \in Procs, pc[p] \in Critical,
         NEW q \in Procs, q # p, Stands(q)
  PROVE  Work(q)'
<1>1. pc[q] \in {"idle", "waiting"}
  BY DEF MutualExclusion, Critical, TypeInv, TypeOK, Steps
<1> QED BY <1>1 DEF Stands, WorkInv, Work, Committing

LEMMA WorkEnd ==
  ASSUME TypeInv, NEW p \in Procs, End(p)
  PROVE  Work(p)'
BY DEF TypeInv, TypeOK, End, Work, Committing

LEMMA WorkStep ==
  ASSUME TypeInv, WorkInv, NEW p \in Procs, StepOf(p)
  PROVE  Work(p)'
<1> USE DEF TypeInv, TypeOK, WorkInv
<1>1. CASE Begin(p) \/ BeginRepair(p)
  BY <1>1 DEF Begin, BeginRepair, Goto, Work, Committing
<1>2. CASE Acquire(p)
  BY <1>2 DEF Acquire, Goto, Work, Committing, durable
<1>3. CASE Timeout(p) \/ CheckReplay(p) \/ CheckRefuse(p) \/ RepairRefuse(p) \/ Crash(p)
  BY <1>3, WorkEnd DEF Timeout, CheckReplay, CheckRefuse, RepairRefuse, Crash
<1>4. CASE Recover(p)
  <2>1. CASE RepairTornTail(p)
    BY <2>1 DEF RepairTornTail, Goto, Work, Committing
  <2>2. ASSUME NEW r \in todo[p], RecoverFinished(p, r) PROVE Work(p)'
    BY <2>2 DEF RecoverFinished, ScanNext, Work, Committing
  <2>3. ASSUME NEW r \in todo[p], RecoverLanded(p, r) PROVE Work(p)'
    BY <2>3 DEF RecoverLanded, ScanNext, Goto, Work, Committing, durable, StepTypes
  <2>4. ASSUME NEW r \in todo[p], RecoverBlocked(p, r) PROVE Work(p)'
    BY <2>4 DEF RecoverBlocked, ScanNext, Work, Committing, durable
  <2>5. CASE RecoverRefused(p)
    BY <2>5, WorkEnd DEF RecoverRefused
  <2>6. CASE RecoverDone(p)
    <3>1. CASE hit[p]
      BY <2>6, <3>1, WorkEnd DEF RecoverDone
    <3>2. CASE ~hit[p]
      BY <2>6, <3>2 DEF RecoverDone, Goto, Work, Committing, durable
    <3> QED BY <3>1, <3>2
  <2> QED BY <1>4, <2>1, <2>2, <2>3, <2>4, <2>5, <2>6 DEF Recover
<1>5. CASE CheckAccept(p)
  <2>1. job[p] \in Calls /\ job[p] \notin Repairs /\ job[p] # Sweep
    BY <1>5, KindsDiffer DEF CheckAccept, StepTypes
  <2>2. rec'[p].resolves = 0
    BY <1>5 DEF CheckAccept
  <2> QED BY <1>5, <2>1, <2>2 DEF CheckAccept, Goto, Work, Committing, durable
<1>6. CASE RepairAccept(p)
  <2>1. job[p] \in Repairs /\ job[p] \notin Calls /\ job[p] # Sweep
    BY <1>6, KindsDiffer DEF RepairAccept, StepTypes
  <2>2. rec'[p].resolves # 0
    BY <1>6 DEF RepairAccept, Records
  <2> QED BY <1>6, <2>1, <2>2 DEF RepairAccept, Goto, Work, Committing, durable
<1>7. CASE Commit(p)
  <2>1. CASE SaveHistory(p)
    BY <2>1 DEF SaveHistory, Goto, Work, Committing
  <2>2. CASE WritePending(p)
    <3>1. job[p] \in Calls \/ job[p] \in Repairs
      BY <2>2 DEF WritePending, StepTypes, Work
    <3>2. todo[p] \subseteq pending
      BY <2>2 DEF WritePending, Work
    <3>3. CASE job[p] \in Calls
      <4>1. job[p] \notin Repairs /\ job[p] # Sweep /\ pending = {} /\ todo[p] = {}
        BY <2>2, <3>2, <3>3, KindsDiffer DEF WritePending, Work
      <4> QED BY <2>2, <3>3, <4>1 DEF WritePending, Goto, Work, Committing
    <3>4. CASE job[p] \in Repairs
      <4>1. job[p] \notin Calls /\ job[p] # Sweep /\ todo[p] = {}
        BY <3>4, KindsDiffer DEF StepTypes
      <4> QED BY <2>2, <3>4, <4>1 DEF WritePending, Goto, Work, Committing
    <3> QED BY <3>1, <3>3, <3>4
  <2>3. CASE ReplaceNote(p)
    <3>1. rec[p] \in todo[p] => job[p] \in Calls
      BY <2>3 DEF ReplaceNote, StepTypes, Work
    <3> QED BY <2>3, <3>1 DEF ReplaceNote, Goto, Work, Committing, StepTypes
  <2>4. CASE ReplaceFails(p)
    <3>1. CASE job[p] \in Repairs
      BY <2>4, <3>1, WorkEnd DEF ReplaceFails
    <3>2. CASE job[p] \notin Repairs
      BY <2>4, <3>2 DEF ReplaceFails, Goto, Work, Committing
    <3> QED BY <3>1, <3>2
  <2>5. CASE DiscardUnstarted(p) \/ AppendFails(p) \/ SettleRepaired(p) \/ PurgeHistory(p)
    BY <2>5, WorkEnd DEF DiscardUnstarted, AppendFails, SettleRepaired, PurgeHistory
  <2>6. CASE AppendRecord(p)
    BY <2>6 DEF AppendRecord, Goto, Work, Committing
  <2>7. CASE RemovePending(p)
    <3>1. CASE rec[p] \in todo[p]
      BY <2>7, <3>1 DEF RemovePending, Goto, Work, Committing
    <3>2. CASE rec[p] \notin todo[p]
      <4>1. job[p] \in Repairs \/ job[p] \in Calls
        BY <2>7, <3>2 DEF RemovePending, Work, StepTypes
      <4>2. CASE job[p] \in Repairs
        BY <2>7, <3>2, <4>2 DEF RemovePending, Goto, Work, Committing
      <4>3. CASE job[p] \notin Repairs
        BY <2>7, <3>2, <4>1, <4>3 DEF RemovePending, Goto, Work, Committing
      <4> QED BY <4>2, <4>3
    <3> QED BY <3>1, <3>2
  <2> QED BY <1>7, <2>1, <2>2, <2>3, <2>4, <2>5, <2>6, <2>7 DEF Commit
<1> QED BY <1>1, <1>2, <1>3, <1>4, <1>5, <1>6, <1>7 DEF StepOf, Proceed

(* Outside a critical step, a process leaves the manifests alone. *)
LEMMA ManifestsStand ==
  ASSUME NEW p \in Procs, StepOf(p), pc[p] \notin Critical
  PROVE  pending' = pending /\ history' = history /\ log' = log /\ told' = told
<1> USE DEF Critical, Steps
<1>1. CASE Begin(p) \/ BeginRepair(p) \/ Acquire(p) \/ Timeout(p) \/ Crash(p)
  BY <1>1 DEF Begin, BeginRepair, Acquire, Timeout, Crash, durable, ghosts
<1>2. ~Recover(p)
  BY DEF Recover, RepairTornTail, RecoverFinished, RecoverLanded, RecoverBlocked, RecoverRefused,
         RecoverDone, ScanNext
<1>3. ~(CheckReplay(p) \/ CheckAccept(p) \/ CheckRefuse(p) \/ RepairAccept(p) \/ RepairRefuse(p))
  BY DEF CheckReplay, CheckAccept, CheckRefuse, RepairAccept, RepairRefuse
<1>4. ~Commit(p)
  BY DEF Commit, SaveHistory, WritePending, ReplaceNote, ReplaceFails, DiscardUnstarted,
         AppendRecord, AppendFails, RemovePending, SettleRepaired, PurgeHistory
<1> QED BY <1>1, <1>2, <1>3, <1>4 DEF StepOf, Proceed

LEMMA WorkNext ==
  TypeInv /\ MutualExclusion /\ WorkInv /\ [Next]_vars => WorkInv'
<1> SUFFICES ASSUME TypeInv, MutualExclusion, WorkInv, [Next]_vars PROVE WorkInv'
  OBVIOUS
<1>1. ASSUME NEW p \in Procs, StepOf(p), NEW q \in Procs, q # p PROVE Work(q)'
  <2>1. Stands(q)
    BY <1>1, OthersStand
  <2>2. CASE pc[p] \in Critical
    BY <1>1, <2>1, <2>2, WorkElsewhere
  <2>3. CASE pc[p] \notin Critical
    BY <1>1, <2>1, <2>3, ManifestsStand DEF Stands, WorkInv, Work
  <2> QED BY <2>2, <2>3
<1>2. ASSUME NEW p \in Procs, StepOf(p) PROVE WorkInv'
  BY <1>1, <1>2, WorkStep DEF WorkInv
<1>3. ASSUME NEW path \in Paths, EditOutside(path) PROVE WorkInv'
  BY <1>3 DEF EditOutside, local, WorkInv, Work
<1>4. CASE UNCHANGED vars
  BY <1>4 DEF vars, durable, local, WorkInv, Work
<1> QED BY <1>2, <1>3, <1>4 DEF Next, StepOf

-----------------------------------------------------------------------------
(* The history.  It loses blobs in a retention sweep only, and the sweep   *)
(* runs when there are no manifests, so a manifest never outlives the      *)
(* bytes it would take to undo it.                                         *)
HistoryInv ==
  /\ RestoreStaysPossible
  /\ \A p \in Procs :
       pc[p] = "declare" /\ job[p] \in Calls /\ rec[p].before # Absent
         => rec[p].before \in history

(* Manifests are added by WritePending only, blobs removed by PurgeHistory only. *)
LEMMA EvidenceStands ==
  ASSUME NEW p \in Procs, StepOf(p), ~WritePending(p), ~PurgeHistory(p)
  PROVE  pending' \subseteq pending /\ history \subseteq history'
<1>1. CASE Begin(p) \/ BeginRepair(p) \/ Acquire(p) \/ Timeout(p) \/ Crash(p) \/ CheckReplay(p)
             \/ CheckAccept(p) \/ CheckRefuse(p) \/ RepairAccept(p) \/ RepairRefuse(p)
  BY <1>1 DEF Begin, BeginRepair, Acquire, Timeout, Crash, CheckReplay, CheckAccept, CheckRefuse,
              RepairAccept, RepairRefuse, durable
<1>2. CASE Recover(p)
  BY <1>2 DEF Recover, RepairTornTail, RecoverFinished, RecoverLanded, RecoverBlocked,
              RecoverRefused, RecoverDone, durable
<1>3. CASE Commit(p)
  BY <1>3 DEF Commit, SaveHistory, ReplaceNote, ReplaceFails, DiscardUnstarted, AppendRecord,
              AppendFails, RemovePending, SettleRepaired
<1> QED BY <1>1, <1>2, <1>3 DEF StepOf, Proceed

LEMMA HistoryNext ==
  TypeInv /\ MutualExclusion /\ WorkInv /\ HistoryInv /\ [Next]_vars => HistoryInv'
<1> SUFFICES ASSUME TypeInv, MutualExclusion, WorkInv, HistoryInv, [Next]_vars PROVE HistoryInv'
  OBVIOUS
<1>1. ASSUME NEW p \in Procs, WritePending(p) PROVE HistoryInv'
  <2>1. job[p] \in Calls \/ rec[p].resolves # 0
    BY <1>1 DEF WritePending, WorkInv, Work, Committing, TypeInv, TypeOK, StepTypes
  <2>2. RestoreStaysPossible'
    BY <1>1, <2>1 DEF WritePending, HistoryInv, RestoreStaysPossible
  <2>3. \A q \in Procs : pc'[q] = "declare" => pc[q] = "declare" /\ job'[q] = job[q] /\ rec'[q] = rec[q]
    BY <1>1 DEF WritePending, Goto, TypeInv, TypeOK
  <2> QED BY <1>1, <2>2, <2>3 DEF WritePending, HistoryInv
<1>2. ASSUME NEW p \in Procs, PurgeHistory(p) PROVE HistoryInv'
  <2>1. pending' = {}
    BY <1>2 DEF PurgeHistory, WorkInv, Work
  <2>2. \A q \in Procs : pc'[q] # "declare"
    BY <1>2 DEF PurgeHistory, End, MutualExclusion, Critical, Steps, TypeInv, TypeOK
  <2> QED BY <2>1, <2>2 DEF HistoryInv, RestoreStaysPossible
<1>3. ASSUME NEW p \in Procs, StepOf(p), ~WritePending(p), ~PurgeHistory(p) PROVE HistoryInv'
  <2>1. pending' \subseteq pending /\ history \subseteq history'
    BY <1>3, EvidenceStands
  <2>2. ASSUME NEW q \in Procs, pc'[q] = "declare", job'[q] \in Calls, rec'[q].before # Absent
        PROVE  rec'[q].before \in history'
    <3>1. CASE q # p
      BY <1>3, <2>1, <2>2, <3>1, OthersStand DEF Stands, HistoryInv
    <3>2. CASE q = p
      <4>1. pc[p] # "declare" => SaveHistory(p) \/ RepairAccept(p)
        BY <1>3, <2>2, <3>2
           DEF StepOf, Proceed, Begin, BeginRepair, Acquire, Timeout, Crash, End, Goto, Recover,
               RepairTornTail, RecoverFinished, RecoverLanded, RecoverBlocked, RecoverRefused,
               RecoverDone, CheckReplay, CheckAccept, CheckRefuse, RepairRefuse, Commit,
               ReplaceNote, ReplaceFails, DiscardUnstarted, AppendRecord, AppendFails,
               RemovePending, SettleRepaired, TypeInv, TypeOK
      <4>2. CASE SaveHistory(p)
        BY <2>2, <3>2, <4>2 DEF SaveHistory
      <4>3. CASE RepairAccept(p)
        BY <2>2, <3>2, <4>3, KindsDiffer DEF RepairAccept, TypeInv, StepTypes
      <4>4. CASE pc[p] = "declare"
        <5>1. Crash(p)
          BY <1>3, <4>4
             DEF StepOf, Proceed, Begin, BeginRepair, Acquire, Timeout, Recover, RepairTornTail,
                 RecoverFinished, RecoverLanded, RecoverBlocked, RecoverRefused, RecoverDone,
                 ScanNext, CheckReplay, CheckAccept, CheckRefuse, RepairAccept, RepairRefuse,
                 Commit, SaveHistory, ReplaceNote, ReplaceFails, DiscardUnstarted, AppendRecord,
                 AppendFails, RemovePending, SettleRepaired
        <5> QED BY <2>2, <3>2, <5>1 DEF Crash, End, TypeInv, TypeOK
      <4> QED BY <4>1, <4>2, <4>3, <4>4
    <3> QED BY <3>1, <3>2
  <2> QED BY <2>1, <2>2 DEF HistoryInv, RestoreStaysPossible
<1>4. ASSUME NEW path \in Paths, EditOutside(path) PROVE HistoryInv'
  BY <1>4 DEF EditOutside, local, HistoryInv, RestoreStaysPossible
<1>5. CASE UNCHANGED vars
  BY <1>5 DEF vars, durable, local, HistoryInv, RestoreStaysPossible
<1> QED BY <1>1, <1>2, <1>3, <1>4, <1>5 DEF Next, StepOf

LEMMA RecoveryInit == Init => TypeInv /\ MutualExclusion /\ WorkInv /\ HistoryInv
<1> SUFFICES ASSUME Init PROVE MutualExclusion /\ WorkInv /\ HistoryInv
  BY TypeInit
<1>1. MutualExclusion
  BY DEF Init, MutualExclusion, Critical
<1>2. WorkInv
  BY DEF Init, WorkInv, Work, Committing
<1>3. HistoryInv
  BY DEF Init, HistoryInv, RestoreStaysPossible
<1> QED BY <1>1, <1>2, <1>3

LEMMA RecoveryInvariant == Spec => [](TypeInv /\ MutualExclusion /\ WorkInv /\ HistoryInv)
BY RecoveryInit, TypeNext, ExclusionNext, WorkNext, HistoryNext, PTL DEF Spec

(* No write is ever built over unfinished work: whatever died before it,   *)
(* when a call replaces a note, every earlier manifest has been resolved.  *)
THEOREM WritesComeAfterRecovery == Spec => []RecoveryFirst
<1>1. WorkInv => RecoveryFirst
  BY DEF WorkInv, Work, RecoveryFirst
<1> QED BY <1>1, RecoveryInvariant, PTL

(* As long as an interrupted operation is pending, the bytes it replaced   *)
(* are in the history, so restore-before can put them back.                *)
THEOREM RestoreIsNeverLost == Spec => []RestoreStaysPossible
<1>1. HistoryInv => RestoreStaysPossible
  BY DEF HistoryInv
<1> QED BY <1>1, RecoveryInvariant, PTL

--------------------------------------------------------------------------------
(* The audit trail: bytes that Datacron put into a note are accounted for, *)
(* an operation is journaled once, and what a caller was told is in the    *)
(* journal.                                                                *)

(* An operation is harmless to withdraw when the journal has it or when no *)
(* note holds its bytes.                                                   *)
Harmless(i) == Logged(i) \/ \A path \in Paths : origin[path] # i

(* Ids are handed out once; a repair resolves an older operation. *)
IdsInv ==
  /\ \A n \in DOMAIN log : log[n].id < nextId /\ log[n].resolves < log[n].id
  /\ \A r \in pending : r.id < nextId /\ r.resolves < r.id
  /\ \A path \in Paths : origin[path] < nextId
  /\ \A r, s \in pending : r.id = s.id => r = s

(* The operation whose bytes a note holds is journaled, or has a manifest  *)
(* that still describes the note.                                          *)
CoverInv ==
  \A path \in Paths :
    origin[path] # 0 =>
      \/ Logged(origin[path])
      \/ \E r \in pending : r.id = origin[path] /\ r.path = path /\ r.after = disk[path]

(* Whatever a repair resolves is harmless, from its manifest on. *)
RepairsInv ==
  /\ \A n \in DOMAIN log : log[n].resolves # 0 => Harmless(log[n].resolves)
  /\ \A r \in pending : r.resolves # 0 => Harmless(r.resolves)

Global == IdsInv /\ CoverInv /\ RepairsInv /\ JournalSound

Unheard(i) ==
  /\ ~Logged(i)
  /\ Resolving(i) = {}
  /\ \A r \in pending : r.resolves # i

(* What a process knows of the operation it has in hand. *)
Hand(p) ==
  /\ pc[p] \in Holding => rec[p].id < nextId /\ rec[p].resolves < rec[p].id
  /\ pc[p] \in {"save", "declare"} =>
       /\ Unheard(rec[p].id)
       /\ \A r \in pending : r.id # rec[p].id
       /\ \A path \in Paths : origin[path] # rec[p].id
       /\ rec[p].resolves # 0 => Harmless(rec[p].resolves)
  /\ pc[p] = "replace" => Unheard(rec[p].id)
  /\ pc[p] = "append" => ~Logged(rec[p].id) /\ Resolving(rec[p].id) = {}
  /\ pc[p] \in {"replace", "inspect", "append"} => rec[p] \in pending
  /\ pc[p] \in {"forget", "settle"} => \E n \in DOMAIN log : log[n] = rec[p]
  /\ pc[p] = "sweep" /\ job[p] # Sweep => Logged(rec[p].id)

HandInv == \A p \in Procs : Hand(p)

AuditInv == Global /\ HandInv

LEMMA AuditInit == Init => AuditInv
BY DEF Init, AuditInv, Global, IdsInv, CoverInv, RepairsInv, JournalSound, HandInv, Hand, Holding

(* The other processes are at no step that knows of an operation. *)
LEMMA HandElsewhere ==
  ASSUME TypeInv, MutualExclusion, HandInv, NEW p \in Procs, pc[p] \in Critical,
         NEW q \in Procs, q # p, Stands(q)
  PROVE  Hand(q)'
<1>1. pc[q] \in {"idle", "waiting"}
  BY DEF MutualExclusion, Critical, TypeInv, TypeOK, Steps
<1> QED BY <1>1 DEF Stands, Hand, Holding

LEMMA HandEnd ==
  ASSUME TypeInv, NEW p \in Procs, End(p)
  PROVE  Hand(p)'
BY DEF TypeInv, TypeOK, End, Hand, Holding

(* Steps that touch neither journal, manifests, notes nor ids. *)
LEMMA GlobalStill ==
  ASSUME Global, UNCHANGED <<log, pending, disk, origin, nextId>>
  PROVE  Global'
BY DEF Global, IdsInv, CoverInv, RepairsInv, JournalSound, Harmless, Logged

LEMMA HandStill ==
  ASSUME HandInv, UNCHANGED <<log, pending, disk, origin, nextId>>, NEW q \in Procs, Stands(q)
  PROVE  Hand(q)'
BY DEF HandInv, Hand, Stands, Unheard, Harmless, Logged, Resolving

LEMMA CallsStepAudit ==
  ASSUME TypeInv, AuditInv, NEW p \in Procs,
         Begin(p) \/ BeginRepair(p) \/ Acquire(p) \/ Timeout(p) \/ Crash(p)
           \/ CheckReplay(p) \/ CheckRefuse(p) \/ RepairRefuse(p)
  PROVE  Global' /\ Hand(p)'
<1> USE DEF AuditInv
<1>1. CASE Begin(p) \/ BeginRepair(p) \/ Acquire(p)
  <2>1. UNCHANGED <<log, pending, disk, origin, nextId>>
    BY <1>1 DEF Begin, BeginRepair, Acquire, durable, budget, ghosts
  <2>2. Hand(p)'
    BY <1>1 DEF Begin, BeginRepair, Acquire, Goto, Hand, Holding, TypeInv, TypeOK
  <2> QED BY <2>1, <2>2, GlobalStill
<1>2. CASE Timeout(p) \/ Crash(p) \/ CheckReplay(p) \/ CheckRefuse(p) \/ RepairRefuse(p)
  <2>1. UNCHANGED <<log, pending, disk, origin, nextId>> /\ End(p)
    BY <1>2 DEF Timeout, Crash, CheckReplay, CheckRefuse, RepairRefuse, durable, budget, ghosts
  <2> QED BY <2>1, GlobalStill, HandEnd
<1> QED BY <1>1, <1>2

(* Taking away a manifest that is harmless to withdraw. *)
LEMMA WithdrawAudit ==
  ASSUME TypeInv, Global, UNCHANGED <<log, disk, origin, nextId>>, pending' \subseteq pending,
         \A r \in pending \ pending' :
           Logged(r.id) \/ \A path \in Paths : origin[path] # r.id
  PROVE  Global'
<1>1. IdsInv' /\ RepairsInv' /\ JournalSound'
  BY DEF Global, IdsInv, RepairsInv, JournalSound, Harmless, Logged
<1>2. CoverInv'
  BY DEF Global, CoverInv, Logged
<1> QED BY <1>1, <1>2 DEF Global

(* A manifest whose bytes are not on its note is harmless to withdraw. *)
LEMMA OffTheNote ==
  ASSUME TypeInv, Global, NEW r \in pending, disk[r.path] # r.after
  PROVE  Harmless(r.id)
<1>1. ASSUME NEW path \in Paths, origin[path] = r.id, ~Logged(r.id) PROVE FALSE
  <2>1. r.id # 0
    BY DEF TypeInv, TypeOK, Records
  <2>2. PICK s \in pending : s.id = r.id /\ s.path = path /\ s.after = disk[path]
    BY <1>1, <2>1 DEF Global, CoverInv
  <2>3. s = r
    BY <2>2 DEF Global, IdsInv
  <2> QED BY <2>2, <2>3
<1> QED BY <1>1 DEF Harmless

(* Whatever is blocked or finished may be resolved or withdrawn. *)
LEMMA UnlandedIsHarmless ==
  ASSUME TypeInv, Global, NEW r \in pending, ~Landed(r)
  PROVE  Harmless(r.id)
<1>1. CASE Logged(r.id)
  BY <1>1 DEF Harmless
<1>2. CASE Resolved(r)
  <2>1. PICK n \in DOMAIN log : log[n].resolves = r.id
    BY <1>2 DEF Resolved, Resolving
  <2>2. r.id # 0
    BY DEF TypeInv, TypeOK, Records
  <2> QED BY <2>1, <2>2 DEF Global, RepairsInv
<1>3. CASE disk[r.path] # r.after
  BY <1>3, OffTheNote
<1> QED BY <1>1, <1>2, <1>3 DEF Landed

LEMMA RecoverStepAudit ==
  ASSUME TypeInv, MutualExclusion, WorkInv, AuditInv, NEW p \in Procs, Recover(p)
  PROVE  Global' /\ Hand(p)'
<1> USE DEF AuditInv
<1>1. CASE RepairTornTail(p) \/ RecoverDone(p) \/ RecoverRefused(p)
  <2>1. UNCHANGED <<log, pending, disk, origin, nextId>>
    BY <1>1 DEF RepairTornTail, RecoverDone, RecoverRefused, durable, budget, ghosts
  <2>2. CASE RepairTornTail(p)
    BY <2>1, <2>2, GlobalStill DEF RepairTornTail, Goto, Hand, Holding, TypeInv, TypeOK
  <2>3. CASE RecoverRefused(p)
    BY <2>1, <2>3, GlobalStill, HandEnd DEF RecoverRefused
  <2>4. CASE RecoverDone(p)
    <3>1. CASE hit[p]
      BY <2>1, <2>4, <3>1, GlobalStill, HandEnd DEF RecoverDone
    <3>2. CASE ~hit[p]
      BY <2>1, <2>4, <3>2, GlobalStill DEF RecoverDone, Goto, Hand, Holding, TypeInv, TypeOK
    <3> QED BY <3>1, <3>2
  <2> QED BY <1>1, <2>2, <2>3, <2>4
<1>2. ASSUME NEW r \in todo[p], RecoverFinished(p, r) PROVE Global' /\ Hand(p)'
  <2>1. r \in pending
    BY <1>2 DEF RecoverFinished, ScanNext, WorkInv, Work
  <2>2. Harmless(r.id)
    BY <1>2, <2>1, UnlandedIsHarmless DEF RecoverFinished, Finished, Landed
  <2>3. pending' = pending \ {r} /\ UNCHANGED <<log, disk, origin, nextId>>
    BY <1>2 DEF RecoverFinished, budget, ghosts
  <2>4. Global'
    BY <2>2, <2>3, WithdrawAudit DEF Harmless
  <2>5. Hand(p)'
    BY <1>2 DEF RecoverFinished, ScanNext, Hand, Holding
  <2> QED BY <2>4, <2>5
<1>3. ASSUME NEW r \in todo[p], RecoverLanded(p, r) PROVE Global' /\ Hand(p)'
  <2>1. r \in pending
    BY <1>3 DEF RecoverLanded, ScanNext, WorkInv, Work
  <2>2. UNCHANGED <<log, pending, disk, origin, nextId>>
    BY <1>3 DEF RecoverLanded, durable, budget, ghosts
  <2>3. pc'[p] = "append" /\ rec'[p] = r
    BY <1>3 DEF RecoverLanded, Goto, TypeInv, TypeOK
  <2>4. ~Logged(r.id) /\ Resolving(r.id) = {}
    BY <1>3 DEF RecoverLanded, Landed, Resolved
  <2>5. r.id < nextId /\ r.resolves < r.id
    BY <2>1 DEF Global, IdsInv
  <2>6. Hand(p)'
    BY <2>1, <2>2, <2>3, <2>4, <2>5 DEF Hand, Logged, Resolving
  <2> QED BY <2>2, <2>6, GlobalStill
<1>4. ASSUME NEW r \in todo[p], RecoverBlocked(p, r) PROVE Global' /\ Hand(p)'
  <2>1. UNCHANGED <<log, pending, disk, origin, nextId>>
    BY <1>4 DEF RecoverBlocked, durable, budget, ghosts
  <2>2. Hand(p)'
    BY <1>4 DEF RecoverBlocked, ScanNext, Hand, Holding
  <2> QED BY <2>1, <2>2, GlobalStill
<1> QED BY <1>1, <1>2, <1>3, <1>4 DEF Recover

(* A new operation takes an id nothing has heard of. *)
LEMMA FreshId ==
  ASSUME TypeInv, Global
  PROVE  /\ Unheard(nextId)
         /\ \A r \in pending : r.id # nextId
         /\ \A path \in Paths : origin[path] # nextId
<1>1. \A n \in DOMAIN log : log[n] \in Records
  BY DEF TypeInv, TypeOK
<1>2. \A n \in DOMAIN log : log[n].id # nextId /\ log[n].resolves # nextId
  BY <1>1 DEF TypeInv, TypeOK, Records, Global, IdsInv
<1>3. \A r \in pending : r.id # nextId /\ r.resolves # nextId
  BY DEF TypeInv, TypeOK, Records, Global, IdsInv
<1>4. \A path \in Paths : origin[path] # nextId
  BY DEF TypeInv, TypeOK, Global, IdsInv
<1> QED BY <1>2, <1>3, <1>4 DEF Unheard, Logged, Resolving

LEMMA NextIdGrows ==
  ASSUME TypeInv, Global, UNCHANGED <<log, pending, disk, origin>>, nextId' = nextId + 1
  PROVE  Global'
<1>1. \A n \in DOMAIN log : log[n] \in Records
  BY DEF TypeInv, TypeOK
<1>2. IdsInv'
  BY <1>1 DEF TypeInv, TypeOK, Records, Global, IdsInv
<1> QED BY <1>2 DEF Global, CoverInv, RepairsInv, JournalSound, Harmless, Logged

LEMMA AcceptStepAudit ==
  ASSUME TypeInv, AuditInv, NEW p \in Procs, CheckAccept(p) \/ RepairAccept(p)
  PROVE  Global' /\ Hand(p)'
<1> USE DEF AuditInv
<1>1. UNCHANGED <<log, pending, disk, origin>> /\ nextId' = nextId + 1
  BY DEF CheckAccept, RepairAccept, durable, ghosts
<1>2. pc'[p] \in {"save", "declare"} /\ rec'[p].id = nextId
  BY DEF CheckAccept, RepairAccept, Goto, TypeInv, TypeOK
<1>3. rec'[p].resolves < nextId /\ (rec'[p].resolves # 0 => Harmless(rec'[p].resolves))
  <2>1. CASE CheckAccept(p)
    <3>1. rec'[p].resolves = 0
      BY <2>1 DEF CheckAccept, TypeInv, TypeOK
    <3> QED BY <3>1 DEF TypeInv, TypeOK
  <2>2. CASE RepairAccept(p)
    <3>1. PICK r \in pending : RepairAccepted(job[p], r) /\ rec'[p].resolves = r.id
      BY <2>2 DEF RepairAccept, TypeInv, TypeOK
    <3>2. r.id < nextId
      BY <3>1 DEF Global, IdsInv
    <3>3. Harmless(r.id)
      BY <3>1, UnlandedIsHarmless DEF RepairAccepted, Blocked
    <3> QED BY <3>1, <3>2, <3>3
  <2> QED BY <2>1, <2>2
<1>4. Hand(p)'
  <2>1. rec'[p].id < nextId'
    BY <1>1, <1>2 DEF TypeInv, TypeOK
  <2>2. (rec[p].resolves # 0 => Harmless(rec[p].resolves))'
    BY <1>1, <1>3 DEF Harmless, Logged
  <2>3. Unheard(rec[p].id)'
    BY <1>1, <1>2, FreshId DEF Unheard, Logged, Resolving
  <2>4. /\ \A r \in pending' : r.id # rec'[p].id
        /\ \A path \in Paths : origin'[path] # rec'[p].id
    BY <1>1, <1>2, FreshId
  <2> QED BY <1>2, <1>3, <2>1, <2>2, <2>3, <2>4 DEF Hand
<1> QED BY <1>1, <1>4, NextIdGrows

-----------------------------------------------------------------------------
(* The durable steps. *)

LEMMA DeclareAudit ==
  ASSUME TypeInv, AuditInv, NEW p \in Procs, WritePending(p)
  PROVE  Global' /\ Hand(p)'
<1> USE DEF AuditInv
<1>1. pc[p] = "declare" /\ pending' = pending \cup {rec[p]} /\ rec'[p] = rec[p]
  BY DEF WritePending
<1>2. UNCHANGED <<log, disk, origin, nextId>>
  BY DEF WritePending, budget, ghosts
<1>3. Hand(p)
  BY DEF HandInv
<1>4. Unheard(rec[p].id) /\ rec[p].id < nextId /\ rec[p].resolves < rec[p].id
  BY <1>1, <1>3 DEF Hand, Holding
<1>5. IdsInv'
  BY <1>1, <1>2, <1>3, <1>4 DEF Hand, Global, IdsInv
<1>6. CoverInv' /\ RepairsInv' /\ JournalSound'
  BY <1>1, <1>2, <1>3 DEF Hand, Global, CoverInv, RepairsInv, JournalSound, Harmless, Logged
<1>7. rec[p].resolves # rec[p].id
  BY <1>1, <1>4 DEF TypeInv, TypeOK, StepTypes, Holding, Records
<1>8. Unheard(rec[p].id)'
  BY <1>1, <1>2, <1>4, <1>7 DEF Unheard, Logged, Resolving
<1>9. pc'[p] \in {"append", "replace"}
  BY DEF WritePending, Goto, TypeInv, TypeOK
<1> QED BY <1>1, <1>2, <1>4, <1>5, <1>6, <1>8, <1>9 DEF Global, Hand, Unheard

(* The note takes the bytes of a declared operation. *)
LEMMA LandAudit ==
  ASSUME TypeInv, AuditInv, NEW p \in Procs, pc[p] = "replace", Land(rec[p]),
         UNCHANGED <<log, pending, nextId>>
  PROVE  Global'
<1> USE DEF AuditInv
<1> DEFINE r == rec[p]
<1>1. r \in Records /\ r \in pending /\ Unheard(r.id) /\ r.id < nextId
  BY DEF TypeInv, StepTypes, Holding, HandInv, Hand
<1>2. /\ disk' = [disk EXCEPT ![r.path] = r.after]
      /\ origin' = [origin EXCEPT ![r.path] = r.id]
  BY DEF Land
<1>3. r.path \in Paths
  BY <1>1 DEF Records
<1> HIDE DEF r
<1>4. /\ disk'[r.path] = r.after /\ origin'[r.path] = r.id
      /\ \A path \in Paths \ {r.path} : disk'[path] = disk[path] /\ origin'[path] = origin[path]
  BY <1>2, <1>3 DEF TypeInv, TypeOK
<1>5. IdsInv' /\ JournalSound'
  BY <1>1, <1>4 DEF Global, IdsInv, JournalSound
<1>6. CoverInv'
  BY <1>1, <1>4 DEF Global, CoverInv, Logged
<1>7. ASSUME NEW i, i # r.id, Harmless(i) PROVE Harmless(i)'
  BY <1>4, <1>7 DEF Harmless, Logged
<1>8. RepairsInv'
  <2>1. \A n \in DOMAIN log : log[n].resolves # r.id
    BY <1>1 DEF Unheard, Resolving
  <2>2. \A s \in pending : s.resolves # r.id
    BY <1>1 DEF Unheard
  <2> QED BY <1>7, <2>1, <2>2 DEF Global, RepairsInv
<1> QED BY <1>5, <1>6, <1>8 DEF Global

LEMMA AppendAudit ==
  ASSUME TypeInv, AuditInv, NEW p \in Procs, AppendRecord(p)
  PROVE  Global' /\ Hand(p)'
<1> USE DEF AuditInv
<1> DEFINE r == rec[p]
<1>1. pc[p] = "append" /\ log' = Append(log, r) /\ UNCHANGED <<pending, disk, origin, nextId>>
  BY DEF AppendRecord, budget, ghosts
<1>2. r \in Records /\ r \in pending /\ ~Logged(r.id) /\ Resolving(r.id) = {}
  BY <1>1 DEF TypeInv, StepTypes, Holding, HandInv, Hand
<1>3. r.id < nextId /\ r.resolves < r.id
  BY <1>2 DEF Global, IdsInv
<1>4. rec'[p] = r /\ pc'[p] = "forget"
  BY DEF AppendRecord, Goto, TypeInv, TypeOK
<1> HIDE DEF r
<1>5. log \in Seq(Records)
  BY DEF TypeInv, TypeOK
<1>6. /\ DOMAIN log' = DOMAIN log \cup {Len(log) + 1}
      /\ log'[Len(log) + 1] = r
      /\ \A n \in DOMAIN log : log'[n] = log[n] /\ n < Len(log) + 1 /\ n \in Nat
  BY <1>1, <1>2, <1>5
<1>7. \A i : Logged(i) => Logged(i)'
  BY <1>6 DEF Logged
<1>8. \A i : Harmless(i) => Harmless(i)'
  BY <1>1, <1>7 DEF Harmless
<1>9. IdsInv'
  BY <1>1, <1>3, <1>6 DEF Global, IdsInv
<1>10. CoverInv'
  BY <1>1, <1>7 DEF Global, CoverInv
<1>11. RepairsInv'
  BY <1>1, <1>2, <1>6, <1>8 DEF Global, RepairsInv
<1>12. JournalSound'
  <2>1. \A n \in DOMAIN log : log[n].id # r.id /\ log[n].resolves # r.id
    BY <1>2 DEF Logged, Resolving
  <2>2. r.resolves # r.id
    BY <1>2, <1>3 DEF Records
  <2> QED BY <1>6, <2>1, <2>2 DEF Global, JournalSound
<1>13. Hand(p)'
  <2>1. \E n \in DOMAIN log' : log'[n] = rec'[p]
    BY <1>4, <1>6
  <2> QED BY <1>1, <1>3, <1>4, <2>1 DEF Hand
<1> QED BY <1>9, <1>10, <1>11, <1>12, <1>13 DEF Global

LEMMA CommitStepAudit ==
  ASSUME TypeInv, MutualExclusion, WorkInv, AuditInv, NEW p \in Procs, Commit(p)
  PROVE  Global' /\ Hand(p)'
<1> USE DEF AuditInv
<1>1. CASE SaveHistory(p)
  <2>1. UNCHANGED <<log, pending, disk, origin, nextId>>
    BY <1>1 DEF SaveHistory, budget, ghosts
  <2>2. pc[p] = "save" /\ pc'[p] = "declare" /\ rec'[p] = rec[p]
    BY <1>1 DEF SaveHistory, Goto, TypeInv, TypeOK
  <2>3. Hand(p)'
    BY <2>1, <2>2 DEF HandInv, Hand, Holding, Unheard, Harmless, Logged, Resolving
  <2> QED BY <2>1, <2>3, GlobalStill
<1>2. CASE WritePending(p)
  BY <1>2, DeclareAudit
<1>3. CASE ReplaceNote(p)
  <2>1. Global'
    BY <1>3, LandAudit DEF ReplaceNote, budget
  <2>2. pc[p] = "replace" /\ pc'[p] = "append" /\ rec'[p] = rec[p]
          /\ UNCHANGED <<log, pending, nextId>>
    BY <1>3 DEF ReplaceNote, Goto, TypeInv, TypeOK, budget
  <2>3. Hand(p)'
    BY <2>2 DEF HandInv, Hand, Holding, Unheard, Logged, Resolving
  <2> QED BY <2>1, <2>3
<1>4. CASE ReplaceFails(p)
  <2>1. UNCHANGED <<log, pending, nextId>> /\ pc[p] = "replace"
    BY <1>4 DEF ReplaceFails
  <2>2. Global'
    BY <1>4, <2>1, LandAudit, GlobalStill DEF ReplaceFails
  <2>3. CASE job[p] \in Repairs
    BY <1>4, <2>2, <2>3, HandEnd DEF ReplaceFails
  <2>4. CASE job[p] \notin Repairs
    <3>1. pc'[p] = "inspect" /\ rec'[p] = rec[p]
      BY <1>4, <2>4 DEF ReplaceFails, Goto, TypeInv, TypeOK
    <3>2. Hand(p)'
      BY <2>1, <3>1 DEF HandInv, Hand, Holding
    <3> QED BY <2>2, <3>2
  <2> QED BY <2>3, <2>4
<1>5. CASE DiscardUnstarted(p)
  <2>1. UNCHANGED <<log, disk, origin, nextId>> /\ End(p)
    BY <1>5 DEF DiscardUnstarted, budget, ghosts
  <2>2. rec[p] \in pending
    BY <1>5 DEF DiscardUnstarted, HandInv, Hand
  <2>3. Global'
    <3>1. CASE disk[rec[p].path] = rec[p].after
      BY <1>5, <2>1, <3>1, GlobalStill DEF DiscardUnstarted
    <3>2. CASE disk[rec[p].path] # rec[p].after
      <4>1. Harmless(rec[p].id)
        BY <2>2, <3>2, OffTheNote
      <4> QED BY <1>5, <2>1, <3>2, <4>1, WithdrawAudit DEF DiscardUnstarted, Harmless
    <3> QED BY <3>1, <3>2
  <2> QED BY <2>1, <2>3, HandEnd
<1>6. CASE AppendRecord(p)
  BY <1>6, AppendAudit
<1>7. CASE AppendFails(p)
  <2>1. UNCHANGED <<log, pending, disk, origin, nextId>> /\ End(p)
    BY <1>7 DEF AppendFails, ghosts
  <2> QED BY <2>1, GlobalStill, HandEnd
<1>8. CASE RemovePending(p)
  <2>1. PICK n \in DOMAIN log : log[n] = rec[p]
    BY <1>8 DEF RemovePending, HandInv, Hand
  <2>2. Logged(rec[p].id)
    BY <2>1 DEF Logged
  <2>3. pending' = pending \ {rec[p]} /\ UNCHANGED <<log, disk, origin, nextId, job>>
    BY <1>8 DEF RemovePending, budget, ghosts
  <2>4. Global'
    BY <2>2, <2>3, WithdrawAudit
  <2>5. CASE rec[p] \in todo[p]
    <3>1. pc'[p] = "scan"
      BY <1>8, <2>5 DEF RemovePending, Goto, TypeInv, TypeOK
    <3> QED BY <2>4, <3>1 DEF Hand, Holding
  <2>6. CASE rec[p] \notin todo[p]
    <3>1. pc[p] = "forget" /\ pc'[p] \in {"settle", "sweep"} /\ rec'[p] = rec[p]
      BY <1>8, <2>6 DEF RemovePending, Goto, TypeInv, TypeOK
    <3>2. Hand(p)'
      BY <2>1, <2>2, <2>3, <3>1 DEF HandInv, Hand, Holding, Logged
    <3> QED BY <2>4, <3>2
  <2> QED BY <2>5, <2>6
<1>9. CASE SettleRepaired(p)
  <2>1. UNCHANGED <<log, disk, origin, nextId>> /\ End(p)
    BY <1>9 DEF SettleRepaired, budget
  <2>2. PICK n \in DOMAIN log : log[n] = rec[p]
    BY <1>9 DEF SettleRepaired, HandInv, Hand
  <2>3. rec[p].resolves # 0 => Harmless(rec[p].resolves)
    BY <2>2 DEF Global, RepairsInv
  <2>4. \A r \in pending : r.id # 0
    BY DEF TypeInv, TypeOK, Records
  <2>5. pending' \subseteq pending /\ \A r \in pending \ pending' : Harmless(r.id)
    BY <1>9, <2>3, <2>4 DEF SettleRepaired
  <2>6. Global'
    BY <2>1, <2>5, WithdrawAudit DEF Harmless
  <2> QED BY <2>1, <2>6, HandEnd
<1>10. CASE PurgeHistory(p)
  <2>1. UNCHANGED <<log, pending, disk, origin, nextId>> /\ End(p)
    BY <1>10 DEF PurgeHistory, budget
  <2> QED BY <2>1, GlobalStill, HandEnd
<1> QED BY <1>1, <1>2, <1>3, <1>4, <1>5, <1>6, <1>7, <1>8, <1>9, <1>10 DEF Commit

(* An edit made outside Datacron takes the note away from its operation. *)
LEMMA EditAudit ==
  ASSUME TypeInv, AuditInv, NEW path \in Paths, EditOutside(path)
  PROVE  AuditInv'
<1>1. UNCHANGED <<log, pending, nextId, pc, job, rec>>
  BY DEF EditOutside, local
<1>2. /\ origin'[path] = 0
      /\ \A q \in Paths \ {path} : disk'[q] = disk[q] /\ origin'[q] = origin[q]
  BY DEF EditOutside, TypeInv, TypeOK
<1>3. ASSUME NEW i, i # 0, Harmless(i) PROVE Harmless(i)'
  BY <1>1, <1>2, <1>3 DEF Harmless, Logged
<1>4. IdsInv'
  BY <1>1, <1>2 DEF AuditInv, Global, IdsInv, TypeInv, TypeOK
<1>5. CoverInv' /\ JournalSound'
  BY <1>1, <1>2 DEF AuditInv, Global, CoverInv, JournalSound, Logged
<1>6. RepairsInv'
  BY <1>1, <1>3 DEF AuditInv, Global, RepairsInv
<1>7. ASSUME NEW q \in Procs PROVE Hand(q)'
  <2>1. Hand(q)
    BY DEF AuditInv, HandInv
  <2>2. pc[q] \in {"save", "declare"} => rec[q].id # 0
    BY DEF TypeInv, StepTypes, Holding, Records
  <2>3. (pc[q] \in {"save", "declare"} =>
          /\ \A r \in pending : r.id # rec[q].id
          /\ \A other \in Paths : origin[other] # rec[q].id
          /\ rec[q].resolves # 0 => Harmless(rec[q].resolves))'
    BY <1>1, <1>2, <1>3, <2>1, <2>2 DEF Hand
  <2>4. Unheard(rec[q].id) => Unheard(rec[q].id)'
    BY <1>1 DEF Unheard, Logged, Resolving
  <2>5. Logged(rec[q].id)' <=> Logged(rec[q].id)
    BY <1>1 DEF Logged
  <2>6. Resolving(rec[q].id)' = Resolving(rec[q].id)
    BY <1>1 DEF Resolving
  <2> QED BY <1>1, <2>1, <2>3, <2>4, <2>5, <2>6 DEF Hand
<1> QED BY <1>4, <1>5, <1>6, <1>7 DEF AuditInv, Global, HandInv

(* Outside its critical steps a process changes no note, journal or manifest. *)
LEMMA QuietStep ==
  ASSUME NEW p \in Procs, StepOf(p), pc[p] \notin Critical
  PROVE  UNCHANGED <<log, pending, disk, origin, nextId>>
<1> USE DEF Critical, Steps
<1>1. CASE Begin(p) \/ BeginRepair(p) \/ Acquire(p) \/ Timeout(p) \/ Crash(p)
  BY <1>1 DEF Begin, BeginRepair, Acquire, Timeout, Crash, durable, budget, ghosts
<1>2. ~Recover(p)
  BY DEF Recover, RepairTornTail, RecoverFinished, RecoverLanded, RecoverBlocked, RecoverRefused,
         RecoverDone, ScanNext
<1>3. ~(CheckReplay(p) \/ CheckAccept(p) \/ CheckRefuse(p) \/ RepairAccept(p) \/ RepairRefuse(p))
  BY DEF CheckReplay, CheckAccept, CheckRefuse, RepairAccept, RepairRefuse
<1>4. ~Commit(p)
  BY DEF Commit, SaveHistory, WritePending, ReplaceNote, ReplaceFails, DiscardUnstarted,
         AppendRecord, AppendFails, RemovePending, SettleRepaired, PurgeHistory
<1> QED BY <1>1, <1>2, <1>3, <1>4 DEF StepOf, Proceed

LEMMA AuditNext ==
  TypeInv /\ MutualExclusion /\ WorkInv /\ AuditInv /\ [Next]_vars => AuditInv'
<1> SUFFICES ASSUME TypeInv, MutualExclusion, WorkInv, AuditInv, [Next]_vars PROVE AuditInv'
  OBVIOUS
<1>1. ASSUME NEW p \in Procs, StepOf(p) PROVE Global' /\ Hand(p)'
  BY <1>1, CallsStepAudit, RecoverStepAudit, AcceptStepAudit, CommitStepAudit DEF StepOf, Proceed
<1>2. ASSUME NEW p \in Procs, StepOf(p), NEW q \in Procs, q # p PROVE Hand(q)'
  <2>1. Stands(q)
    BY <1>2, OthersStand
  <2>2. CASE pc[p] \in Critical
    BY <1>2, <2>1, <2>2, HandElsewhere DEF AuditInv
  <2>3. CASE pc[p] \notin Critical
    <3>1. UNCHANGED <<log, pending, disk, origin, nextId>>
      BY <1>2, <2>3, QuietStep
    <3> QED BY <2>1, <3>1, HandStill DEF AuditInv
  <2> QED BY <2>2, <2>3
<1>3. ASSUME NEW path \in Paths, EditOutside(path) PROVE AuditInv'
  BY <1>3, EditAudit
<1>4. CASE UNCHANGED vars
  <2>1. UNCHANGED <<log, pending, disk, origin, nextId>> /\ \A q \in Procs : Stands(q)
    BY <1>4 DEF vars, durable, local, budget, ghosts, Stands
  <2> QED BY <2>1, GlobalStill, HandStill DEF AuditInv, HandInv
<1>5. ASSUME NEW p \in Procs, StepOf(p) PROVE AuditInv'
  BY <1>1, <1>2, <1>5 DEF AuditInv, HandInv
<1> QED BY <1>3, <1>4, <1>5 DEF Next, StepOf

LEMMA AuditInvariant == Spec => [](TypeInv /\ AuditInv)
<1>1. Spec => [](TypeInv /\ MutualExclusion /\ WorkInv)
  BY RecoveryInvariant, PTL
<1> QED BY <1>1, AuditInit, AuditNext, PTL DEF Spec

(* Write-ahead audit: whatever dies, fails or is edited around it, bytes   *)
(* that Datacron put into a note are named by the journal or a manifest.   *)
THEOREM BytesAreAccountedFor == Spec => []AuditCoverage
<1>1. AuditInv => AuditCoverage
  BY DEF AuditInv, Global, CoverInv, AuditCoverage
<1> QED BY <1>1, AuditInvariant, PTL

(* An operation is journaled once, and never after a repair resolved it. *)
THEOREM OperationsAreJournaledOnce == Spec => []JournalSound
<1>1. AuditInv => JournalSound
  BY DEF AuditInv, Global
<1> QED BY <1>1, AuditInvariant, PTL

-----------------------------------------------------------------------------
LEMMA ToldNext ==
  TypeInv /\ AuditInv /\ ToldIsJournaled /\ [Next]_vars => ToldIsJournaled'
<1> SUFFICES ASSUME TypeInv, AuditInv, ToldIsJournaled, [Next]_vars PROVE ToldIsJournaled'
  OBVIOUS
<1>1. \A i \in told : Logged(i)
  BY DEF ToldIsJournaled, LogIds, Logged
<1>2. SUFFICES \A i \in told' : Logged(i)'
  BY DEF ToldIsJournaled, LogIds, Logged
<1>3. ASSUME NEW p \in Procs, CheckReplay(p) \/ SettleRepaired(p) \/ PurgeHistory(p)
      PROVE  \A i \in told' : Logged(i)'
  <2>1. log' = log
    BY <1>3 DEF CheckReplay, SettleRepaired, PurgeHistory, durable
  <2>2. \A i \in told' : Logged(i)
    <3>1. CASE CheckReplay(p)
      BY <1>1, <3>1 DEF CheckReplay, Logged
    <3>2. CASE SettleRepaired(p)
      BY <1>1, <3>2 DEF SettleRepaired, AuditInv, HandInv, Hand, Logged
    <3>3. CASE PurgeHistory(p)
      BY <1>1, <3>3 DEF PurgeHistory, AuditInv, HandInv, Hand
    <3> QED BY <1>3, <3>1, <3>2, <3>3
  <2> QED BY <2>1, <2>2 DEF Logged
<1>4. ASSUME NEW p \in Procs, AppendRecord(p) PROVE \A i \in told' : Logged(i)'
  <2>1. \A n \in DOMAIN log : n \in DOMAIN log' /\ log'[n] = log[n]
    BY <1>4 DEF AppendRecord, TypeInv, TypeOK, StepTypes, Holding
  <2> QED BY <1>1, <1>4, <2>1 DEF AppendRecord, ghosts, Logged
<1>5. ASSUME NEW p \in Procs, StepOf(p),
             ~CheckReplay(p), ~SettleRepaired(p), ~PurgeHistory(p), ~AppendRecord(p)
      PROVE  log' = log /\ told' = told
  BY <1>5 DEF StepOf, Proceed, Begin, BeginRepair, Acquire, Timeout, Crash, CheckAccept, CheckRefuse,
              RepairAccept, RepairRefuse, Recover, RepairTornTail, RecoverFinished, RecoverLanded,
              RecoverBlocked, RecoverRefused, RecoverDone, Commit, SaveHistory, WritePending,
              ReplaceNote, ReplaceFails, DiscardUnstarted, AppendFails, RemovePending, durable, ghosts
<1>6. CASE (\E path \in Paths : EditOutside(path)) \/ UNCHANGED vars
  BY <1>1, <1>6 DEF EditOutside, vars, durable, ghosts, Logged
<1>7. ASSUME NEW p \in Procs, StepOf(p) PROVE \A i \in told' : Logged(i)'
  BY <1>1, <1>3, <1>4, <1>5, <1>7 DEF Logged
<1> QED BY <1>6, <1>7 DEF Next, StepOf

(* A caller who was told "committed" finds the operation in the journal,   *)
(* now and at any later time.                                              *)
THEOREM AnswersAreDurable == Spec => []ToldIsJournaled
<1>1. Init => ToldIsJournaled
  BY DEF Init, ToldIsJournaled
<1> QED BY <1>1, AuditInvariant, ToldNext, PTL DEF Spec
================================================================================
