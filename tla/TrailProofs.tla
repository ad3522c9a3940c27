------------------------------ MODULE TrailProofs ------------------------------
(***************************************************************************)
(* The note transaction implements the audit trail, where editors keep     *)
(* away from running transactions; and a request is committed once, where  *)
(* they do not.                                                            *)
(***************************************************************************)
EXTENDS NoteTransactionProofs

(* What a transaction checked still holds when it replaces the note, and   *)
(* the note holds the operation's bytes when it is recorded.  adopt-disk   *)
(* declares the bytes it finds.                                            *)
Exact(p) ==
  /\ pc[p] \in {"save", "declare", "replace"} => disk[rec[p].path] = rec[p].before
  /\ pc[p] = "append" => disk[rec[p].path] = rec[p].after
  /\ pc[p] \in {"save", "declare"} /\ job[p] \in Repairs /\ job[p].kind = "adopt-disk" =>
       rec[p].after = rec[p].before

ExactInv == \A p \in Procs : Exact(p)

LEMMA ExactInit == Init => ExactInv
BY DEF Init, ExactInv, Exact

LEMMA ExactEnd ==
  ASSUME TypeInv, NEW p \in Procs, End(p)
  PROVE  Exact(p)'
BY DEF TypeInv, TypeOK, End, Exact

LEMMA ExactStep ==
  ASSUME TypeInv, ExactInv, NEW p \in Procs, StepOf(p)
  PROVE  Exact(p)'
<1> USE DEF TypeInv, TypeOK
<1>1. CASE Begin(p) \/ BeginRepair(p) \/ Acquire(p)
  BY <1>1 DEF Begin, BeginRepair, Acquire, Goto, Exact
<1>2. CASE Timeout(p) \/ CheckReplay(p) \/ CheckRefuse(p) \/ RepairRefuse(p) \/ Crash(p)
  BY <1>2, ExactEnd DEF Timeout, CheckReplay, CheckRefuse, RepairRefuse, Crash
<1>3. CASE Recover(p)
  <2>1. CASE RepairTornTail(p)
    BY <2>1 DEF RepairTornTail, Goto, Exact
  <2>2. ASSUME NEW r \in todo[p], RecoverFinished(p, r) \/ RecoverBlocked(p, r) PROVE Exact(p)'
    BY <2>2 DEF RecoverFinished, RecoverBlocked, ScanNext, Exact
  <2>3. ASSUME NEW r \in todo[p], RecoverLanded(p, r) PROVE Exact(p)'
    BY <2>3 DEF RecoverLanded, Landed, Goto, durable, Exact
  <2>4. CASE RecoverRefused(p)
    BY <2>4, ExactEnd DEF RecoverRefused
  <2>5. CASE RecoverDone(p)
    <3>1. CASE hit[p]
      BY <2>5, <3>1, ExactEnd DEF RecoverDone
    <3>2. CASE ~hit[p]
      BY <2>5, <3>2 DEF RecoverDone, Goto, Exact
    <3> QED BY <3>1, <3>2
  <2> QED BY <1>3, <2>1, <2>2, <2>3, <2>4, <2>5 DEF Recover
<1>4. CASE CheckAccept(p)
  <2>1. /\ disk' = disk /\ pc'[p] = "save" /\ job'[p] = job[p]
        /\ rec'[p].path = job[p].path /\ rec'[p].before = disk[job[p].path]
    BY <1>4 DEF CheckAccept, Goto, durable
  <2>2. job[p] \notin Repairs
    BY <1>4 DEF CheckAccept, StepTypes
  <2> QED BY <2>1, <2>2 DEF Exact
<1>5. CASE RepairAccept(p)
  <2>1. PICK r \in pending :
          rec' = [rec EXCEPT ![p] =
                   [id |-> nextId, path |-> r.path, before |-> disk[r.path],
                    after |-> IF job[p].kind = "restore-before" THEN r.before ELSE disk[r.path],
                    call |-> NoCall, resolves |-> r.id]]
    BY <1>5 DEF RepairAccept
  <2>2. disk' = disk /\ pc'[p] \in {"save", "declare"} /\ job'[p] = job[p]
    BY <1>5 DEF RepairAccept, Goto, durable
  <2>3. /\ rec'[p].path = r.path /\ rec'[p].before = disk[r.path]
        /\ job[p].kind = "adopt-disk" => rec'[p].after = disk[r.path]
    BY <2>1
  <2> QED BY <2>2, <2>3 DEF Exact
<1>6. CASE Commit(p)
  <2>1. CASE SaveHistory(p)
    BY <2>1 DEF SaveHistory, Goto, ExactInv, Exact
  <2>2. CASE WritePending(p)
    <3>1. pc[p] = "declare" /\ UNCHANGED <<disk, rec, job>>
      BY <2>2 DEF WritePending
    <3>2. CASE job[p] \in Repairs /\ job[p].kind = "adopt-disk"
      BY <2>2, <3>1, <3>2 DEF WritePending, Goto, ExactInv, Exact
    <3>3. CASE ~(job[p] \in Repairs /\ job[p].kind = "adopt-disk")
      BY <2>2, <3>1, <3>3 DEF WritePending, Goto, ExactInv, Exact
    <3> QED BY <3>2, <3>3
  <2>3. CASE ReplaceNote(p)
    <3>1. rec[p] \in Records /\ rec' = rec /\ pc'[p] = "append"
      BY <2>3 DEF ReplaceNote, Goto, StepTypes, Holding
    <3>2. disk'[rec[p].path] = rec[p].after
      BY <2>3, <3>1 DEF ReplaceNote, Land, Records
    <3> QED BY <3>1, <3>2 DEF Exact
  <2>4. CASE ReplaceFails(p)
    <3>1. CASE job[p] \in Repairs
      BY <2>4, <3>1, ExactEnd DEF ReplaceFails
    <3>2. CASE job[p] \notin Repairs
      BY <2>4, <3>2 DEF ReplaceFails, Goto, Exact
    <3> QED BY <3>1, <3>2
  <2>5. CASE DiscardUnstarted(p) \/ AppendFails(p) \/ SettleRepaired(p) \/ PurgeHistory(p)
    BY <2>5, ExactEnd DEF DiscardUnstarted, AppendFails, SettleRepaired, PurgeHistory
  <2>6. CASE AppendRecord(p) \/ RemovePending(p)
    BY <2>6 DEF AppendRecord, RemovePending, Goto, Exact
  <2> QED BY <1>6, <2>1, <2>2, <2>3, <2>4, <2>5, <2>6 DEF Commit
<1> QED BY <1>1, <1>2, <1>3, <1>4, <1>5, <1>6 DEF StepOf, Proceed

(* Editors that keep away find nobody past "waiting". *)
LEMMA ExactNext ==
  ASSUME EditorRaces = FALSE
  PROVE  TypeInv /\ MutualExclusion /\ ExactInv /\ [Next]_vars => ExactInv'
<1> SUFFICES ASSUME TypeInv, MutualExclusion, ExactInv, [Next]_vars PROVE ExactInv'
  OBVIOUS
<1>1. ASSUME NEW p \in Procs, StepOf(p), NEW q \in Procs, q # p PROVE Exact(q)'
  <2>1. Stands(q)
    BY <1>1, OthersStand
  <2>2. CASE pc[p] \in Critical
    <3>1. pc[q] \in {"idle", "waiting"}
      BY <1>1, <2>2 DEF MutualExclusion, Critical, TypeInv, TypeOK, Steps
    <3> QED BY <2>1, <3>1 DEF Stands, Exact
  <2>3. CASE pc[p] \notin Critical
    <3>1. disk' = disk
      BY <1>1, <2>3, QuietStep
    <3> QED BY <2>1, <3>1 DEF Stands, ExactInv, Exact
  <2> QED BY <2>2, <2>3
<1>2. ASSUME NEW p \in Procs, StepOf(p) PROVE ExactInv'
  BY <1>1, <1>2, ExactStep DEF ExactInv
<1>3. ASSUME NEW path \in Paths, EditOutside(path) PROVE ExactInv'
  <2>1. lock = NoProc /\ pc' = pc
    BY <1>3 DEF EditOutside, local
  <2>2. \A q \in Procs : pc[q] \in {"idle", "waiting"}
    BY <2>1, ConstantsAssumption DEF MutualExclusion, Critical, TypeInv, TypeOK, Steps
  <2> QED BY <2>1, <2>2 DEF ExactInv, Exact
<1>4. CASE UNCHANGED vars
  BY <1>4 DEF vars, durable, local, ExactInv, Exact
<1> QED BY <1>2, <1>3, <1>4 DEF Next, StepOf

LEMMA ExactInvariant ==
  ASSUME EditorRaces = FALSE
  PROVE  Spec => [](TypeInv /\ MutualExclusion /\ WorkInv /\ AuditInv /\ ExactInv)
<1>1. TypeInv /\ MutualExclusion /\ ExactInv /\ [Next]_vars => ExactInv'
  BY ExactNext
<1>2. Spec => [](TypeInv /\ MutualExclusion /\ WorkInv)
  BY RecoveryInvariant, PTL
<1> QED BY <1>1, <1>2, ExactInit, AuditInvariant, PTL DEF Spec

(* Undisturbed by an editor, a transaction replaces exactly the bytes it   *)
(* checked: no write of another process is lost in between.                *)
THEOREM NothingIsClobbered ==
  ASSUME EditorRaces = FALSE
  PROVE  Spec => NoSilentClobber
<1>1. ExactInv => \A p \in Procs :
                    pc[p] = "replace" /\ disk' # disk => disk[rec[p].path] = rec[p].before
  BY DEF ExactInv, Exact
<1> QED BY <1>1, ExactInvariant, PTL DEF NoSilentClobber

-----------------------------------------------------------------------------
(* The refinement.  Each durable step of the transaction is a step of the  *)
(* trail; whatever moves locks, processes or the history is none.          *)
Hidden == UNCHANGED <<disk, pending, log, told, edits>>

LEMMA HiddenStep ==
  ASSUME NEW p \in Procs,
         \/ Begin(p) \/ BeginRepair(p) \/ Acquire(p) \/ Timeout(p) \/ Crash(p)
         \/ CheckAccept(p) \/ CheckRefuse(p) \/ RepairAccept(p) \/ RepairRefuse(p)
         \/ RepairTornTail(p) \/ RecoverRefused(p) \/ RecoverDone(p)
         \/ \E r \in todo[p] : RecoverLanded(p, r) \/ RecoverBlocked(p, r)
         \/ SaveHistory(p) \/ AppendFails(p)
  PROVE  Hidden
BY DEF Hidden, Begin, BeginRepair, Acquire, Timeout, Crash, CheckAccept, CheckRefuse, RepairAccept,
       RepairRefuse, RepairTornTail, RecoverRefused, RecoverDone, RecoverLanded, RecoverBlocked,
       SaveHistory, AppendFails, durable, budget, ghosts

LEMMA WithdrawStep ==
  ASSUME NEW r \in pending, pending' = pending \ {r}, UNCHANGED <<disk, log, told, edits>>,
         Logged(r.id) \/ Resolving(r.id) # {} \/ disk[r.path] # r.after
  PROVE  Trail!Next
<1>1. Trail!Withdraw(r)
  BY DEF Trail!Withdraw, Trail!Recorded, Trail!Superseded, Logged, Resolving
<1> QED BY <1>1 DEF Trail!Next

LEMMA AnswerStep ==
  ASSUME NEW i, Logged(i), told' = told \cup {i}, UNCHANGED <<disk, pending, log, edits>>
  PROVE  Trail!Next
<1>1. PICK n \in DOMAIN log : log[n].id = i
  BY DEF Logged
<1>2. Trail!Answer(log[n].id)
  BY <1>1 DEF Trail!Answer, Trail!Recorded
<1> QED BY <1>2 DEF Trail!Next

LEMMA LandStep ==
  ASSUME AuditInv, ExactInv, NEW p \in Procs, pc[p] = "replace", Land(rec[p]),
         UNCHANGED <<pending, log, told, edits>>
  PROVE  Trail!Next
<1>1. rec[p] \in pending /\ ~Logged(rec[p].id)
  BY DEF AuditInv, HandInv, Hand, Unheard
<1>2. disk[rec[p].path] = rec[p].before
  BY DEF ExactInv, Exact
<1>3. Trail!LandIntent(rec[p])
  BY <1>1, <1>2 DEF Land, Logged, Trail!LandIntent, Trail!Recorded
<1> QED BY <1>1, <1>3 DEF Trail!Next

LEMMA RecoverTrail ==
  ASSUME TypeInv, WorkInv, NEW p \in Procs, Recover(p)
  PROVE  Trail!Next \/ Hidden
<1>1. ASSUME NEW r \in todo[p], RecoverFinished(p, r) PROVE Trail!Next
  <2>1. r \in pending
    BY <1>1 DEF RecoverFinished, ScanNext, WorkInv, Work
  <2>2. Logged(r.id) \/ Resolving(r.id) # {} \/ disk[r.path] # r.after
    BY <1>1 DEF RecoverFinished, Finished, Resolved
  <2>3. pending' = pending \ {r} /\ UNCHANGED <<disk, log, told, edits>>
    BY <1>1 DEF RecoverFinished, budget, ghosts
  <2> QED BY <2>1, <2>2, <2>3, WithdrawStep
<1> QED BY <1>1, HiddenStep DEF Recover

LEMMA CommitTrail ==
  ASSUME TypeInv, AuditInv, ExactInv, WorkInv, NEW p \in Procs, Commit(p)
  PROVE  Trail!Next \/ Hidden
<1> USE DEF AuditInv
<1>1. CASE SaveHistory(p) \/ AppendFails(p)
  BY <1>1, HiddenStep
<1>2. CASE WritePending(p)
  <2>1. pc[p] = "declare" /\ pending' = pending \cup {rec[p]} /\ UNCHANGED <<disk, log, told, edits>>
    BY <1>2 DEF WritePending, budget, ghosts
  <2>2. Unheard(rec[p].id) /\ \A r \in pending : r.id # rec[p].id
    BY <2>1 DEF HandInv, Hand
  <2>3. rec[p].before = disk[rec[p].path]
    BY <2>1 DEF ExactInv, Exact
  <2>4. Trail!Declare(rec[p])
    BY <2>1, <2>2, <2>3
       DEF Trail!Declare, Trail!Recorded, Trail!Superseded, Unheard, Logged, Resolving
  <2> QED BY <2>1, <2>4 DEF Trail!Next
<1>3. CASE ReplaceNote(p)
  BY <1>3, LandStep DEF ReplaceNote, budget
<1>4. CASE ReplaceFails(p)
  <2>1. pc[p] = "replace" /\ UNCHANGED <<pending, log, told, edits>>
    BY <1>4 DEF ReplaceFails
  <2>2. CASE Land(rec[p])
    BY <2>1, <2>2, LandStep
  <2>3. CASE UNCHANGED <<disk, origin>>
    BY <2>1, <2>3 DEF Hidden
  <2> QED BY <1>4, <2>2, <2>3 DEF ReplaceFails
<1>5. CASE DiscardUnstarted(p)
  <2>1. rec[p] \in pending /\ UNCHANGED <<disk, log, told, edits>>
    BY <1>5 DEF DiscardUnstarted, HandInv, Hand, budget, ghosts
  <2>2. CASE disk[rec[p].path] = rec[p].after
    BY <1>5, <2>1, <2>2 DEF DiscardUnstarted, Hidden
  <2>3. CASE disk[rec[p].path] # rec[p].after
    BY <1>5, <2>1, <2>3, WithdrawStep DEF DiscardUnstarted
  <2> QED BY <2>2, <2>3
<1>6. CASE AppendRecord(p)
  <2>1. pc[p] = "append" /\ log' = Append(log, rec[p]) /\ UNCHANGED <<disk, pending, told, edits>>
    BY <1>6 DEF AppendRecord, budget, ghosts
  <2>2. rec[p] \in pending /\ ~Logged(rec[p].id) /\ Resolving(rec[p].id) = {}
    BY <2>1 DEF HandInv, Hand
  <2>3. disk[rec[p].path] = rec[p].after
    BY <2>1 DEF ExactInv, Exact
  <2>4. Trail!Record(rec[p])
    BY <2>1, <2>2, <2>3 DEF Trail!Record, Trail!Recorded, Trail!Superseded, Logged, Resolving
  <2> QED BY <2>2, <2>4 DEF Trail!Next
<1>7. CASE RemovePending(p)
  <2>1. pending' = pending \ {rec[p]} /\ UNCHANGED <<disk, log, told, edits>>
    BY <1>7 DEF RemovePending, budget, ghosts
  <2>2. Logged(rec[p].id)
    BY <1>7 DEF RemovePending, HandInv, Hand, Logged
  <2>3. CASE rec[p] \in pending
    BY <2>1, <2>2, <2>3, WithdrawStep
  <2>4. CASE rec[p] \notin pending
    BY <2>1, <2>4 DEF Hidden
  <2> QED BY <2>3, <2>4
<1>8. CASE SettleRepaired(p)
  <2>1. /\ pending' = {r \in pending : r.id # rec[p].resolves}
        /\ told' = told \cup {rec[p].id} /\ UNCHANGED <<disk, log, edits>>
    BY <1>8 DEF SettleRepaired, budget
  <2>2. PICK n \in DOMAIN log : log[n] = rec[p]
    BY <1>8 DEF SettleRepaired, HandInv, Hand
  <2>3. CASE \A r \in pending : r.id # rec[p].resolves
    <3>1. pending' = pending
      BY <2>1, <2>3
    <3> QED BY <2>1, <2>2, <3>1, AnswerStep DEF Logged
  <2>4. ASSUME NEW r \in pending, r.id = rec[p].resolves PROVE Trail!Next
    <3>1. pending' = pending \ {r}
      BY <2>1, <2>4 DEF Global, IdsInv
    <3>2. Trail!Settle(r, log[n].id)
      BY <2>1, <2>2, <2>4, <3>1 DEF Trail!Settle, Trail!Superseded, Trail!Recorded
    <3> QED BY <3>2 DEF Trail!Next
  <2> QED BY <2>3, <2>4
<1>9. CASE PurgeHistory(p)
  <2>1. UNCHANGED <<disk, pending, log, edits>>
    BY <1>9 DEF PurgeHistory, budget
  <2>2. CASE job[p] = Sweep
    BY <1>9, <2>1, <2>2 DEF PurgeHistory, Hidden
  <2>3. CASE job[p] # Sweep
    <3>1. Logged(rec[p].id)
      BY <1>9, <2>3 DEF PurgeHistory, HandInv, Hand
    <3> QED BY <1>9, <2>1, <2>3, <3>1, AnswerStep DEF PurgeHistory
  <2> QED BY <2>2, <2>3
<1> QED BY <1>1, <1>2, <1>3, <1>4, <1>5, <1>6, <1>7, <1>8, <1>9 DEF Commit

LEMMA TrailNext ==
  TypeInv /\ WorkInv /\ AuditInv /\ ExactInv /\ [Next]_vars => [Trail!Next]_(Trail!trail)
<1> SUFFICES ASSUME TypeInv, WorkInv, AuditInv, ExactInv, [Next]_vars PROVE Trail!Next \/ Hidden
  BY DEF Hidden, Trail!trail
<1>1. ASSUME NEW p \in Procs, CheckReplay(p) PROVE Trail!Next
  <2>1. PICK n \in DOMAIN log : told' = told \cup {log[n].id}
    BY <1>1 DEF CheckReplay
  <2>2. UNCHANGED <<disk, pending, log, edits>>
    BY <1>1 DEF CheckReplay, durable, budget
  <2> QED BY <2>1, <2>2, AnswerStep DEF Logged
<1>2. ASSUME NEW p \in Procs, StepOf(p) PROVE Trail!Next \/ Hidden
  BY <1>1, <1>2, HiddenStep, RecoverTrail, CommitTrail DEF StepOf, Proceed
<1>3. ASSUME NEW path \in Paths, EditOutside(path) PROVE Trail!Next
  <2>1. Trail!Edit(path)
    BY <1>3 DEF EditOutside, Trail!Edit
  <2> QED BY <2>1 DEF Trail!Next
<1>4. CASE UNCHANGED vars
  BY <1>4 DEF vars, durable, budget, ghosts, Hidden
<1> QED BY <1>2, <1>3, <1>4 DEF Next, StepOf

(* The transaction is a write-ahead journal: behind locks, processes,      *)
(* recovery and deaths, an operation is declared on the bytes its note     *)
(* has, changes it from exactly those, is recorded once while the note     *)
(* holds its bytes, and is withdrawn without a record only if it does not. *)
THEOREM TransactionIsATrail ==
  ASSUME EditorRaces = FALSE
  PROVE  Spec => ImplementsAuditTrail
<1>1. Init => Trail!Init
  BY DEF Init, Trail!Init
<1> QED BY <1>1, TrailNext, ExactInvariant, PTL DEF Spec, ImplementsAuditTrail, Trail!Spec

-----------------------------------------------------------------------------
(* At most once.  A declared call that has no record yet may be journaled  *)
(* after every record there is: since it was checked, only repairs were    *)
(* recorded, because no other call starts while its manifest is there.     *)
Asks(m, r) ==
  log[m].call # NoCall /\ r.call # NoCall /\ log[m].call.key = r.call.key /\ Keyed(r.call)

MayCommit(r) ==
  \A m \in DOMAIN log : Asks(m, r) =>
    /\ log[m].call = r.call
    /\ r.call.expected # NoHash
    /\ r.before = r.call.expected
    /\ (\A k \in m+1..Len(log) : log[k].call # r.call) => r.before # log[m].after

(* The records of a key have a last one.                                   *)
LastExists == \A k : NamingKey(k) # {} => \E n \in NamingKey(k) : IsLast(n, NamingKey(k))

OneCall ==
  /\ \A r \in pending : r.call # NoCall /\ ~Logged(r.id) => MayCommit(r)
  /\ \A r, s \in pending : r.call # NoCall /\ s.call # NoCall => r = s

OnceHand(p) ==
  pc[p] \in {"save", "declare"} /\ rec[p].call # NoCall => pending = {} /\ MayCommit(rec[p])

OnceInv ==
  /\ RetryNeverRepeats /\ LastExists /\ OneCall
  /\ \A p \in Procs : OnceHand(p)

LEMMA OnceInit == Init => OnceInv
BY DEF Init, OnceInv, RetryNeverRepeats, LastExists, NamingKey, OneCall, OnceHand

LEMMA OnceEnd ==
  ASSUME TypeInv, NEW p \in Procs, End(p)
  PROVE  OnceHand(p)'
BY DEF TypeInv, TypeOK, End, OnceHand

LEMMA JournalStill ==
  ASSUME OnceInv, log' = log
  PROVE  RetryNeverRepeats' /\ LastExists'
BY DEF OnceInv, RetryNeverRepeats, LastExists, NamingKey

(* Steps that add neither record nor manifest. *)
LEMMA OnceStill ==
  ASSUME OnceInv, log' = log, pending' \subseteq pending
  PROVE  RetryNeverRepeats' /\ LastExists' /\ OneCall'
<1>1. \A r : Logged(r.id)' <=> Logged(r.id)
  BY DEF Logged
<1>2. \A r : MayCommit(r)' <=> MayCommit(r)
  BY DEF MayCommit, Asks
<1>3. OneCall'
  BY <1>1, <1>2 DEF OnceInv, OneCall
<1> QED BY <1>3, JournalStill

(* What the check of a request found out about the journal. *)
LEMMA AcceptedMayCommit ==
  ASSUME TypeInv, OnceInv, NEW r, r.call \in Calls, r.before = disk[r.call.path],
         Accepted(r.call), \A n \in DOMAIN log : ~Replayed(r.call, n)
  PROVE  MayCommit(r)
<1> DEFINE c == r.call
<1>1. SUFFICES ASSUME NEW m \in DOMAIN log, Asks(m, r)
               PROVE  /\ log[m].call = c /\ c.expected # NoHash /\ r.before = c.expected
                      /\ (\A k \in m+1..Len(log) : log[k].call # c) => r.before # log[m].after
  BY DEF MayCommit
<1>2. Keyed(c) /\ m \in NamingKey(c.key)
  BY <1>1 DEF Asks, NamingKey
<1>3. PICK n \in NamingKey(c.key) : IsLast(n, NamingKey(c.key))
  BY <1>2 DEF OnceInv, LastExists
<1>4. n \in DOMAIN log /\ log[n].call # NoCall /\ log[n].call.key = c.key /\ m <= n
  BY <1>2, <1>3 DEF NamingKey, IsLast
<1>5. Receipt(c, n)
  BY <1>2, <1>3 DEF Receipt
<1>6. log[n].call = c /\ (disk[c.path] # log[n].after => c.expected # NoHash)
  BY <1>4, <1>5 DEF Accepted, Conflicting
<1>7. disk[c.path] # log[n].after
  BY <1>4, <1>5, <1>6 DEF Replayed
<1>8. c.expected # NoHash /\ r.before = c.expected
  BY <1>6, <1>7 DEF Accepted
<1>9. DOMAIN log = 1..Len(log) /\ Len(log) \in Nat
  BY DEF TypeInv, TypeOK
<1>10. CASE m = n
  BY <1>6, <1>7, <1>8, <1>10
<1>11. CASE m # n
  <2>1. m < n
    BY <1>4, <1>9, <1>11
  <2>2. log[m].call = c
    BY <1>1, <1>2, <1>4, <1>6, <2>1 DEF Asks, OnceInv, RetryNeverRepeats
  <2>3. n \in m+1..Len(log)
    BY <1>4, <1>9, <2>1
  <2> QED BY <1>6, <1>8, <2>2, <2>3
<1> QED BY <1>10, <1>11

LEMMA OnceAppend ==
  ASSUME TypeInv, AuditInv, OnceInv, NEW p \in Procs, AppendRecord(p)
  PROVE  RetryNeverRepeats' /\ LastExists' /\ OneCall'
<1> DEFINE r == rec[p]
           last == Len(log) + 1
<1>1. pc[p] = "append" /\ log' = Append(log, r) /\ pending' = pending
  BY DEF AppendRecord
<1>2. r \in Records /\ r \in pending /\ ~Logged(r.id)
  BY <1>1 DEF TypeInv, StepTypes, Holding, AuditInv, HandInv, Hand
<1> HIDE DEF r
<1>3. log \in Seq(Records)
  BY DEF TypeInv, TypeOK
<1>4. /\ DOMAIN log = 1..Len(log) /\ Len(log) \in Nat
      /\ DOMAIN log' = 1..last /\ Len(log') = last /\ log'[last] = r
      /\ \A n \in DOMAIN log : log'[n] = log[n]
  BY <1>1, <1>2, <1>3
<1>5. r.call # NoCall => MayCommit(r)
  BY <1>2 DEF OnceInv, OneCall
<1>6. RetryNeverRepeats'
  <2>1. ASSUME NEW m \in DOMAIN log', NEW n \in DOMAIN log', m < n,
               log'[m].call # NoCall, log'[n].call # NoCall,
               log'[m].call.key = log'[n].call.key, Keyed(log'[n].call)
        PROVE  /\ log'[m].call = log'[n].call
               /\ log'[n].call.expected # NoHash
               /\ log'[n].before = log'[n].call.expected
               /\ (\A k \in m+1..n-1 : log'[k].call # log'[n].call) => log'[n].before # log'[m].after
    <3>1. m \in DOMAIN log /\ log'[m] = log[m]
      BY <1>4, <2>1
    <3>2. CASE n = last
      <4>1. Asks(m, r) /\ r.call # NoCall
        BY <1>4, <2>1, <3>1, <3>2 DEF Asks
      <4>2. n - 1 = Len(log) /\ \A k \in m+1..Len(log) : log'[k] = log[k]
        BY <1>4, <3>1, <3>2
      <4> QED BY <1>4, <1>5, <3>1, <3>2, <4>1, <4>2 DEF MayCommit
    <3>3. CASE n # last
      <4>1. n \in DOMAIN log /\ log'[n] = log[n] /\ \A k \in m+1..n-1 : log'[k] = log[k]
        BY <1>4, <3>1, <3>3
      <4> QED BY <2>1, <3>1, <4>1 DEF OnceInv, RetryNeverRepeats
    <3> QED BY <3>2, <3>3
  <2> QED BY <2>1 DEF RetryNeverRepeats, Keyed
<1>7. LastExists'
  <2>1. SUFFICES ASSUME NEW k, NamingKey(k)' # {}
                 PROVE  \E n \in NamingKey(k)' : IsLast(n, NamingKey(k)')
    BY DEF LastExists, IsLast
  <2>2. CASE r.call # NoCall /\ r.call.key = k
    <3>1. last \in NamingKey(k)' /\ \A n \in NamingKey(k)' : n <= last
      BY <1>4, <2>2 DEF NamingKey
    <3> QED BY <3>1 DEF IsLast
  <2>3. CASE ~(r.call # NoCall /\ r.call.key = k)
    <3>1. NamingKey(k)' = NamingKey(k)
      BY <1>4, <2>3 DEF NamingKey
    <3> QED BY <2>1, <3>1 DEF OnceInv, LastExists
  <2> QED BY <2>2, <2>3
<1>8. OneCall'
  <2>1. ASSUME NEW s \in pending, s.call # NoCall, ~Logged(s.id)' PROVE MayCommit(s)'
    <3>1. ~Logged(s.id) /\ s # r
      BY <1>4, <2>1 DEF Logged
    <3>2. r.call = NoCall
      BY <1>2, <2>1, <3>1 DEF OnceInv, OneCall
    <3>3. MayCommit(s)
      BY <2>1, <3>1 DEF OnceInv, OneCall
    <3>4. ASSUME NEW m \in DOMAIN log', Asks(m, s)'
          PROVE  /\ log'[m].call = s.call
                 /\ s.call.expected # NoHash
                 /\ s.before = s.call.expected
                 /\ (\A k \in m+1..Len(log') : log'[k].call # s.call) => s.before # log'[m].after
      <4>1. m \in DOMAIN log /\ log'[m] = log[m]
        BY <1>4, <3>2, <3>4 DEF Asks
      <4>2. Asks(m, s)
        BY <3>4, <4>1 DEF Asks
      <4>3. \A k \in m+1..Len(log) : k \in m+1..Len(log') /\ log'[k] = log[k]
        BY <1>4, <4>1
      <4> QED BY <3>3, <4>1, <4>2, <4>3 DEF MayCommit
    <3> QED BY <3>4 DEF MayCommit
  <2> QED BY <1>1, <2>1 DEF OnceInv, OneCall
<1> QED BY <1>6, <1>7, <1>8

LEMMA OnceStep ==
  ASSUME TypeInv, WorkInv, AuditInv, OnceInv, NEW p \in Procs, StepOf(p)
  PROVE  RetryNeverRepeats' /\ LastExists' /\ OneCall' /\ OnceHand(p)'
<1> DEFINE Kept == RetryNeverRepeats' /\ LastExists' /\ OneCall'
<1> USE DEF TypeInv, TypeOK
<1>1. CASE Begin(p) \/ BeginRepair(p) \/ Acquire(p)
  <2>1. Kept
    BY <1>1, OnceStill DEF Begin, BeginRepair, Acquire, durable
  <2> QED BY <1>1, <2>1 DEF Begin, BeginRepair, Acquire, Goto, OnceHand
<1>2. CASE Timeout(p) \/ CheckReplay(p) \/ CheckRefuse(p) \/ RepairRefuse(p) \/ Crash(p)
  BY <1>2, OnceStill, OnceEnd DEF Timeout, CheckReplay, CheckRefuse, RepairRefuse, Crash, durable
<1>3. CASE Recover(p)
  <2>1. log' = log /\ pending' \subseteq pending
    BY <1>3 DEF Recover, RepairTornTail, RecoverFinished, RecoverLanded, RecoverBlocked,
                RecoverRefused, RecoverDone, durable
  <2>2. pc'[p] \notin {"save", "declare"}
    BY <1>3 DEF Recover, RepairTornTail, RecoverFinished, RecoverLanded, RecoverBlocked,
                RecoverRefused, RecoverDone, ScanNext, Goto, End
  <2> QED BY <2>1, <2>2, OnceStill DEF OnceHand
<1>4. CASE CheckAccept(p)
  <2>1. log' = log /\ pending' = pending /\ pending = {}
    BY <1>4 DEF CheckAccept, durable, WorkInv, Work
  <2>2. /\ job[p] \in Calls /\ rec'[p].call = job[p] /\ rec'[p].before = disk[job[p].path]
        /\ Accepted(job[p]) /\ \A n \in DOMAIN log : ~Replayed(job[p], n)
    BY <1>4 DEF CheckAccept, StepTypes
  <2>3. MayCommit(rec'[p])
    BY <2>2, AcceptedMayCommit
  <2>4. OnceHand(p)'
    BY <2>1, <2>3 DEF OnceHand, MayCommit, Asks
  <2> QED BY <2>1, <2>4, OnceStill
<1>5. CASE RepairAccept(p)
  <2>1. log' = log /\ pending' = pending /\ rec'[p].call = NoCall
    BY <1>5 DEF RepairAccept, durable
  <2> QED BY <2>1, OnceStill DEF OnceHand
<1>6. CASE Commit(p)
  <2>1. CASE SaveHistory(p)
    <3>1. /\ pc[p] = "save" /\ rec'[p] = rec[p] /\ log' = log /\ pending' = pending
      BY <2>1 DEF SaveHistory
    <3> HIDE DEF TypeInv, TypeOK
    <3>2. OnceHand(p)'
      <4>1. rec[p].call # NoCall => pending = {} /\ MayCommit(rec[p])
        BY <3>1 DEF OnceInv, OnceHand
      <4>2. MayCommit(rec[p]) => MayCommit(rec[p])'
        BY <3>1 DEF MayCommit, Asks
      <4> QED BY <3>1, <4>1, <4>2 DEF OnceHand
    <3> QED BY <3>1, <3>2, OnceStill
  <2>2. CASE WritePending(p)
    <3>1. /\ pc[p] = "declare" /\ log' = log /\ pending' = pending \cup {rec[p]}
          /\ pc'[p] \notin {"save", "declare"}
      BY <2>2 DEF WritePending, Goto
    <3>2. rec[p].call # NoCall => pending = {} /\ MayCommit(rec[p])
      BY <3>1 DEF OnceInv, OnceHand
    <3>3. OneCall'
      <4>1. \A r : MayCommit(r) => MayCommit(r)'
        BY <3>1 DEF MayCommit, Asks
      <4>2. \A r : ~Logged(r.id)' => ~Logged(r.id)
        BY <3>1 DEF Logged
      <4>3. OneCall
        BY DEF OnceInv
      <4> HIDE DEF TypeInv, TypeOK
      <4> QED BY <3>1, <3>2, <4>1, <4>2, <4>3 DEF OneCall
    <3>4. RetryNeverRepeats' /\ LastExists'
      BY <3>1, JournalStill
    <3> QED BY <3>1, <3>3, <3>4 DEF OnceHand
  <2>3. CASE AppendRecord(p)
    BY <2>3, OnceAppend DEF AppendRecord, Goto, OnceHand
  <2>4. CASE DiscardUnstarted(p) \/ AppendFails(p) \/ SettleRepaired(p) \/ PurgeHistory(p)
    <3>1. log' = log /\ pending' \subseteq pending /\ End(p)
      BY <2>4 DEF DiscardUnstarted, AppendFails, SettleRepaired, PurgeHistory
    <3> QED BY <3>1, OnceStill, OnceEnd
  <2>5. CASE ReplaceNote(p) \/ ReplaceFails(p) \/ RemovePending(p)
    <3>1. log' = log /\ pending' \subseteq pending
      BY <2>5 DEF ReplaceNote, ReplaceFails, RemovePending
    <3>2. pc'[p] \notin {"save", "declare"}
      BY <2>5 DEF ReplaceNote, ReplaceFails, RemovePending, Goto, End
    <3> QED BY <3>1, <3>2, OnceStill DEF OnceHand
  <2> QED BY <1>6, <2>1, <2>2, <2>3, <2>4, <2>5 DEF Commit
<1> QED BY <1>1, <1>2, <1>3, <1>4, <1>5, <1>6 DEF StepOf, Proceed

LEMMA OnceNext ==
  TypeInv /\ MutualExclusion /\ WorkInv /\ AuditInv /\ OnceInv /\ [Next]_vars => OnceInv'
<1> SUFFICES ASSUME TypeInv, MutualExclusion, WorkInv, AuditInv, OnceInv, [Next]_vars PROVE OnceInv'
  OBVIOUS
<1>1. ASSUME NEW p \in Procs, StepOf(p), NEW q \in Procs, q # p PROVE OnceHand(q)'
  <2>1. Stands(q)
    BY <1>1, OthersStand
  <2>2. CASE pc[p] \in Critical
    <3>1. pc[q] \in {"idle", "waiting"}
      BY <1>1, <2>2 DEF MutualExclusion, Critical, TypeInv, TypeOK, Steps
    <3> QED BY <2>1, <3>1 DEF Stands, OnceHand
  <2>3. CASE pc[p] \notin Critical
    <3>1. log' = log /\ pending' = pending
      BY <1>1, <2>3, QuietStep
    <3> QED BY <2>1, <3>1 DEF Stands, OnceInv, OnceHand, MayCommit, Asks
  <2> QED BY <2>2, <2>3
<1>2. ASSUME NEW p \in Procs, StepOf(p) PROVE OnceInv'
  BY <1>1, <1>2, OnceStep DEF OnceInv
<1>3. CASE (\E path \in Paths : EditOutside(path)) \/ UNCHANGED vars
  <2>1. UNCHANGED <<log, pending, pc, rec>>
    BY <1>3 DEF EditOutside, vars, durable, local
  <2>2. \A q \in Procs : OnceHand(q)'
    BY <2>1 DEF OnceInv, OnceHand, MayCommit, Asks
  <2> QED BY <2>1, <2>2, OnceStill DEF OnceInv
<1> QED BY <1>2, <1>3 DEF Next, StepOf

(* At most once, whatever dies between the answers and the retries: a      *)
(* request key commits again only with the same arguments, an exact        *)
(* expected_hash, and a note that was put back to it.                      *)
THEOREM RequestsCommitOnce == Spec => []RetryNeverRepeats
<1>1. OnceInv => RetryNeverRepeats
  BY DEF OnceInv
<1>2. Spec => [](TypeInv /\ MutualExclusion /\ WorkInv)
  BY RecoveryInvariant, PTL
<1>3. Spec => []AuditInv
  BY AuditInvariant, PTL
<1> QED BY <1>1, <1>2, <1>3, OnceInit, OnceNext, PTL DEF Spec

-----------------------------------------------------------------------------
(* The baseline.  A declared call without a record still fits the journal: *)
(* it starts from what the latest record for its note left.  The repairs   *)
(* recorded before it were declared after it.                              *)
Fits(r) ==
  r.call.expected = NoHash /\ r.before # Absent =>
    \A m \in DOMAIN log :
      (log[m].path = r.path /\ log[m].id < r.id /\ \A k \in m+1..Len(log) : log[k].path # r.path)
        => r.before = log[m].after

OrdinaryFits ==
  /\ \A r, s \in pending : r.resolves = 0 /\ s.resolves = 0 => r = s
  /\ \A r \in pending : r.resolves = 0 /\ ~Logged(r.id) =>
       Fits(r) /\ \A s \in pending : s.resolves # 0 => r.id < s.id

BaseHand(p) ==
  pc[p] \in {"save", "declare"} =>
    /\ \A s \in pending : s.id < rec[p].id
    /\ rec[p].resolves = 0 => pending = {} /\ Fits(rec[p])

BaseInv == UnhashedFollowsBaseline /\ OrdinaryFits /\ \A p \in Procs : BaseHand(p)

LEMMA BaseInit == Init => BaseInv
BY DEF Init, BaseInv, UnhashedFollowsBaseline, OrdinaryFits, BaseHand

LEMMA BaseEnd ==
  ASSUME TypeInv, NEW p \in Procs, End(p)
  PROVE  BaseHand(p)'
BY DEF TypeInv, TypeOK, End, BaseHand

LEMMA FitsStill ==
  ASSUME log' = log
  PROVE  /\ \A r : Fits(r) => Fits(r)'
         /\ \A i : Logged(i)' <=> Logged(i)
         /\ UnhashedFollowsBaseline => UnhashedFollowsBaseline'
BY DEF Fits, Logged, UnhashedFollowsBaseline

LEMMA BaseStill ==
  ASSUME BaseInv, log' = log, pending' \subseteq pending
  PROVE  UnhashedFollowsBaseline' /\ OrdinaryFits'
BY FitsStill DEF BaseInv, OrdinaryFits

(* The check of a call without expected_hash compares the note with the    *)
(* latest record, unless the call creates the note.                        *)
LEMMA AcceptedFits ==
  ASSUME TypeInv, NEW r, r.call \in Calls, r.path = r.call.path, r.before = disk[r.path],
         Accepted(r.call)
  PROVE  Fits(r)
<1>1. SUFFICES ASSUME r.call.expected = NoHash, r.before # Absent, NEW m \in DOMAIN log,
                      log[m].path = r.path, \A k \in m+1..Len(log) : log[k].path # r.path
               PROVE  r.before = log[m].after
  BY DEF Fits
<1>2. BaselineHolds(r.path)
  BY <1>1 DEF Accepted, KindAccepts
<1>3. DOMAIN log = 1..Len(log) /\ Len(log) \in Nat
  BY DEF TypeInv, TypeOK
<1>4. IsLast(m, NamingPath(r.path))
  <2>1. ASSUME NEW k \in NamingPath(r.path), ~(k <= m) PROVE FALSE
    <3>1. k \in m+1..Len(log)
      BY <1>3, <2>1 DEF NamingPath
    <3> QED BY <1>1, <2>1, <3>1 DEF NamingPath
  <2> QED BY <1>1, <2>1 DEF IsLast, NamingPath
<1> QED BY <1>2, <1>4 DEF BaselineHolds, IsLast

LEMMA BaseAppend ==
  ASSUME TypeInv, AuditInv, BaseInv, NEW p \in Procs, AppendRecord(p)
  PROVE  UnhashedFollowsBaseline' /\ OrdinaryFits'
<1> DEFINE r == rec[p]
           last == Len(log) + 1
<1>1. pc[p] = "append" /\ log' = Append(log, r) /\ pending' = pending
  BY DEF AppendRecord
<1>2. r \in Records /\ r \in pending /\ ~Logged(r.id) /\ pending \subseteq Records
  BY <1>1 DEF TypeInv, TypeOK, StepTypes, Holding, AuditInv, HandInv, Hand
<1> HIDE DEF r
<1>3. log \in Seq(Records)
  BY DEF TypeInv, TypeOK
<1>4. /\ DOMAIN log = 1..Len(log) /\ Len(log) \in Nat
      /\ DOMAIN log' = 1..last /\ Len(log') = last /\ log'[last] = r
      /\ \A n \in DOMAIN log : log'[n] = log[n]
  BY <1>1, <1>2, <1>3
<1>5. r.resolves = 0 => Fits(r)
  BY <1>2 DEF BaseInv, OrdinaryFits
<1>6. UnhashedFollowsBaseline'
  <2>1. ASSUME NEW n \in DOMAIN log', log'[n].resolves = 0, log'[n].call.expected = NoHash,
               log'[n].before # Absent, NEW m \in DOMAIN log', m < n, log'[m].path = log'[n].path,
               log'[m].id < log'[n].id, \A k \in m+1..n-1 : log'[k].path # log'[n].path
        PROVE  log'[n].before = log'[m].after
    <3>1. m \in DOMAIN log /\ log'[m] = log[m]
      BY <1>4, <2>1
    <3>2. CASE n = last
      <4>1. n - 1 = Len(log) /\ \A k \in m+1..Len(log) : log'[k] = log[k]
        BY <1>4, <3>1, <3>2
      <4> QED BY <1>4, <1>5, <2>1, <3>1, <3>2, <4>1 DEF Fits
    <3>3. CASE n # last
      <4>1. n \in DOMAIN log /\ log'[n] = log[n] /\ \A k \in m+1..n-1 : log'[k] = log[k]
        BY <1>4, <3>1, <3>3
      <4> QED BY <2>1, <3>1, <4>1 DEF BaseInv, UnhashedFollowsBaseline
    <3> QED BY <3>2, <3>3
  <2> QED BY <2>1 DEF UnhashedFollowsBaseline
<1>7. OrdinaryFits'
  <2>1. ASSUME NEW s \in pending, s.resolves = 0, ~Logged(s.id)'
        PROVE  Fits(s)' /\ \A t \in pending : t.resolves # 0 => s.id < t.id
    <3>1. ~Logged(s.id) /\ s # r
      BY <1>4, <2>1 DEF Logged
    <3>2. Fits(s) /\ \A t \in pending : t.resolves # 0 => s.id < t.id
      BY <2>1, <3>1 DEF BaseInv, OrdinaryFits
    <3>3. s.id < r.id /\ s.id \in Nat /\ r.id \in Nat
      BY <1>2, <2>1, <3>1, <3>2 DEF BaseInv, OrdinaryFits, Records
    <3>4. ASSUME NEW m \in DOMAIN log', log'[m].path = s.path, log'[m].id < s.id,
                 \A k \in m+1..Len(log') : log'[k].path # s.path,
                 s.call.expected = NoHash, s.before # Absent
          PROVE  s.before = log'[m].after
      <4>1. m # last
        BY <1>4, <3>3, <3>4
      <4>2. m \in DOMAIN log /\ log'[m] = log[m]
        BY <1>4, <4>1
      <4>3. \A k \in m+1..Len(log) : k \in m+1..Len(log') /\ log'[k] = log[k]
        BY <1>4, <4>2
      <4> QED BY <3>2, <3>4, <4>2, <4>3 DEF Fits
    <3> QED BY <3>2, <3>4 DEF Fits
  <2> QED BY <1>1, <2>1 DEF BaseInv, OrdinaryFits
<1> QED BY <1>6, <1>7

LEMMA BaseStep ==
  ASSUME TypeInv, WorkInv, AuditInv, BaseInv, NEW p \in Procs, StepOf(p)
  PROVE  UnhashedFollowsBaseline' /\ OrdinaryFits' /\ BaseHand(p)'
<1>1. CASE Begin(p) \/ BeginRepair(p) \/ Acquire(p)
  <2>1. log' = log /\ pending' = pending
    BY <1>1 DEF Begin, BeginRepair, Acquire, durable
  <2> QED BY <1>1, <2>1, BaseStill DEF Begin, BeginRepair, Acquire, Goto, BaseHand, TypeInv, TypeOK
<1>2. CASE Timeout(p) \/ CheckReplay(p) \/ CheckRefuse(p) \/ RepairRefuse(p) \/ Crash(p)
  BY <1>2, BaseStill, BaseEnd DEF Timeout, CheckReplay, CheckRefuse, RepairRefuse, Crash, durable
<1>3. CASE Recover(p)
  <2>1. log' = log /\ pending' \subseteq pending
    BY <1>3 DEF Recover, RepairTornTail, RecoverFinished, RecoverLanded, RecoverBlocked,
                RecoverRefused, RecoverDone, durable
  <2>2. pc'[p] \notin {"save", "declare"}
    BY <1>3 DEF Recover, RepairTornTail, RecoverFinished, RecoverLanded, RecoverBlocked,
                RecoverRefused, RecoverDone, ScanNext, Goto, End, TypeInv, TypeOK
  <2> QED BY <2>1, <2>2, BaseStill DEF BaseHand
<1>4. CASE CheckAccept(p)
  <2>1. log' = log /\ pending' = pending /\ pending = {}
    BY <1>4 DEF CheckAccept, durable, WorkInv, Work
  <2>2. /\ job[p] \in Calls /\ rec'[p].call = job[p] /\ rec'[p].path = job[p].path
        /\ rec'[p].before = disk[job[p].path] /\ Accepted(job[p])
    BY <1>4 DEF CheckAccept, TypeInv, TypeOK, StepTypes
  <2>3. Fits(rec'[p])
    BY <2>2, AcceptedFits
  <2>4. BaseHand(p)'
    BY <2>1, <2>3 DEF BaseHand, Fits
  <2> QED BY <2>1, <2>4, BaseStill
<1>5. CASE RepairAccept(p)
  <2>1. log' = log /\ pending' = pending
    BY <1>5 DEF RepairAccept, durable
  <2>2. PICK r \in pending : rec'[p].id = nextId /\ rec'[p].resolves = r.id
    BY <1>5 DEF RepairAccept, TypeInv, TypeOK
  <2>3. r.id # 0 /\ \A s \in pending : s.id < nextId
    BY DEF TypeInv, TypeOK, Records, AuditInv, Global, IdsInv
  <2> QED BY <2>1, <2>2, <2>3, BaseStill DEF BaseHand
<1>6. CASE Commit(p)
  <2>1. CASE SaveHistory(p)
    <3>1. pc[p] = "save" /\ rec'[p] = rec[p] /\ log' = log /\ pending' = pending
      BY <2>1 DEF SaveHistory
    <3>2. BaseHand(p)'
      BY <3>1, FitsStill DEF BaseInv, BaseHand
    <3> QED BY <3>1, <3>2, BaseStill
  <2>2. CASE WritePending(p)
    <3>1. /\ pc[p] = "declare" /\ log' = log /\ pending' = pending \cup {rec[p]}
          /\ pc'[p] \notin {"save", "declare"}
      BY <2>2 DEF WritePending, Goto, TypeInv, TypeOK
    <3>2. /\ \A s \in pending : s.id < rec[p].id
          /\ rec[p].resolves = 0 => pending = {} /\ Fits(rec[p])
      BY <3>1 DEF BaseInv, BaseHand
    <3>3. OrdinaryFits
      BY DEF BaseInv
    <3>4. OrdinaryFits'
      BY <3>1, <3>2, <3>3, FitsStill DEF OrdinaryFits
    <3> QED BY <3>1, <3>4, FitsStill DEF BaseHand, BaseInv
  <2>3. CASE AppendRecord(p)
    BY <2>3, BaseAppend DEF AppendRecord, Goto, BaseHand, TypeInv, TypeOK
  <2>4. CASE DiscardUnstarted(p) \/ AppendFails(p) \/ SettleRepaired(p) \/ PurgeHistory(p)
    <3>1. log' = log /\ pending' \subseteq pending /\ End(p)
      BY <2>4 DEF DiscardUnstarted, AppendFails, SettleRepaired, PurgeHistory
    <3> QED BY <3>1, BaseStill, BaseEnd
  <2>5. CASE ReplaceNote(p) \/ ReplaceFails(p) \/ RemovePending(p)
    <3>1. log' = log /\ pending' \subseteq pending
      BY <2>5 DEF ReplaceNote, ReplaceFails, RemovePending
    <3>2. pc'[p] \notin {"save", "declare"}
      BY <2>5 DEF ReplaceNote, ReplaceFails, RemovePending, Goto, End, TypeInv, TypeOK
    <3> QED BY <3>1, <3>2, BaseStill DEF BaseHand
  <2> QED BY <1>6, <2>1, <2>2, <2>3, <2>4, <2>5 DEF Commit
<1> QED BY <1>1, <1>2, <1>3, <1>4, <1>5, <1>6 DEF StepOf, Proceed

LEMMA BaseNext ==
  TypeInv /\ MutualExclusion /\ WorkInv /\ AuditInv /\ BaseInv /\ [Next]_vars => BaseInv'
<1> SUFFICES ASSUME TypeInv, MutualExclusion, WorkInv, AuditInv, BaseInv, [Next]_vars PROVE BaseInv'
  OBVIOUS
<1>1. ASSUME NEW p \in Procs, StepOf(p), NEW q \in Procs, q # p PROVE BaseHand(q)'
  <2>1. Stands(q)
    BY <1>1, OthersStand
  <2>2. CASE pc[p] \in Critical
    <3>1. pc[q] \in {"idle", "waiting"}
      BY <1>1, <2>2 DEF MutualExclusion, Critical, TypeInv, TypeOK, Steps
    <3> QED BY <2>1, <3>1 DEF Stands, BaseHand
  <2>3. CASE pc[p] \notin Critical
    <3>1. log' = log /\ pending' = pending
      BY <1>1, <2>3, QuietStep
    <3> QED BY <2>1, <3>1, FitsStill DEF Stands, BaseInv, BaseHand
  <2> QED BY <2>2, <2>3
<1>2. ASSUME NEW p \in Procs, StepOf(p) PROVE BaseInv'
  BY <1>1, <1>2, BaseStep DEF BaseInv
<1>3. CASE (\E path \in Paths : EditOutside(path)) \/ UNCHANGED vars
  <2>1. UNCHANGED <<log, pending, pc, rec>>
    BY <1>3 DEF EditOutside, vars, durable, local
  <2>2. \A q \in Procs : BaseHand(q)'
    BY <2>1, FitsStill DEF BaseInv, BaseHand
  <2> QED BY <2>1, <2>2, BaseStill DEF BaseInv
<1> QED BY <1>2, <1>3 DEF Next, StepOf

(* Without expected_hash a call builds on what the record before it left,  *)
(* whatever was edited, repaired or recovered in between.                  *)
THEOREM CallsBuildOnTheBaseline == Spec => []UnhashedFollowsBaseline
<1>1. BaseInv => UnhashedFollowsBaseline
  BY DEF BaseInv
<1>2. Spec => [](TypeInv /\ MutualExclusion /\ WorkInv)
  BY RecoveryInvariant, PTL
<1>3. Spec => []AuditInv
  BY AuditInvariant, PTL
<1> QED BY <1>1, <1>2, <1>3, BaseInit, BaseNext, PTL DEF Spec
================================================================================
