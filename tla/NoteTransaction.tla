---------------------------- MODULE NoteTransaction ----------------------------
(***************************************************************************)
(* The journaled note transaction of a Datacron vault                      *)
(* (core/vault_writer.py, core/operation_log.py, core/durability.py).      *)
(*                                                                         *)
(* Any number of processes (MCP servers, the Companion, the CLI) share one *)
(* vault.  A mutating call takes the advisory lock "mutation", finishes or *)
(* refuses what earlier calls left behind, checks its request against the  *)
(* journal and the note, and then makes five durable steps: the prior      *)
(* bytes go to the history, a pending manifest declares the operation, the *)
(* note is replaced, the journal gets the record, the manifest goes away.  *)
(* A process can die between any two steps, and an editor that knows       *)
(* nothing of the lock can change or delete a note.                        *)
(*                                                                         *)
(* A content stands for the bytes of a note and for their SHA-256 alike.   *)
(***************************************************************************)
EXTENDS Naturals, Sequences, FiniteSets

CONSTANTS
  Procs,        \* processes that can hold the mutation lock
  Paths,        \* notes, by vault-relative path
  Contents,     \* the byte contents a note can have
  Keys,         \* hashes of client request ids
  Calls,        \* the mutating calls clients make, see CallsAssumption
  Absent,       \* what is read where there is no file
  NoHash,       \* a call without expected_hash
  NoKey,        \* a call without request_id
  NoCall,       \* the call of a repair record
  NoProc,       \* holder of a free lock
  NoJob, NoRec, \* an idle process has neither
  MaxOps,       \* bound: operation ids handed out
  MaxFaults,    \* bound: deaths and I/O errors
  MaxEdits,     \* bound: edits made outside Datacron
  EditorRaces   \* may an edit fall between the steps of a transaction?

CallKinds == {"create", "overwrite", "mutate", "revert"}
RepairKinds == {"restore-before", "adopt-disk"}

ASSUME CallsAssumption ==
  Calls \subseteq [kind : CallKinds, path : Paths, key : Keys \cup {NoKey},
                   expected : Contents \cup {NoHash}, arg : Contents]

ASSUME ConstantsAssumption ==
  /\ Absent \notin Contents
  /\ NoHash \notin Contents
  /\ NoKey \notin Keys
  /\ NoCall \notin Calls
  /\ NoProc \notin Procs
  /\ MaxOps \in Nat
  /\ MaxFaults \in Nat
  /\ MaxEdits \in Nat
  /\ EditorRaces \in BOOLEAN

Bytes == Contents \cup {Absent}

(* What the journal and the pending manifests hold.  "call" is the request *)
(* fingerprint with its key; "resolves" is the resolves_operation_id of a  *)
(* repair, 0 for an ordinary operation.                                    *)
Records == [id : Nat \ {0}, path : Paths, before : Bytes, after : Contents,
            call : Calls \cup {NoCall}, resolves : Nat]

Repairs == [kind : RepairKinds, target : Nat \ {0}, expected : Contents]

(* recover_operations at startup and purge_history: recovery, then retention. *)
Sweep == [kind |-> "sweep"]

ASSUME JobsAssumption ==
  /\ NoJob \notin Calls \cup Repairs \cup {Sweep}
  /\ NoRec \notin Records

VARIABLES
  disk,     \* the notes
  log,      \* the records of operations.jsonl, oldest first
  tail,     \* how operations.jsonl ends, see TypeOK
  pending,  \* the manifests under oplog/pending
  history,  \* the blobs under oplog/history
  lock,     \* holder of the advisory lock "mutation"
  pc,       \* the step each process takes next
  job,      \* what each process was asked
  rec,      \* the operation a process is committing
  todo,     \* manifests the running recovery has still to look at
  hit,      \* did the running recovery meet a blocked operation?
  nextId,   \* the next operation id (uuid4 in the code)
  faults,   \* deaths and I/O errors so far
  edits,    \* external edits so far
  origin,   \* ghost: the operation whose bytes a note holds, 0 if none
  told      \* ghost: operations a caller was told are committed

durable == <<disk, log, tail, pending, history>>
local == <<pc, job, rec, todo, hit>>
budget == <<nextId, faults, edits>>
ghosts == <<origin, told>>
vars == <<durable, lock, local, budget, ghosts>>

Steps == {"idle", "waiting", "torn", "scan", "check", "repair", "save", "declare",
          "replace", "inspect", "append", "forget", "settle", "sweep"}

(* Steps of a process that holds the mutation lock. *)
Critical == Steps \ {"idle", "waiting"}

(* Steps at which the process also holds the advisory lock "oplog". *)
Journaling == {"save", "declare", "replace", "inspect", "append", "forget", "settle", "sweep"}

(* "torn": the file ends in a fragment that is not JSON.  "unterminated":  *)
(* it ends in a whole record that lost its newline.                        *)
TypeOK ==
  /\ disk \in [Paths -> Bytes]
  /\ log \in Seq(Records)
  /\ tail \in {"clean", "torn", "unterminated"}
  /\ pending \subseteq Records
  /\ history \subseteq Contents
  /\ lock \in Procs \cup {NoProc}
  /\ pc \in [Procs -> Steps]
  /\ job \in [Procs -> Calls \cup Repairs \cup {Sweep, NoJob}]
  /\ rec \in [Procs -> Records \cup {NoRec}]
  /\ todo \in [Procs -> SUBSET Records]
  /\ hit \in [Procs -> BOOLEAN]
  /\ nextId \in Nat \ {0}
  /\ faults \in Nat
  /\ edits \in Nat
  /\ origin \in [Paths -> Nat]
  /\ told \subseteq Nat

Init ==
  /\ disk \in [Paths -> Bytes]
  /\ log = <<>>
  /\ tail = "clean"
  /\ pending = {}
  /\ history = {}
  /\ lock = NoProc
  /\ pc = [p \in Procs |-> "idle"]
  /\ job = [p \in Procs |-> NoJob]
  /\ rec = [p \in Procs |-> NoRec]
  /\ todo = [p \in Procs |-> {}]
  /\ hit = [p \in Procs |-> FALSE]
  /\ nextId = 1
  /\ faults = 0
  /\ edits = 0
  /\ origin = [path \in Paths |-> 0]
  /\ told = {}

-----------------------------------------------------------------------------
(* Reading the journal. *)

LogIds == {log[n].id : n \in DOMAIN log}
Logged(i) == \E n \in DOMAIN log : log[n].id = i

IsLast(n, S) == n \in S /\ \A m \in S : m <= n
NamingPath(path) == {n \in DOMAIN log : log[n].path = path}
NamingKey(k) == {n \in DOMAIN log : log[n].call # NoCall /\ log[n].call.key = k}
Resolving(i) == {n \in DOMAIN log : log[n].resolves = i}

(* Mutant: nothing is compared with the journal. *)
BaselineUnchecked(path) == path \in Paths

(* _check_committed_baseline: the note is what the latest record for it left. *)
BaselineHolds(path) ==
  \A n \in NamingPath(path) : IsLast(n, NamingPath(path)) => log[n].after = disk[path]

(* _recover_operations_scan_sync and _classify_blocked_operation agree on  *)
(* what a manifest means, given the journal and the note as it is now.     *)
Resolved(r) == Resolving(r.id) # {}
ResolutionHolds(r) ==
  \E n \in Resolving(r.id) : IsLast(n, Resolving(r.id)) /\ disk[r.path] = log[n].after

(* Mutant: a landed operation without a record is dropped like one that    *)
(* never started.                                                          *)
FinishedEitherWay(r) ==
  \/ Resolved(r) /\ ResolutionHolds(r)
  \/ ~Resolved(r) /\ Logged(r.id) /\ disk[r.path] = r.after
  \/ ~Resolved(r) /\ ~Logged(r.id) /\ disk[r.path] \in {r.before, r.after}

Finished(r) ==                \* nothing left to do but to remove the manifest
  \/ Resolved(r) /\ ResolutionHolds(r)
  \/ ~Resolved(r) /\ Logged(r.id) /\ disk[r.path] = r.after
  \/ ~Resolved(r) /\ ~Logged(r.id) /\ disk[r.path] = r.before /\ r.before # r.after

(* Mutant: recovery forgets to look for a repair of the operation. *)
LandedDespiteRepair(r) == ~Logged(r.id) /\ disk[r.path] = r.after

Landed(r) ==                  \* the note was replaced, the journal has no record
  ~Resolved(r) /\ ~Logged(r.id) /\ disk[r.path] = r.after
Blocked(r) == ~Finished(r) /\ ~Landed(r)

(* Mutant: an operation that created its note can be "restored" too. *)
RestoreOfNothing(r) == r.before \in history \cup {Absent}

(* BlockedOperation.restore_before_available and adopt_disk_available. *)
RestoreAvailable(r) == r.before \in history
AdoptAvailable(r) == disk[r.path] # Absent

-----------------------------------------------------------------------------
(* The call a process is in ends: it answers, raises or dies, and every    *)
(* lock it held is released, by the context managers or by the kernel.     *)
End(p) ==
  /\ pc' = [pc EXCEPT ![p] = "idle"]
  /\ job' = [job EXCEPT ![p] = NoJob]
  /\ rec' = [rec EXCEPT ![p] = NoRec]
  /\ todo' = [todo EXCEPT ![p] = {}]
  /\ hit' = [hit EXCEPT ![p] = FALSE]
  /\ lock' = IF lock = p THEN NoProc ELSE lock

Goto(p, step) == pc' = [pc EXCEPT ![p] = step]

(* A client calls a write tool, a server starts, or retention is run. *)
Begin(p) ==
  /\ pc[p] = "idle"
  /\ \E j \in Calls \cup {Sweep} : job' = [job EXCEPT ![p] = j]
  /\ Goto(p, "waiting")
  /\ UNCHANGED <<durable, lock, rec, todo, hit, budget, ghosts>>

(* An operator runs "ops inspect", which reads under the journal lock, and *)
(* asks for one of the repairs with the disk hash the inspection showed.   *)
BeginRepair(p) ==
  /\ pc[p] = "idle"
  /\ \A q \in Procs : pc[q] \notin Journaling
  /\ tail = "clean"
  /\ \E r \in pending :
       /\ Blocked(r)
       /\ AdoptAvailable(r)
       /\ \E k \in RepairKinds :
            /\ k = "restore-before" => RestoreAvailable(r)
            /\ job' = [job EXCEPT ![p] =
                         [kind |-> k, target |-> r.id, expected |-> disk[r.path]]]
  /\ Goto(p, "waiting")
  /\ UNCHANGED <<durable, lock, rec, todo, hit, budget, ghosts>>

(* Mutant: the lock does not exclude. *)
AcquireTogether(p) ==
  /\ pc[p] = "waiting"
  /\ lock' = p
  /\ Goto(p, IF job[p] \in Repairs THEN "repair" ELSE "torn")
  /\ UNCHANGED <<durable, job, rec, todo, hit, budget, ghosts>>

(* The lock is free: take it.  A repair does not run recovery first. *)
Acquire(p) ==
  /\ pc[p] = "waiting"
  /\ lock = NoProc
  /\ lock' = p
  /\ Goto(p, IF job[p] \in Repairs THEN "repair" ELSE "torn")
  /\ UNCHANGED <<durable, job, rec, todo, hit, budget, ghosts>>

(* Mutant: polling for the lock never gives up. *)
TimeoutNever(p) ==
  /\ pc[p] = "waiting"
  /\ lock # NoProc
  /\ UNCHANGED vars

(* The lock stayed busy until the deadline: VaultLockBusyError. *)
Timeout(p) ==
  /\ pc[p] = "waiting"
  /\ lock # NoProc
  /\ End(p)
  /\ UNCHANGED <<durable, budget, ghosts>>

-----------------------------------------------------------------------------
(* Recovery. *)

(* A torn final fragment is cut off; a whole record that lost its newline  *)
(* is left for an operator.  Then the pending manifests are listed.        *)
RepairTornTail(p) ==
  /\ pc[p] = "torn"
  /\ tail' = IF tail = "torn" THEN "clean" ELSE tail
  /\ todo' = [todo EXCEPT ![p] = pending]
  /\ Goto(p, "scan")
  /\ UNCHANGED <<disk, log, pending, history, lock, job, rec, hit, budget, ghosts>>

(* Repair manifests come before ordinary ones. *)
ScanNext(p, r) ==
  /\ pc[p] = "scan"
  /\ tail = "clean"
  /\ r \in todo[p]
  /\ r.resolves = 0 => \A s \in todo[p] : s.resolves = 0

RecoverFinished(p, r) ==
  /\ ScanNext(p, r)
  /\ Finished(r)
  /\ pending' = pending \ {r}
  /\ todo' = [todo EXCEPT ![p] = @ \ {r}]
  /\ UNCHANGED <<disk, log, tail, history, lock, pc, job, rec, hit, budget, ghosts>>

(* The record is appended and then forgotten by Append and Forget, *)
(* after which the scan goes on.                                   *)
RecoverLanded(p, r) ==
  /\ ScanNext(p, r)
  /\ Landed(r)
  /\ rec' = [rec EXCEPT ![p] = r]
  /\ Goto(p, "append")
  /\ UNCHANGED <<durable, lock, job, todo, hit, budget, ghosts>>

RecoverBlocked(p, r) ==
  /\ ScanNext(p, r)
  /\ Blocked(r)
  /\ hit' = [hit EXCEPT ![p] = TRUE]
  /\ todo' = [todo EXCEPT ![p] = @ \ {r}]
  /\ UNCHANGED <<durable, lock, pc, job, rec, budget, ghosts>>

(* read_records refuses a journal that does not end at a line boundary. *)
RecoverRefused(p) ==
  /\ pc[p] = "scan"
  /\ todo[p] # {}
  /\ tail # "clean"
  /\ End(p)
  /\ UNCHANGED <<durable, budget, ghosts>>

(* Mutant: a blocked manifest stops nobody. *)
RecoverDoneAnyway(p) ==
  /\ pc[p] = "scan"
  /\ todo[p] = {}
  /\ Goto(p, IF job[p] = Sweep THEN "sweep" ELSE "check")
  /\ UNCHANGED <<durable, lock, job, rec, todo, hit, budget, ghosts>>

(* Mutant: the startup sweep runs although a manifest is blocked. *)
RecoverDoneSweeping(p) ==
  /\ pc[p] = "scan"
  /\ todo[p] = {}
  /\ IF hit[p] /\ job[p] # Sweep
       THEN End(p)
       ELSE /\ Goto(p, IF job[p] = Sweep THEN "sweep" ELSE "check")
            /\ UNCHANGED <<lock, job, rec, todo, hit>>
  /\ UNCHANGED <<durable, budget, ghosts>>

(* _raise_if_recovery_blocked; a sweep keeps the history when blocked. *)
RecoverDone(p) ==
  /\ pc[p] = "scan"
  /\ todo[p] = {}
  /\ IF hit[p]
       THEN End(p)
       ELSE /\ Goto(p, IF job[p] = Sweep THEN "sweep" ELSE "check")
            /\ UNCHANGED <<lock, job, rec, todo, hit>>
  /\ UNCHANGED <<durable, budget, ghosts>>

-----------------------------------------------------------------------------
(* The request is judged against the journal and the note as they are now. *)

Keyed(c) == c.key # NoKey

(* _check_request_replay: the latest record with the request key. *)
Receipt(c, n) == Keyed(c) /\ IsLast(n, NamingKey(c.key))
Replayed(c, n) ==
  /\ Receipt(c, n)
  /\ log[n].call = c
  /\ disk[c.path] = log[n].after

(* Mutant: a retry without expected_hash is not told from a new write. *)
ConflictingArguments(c) ==
  \E n \in DOMAIN log : Receipt(c, n) /\ log[n].call # c

Conflicting(c) ==
  \E n \in DOMAIN log :
    /\ Receipt(c, n)
    /\ \/ log[n].call # c
       \/ disk[c.path] # log[n].after /\ c.expected = NoHash

(* What the kind of the call asks of the note. *)
KindAccepts(c) ==
  LET cur == disk[c.path] IN
  \/ c.kind = "create" /\ c.expected = NoHash /\ cur = Absent
  \/ c.kind = "overwrite" /\ (c.expected = NoHash => BaselineHolds(c.path))
  \/ /\ c.kind \in {"mutate", "revert"}
     /\ c.expected = NoHash => BaselineHolds(c.path)
     /\ cur # Absent
     /\ c.kind = "revert" =>
          /\ \E n \in NamingPath(c.path) : c.arg \in {log[n].before, log[n].after}
          /\ c.arg \in history
          /\ c.arg # cur

Accepted(c) ==
  /\ tail = "clean"
  /\ nextId <= MaxOps
  /\ ~Conflicting(c)
  /\ c.expected # NoHash => disk[c.path] = c.expected
  /\ KindAccepts(c)

(* The bytes the call leaves: a mutation computes them from the note. *)
Results(c) == IF c.kind = "mutate" THEN Contents ELSE {c.arg}

CheckReplay(p) ==
  /\ pc[p] = "check"
  /\ tail = "clean"
  /\ \E n \in DOMAIN log : Replayed(job[p], n) /\ told' = told \cup {log[n].id}
  /\ End(p)
  /\ UNCHANGED <<durable, budget, origin>>

CheckAccept(p) ==
  LET c == job[p] IN
  /\ pc[p] = "check"
  /\ Accepted(c)
  /\ \A n \in DOMAIN log : ~Replayed(c, n)
  /\ \E after \in Results(c) :
       rec' = [rec EXCEPT ![p] = [id |-> nextId, path |-> c.path,
                                  before |-> disk[c.path], after |-> after,
                                  call |-> c, resolves |-> 0]]
  /\ nextId' = nextId + 1
  /\ Goto(p, "save")
  /\ UNCHANGED <<durable, lock, job, todo, hit, faults, edits, ghosts>>

CheckRefuse(p) ==
  /\ pc[p] = "check"
  /\ ~Accepted(job[p])
  /\ tail = "clean" => \A n \in DOMAIN log : ~Replayed(job[p], n)
  /\ End(p)
  /\ UNCHANGED <<durable, budget, ghosts>>

(* A repair is refused unless the manifest is still blocked and the note   *)
(* is still what the operator saw.                                         *)
RepairAccepted(j, r) ==
  /\ r \in pending
  /\ r.id = j.target
  /\ disk[r.path] # Absent
  /\ disk[r.path] = j.expected
  /\ tail = "clean"
  /\ Blocked(r)
  /\ j.kind = "restore-before" => RestoreAvailable(r)
  /\ nextId <= MaxOps

RepairAccept(p) ==
  LET j == job[p] IN
  /\ pc[p] = "repair"
  /\ \E r \in pending :
       /\ RepairAccepted(j, r)
       /\ rec' = [rec EXCEPT ![p] =
                    [id |-> nextId, path |-> r.path, before |-> disk[r.path],
                     after |-> IF j.kind = "restore-before" THEN r.before ELSE disk[r.path],
                     call |-> NoCall, resolves |-> r.id]]
  /\ nextId' = nextId + 1
  /\ Goto(p, IF j.kind = "restore-before" THEN "save" ELSE "declare")
  /\ UNCHANGED <<durable, lock, job, todo, hit, faults, edits, ghosts>>

RepairRefuse(p) ==
  /\ pc[p] = "repair"
  /\ \A r \in pending : ~RepairAccepted(job[p], r)
  /\ End(p)
  /\ UNCHANGED <<durable, budget, ghosts>>

-----------------------------------------------------------------------------
(* The five durable steps, of a call and of a repair. *)

SaveHistory(p) ==
  /\ pc[p] = "save"
  /\ history' = history \cup ({rec[p].before} \ {Absent})
  /\ Goto(p, "declare")
  /\ UNCHANGED <<disk, log, tail, pending, lock, job, rec, todo, hit, budget, ghosts>>

(* adopt-disk leaves the note as it is. *)
WritePending(p) ==
  /\ pc[p] = "declare"
  /\ pending' = pending \cup {rec[p]}
  /\ Goto(p, IF job[p] \in Repairs /\ job[p].kind = "adopt-disk" THEN "append" ELSE "replace")
  /\ UNCHANGED <<disk, log, tail, history, lock, job, rec, todo, hit, budget, ghosts>>

Land(r) ==
  /\ disk' = [disk EXCEPT ![r.path] = r.after]
  /\ origin' = [origin EXCEPT ![r.path] = r.id]

(* The note is replaced whatever it holds by now. *)
ReplaceNote(p) ==
  /\ pc[p] = "replace"
  /\ Land(rec[p])
  /\ Goto(p, "append")
  /\ UNCHANGED <<log, tail, pending, history, lock, job, rec, todo, hit, budget, told>>

(* An OSError before or after the rename.  A repair leaves its manifest to *)
(* recovery, a call looks at the note first.                               *)
ReplaceFails(p) ==
  /\ pc[p] = "replace"
  /\ faults < MaxFaults
  /\ faults' = faults + 1
  /\ Land(rec[p]) \/ UNCHANGED <<disk, origin>>
  /\ IF job[p] \in Repairs
       THEN End(p)
       ELSE Goto(p, "inspect") /\ UNCHANGED <<lock, job, rec, todo, hit>>
  /\ UNCHANGED <<log, tail, pending, history, nextId, edits, told>>

(* Mutant: the manifest is dropped without looking at the note. *)
DiscardAlways(p) ==
  /\ pc[p] = "inspect"
  /\ pending' = pending \ {rec[p]}
  /\ End(p)
  /\ UNCHANGED <<disk, log, tail, history, budget, ghosts>>

DiscardUnstarted(p) ==
  /\ pc[p] = "inspect"
  /\ pending' = IF disk[rec[p].path] = rec[p].after THEN pending ELSE pending \ {rec[p]}
  /\ End(p)
  /\ UNCHANGED <<disk, log, tail, history, budget, ghosts>>

AppendRecord(p) ==
  /\ pc[p] = "append"
  /\ log' = Append(log, rec[p])
  /\ Goto(p, "forget")
  /\ UNCHANGED <<disk, tail, pending, history, lock, job, rec, todo, hit, budget, ghosts>>

(* Mutant: a failed append is swallowed. *)
AppendFailsSilently(p) ==
  /\ pc[p] = "append"
  /\ faults < MaxFaults
  /\ faults' = faults + 1
  /\ Goto(p, "forget")
  /\ UNCHANGED <<durable, lock, job, rec, todo, hit, nextId, edits, ghosts>>

(* The append fails and is rolled back, or the rollback fails too. *)
AppendFails(p) ==
  /\ pc[p] = "append"
  /\ faults < MaxFaults
  /\ faults' = faults + 1
  /\ tail' \in {"clean", "torn"}
  /\ End(p)
  /\ UNCHANGED <<disk, log, pending, history, nextId, edits, ghosts>>

(* rec is in todo when recovery is finishing somebody else's operation. *)
RemovePending(p) ==
  /\ pc[p] = "forget"
  /\ pending' = pending \ {rec[p]}
  /\ IF rec[p] \in todo[p]
       THEN /\ todo' = [todo EXCEPT ![p] = @ \ {rec[p]}]
            /\ rec' = [rec EXCEPT ![p] = NoRec]
            /\ Goto(p, "scan")
       ELSE /\ Goto(p, IF job[p] \in Repairs THEN "settle" ELSE "sweep")
            /\ UNCHANGED <<rec, todo>>
  /\ UNCHANGED <<disk, log, tail, history, lock, job, hit, budget, ghosts>>

(* A repair ends with the manifest of the operation it resolves. *)
SettleRepaired(p) ==
  /\ pc[p] = "settle"
  /\ pending' = {r \in pending : r.id # rec[p].resolves}
  /\ told' = told \cup {rec[p].id}
  /\ End(p)
  /\ UNCHANGED <<disk, log, tail, history, budget, origin>>

-----------------------------------------------------------------------------
(* Records are stamped in journal order, so those inside the retention     *)
(* window are a suffix of the journal.                                     *)
RetainedFrom(n) ==
  UNION {{log[m].before, log[m].after} : m \in {k \in DOMAIN log : k >= n}}

(* The record just committed is inside the window.  A blob that cannot be  *)
(* deleted, or a sweep throttled or failing, keeps more than it must.      *)
PurgeHistory(p) ==
  /\ pc[p] = "sweep"
  /\ \E n \in 1..(IF job[p] = Sweep THEN Len(log) + 1 ELSE Len(log)) :
       \E lost \in SUBSET (history \ RetainedFrom(n)) :
         /\ tail # "clean" => lost = {}
         /\ history' = history \ lost
  /\ told' = IF job[p] = Sweep THEN told ELSE told \cup {rec[p].id}
  /\ End(p)
  /\ UNCHANGED <<disk, log, tail, pending, budget, origin>>

-----------------------------------------------------------------------------
(* The process dies.  An exception at a step no other action names leaves  *)
(* the same behind.                                                        *)
Crash(p) ==
  /\ pc[p] # "idle"
  /\ faults < MaxFaults
  /\ faults' = faults + 1
  /\ IF pc[p] = "append" THEN tail' \in {tail, "torn", "unterminated"} ELSE UNCHANGED tail
  /\ End(p)
  /\ UNCHANGED <<disk, log, pending, history, nextId, edits, ghosts>>

(* Somebody edits, creates or deletes a note without Datacron. *)
EditOutside(path) ==
  /\ edits < MaxEdits
  /\ EditorRaces \/ lock = NoProc
  /\ \E b \in Bytes \ {disk[path]} : disk' = [disk EXCEPT ![path] = b]
  /\ origin' = [origin EXCEPT ![path] = 0]
  /\ edits' = edits + 1
  /\ UNCHANGED <<log, tail, pending, history, lock, local, nextId, faults, told>>

Commit(p) ==
  \/ SaveHistory(p) \/ WritePending(p)
  \/ ReplaceNote(p) \/ ReplaceFails(p) \/ DiscardUnstarted(p)
  \/ AppendRecord(p) \/ AppendFails(p)
  \/ RemovePending(p) \/ SettleRepaired(p) \/ PurgeHistory(p)

Recover(p) ==
  \/ RepairTornTail(p)
  \/ \E r \in todo[p] : RecoverFinished(p, r) \/ RecoverLanded(p, r) \/ RecoverBlocked(p, r)
  \/ RecoverRefused(p) \/ RecoverDone(p)

(* What a process does of its own accord once it was called. *)
Proceed(p) ==
  \/ Acquire(p) \/ Timeout(p)
  \/ Recover(p)
  \/ CheckReplay(p) \/ CheckAccept(p) \/ CheckRefuse(p)
  \/ RepairAccept(p) \/ RepairRefuse(p)
  \/ Commit(p)

Next ==
  \/ \E p \in Procs : Begin(p) \/ BeginRepair(p) \/ Proceed(p) \/ Crash(p)
  \/ \E path \in Paths : EditOutside(path)

Spec == Init /\ [][Next]_vars

(* A process that runs keeps running; the wait for the lock has a deadline. *)
FairSpec == Spec /\ \A p \in Procs : WF_vars(Proceed(p))

-----------------------------------------------------------------------------
(* The mutation lock excludes: every process past "waiting" holds it.  The *)
(* other invariants rest on it, so a lock released too early (or taken     *)
(* twice) breaks the whole transaction.                                    *)
MutualExclusion == \A p \in Procs : pc[p] \in Critical => lock = p

(* Write-ahead audit: while a note holds bytes that a Datacron operation   *)
(* put there, the journal or a pending manifest names that operation, so   *)
(* no committed bytes are ever unaccounted for, wherever a process died.   *)
AuditCoverage ==
  \A path \in Paths :
    origin[path] # 0 =>
      \/ Logged(origin[path])
      \/ \E r \in pending : r.id = origin[path]

(* An operation is in the journal once, and one that a repair resolved is  *)
(* never committed afterwards, however often recovery runs.                *)
JournalSound ==
  \A m, n \in DOMAIN log :
    /\ log[m].id = log[n].id => m = n
    /\ log[n].resolves = log[m].id => m < n

(* A caller is told "committed" only of operations in the journal. *)
ToldIsJournaled == told \subseteq LogIds

(* Recovery comes before every write: when a call replaces a note, its own *)
(* manifest is the only one, so no new write buries unfinished work.       *)
RecoveryFirst ==
  \A p \in Procs :
    pc[p] \in {"replace", "append"} /\ job[p] \in Calls /\ rec[p] # NoRec /\ rec[p] \notin todo[p]
      => pending = {rec[p]}

(* restore-before keeps its promise: as long as an ordinary operation is   *)
(* pending, the exact bytes it replaced are in the history, whatever the   *)
(* retention sweeps of other processes removed.                            *)
RestoreStaysPossible ==
  \A r \in pending : r.resolves = 0 /\ r.before # Absent => r.before \in history

(* Without expected_hash a call only builds on bytes Datacron left: in the *)
(* journal it follows the record before it for the same note, unless it    *)
(* created the note anew.  An operation declared before that record, which *)
(* recovery found landed only after the repair of an interrupted repair,   *)
(* is exempt (see the README).                                             *)
UnhashedFollowsBaseline ==
  \A n \in DOMAIN log :
    log[n].resolves = 0 /\ log[n].call.expected = NoHash /\ log[n].before # Absent =>
      \A m \in DOMAIN log :
        (m < n /\ log[m].path = log[n].path /\ log[m].id < log[n].id
           /\ \A k \in m+1..n-1 : log[k].path # log[n].path)
        => log[n].before = log[m].after

(* At most once: a request key commits a second time only with the same    *)
(* arguments, an exact expected_hash, and a note that was put back to it.  *)
RetryNeverRepeats ==
  \A m, n \in DOMAIN log :
    m < n /\ log[m].call # NoCall /\ log[n].call # NoCall
      /\ log[m].call.key = log[n].call.key /\ Keyed(log[n].call) =>
        /\ log[m].call = log[n].call
        /\ log[n].call.expected # NoHash
        /\ log[n].before = log[n].call.expected
        /\ (\A k \in m+1..n-1 : log[k].call # log[n].call) => log[n].before # log[m].after

(* Undisturbed by an editor, a transaction replaces exactly the bytes it   *)
(* checked, so no write is lost between the check and the rename.          *)
NoSilentClobber ==
  [][\A p \in Procs :
       pc[p] = "replace" /\ disk' # disk => disk[rec[p].path] = rec[p].before]_vars

(* docs/en/spec.md: "Creation always refuses to overwrite an existing      *)
(* file."  The code looks once, before it prepares the operation, and then *)
(* replaces whatever is there.                                             *)
CreationNeverOverwrites ==
  [][\A p \in Procs :
       pc[p] = "replace" /\ job[p] \in Calls /\ job[p].kind = "create" /\ disk' # disk
         => disk[job[p].path] = Absent]_vars

(* CHANGELOG.md: "datacron ops inspect" lists the available repair actions *)
(* of a blocked manifest.  So a restore-before it lists as available       *)
(* should be one that "ops repair" accepts.                                *)
OfferedRestoreIsAccepted ==
  \A r \in pending :
    Blocked(r) /\ RestoreAvailable(r) /\ tail = "clean" /\ nextId <= MaxOps =>
      RepairAccepted([kind |-> "restore-before", target |-> r.id,
                      expected |-> disk[r.path]], r)

(* Every call ends, whoever else holds the lock, dies or waits. *)
EveryCallEnds == \A p \in Procs : pc[p] # "idle" ~> pc[p] = "idle"

-----------------------------------------------------------------------------
(* What the transaction promises, without locks, steps and processes. *)
Trail == INSTANCE AuditTrail WITH note <- disk, intents <- pending, journal <- log,
                                  answered <- told, outside <- edits

(* The transaction is a write-ahead journal: hidden behind recovery, locks *)
(* and crashes, every step is one of AuditTrail's.                         *)
ImplementsAuditTrail == Trail!Spec
=============================================================================
