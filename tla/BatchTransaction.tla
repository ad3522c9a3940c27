---------------------------- MODULE BatchTransaction ---------------------------
(***************************************************************************)
(* Organization batches (core/batch_transaction.py), as the vault writer   *)
(* runs them (core/vault_writer.py, mcp/tools/organization.py).            *)
(*                                                                         *)
(* A batch creates, replaces and moves several notes and may replace       *)
(* VAULT.yaml and the identity sidecar.  It is validated against the whole *)
(* scope, and applied under the mutation lock: payloads are staged, prior  *)
(* bytes go to the history, a pending receipt publishes the batch, every   *)
(* path is rolled forward, records are appended, a committed receipt is    *)
(* written, pending receipt and stage go away.  An exception before the    *)
(* first record rolls back; a crash leaves the receipt, and the next start *)
(* or batch rolls forward, or refuses when a path holds third bytes.       *)
(*                                                                         *)
(* Ordinary writes share the lock; one is a single step here, complete or  *)
(* interrupted with its manifest left (NoteTransaction has its inside).    *)
(***************************************************************************)
EXTENDS Naturals, Sequences, FiniteSets

CONSTANTS
  Procs,      \* processes that can hold the mutation lock
  Paths,      \* notes of the scope, VAULT.yaml and ulids.json
  Notes,      \* the ones an inventory walk finds
  Contents,   \* the byte contents a path can have
  Absent,     \* what is read where there is no file
  NoPath,     \* source of a member that is not a move
  Shapes,     \* the member lists of the manifests
  NoProc, NoBatch, NoWrite,
  MaxPlans,   \* bound: validated batches
  MaxFaults,  \* bound: deaths and I/O errors
  MaxEdits,   \* bound: edits made outside Datacron
  EditorRaces \* may an edit fall while the mutation lock is held?

Bytes == Contents \cup {Absent}

(* A create and a replace have no source, a move has one. *)
Members == [source : Paths \cup {NoPath}, target : Paths, after : Contents]

Targets(s) == {s[n].target : n \in DOMAIN s}
Sources(s) == {s[n].source : n \in DOMAIN s} \ {NoPath}
Affected(s) == Targets(s) \cup Sources(s)

(* _validate_member_paths: no two effects on one path. *)
ASSUME ShapesAssumption ==
  \A s \in Shapes :
    /\ s \in Seq(Members)
    /\ s # <<>>
    /\ Targets(s) \cap Sources(s) = {}
    /\ \A m, n \in DOMAIN s :
         m # n => /\ s[m].target # s[n].target
                  /\ s[m].source = s[n].source => s[n].source = NoPath

ASSUME ConstantsAssumption ==
  /\ Notes \subseteq Paths
  /\ Absent \notin Contents
  /\ NoPath \notin Paths
  /\ NoProc \notin Procs
  /\ MaxPlans \in Nat /\ MaxFaults \in Nat /\ MaxEdits \in Nat
  /\ EditorRaces \in BOOLEAN

(* A validated batch: the members, and the hashes of everything it was     *)
(* validated on (member baselines, scope preconditions, config, sidecar).  *)
Batches == [shape : Shapes, base : [Paths -> Bytes]]

(* The vault a batch leads to. *)
Image(b) ==
  [path \in Paths |->
     IF path \in Sources(b.shape) THEN Absent
     ELSE IF path \in Targets(b.shape)
       THEN (CHOOSE m \in {b.shape[n] : n \in DOMAIN b.shape} : m.target = path).after
       ELSE b.base[path]]

(* The manifest's own hash covers its members, not the rest of the scope. *)
SameManifest(b, c) ==
  b.shape = c.shape /\ \A path \in Affected(b.shape) : b.base[path] = c.base[path]

Size(b) == Len(b.shape)

(* _path_states: the targets in order, then the sources. *)
PathAt(b, n) == IF n > Size(b) THEN b.shape[n - Size(b)].source ELSE b.shape[n].target

Writes == [path : Paths, before : Bytes, after : Contents]

ASSUME JobsAssumption ==
  /\ NoBatch \notin Batches
  /\ NoWrite \notin Writes

VARIABLES
  disk,       \* the vault
  stage,      \* payloads under oplog/batches/stage, by batch and member
  history,    \* blobs under oplog/history
  pending,    \* receipts under oplog/batches/pending
  log,        \* the members with a record in operations.jsonl, in order
  committed,  \* receipts under oplog/batches/committed
  manifest,   \* the ordinary operation left under oplog/pending
  lock,       \* holder of the advisory lock "mutation"
  proc,       \* what each process is doing
  plans,      \* batches validate mode has answered with
  faults, edits,
  origin,     \* ghost: the batch whose bytes a path holds
  told        \* ghost: batches apply has answered with

durable == <<disk, stage, history, pending, log, committed, manifest>>
vars == <<durable, lock, proc, plans, faults, edits, origin, told>>

Steps == {"idle", "waiting", "recover", "finish", "resolve", "preview", "check",
          "stage", "save", "declare", "classify", "roll", "record", "receipt", "forget",
          "unstage", "sweep", "handler", "late", "undo", "drop", "clear", "write"}

(* The lock is free again while apply mode computes its own preview. *)
Critical == Steps \ {"idle", "waiting", "preview"}

(* "job" is the batch a call is to apply, "batch" the one at hand: its own *)
(* or one it recovers.                                                     *)
States == [step : Steps, call : {"none", "apply", "restart", "write"},
           job : Batches \cup {NoBatch}, batch : Batches \cup {NoBatch}, own : BOOLEAN,
           phase : {"resolve", "commit"}, at : Nat]

Idle == [step |-> "idle", call |-> "none", job |-> NoBatch, batch |-> NoBatch,
         own |-> FALSE, phase |-> "resolve", at |-> 0]

TypeOK ==
  /\ disk \in [Paths -> Bytes]
  /\ stage \subseteq Batches \X (Nat \ {0})
  /\ history \subseteq Contents
  /\ pending \subseteq Batches
  /\ log \in Seq(Batches \X (Nat \ {0}))
  /\ committed \subseteq Batches
  /\ manifest \in Writes \cup {NoWrite}
  /\ lock \in Procs \cup {NoProc}
  /\ proc \in [Procs -> States]
  /\ plans \subseteq Batches
  /\ faults \in Nat /\ edits \in Nat
  /\ origin \in [Paths -> Batches \cup {NoBatch}]
  /\ told \subseteq Batches

Init ==
  /\ disk \in [Paths -> Bytes]
  /\ stage = {} /\ history = {} /\ pending = {} /\ log = <<>> /\ committed = {}
  /\ manifest = NoWrite
  /\ lock = NoProc
  /\ proc = [p \in Procs |-> Idle]
  /\ plans = {}
  /\ faults = 0 /\ edits = 0
  /\ origin = [path \in Paths |-> NoBatch]
  /\ told = {}

-----------------------------------------------------------------------------
Logged(b, n) == \E k \in DOMAIN log : log[k] = <<b, n>>
AllLogged(b) == \A n \in 1..Size(b) : Logged(b, n)
Staged(b) == {n \in 1..Size(b) : <<b, n>> \in stage}

(* Mutant: receipts are looked up by confirmation instead of by manifest. *)
ReceiptOfToken(b) == committed \cap {b}

Receipt(b) == {c \in committed : SameManifest(b, c)}

(* The scope notes that differ from what the batch was validated on, and   *)
(* the other files that do.                                                *)
ScopeMoved(b) == \E path \in Notes \ Affected(b.shape) : disk[path] # b.base[path]
FileMoved(b) == \E path \in Paths \ (Notes \cup Affected(b.shape)) : disk[path] # b.base[path]

(* _classify_blocked: what the receipt was validated on must still hold,   *)
(* and every path of the batch must have its bytes before or after.  An    *)
(* open inventory pass answers for the scope notes from when the batch was *)
(* checked, when they were as validated.                                   *)
Unfit(b) ==
  \/ FileMoved(b)
  \/ Staged(b) # 1..Size(b)
  \/ b \in committed /\ ~AllLogged(b)
  \/ \E path \in Affected(b.shape) : disk[path] \notin {b.base[path], Image(b)[path]}

Blocked(b) == ScopeMoved(b) \/ Unfit(b)

(* _verify_result_disk_state: the targets and the sources of the receipt. *)
Intact(b) == \A path \in Affected(b.shape) : disk[path] = Image(b)[path]

-----------------------------------------------------------------------------
Stop(p) ==
  /\ proc' = [proc EXCEPT ![p] = Idle]
  /\ lock' = IF lock = p THEN NoProc ELSE lock

Goto(p, step, n) == proc' = [proc EXCEPT ![p].step = step, ![p].at = n]

(* Where an exception takes the process: apply has a handler, which knows  *)
(* whether records were started, and finds the inventory pass still open   *)
(* (at = 1) if they come before its end; recovery has no handler.          *)
Caught(p) ==
  LET s == proc[p].step IN
  IF proc[p].own /\ s \in {"stage", "save", "declare"}
    THEN Goto(p, "handler", 1) /\ UNCHANGED lock
  ELSE IF proc[p].own /\ s \in {"classify", "roll"}
    THEN Goto(p, "handler", 0) /\ UNCHANGED lock
  ELSE IF proc[p].own /\ s \in {"record", "receipt", "forget", "unstage"}
    THEN Goto(p, "late", 0) /\ UNCHANGED lock
  ELSE Stop(p)

Raise(p) ==
  /\ faults < MaxFaults
  /\ faults' = faults + 1
  /\ Caught(p)

(* A durable step went well, or failed after it took effect. *)
Advance(p, step, n) ==
  \/ Goto(p, step, n) /\ UNCHANGED <<lock, faults>>
  \/ Raise(p)

(* Or it failed before. *)
Fails(p) ==
  /\ proc[p].step \in {"stage", "save", "declare", "roll", "record", "receipt", "forget",
                       "unstage", "handler", "late", "undo", "drop", "clear"}
  /\ Raise(p)
  /\ UNCHANGED <<durable, plans, edits, origin, told>>

-----------------------------------------------------------------------------
(* Validate mode: a preview of the live vault becomes a confirmed batch,   *)
(* unless the manifest has a receipt or a batch waits for recovery.        *)
Preview(s) ==
  LET b == [shape |-> s, base |-> disk] IN
  /\ Cardinality(plans) < MaxPlans
  /\ pending = {}
  /\ Receipt(b) = {}
  /\ \A n \in DOMAIN s :
       /\ s[n].source # NoPath => disk[s[n].source] # Absent /\ disk[s[n].target] = Absent
       /\ disk[s[n].target] # s[n].after
  /\ plans' = plans \cup {b}
  /\ UNCHANGED <<durable, lock, proc, faults, edits, origin, told>>

(* Apply mode with a confirmed batch, a server start, an ordinary write. *)
Begin(p) ==
  /\ proc[p].step = "idle"
  /\ \/ \E b \in plans :
          proc' = [proc EXCEPT ![p] = [Idle EXCEPT !.step = "waiting", !.call = "apply",
                                                   !.job = b]]
     \/ \E call \in {"restart", "write"} :
          proc' = [proc EXCEPT ![p] = [Idle EXCEPT !.step = "waiting", !.call = call]]
  /\ UNCHANGED <<durable, lock, plans, faults, edits, origin, told>>

Acquire(p) ==
  /\ proc[p].step = "waiting"
  /\ lock = NoProc
  /\ lock' = p
  /\ Goto(p, IF proc[p].call = "write" THEN "finish" ELSE "recover", 0)
  /\ UNCHANGED <<durable, plans, faults, edits, origin, told>>

(* The lock stayed busy until the deadline. *)
Timeout(p) ==
  /\ proc[p].step = "waiting"
  /\ lock # NoProc
  /\ Stop(p)
  /\ UNCHANGED <<durable, plans, faults, edits, origin, told>>

-----------------------------------------------------------------------------
(* recover(): with no receipt, only orphan stages are left to remove. *)
RecoverNothing(p) ==
  /\ proc[p].step = "recover"
  /\ pending = {}
  /\ stage' = {}
  /\ Goto(p, "finish", 0)
  /\ UNCHANGED <<disk, history, pending, log, committed, manifest>>
  /\ UNCHANGED <<lock, plans, faults, edits, origin, told>>

(* Several receipts block each other; a blocked batch blocks everything. *)
RecoverRefused(p) ==
  /\ proc[p].step = "recover"
  /\ Cardinality(pending) > 1 \/ \E b \in pending : Blocked(b)
  /\ Stop(p)
  /\ UNCHANGED <<durable, plans, faults, edits, origin, told>>

RecoverBatch(p) ==
  /\ proc[p].step = "recover"
  /\ \E b \in pending :
       /\ pending = {b}
       /\ ~Blocked(b)
       /\ proc' = [proc EXCEPT ![p].step = "classify", ![p].batch = b, ![p].own = FALSE]
  /\ UNCHANGED <<durable, lock, plans, faults, edits, origin, told>>

(* The sweep keeps what the retention window names, or everything. *)
Purge == history' \in SUBSET history

(* Mutant: an ordinary write does not ask for pending batches. *)
UnaskedBatches(p) == proc[p].step = "finish"

(* An ordinary write does not recover batches: it is refused. *)
NoBatchInTheWay(p) == proc[p].call = "write" => pending = {}

ManifestResolvable ==
  manifest # NoWrite => disk[manifest.path] \in {manifest.before, manifest.after}

(* The ordinary manifest is finished, and the call goes its way. *)
Finish(p) ==
  /\ proc[p].step = "finish"
  /\ NoBatchInTheWay(p)
  /\ ManifestResolvable
  /\ manifest' = NoWrite
  /\ \/ proc[p].call = "restart" /\ Stop(p) /\ Purge
     \/ proc[p].call = "write" /\ Goto(p, "write", 0) /\ UNCHANGED <<lock, history>>
     \/ /\ proc[p].call = "apply"
        /\ IF proc[p].phase = "resolve"
             THEN Goto(p, "resolve", 0) /\ Purge
             ELSE Goto(p, "check", 0) /\ UNCHANGED history
        /\ UNCHANGED lock
  /\ UNCHANGED <<disk, stage, pending, log, committed, plans, faults, edits, origin, told>>

FinishRefused(p) ==
  /\ proc[p].step = "finish"
  /\ ~NoBatchInTheWay(p) \/ ~ManifestResolvable
  /\ Stop(p)
  /\ UNCHANGED <<durable, plans, faults, edits, origin, told>>

-----------------------------------------------------------------------------
(* get_result: a receipt answers the call, if it is this confirmation's    *)
(* and nobody changed its paths since.                                     *)
Answered(p) ==
  /\ proc[p].step \in {"resolve", "check"}
  /\ Receipt(proc[p].job) # {}
  /\ told' = IF proc[p].job \in committed /\ Intact(proc[p].job)
               THEN told \cup {proc[p].job} ELSE told
  /\ Stop(p)
  /\ UNCHANGED <<durable, plans, faults, edits, origin>>

(* No receipt: the lock is released and the preview computed again. *)
Unresolved(p) ==
  /\ proc[p].step = "resolve"
  /\ Receipt(proc[p].job) = {}
  /\ proc' = [proc EXCEPT ![p].step = "preview", ![p].phase = "commit"]
  /\ lock' = NoProc
  /\ UNCHANGED <<durable, plans, faults, edits, origin, told>>

(* The confirmation token binds the whole base. *)
Confirm(p) ==
  /\ proc[p].step = "preview"
  /\ IF disk = proc[p].job.base THEN Goto(p, "waiting", 0) /\ UNCHANGED lock ELSE Stop(p)
  /\ UNCHANGED <<durable, plans, faults, edits, origin, told>>

(* Mutant: the vault is not compared again under the lock. *)
StillConfirmed(b) == b \in plans

(* _validate_before_states: exact baselines and scope preconditions. *)
Unchanged(b) == disk = b.base

CheckAccept(p) ==
  /\ proc[p].step = "check"
  /\ Receipt(proc[p].job) = {}
  /\ Unchanged(proc[p].job)
  /\ proc' = [proc EXCEPT ![p].step = "stage", ![p].at = 1, ![p].own = TRUE,
                          ![p].batch = proc[p].job]
  /\ UNCHANGED <<durable, lock, plans, faults, edits, origin, told>>

CheckRefuse(p) ==
  /\ proc[p].step = "check"
  /\ Receipt(proc[p].job) = {}
  /\ ~Unchanged(proc[p].job)
  /\ Stop(p)
  /\ UNCHANGED <<durable, plans, faults, edits, origin, told>>

-----------------------------------------------------------------------------
(* The durable steps.  "at" counts members, and for sources goes on after  *)
(* the last member.                                                        *)
StagePayload(p) ==
  LET b == proc[p].batch  n == proc[p].at IN
  /\ proc[p].step = "stage"
  /\ stage' = stage \cup {<<b, n>>}
  /\ IF n < Size(b) THEN Advance(p, "stage", n + 1) ELSE Advance(p, "save", 1)
  /\ UNCHANGED <<disk, history, pending, log, committed, manifest>>
  /\ UNCHANGED <<plans, edits, origin, told>>

(* The paths of a batch in turn. *)
EachPath(b, n, here, there, p) ==
  IF n < 2 * Size(b) THEN Advance(p, here, n + 1) ELSE Advance(p, there, 1)

(* A path with no bytes before has nothing to save; other bytes than those *)
(* it was validated on are an error.                                       *)
SaveHistory(p) ==
  LET b == proc[p].batch  n == proc[p].at  path == PathAt(b, n) IN
  /\ proc[p].step = "save"
  /\ IF path = NoPath \/ (path # NoPath /\ b.base[path] = Absent)
       THEN EachPath(b, n, "save", "declare", p) /\ UNCHANGED history
       ELSE /\ history' = history \cup ({disk[path]} \ {Absent})
            /\ IF disk[path] = b.base[path]
                 THEN EachPath(b, n, "save", "declare", p)
                 ELSE Caught(p) /\ UNCHANGED faults
  /\ UNCHANGED <<disk, stage, pending, log, committed, manifest>>
  /\ UNCHANGED <<plans, edits, origin, told>>

(* The stage was checked once more before this publishes the batch; what   *)
(* the validators of _stage_error refuse ends as a failure here does.      *)
WritePending(p) ==
  LET b == proc[p].batch IN
  /\ proc[p].step = "declare"
  /\ Staged(b) = 1..Size(b)
  /\ pending' = pending \cup {b}
  /\ Advance(p, "classify", 1)
  /\ UNCHANGED <<disk, stage, history, log, committed, manifest>>
  /\ UNCHANGED <<plans, edits, origin, told>>

(* Apply classifies inside its inventory pass. *)
Classify(p) ==
  LET b == proc[p].batch IN
  /\ proc[p].step = "classify"
  /\ IF Unfit(b) \/ (~proc[p].own /\ ScopeMoved(b)) THEN Caught(p) ELSE Goto(p, "roll", 1) /\ UNCHANGED lock
  /\ UNCHANGED <<durable, plans, faults, edits, origin, told>>

(* Targets get their payload unless they have it, then sources go. *)
Landed(b, n) ==
  \/ n <= Size(b) /\ disk[b.shape[n].target] = b.shape[n].after
  \/ n > Size(b) /\ PathAt(b, n) = NoPath
  \/ n > Size(b) /\ PathAt(b, n) # NoPath /\ disk[PathAt(b, n)] = Absent

(* Recovery of a batch that has its receipt goes straight to the cleanup. *)
AfterBytes(p) == IF ~proc[p].own /\ proc[p].batch \in committed THEN "forget" ELSE "record"

RollForward(p) ==
  LET b == proc[p].batch  n == proc[p].at IN
  /\ proc[p].step = "roll"
  /\ IF Landed(b, n)
       THEN UNCHANGED <<disk, origin>>
       ELSE /\ n \in Staged(b) \/ n > Size(b)
            /\ disk' = [disk EXCEPT ![PathAt(b, n)] = Image(b)[PathAt(b, n)]]
            /\ origin' = [origin EXCEPT ![PathAt(b, n)] = b]
  /\ EachPath(b, n, "roll", AfterBytes(p), p)
  /\ UNCHANGED <<stage, history, pending, log, committed, manifest, plans, edits, told>>

(* A record that is already there is not written again. *)
AppendRecord(p) ==
  LET b == proc[p].batch  n == proc[p].at IN
  /\ proc[p].step = "record"
  /\ log' = IF Logged(b, n) THEN log ELSE Append(log, <<b, n>>)
  /\ IF n < Size(b) THEN Advance(p, "record", n + 1) ELSE Advance(p, "receipt", 1)
  /\ UNCHANGED <<disk, stage, history, pending, committed, manifest>>
  /\ UNCHANGED <<plans, edits, origin, told>>

WriteResult(p) ==
  /\ proc[p].step = "receipt"
  /\ committed' = committed \cup {proc[p].batch}
  /\ Advance(p, "forget", 1)
  /\ UNCHANGED <<disk, stage, history, pending, log, manifest>>
  /\ UNCHANGED <<plans, edits, origin, told>>

RemovePending(p) ==
  /\ proc[p].step = "forget"
  /\ pending' = pending \ {proc[p].batch}
  /\ Advance(p, "unstage", 1)
  /\ UNCHANGED <<disk, stage, history, log, committed, manifest>>
  /\ UNCHANGED <<plans, edits, origin, told>>

Unstaged(b) == {x \in stage : x[1] # b}

(* Recovery also removes the stages that no receipt names. *)
RemoveStage(p) ==
  /\ proc[p].step = "unstage"
  /\ stage' = IF proc[p].own THEN Unstaged(proc[p].batch) ELSE {}
  /\ Advance(p, IF proc[p].own THEN "sweep" ELSE "finish", 0)
  /\ UNCHANGED <<disk, history, pending, log, committed, manifest>>
  /\ UNCHANGED <<plans, edits, origin, told>>

Succeed(p) ==
  /\ proc[p].step = "sweep"
  /\ Purge
  /\ told' = told \cup {proc[p].batch}
  /\ Stop(p)
  /\ UNCHANGED <<disk, stage, pending, log, committed, manifest, plans, faults, edits, origin>>

-----------------------------------------------------------------------------
(* Mutant: the handler takes a published batch for one that did nothing. *)
HandleAsUnpublished(p) ==
  /\ proc[p].step \in {"handler", "late"}
  /\ Goto(p, "drop", 0)
  /\ UNCHANGED <<durable, lock, plans, faults, edits, origin, told>>

(* The handler of apply: a published batch without records is rolled back, *)
(* an unpublished one loses its stage, anything later waits for recovery.  *)
Handle(p) ==
  LET b == proc[p].batch IN
  /\ proc[p].step \in {"handler", "late"}
  /\ \/ /\ b \notin pending
        /\ stage' = Unstaged(b)
        /\ Stop(p)
     \/ /\ b \in pending
        /\ IF proc[p].step = "handler" /\ ~Unfit(b) /\ (proc[p].at = 1 \/ ~ScopeMoved(b))
             THEN Goto(p, "undo", 2 * Size(b)) /\ UNCHANGED lock
             ELSE Stop(p)
        /\ UNCHANGED stage
  /\ UNCHANGED <<disk, history, pending, log, committed, manifest>>
  /\ UNCHANGED <<plans, faults, edits, origin, told>>

(* Sources come back first, then targets in reverse order. *)
Undo(p) ==
  LET b == proc[p].batch  n == proc[p].at  path == PathAt(b, n) IN
  /\ proc[p].step = "undo"
  /\ n > 0
  /\ IF path = NoPath \/ (path # NoPath /\ disk[path] = b.base[path])
       THEN Goto(p, "undo", n - 1) /\ UNCHANGED <<disk, origin, lock, faults>>
       ELSE IF b.base[path] \in history \cup {Absent}
         THEN /\ disk' = [disk EXCEPT ![path] = b.base[path]]
              /\ origin' = [origin EXCEPT ![path] = NoBatch]
              /\ Advance(p, "undo", n - 1)
         ELSE Stop(p) /\ UNCHANGED <<disk, origin, faults>>
  /\ UNCHANGED <<stage, history, pending, log, committed, manifest, plans, edits, told>>

(* The rollback is verified before the receipt goes. *)
Verify(p) ==
  LET b == proc[p].batch IN
  /\ proc[p].step = "undo"
  /\ proc[p].at = 0
  /\ IF \A path \in Affected(b.shape) : disk[path] = b.base[path]
       THEN Goto(p, "drop", 0) /\ UNCHANGED lock
       ELSE Stop(p)
  /\ UNCHANGED <<durable, plans, faults, edits, origin, told>>

(* Mutant: the stage goes first. *)
DropStage(p) ==
  /\ proc[p].step = "drop"
  /\ stage' = Unstaged(proc[p].batch)
  /\ Advance(p, "clear", 0)
  /\ UNCHANGED <<disk, history, pending, log, committed, manifest>>
  /\ UNCHANGED <<plans, edits, origin, told>>

DropPending(p) ==
  /\ proc[p].step = "drop"
  /\ pending' = pending \ {proc[p].batch}
  /\ Advance(p, "clear", 0)
  /\ UNCHANGED <<disk, stage, history, log, committed, manifest>>
  /\ UNCHANGED <<plans, edits, origin, told>>

ClearStage(p) ==
  /\ proc[p].step = "clear"
  /\ stage' = Unstaged(proc[p].batch)
  /\ Stop(p)
  /\ UNCHANGED <<disk, history, pending, log, committed, manifest>>
  /\ UNCHANGED <<plans, faults, edits, origin, told>>

-----------------------------------------------------------------------------
(* An ordinary write, whole, or interrupted before or after it landed. *)
WriteNote(p, path, bytes) ==
  /\ proc[p].step = "write"
  /\ history' \in SUBSET (history \cup ({disk[path]} \ {Absent}))
  /\ disk' = [disk EXCEPT ![path] = bytes]
  /\ origin' = [origin EXCEPT ![path] = NoBatch]
  /\ Stop(p)
  /\ UNCHANGED <<stage, pending, log, committed, manifest, plans, faults, edits, told>>

WriteInterrupted(p, path, bytes) ==
  /\ proc[p].step = "write"
  /\ faults < MaxFaults
  /\ faults' = faults + 1
  /\ manifest' = [path |-> path, before |-> disk[path], after |-> bytes]
  /\ history' = history \cup ({disk[path]} \ {Absent})
  /\ \/ UNCHANGED <<disk, origin>>
     \/ /\ disk' = [disk EXCEPT ![path] = bytes]
        /\ origin' = [origin EXCEPT ![path] = NoBatch]
  /\ Stop(p)
  /\ UNCHANGED <<stage, pending, log, committed, plans, edits, told>>

(* "ops repair" adopts what the disk holds.  Its other action, to restore   *)
(* the bytes from before, is to a batch this and a write after it.         *)
AdoptDisk ==
  /\ lock = NoProc
  /\ ~ManifestResolvable
  /\ manifest' = NoWrite
  /\ UNCHANGED <<disk, stage, history, pending, log, committed>>
  /\ UNCHANGED <<lock, proc, plans, faults, edits, origin, told>>

Crash(p) ==
  /\ proc[p].step \notin {"idle", "waiting", "preview"}
  /\ faults < MaxFaults
  /\ faults' = faults + 1
  /\ Stop(p)
  /\ UNCHANGED <<durable, plans, edits, origin, told>>

EditOutside(path) ==
  /\ edits < MaxEdits
  /\ EditorRaces \/ lock = NoProc
  /\ \E bytes \in Bytes \ {disk[path]} : disk' = [disk EXCEPT ![path] = bytes]
  /\ origin' = [origin EXCEPT ![path] = NoBatch]
  /\ edits' = edits + 1
  /\ UNCHANGED <<stage, history, pending, log, committed, manifest>>
  /\ UNCHANGED <<lock, proc, plans, faults, told>>

Recover(p) ==
  \/ RecoverNothing(p) \/ RecoverRefused(p) \/ RecoverBatch(p)
  \/ Finish(p) \/ FinishRefused(p)

Decide(p) ==
  \/ Answered(p) \/ Unresolved(p) \/ Confirm(p)
  \/ CheckAccept(p) \/ CheckRefuse(p)

Apply(p) ==
  \/ StagePayload(p) \/ SaveHistory(p) \/ WritePending(p) \/ Classify(p)
  \/ RollForward(p) \/ AppendRecord(p) \/ WriteResult(p)
  \/ RemovePending(p) \/ RemoveStage(p) \/ Succeed(p)

RollBack(p) == Handle(p) \/ Undo(p) \/ Verify(p) \/ DropPending(p) \/ ClearStage(p)

Next ==
  \/ \E s \in Shapes : Preview(s)
  \/ \E p \in Procs :
       \/ Begin(p) \/ Acquire(p) \/ Timeout(p)
       \/ Recover(p) \/ Decide(p) \/ Apply(p) \/ RollBack(p)
       \/ Fails(p) \/ Crash(p)
       \/ \E path \in Paths, bytes \in Contents :
            WriteNote(p, path, bytes) \/ WriteInterrupted(p, path, bytes)
  \/ AdoptDisk
  \/ \E path \in Paths : EditOutside(path)

Spec == Init /\ [][Next]_vars

-----------------------------------------------------------------------------
(* One operation at most is in doubt, a batch or an ordinary write: each   *)
(* of them refuses to start on the other's leftovers.  Recovery relies on  *)
(* it, since it has no order for two that touch the same path.             *)
OneInDoubt ==
  /\ \A b, c \in pending : b = c
  /\ manifest # NoWrite => pending = {}

(* A published batch can be rolled forward: its receipt never outlives a   *)
(* payload, however often apply, rollback and recovery are interrupted.    *)
(* And it can be rolled back: until its first record, the bytes of every   *)
(* path before the batch are in the history, whatever sweeps run.          *)
BothWaysStayOpen ==
  \A b \in pending :
    /\ Staged(b) = 1..Size(b)
    /\ (\A n \in 1..Size(b) : ~Logged(b, n)) =>
         \A path \in Affected(b.shape) : b.base[path] \in history \cup {Absent}

(* A batch leaves no trace without a receipt: bytes it wrote, and records, *)
(* belong to a batch that is pending or committed, so one that was rolled  *)
(* back shows neither on disk nor in the journal.  Each member is recorded *)
(* once, and a committed batch has all its records.                        *)
TracesMatchReceipts ==
  /\ \A path \in DOMAIN origin : origin[path] # NoBatch => origin[path] \in pending \cup committed
  /\ \A k \in DOMAIN log : log[k][1] \in pending \cup committed
  /\ \A k, l \in DOMAIN log : log[k] = log[l] => k = l
  /\ \A b \in committed : AllLogged(b)

(* Crashes and errors alone never block recovery, wherever they fall and   *)
(* however many processes try: only an edit from outside can.              *)
OnlyEditsBlock == edits = 0 => \A b \in pending : ~Blocked(b)

(* A manifest commits once, whatever confirmations it was given. *)
ManifestCommitsOnce == \A b, c \in committed : SameManifest(b, c) => b = c

(* docs/en/spec.md: recovery "rolls forward only while every path still    *)
(* has exactly its expected before or after hash".                         *)
ThirdBytesBlock ==
  [][\A p \in Procs, path \in Paths :
       proc[p].step = "roll" /\ ~proc[p].own /\ edits' = edits /\ disk'[path] # disk[path] =>
         disk[path] \in {proc[p].batch.base[path], Image(proc[p].batch)[path]}]_vars

-----------------------------------------------------------------------------
Whole == INSTANCE AtomicBatch WITH vault <- disk, doubt <- pending, applied <- told

(* Left alone by editors while it runs, a batch is all or nothing: every   *)
(* step, of apply, rollback, recovery and other writes, is AtomicBatch's.  *)
ImplementsAtomicBatch == Whole!Spec
=============================================================================
