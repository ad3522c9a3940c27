-------------------------- MODULE BatchTransactionProofs --------------------------
(***************************************************************************)
(* Proofs about organization batches, for any processes, paths, contents,  *)
(* manifests and bounds.                                                   *)
(*                                                                         *)
(* The invariants come in layers, each proved on top of the ones before:   *)
(*   PlacedInv   where each process is, with which batch, under the lock   *)
(*   DoubtInv    what each relies on about receipts and the manifest       *)
(*   RecordInv   journal and committed receipts                            *)
(*   KeepInv     payloads and prior bytes                                  *)
(*   OriginInv   whose bytes the paths hold                                *)
(*   CalmInv     the vault itself, where no editor gets in                 *)
(* A layer says what p relies on at each step; the lock keeps the others   *)
(* from changing it (LockFacts), so one lemma is about them and one, step  *)
(* by step, about p itself.  On all of them rests the refinement.          *)
(***************************************************************************)
EXTENDS BatchTransaction, TLAPS

(* The steps with a batch at hand. *)
Working == {"stage", "save", "declare", "classify", "roll", "record", "receipt", "forget",
            "unstage", "sweep", "handler", "late", "undo", "drop", "clear"}

(* Of those, the ones only apply mode takes. *)
Applying == {"stage", "save", "declare", "sweep", "handler", "late", "undo", "drop", "clear"}

(* Who is past the lock holds it. *)
Locking == \A p \in Procs : proc[p].step \in Critical <=> lock = p

(* Where p is, with which batch, and how far into it. *)
Placed(p) ==
  LET s == proc[p].step  b == proc[p].batch  n == proc[p].at IN
  /\ proc[p].call = "apply" => proc[p].job \in plans
  /\ s \in {"resolve", "preview", "check"} => proc[p].call = "apply"
  /\ proc[p].own => s \in Working
  /\ s \in Applying => proc[p].own
  /\ s \in Working => b \in plans
  /\ s \in {"stage", "record"} => n \in 1..Size(b)
  /\ s \in {"save", "roll"} => n \in 1..(2 * Size(b))
  /\ s = "undo" => n <= 2 * Size(b)

(* How p moves: to a step with what it had, or into a handler.             *)
Moves(p, step, n) == proc' = [proc EXCEPT ![p] = [proc[p] EXCEPT !.step = step, !.at = n]]

(* Where an exception takes it. *)
Errs(p) ==
  \/ Stop(p)
  \/ /\ proc[p].own /\ lock' = lock
     /\ \/ proc[p].step \in {"stage", "save", "declare"} /\ Moves(p, "handler", 1)
        \/ proc[p].step \in {"classify", "roll"} /\ Moves(p, "handler", 0)
        \/ proc[p].step \in {"record", "receipt", "forget", "unstage"} /\ Moves(p, "late", 0)

(* A validated batch changes every path it names. *)
Effective(b) == \A path \in Affected(b.shape) : b.base[path] # Image(b)[path]

(* The inductive invariant of the control state. *)
PlacedInv ==
  /\ TypeOK
  /\ Locking
  /\ \A p \in Procs : Placed(p)
  /\ pending \subseteq plans /\ committed \subseteq plans
  /\ \A b \in plans : Effective(b)

--------------------------------------------------------------------------------
(* The members of a batch. *)
LEMMA ShapeFacts ==
  ASSUME NEW b \in Batches
  PROVE  /\ Size(b) \in Nat /\ Size(b) > 0
         /\ DOMAIN b.shape = 1..Size(b)
         /\ b.base \in [Paths -> Bytes]
         /\ \A n \in 1..Size(b) : /\ b.shape[n].target \in Paths
                                  /\ b.shape[n].source \in Paths \cup {NoPath}
                                  /\ b.shape[n].after \in Contents
<1>1. b.shape \in Shapes /\ b.shape \in Seq(Members) /\ b.shape # <<>>
  BY ShapesAssumption DEF Batches
<1>2. Len(b.shape) \in Nat /\ Len(b.shape) > 0 /\ DOMAIN b.shape = 1..Len(b.shape)
  BY <1>1
<1>3. \A n \in 1..Len(b.shape) : b.shape[n] \in Members
  BY <1>1
<1> QED BY <1>2, <1>3 DEF Batches, Size, Members

(* What a batch touches are notes and files of the vault. *)
LEMMA AffectedFacts ==
  ASSUME NEW b \in Batches
  PROVE  /\ Targets(b.shape) \subseteq Paths /\ Sources(b.shape) \subseteq Paths
         /\ Affected(b.shape) \subseteq Paths /\ NoPath \notin Paths
         /\ Targets(b.shape) \cap Sources(b.shape) = {}
         /\ Affected(b.shape) = Targets(b.shape) \cup Sources(b.shape)
<1>1. Targets(b.shape) \cap Sources(b.shape) = {}
  BY ShapesAssumption DEF Batches
<1>2. \A n \in DOMAIN b.shape : /\ b.shape[n].target \in Paths
                                /\ b.shape[n].source \in Paths \cup {NoPath}
  BY ShapeFacts
<1>3. Targets(b.shape) \subseteq Paths /\ Sources(b.shape) \subseteq Paths
  BY <1>2 DEF Targets, Sources
<1> QED BY <1>1, <1>3, ConstantsAssumption DEF Affected

(* The counter of the durable steps reaches every path, and nothing else.  *)
LEMMA PathAtFacts ==
  ASSUME NEW b \in Batches
  PROVE  /\ \A n \in 1..Size(b) : /\ PathAt(b, n) = b.shape[n].target
                                  /\ PathAt(b, n) \in Targets(b.shape)
         /\ \A n \in 1..(2 * Size(b)) : n > Size(b) =>
              PathAt(b, n) = NoPath \/ PathAt(b, n) \in Sources(b.shape)
         /\ \A path \in Affected(b.shape) : \E n \in 1..(2 * Size(b)) : PathAt(b, n) = path
<1>1. Size(b) \in Nat /\ DOMAIN b.shape = 1..Size(b)
  BY ShapeFacts
<1>2. ASSUME NEW n \in 1..Size(b)
      PROVE  PathAt(b, n) = b.shape[n].target /\ PathAt(b, n) \in Targets(b.shape)
  <2>1. PathAt(b, n) = b.shape[n].target
    BY <1>1 DEF PathAt
  <2> QED BY <1>1, <2>1 DEF Targets
<1>3. ASSUME NEW n \in 1..(2 * Size(b)), n > Size(b)
      PROVE  PathAt(b, n) = NoPath \/ PathAt(b, n) \in Sources(b.shape)
  <2>1. n - Size(b) \in DOMAIN b.shape /\ PathAt(b, n) = b.shape[n - Size(b)].source
    BY <1>1, <1>3 DEF PathAt
  <2> QED BY <2>1 DEF Sources
<1>4. ASSUME NEW path \in Affected(b.shape) PROVE \E n \in 1..(2 * Size(b)) : PathAt(b, n) = path
  <2>1. CASE path \in Targets(b.shape)
    <3>1. PICK n \in 1..Size(b) : b.shape[n].target = path
      BY <1>1, <2>1 DEF Targets
    <3> QED BY <1>1, <1>2, <3>1
  <2>2. CASE path \in Sources(b.shape)
    <3>1. PICK n \in 1..Size(b) : b.shape[n].source = path
      BY <1>1, <2>2 DEF Sources
    <3>2. n + Size(b) \in 1..(2 * Size(b)) /\ PathAt(b, n + Size(b)) = path
      BY <1>1, <3>1 DEF PathAt
    <3> QED BY <3>2
  <2> QED BY <2>1, <2>2 DEF Affected
<1> QED BY <1>2, <1>3, <1>4

(* What the counter reaches is a path, unless there is nothing there. *)
LEMMA PathAtPlace ==
  ASSUME NEW b \in Batches, NEW n \in 1..(2 * Size(b)), PathAt(b, n) # NoPath
  PROVE  PathAt(b, n) \in Affected(b.shape) /\ PathAt(b, n) \in Paths
<1>1. Size(b) \in Nat
  BY ShapeFacts
<1>2. CASE n <= Size(b)
  <2>1. n \in 1..Size(b)
    BY <1>1, <1>2
  <2> QED BY <2>1, PathAtFacts, AffectedFacts
<1>3. CASE n > Size(b)
  BY <1>1, <1>3, PathAtFacts, AffectedFacts
<1> QED BY <1>1, <1>2, <1>3

(* What a batch leads to: payloads on the targets, nothing on the sources, *)
(* the rest as it was.                                                     *)
LEMMA ImageFacts ==
  ASSUME NEW b \in Batches
  PROVE  /\ Image(b) \in [Paths -> Bytes]
         /\ \A n \in 1..Size(b) : Image(b)[b.shape[n].target] = b.shape[n].after
         /\ \A path \in Sources(b.shape) : Image(b)[path] = Absent
         /\ \A path \in Paths \ Affected(b.shape) : Image(b)[path] = b.base[path]
<1>1. /\ Size(b) \in Nat /\ DOMAIN b.shape = 1..Size(b) /\ b.base \in [Paths -> Bytes]
      /\ \A n \in 1..Size(b) : b.shape[n].target \in Paths /\ b.shape[n].after \in Contents
  BY ShapeFacts
<1>2. b.shape \in Shapes
  BY DEF Batches
<1> DEFINE Here(path) == {m \in {b.shape[n] : n \in DOMAIN b.shape} : m.target = path}
           Chosen(path) == CHOOSE m \in {b.shape[n] : n \in DOMAIN b.shape} : m.target = path
<1>3. ASSUME NEW n \in 1..Size(b) PROVE Chosen(b.shape[n].target) = b.shape[n]
  <2>1. b.shape[n] \in {b.shape[k] : k \in DOMAIN b.shape}
    BY <1>1
  <2>2. /\ Chosen(b.shape[n].target) \in {b.shape[k] : k \in DOMAIN b.shape}
        /\ Chosen(b.shape[n].target).target = b.shape[n].target
    BY <2>1
  <2>3. PICK k \in DOMAIN b.shape : Chosen(b.shape[n].target) = b.shape[k]
    BY <2>2
  <2>4. b.shape[k].target = b.shape[n].target
    BY <2>2, <2>3
  <2>5. k = n
    BY <1>1, <1>2, <2>4, ShapesAssumption
  <2> QED BY <2>3, <2>5
<1>4. ASSUME NEW n \in 1..Size(b) PROVE Image(b)[b.shape[n].target] = b.shape[n].after
  <2>1. b.shape[n].target \in Targets(b.shape) /\ b.shape[n].target \in Paths
    BY <1>1 DEF Targets
  <2>2. b.shape[n].target \notin Sources(b.shape)
    BY <2>1, AffectedFacts
  <2> QED BY <1>3, <2>1, <2>2 DEF Image
<1>5. ASSUME NEW path \in Paths PROVE Image(b)[path] \in Bytes
  <2>1. CASE path \in Sources(b.shape)
    BY <2>1 DEF Image, Bytes
  <2>2. CASE path \in Targets(b.shape)
    <3>1. PICK n \in 1..Size(b) : path = b.shape[n].target
      BY <1>1, <2>2 DEF Targets
    <3> QED BY <1>1, <1>4, <3>1 DEF Bytes
  <2>3. CASE path \notin Sources(b.shape) /\ path \notin Targets(b.shape)
    BY <1>1, <2>3 DEF Image
  <2> QED BY <2>1, <2>2, <2>3
<1>6. Image(b) \in [Paths -> Bytes]
  <2>1. Image(b) = [path \in Paths |-> Image(b)[path]]
    BY DEF Image
  <2> QED BY <1>5, <2>1
<1>7. \A path \in Sources(b.shape) : Image(b)[path] = Absent
  BY AffectedFacts DEF Image
<1>8. \A path \in Paths \ Affected(b.shape) : Image(b)[path] = b.base[path]
  BY DEF Image, Affected
<1> QED BY <1>4, <1>6, <1>7, <1>8
--------------------------------------------------------------------------------
(* What Goto, Caught and Advance do.                                       *)
LEMMA MoveFacts ==
  ASSUME TypeOK, NEW p \in Procs
  PROVE  /\ Caught(p) => Errs(p)
         /\ \A s, n : Goto(p, s, n) => Moves(p, s, n)
         /\ \A s, n : Advance(p, s, n) =>
              \/ Moves(p, s, n) /\ lock' = lock /\ faults' = faults
              \/ Errs(p) /\ faults' = faults + 1
<1>1. \A s, n : Goto(p, s, n) => Moves(p, s, n)
  <2> SUFFICES ASSUME NEW s, NEW n, Goto(p, s, n) PROVE Moves(p, s, n)
    OBVIOUS
  <2>1. proc \in [Procs -> States]
    BY DEF TypeOK
  <2> QED BY <2>1 DEF Moves, Goto, States
<1>2. Caught(p) => Errs(p)
  BY <1>1 DEF Caught, Errs
<1> QED BY <1>1, <1>2 DEF Advance, Raise

(* And to the other processes: nothing.                                    *)
LEMMA MoveAlone ==
  ASSUME TypeOK, NEW p \in Procs
  PROVE  /\ Stop(p) => proc'[p] = Idle /\ \A q \in Procs \ {p} : proc'[q] = proc[q]
         /\ \A s, n : Moves(p, s, n) =>
              /\ proc'[p] = [proc[p] EXCEPT !.step = s, !.at = n]
              /\ \A q \in Procs \ {p} : proc'[q] = proc[q]
BY DEF TypeOK, Stop, Moves

(* The moves that change more than the step. *)
LEMMA WideMoves ==
  ASSUME TypeOK, NEW p \in Procs
  PROVE  /\ RecoverBatch(p) => \E b \in pending :
              /\ proc[p].step = "recover" /\ pending = {b} /\ ~Blocked(b)
              /\ proc' = [proc EXCEPT ![p] = [proc[p] EXCEPT !.step = "classify", !.batch = b,
                                                             !.own = FALSE]]
         /\ Unresolved(p) =>
              proc' = [proc EXCEPT ![p] = [proc[p] EXCEPT !.step = "preview", !.phase = "commit"]]
         /\ CheckAccept(p) =>
              proc' = [proc EXCEPT ![p] = [proc[p] EXCEPT !.step = "stage", !.at = 1, !.own = TRUE,
                                                          !.batch = proc[p].job]]
<1>1. proc \in [Procs -> States]
  BY DEF TypeOK
<1>2. ASSUME NEW b \in pending,
             proc' = [proc EXCEPT ![p].step = "classify", ![p].batch = b, ![p].own = FALSE]
      PROVE  proc' = [proc EXCEPT ![p] = [proc[p] EXCEPT !.step = "classify", !.batch = b,
                                                         !.own = FALSE]]
  BY <1>1, <1>2 DEF States
<1>3. RecoverBatch(p) => \E b \in pending :
              /\ proc[p].step = "recover" /\ pending = {b} /\ ~Blocked(b)
              /\ proc' = [proc EXCEPT ![p] = [proc[p] EXCEPT !.step = "classify", !.batch = b,
                                                             !.own = FALSE]]
  BY <1>2 DEF RecoverBatch
<1>4. Unresolved(p) =>
        proc' = [proc EXCEPT ![p] = [proc[p] EXCEPT !.step = "preview", !.phase = "commit"]]
  BY <1>1 DEF Unresolved, States
<1>5. CheckAccept(p) =>
        proc' = [proc EXCEPT ![p] = [proc[p] EXCEPT !.step = "stage", !.at = 1, !.own = TRUE,
                                                    !.batch = proc[p].job]]
  BY <1>1 DEF CheckAccept, States
<1> QED BY <1>3, <1>4, <1>5

(* Moves keep the types. *)
LEMMA MoveTypes ==
  ASSUME TypeOK, NEW p \in Procs
  PROVE  /\ Idle \in States
         /\ Errs(p) => proc' \in [Procs -> States] /\ lock' \in Procs \cup {NoProc}
         /\ \A s \in Steps, n \in Nat : Moves(p, s, n) => proc' \in [Procs -> States]
<1>1. Idle \in States
  BY DEF Idle, States, Steps
<1>2. \A s \in Steps, n \in Nat : [proc[p] EXCEPT !.step = s, !.at = n] \in States
  BY DEF TypeOK, States
<1>3. \A s \in Steps, n \in Nat : Moves(p, s, n) => proc' \in [Procs -> States]
  BY <1>2 DEF Moves, TypeOK
<1>4. Stop(p) => proc' \in [Procs -> States] /\ lock' \in Procs \cup {NoProc}
  BY <1>1 DEF Stop, TypeOK
<1>5. {"handler", "late"} \subseteq Steps /\ {0, 1} \subseteq Nat
  BY DEF Steps
<1> QED BY <1>1, <1>3, <1>4, <1>5 DEF Errs, TypeOK

--------------------------------------------------------------------------------
(* The variables have their types. *)
LEMMA TypesStay ==
  ASSUME PlacedInv, [Next]_vars PROVE TypeOK'
<1> USE DEF TypeOK
<1>0. TypeOK
  BY DEF PlacedInv
<1>1. ASSUME NEW p \in Procs
      PROVE  /\ Placed(p)
             /\ plans \subseteq Batches /\ proc[p] \in States
  BY DEF PlacedInv
<1>2. ASSUME NEW shape \in Shapes, Preview(shape) PROVE TypeOK'
  <2>1. [shape |-> shape, base |-> disk] \in Batches
    BY <1>0 DEF Batches
  <2> QED BY <1>0, <1>2, <2>1 DEF Preview, durable
<1>3. ASSUME NEW p \in Procs, Begin(p) PROVE TypeOK'
  <2>1. \A b \in plans : [Idle EXCEPT !.step = "waiting", !.call = "apply", !.job = b] \in States
    BY <1>0 DEF Idle, States, Steps
  <2>2. \A call \in {"restart", "write"} :
          [Idle EXCEPT !.step = "waiting", !.call = call] \in States
    BY <1>0 DEF Idle, States, Steps
  <2> QED BY <1>0, <1>3, <2>1, <2>2 DEF Begin, durable
<1>4. ASSUME NEW p \in Procs, Acquire(p) PROVE TypeOK'
  BY <1>0, <1>4, MoveFacts, MoveTypes DEF Acquire, durable, Steps
<1>5. ASSUME NEW p \in Procs, Timeout(p) PROVE TypeOK'
  BY <1>0, <1>5, MoveTypes DEF Timeout, durable, Errs
<1>6. ASSUME NEW p \in Procs, RecoverNothing(p) PROVE TypeOK'
  BY <1>0, <1>6, MoveFacts, MoveTypes DEF RecoverNothing, Steps
<1>7. ASSUME NEW p \in Procs, RecoverRefused(p) \/ FinishRefused(p) \/ CheckRefuse(p)
      PROVE  TypeOK'
  BY <1>0, <1>7, MoveTypes DEF RecoverRefused, FinishRefused, CheckRefuse, durable, Errs
<1>8. ASSUME NEW p \in Procs, RecoverBatch(p) PROVE TypeOK'
  <2>1. PICK b \in pending :
          proc' = [proc EXCEPT ![p] = [proc[p] EXCEPT !.step = "classify", !.batch = b,
                                                      !.own = FALSE]]
    BY <1>0, <1>8, WideMoves
  <2>2. [proc[p] EXCEPT !.step = "classify", !.batch = b, !.own = FALSE] \in States
    BY <1>0, <1>1 DEF States, Steps
  <2> QED BY <1>0, <1>8, <2>1, <2>2 DEF RecoverBatch, durable
<1>9. ASSUME NEW p \in Procs, Finish(p) PROVE TypeOK'
  <2>1. history' \subseteq Contents
    BY <1>0, <1>9 DEF Finish, Purge
  <2> QED BY <1>0, <1>9, <2>1, MoveFacts, MoveTypes DEF Finish, Steps, Errs
<1>10. ASSUME NEW p \in Procs, Answered(p) PROVE TypeOK'
  <2>1. told' \subseteq Batches
    BY <1>0, <1>10 DEF Answered
  <2> QED BY <1>0, <1>10, <2>1, MoveTypes DEF Answered, durable, Errs
<1>11. ASSUME NEW p \in Procs, Unresolved(p) PROVE TypeOK'
  <2>1. [proc[p] EXCEPT !.step = "preview", !.phase = "commit"] \in States
    BY <1>1 DEF States, Steps
  <2> QED BY <1>0, <1>11, <2>1, WideMoves DEF Unresolved, durable
<1>12. ASSUME NEW p \in Procs, Confirm(p) PROVE TypeOK'
  BY <1>0, <1>12, MoveFacts, MoveTypes DEF Confirm, durable, Steps, Errs
<1>13. ASSUME NEW p \in Procs, CheckAccept(p) PROVE TypeOK'
  <2>1. proc[p].job \in Batches
    BY <1>1, <1>13 DEF CheckAccept, Placed
  <2>2. [proc[p] EXCEPT !.step = "stage", !.at = 1, !.own = TRUE, !.batch = proc[p].job] \in States
    BY <1>1, <2>1 DEF States, Steps
  <2> QED BY <1>0, <1>13, <2>2, WideMoves DEF CheckAccept, durable
<1>14. ASSUME NEW p \in Procs, StagePayload(p) PROVE TypeOK'
  <2>1. proc[p].batch \in Batches /\ proc[p].at \in Nat \ {0}
    BY <1>1, <1>14 DEF StagePayload, Placed, Working
  <2> QED BY <1>0, <1>14, <2>1, MoveFacts, MoveTypes DEF StagePayload, Steps
<1>15. ASSUME NEW p \in Procs, SaveHistory(p) PROVE TypeOK'
  <2> DEFINE b == proc[p].batch
             n == proc[p].at
  <2>1. n \in Nat /\ n <= 2 * Size(b) /\ b \in Batches
    BY <1>1, <1>15, ShapeFacts DEF SaveHistory, Placed, Working
  <2>2. PathAt(b, n) \in Paths \/ PathAt(b, n) = NoPath
    BY <1>1, <1>15, <2>1, PathAtFacts, AffectedFacts, ShapeFacts DEF SaveHistory, Placed
  <2>3. history' \subseteq Contents
    BY <1>0, <1>15, <2>2 DEF SaveHistory, Bytes
  <2>4. \/ Errs(p) /\ (faults' = faults \/ faults' = faults + 1)
        \/ \E s \in Steps, k \in Nat : Moves(p, s, k) /\ faults' = faults /\ lock' = lock
    BY <1>0, <1>15, <2>1, MoveFacts DEF SaveHistory, EachPath, Steps
  <2> QED BY <1>0, <1>15, <2>3, <2>4, MoveTypes DEF SaveHistory
<1>16. ASSUME NEW p \in Procs, WritePending(p) PROVE TypeOK'
  <2>1. proc[p].batch \in Batches
    BY <1>1, <1>16 DEF WritePending, Placed, Working
  <2> QED BY <1>0, <1>16, <2>1, MoveFacts, MoveTypes DEF WritePending, Steps
<1>17. ASSUME NEW p \in Procs, Classify(p) PROVE TypeOK'
  BY <1>0, <1>17, MoveFacts, MoveTypes DEF Classify, Steps, durable
<1>18. ASSUME NEW p \in Procs, RollForward(p) PROVE TypeOK'
  <2> DEFINE b == proc[p].batch
             n == proc[p].at
  <2>1. n \in Nat /\ n <= 2 * Size(b) /\ b \in Batches
    BY <1>1, <1>18, ShapeFacts DEF RollForward, Placed, Working
  <2>2. PathAt(b, n) \in Paths \/ PathAt(b, n) = NoPath
    BY <1>1, <1>18, <2>1, PathAtFacts, AffectedFacts, ShapeFacts DEF RollForward, Placed
  <2>3. disk' \in [Paths -> Bytes] /\ origin' \in [Paths -> Batches \cup {NoBatch}]
    BY <1>0, <1>18, <2>1, <2>2, ImageFacts, AffectedFacts DEF RollForward
  <2>4. \/ Errs(p) /\ faults' = faults + 1
        \/ \E s \in Steps, k \in Nat : Moves(p, s, k) /\ faults' = faults /\ lock' = lock
    BY <1>0, <1>18, <2>1, MoveFacts DEF RollForward, EachPath, AfterBytes, Steps
  <2> QED BY <1>0, <1>18, <2>3, <2>4, MoveTypes DEF RollForward
<1>19. ASSUME NEW p \in Procs, AppendRecord(p) PROVE TypeOK'
  <2>1. proc[p].batch \in Batches /\ proc[p].at \in Nat \ {0}
    BY <1>1, <1>19 DEF AppendRecord, Placed, Working
  <2>2. log' \in Seq(Batches \X (Nat \ {0}))
    BY <1>0, <1>19, <2>1 DEF AppendRecord
  <2> QED BY <1>0, <1>19, <2>1, <2>2, MoveFacts, MoveTypes DEF AppendRecord, Steps
<1>20. ASSUME NEW p \in Procs, WriteResult(p) PROVE TypeOK'
  <2>1. proc[p].batch \in Batches
    BY <1>1, <1>20 DEF WriteResult, Placed, Working
  <2> QED BY <1>0, <1>20, <2>1, MoveFacts, MoveTypes DEF WriteResult, Steps
<1>21. ASSUME NEW p \in Procs, RemovePending(p) PROVE TypeOK'
  BY <1>0, <1>21, MoveFacts, MoveTypes DEF RemovePending, Steps
<1>22. ASSUME NEW p \in Procs, RemoveStage(p) PROVE TypeOK'
  BY <1>0, <1>22, MoveFacts, MoveTypes DEF RemoveStage, Unstaged, Steps
<1>23. ASSUME NEW p \in Procs, Succeed(p) PROVE TypeOK'
  <2>1. proc[p].batch \in Batches
    BY <1>1, <1>23 DEF Succeed, Placed, Working
  <2> QED BY <1>0, <1>23, <2>1, MoveTypes DEF Succeed, Purge, Errs
<1>24. ASSUME NEW p \in Procs, Handle(p) PROVE TypeOK'
  <2>1. proc[p].batch \in Batches
    BY <1>1, <1>24 DEF Handle, Placed, Working
  <2>2. 2 * Size(proc[p].batch) \in Nat
    BY <2>1, ShapeFacts
  <2> QED BY <1>0, <1>24, <2>2, MoveFacts, MoveTypes DEF Handle, Unstaged, Steps, Errs
<1>25. ASSUME NEW p \in Procs, Undo(p) PROVE TypeOK'
  <2> DEFINE b == proc[p].batch
             n == proc[p].at
  <2>1. n \in 1..(2 * Size(b)) /\ b \in Batches /\ n - 1 \in Nat
    BY <1>1, <1>25, ShapeFacts DEF Undo, Placed, Working, States
  <2>2. PathAt(b, n) \in Paths \/ PathAt(b, n) = NoPath
    BY <2>1, PathAtFacts, AffectedFacts, ShapeFacts
  <2>3. b.base \in [Paths -> Bytes]
    BY <2>1, ShapeFacts
  <2>4. disk' \in [Paths -> Bytes] /\ origin' \in [Paths -> Batches \cup {NoBatch}]
    BY <1>0, <1>25, <2>2, <2>3 DEF Undo
  <2>5. \/ Errs(p) /\ (faults' = faults \/ faults' = faults + 1)
        \/ \E s \in Steps, k \in Nat : Moves(p, s, k) /\ faults' = faults /\ lock' = lock
    BY <1>0, <1>25, <2>1, MoveFacts DEF Undo, Steps, Errs
  <2> QED BY <1>0, <1>25, <2>4, <2>5, MoveTypes DEF Undo
<1>26. ASSUME NEW p \in Procs, Verify(p) PROVE TypeOK'
  BY <1>0, <1>26, MoveFacts, MoveTypes DEF Verify, Steps, durable, Errs
<1>27. ASSUME NEW p \in Procs, DropPending(p) PROVE TypeOK'
  BY <1>0, <1>27, MoveFacts, MoveTypes DEF DropPending, Steps
<1>28. ASSUME NEW p \in Procs, ClearStage(p) PROVE TypeOK'
  BY <1>0, <1>28, MoveTypes DEF ClearStage, Unstaged, Errs
<1>29. ASSUME NEW p \in Procs, Fails(p) \/ Crash(p) PROVE TypeOK'
  BY <1>0, <1>29, MoveFacts, MoveTypes DEF Fails, Raise, Crash, Errs, durable
<1>30. ASSUME NEW p \in Procs, NEW path \in Paths, NEW bytes \in Contents,
              WriteNote(p, path, bytes)
       PROVE  TypeOK'
  BY <1>0, <1>30, MoveTypes DEF WriteNote, Bytes, Errs
<1>31. ASSUME NEW p \in Procs, NEW path \in Paths, NEW bytes \in Contents,
              WriteInterrupted(p, path, bytes)
       PROVE  TypeOK'
  <2>1. manifest' \in Writes /\ history' \subseteq Contents
    BY <1>0, <1>31 DEF WriteInterrupted, Bytes, Writes
  <2>2. disk' \in [Paths -> Bytes] /\ origin' \in [Paths -> Batches \cup {NoBatch}]
    BY <1>0, <1>31 DEF WriteInterrupted, Bytes
  <2> QED BY <1>0, <1>31, <2>1, <2>2, MoveTypes DEF WriteInterrupted, Errs
<1>32. CASE AdoptDisk
  BY <1>0, <1>32 DEF AdoptDisk
<1>33. ASSUME NEW path \in Paths, EditOutside(path) PROVE TypeOK'
  BY <1>0, <1>33 DEF EditOutside
<1>34. CASE UNCHANGED vars
  BY <1>0, <1>34 DEF vars, durable
<1> QED
  BY <1>2, <1>3, <1>4, <1>5, <1>6, <1>7, <1>8, <1>9, <1>10, <1>11, <1>12, <1>13, <1>14, <1>15,
     <1>16, <1>17, <1>18, <1>19, <1>20, <1>21, <1>22, <1>23, <1>24, <1>25, <1>26, <1>27, <1>28,
     <1>29, <1>30, <1>31, <1>32, <1>33, <1>34
  DEF Next, Recover, Decide, Apply, RollBack

--------------------------------------------------------------------------------
(* A step of p, and what it never does: validate a batch, move another     *)
(* process, or change anything durable without the lock.                   *)
Acting(p) ==
  \/ Begin(p) \/ Acquire(p) \/ Timeout(p)
  \/ Recover(p) \/ Decide(p) \/ Apply(p) \/ RollBack(p)
  \/ Fails(p) \/ Crash(p)
  \/ \E path \in Paths, bytes \in Contents :
       WriteNote(p, path, bytes) \/ WriteInterrupted(p, path, bytes)

(* Validated batches, edits and the other processes are left alone. *)
LEMMA OthersStay ==
  ASSUME TypeOK, NEW p \in Procs, Acting(p)
  PROVE  /\ plans' = plans /\ edits' = edits
         /\ \A q \in Procs \ {p} : proc'[q] = proc[q]
<1> DEFINE Elsewhere == \A q \in Procs \ {p} : proc'[q] = proc[q]
<1>1. (\E s, n : Moves(p, s, n)) \/ Stop(p) \/ Errs(p) => Elsewhere
  BY MoveAlone DEF Errs
<1>2. CASE Begin(p) \/ Acquire(p) \/ Timeout(p)
  BY <1>1, <1>2, MoveFacts DEF Begin, Acquire, Timeout, TypeOK
<1>3. CASE Recover(p)
  BY <1>1, <1>3, WideMoves, MoveFacts
  DEF Recover, RecoverNothing, RecoverRefused, RecoverBatch, Finish, FinishRefused, TypeOK
<1>4. CASE Decide(p)
  BY <1>1, <1>4, WideMoves, MoveFacts
  DEF Decide, Answered, Unresolved, Confirm, CheckAccept, CheckRefuse, TypeOK
<1>5. CASE Apply(p)
  BY <1>1, <1>5, MoveFacts
  DEF Apply, StagePayload, SaveHistory, WritePending, Classify, RollForward, AppendRecord,
      WriteResult, RemovePending, RemoveStage, Succeed, EachPath
<1>6. CASE RollBack(p)
  BY <1>1, <1>6, MoveFacts DEF RollBack, Handle, Undo, Verify, DropPending, ClearStage
<1>7. CASE Fails(p) \/ Crash(p)
  BY <1>1, <1>7, MoveFacts DEF Fails, Raise, Crash
<1>8. CASE \E path \in Paths, bytes \in Contents :
             WriteNote(p, path, bytes) \/ WriteInterrupted(p, path, bytes)
  BY <1>1, <1>8 DEF WriteNote, WriteInterrupted
<1> QED
  BY <1>2, <1>3, <1>4, <1>5, <1>6, <1>7, <1>8 DEF Acting

(* While q is past the lock, what p does changes nothing durable. *)
LEMMA LockFacts ==
  ASSUME PlacedInv, NEW p \in Procs, Acting(p), NEW q \in Procs \ {p}
  PROVE  \/ proc[q].step \notin Critical
         \/ UNCHANGED <<durable, origin, told>> /\ proc[p].step \notin Critical
<1>1. proc[p].step \in Critical => lock = p /\ proc[q].step \notin Critical
  BY DEF PlacedInv, Locking
<1>2. proc[p].step \notin Critical => proc[p].step \in {"idle", "waiting", "preview"}
  BY DEF PlacedInv, TypeOK, States, Critical
<1>3. proc[p].step \in {"idle", "waiting", "preview"} =>
        Begin(p) \/ Acquire(p) \/ Timeout(p) \/ Confirm(p)
  BY DEF Acting, Recover, RecoverNothing, RecoverRefused, RecoverBatch, Finish, FinishRefused,
    Decide, Answered, Unresolved, CheckAccept, CheckRefuse, Apply, StagePayload, SaveHistory,
    WritePending, Classify, RollForward, AppendRecord, WriteResult, RemovePending, RemoveStage,
    Succeed, RollBack, Handle, Undo, Verify, DropPending, ClearStage, Fails, Crash,
    WriteNote, WriteInterrupted
<1> QED BY <1>1, <1>2, <1>3 DEF Begin, Acquire, Timeout, Confirm

--------------------------------------------------------------------------------
(* The lock goes with the critical steps. *)
LEMMA LockMoves ==
  ASSUME PlacedInv, NEW p \in Procs
  PROVE  /\ Stop(p) => Locking'
         /\ \A r \in States :
              (/\ proc[p].step \in Critical /\ r.step \in Critical
               /\ lock' = lock /\ proc' = [proc EXCEPT ![p] = r]) => Locking'
         /\ proc[p].step \in Critical /\ Errs(p) => Locking'
<1> USE DEF PlacedInv, TypeOK, Locking
<1>1. Stop(p) => Locking'
  BY ConstantsAssumption DEF Stop, Idle, Critical
<1>2. ASSUME NEW r \in States, proc[p].step \in Critical, r.step \in Critical,
             lock' = lock, proc' = [proc EXCEPT ![p] = r]
      PROVE  Locking'
  BY <1>2
<1>3. ASSUME NEW s \in {"handler", "late"}, NEW n \in {0, 1}
      PROVE  [proc[p] EXCEPT !.step = s, !.at = n] \in States /\ s \in Critical
  <2>1. proc[p] \in States
    OBVIOUS
  <2> HIDE DEF PlacedInv, TypeOK, Locking
  <2>2. s \in Steps /\ s \in Critical /\ n \in Nat
    BY <1>3 DEF Critical, Steps
  <2> QED BY <2>1, <2>2 DEF States
<1>4. ASSUME NEW s \in {"handler", "late"}, NEW n \in {0, 1},
             proc[p].step \in Critical, lock' = lock, Moves(p, s, n)
      PROVE  Locking'
  <2>1. [proc[p] EXCEPT !.step = s, !.at = n].step = s
    BY DEF States
  <2> QED BY <1>2, <1>3, <1>4, <2>1 DEF Moves
<1> QED BY <1>1, <1>2, <1>4 DEF Errs

(* One of the critical steps follows another. *)
LEMMA CriticalMoves ==
  ASSUME PlacedInv, NEW p \in Procs, proc[p].step \in Critical
  PROVE  \A s \in Critical, n \in Nat : Moves(p, s, n) /\ lock' = lock => Locking'
<1> SUFFICES ASSUME NEW s \in Critical, NEW n \in Nat, Moves(p, s, n), lock' = lock
             PROVE  Locking'
  OBVIOUS
<1>1. /\ [proc[p] EXCEPT !.step = s, !.at = n] \in States
      /\ [proc[p] EXCEPT !.step = s, !.at = n].step = s
  BY DEF PlacedInv, TypeOK, States, Critical
<1> QED BY <1>1, LockMoves DEF Moves

(* An error leaves p in a place that fits. *)
LEMMA ErrPlaced ==
  ASSUME PlacedInv, NEW p \in Procs, Errs(p), plans' = plans
  PROVE  Placed(p)'
<1>1. Placed(p) /\ proc[p] \in States
  BY DEF PlacedInv, TypeOK
<1>2. CASE Stop(p)
  <2>1. proc'[p] = Idle
    BY <1>2, MoveAlone DEF PlacedInv
  <2> QED BY <2>1 DEF Placed, Idle, Working, Applying
<1>3. ASSUME NEW s \in {"handler", "late"}, NEW n, Moves(p, s, n), proc[p].own PROVE Placed(p)'
  <2>1. TypeOK
    BY DEF PlacedInv
  <2>2. /\ proc'[p].step = s /\ proc'[p].call = proc[p].call /\ proc'[p].job = proc[p].job
        /\ proc'[p].batch = proc[p].batch /\ proc'[p].own
    BY <1>1, <1>3, <2>1 DEF States, Moves, TypeOK
  <2>3. proc[p].batch \in plans
    BY <1>1, <1>3 DEF Placed
  <2> QED BY <1>1, <1>3, <2>2, <2>3 DEF Placed, Working, Applying
<1> QED BY <1>2, <1>3 DEF Errs

(* What a move leaves of a process's state. *)
LEMMA MoveFields ==
  ASSUME TypeOK, NEW p \in Procs, NEW s \in Steps, NEW n \in Nat, Moves(p, s, n)
  PROVE  /\ proc'[p].step = s /\ proc'[p].at = n
         /\ proc'[p].call = proc[p].call /\ proc'[p].job = proc[p].job
         /\ proc'[p].batch = proc[p].batch /\ proc'[p].own = proc[p].own
         /\ proc'[p].phase = proc[p].phase
BY DEF TypeOK, Moves, States

(* The counter fits the step and the batch. *)
Fits(b, s, n) ==
  /\ s \in {"stage", "record"} => n \in 1..Size(b)
  /\ s \in {"save", "roll"} => n \in 1..(2 * Size(b))
  /\ s = "undo" => n <= 2 * Size(b)

(* A durable step of a batch, whether it goes well or not. *)
LEMMA WorkPlaced ==
  ASSUME PlacedInv, NEW p \in Procs, NEW s \in Working, NEW n \in Nat,
         proc[p].step \in Working, s \in Applying => proc[p].own, Fits(proc[p].batch, s, n),
         Advance(p, s, n) \/ (Goto(p, s, n) /\ lock' = lock), plans' = plans
  PROVE  Locking' /\ Placed(p)'
<1>1. /\ TypeOK /\ Placed(p) /\ s \in Steps /\ s \in Critical /\ proc[p].step \in Critical
      /\ s \notin {"resolve", "preview", "check"}
  BY DEF PlacedInv, Working, Critical, Steps
<1>2. CASE Errs(p)
  BY <1>1, <1>2, LockMoves, ErrPlaced
<1>3. CASE Moves(p, s, n) /\ lock' = lock
  <2>1. Locking'
    BY <1>1, <1>3, CriticalMoves
  <2>2. /\ proc'[p].step = s /\ proc'[p].at = n
        /\ proc'[p].call = proc[p].call /\ proc'[p].job = proc[p].job
        /\ proc'[p].batch = proc[p].batch /\ proc'[p].own = proc[p].own
    BY <1>1, <1>3, MoveFields
  <2>3. proc[p].batch \in plans
    BY <1>1 DEF Placed
  <2> QED BY <1>1, <2>1, <2>2, <2>3 DEF Placed, Fits
<1> QED BY <1>1, <1>2, <1>3, MoveFacts

(* So do a stop, and a step outside a batch. *)
LEMMA PlainPlaced ==
  ASSUME PlacedInv, NEW p \in Procs, plans' = plans
  PROVE  /\ Stop(p) => Locking' /\ Placed(p)'
         /\ \A s \in {"recover", "finish", "write"} :
              Goto(p, s, 0) /\ proc[p].step \in Critical /\ ~proc'[p].own /\ lock' = lock
              => Locking' /\ Placed(p)'
<1>1. TypeOK /\ Placed(p)
  BY DEF PlacedInv
<1>2. Stop(p) => Locking' /\ Placed(p)'
  BY LockMoves, ErrPlaced DEF Errs
<1>3. ASSUME NEW s \in {"recover", "finish", "write"}, Goto(p, s, 0), proc[p].step \in Critical,
             ~proc'[p].own, lock' = lock
      PROVE  Locking' /\ Placed(p)'
  <2>1. s \in Steps /\ s \in Critical /\ Moves(p, s, 0)
    BY <1>1, <1>3, MoveFacts DEF Steps, Critical
  <2>2. Locking'
    BY <1>3, <2>1, CriticalMoves
  <2> QED BY <1>1, <1>3, <2>1, <2>2, MoveFields DEF Placed, Working, Applying
<1> QED BY <1>2, <1>3

(* Every step leaves its process in a place that fits. *)
LEMMA PlaceOfActor ==
  ASSUME PlacedInv, NEW p \in Procs, Acting(p) PROVE Locking' /\ Placed(p)'
<1>1. /\ TypeOK /\ Locking /\ Placed(p) /\ plans' = plans /\ proc[p] \in States
      /\ \A b \in Batches : Size(b) \in Nat /\ Size(b) > 0
      /\ \A b \in plans : b \in Batches
  BY OthersStay, ShapeFacts DEF PlacedInv, TypeOK
<1> DEFINE b == proc[p].batch
           n == proc[p].at
           AtWork == proc[p].step \in Working /\ proc[p].step \in Critical /\ b \in Batches
<1>2. \A s \in Working : proc[p].step = s => AtWork
  BY <1>1 DEF Placed, Working, Critical, Steps
<1>3. CASE Begin(p)
  <2>1. PICK r \in States : /\ proc' = [proc EXCEPT ![p] = r] /\ r.step = "waiting" /\ ~r.own
                            /\ r.call = "apply" => r.job \in plans
    <3>1. \A j \in plans : [Idle EXCEPT !.step = "waiting", !.call = "apply", !.job = j] \in States
      BY <1>1 DEF Idle, States, Steps
    <3>2. \A call \in {"restart", "write"} :
            [Idle EXCEPT !.step = "waiting", !.call = call] \in States
      BY <1>1 DEF Idle, States, Steps
    <3> QED BY <1>3, <3>1, <3>2 DEF Begin, Idle
  <2>2. proc'[p] = r /\ \A q \in Procs \ {p} : proc'[q] = proc[q]
    BY <1>1, <2>1 DEF TypeOK
  <2>3. proc[p].step \notin Critical /\ r.step \notin Critical /\ lock' = lock
    BY <1>3, <2>1 DEF Begin, Critical
  <2>4. Locking'
    BY <1>1, <2>2, <2>3 DEF Locking
  <2> QED BY <1>1, <2>1, <2>2, <2>4 DEF Placed, Working, Applying
<1>4. CASE Acquire(p)
  <2>1. PICK s \in {"recover", "finish"} : Moves(p, s, 0)
    BY <1>1, <1>4, MoveFacts DEF Acquire
  <2>2. s \in Steps /\ s \in Critical
    BY DEF Steps, Critical
  <2>3. proc'[p].step = s /\ \A q \in Procs \ {p} : proc'[q] = proc[q]
    BY <1>1, <2>1, <2>2, MoveFields, MoveAlone
  <2>4. Locking'
    BY <1>1, <1>4, <2>2, <2>3, ConstantsAssumption DEF Locking, Acquire
  <2>5. ~proc[p].own
    BY <1>1, <1>4 DEF Acquire, Placed, Working
  <2> QED BY <1>1, <2>1, <2>2, <2>4, <2>5, MoveFields DEF Placed, Working, Applying
<1>5. CASE Timeout(p) \/ RecoverRefused(p) \/ FinishRefused(p) \/ CheckRefuse(p) \/ Answered(p)
  BY <1>1, <1>5, PlainPlaced DEF Timeout, RecoverRefused, FinishRefused, CheckRefuse, Answered
<1>6. CASE RecoverNothing(p)
  <2>1. ~proc'[p].own
    <3>1. ~proc[p].own /\ Moves(p, "finish", 0)
      BY <1>1, <1>6, MoveFacts DEF RecoverNothing, Placed, Working
    <3> QED BY <1>1, <3>1, MoveFields DEF Steps
  <2>2. proc[p].step \in Critical
    BY <1>6 DEF RecoverNothing, Critical, Steps
  <2> QED BY <1>1, <1>6, <2>1, <2>2, PlainPlaced DEF RecoverNothing
<1>7. CASE RecoverBatch(p)
  <2>1. PICK c \in pending :
          proc' = [proc EXCEPT ![p] = [proc[p] EXCEPT !.step = "classify", !.batch = c,
                                                      !.own = FALSE]]
    BY <1>1, <1>7, WideMoves
  <2> DEFINE r == [proc[p] EXCEPT !.step = "classify", !.batch = c, !.own = FALSE]
  <2>2. c \in plans /\ c \in Batches
    BY <1>1 DEF PlacedInv
  <2>3. /\ r \in States /\ r.step = "classify" /\ r.batch = c /\ ~r.own
        /\ r.call = proc[p].call /\ r.job = proc[p].job
    BY <1>1, <2>2 DEF States, Steps
  <2> HIDE DEF r
  <2>4. proc'[p] = r
    BY <1>1, <2>1 DEF TypeOK, r
  <2>5. proc[p].step \in Critical /\ r.step \in Critical /\ lock' = lock
    BY <1>7, <2>3 DEF RecoverBatch, Critical, Steps
  <2>6. Locking'
    BY <2>1, <2>3, <2>5, LockMoves DEF r
  <2> QED BY <1>1, <2>2, <2>3, <2>4, <2>6 DEF Placed, Working, Applying
<1>8. CASE Finish(p)
  <2>1. /\ proc[p].step \in Critical /\ ~proc[p].own
        /\ {"resolve", "check", "write"} \subseteq Steps /\ {"resolve", "check"} \subseteq Critical
    BY <1>1, <1>8 DEF Finish, Critical, Steps, Placed, Working
  <2>2. CASE Stop(p)
    BY <1>1, <2>2, PlainPlaced
  <2>3. CASE Goto(p, "write", 0) /\ lock' = lock
    <3>1. ~proc'[p].own
      BY <1>1, <2>1, <2>3, MoveFacts, MoveFields
    <3> QED BY <1>1, <2>1, <2>3, <3>1, PlainPlaced
  <2>4. ASSUME proc[p].call = "apply", NEW s \in {"resolve", "check"}, Goto(p, s, 0), lock' = lock
        PROVE  Locking' /\ Placed(p)'
    <3>1. Moves(p, s, 0) /\ s \in Critical /\ s \in Steps
      BY <1>1, <2>1, <2>4, MoveFacts
    <3>2. Locking'
      BY <2>1, <2>4, <3>1, CriticalMoves
    <3> QED BY <1>1, <2>1, <2>4, <3>1, <3>2, MoveFields DEF Placed, Working, Applying
  <2> QED BY <1>8, <2>2, <2>3, <2>4 DEF Finish
<1>9. CASE Unresolved(p)
  <2> DEFINE r == [proc[p] EXCEPT !.step = "preview", !.phase = "commit"]
  <2>1. proc' = [proc EXCEPT ![p] = r]
    BY <1>1, <1>9, WideMoves
  <2>2. /\ r \in States /\ r.step = "preview" /\ r.own = proc[p].own
        /\ r.call = proc[p].call /\ r.job = proc[p].job
    BY <1>1 DEF States, Steps
  <2> HIDE DEF r
  <2>3. proc'[p] = r /\ \A q \in Procs \ {p} : proc'[q] = proc[q]
    BY <1>1, <2>1 DEF TypeOK
  <2>4. lock = p /\ r.step \notin Critical /\ lock' = NoProc
    BY <1>1, <1>9, <2>2 DEF Unresolved, Locking, Critical, Steps
  <2>5. Locking'
    BY <1>1, <2>3, <2>4, ConstantsAssumption DEF Locking
  <2> QED BY <1>1, <1>9, <2>2, <2>3, <2>5 DEF Placed, Working, Applying, Unresolved
<1>10. CASE Confirm(p)
  <2>1. CASE Stop(p)
    BY <1>1, <2>1, PlainPlaced
  <2>2. CASE Goto(p, "waiting", 0) /\ lock' = lock
    <3>1. Moves(p, "waiting", 0) /\ "waiting" \in Steps /\ "waiting" \notin Critical
      BY <1>1, <2>2, MoveFacts DEF Steps, Critical
    <3>2. proc'[p].step = "waiting" /\ \A q \in Procs \ {p} : proc'[q] = proc[q]
      BY <1>1, <3>1, MoveFields, MoveAlone
    <3>3. proc[p].step \notin Critical /\ ~proc[p].own
      BY <1>1, <1>10 DEF Confirm, Critical, Placed, Working
    <3>4. Locking'
      BY <1>1, <2>2, <3>1, <3>2, <3>3 DEF Locking
    <3> QED BY <1>1, <3>1, <3>3, <3>4, MoveFields DEF Placed, Working, Applying
  <2> QED BY <1>10, <2>1, <2>2 DEF Confirm
<1>11. CASE CheckAccept(p)
  <2> DEFINE r == [proc[p] EXCEPT !.step = "stage", !.at = 1, !.own = TRUE, !.batch = proc[p].job]
  <2>1. proc' = [proc EXCEPT ![p] = r]
    BY <1>1, <1>11, WideMoves
  <2>2. proc[p].job \in plans /\ proc[p].job \in Batches
    BY <1>1, <1>11 DEF CheckAccept, Placed
  <2>3. /\ r \in States /\ r.step = "stage" /\ r.own /\ r.at = 1 /\ r.batch = proc[p].job
        /\ r.call = proc[p].call /\ r.job = proc[p].job
    BY <1>1, <2>2 DEF States, Steps
  <2> HIDE DEF r
  <2>4. proc'[p] = r
    BY <1>1, <2>1 DEF TypeOK
  <2>5. proc[p].step \in Critical /\ r.step \in Critical /\ lock' = lock
    BY <1>11, <2>3 DEF CheckAccept, Critical, Steps
  <2>6. Locking'
    BY <2>1, <2>3, <2>5, LockMoves
  <2> QED BY <1>1, <2>2, <2>3, <2>4, <2>6 DEF Placed, Working, Applying
<1>12. CASE StagePayload(p)
  <2>1. AtWork /\ proc[p].own /\ n \in 1..Size(b)
    BY <1>1, <1>2, <1>12 DEF StagePayload, Placed, Working, Applying
  <2>2. /\ n < Size(b) => Fits(b, "stage", n + 1)
        /\ Fits(b, "save", 1)
    BY <1>1, <2>1 DEF Fits
  <2> QED BY <1>1, <1>12, <2>1, <2>2, WorkPlaced DEF StagePayload, Working
<1>13. CASE SaveHistory(p)
  <2>1. AtWork /\ proc[p].own /\ n \in 1..(2 * Size(b))
    BY <1>1, <1>2, <1>13 DEF SaveHistory, Placed, Working, Applying
  <2>2. /\ n < 2 * Size(b) => Fits(b, "save", n + 1)
        /\ Fits(b, "declare", 1)
    BY <1>1, <2>1 DEF Fits
  <2>3. Caught(p) => Locking' /\ Placed(p)'
    BY <1>1, <2>1, MoveFacts, LockMoves, ErrPlaced
  <2> QED BY <1>1, <1>13, <2>1, <2>2, <2>3, WorkPlaced DEF SaveHistory, EachPath, Working
<1>14. CASE WritePending(p)
  <2>1. AtWork /\ Fits(b, "classify", 1)
    BY <1>2, <1>14 DEF WritePending, Working, Fits
  <2> QED BY <1>1, <1>14, <2>1, WorkPlaced DEF WritePending, Working, Applying
<1>15. CASE Classify(p)
  <2>1. AtWork /\ Fits(b, "roll", 1)
    BY <1>1, <1>2, <1>15 DEF Classify, Working, Fits
  <2>2. Caught(p) => Locking' /\ Placed(p)'
    BY <1>1, <2>1, MoveFacts, LockMoves, ErrPlaced
  <2> QED BY <1>1, <1>15, <2>1, <2>2, WorkPlaced DEF Classify, Working, Applying
<1>16. CASE RollForward(p)
  <2>1. AtWork /\ n \in 1..(2 * Size(b))
    BY <1>1, <1>2, <1>16 DEF RollForward, Placed, Working
  <2>2. /\ n < 2 * Size(b) => Fits(b, "roll", n + 1)
        /\ Fits(b, "record", 1) /\ Fits(b, "forget", 1)
        /\ AfterBytes(p) \in {"record", "forget"}
    BY <1>1, <2>1 DEF Fits, AfterBytes
  <2> QED BY <1>1, <1>16, <2>1, <2>2, WorkPlaced DEF RollForward, EachPath, Working, Applying
<1>17. CASE AppendRecord(p)
  <2>1. AtWork /\ n \in 1..Size(b)
    BY <1>1, <1>2, <1>17 DEF AppendRecord, Placed, Working
  <2>2. /\ n < Size(b) => Fits(b, "record", n + 1)
        /\ Fits(b, "receipt", 1)
    BY <1>1, <2>1 DEF Fits
  <2> QED BY <1>1, <1>17, <2>1, <2>2, WorkPlaced DEF AppendRecord, Working, Applying
<1>18. CASE WriteResult(p) \/ RemovePending(p)
  <2>1. AtWork /\ Fits(b, "forget", 1) /\ Fits(b, "unstage", 1)
    BY <1>2, <1>18 DEF WriteResult, RemovePending, Working, Fits
  <2> QED BY <1>1, <1>18, <2>1, WorkPlaced DEF WriteResult, RemovePending, Working, Applying
<1>19. CASE RemoveStage(p)
  <2>1. AtWork /\ Fits(b, "sweep", 0)
    BY <1>2, <1>19 DEF RemoveStage, Working, Fits
  <2>2. CASE proc[p].own
    BY <1>1, <1>19, <2>1, <2>2, WorkPlaced DEF RemoveStage, Working
  <2>3. CASE ~proc[p].own /\ Errs(p)
    BY <1>1, <2>1, <2>3, LockMoves, ErrPlaced
  <2>4. CASE ~proc[p].own /\ Moves(p, "finish", 0) /\ lock' = lock
    <3>1. "finish" \in Steps /\ "finish" \in Critical
      BY DEF Steps, Critical
    <3>2. Locking'
      BY <1>1, <2>1, <2>4, <3>1, CriticalMoves
    <3> QED BY <1>1, <2>4, <3>1, <3>2, MoveFields DEF Placed, Working, Applying
  <2> QED BY <1>1, <1>19, <2>2, <2>3, <2>4, MoveFacts DEF RemoveStage
<1>20. CASE Succeed(p) \/ ClearStage(p)
  BY <1>1, <1>20, PlainPlaced DEF Succeed, ClearStage
<1>21. CASE Handle(p)
  <2>1. AtWork /\ proc[p].own /\ Fits(b, "undo", 2 * Size(b)) /\ 2 * Size(b) \in Nat
    BY <1>1, <1>2, <1>21 DEF Handle, Placed, Working, Applying, Fits
  <2>2. Stop(p) => Locking' /\ Placed(p)'
    BY <1>1, PlainPlaced
  <2> QED BY <1>1, <1>21, <2>1, <2>2, WorkPlaced DEF Handle, Working
<1>22. CASE Undo(p)
  <2>1. AtWork /\ proc[p].own /\ n \in 1..(2 * Size(b))
    BY <1>1, <1>2, <1>22 DEF Undo, Placed, Working, Applying, States
  <2>2. n - 1 \in Nat /\ Fits(b, "undo", n - 1)
    BY <1>1, <2>1 DEF Fits
  <2>3. Stop(p) => Locking' /\ Placed(p)'
    BY <1>1, PlainPlaced
  <2> QED BY <1>1, <1>22, <2>1, <2>2, <2>3, WorkPlaced DEF Undo, Working
<1>23. CASE Verify(p) \/ DropPending(p)
  <2>1. AtWork /\ proc[p].own /\ Fits(b, "drop", 0) /\ Fits(b, "clear", 0)
    BY <1>1, <1>2, <1>23 DEF Verify, DropPending, Placed, Working, Applying, Fits
  <2>2. Stop(p) => Locking' /\ Placed(p)'
    BY <1>1, PlainPlaced
  <2> QED BY <1>1, <1>23, <2>1, <2>2, WorkPlaced DEF Verify, DropPending, Working
<1>24. CASE Fails(p)
  <2>1. proc[p].step \in Critical
    BY <1>24 DEF Fails, Critical, Steps
  <2> QED BY <1>1, <1>24, <2>1, MoveFacts, LockMoves, ErrPlaced DEF Fails, Raise
<1>25. CASE \/ Crash(p)
            \/ \E path \in Paths, bytes \in Contents :
                 WriteNote(p, path, bytes) \/ WriteInterrupted(p, path, bytes)
  BY <1>1, <1>25, PlainPlaced DEF Crash, WriteNote, WriteInterrupted
<1> QED
  BY <1>3, <1>4, <1>5, <1>6, <1>7, <1>8, <1>9, <1>10, <1>11, <1>12, <1>13, <1>14, <1>15, <1>16,
     <1>17, <1>18, <1>19, <1>20, <1>21, <1>22, <1>23, <1>24, <1>25
  DEF Acting, Recover, Decide, Apply, RollBack

(* A batch that gives every target other bytes and has all its sources     *)
(* changes every path it names.                                            *)
LEMMA EffectiveWhen ==
  ASSUME NEW b \in Batches,
         \A n \in 1..Size(b) : /\ b.base[b.shape[n].target] # b.shape[n].after
                               /\ b.shape[n].source # NoPath => b.base[b.shape[n].source] # Absent
  PROVE  Effective(b)
<1>1. /\ \A n \in 1..Size(b) : Image(b)[b.shape[n].target] = b.shape[n].after
      /\ \A path \in Sources(b.shape) : Image(b)[path] = Absent
      /\ DOMAIN b.shape = 1..Size(b) /\ Size(b) \in Nat
  BY ImageFacts, ShapeFacts
<1>2. ASSUME NEW path \in Targets(b.shape) PROVE b.base[path] # Image(b)[path]
  <2>1. PICK n \in 1..Size(b) : path = b.shape[n].target
    BY <1>1, <1>2 DEF Targets
  <2> QED BY <1>1, <2>1
<1>3. ASSUME NEW path \in Sources(b.shape) PROVE b.base[path] # Image(b)[path]
  <2>1. PICK n \in 1..Size(b) : path = b.shape[n].source /\ path # NoPath
    BY <1>1, <1>3 DEF Sources
  <2> QED BY <1>1, <1>3, <2>1
<1> QED BY <1>2, <1>3 DEF Effective, Affected

(* A preview only offers such batches. *)
LEMMA PreviewEffective ==
  ASSUME TypeOK, NEW shape \in Shapes, Preview(shape)
  PROVE  /\ [shape |-> shape, base |-> disk] \in Batches
         /\ Effective([shape |-> shape, base |-> disk])
<1> DEFINE b == [shape |-> shape, base |-> disk]
<1>1. b \in Batches
  BY DEF TypeOK, Batches
<1>2. \A n \in 1..Size(b) : /\ b.base[b.shape[n].target] # b.shape[n].after
                            /\ b.shape[n].source # NoPath => b.base[b.shape[n].source] # Absent
  BY <1>1, ShapeFacts DEF Preview
<1> QED BY <1>1, <1>2, EffectiveWhen

(* The control state, the lock and the batches known stay in step, for any *)
(* processes, vault, manifests and bounds.                                 *)
LEMMA PlacesHold == Spec => []PlacedInv
<1>1. Init => PlacedInv
  BY ConstantsAssumption DEF Init, PlacedInv, TypeOK, Locking, Placed, Idle, States, Steps,
     Critical, Working, Applying
<1>2. ASSUME PlacedInv, [Next]_vars PROVE PlacedInv'
  <2>1. TypeOK' /\ TypeOK
    BY <1>2, TypesStay DEF PlacedInv
  <2>2. ASSUME NEW p \in Procs, Acting(p) PROVE PlacedInv'
    <3>1. plans' = plans /\ \A q \in Procs \ {p} : proc'[q] = proc[q]
      BY <2>1, <2>2, OthersStay
    <3>2. Locking' /\ Placed(p)'
      BY <1>2, <2>2, PlaceOfActor
    <3>3. \A q \in Procs : Placed(q)'
      BY <1>2, <3>1, <3>2 DEF PlacedInv, Placed
    <3>4. Placed(p) /\ pending \subseteq plans /\ committed \subseteq plans
      BY <1>2 DEF PlacedInv
    <3>5. pending' \subseteq plans /\ committed' \subseteq plans
      BY <2>2, <3>4
      DEF Acting, Begin, Acquire, Timeout, Recover, RecoverNothing, RecoverRefused, RecoverBatch,
        Finish, FinishRefused, Decide, Answered, Unresolved, Confirm, CheckAccept, CheckRefuse,
        Apply, StagePayload, SaveHistory, WritePending, Classify, RollForward, AppendRecord,
        WriteResult, RemovePending, RemoveStage, Succeed, RollBack, Handle, Undo, Verify,
        DropPending, ClearStage, Fails, Crash, WriteNote, WriteInterrupted, durable, Placed,
        Working
    <3> QED BY <1>2, <2>1, <3>1, <3>2, <3>3, <3>5 DEF PlacedInv
  <2>3. ASSUME NEW shape \in Shapes, Preview(shape) PROVE PlacedInv'
    <3>1. /\ plans' = plans \cup {[shape |-> shape, base |-> disk]}
          /\ UNCHANGED <<pending, committed, lock, proc>>
      BY <2>3 DEF Preview, durable
    <3>2. \A b \in plans' : Effective(b)
      BY <1>2, <2>1, <2>3, <3>1, PreviewEffective DEF PlacedInv
    <3> QED BY <1>2, <2>1, <3>1, <3>2 DEF PlacedInv, Locking, Placed
  <2>4. CASE AdoptDisk \/ (\E path \in Paths : EditOutside(path)) \/ UNCHANGED vars
    <3>1. UNCHANGED <<plans, pending, committed, lock, proc>>
      BY <2>4 DEF AdoptDisk, EditOutside, vars, durable
    <3> QED BY <1>2, <2>1, <3>1 DEF PlacedInv, Locking, Placed
  <2> QED BY <1>2, <2>2, <2>3, <2>4 DEF Next, Acting
<1> QED BY <1>1, <1>2, PTL DEF Spec

(* The variables have their types, and one process at a time is past the   *)
(* mutation lock.                                                          *)
THEOREM BatchTypes == Spec => [](TypeOK /\ Locking)
<1>1. PlacedInv => TypeOK /\ Locking
  BY DEF PlacedInv
<1> QED BY <1>1, PlacesHold, PTL

--------------------------------------------------------------------------------
(* What becomes of p: another step, with the same call and batch. *)
Became(p, s, n) ==
  /\ proc'[p].step = s /\ proc'[p].at = n
  /\ proc'[p].call = proc[p].call /\ proc'[p].job = proc[p].job
  /\ proc'[p].batch = proc[p].batch /\ proc'[p].own = proc[p].own
  /\ proc'[p].phase = proc[p].phase

(* Or what an error makes of it. *)
Erred(p) ==
  \/ proc'[p].step = "idle"
  \/ /\ proc[p].own
     /\ \/ proc[p].step \in {"stage", "save", "declare"} /\ Became(p, "handler", 1)
        \/ proc[p].step \in {"classify", "roll"} /\ Became(p, "handler", 0)
        \/ proc[p].step \in {"record", "receipt", "forget", "unstage"} /\ Became(p, "late", 0)

(* What Stop, Caught, Goto and Advance make of p. *)
LEMMA Outcomes ==
  ASSUME TypeOK, NEW p \in Procs
  PROVE  /\ Stop(p) => proc'[p].step = "idle"
         /\ Caught(p) => Erred(p)
         /\ \A s \in Steps, n \in Nat : Goto(p, s, n) => Became(p, s, n)
         /\ \A s \in Steps, n \in Nat : Advance(p, s, n) => Became(p, s, n) \/ Erred(p)
<1>1. Stop(p) => proc'[p].step = "idle"
  BY DEF Stop, Idle, TypeOK
<1>2. \A s \in Steps, n \in Nat : Moves(p, s, n) => Became(p, s, n)
  BY MoveFields DEF Became
<1>3. {"handler", "late"} \subseteq Steps /\ {0, 1} \subseteq Nat
  BY DEF Steps
<1>4. Errs(p) => Erred(p)
  BY <1>1, <1>2, <1>3 DEF Errs, Erred
<1> QED BY <1>1, <1>2, <1>4, MoveFacts

(* And the steps that change more of it. *)
LEMMA WideOutcomes ==
  ASSUME TypeOK, NEW p \in Procs
  PROVE  /\ Begin(p) => proc'[p].step = "waiting"
         /\ RecoverBatch(p) => /\ pending = {proc'[p].batch} /\ ~Blocked(proc'[p].batch)
                               /\ proc'[p].step = "classify" /\ ~proc'[p].own
         /\ Unresolved(p) => proc'[p].step = "preview"
         /\ CheckAccept(p) => /\ proc'[p].step = "stage" /\ proc'[p].at = 1 /\ proc'[p].own
                              /\ proc'[p].batch = proc[p].job
<1>1. proc \in [Procs -> States] /\ proc[p] \in States
  BY DEF TypeOK
<1>2. Begin(p) => proc'[p].step = "waiting"
  BY <1>1 DEF Begin, Idle
<1>3. ASSUME RecoverBatch(p)
      PROVE  /\ pending = {proc'[p].batch} /\ ~Blocked(proc'[p].batch)
             /\ proc'[p].step = "classify" /\ ~proc'[p].own
  <2>1. PICK b \in pending :
          /\ proc[p].step = "recover" /\ pending = {b} /\ ~Blocked(b)
          /\ proc' = [proc EXCEPT ![p] = [proc[p] EXCEPT !.step = "classify", !.batch = b,
                                                         !.own = FALSE]]
    BY <1>3, WideMoves
  <2>2. proc'[p] = [proc[p] EXCEPT !.step = "classify", !.batch = b, !.own = FALSE]
    BY <1>1, <2>1
  <2>3. proc'[p].step = "classify" /\ proc'[p].batch = b /\ ~proc'[p].own
    BY <1>1, <2>2 DEF States
  <2> QED BY <2>1, <2>3
<1>4. Unresolved(p) => proc'[p].step = "preview"
  BY <1>1 DEF Unresolved, States
<1>5. CheckAccept(p) => /\ proc'[p].step = "stage" /\ proc'[p].at = 1 /\ proc'[p].own
                        /\ proc'[p].batch = proc[p].job
  BY <1>1 DEF CheckAccept, States
<1> QED BY <1>2, <1>3, <1>4, <1>5

--------------------------------------------------------------------------------
(* What p may rely on about the batches and operations in doubt: its own   *)
(* batch is the only one from the receipt to the cleanup, and none is      *)
(* before and after.                                                       *)
InDoubt(p) ==
  LET s == proc[p].step  b == proc[p].batch IN
  /\ s \in {"classify", "roll", "record", "receipt", "forget", "undo", "drop"} => pending = {b}
  /\ s \in {"handler", "late"} => pending \subseteq {b}
  /\ s \in {"resolve", "check", "stage", "save", "declare", "unstage", "sweep", "clear", "write"}
       => pending = {}
  /\ s = "finish" /\ proc[p].call # "write" => pending = {}
  /\ s \in {"check", "stage", "save", "declare"} => manifest = NoWrite

(* Everyone can: with that, OneInDoubt is inductive. *)
DoubtInv == OneInDoubt /\ \A p \in Procs : InDoubt(p)

(* A step of p keeps what the others rely on. *)
LEMMA DoubtOfOthers ==
  ASSUME PlacedInv, DoubtInv, NEW p \in Procs, Acting(p), NEW q \in Procs \ {p}
  PROVE  InDoubt(q)'
<1>1. proc'[q] = proc[q] /\ InDoubt(q)
  BY OthersStay DEF PlacedInv, DoubtInv
<1> QED BY <1>1, LockFacts DEF InDoubt, Critical, Steps, durable

(* A step of p keeps one operation in doubt, and what p relies on. *)
LEMMA DoubtOfActor ==
  ASSUME PlacedInv, DoubtInv, NEW p \in Procs, Acting(p)
  PROVE  OneInDoubt' /\ InDoubt(p)'
<1>1. TypeOK /\ Placed(p) /\ InDoubt(p) /\ OneInDoubt
  BY DEF PlacedInv, DoubtInv
<1> USE <1>1 DEF InDoubt, OneInDoubt
<1>2. CASE Begin(p) \/ Acquire(p) \/ Timeout(p)
  <2>1. UNCHANGED <<pending, manifest>>
    BY <1>2 DEF Begin, Acquire, Timeout, durable
  <2>2. /\ Begin(p) => proc'[p].step = "waiting"
        /\ Timeout(p) => proc'[p].step = "idle"
        /\ Acquire(p) => Became(p, IF proc[p].call = "write" THEN "finish" ELSE "recover", 0)
    BY Outcomes, WideOutcomes DEF Acquire, Timeout, Steps
  <2> QED BY <1>2, <2>1, <2>2 DEF Became
<1>3. CASE RecoverNothing(p)
  <2>1. Became(p, "finish", 0)
    BY <1>3, Outcomes DEF RecoverNothing, Steps
  <2> QED BY <1>3, <2>1 DEF RecoverNothing, Became
<1>4. CASE RecoverBatch(p)
  BY <1>4, WideOutcomes DEF RecoverBatch, durable
<1>5. CASE Finish(p)
  <2>1. \/ proc'[p].step \in {"idle", "write"}
        \/ proc'[p].step \in {"resolve", "check"} /\ proc[p].call = "apply"
    BY <1>5, Outcomes DEF Finish, Steps, Became
  <2>2. pending = {} /\ pending' = pending /\ manifest' = NoWrite
    BY <1>5 DEF Finish, NoBatchInTheWay
  <2> QED BY <2>1, <2>2
<1>6. CASE RecoverRefused(p) \/ FinishRefused(p) \/ Answered(p) \/ Confirm(p) \/ CheckRefuse(p)
  <2>1. proc'[p].step \in {"idle", "waiting"}
    BY <1>6, Outcomes
    DEF RecoverRefused, FinishRefused, Answered, Confirm, CheckRefuse, Steps, Became
  <2>2. UNCHANGED <<pending, manifest>>
    BY <1>6 DEF RecoverRefused, FinishRefused, Answered, Confirm, CheckRefuse, durable
  <2> QED BY <2>1, <2>2
<1>7. CASE Unresolved(p) \/ CheckAccept(p)
  BY <1>7, WideOutcomes DEF Unresolved, CheckAccept, durable
<1>8. CASE StagePayload(p)
  <2>1. proc[p].at + 1 \in Nat
    BY DEF TypeOK, States
  <2> QED BY <1>8, <2>1, Outcomes DEF StagePayload, Steps, Erred, Became
<1>9. CASE SaveHistory(p)
  <2>1. proc[p].at + 1 \in Nat
    BY DEF TypeOK, States
  <2> QED BY <1>9, <2>1, Outcomes DEF SaveHistory, EachPath, Steps, Erred, Became
<1>10. CASE WritePending(p)
  BY <1>10, Outcomes DEF WritePending, Steps, Erred, Became
<1>11. CASE Classify(p)
  BY <1>11, Outcomes DEF Classify, durable, Steps, Erred, Became
<1>12. CASE RollForward(p)
  <2>1. proc[p].at + 1 \in Nat
    BY DEF TypeOK, States
  <2> QED BY <1>12, <2>1, Outcomes DEF RollForward, EachPath, AfterBytes, Steps, Erred, Became
<1>13. CASE AppendRecord(p)
  <2>1. proc[p].at + 1 \in Nat
    BY DEF TypeOK, States
  <2> QED BY <1>13, <2>1, Outcomes DEF AppendRecord, Steps, Erred, Became
<1>14. CASE WriteResult(p) \/ RemovePending(p)
  BY <1>14, Outcomes DEF WriteResult, RemovePending, Steps, Erred, Became
<1>15. CASE RemoveStage(p)
  BY <1>15, Outcomes DEF RemoveStage, Steps, Erred, Became
<1>16. CASE Succeed(p) \/ ClearStage(p)
  BY <1>16, Outcomes DEF Succeed, ClearStage
<1>17. CASE Handle(p)
  <2>1. 2 * Size(proc[p].batch) \in Nat
    BY <1>17, ShapeFacts DEF Handle, Placed, Working, TypeOK
  <2> QED BY <1>17, <2>1, Outcomes DEF Handle, Steps, Became
<1>18. CASE Undo(p)
  <2>1. proc[p].at - 1 \in Nat
    BY <1>18 DEF Undo, TypeOK, States
  <2> QED BY <1>18, <2>1, Outcomes DEF Undo, Steps, Erred, Became
<1>19. CASE Verify(p) \/ DropPending(p)
  BY <1>19, Outcomes DEF Verify, DropPending, durable, Steps, Erred, Became
<1>20. CASE Fails(p) \/ Crash(p)
  BY <1>20, Outcomes DEF Fails, Raise, Crash, durable, Erred, Became
<1>21. CASE \E path \in Paths, bytes \in Contents :
              WriteNote(p, path, bytes) \/ WriteInterrupted(p, path, bytes)
  BY <1>21, Outcomes DEF WriteNote, WriteInterrupted
<1> QED
  BY <1>2, <1>3, <1>4, <1>5, <1>6, <1>7, <1>8, <1>9, <1>10, <1>11, <1>12, <1>13, <1>14, <1>15,
     <1>16, <1>17, <1>18, <1>19, <1>20, <1>21
  DEF Acting, Recover, Decide, Apply, RollBack

(* Nothing starts on what another left in doubt. *)
LEMMA DoubtHolds == Spec => []DoubtInv
<1>1. Init => DoubtInv
  BY DEF Init, DoubtInv, OneInDoubt, InDoubt, Idle
<1>2. ASSUME PlacedInv, DoubtInv, [Next]_vars PROVE DoubtInv'
  <2>1. ASSUME NEW p \in Procs, Acting(p) PROVE DoubtInv'
    BY <1>2, <2>1, DoubtOfActor, DoubtOfOthers DEF DoubtInv
  <2>2. CASE UNCHANGED <<pending, proc>> /\ (manifest' = manifest \/ manifest' = NoWrite)
    BY <1>2, <2>2 DEF DoubtInv, OneInDoubt, InDoubt
  <2> QED
    BY <1>2, <2>1, <2>2 DEF Next, Acting, Preview, AdoptDisk, EditOutside, vars, durable
<1> QED BY <1>1, <1>2, PlacesHold, PTL DEF Spec

(* One operation at most is in doubt, a batch or an ordinary write, for    *)
(* any processes, manifests, edits and faults.                             *)
THEOREM OneBatchInDoubt == Spec => []OneInDoubt
<1>1. DoubtInv => OneInDoubt
  BY DEF DoubtInv
<1> QED BY <1>1, DoubtHolds, PTL

--------------------------------------------------------------------------------
(* No records and no receipt of this batch, nor of its manifest. *)
Blank(b) ==
  /\ \A k \in DOMAIN log : log[k][1] # b
  /\ \A c \in committed : ~SameManifest(b, c)

(* Apply mode works on a blank batch until the first record; from then on  *)
(* the records are there up to the counter, and the receipt after them.    *)
Recorded(p) ==
  LET s == proc[p].step  b == proc[p].batch  n == proc[p].at IN
  /\ s \in {"stage", "save", "declare", "handler", "undo", "drop"} => Blank(b)
  /\ s \in {"classify", "roll"} /\ proc[p].own => Blank(b)
  /\ s = "record" => \A m \in 1..(n - 1) : Logged(b, m)
  /\ s = "receipt" => AllLogged(b)
  /\ s \in {"forget", "unstage", "sweep"} => b \in committed

(* Records belong to batches with a receipt, each is there once, a         *)
(* committed batch has them all, and no two have the same manifest.        *)
Journal ==
  /\ \A k \in DOMAIN log : log[k][1] \in pending \cup committed
  /\ \A k, l \in DOMAIN log : log[k] = log[l] => k = l
  /\ \A b \in committed : AllLogged(b)
  /\ \A b \in pending \cup committed, c \in committed : SameManifest(b, c) => b = c

(* With what each process may rely on, that is inductive. *)
RecordInv == Journal /\ \A p \in Procs : Recorded(p)

(* Two batches with one manifest have it either way round. *)
LEMMA SameManifestSymmetric ==
  ASSUME NEW b, NEW c, SameManifest(b, c) PROVE SameManifest(c, b)
BY DEF SameManifest

(* A batch has its own manifest. *)
LEMMA SameManifestReflexive ==
  ASSUME NEW b PROVE SameManifest(b, b)
BY DEF SameManifest

(* The log before and after a record. *)
LEMMA LogAppended ==
  ASSUME TypeOK, NEW b \in Batches, NEW n \in Nat \ {0},
         log' = IF Logged(b, n) THEN log ELSE Append(log, <<b, n>>)
  PROVE  /\ \A c, m : Logged(c, m) => Logged(c, m)'
         /\ Logged(b, n)'
         /\ (\A k, l \in DOMAIN log : log[k] = log[l] => k = l)
              => (\A k, l \in DOMAIN log' : log'[k] = log'[l] => k = l)
         /\ \A k \in DOMAIN log' : log'[k][1] = b \/ \E l \in DOMAIN log : log'[k] = log[l]
<1>1. CASE Logged(b, n)
  BY <1>1 DEF Logged
<1>2. CASE ~Logged(b, n)
  <2>1. log' = Append(log, <<b, n>>) /\ log \in Seq(Batches \X (Nat \ {0}))
    BY <1>2 DEF TypeOK
  <2>2. /\ Len(log) \in Nat /\ DOMAIN log = 1..Len(log) /\ DOMAIN log' = 1..(Len(log) + 1)
        /\ \A k \in 1..Len(log) : log'[k] = log[k]
        /\ log'[Len(log) + 1] = <<b, n>>
    BY <2>1
  <2>3. \A k \in DOMAIN log : log[k] # <<b, n>>
    BY <1>2 DEF Logged
  <2> QED BY <2>2, <2>3 DEF Logged
<1> QED BY <1>1, <1>2

(* Steps that write no record and no receipt. *)
LEMMA JournalStays ==
  ASSUME Journal, UNCHANGED <<log, committed>>,
         \A b \in pending \ pending' : b \in committed \/ \A k \in DOMAIN log : log[k][1] # b,
         \A b \in pending' \ pending : \A c \in committed : ~SameManifest(b, c)
  PROVE  Journal'
BY DEF Journal, AllLogged, Logged

(* A step of p keeps what the others rely on of journal and receipts. *)
LEMMA RecordedOfOthers ==
  ASSUME PlacedInv, RecordInv, NEW p \in Procs, Acting(p), NEW q \in Procs \ {p}
  PROVE  Recorded(q)'
<1>1. proc'[q] = proc[q] /\ Recorded(q)
  BY OthersStay DEF PlacedInv, RecordInv
<1>2. CASE proc[q].step \notin Critical
  BY <1>1, <1>2 DEF Recorded, Critical, Steps
<1>3. CASE UNCHANGED <<log, committed>>
  BY <1>1, <1>3 DEF Recorded, Blank, AllLogged, Logged
<1> QED BY <1>2, <1>3, LockFacts DEF durable

(* A step of p keeps the journal, and what p relies on. *)
LEMMA RecordedOfActor ==
  ASSUME PlacedInv, DoubtInv, RecordInv, NEW p \in Procs, Acting(p)
  PROVE  Journal' /\ Recorded(p)'
<1>1. /\ TypeOK /\ Placed(p) /\ InDoubt(p) /\ Recorded(p) /\ Journal /\ proc[p].at \in Nat
      /\ pending \subseteq plans
  BY DEF PlacedInv, DoubtInv, RecordInv, TypeOK, States
<1> DEFINE b == proc[p].batch
           n == proc[p].at
           Still == UNCHANGED <<log, committed>>
<1>2. Still => \A c, m : /\ Blank(c)' = Blank(c) /\ Logged(c, m)' = Logged(c, m)
                         /\ AllLogged(c)' = AllLogged(c)
  BY DEF Blank, Logged, AllLogged
<1>3. Still /\ pending' = pending => Journal'
  BY <1>1, JournalStays
<1>4. Still /\ Erred(p) => Recorded(p)'
  BY <1>1, <1>2 DEF Erred, Became, Recorded
<1>5. proc'[p].step = "idle" => Recorded(p)'
  BY DEF Recorded
<1>6. CASE Begin(p) \/ Acquire(p) \/ Timeout(p) \/ RecoverNothing(p) \/ RecoverRefused(p)
  <2>1. proc'[p].step \in {"waiting", "recover", "finish", "idle"}
    BY <1>1, <1>6, Outcomes, WideOutcomes
    DEF Acquire, Timeout, RecoverNothing, RecoverRefused, Steps, Became
  <2>2. Still /\ pending' = pending
    BY <1>6 DEF Begin, Acquire, Timeout, RecoverNothing, RecoverRefused, durable
  <2> QED BY <1>3, <2>1, <2>2 DEF Recorded
<1>7. CASE RecoverBatch(p)
  <2>1. Still /\ pending' = pending
    BY <1>7 DEF RecoverBatch, durable
  <2> QED BY <1>1, <1>3, <1>7, <2>1, WideOutcomes DEF Recorded
<1>8. CASE Finish(p) \/ FinishRefused(p)
  <2>1. proc'[p].step \in {"write", "resolve", "check", "idle"}
    BY <1>1, <1>8, Outcomes DEF Finish, FinishRefused, Steps, Became
  <2>2. Still /\ pending' = pending
    BY <1>8 DEF Finish, FinishRefused, durable
  <2> QED BY <1>3, <2>1, <2>2 DEF Recorded
<1>9. CASE Answered(p) \/ Unresolved(p) \/ Confirm(p) \/ CheckRefuse(p)
  <2>1. proc'[p].step \in {"waiting", "preview", "idle"}
    BY <1>1, <1>9, Outcomes, WideOutcomes DEF Answered, Confirm, CheckRefuse, Steps, Became
  <2>2. Still /\ pending' = pending
    BY <1>9 DEF Answered, Unresolved, Confirm, CheckRefuse, durable
  <2> QED BY <1>3, <2>1, <2>2 DEF Recorded
<1>10. CASE CheckAccept(p)
  <2>1. Still /\ pending' = pending /\ pending = {} /\ Receipt(proc[p].job) = {}
    BY <1>1, <1>10 DEF CheckAccept, durable, InDoubt
  <2>2. \A c \in committed : ~SameManifest(proc[p].job, c)
    BY <2>1 DEF Receipt
  <2>3. Blank(proc[p].job)
    BY <1>1, <2>1, <2>2, SameManifestReflexive DEF Blank, Journal
  <2>4. \A c : c = proc[p].job => Blank(c)'
    BY <1>2, <2>1, <2>3
  <2>5. proc'[p].step = "stage" /\ proc'[p].batch = proc[p].job
    BY <1>1, <1>10, WideOutcomes
  <2> QED BY <1>3, <2>1, <2>4, <2>5 DEF Recorded
<1>11. CASE StagePayload(p) \/ SaveHistory(p)
  <2>1. Still /\ pending' = pending
    BY <1>11 DEF StagePayload, SaveHistory
  <2>2. \/ Erred(p)
        \/ proc'[p].step \in {"stage", "save", "declare"} /\ proc'[p].batch = b
    BY <1>1, <1>11, Outcomes DEF StagePayload, SaveHistory, EachPath, Steps, Became
  <2> QED BY <1>1, <1>2, <1>3, <1>4, <1>11, <2>1, <2>2 DEF Recorded, StagePayload, SaveHistory
<1>12. CASE WritePending(p)
  <2>1. Still /\ pending' = pending \cup {b} /\ Blank(b) /\ proc[p].own
    BY <1>1, <1>12 DEF WritePending, Recorded, Placed, Applying
  <2>2. Journal'
    BY <1>1, <2>1, JournalStays DEF Blank
  <2>3. Erred(p) \/ Became(p, "classify", 1)
    BY <1>1, <1>12, Outcomes DEF WritePending, Steps
  <2> QED BY <1>2, <1>4, <2>1, <2>2, <2>3 DEF Recorded, Became
<1>13. CASE Classify(p)
  <2>1. Still /\ pending' = pending
    BY <1>13 DEF Classify, durable
  <2>2. Erred(p) \/ Became(p, "roll", 1)
    BY <1>1, <1>13, Outcomes DEF Classify, Steps
  <2> QED BY <1>1, <1>2, <1>3, <1>4, <1>13, <2>1, <2>2 DEF Classify, Recorded, Became
<1>14. CASE RollForward(p)
  <2>1. Still /\ pending' = pending
    BY <1>14 DEF RollForward
  <2>2. \/ Erred(p) \/ Became(p, "roll", n + 1) \/ Became(p, "record", 1)
        \/ Became(p, "forget", 1) /\ b \in committed
    BY <1>1, <1>14, Outcomes DEF RollForward, EachPath, AfterBytes, Steps
  <2> QED BY <1>1, <1>2, <1>3, <1>4, <1>14, <2>1, <2>2 DEF RollForward, Recorded, Became
<1>15. CASE AppendRecord(p)
  <2>1. PICK c \in Batches, m \in Nat \ {0} :
          /\ c = b /\ m = n /\ m \in 1..Size(c) /\ Size(c) \in Nat /\ pending = {c}
          /\ \A k \in 1..(m - 1) : Logged(c, k)
    <3>1. b \in Batches /\ n \in 1..Size(b) /\ pending = {b}
      BY <1>1, <1>15 DEF AppendRecord, Placed, InDoubt, Working, TypeOK
    <3>2. Size(b) \in Nat /\ n \in Nat \ {0}
      BY <3>1, ShapeFacts
    <3>3. \A k \in 1..(n - 1) : Logged(b, k)
      BY <1>1, <1>15 DEF AppendRecord, Recorded
    <3> QED BY <3>1, <3>2, <3>3
  <2>2. committed' = committed /\ pending' = pending
    BY <1>15 DEF AppendRecord
  <2>3. log' = IF Logged(c, m) THEN log ELSE Append(log, <<c, m>>)
    BY <1>15, <2>1 DEF AppendRecord
  <2>4. /\ \A d, k : Logged(d, k) => Logged(d, k)'
        /\ Logged(c, m)'
        /\ (\A k, l \in DOMAIN log : log[k] = log[l] => k = l)
             => (\A k, l \in DOMAIN log' : log'[k] = log'[l] => k = l)
        /\ \A k \in DOMAIN log' : log'[k][1] = c \/ \E l \in DOMAIN log : log'[k] = log[l]
    BY <1>1, <2>3, LogAppended
  <2>5. \A d : AllLogged(d) => AllLogged(d)'
    BY <2>4 DEF AllLogged
  <2>6. Journal'
    <3>1. \A k \in DOMAIN log' : log'[k][1] \in pending \cup committed
      BY <1>1, <2>1, <2>4 DEF Journal
    <3>2. \A k, l \in DOMAIN log' : log'[k] = log'[l] => k = l
      BY <1>1, <2>4 DEF Journal
    <3>3. \A d \in committed : AllLogged(d)'
      BY <1>1, <2>5 DEF Journal
    <3>4. \A d \in pending \cup committed, e \in committed : SameManifest(d, e) => d = e
      BY <1>1 DEF Journal
    <3> QED BY <2>2, <3>1, <3>2, <3>3, <3>4 DEF Journal, SameManifest
  <2>7. \A k \in 1..m : Logged(c, k)'
    BY <2>1, <2>4
  <2>8. \/ proc'[p].step \in {"idle", "late"}
        \/ m < Size(c) /\ Became(p, "record", m + 1)
        \/ m = Size(c) /\ Became(p, "receipt", 1)
    BY <1>1, <1>15, <2>1, Outcomes DEF AppendRecord, Erred, Became, Steps
  <2> QED BY <2>1, <2>6, <2>7, <2>8 DEF Recorded, Became, AllLogged
<1>16. CASE WriteResult(p)
  <2>1. /\ committed' = committed \cup {b} /\ log' = log /\ pending' = pending
        /\ pending = {b} /\ AllLogged(b)
    BY <1>1, <1>16 DEF WriteResult, InDoubt, Recorded
  <2>2. \A c, m : AllLogged(c)' = AllLogged(c)
    BY <2>1 DEF AllLogged, Logged
  <2>3. ASSUME NEW x \in pending' \cup committed', NEW c \in committed', SameManifest(x, c)
        PROVE  x = c
    <3>1. SameManifest(c, x)
      BY <2>3, SameManifestSymmetric
    <3> QED BY <1>1, <2>1, <2>3, <3>1 DEF Journal
  <2>4. Journal'
    BY <1>1, <2>1, <2>2, <2>3 DEF Journal, SameManifest
  <2>5. proc'[p].step \in {"idle", "late"} \/ Became(p, "forget", 1)
    BY <1>1, <1>16, Outcomes DEF WriteResult, Erred, Became, Steps
  <2> QED BY <2>1, <2>4, <2>5 DEF Recorded, Became
<1>17. CASE RemovePending(p)
  <2>1. Still /\ pending' = pending \ {b} /\ b \in committed
    BY <1>1, <1>17 DEF RemovePending, Recorded
  <2>2. Journal'
    BY <1>1, <2>1, JournalStays
  <2>3. proc'[p].step \in {"idle", "late"} \/ Became(p, "unstage", 1)
    BY <1>1, <1>17, Outcomes DEF RemovePending, Erred, Became, Steps
  <2> QED BY <2>1, <2>2, <2>3 DEF Recorded, Became
<1>18. CASE RemoveStage(p)
  <2>1. Still /\ pending' = pending /\ b \in committed
    BY <1>1, <1>18 DEF RemoveStage, Recorded
  <2>2. proc'[p].step \in {"idle", "late"} \/ Became(p, "sweep", 0) \/ Became(p, "finish", 0)
    BY <1>1, <1>18, Outcomes DEF RemoveStage, Erred, Became, Steps
  <2> QED BY <1>3, <2>1, <2>2 DEF Recorded, Became
<1>19. CASE Handle(p)
  <2>1. 2 * Size(b) \in Nat
    BY <1>1, <1>19, ShapeFacts DEF Handle, Placed, Working, TypeOK
  <2>2. Still /\ pending' = pending
    BY <1>19 DEF Handle
  <2>3. \/ proc'[p].step = "idle"
        \/ proc[p].step = "handler" /\ Became(p, "undo", 2 * Size(b))
    BY <1>1, <1>19, <2>1, Outcomes DEF Handle, Steps
  <2> QED BY <1>1, <1>2, <1>3, <2>2, <2>3 DEF Recorded, Became
<1>20. CASE Undo(p)
  <2>1. n - 1 \in Nat /\ Blank(b)
    BY <1>1, <1>20 DEF Undo, Recorded
  <2>2. Still /\ pending' = pending
    BY <1>20 DEF Undo
  <2>3. proc'[p].step = "idle" \/ Became(p, "undo", n - 1)
    BY <1>1, <1>20, <2>1, Outcomes DEF Undo, Erred, Steps
  <2> QED BY <1>2, <1>3, <2>1, <2>2, <2>3 DEF Recorded, Became
<1>21. CASE Verify(p)
  <2>1. Still /\ pending' = pending /\ Blank(b)
    BY <1>1, <1>21 DEF Verify, durable, Recorded
  <2>2. proc'[p].step = "idle" \/ Became(p, "drop", 0)
    BY <1>1, <1>21, Outcomes DEF Verify, Steps
  <2> QED BY <1>2, <1>3, <2>1, <2>2 DEF Recorded, Became
<1>22. CASE DropPending(p)
  <2>1. Still /\ pending' = pending \ {b} /\ Blank(b)
    BY <1>1, <1>22 DEF DropPending, Recorded
  <2>2. Journal'
    BY <1>1, <2>1, JournalStays DEF Blank
  <2>3. proc'[p].step = "idle" \/ Became(p, "clear", 0)
    BY <1>1, <1>22, Outcomes DEF DropPending, Erred, Steps
  <2> QED BY <2>2, <2>3 DEF Recorded, Became
<1>23. CASE \/ Succeed(p) \/ ClearStage(p) \/ Crash(p)
            \/ \E path \in Paths, bytes \in Contents :
                 WriteNote(p, path, bytes) \/ WriteInterrupted(p, path, bytes)
  <2>1. Stop(p) /\ Still /\ pending' = pending
    BY <1>23 DEF Succeed, ClearStage, Crash, WriteNote, WriteInterrupted, durable
  <2> QED BY <1>1, <1>3, <1>5, <2>1, Outcomes
<1>24. CASE Fails(p)
  <2>1. Caught(p) /\ Still /\ pending' = pending
    BY <1>24 DEF Fails, Raise, durable
  <2> QED BY <1>1, <1>3, <1>4, <2>1, Outcomes
<1> QED
  BY <1>6, <1>7, <1>8, <1>9, <1>10, <1>11, <1>12, <1>13, <1>14, <1>15, <1>16, <1>17, <1>18,
     <1>19, <1>20, <1>21, <1>22, <1>23, <1>24
  DEF Acting, Recover, Decide, Apply, RollBack

(* Records and receipts stay in step, through errors and recoveries. *)
LEMMA RecordsHold == Spec => []RecordInv
<1>1. Init => RecordInv
  BY DEF Init, RecordInv, Journal, Recorded, Idle
<1>2. ASSUME PlacedInv, DoubtInv, RecordInv, [Next]_vars PROVE RecordInv'
  <2>1. ASSUME NEW p \in Procs, Acting(p) PROVE RecordInv'
    BY <1>2, <2>1, RecordedOfActor, RecordedOfOthers DEF RecordInv
  <2>2. CASE UNCHANGED <<pending, proc, log, committed>>
    BY <1>2, <2>2 DEF RecordInv, Journal, Recorded, Blank, AllLogged, Logged
  <2> QED
    BY <1>2, <2>1, <2>2 DEF Next, Acting, Preview, AdoptDisk, EditOutside, vars, durable
<1> QED BY <1>1, <1>2, PlacesHold, DoubtHolds, PTL DEF Spec

(* A manifest commits once. *)
THEOREM OneReceiptPerManifest == Spec => []ManifestCommitsOnce
<1>1. RecordInv => ManifestCommitsOnce
  BY DEF RecordInv, Journal, ManifestCommitsOnce
<1> QED BY <1>1, RecordsHold, PTL

--------------------------------------------------------------------------------
(* The bytes of path before b are in the history, if there were any. *)
Saved(b, path) == b.base[path] \in history \cup {Absent}

(* Apply mode saves the paths up to the counter, and publishes the batch   *)
(* when all are.                                                           *)
Kept(p) ==
  LET s == proc[p].step  b == proc[p].batch  n == proc[p].at IN
  /\ s = "save" => \A m \in 1..(n - 1) : PathAt(b, m) # NoPath => Saved(b, PathAt(b, m))
  /\ s = "declare" => \A path \in Affected(b.shape) : Saved(b, path)

(* With that, the promise about both ways is inductive. *)
KeepInv == BothWaysStayOpen /\ \A p \in Procs : Kept(p)

(* Steps that take nothing from stage, history and log.                    *)
LEMMA WaysStay ==
  ASSUME BothWaysStayOpen, pending' \subseteq pending, stage \subseteq stage',
         history \subseteq history', \A c, m : Logged(c, m) => Logged(c, m)'
  PROVE  BothWaysStayOpen'
<1> SUFFICES ASSUME NEW b \in pending'
             PROVE  /\ Staged(b)' = 1..Size(b)
                    /\ (\A n \in 1..Size(b) : ~Logged(b, n)') =>
                         \A path \in Affected(b.shape) : b.base[path] \in history' \cup {Absent}
  BY DEF BothWaysStayOpen
<1> QED BY DEF BothWaysStayOpen, Staged

(* A step of p takes nothing from what another saved. *)
LEMMA KeptOfOthers ==
  ASSUME PlacedInv, KeepInv, NEW p \in Procs, Acting(p), NEW q \in Procs \ {p}
  PROVE  Kept(q)'
<1>1. proc'[q] = proc[q] /\ Kept(q)
  BY OthersStay DEF PlacedInv, KeepInv
<1>2. CASE proc[q].step \notin Critical
  BY <1>1, <1>2 DEF Kept, Critical, Steps
<1>3. CASE history' = history
  BY <1>1, <1>3 DEF Kept, Saved
<1> QED BY <1>2, <1>3, LockFacts DEF durable

(* Saving a path, with the bytes the batch was validated on in it, or none.*)
LEMMA SaveSteps ==
  ASSUME PlacedInv, KeepInv, NEW p \in Procs, SaveHistory(p)
  PROVE  /\ history \subseteq history'
         /\ Kept(p)'
<1>1. /\ TypeOK /\ Placed(p) /\ Kept(p) /\ proc[p].step = "save"
  BY DEF PlacedInv, KeepInv, SaveHistory
<1>2. PICK b \in Batches, n \in Nat \ {0} :
        b = proc[p].batch /\ n = proc[p].at /\ n \in 1..(2 * Size(b)) /\ Size(b) \in Nat
  <2>1. proc[p].batch \in Batches /\ proc[p].at \in 1..(2 * Size(proc[p].batch))
    BY <1>1 DEF Placed, Working, TypeOK
  <2>2. Size(proc[p].batch) \in Nat /\ proc[p].at \in Nat \ {0}
    BY <2>1, ShapeFacts
  <2> QED BY <2>1, <2>2
<1>3. history \subseteq history'
  BY DEF SaveHistory
<1>4. \A m \in 1..(n - 1) : PathAt(b, m) # NoPath => Saved(b, PathAt(b, m))
  BY <1>1, <1>2 DEF Kept
<1>5. CASE Erred(p)
  BY <1>1, <1>3, <1>5 DEF Erred, Became, Kept
<1>6. CASE ~Erred(p)
  <2>1. /\ PathAt(b, n) = NoPath \/ Saved(b, PathAt(b, n))'
        /\ IF n < 2 * Size(b) THEN Advance(p, "save", n + 1) ELSE Advance(p, "declare", 1)
    BY <1>1, <1>2, <1>6, Outcomes DEF SaveHistory, EachPath, Saved
  <2>2. \A m \in 1..n : PathAt(b, m) # NoPath => Saved(b, PathAt(b, m))'
    <3>1. \A m \in 1..n : m = n \/ m \in 1..(n - 1)
      BY <1>2
    <3>2. \A path : Saved(b, path) => Saved(b, path)'
      BY <1>3 DEF Saved
    <3> QED BY <1>4, <2>1, <3>1, <3>2
  <2>3. CASE n < 2 * Size(b)
    <3>1. Became(p, "save", n + 1)
      BY <1>1, <1>2, <1>6, <2>1, <2>3, Outcomes DEF Steps
    <3>2. proc'[p].batch = b /\ proc'[p].at = n + 1 /\ proc'[p].step = "save"
      BY <1>2, <3>1 DEF Became
    <3> QED BY <1>2, <1>3, <2>2, <3>2 DEF Kept
  <2>4. CASE ~(n < 2 * Size(b))
    <3>1. Became(p, "declare", 1)
      BY <1>1, <1>2, <1>6, <2>1, <2>4, Outcomes DEF Steps
    <3>2. proc'[p].batch = b /\ proc'[p].step = "declare"
      BY <1>2, <3>1 DEF Became
    <3>3. \A path \in Affected(b.shape) : path # NoPath /\ \E m \in 1..n : PathAt(b, m) = path
      <4>1. n = 2 * Size(b)
        BY <1>2, <2>4
      <4> QED BY <1>2, <4>1, PathAtFacts, AffectedFacts
    <3>4. \A path \in Affected(b.shape) : Saved(b, path)'
      BY <2>2, <3>3
    <3> QED BY <1>3, <3>2, <3>4 DEF Kept
  <2> QED BY <2>3, <2>4
<1> QED BY <1>3, <1>5, <1>6

(* A step of p keeps both ways open, and what p saved. *)
LEMMA KeptOfActor ==
  ASSUME PlacedInv, DoubtInv, KeepInv, NEW p \in Procs, Acting(p)
  PROVE  BothWaysStayOpen' /\ Kept(p)'
<1>1. /\ TypeOK /\ Placed(p) /\ InDoubt(p) /\ Kept(p) /\ BothWaysStayOpen /\ proc[p].at \in Nat
  BY DEF PlacedInv, DoubtInv, KeepInv, TypeOK, States
<1> DEFINE Still == UNCHANGED <<stage, history, log>>
<1>2. log' = log => \A c, m : Logged(c, m)' = Logged(c, m)
  BY DEF Logged
<1>3. Still /\ pending' \subseteq pending => BothWaysStayOpen'
  BY <1>1, <1>2, WaysStay
<1>4. pending' = {} => BothWaysStayOpen'
  BY DEF BothWaysStayOpen
<1>5. proc'[p].step \notin {"save", "declare"} => Kept(p)'
  BY DEF Kept
<1>6. Erred(p) => proc'[p].step \notin {"save", "declare"}
  BY DEF Erred, Became
<1>7. CASE Begin(p) \/ Acquire(p) \/ Timeout(p) \/ RecoverRefused(p)
  <2>1. proc'[p].step \in {"waiting", "recover", "finish", "idle"}
    BY <1>1, <1>7, Outcomes, WideOutcomes DEF Acquire, Timeout, RecoverRefused, Steps, Became
  <2>2. Still /\ pending' = pending
    BY <1>7 DEF Begin, Acquire, Timeout, RecoverRefused, durable
  <2> QED BY <1>3, <1>5, <2>1, <2>2
<1>8. CASE RecoverNothing(p)
  BY <1>1, <1>4, <1>5, <1>8, Outcomes DEF RecoverNothing, Became, Steps
<1>9. CASE RecoverBatch(p)
  BY <1>1, <1>3, <1>5, <1>9, WideOutcomes DEF RecoverBatch, durable
<1>10. CASE Finish(p)
  <2>1. proc'[p].step \in {"write", "resolve", "check", "idle"}
    BY <1>1, <1>10, Outcomes DEF Finish, Steps, Became
  <2>2. pending' = {}
    BY <1>1, <1>10 DEF Finish, NoBatchInTheWay, InDoubt
  <2> QED BY <1>4, <1>5, <2>1, <2>2
<1>11. CASE FinishRefused(p) \/ Answered(p) \/ Unresolved(p) \/ Confirm(p) \/ CheckRefuse(p)
  <2>1. proc'[p].step \in {"waiting", "preview", "idle"}
    BY <1>1, <1>11, Outcomes, WideOutcomes
    DEF FinishRefused, Answered, Confirm, CheckRefuse, Steps, Became
  <2>2. Still /\ pending' = pending
    BY <1>11 DEF FinishRefused, Answered, Unresolved, Confirm, CheckRefuse, durable
  <2> QED BY <1>3, <1>5, <2>1, <2>2
<1>12. CASE CheckAccept(p)
  BY <1>1, <1>3, <1>5, <1>12, WideOutcomes DEF CheckAccept, durable
<1>13. CASE StagePayload(p)
  <2>1. pending' = {}
    BY <1>1, <1>13 DEF StagePayload, InDoubt
  <2>2. \/ proc'[p].step \notin {"save", "declare"}
        \/ proc'[p].step = "save" /\ proc'[p].at = 1
    BY <1>1, <1>6, <1>13, Outcomes DEF StagePayload, Became, Steps
  <2> QED BY <1>4, <2>1, <2>2 DEF Kept
<1>14. CASE SaveHistory(p)
  <2>1. pending' = {}
    BY <1>1, <1>14 DEF SaveHistory, InDoubt
  <2> QED BY <1>4, <1>14, <2>1, SaveSteps
<1>15. CASE WritePending(p)
  <2>1. PICK b : b = proc[p].batch
    OBVIOUS
  <2>2. /\ pending' = {b} /\ Staged(b) = 1..Size(b)
        /\ \A path \in Affected(b.shape) : Saved(b, path)
    BY <1>1, <1>15, <2>1 DEF WritePending, InDoubt, Kept
  <2>3. stage' = stage /\ history' = history
    BY <1>15 DEF WritePending
  <2>4. BothWaysStayOpen'
    BY <2>2, <2>3 DEF BothWaysStayOpen, Staged, Saved
  <2>5. proc'[p].step \notin {"save", "declare"}
    BY <1>1, <1>6, <1>15, Outcomes DEF WritePending, Became, Steps
  <2> QED BY <1>5, <2>4, <2>5
<1>16. CASE Classify(p) \/ RollForward(p) \/ WriteResult(p) \/ RemovePending(p)
  <2>1. proc'[p].step \notin {"save", "declare"}
    BY <1>1, <1>6, <1>16, Outcomes
    DEF Classify, RollForward, WriteResult, RemovePending, EachPath, AfterBytes, Became, Steps
  <2>2. Still /\ pending' \subseteq pending
    BY <1>16 DEF Classify, RollForward, WriteResult, RemovePending, durable
  <2> QED BY <1>3, <1>5, <2>1, <2>2
<1>17. CASE AppendRecord(p)
  <2>1. PICK b \in Batches, n \in Nat \ {0} : b = proc[p].batch /\ n = proc[p].at
    <3>1. proc[p].batch \in Batches /\ Size(proc[p].batch) \in Nat
      BY <1>1, <1>17, ShapeFacts DEF AppendRecord, Placed, Working, TypeOK
    <3>2. proc[p].at \in Nat \ {0}
      BY <1>1, <1>17, <3>1 DEF AppendRecord, Placed
    <3> QED BY <3>1, <3>2
  <2>2. \A c, m : Logged(c, m) => Logged(c, m)'
    BY <1>1, <1>17, <2>1, LogAppended DEF AppendRecord
  <2>3. UNCHANGED <<stage, history, pending>>
    BY <1>17 DEF AppendRecord
  <2>4. proc'[p].step \notin {"save", "declare"}
    BY <1>1, <1>6, <1>17, Outcomes DEF AppendRecord, Became, Steps
  <2> QED BY <1>1, <1>5, <2>2, <2>3, <2>4, WaysStay
<1>18. CASE RemoveStage(p)
  <2>1. pending' = {}
    BY <1>1, <1>18 DEF RemoveStage, InDoubt
  <2>2. proc'[p].step \notin {"save", "declare"}
    BY <1>1, <1>6, <1>18, Outcomes DEF RemoveStage, Became, Steps
  <2> QED BY <1>4, <1>5, <2>1, <2>2
<1>19. CASE Succeed(p) \/ ClearStage(p)
  <2>1. pending' = {} /\ Stop(p)
    BY <1>1, <1>19 DEF Succeed, ClearStage, InDoubt
  <2> QED BY <1>1, <1>4, <1>5, <2>1, Outcomes
<1>20. CASE Handle(p)
  <2>1. 2 * Size(proc[p].batch) \in Nat
    BY <1>1, <1>20, ShapeFacts DEF Handle, Placed, Working, TypeOK
  <2>2. proc'[p].step \in {"idle", "undo"}
    BY <1>1, <1>20, <2>1, Outcomes DEF Handle, Became, Steps
  <2>3. CASE pending' = {}
    BY <1>4, <1>5, <2>2, <2>3
  <2>4. CASE pending' # {}
    <3>1. Still /\ pending' = pending
      BY <1>1, <1>20, <2>4 DEF Handle, InDoubt
    <3> QED BY <1>3, <1>5, <2>2, <3>1
  <2> QED BY <2>3, <2>4
<1>21. CASE Undo(p) \/ Verify(p) \/ DropPending(p)
  <2>1. proc[p].step = "undo" /\ proc[p].at > 0 => proc[p].at - 1 \in Nat
    BY <1>1
  <2>2. proc'[p].step \notin {"save", "declare"}
    BY <1>1, <1>6, <1>21, <2>1, Outcomes DEF Undo, Verify, DropPending, Became, Steps
  <2>3. Still /\ pending' \subseteq pending
    BY <1>21 DEF Undo, Verify, DropPending, durable
  <2> QED BY <1>3, <1>5, <2>2, <2>3
<1>22. CASE \E path \in Paths, bytes \in Contents :
              WriteNote(p, path, bytes) \/ WriteInterrupted(p, path, bytes)
  <2>1. Stop(p) /\ pending' = {}
    BY <1>1, <1>22 DEF WriteNote, WriteInterrupted, InDoubt
  <2> QED BY <1>1, <1>4, <1>5, <2>1, Outcomes
<1>23. CASE Fails(p) \/ Crash(p)
  <2>1. Still /\ pending' = pending
    BY <1>23 DEF Fails, Crash, durable
  <2>2. Erred(p)
    BY <1>1, <1>23, Outcomes DEF Fails, Raise, Crash, Erred
  <2> QED BY <1>3, <1>5, <1>6, <2>1, <2>2
<1> QED
  BY <1>7, <1>8, <1>9, <1>10, <1>11, <1>12, <1>13, <1>14, <1>15, <1>16, <1>17, <1>18, <1>19,
     <1>20, <1>21, <1>22, <1>23
  DEF Acting, Recover, Decide, Apply, RollBack

(* Payloads and prior bytes are there as long as they are needed. *)
LEMMA KeptHolds == Spec => []KeepInv
<1>1. Init => KeepInv
  BY DEF Init, KeepInv, BothWaysStayOpen, Kept, Idle
<1>2. ASSUME PlacedInv, DoubtInv, KeepInv, [Next]_vars PROVE KeepInv'
  <2>1. ASSUME NEW p \in Procs, Acting(p) PROVE KeepInv'
    BY <1>2, <2>1, KeptOfActor, KeptOfOthers DEF KeepInv
  <2>2. CASE UNCHANGED <<pending, proc, log, stage, history>>
    BY <1>2, <2>2 DEF KeepInv, BothWaysStayOpen, Kept, Saved, Staged, Logged
  <2> QED
    BY <1>2, <2>1, <2>2 DEF Next, Acting, Preview, AdoptDisk, EditOutside, vars, durable
<1> QED BY <1>1, <1>2, PlacesHold, DoubtHolds, PTL DEF Spec

(* A published batch can be rolled forward, and before its first record    *)
(* back.                                                                   *)
THEOREM BatchWaysStayOpen == Spec => []BothWaysStayOpen
<1>1. KeepInv => BothWaysStayOpen
  BY DEF KeepInv
<1> QED BY <1>1, KeptHolds, PTL

--------------------------------------------------------------------------------
(* The bytes a batch wrote are still those it leads to, and it has a       *)
(* receipt.                                                                *)
Owned ==
  \A path \in Paths : origin[path] # NoBatch =>
    /\ origin[path] \in pending \cup committed
    /\ path \in Affected(origin[path].shape)
    /\ disk[path] = Image(origin[path])[path]

(* A rollback that was verified left none of them. *)
Cleared(p) ==
  proc[p].step = "drop" => \A path \in Paths : origin[path] # proc[p].batch

(* What TracesMatchReceipts says of the disk, made inductive. *)
OriginInv == Owned /\ \A p \in Procs : Cleared(p)

(* A step of p brings back no bytes another rolled back. *)
LEMMA ClearedOfOthers ==
  ASSUME PlacedInv, OriginInv, NEW p \in Procs, Acting(p), NEW q \in Procs \ {p}
  PROVE  Cleared(q)'
<1>1. proc'[q] = proc[q] /\ Cleared(q)
  BY OthersStay DEF PlacedInv, OriginInv
<1> QED BY <1>1, LockFacts DEF Cleared, Critical, Steps

(* A path that gets bytes of its own. *)
LEMMA OwnedElsewhere ==
  ASSUME TypeOK, Owned, NEW path \in Paths, NEW bytes,
         disk' = [disk EXCEPT ![path] = bytes], origin' = [origin EXCEPT ![path] = NoBatch],
         pending' = pending, committed' = committed
  PROVE  Owned'
<1> SUFFICES ASSUME NEW other \in Paths, origin'[other] # NoBatch
             PROVE  /\ origin'[other] \in pending \cup committed
                    /\ other \in Affected(origin'[other].shape)
                    /\ disk'[other] = Image(origin'[other])[other]
  BY DEF Owned
<1>1. other # path /\ origin'[other] = origin[other] /\ disk'[other] = disk[other]
  BY DEF TypeOK
<1> QED BY <1>1 DEF Owned

(* A path that is rolled forward. *)
LEMMA OwnedForward ==
  ASSUME PlacedInv, DoubtInv, Owned, NEW p \in Procs, RollForward(p)
  PROVE  Owned'
<1>1. TypeOK /\ Placed(p) /\ InDoubt(p) /\ proc[p].step = "roll"
  BY DEF PlacedInv, DoubtInv, RollForward
<1>2. PICK b \in Batches, n \in Nat : /\ b = proc[p].batch /\ n = proc[p].at
                                      /\ n \in 1..(2 * Size(b)) /\ pending = {b}
  <2>1. proc[p].batch \in Batches /\ proc[p].at \in Nat
    BY <1>1 DEF Placed, Working, TypeOK, States
  <2> QED BY <1>1, <2>1 DEF Placed, InDoubt
<1>3. UNCHANGED <<pending, committed>>
  BY DEF RollForward
<1>4. CASE Landed(b, n)
  BY <1>2, <1>3, <1>4 DEF RollForward, Owned
<1>5. CASE ~Landed(b, n)
  <2> DEFINE at == PathAt(b, n)
  <2>1. at \in Affected(b.shape) /\ at \in Paths
    <3>1. at # NoPath
      <4>1. CASE n <= Size(b)
        <5>1. n \in 1..Size(b) /\ Size(b) \in Nat
          BY <1>2, <4>1, ShapeFacts
        <5> QED BY <5>1, PathAtFacts, AffectedFacts
      <4>2. CASE n > Size(b)
        BY <1>5, <4>2 DEF Landed
      <4>3. Size(b) \in Nat
        BY ShapeFacts
      <4> QED BY <1>2, <4>1, <4>2, <4>3
    <3> QED BY <1>2, <3>1, PathAtPlace
  <2>2. disk' = [disk EXCEPT ![at] = Image(b)[at]] /\ origin' = [origin EXCEPT ![at] = b]
    BY <1>2, <1>5 DEF RollForward
  <2> HIDE DEF at
  <2>3. ASSUME NEW other \in Paths, origin'[other] # NoBatch
        PROVE  /\ origin'[other] \in pending \cup committed
               /\ other \in Affected(origin'[other].shape)
               /\ disk'[other] = Image(origin'[other])[other]
    <3>1. CASE other = at
      <4>1. origin'[other] = b /\ disk'[other] = Image(b)[other]
        BY <1>1, <2>1, <2>2, <3>1 DEF TypeOK
      <4> QED BY <1>2, <2>1, <3>1, <4>1
    <3>2. CASE other # at
      <4>1. origin'[other] = origin[other] /\ disk'[other] = disk[other]
        BY <1>1, <2>1, <2>2, <3>2 DEF TypeOK
      <4> QED BY <2>3, <4>1 DEF Owned
    <3> QED BY <3>1, <3>2
  <2> QED BY <1>3, <2>3 DEF Owned
<1> QED BY <1>4, <1>5

(* A step of p leaves no bytes of a batch without a receipt. *)
LEMMA OriginOfActor ==
  ASSUME PlacedInv, DoubtInv, RecordInv, OriginInv, NEW p \in Procs, Acting(p)
  PROVE  Owned' /\ Cleared(p)'
<1>1. /\ TypeOK /\ Placed(p) /\ InDoubt(p) /\ Recorded(p) /\ Owned /\ Cleared(p)
      /\ proc[p].at \in Nat
  BY DEF PlacedInv, DoubtInv, RecordInv, OriginInv, TypeOK, States
<1> DEFINE Still == UNCHANGED <<disk, origin, committed>>
<1>2. Still /\ pending \subseteq pending' \cup committed => Owned'
  BY <1>1 DEF Owned
<1>3. proc'[p].step # "drop" => Cleared(p)'
  BY DEF Cleared
<1>4. Erred(p) => proc'[p].step # "drop"
  BY DEF Erred, Became
<1>5. CASE Begin(p) \/ Acquire(p) \/ Timeout(p) \/ RecoverNothing(p) \/ RecoverRefused(p)
  <2>1. proc'[p].step # "drop"
    BY <1>1, <1>5, Outcomes, WideOutcomes
    DEF Acquire, Timeout, RecoverNothing, RecoverRefused, Steps, Became
  <2>2. Still /\ pending' = pending
    BY <1>5 DEF Begin, Acquire, Timeout, RecoverNothing, RecoverRefused, durable
  <2> QED BY <1>2, <1>3, <2>1, <2>2
<1>6. CASE RecoverBatch(p) \/ Unresolved(p) \/ CheckAccept(p)
  <2>1. proc'[p].step # "drop"
    BY <1>1, <1>6, WideOutcomes
  <2>2. Still /\ pending' = pending
    BY <1>6 DEF RecoverBatch, Unresolved, CheckAccept, durable
  <2> QED BY <1>2, <1>3, <2>1, <2>2
<1>7. CASE Finish(p)
  <2>1. proc'[p].step # "drop"
    BY <1>1, <1>7, Outcomes DEF Finish, Steps, Became
  <2>2. Still /\ pending' = pending
    BY <1>7 DEF Finish
  <2> QED BY <1>2, <1>3, <2>1, <2>2
<1>8. CASE FinishRefused(p) \/ Answered(p) \/ Confirm(p) \/ CheckRefuse(p)
  <2>1. proc'[p].step # "drop"
    BY <1>1, <1>8, Outcomes DEF FinishRefused, Answered, Confirm, CheckRefuse, Steps, Became
  <2>2. Still /\ pending' = pending
    BY <1>8 DEF FinishRefused, Answered, Confirm, CheckRefuse, durable
  <2> QED BY <1>2, <1>3, <2>1, <2>2
<1>9. CASE StagePayload(p) \/ SaveHistory(p) \/ WritePending(p) \/ Classify(p)
  <2>1. proc'[p].step # "drop"
    <3>1. CASE StagePayload(p)
      BY <1>1, <1>4, <3>1, Outcomes DEF StagePayload, Steps, Became
    <3>2. CASE SaveHistory(p)
      BY <1>1, <1>4, <3>2, Outcomes DEF SaveHistory, EachPath, Steps, Became
    <3>3. CASE WritePending(p)
      BY <1>1, <1>4, <3>3, Outcomes DEF WritePending, Steps, Became
    <3>4. CASE Classify(p)
      BY <1>1, <1>4, <3>4, Outcomes DEF Classify, Steps, Became
    <3> QED BY <1>9, <3>1, <3>2, <3>3, <3>4
  <2>2. Still /\ pending \subseteq pending'
    BY <1>9 DEF StagePayload, SaveHistory, WritePending, Classify, durable
  <2> QED BY <1>2, <1>3, <2>1, <2>2
<1>10. CASE RollForward(p)
  <2>1. proc'[p].step # "drop"
    BY <1>1, <1>4, <1>10, Outcomes DEF RollForward, EachPath, AfterBytes, Steps, Became
  <2> QED BY <1>1, <1>3, <1>10, <2>1, OwnedForward
<1>11. CASE AppendRecord(p) \/ RemoveStage(p)
  <2>1. proc'[p].step # "drop"
    BY <1>1, <1>4, <1>11, Outcomes DEF AppendRecord, RemoveStage, Steps, Became
  <2>2. Still /\ pending' = pending
    BY <1>11 DEF AppendRecord, RemoveStage
  <2> QED BY <1>2, <1>3, <2>1, <2>2
<1>12. CASE WriteResult(p)
  <2>1. proc'[p].step # "drop"
    BY <1>1, <1>4, <1>12, Outcomes DEF WriteResult, Steps, Became
  <2>2. Owned'
    BY <1>1, <1>12 DEF WriteResult, Owned
  <2> QED BY <1>3, <2>1, <2>2
<1>13. CASE RemovePending(p)
  <2>1. proc'[p].step # "drop"
    BY <1>1, <1>4, <1>13, Outcomes DEF RemovePending, Steps, Became
  <2>2. Still /\ pending \subseteq pending' \cup committed
    BY <1>1, <1>13 DEF RemovePending, Recorded
  <2> QED BY <1>2, <1>3, <2>1, <2>2
<1>14. CASE Handle(p)
  <2>1. 2 * Size(proc[p].batch) \in Nat
    BY <1>1, <1>14, ShapeFacts DEF Handle, Placed, Working, TypeOK
  <2>2. proc'[p].step # "drop"
    BY <1>1, <1>14, <2>1, Outcomes DEF Handle, Steps, Became
  <2>3. Still /\ pending' = pending
    BY <1>14 DEF Handle
  <2> QED BY <1>2, <1>3, <2>2, <2>3
<1>15. CASE Undo(p)
  <2>1. proc'[p].step # "drop"
    <3>1. proc[p].at - 1 \in Nat
      BY <1>1, <1>15 DEF Undo
    <3> QED BY <1>1, <1>4, <1>15, <3>1, Outcomes DEF Undo, Steps, Became
  <2>2. PICK b \in Batches, n \in Nat :
          b = proc[p].batch /\ n = proc[p].at /\ n \in 1..(2 * Size(b))
    <3>1. proc[p].batch \in Batches
      BY <1>1, <1>15 DEF Undo, Placed, Working, TypeOK
    <3>2. proc[p].at \in 1..(2 * Size(proc[p].batch))
      BY <1>1, <1>15, <3>1, ShapeFacts DEF Undo, Placed
    <3> QED BY <3>1, <3>2
  <2>3. UNCHANGED <<pending, committed>>
    BY <1>15 DEF Undo
  <2>4. CASE UNCHANGED <<disk, origin>>
    BY <1>2, <1>3, <2>1, <2>3, <2>4
  <2>5. CASE ~UNCHANGED <<disk, origin>>
    <3>1. /\ PathAt(b, n) # NoPath
          /\ disk' = [disk EXCEPT ![PathAt(b, n)] = b.base[PathAt(b, n)]]
          /\ origin' = [origin EXCEPT ![PathAt(b, n)] = NoBatch]
      BY <1>15, <2>2, <2>5 DEF Undo
    <3>2. PathAt(b, n) \in Paths
      BY <2>2, <3>1, PathAtPlace
    <3>3. Owned'
      BY <1>1, <2>3, <3>1, <3>2, OwnedElsewhere
    <3> QED BY <1>3, <2>1, <3>3
  <2> QED BY <2>4, <2>5
<1>16. CASE Verify(p)
  <2>1. Still /\ pending' = pending
    BY <1>16 DEF Verify, durable
  <2>2. CASE \A path \in Affected(proc[p].batch.shape) : disk[path] = proc[p].batch.base[path]
    <3>1. PICK b \in Batches : b = proc[p].batch /\ Effective(b)
      BY <1>1, <1>16 DEF Verify, Placed, Working, TypeOK, PlacedInv
    <3>2. \A path \in Paths : origin[path] # b
      BY <1>1, <2>2, <3>1, JobsAssumption DEF Owned, Effective
    <3>3. proc'[p].batch = b
      BY <1>1, <1>16, <2>2, <3>1, Outcomes DEF Verify, Steps, Became
    <3> QED BY <1>2, <2>1, <3>2, <3>3 DEF Cleared
  <2>3. CASE ~\A path \in Affected(proc[p].batch.shape) : disk[path] = proc[p].batch.base[path]
    BY <1>1, <1>2, <1>3, <1>16, <2>1, <2>3, Outcomes DEF Verify
  <2> QED BY <2>2, <2>3
<1>17. CASE DropPending(p)
  <2>1. proc'[p].step # "drop"
    BY <1>1, <1>4, <1>17, Outcomes DEF DropPending, Steps, Became
  <2>2. Owned'
    BY <1>1, <1>17 DEF DropPending, Owned, Cleared
  <2> QED BY <1>3, <2>1, <2>2
<1>18. CASE Succeed(p) \/ ClearStage(p)
  <2>1. Stop(p) /\ Still /\ pending' = pending
    BY <1>18 DEF Succeed, ClearStage
  <2> QED BY <1>1, <1>2, <1>3, <2>1, Outcomes
<1>19. ASSUME NEW path \in Paths, NEW bytes \in Contents,
              WriteNote(p, path, bytes) \/ WriteInterrupted(p, path, bytes)
       PROVE  Owned' /\ Cleared(p)'
  <2>1. Stop(p) /\ UNCHANGED <<pending, committed>>
    BY <1>19 DEF WriteNote, WriteInterrupted
  <2>2. \/ UNCHANGED <<disk, origin>>
        \/ disk' = [disk EXCEPT ![path] = bytes] /\ origin' = [origin EXCEPT ![path] = NoBatch]
    BY <1>19 DEF WriteNote, WriteInterrupted
  <2>3. Owned'
    BY <1>1, <1>2, <2>1, <2>2, OwnedElsewhere
  <2> QED BY <1>1, <1>3, <2>1, <2>3, Outcomes
<1>20. CASE Fails(p) \/ Crash(p)
  <2>1. Still /\ pending' = pending
    BY <1>20 DEF Fails, Crash, durable
  <2>2. Erred(p)
    BY <1>1, <1>20, Outcomes DEF Fails, Raise, Crash, Erred
  <2> QED BY <1>2, <1>3, <1>4, <2>1, <2>2
<1> QED
  BY <1>5, <1>6, <1>7, <1>8, <1>9, <1>10, <1>11, <1>12, <1>13, <1>14, <1>15, <1>16, <1>17,
     <1>18, <1>19, <1>20
  DEF Acting, Recover, Decide, Apply, RollBack

(* Bytes of a batch stay accounted for, through edits too. *)
LEMMA OriginHolds == Spec => []OriginInv
<1>1. Init => OriginInv
  BY DEF Init, OriginInv, Owned, Cleared, Idle
<1>2. ASSUME PlacedInv, DoubtInv, RecordInv, OriginInv, [Next]_vars PROVE OriginInv'
  <2>1. ASSUME NEW p \in Procs, Acting(p) PROVE OriginInv'
    BY <1>2, <2>1, OriginOfActor, ClearedOfOthers DEF OriginInv
  <2>2. CASE UNCHANGED <<disk, origin, pending, committed, proc>>
    BY <1>2, <2>2 DEF OriginInv, Owned, Cleared
  <2>3. ASSUME NEW path \in Paths, EditOutside(path) PROVE OriginInv'
    <3>1. PICK bytes \in Bytes : disk' = [disk EXCEPT ![path] = bytes]
      BY <2>3 DEF EditOutside
    <3>2. origin' = [origin EXCEPT ![path] = NoBatch] /\ UNCHANGED <<pending, committed, proc>>
      BY <2>3 DEF EditOutside
    <3>3. TypeOK
      BY <1>2 DEF PlacedInv
    <3>4. Owned'
      BY <1>2, <3>1, <3>2, <3>3, OwnedElsewhere DEF OriginInv
    <3>5. \A p \in Procs : proc[p].step = "drop" => proc[p].batch # NoBatch
      BY <1>2, <3>3, JobsAssumption DEF PlacedInv, TypeOK, Placed, Working
    <3>6. \A p \in Procs : Cleared(p)'
      BY <1>2, <3>2, <3>3, <3>5 DEF OriginInv, Cleared, TypeOK
    <3> QED BY <3>4, <3>6 DEF OriginInv
  <2> QED
    BY <1>2, <2>1, <2>2, <2>3 DEF Next, Acting, Preview, AdoptDisk, vars, durable
<1> QED BY <1>1, <1>2, PlacesHold, DoubtHolds, RecordsHold, PTL DEF Spec

(* A batch leaves no trace without a receipt, and no trace twice.          *)
THEOREM BatchTracesMatch == Spec => []TracesMatchReceipts
<1>1. PlacedInv /\ RecordInv /\ OriginInv => TracesMatchReceipts
  BY DEF PlacedInv, TypeOK, RecordInv, Journal, OriginInv, Owned, TracesMatchReceipts
<1> QED BY <1>1, PlacesHold, RecordsHold, OriginHolds, PTL

--------------------------------------------------------------------------------
(* Every path of b is as before it or as after it, and the rest of the     *)
(* vault as b was validated on.                                            *)
Between(b) ==
  /\ \A path \in Paths \ Affected(b.shape) : disk[path] = b.base[path]
  /\ \A path \in Affected(b.shape) : disk[path] \in {b.base[path], Image(b)[path]}

(* The paths the counter has passed have their new bytes. *)
Rolled(b, n) ==
  \A m \in 1..n : PathAt(b, m) # NoPath => disk[PathAt(b, m)] = Image(b)[PathAt(b, m)]

(* What p may rely on when no editor gets in while it holds the lock.      *)
Alone(p) ==
  LET s == proc[p].step  b == proc[p].batch  n == proc[p].at IN
  /\ s \in {"stage", "save", "declare", "drop"} => disk = b.base
  /\ s = "classify" /\ proc[p].own => Between(b)
  /\ s = "handler" /\ b \in pending => Between(b)
  /\ s \in {"roll", "undo"} => Between(b)
  /\ s = "roll" => Rolled(b, n - 1)
  /\ s \in {"record", "receipt", "forget"} => disk = Image(b)

(* No edit yet, or none that could fall into a critical section. *)
Calm == edits = 0 \/ ~EditorRaces

(* Receipts a batch can be continued from, made inductive. *)
CalmInv ==
  /\ edits = 0 => \A b \in pending : Between(b)
  /\ Calm => \A p \in Procs : Alone(p)

(* The vaults a batch starts and ends with are between the two. *)
LEMMA BetweenFacts ==
  ASSUME TypeOK, NEW b \in Batches
  PROVE  /\ disk = b.base => Between(b)
         /\ ~ScopeMoved(b) /\ ~Unfit(b) => Between(b)
         /\ Between(b) /\ (\A path \in Affected(b.shape) : disk[path] = b.base[path])
              => disk = b.base
         /\ Between(b) /\ Rolled(b, 2 * Size(b)) => disk = Image(b)
<1>1. disk \in [Paths -> Bytes] /\ b.base \in [Paths -> Bytes] /\ Image(b) \in [Paths -> Bytes]
  BY ShapeFacts, ImageFacts DEF TypeOK
<1>2. disk = b.base => Between(b)
  BY DEF Between
<1>3. ~ScopeMoved(b) /\ ~Unfit(b) => Between(b)
  BY DEF ScopeMoved, Unfit, FileMoved, Between
<1>4. Between(b) /\ (\A path \in Affected(b.shape) : disk[path] = b.base[path]) => disk = b.base
  BY <1>1, AffectedFacts DEF Between
<1>5. ASSUME Between(b), Rolled(b, 2 * Size(b)) PROVE disk = Image(b)
  <2>1. ASSUME NEW path \in Affected(b.shape) PROVE disk[path] = Image(b)[path]
    BY <1>5, <2>1, PathAtFacts, AffectedFacts DEF Rolled
  <2>2. ASSUME NEW path \in Paths \ Affected(b.shape) PROVE disk[path] = Image(b)[path]
    BY <1>5, <2>2, ImageFacts DEF Between
  <2> QED BY <1>1, <2>1, <2>2
<1> QED BY <1>2, <1>3, <1>4, <1>5

(* One path of the batch goes either way. *)
LEMMA BetweenFlips ==
  ASSUME TypeOK, NEW b \in Batches, NEW path \in Affected(b.shape), Between(b),
         NEW bytes \in {b.base[path], Image(b)[path]}, disk' = [disk EXCEPT ![path] = bytes]
  PROVE  Between(b)'
BY AffectedFacts DEF Between, TypeOK

(* A step of p keeps the vault another relies on. *)
LEMMA AloneOfOthers ==
  ASSUME PlacedInv, NEW p \in Procs, Acting(p), NEW q \in Procs \ {p}, Alone(q)
  PROVE  Alone(q)'
<1>1. proc'[q] = proc[q]
  BY OthersStay DEF PlacedInv
<1>2. CASE proc[q].step \notin Critical
  BY <1>1, <1>2 DEF Alone, Critical, Steps
<1>3. CASE UNCHANGED <<disk, pending>>
  BY <1>1, <1>3 DEF Alone, Between, Rolled
<1> QED BY <1>2, <1>3, LockFacts DEF durable

(* A path that is rolled forward has its new bytes, if it was between.     *)
LEMMA RollSteps ==
  ASSUME PlacedInv, DoubtInv, NEW p \in Procs, RollForward(p), NEW b \in Batches,
         NEW n \in 1..(2 * Size(b)), b = proc[p].batch, n = proc[p].at, Between(b)
  PROVE  /\ Between(b)'
         /\ Rolled(b, n - 1) => Rolled(b, n)'
         /\ \/ disk' = disk
            \/ /\ PathAt(b, n) \in Affected(b.shape)
               /\ disk[PathAt(b, n)] = b.base[PathAt(b, n)]
               /\ disk' = [disk EXCEPT ![PathAt(b, n)] = Image(b)[PathAt(b, n)]]
<1>1. TypeOK /\ Size(b) \in Nat /\ n \in Nat /\ disk \in [Paths -> Bytes]
  BY ShapeFacts DEF PlacedInv, TypeOK
<1>2. CASE Landed(b, n)
  <2>1. disk' = disk
    BY <1>2 DEF RollForward
  <2>2. PathAt(b, n) # NoPath => disk[PathAt(b, n)] = Image(b)[PathAt(b, n)]
    <3>1. CASE n <= Size(b)
      <4>1. n \in 1..Size(b)
        BY <1>1, <3>1
      <4> QED BY <1>1, <1>2, <3>1, <4>1, PathAtFacts, ImageFacts DEF Landed
    <3>2. CASE n > Size(b)
      BY <1>1, <1>2, <3>2, PathAtFacts, ImageFacts DEF Landed
    <3> QED BY <1>1, <3>1, <3>2
  <2>3. \A m \in 1..n : m = n \/ m \in 1..(n - 1)
    BY <1>1
  <2> QED BY <2>1, <2>2, <2>3 DEF Between, Rolled
<1>3. CASE ~Landed(b, n)
  <2>1. PathAt(b, n) # NoPath
    <3>1. CASE n <= Size(b)
      <4>1. n \in 1..Size(b)
        BY <1>1, <3>1
      <4> QED BY <4>1, PathAtFacts, AffectedFacts
    <3>2. CASE n > Size(b)
      BY <1>3, <3>2 DEF Landed
    <3> QED BY <1>1, <3>1, <3>2
  <2>2. PathAt(b, n) \in Affected(b.shape) /\ PathAt(b, n) \in Paths
    BY <2>1, PathAtPlace
  <2>3. disk' = [disk EXCEPT ![PathAt(b, n)] = Image(b)[PathAt(b, n)]]
    BY <1>3 DEF RollForward
  <2>4. Between(b)'
    BY <1>1, <2>2, <2>3, BetweenFlips
  <2>5. disk[PathAt(b, n)] # Image(b)[PathAt(b, n)]
    <3>1. CASE n <= Size(b)
      <4>1. n \in 1..Size(b)
        BY <1>1, <3>1
      <4> QED BY <1>1, <1>3, <3>1, <4>1, PathAtFacts, ImageFacts DEF Landed
    <3>2. CASE n > Size(b)
      BY <1>1, <1>3, <2>1, <3>2, PathAtFacts, ImageFacts DEF Landed
    <3> QED BY <1>1, <3>1, <3>2
  <2>6. ASSUME Rolled(b, n - 1), NEW m \in 1..n, PathAt(b, m) # NoPath
        PROVE  disk'[PathAt(b, m)] = Image(b)[PathAt(b, m)]
    <3>1. m \in 1..(2 * Size(b)) /\ (m = n \/ m \in 1..(n - 1))
      BY <1>1, <2>6
    <3>2. PathAt(b, m) \in Paths
      BY <2>6, <3>1, PathAtPlace
    <3>3. CASE PathAt(b, m) = PathAt(b, n)
      BY <1>1, <2>3, <3>2, <3>3
    <3>4. CASE PathAt(b, m) # PathAt(b, n)
      <4>1. disk'[PathAt(b, m)] = disk[PathAt(b, m)]
        BY <1>1, <2>3, <3>2, <3>4
      <4> QED BY <2>6, <3>1, <3>4, <4>1 DEF Rolled
    <3> QED BY <3>3, <3>4
  <2>7. Rolled(b, n - 1) => Rolled(b, n)'
    BY <2>6 DEF Rolled
  <2> QED BY <2>2, <2>3, <2>4, <2>5, <2>7 DEF Between
<1> QED BY <1>2, <1>3

(* With every path rolled forward the vault is the one the batch leads to. *)
LEMMA RolledWhole ==
  ASSUME NEW b \in Batches, TypeOK', Between(b)', Rolled(b, 2 * Size(b))'
  PROVE  disk' = Image(b)
<1>1. disk' \in [Paths -> Bytes] /\ Image(b) \in [Paths -> Bytes]
  BY ImageFacts DEF TypeOK
<1>2. ASSUME NEW path \in Affected(b.shape) PROVE disk'[path] = Image(b)[path]
  BY <1>2, PathAtFacts, AffectedFacts DEF Rolled
<1>3. ASSUME NEW path \in Paths \ Affected(b.shape) PROVE disk'[path] = Image(b)[path]
  BY <1>3, ImageFacts DEF Between
<1> QED BY <1>1, <1>2, <1>3

(* A path that is rolled back has its old bytes, if it was between.        *)
LEMMA UndoSteps ==
  ASSUME PlacedInv, NEW p \in Procs, Undo(p), NEW b \in Batches, NEW n \in 1..(2 * Size(b)),
         b = proc[p].batch, n = proc[p].at, Between(b)
  PROVE  /\ Between(b)'
         /\ \/ disk' = disk
            \/ /\ PathAt(b, n) \in Affected(b.shape)
               /\ disk[PathAt(b, n)] = Image(b)[PathAt(b, n)]
               /\ disk' = [disk EXCEPT ![PathAt(b, n)] = b.base[PathAt(b, n)]]
<1>1. TypeOK
  BY DEF PlacedInv
<1>2. CASE disk' = disk
  BY <1>2 DEF Between
<1>3. CASE disk' # disk
  <2>1. /\ PathAt(b, n) # NoPath /\ disk[PathAt(b, n)] # b.base[PathAt(b, n)]
        /\ disk' = [disk EXCEPT ![PathAt(b, n)] = b.base[PathAt(b, n)]]
    BY <1>3 DEF Undo
  <2>2. PathAt(b, n) \in Affected(b.shape)
    BY <2>1, PathAtPlace
  <2>3. Between(b)'
    BY <1>1, <2>1, <2>2, BetweenFlips
  <2>4. disk[PathAt(b, n)] = Image(b)[PathAt(b, n)]
    BY <2>1, <2>2 DEF Between
  <2> QED BY <2>1, <2>2, <2>3, <2>4
<1> QED BY <1>2, <1>3

(* An error of apply leaves a vault its handler can judge. *)
LEMMA ErrAlone ==
  ASSUME NEW p \in Procs, NEW b, b = proc[p].batch, Erred(p),
         proc[p].step \in {"stage", "save", "declare", "classify", "roll"} /\ proc[p].own
           => Between(b)'
  PROVE  Alone(p)'
BY DEF Alone, Erred, Became, Between

(* A step of p leaves a vault its next step can rely on, and the receipts  *)
(* a vault they can be rolled forward or back on.                          *)
LEMMA CalmOfActor ==
  ASSUME PlacedInv, DoubtInv, CalmInv, NEW p \in Procs, Acting(p)
  PROVE  /\ edits = 0 => \A b \in pending' : Between(b)'
         /\ Calm => Alone(p)'
<1> DEFINE Mild == edits = 0 => \A b \in pending' : Between(b)'
           Still == disk' = disk /\ pending' \subseteq pending
<1>1. /\ TypeOK /\ Placed(p) /\ InDoubt(p) /\ (Calm => Alone(p)) /\ (edits = 0 => Calm)
      /\ proc[p].at \in Nat
  BY DEF PlacedInv, DoubtInv, CalmInv, Calm, TypeOK, States
<1>2. Still => Mild
  BY DEF CalmInv, Between
<1>3. disk' = disk => \A b : Between(b)' = Between(b)
  BY DEF Between
<1>4. proc'[p].step \notin {"stage", "save", "declare", "classify", "handler", "roll", "undo",
                            "drop", "record", "receipt", "forget"} => Alone(p)'
  BY DEF Alone
<1>5. CASE \/ Begin(p) \/ Acquire(p) \/ Timeout(p) \/ RecoverNothing(p) \/ RecoverRefused(p)
           \/ Finish(p) \/ FinishRefused(p) \/ Answered(p) \/ Unresolved(p) \/ Confirm(p)
           \/ CheckRefuse(p)
  <2>1. CASE Begin(p) \/ Acquire(p) \/ Timeout(p) \/ RecoverNothing(p) \/ RecoverRefused(p)
    <3>1. proc'[p].step \in {"waiting", "recover", "finish", "idle"}
      BY <1>1, <2>1, Outcomes, WideOutcomes
      DEF Acquire, Timeout, RecoverNothing, RecoverRefused, Steps, Became
    <3>2. Still
      BY <2>1 DEF Begin, Acquire, Timeout, RecoverNothing, RecoverRefused, durable
    <3> QED BY <1>2, <1>4, <3>1, <3>2
  <2>2. CASE Finish(p)
    <3>1. proc'[p].step \in {"write", "resolve", "check", "idle"}
      BY <1>1, <2>2, Outcomes DEF Finish, Steps, Became
    <3> QED BY <1>2, <1>4, <2>2, <3>1 DEF Finish
  <2>3. CASE FinishRefused(p) \/ Answered(p) \/ Unresolved(p) \/ Confirm(p) \/ CheckRefuse(p)
    <3>1. proc'[p].step \in {"waiting", "preview", "idle"}
      BY <1>1, <2>3, Outcomes, WideOutcomes
      DEF FinishRefused, Answered, Confirm, CheckRefuse, Steps, Became
    <3>2. Still
      BY <2>3 DEF FinishRefused, Answered, Unresolved, Confirm, CheckRefuse, durable
    <3> QED BY <1>2, <1>4, <3>1, <3>2
  <2> QED BY <1>5, <2>1, <2>2, <2>3
<1>6. CASE RecoverBatch(p)
  <2>1. Still /\ proc'[p].step = "classify" /\ ~proc'[p].own
    BY <1>1, <1>6, WideOutcomes DEF RecoverBatch, durable
  <2> QED BY <1>2, <2>1 DEF Alone
<1>7. CASE CheckAccept(p)
  <2>1. Still /\ disk' = proc'[p].batch.base /\ proc'[p].step = "stage"
    BY <1>1, <1>7, WideOutcomes DEF CheckAccept, Unchanged, durable
  <2> QED BY <1>2, <2>1 DEF Alone
<1>8. CASE Succeed(p) \/ ClearStage(p) \/ Crash(p)
  <2>1. Stop(p) /\ Still
    BY <1>8 DEF Succeed, ClearStage, Crash, durable
  <2> QED BY <1>1, <1>2, <1>4, <2>1, Outcomes
<1>9. CASE \E path \in Paths, bytes \in Contents :
             WriteNote(p, path, bytes) \/ WriteInterrupted(p, path, bytes)
  <2>1. Stop(p) /\ pending' = {}
    BY <1>1, <1>9 DEF WriteNote, WriteInterrupted, InDoubt
  <2> QED BY <1>1, <1>4, <2>1, Outcomes
<1>10. CASE RemovePending(p) \/ RemoveStage(p)
  <2>1. Still
    BY <1>10 DEF RemovePending, RemoveStage
  <2>2. proc'[p].step \in {"unstage", "sweep", "finish", "late", "idle"}
    BY <1>1, <1>10, Outcomes DEF RemovePending, RemoveStage, Steps, Erred, Became
  <2> QED BY <1>2, <1>4, <2>1, <2>2
<1>11. CASE proc[p].step \in Working
  <2>1. PICK b \in Batches : b = proc[p].batch /\ Size(b) \in Nat
    <3>1. proc[p].batch \in Batches
      BY <1>1, <1>11 DEF Placed, TypeOK
    <3> QED BY <3>1, ShapeFacts
  <2>2. PICK n \in Nat : n = proc[p].at
    BY <1>1
  <2>3. ASSUME Calm, proc[p].step \in {"stage", "save", "declare"} PROVE disk = b.base /\ Between(b)
    BY <1>1, <2>1, <2>3, BetweenFacts DEF Alone
  <2>4. ASSUME Calm, proc[p].step \in {"stage", "save", "declare", "classify", "roll"},
               proc[p].own
        PROVE  Between(b)
    BY <1>1, <2>1, <2>3, <2>4 DEF Alone
  <2>5. Calm /\ Erred(p) /\ disk' = disk => Alone(p)'
    BY <1>3, <2>1, <2>4, ErrAlone
  <2>6. CASE StagePayload(p)
    <3>1. Still
      BY <2>6 DEF StagePayload
    <3>2. Erred(p) \/ (proc'[p].step \in {"stage", "save"} /\ proc'[p].batch = b)
      BY <1>1, <2>1, <2>6, Outcomes DEF StagePayload, Steps, Became
    <3> QED BY <1>2, <2>3, <2>5, <2>6, <3>1, <3>2 DEF Alone, StagePayload
  <2>7. CASE SaveHistory(p)
    <3>1. Still
      BY <2>7 DEF SaveHistory
    <3>2. Erred(p) \/ (proc'[p].step \in {"save", "declare"} /\ proc'[p].batch = b)
      BY <1>1, <2>1, <2>7, Outcomes DEF SaveHistory, EachPath, Steps, Became
    <3> QED BY <1>2, <2>3, <2>5, <2>7, <3>1, <3>2 DEF Alone, SaveHistory
  <2>8. CASE WritePending(p)
    <3>1. disk' = disk /\ pending' = {b}
      BY <1>1, <2>1, <2>8 DEF WritePending, InDoubt
    <3>2. Mild
      BY <1>1, <1>3, <2>3, <2>8, <3>1 DEF WritePending
    <3>3. Erred(p) \/ (proc'[p].step = "classify" /\ proc'[p].batch = b)
      BY <1>1, <2>1, <2>8, Outcomes DEF WritePending, Steps, Became
    <3> QED BY <1>3, <2>3, <2>5, <2>8, <3>1, <3>2, <3>3 DEF Alone, WritePending
  <2>9. CASE Classify(p)
    <3>1. Still
      BY <2>9 DEF Classify, durable
    <3>2. CASE Erred(p)
      BY <1>2, <2>5, <3>1, <3>2
    <3>3. CASE ~Erred(p)
      <4>1. ~Unfit(b) /\ (proc[p].own \/ ~ScopeMoved(b)) /\ Became(p, "roll", 1)
        BY <1>1, <2>1, <2>9, <3>3, Outcomes DEF Classify, Steps
      <4>2. Calm => Between(b)
        BY <1>1, <2>1, <2>4, <2>9, <4>1, BetweenFacts DEF Classify
      <4>3. proc'[p].step = "roll" /\ proc'[p].batch = b /\ proc'[p].at = 1
        BY <2>1, <4>1 DEF Became
      <4>4. Rolled(b, 0)'
        BY DEF Rolled
      <4>5. Calm => Between(b)'
        BY <1>3, <3>1, <4>2
      <4> QED BY <1>2, <3>1, <4>3, <4>4, <4>5 DEF Alone
    <3> QED BY <3>2, <3>3
  <2>10. CASE RollForward(p)
    <3>1. n \in 1..(2 * Size(b)) /\ pending' = {b}
      BY <1>1, <2>1, <2>2, <2>10 DEF RollForward, Placed, InDoubt
    <3>2. Calm => Between(b) /\ Rolled(b, n - 1)
      BY <1>1, <2>1, <2>2, <2>10 DEF RollForward, Alone
    <3>3. Calm => Between(b)' /\ Rolled(b, n)'
      BY <2>1, <2>2, <2>10, <3>1, <3>2, RollSteps
    <3>4. CASE Erred(p)
      BY <1>1, <2>1, <3>1, <3>3, <3>4, ErrAlone
    <3>5. CASE ~Erred(p)
      <4>1. \/ n < 2 * Size(b) /\ Became(p, "roll", n + 1)
            \/ n = 2 * Size(b) /\ (Became(p, "record", 1) \/ Became(p, "forget", 1))
        BY <1>1, <2>1, <2>2, <2>10, <3>1, <3>5, Outcomes
        DEF RollForward, EachPath, AfterBytes, Steps
      <4>2. CASE n < 2 * Size(b)
        <5>1. /\ proc'[p].step = "roll" /\ proc'[p].batch = b /\ proc'[p].at = n + 1
              /\ (n + 1) - 1 = n
          BY <2>1, <4>1, <4>2 DEF Became
        <5> QED BY <1>1, <3>1, <3>3, <5>1 DEF Alone
      <4>3. CASE n = 2 * Size(b)
        <5>1. proc'[p].step \in {"record", "forget"} /\ proc'[p].batch = b
          BY <2>1, <4>1, <4>3 DEF Became
        <5>2. TypeOK'
          BY TypesStay DEF Next, Acting
        <5>3. Calm => disk' = Image(b)
          BY <3>3, <4>3, <5>2, RolledWhole
        <5> QED BY <1>1, <3>1, <3>3, <5>1, <5>3 DEF Alone
      <4> QED BY <4>1, <4>2, <4>3
    <3> QED BY <3>4, <3>5
  <2>11. CASE AppendRecord(p) \/ WriteResult(p)
    <3>1. Still /\ proc[p].step \in {"record", "receipt"}
      BY <2>11 DEF AppendRecord, WriteResult
    <3>2. \/ Erred(p)
          \/ proc'[p].step \in {"record", "receipt", "forget"} /\ proc'[p].batch = b
      BY <1>1, <2>1, <2>11, Outcomes DEF AppendRecord, WriteResult, Steps, Became
    <3>3. Calm => disk' = Image(b)
      BY <1>1, <2>1, <3>1 DEF Alone
    <3> QED BY <1>2, <2>5, <3>1, <3>2, <3>3 DEF Alone
  <2>12. CASE Handle(p)
    <3>1. Still
      BY <2>12 DEF Handle
    <3>2. 2 * Size(b) \in Nat
      BY <2>1
    <3>3. \/ proc'[p].step = "idle"
          \/ /\ proc[p].step = "handler" /\ b \in pending
             /\ proc'[p].step = "undo" /\ proc'[p].batch = b
      BY <1>1, <2>1, <2>12, <3>2, Outcomes DEF Handle, Steps, Became
    <3>4. Calm /\ proc[p].step = "handler" /\ b \in pending => Between(b)'
      BY <1>1, <1>3, <2>1, <3>1 DEF Alone
    <3> QED BY <1>2, <1>4, <3>1, <3>3, <3>4 DEF Alone
  <2>13. CASE Undo(p)
    <3>1. pending' = {b} /\ n \in 1..(2 * Size(b)) /\ n - 1 \in Nat
      BY <1>1, <2>1, <2>2, <2>13 DEF Undo, InDoubt, Placed
    <3>2. Calm => Between(b)
      BY <1>1, <2>1, <2>13 DEF Undo, Alone
    <3>3. Calm => Between(b)'
      BY <1>1, <1>3, <2>1, <2>2, <2>13, <3>1, <3>2, UndoSteps
    <3>4. proc'[p].step = "idle" \/ (proc'[p].step = "undo" /\ proc'[p].batch = b)
      BY <1>1, <2>1, <2>2, <2>13, <3>1, Outcomes DEF Undo, Erred, Steps, Became
    <3> QED BY <1>1, <3>1, <3>3, <3>4 DEF Alone
  <2>14. CASE Verify(p)
    <3>1. Still
      BY <2>14 DEF Verify, durable
    <3>2. \/ proc'[p].step = "idle"
          \/ /\ proc'[p].step = "drop" /\ proc'[p].batch = b
             /\ \A path \in Affected(b.shape) : disk[path] = b.base[path]
      BY <1>1, <2>1, <2>14, Outcomes DEF Verify, Steps, Became
    <3>3. Calm => Between(b)
      BY <1>1, <2>1, <2>14 DEF Verify, Alone
    <3>4. Calm /\ (\A path \in Affected(b.shape) : disk[path] = b.base[path]) => disk' = b.base
      BY <1>1, <3>1, <3>3, BetweenFacts
    <3> QED BY <1>2, <1>4, <3>1, <3>2, <3>4 DEF Alone
  <2>15. CASE DropPending(p)
    <3>1. Still
      BY <2>15 DEF DropPending
    <3>2. proc'[p].step \in {"idle", "clear"}
      BY <1>1, <2>15, Outcomes DEF DropPending, Erred, Steps, Became
    <3> QED BY <1>2, <1>4, <3>1, <3>2
  <2>16. CASE Fails(p)
    <3>1. Still /\ Erred(p)
      BY <1>1, <2>16, Outcomes DEF Fails, Raise, durable
    <3> QED BY <1>2, <2>5, <3>1
  <2> QED
    BY <1>5, <1>6, <1>7, <1>8, <1>9, <1>10, <2>6, <2>7, <2>8, <2>9, <2>10, <2>11, <2>12, <2>13,
       <2>14, <2>15, <2>16
    DEF Acting, Recover, Decide, Apply, RollBack
<1>12. CASE proc[p].step \notin Working
  <2>1. /\ ~StagePayload(p) /\ ~SaveHistory(p) /\ ~WritePending(p) /\ ~Classify(p)
        /\ ~RollForward(p) /\ ~AppendRecord(p) /\ ~WriteResult(p) /\ ~Handle(p) /\ ~Undo(p)
        /\ ~Verify(p) /\ ~DropPending(p) /\ ~Fails(p)
    BY <1>12 DEF Working, StagePayload, SaveHistory, WritePending, Classify, RollForward,
      AppendRecord, WriteResult, Handle, Undo, Verify, DropPending, Fails
  <2> QED
    BY <1>5, <1>6, <1>7, <1>8, <1>9, <1>10, <2>1 DEF Acting, Recover, Decide, Apply, RollBack
<1> QED BY <1>11, <1>12

(* No step of a process takes a committed receipt away. *)
LEMMA ReceiptsStay ==
  ASSUME NEW p \in Procs, Acting(p) PROVE committed \subseteq committed'
BY DEF Acting, Begin, Acquire, Timeout, Recover, RecoverNothing, RecoverRefused, RecoverBatch,
  Finish, FinishRefused, Decide, Answered, Unresolved, Confirm, CheckAccept, CheckRefuse,
  Apply, StagePayload, SaveHistory, WritePending, Classify, RollForward, AppendRecord,
  WriteResult, RemovePending, RemoveStage, Succeed, RollBack, Handle, Undo, Verify,
  DropPending, ClearStage, Fails, Crash, WriteNote, WriteInterrupted, durable

(* Before the first edit, and as long as editors keep out of the lock, no  *)
(* step takes a vault out of what the batch at hand can continue from.     *)
LEMMA CalmHolds == Spec => []CalmInv
<1>1. Init => CalmInv
  BY DEF Init, CalmInv, Alone, Idle
<1>2. ASSUME PlacedInv, DoubtInv, CalmInv, [Next]_vars PROVE CalmInv'
  <2>1. TypeOK /\ Locking /\ EditorRaces' = EditorRaces
    BY <1>2 DEF PlacedInv
  <2>2. ASSUME NEW p \in Procs, Acting(p) PROVE CalmInv'
    <3>1. edits' = edits
      BY <2>1, <2>2, OthersStay
    <3>2. ASSUME Calm, NEW q \in Procs PROVE Alone(q)'
      BY <1>2, <2>2, <3>2, AloneOfOthers, CalmOfActor DEF CalmInv
    <3> QED BY <1>2, <2>2, <3>1, <3>2, CalmOfActor DEF CalmInv, Calm
  <2>3. CASE UNCHANGED <<disk, pending, proc, edits>>
    BY <1>2, <2>3 DEF CalmInv, Calm, Alone, Between, Rolled
  <2>4. ASSUME NEW path \in Paths, EditOutside(path) PROVE CalmInv'
    <3>1. edits' # 0 /\ proc' = proc /\ (~EditorRaces => lock = NoProc)
      BY <2>1, <2>4 DEF EditOutside, TypeOK
    <3>2. ~EditorRaces => \A p \in Procs : proc[p].step \notin Critical
      BY <2>1, <3>1, ConstantsAssumption DEF Locking
    <3>3. ~EditorRaces => \A p \in Procs : Alone(p)'
      BY <3>1, <3>2 DEF Alone, Critical, Steps
    <3> QED BY <3>1, <3>3 DEF CalmInv, Calm
  <2> QED
    BY <1>2, <2>2, <2>3, <2>4 DEF Next, Acting, Preview, AdoptDisk, vars, durable
<1> QED BY <1>1, <1>2, PlacesHold, DoubtHolds, PTL DEF Spec

(* However often processes die, fail and recover, recovery finds a batch   *)
(* it can roll forward; only an edit from outside can take that away.      *)
THEOREM OnlyEditsCanBlock == Spec => []OnlyEditsBlock
<1>1. KeepInv /\ RecordInv /\ CalmInv /\ PlacedInv => OnlyEditsBlock
  <2> SUFFICES ASSUME KeepInv, RecordInv, CalmInv, PlacedInv, edits = 0, NEW b \in pending
               PROVE  ~Blocked(b)
    BY DEF OnlyEditsBlock
  <2>1. Between(b) /\ Staged(b) = 1..Size(b) /\ (b \in committed => AllLogged(b))
    BY DEF CalmInv, KeepInv, BothWaysStayOpen, RecordInv, Journal
  <2>2. ~ScopeMoved(b) /\ ~FileMoved(b)
    BY <2>1, ConstantsAssumption DEF Between, ScopeMoved, FileMoved
  <2> QED BY <2>1, <2>2 DEF Blocked, Unfit, Between
<1> QED BY <1>1, KeptHolds, RecordsHold, CalmHolds, PlacesHold, PTL

--------------------------------------------------------------------------------
(* The batches that apply answered for have their receipts. *)
Told == told \subseteq committed

(* Apply answers with success only for a batch that has its receipt, and   *)
(* no receipt is ever taken back, whatever editors do.                     *)
THEOREM BatchAnswersAreDurable == Spec => []Told
<1>1. Init => Told
  BY DEF Init, Told
<1>2. ASSUME PlacedInv, RecordInv, Told, [Next]_vars PROVE Told'
  <2>1. ASSUME NEW p \in Procs, Acting(p) PROVE Told'
    <3>1. committed \subseteq committed'
      BY <2>1, ReceiptsStay
    <3>2. \/ told' = told
          \/ Answered(p) /\ proc[p].job \in committed /\ told' = told \cup {proc[p].job}
          \/ Succeed(p)
      BY <2>1
      DEF Acting, Begin, Acquire, Timeout, Recover, RecoverNothing, RecoverRefused, RecoverBatch,
        Finish, FinishRefused, Decide, Answered, Unresolved, Confirm, CheckAccept, CheckRefuse,
        Apply, StagePayload, SaveHistory, WritePending, Classify, RollForward, AppendRecord,
        WriteResult, RemovePending, RemoveStage, RollBack, Handle, Undo, Verify,
        DropPending, ClearStage, Fails, Crash, WriteNote, WriteInterrupted, durable
    <3>3. Succeed(p) => told' \subseteq told \cup committed
      BY <1>2 DEF RecordInv, Recorded, Succeed
    <3> QED BY <1>2, <3>1, <3>2, <3>3 DEF Told
  <2>2. CASE UNCHANGED <<told, committed>>
    BY <1>2, <2>2 DEF Told
  <2> QED BY <1>2, <2>1, <2>2 DEF Next, Acting, Preview, AdoptDisk, EditOutside, vars, durable
<1> QED BY <1>1, <1>2, PlacesHold, RecordsHold, PTL DEF Spec

--------------------------------------------------------------------------------
(* What AtomicBatch allows, action by action. *)
LEMMA WholeSteps ==
  ASSUME edits' = edits
  PROVE  /\ UNCHANGED <<disk, pending, committed, told>> => UNCHANGED Whole!batch
         /\ \A b \in pending' : Whole!Publish(b) => Whole!Next
         /\ \A b \in pending : Whole!Commit(b) \/ Whole!Leave(b) => Whole!Next
         /\ \A b \in pending, path \in Paths :
              Whole!Forward(b, path) \/ Whole!Back(b, path) => Whole!Next
         /\ \A b \in committed : Whole!Answer(b) => Whole!Next
         /\ \A path \in Paths : Whole!WriteOther(path) \/ Whole!Edit(path) => Whole!Next
BY DEF Whole!Next, Whole!batch

(* A step of p is one of AtomicBatch, or nothing to it. *)
LEMMA StepOfActor ==
  ASSUME PlacedInv, DoubtInv, RecordInv, CalmInv, ~EditorRaces, NEW p \in Procs, Acting(p)
  PROVE  Whole!Next \/ UNCHANGED Whole!batch
<1>1. /\ TypeOK /\ Placed(p) /\ InDoubt(p) /\ Recorded(p) /\ Alone(p) /\ proc[p].at \in Nat
      /\ edits' = edits
  BY OthersStay DEF PlacedInv, DoubtInv, RecordInv, CalmInv, Calm, TypeOK, States
<1>2. CASE UNCHANGED <<disk, pending, committed, told>>
  BY <1>1, <1>2, WholeSteps
<1>3. CASE Answered(p)
  <2>1. CASE told' = told
    BY <1>2, <1>3, <2>1 DEF Answered, durable
  <2>2. CASE told' # told
    <3>1. /\ proc[p].job \in committed /\ told' = told \cup {proc[p].job}
          /\ UNCHANGED <<disk, pending, committed>>
      BY <1>3, <2>2 DEF Answered, durable
    <3>2. Whole!Answer(proc[p].job)
      BY <1>1, <3>1 DEF Whole!Answer
    <3> QED BY <1>1, <3>1, <3>2, WholeSteps
  <2> QED BY <2>1, <2>2
<1>4. CASE Succeed(p)
  <2>1. /\ proc[p].batch \in committed /\ told' = told \cup {proc[p].batch}
        /\ UNCHANGED <<disk, pending, committed>>
    BY <1>1, <1>4 DEF Succeed, Recorded
  <2>2. Whole!Answer(proc[p].batch)
    BY <1>1, <2>1 DEF Whole!Answer
  <2> QED BY <1>1, <2>1, <2>2, WholeSteps
<1>5. CASE WritePending(p)
  <2>1. PICK b : b = proc[p].batch
    OBVIOUS
  <2>2. /\ pending = {} /\ pending' = {b} /\ b \notin committed /\ disk = b.base
        /\ UNCHANGED <<disk, committed, told>>
    <3>1. b \notin committed
      BY <1>1, <1>5, <2>1, SameManifestReflexive DEF WritePending, Recorded, Blank
    <3> QED BY <1>1, <1>5, <2>1, <3>1 DEF WritePending, InDoubt, Alone
  <2>3. Whole!Publish(b)
    BY <1>1, <2>2 DEF Whole!Publish
  <2> QED BY <1>1, <2>2, <2>3, WholeSteps
<1>6. CASE RollForward(p)
  <2>1. PICK b \in Batches, n \in Nat :
          /\ b = proc[p].batch /\ n = proc[p].at /\ n \in 1..(2 * Size(b))
          /\ pending = {b} /\ Between(b)
    BY <1>1, <1>6 DEF RollForward, Placed, InDoubt, Alone, Working, TypeOK
  <2>2. CASE disk' = disk
    BY <1>2, <1>6, <2>2 DEF RollForward
  <2>3. CASE disk' # disk
    <3>1. PICK path \in Affected(b.shape) :
            disk[path] = b.base[path] /\ disk' = [disk EXCEPT ![path] = Image(b)[path]]
      BY <1>6, <2>1, <2>3, RollSteps
    <3>2. Whole!Forward(b, path) /\ path \in Paths
      BY <1>1, <1>6, <2>1, <3>1, AffectedFacts DEF RollForward, Whole!Forward
    <3> QED BY <1>1, <2>1, <3>2, WholeSteps
  <2> QED BY <2>2, <2>3
<1>7. CASE WriteResult(p)
  <2>1. PICK b : b = proc[p].batch
    OBVIOUS
  <2>2. /\ pending = {b} /\ disk = Image(b) /\ committed' = committed \cup {b}
        /\ UNCHANGED <<disk, pending, told>>
    BY <1>1, <1>7, <2>1 DEF WriteResult, InDoubt, Alone
  <2>3. Whole!Commit(b)
    BY <1>1, <2>2 DEF Whole!Commit
  <2> QED BY <1>1, <2>2, <2>3, WholeSteps
<1>8. CASE RemovePending(p)
  <2>1. PICK b : b = proc[p].batch
    OBVIOUS
  <2>2. /\ pending = {b} /\ pending' = {} /\ disk = Image(b) /\ b \in committed
        /\ UNCHANGED <<disk, committed, told>>
    BY <1>1, <1>8, <2>1 DEF RemovePending, InDoubt, Alone, Recorded
  <2>3. Whole!Leave(b)
    BY <1>1, <2>2 DEF Whole!Leave
  <2> QED BY <1>1, <2>2, <2>3, WholeSteps
<1>9. CASE DropPending(p)
  <2>1. PICK b : b = proc[p].batch
    OBVIOUS
  <2>2. /\ pending = {b} /\ pending' = {} /\ disk = b.base /\ b \notin committed
        /\ UNCHANGED <<disk, committed, told>>
    <3>1. b \notin committed
      BY <1>1, <1>9, <2>1, SameManifestReflexive DEF DropPending, Recorded, Blank
    <3> QED BY <1>1, <1>9, <2>1, <3>1 DEF DropPending, InDoubt, Alone
  <2>3. Whole!Leave(b)
    BY <1>1, <2>2 DEF Whole!Leave
  <2> QED BY <1>1, <2>2, <2>3, WholeSteps
<1>10. CASE Undo(p)
  <2>1. PICK b \in Batches, n \in Nat :
          /\ b = proc[p].batch /\ n = proc[p].at /\ n \in 1..(2 * Size(b))
          /\ pending = {b} /\ Between(b) /\ b \notin committed
    <3>1. proc[p].batch \notin committed
      BY <1>1, <1>10, SameManifestReflexive DEF Undo, Recorded, Blank
    <3>2. proc[p].batch \in Batches /\ pending = {proc[p].batch} /\ Between(proc[p].batch)
      BY <1>1, <1>10 DEF Undo, Placed, InDoubt, Alone, Working, TypeOK
    <3>3. proc[p].at \in 1..(2 * Size(proc[p].batch))
      BY <1>1, <1>10, <3>2, ShapeFacts DEF Undo, Placed
    <3> QED BY <1>1, <3>1, <3>2, <3>3
  <2>2. CASE disk' = disk
    BY <1>2, <1>10, <2>2 DEF Undo
  <2>3. CASE disk' # disk
    <3>1. PICK path \in Affected(b.shape) :
            disk[path] = Image(b)[path] /\ disk' = [disk EXCEPT ![path] = b.base[path]]
      BY <1>10, <2>1, <2>3, UndoSteps
    <3>2. Whole!Back(b, path) /\ path \in Paths
      BY <1>1, <1>10, <2>1, <3>1, AffectedFacts DEF Undo, Whole!Back
    <3> QED BY <1>1, <2>1, <3>2, WholeSteps
  <2> QED BY <2>2, <2>3
<1>11. ASSUME NEW path \in Paths, NEW bytes \in Contents,
              WriteNote(p, path, bytes) \/ WriteInterrupted(p, path, bytes)
       PROVE  Whole!Next \/ UNCHANGED Whole!batch
  <2>1. pending = {} /\ UNCHANGED <<pending, committed, told>>
    BY <1>1, <1>11 DEF WriteNote, WriteInterrupted, InDoubt
  <2>2. CASE disk' = disk
    BY <1>2, <2>1, <2>2
  <2>3. CASE disk' # disk
    <3>1. disk' = [disk EXCEPT ![path] = bytes] /\ bytes \in Bytes
      BY <1>11, <2>3 DEF WriteNote, WriteInterrupted, Bytes
    <3>2. Whole!WriteOther(path)
      BY <1>1, <2>1, <3>1 DEF Whole!WriteOther
    <3> QED BY <1>1, <3>2, WholeSteps
  <2> QED BY <2>2, <2>3
<1>12. \/ UNCHANGED <<disk, pending, committed, told>>
       \/ Answered(p) \/ Succeed(p) \/ WritePending(p) \/ RollForward(p) \/ WriteResult(p)
       \/ RemovePending(p) \/ DropPending(p) \/ Undo(p)
       \/ \E path \in Paths, bytes \in Contents :
            WriteNote(p, path, bytes) \/ WriteInterrupted(p, path, bytes)
  BY DEF Acting, Begin, Acquire, Timeout, Recover, RecoverNothing, RecoverRefused, RecoverBatch,
     Finish, FinishRefused, Decide, Unresolved, Confirm, CheckAccept, CheckRefuse, Apply,
     StagePayload, SaveHistory, Classify, AppendRecord, RemoveStage, RollBack, Handle, Verify,
     ClearStage, Fails, Crash, durable
<1> QED
  BY <1>2, <1>3, <1>4, <1>5, <1>6, <1>7, <1>8, <1>9, <1>10, <1>11, <1>12

(* Where editors keep out of the lock a batch is all or nothing: the whole *)
(* of apply, rollback, recovery and ordinary writes, with their deaths and *)
(* errors, implements AtomicBatch.                                         *)
THEOREM BatchIsAtomic ==
  ASSUME ~EditorRaces
  PROVE  Spec => ImplementsAtomicBatch
<1>1. Init => Whole!Init
  BY DEF Init, Whole!Init
<1>2. ASSUME PlacedInv, DoubtInv, RecordInv, CalmInv, [Next]_vars
      PROVE  [Whole!Next]_(Whole!batch)
  <2>1. ASSUME NEW p \in Procs, Acting(p) PROVE Whole!Next \/ UNCHANGED Whole!batch
    BY <1>2, <2>1, StepOfActor
  <2>2. CASE UNCHANGED <<disk, pending, committed, told, edits>>
    BY <2>2, WholeSteps
  <2>3. ASSUME NEW path \in Paths, EditOutside(path) PROVE Whole!Next
    <3>1. /\ \E bytes \in Bytes : disk' = [disk EXCEPT ![path] = bytes]
          /\ edits' = edits + 1 /\ UNCHANGED <<pending, committed, told>>
      BY <2>3 DEF EditOutside
    <3>2. Whole!Edit(path)
      BY <3>1 DEF Whole!Edit
    <3> QED BY <3>2 DEF Whole!Next
  <2> QED
    BY <1>2, <2>1, <2>2, <2>3 DEF Next, Acting, Preview, AdoptDisk, vars, durable
<1> QED
  BY <1>1, <1>2, PlacesHold, DoubtHolds, RecordsHold, CalmHolds, PTL
  DEF Spec, ImplementsAtomicBatch, Whole!Spec
================================================================================
