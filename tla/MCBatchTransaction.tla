-------------------------- MODULE MCBatchTransaction ---------------------------
(* Instances of BatchTransaction for TLC. *)
EXTENDS BatchTransaction, TLC

CONSTANTS p1, p2, n1, n2, n3, v1, v2

(* n1 moves to n2 with new bytes, and n3 (VAULT.yaml or ulids.json) is     *)
(* replaced.                                                               *)
MoveAndReplace == <<[source |-> n1, target |-> n2, after |-> v2],
                    [source |-> NoPath, target |-> n3, after |-> v2]>>

(* n1 moves; n3 is a note of the scope. *)
MoveOne == <<[source |-> n1, target |-> n2, after |-> v2]>>

(* n1 is replaced; n2 is a note of the scope. *)
ReplaceOne == <<[source |-> NoPath, target |-> n1, after |-> v2]>>

Large == {MoveAndReplace}
Scoped == {MoveOne}

ProcSymmetry == Permutations(Procs)
================================================================================
