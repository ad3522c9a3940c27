--------------------------- MODULE MCNoteTransaction ---------------------------
(* Instances of NoteTransaction for TLC: one note, three contents, and     *)
(* calls chosen so that retries, conflicts and reverts all happen.         *)
EXTENDS NoteTransaction, TLC

CONSTANTS p1, p2, n1, v1, v2, v3, k1, k2

Call(kind, key, expected, arg) ==
  [kind |-> kind, path |-> n1, key |-> key, expected |-> expected, arg |-> arg]

(* A keyed retry with and without expected_hash, the same key with other   *)
(* arguments, a creation, a revert.                                        *)
AllCalls ==
  {Call("create", k1, NoHash, v1), Call("mutate", k1, NoHash, v1),
   Call("mutate", k2, v1, v1), Call("revert", NoKey, NoHash, v1)}

(* Two writers that carry the same key and no expected_hash. *)
FewCalls == {Call("mutate", k1, NoHash, v1), Call("overwrite", k2, v1, v2)}

ProcSymmetry == Permutations(Procs)
================================================================================
