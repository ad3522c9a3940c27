------------------------------ MODULE AtomicBatch ------------------------------
(***************************************************************************)
(* What an organization batch promises about a vault.  A batch is in       *)
(* doubt from the moment it is published on exactly the vault it was       *)
(* validated on.  While it is in doubt no other Datacron write happens,    *)
(* and each of its paths only flips between its bytes before and after.    *)
(* It leaves doubt with all of them on one side: committed or withdrawn.   *)
(***************************************************************************)
EXTENDS Naturals

CONSTANTS
  Paths,            \* what a batch can touch
  Bytes,            \* what a path can hold, its absence included
  Image(_)          \* the vault a batch leads to

VARIABLES vault, doubt, committed, applied, edits

batch == <<vault, doubt, committed, applied, edits>>

Init ==
  /\ vault \in [Paths -> Bytes]
  /\ doubt = {}
  /\ committed = {}
  /\ applied = {}
  /\ edits = 0

Publish(b) ==
  /\ doubt = {}
  /\ b \notin committed
  /\ vault = b.base
  /\ doubt' = {b}
  /\ UNCHANGED <<vault, committed, applied, edits>>

(* One path of the batch in doubt gets its new bytes, on its old ones. *)
Forward(b, path) ==
  /\ doubt = {b}
  /\ vault[path] = b.base[path]
  /\ vault' = [vault EXCEPT ![path] = Image(b)[path]]
  /\ UNCHANGED <<doubt, committed, applied, edits>>

(* Or it gets the old ones back, as long as the batch is not committed. *)
Back(b, path) ==
  /\ doubt = {b}
  /\ b \notin committed
  /\ vault[path] = Image(b)[path]
  /\ vault' = [vault EXCEPT ![path] = b.base[path]]
  /\ UNCHANGED <<doubt, committed, applied, edits>>

Commit(b) ==
  /\ doubt = {b}
  /\ vault = Image(b)
  /\ committed' = committed \cup {b}
  /\ UNCHANGED <<vault, doubt, applied, edits>>

(* A batch leaves doubt whole: committed, or with everything as it was. *)
Leave(b) ==
  /\ doubt = {b}
  /\ vault = IF b \in committed THEN Image(b) ELSE b.base
  /\ doubt' = {}
  /\ UNCHANGED <<vault, committed, applied, edits>>

Answer(b) ==
  /\ b \in committed
  /\ applied' = applied \cup {b}
  /\ UNCHANGED <<vault, doubt, committed, edits>>

(* Other writes of Datacron keep off a vault in doubt; editors do not. *)
WriteOther(path) ==
  /\ doubt = {}
  /\ \E bytes \in Bytes : vault' = [vault EXCEPT ![path] = bytes]
  /\ UNCHANGED <<doubt, committed, applied, edits>>

Edit(path) ==
  /\ \E bytes \in Bytes : vault' = [vault EXCEPT ![path] = bytes]
  /\ edits' = edits + 1
  /\ UNCHANGED <<doubt, committed, applied>>

Next ==
  \/ \E b \in doubt' : Publish(b)
  \/ \E b \in doubt : 
       \/ Commit(b) \/ Leave(b)
       \/ \E path \in Paths : Forward(b, path) \/ Back(b, path)
  \/ \E b \in committed : Answer(b)
  \/ \E path \in Paths : WriteOther(path) \/ Edit(path)

Spec == Init /\ [][Next]_batch
================================================================================
