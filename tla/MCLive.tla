--------------------------------- MODULE MCLive ---------------------------------
(* The two components that owe progress, side by side: a behaviour is one  *)
(* of the note transaction or one of the index passes, while the other     *)
(* rests, and each is fair in its own.                                     *)
EXTENDS MCNoteTransaction

CONSTANTS s1, x1, x2, a, b, c1, c2, Ids, Hashes, Undecodable, Unreadable, MaxGen

VARIABLES
  part,
  vault, clock, held, index, stamped, gen, writer, pass, stale, cache, asked,
  found, touched, returned, missed, crossed, slipped, calm, env, saves, failures

indexing == <<vault, clock, held, index, stamped, gen, writer, pass, stale, cache, asked,
              found, touched, returned, missed, crossed, slipped, calm, env, saves, failures>>

(* One server that sweeps; the vault comes to rest, nothing but a read fails. *)
Resting ==
  [procs |-> {s1}, kinds |-> {"sweep"}, batch |-> 2, old |-> FALSE, caching |-> FALSE,
   edits |-> {"save", "again", "delete", "move"}, maxEdits |-> 2,
   faults |-> {"read"}, maxFaults |-> 1]

Passes == INSTANCE Reconcile WITH
  Procs <- {s1}, Paths <- {x1, x2}, Settings <- {Resting},
  disk <- vault, lock <- writer, edits <- saves, faults <- failures

LiveInit ==
  \/ part = "notes" /\ Init /\ vault = [x \in {x1, x2} |-> Absent] /\ Passes!Init
  \/ part = "passes" /\ disk = [p \in Paths |-> Absent] /\ Init /\ Passes!Init

LiveNext ==
  \/ part = "notes" /\ Next /\ UNCHANGED <<part, indexing>>
  \/ part = "passes" /\ Passes!Next /\ UNCHANGED <<part, vars>>

LiveSpec ==
  /\ LiveInit /\ [][LiveNext]_<<part, vars, indexing>>
  /\ \A p \in Procs : WF_vars(part = "notes" /\ Proceed(p))
  /\ WF_indexing(part = "passes" /\ Passes!Step(s1))

IndexCatchesUp == part = "passes" => Passes!IndexCatchesUp
=================================================================================
