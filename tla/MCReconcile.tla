------------------------------ MODULE MCReconcile ------------------------------
(* Instances of Reconcile for TLC. *)
EXTENDS Reconcile, TLC

CONSTANTS s1, s2, n1, n2, a, b, c1, c2

(* Identities and contents are interchangeable; paths are not, their files *)
(* have different ages.                                                    *)
DataSymmetry == Permutations(Ids) \cup Permutations(Hashes \ {Undecodable})

Setting(procs, kinds, batch, happens, maxEdits, fails, maxFaults) ==
  [procs |-> procs, kinds |-> kinds, batch |-> batch, old |-> FALSE, caching |-> FALSE,
   edits |-> happens, maxEdits |-> maxEdits, faults |-> fails, maxFaults |-> maxFaults]

(* One server that sweeps, refreshes notes and passes after writes; saves, *)
(* deletions and renames at any point, and one failure.                    *)
OneServer ==
  Setting({s1}, {"sweep", "write", "note"}, 2,
          {"save", "delete", "move"}, 2, {"read", "store", "cancel"}, 1)

(* Two processes whose passes interleave around one edit.                  *)
TwoServers == Setting({s1, s2}, {"sweep", "write"}, 2, {"save", "move"}, 1, {"read"}, 1)

(* Searches that ask for the temporal metadata while passes fail on        *)
(* duplicate identities, a backup is restored or the process dies.         *)
Cached ==
  [Setting({s1}, {"sweep"}, 2,
           {"save", "again", "delete", "restore"}, 2, {"read", "crash"}, 1)
   EXCEPT !.caching = TRUE]

(* Rewrites within one tick of the mtime, found by a search.               *)
SameTick == Setting({s1}, {"sweep", "full"}, 2, {"same_mtime"}, 2, {"cancel"}, 1)

(* An index written by another chunker version.                            *)
Upgraded ==
  [Setting({s1}, {"sweep", "full", "note"}, 2, {"save", "again", "delete"}, 1,
           {"store", "crash"}, 1) EXCEPT !.old = TRUE]

(* Two servers that search: their cached answers and their marks.          *)
TwoCached ==
  [Setting({s1, s2}, {"write"}, 2, {"delete"}, 1, {}, 0) EXCEPT !.caching = TRUE]

TwoTicks == Setting({s1, s2}, {"sweep"}, 2, {"same_mtime"}, 1, {}, 0)

Together == {OneServer, TwoServers, Cached, SameTick, Upgraded, TwoCached, TwoTicks}

(* Two processes and two edits of one note.                                *)
Twice == {Setting({s1, s2}, {"sweep"}, 2, {"save"}, 2, {}, 0)}
================================================================================
