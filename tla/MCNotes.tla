-------------------------------- MODULE MCNotes --------------------------------
(* The writes of notes and the identities of notes that carry none, side   *)
(* by side for TLC: "about" says which of the two a behaviour is about.    *)
(* The servers of one are the processes of the other.                      *)
EXTENDS MCNoteTransaction, IdentitySidecar

CONSTANTS x1, x2, ia, ib, ic

VARIABLE about

PathIds == (x1 :> ia) @@ (x2 :> ib)

PathKeys(i, j) == (x1 :> i) @@ (x2 :> j)

(* A note with an id of its own next to one without, or one that may move; *)
(* with and without an older sidecar.                                      *)
SidecarStart ==
  /\ \/ own = PathKeys(ic, NoId) /\ primary \in {NoMap, PathKeys(ia, NoId)}
     \/ own = PathKeys(ia, Gone) /\ primary = PathKeys(ia, NoId)
  /\ migrated \in {NoMap, PathKeys(ic, NoId)}

SidecarRests == own = PathKeys(NoId, NoId) /\ primary = NoMap /\ migrated = NoMap

NotesInit ==
  /\ \/ about = "notes" /\ SidecarRests
     \/ about = "identities" /\ SidecarStart /\ disk = [p \in Paths |-> Absent]
  /\ Init /\ IdentityInit

NotesNext ==
  \/ about = "notes" /\ Next /\ UNCHANGED <<about, sidecar>>
  \/ about = "identities" /\ IdentityNext /\ UNCHANGED <<about, vars>>

NotesSpec == NotesInit /\ [][NotesNext]_<<about, vars, sidecar>>
================================================================================
