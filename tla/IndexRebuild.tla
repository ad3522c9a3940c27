------------------------------ MODULE IndexRebuild ------------------------------
(***************************************************************************)
(* The offline rebuild of the index (indexing/rebuild.py): a complete      *)
(* database is built beside the live one from a walk of the vault,         *)
(* compared with a second walk, and swapped over it.                       *)
(*                                                                         *)
(* A version stands for the hash and the identity of the note at its       *)
(* place.  No two notes have one identity: a rebuild that meets such a     *)
(* pair ends with an error (RebuildStops).                                 *)
(* Editors go on meanwhile; servers are stopped, but one may have died in  *)
(* the middle of a transaction (Reconcile has the passes of servers).      *)
(***************************************************************************)
EXTENDS Naturals

CONSTANTS
  Places,       \* the places a note can be at
  Versions,    \* the byte contents that decode
  Undecodable, \* content that does not
  NoNote,      \* what is read where there is no file
  Generations, \* the generation the live index may start from
  MaxRuns, MaxTouches  \* bounds

ASSUME RebuildAssumption ==
  /\ Undecodable \notin Versions /\ NoNote \notin Versions
  /\ Generations \subseteq Nat /\ MaxRuns \in Nat /\ MaxTouches \in Nat

VARIABLES
  vault,       \* the notes
  liveIndex,   \* the index servers open: its rows and its generation
  hotJournal,  \* is there a rollback journal of a transaction that died?
  rebuild,     \* what the rebuild is doing
  runs, touches,
  touched,     \* ghost: places edited, or not read, since the rebuild began
  late         \* ghost: those since its second walk began

rebuildVars == <<vault, liveIndex, hotJournal, rebuild, runs, touches, touched, late>>

PlaceContents == Versions \cup {Undecodable, NoNote}
IndexRows == [Places -> Versions \cup {NoNote}]
EmptyIndex == [f \in Places |-> NoNote]

NoRebuild == [step |-> "idle"]

RebuildTypeOK ==
  /\ vault \in [Places -> PlaceContents]
  /\ liveIndex.rows \in IndexRows /\ liveIndex.generation \in Nat
  /\ hotJournal \in BOOLEAN /\ touched \subseteq Places /\ late \subseteq touched
  /\ rebuild.step \in {"idle", "build", "check", "guard", "swap", "refused"}
  /\ rebuild.step \in {"build", "check", "guard", "swap"} =>
       /\ rebuild.temp \in IndexRows /\ rebuild.generation \in Nat /\ rebuild.todo \subseteq Places

RebuildInit ==
  /\ vault \in [Places -> PlaceContents]
  /\ \E rows \in IndexRows, g \in Generations : liveIndex = [rows |-> rows, generation |-> g]
  /\ hotJournal \in BOOLEAN
  /\ rebuild = NoRebuild /\ runs = 0 /\ touches = 0 /\ touched = {} /\ late = {}

--------------------------------------------------------------------------------
Walk == {f \in Places : vault[f] # NoNote}

(* What reading a note gives the index: nothing, for one that cannot be    *)
(* decoded or is no longer there.                                          *)
Row(f) == IF vault[f] \in Versions THEN vault[f] ELSE NoNote

(* Refused over a rollback journal. *)
BeginRebuild ==
  /\ rebuild.step \in {"idle", "refused"} /\ runs < MaxRuns /\ runs' = runs + 1
  /\ touched' = {} /\ late' = {}
  /\ rebuild' = IF hotJournal THEN NoRebuild
                ELSE [step |-> "build", temp |-> EmptyIndex, prev |-> liveIndex.generation,
                      generation |-> liveIndex.generation, todo |-> Walk, checked |-> Walk]
  /\ UNCHANGED <<vault, liveIndex, hotJournal, touches>>

(* A note is there and cannot be read: it is left out. *)
CannotRead(f) ==
  /\ touches < MaxTouches /\ touches' = touches + 1
  /\ touched' = touched \cup {f} /\ late' = late \cup {f}

BuildNote ==
  /\ rebuild.step = "build"
  /\ \E f \in rebuild.todo :
       \/ /\ rebuild' = [rebuild EXCEPT !.temp[f] = Row(f), !.todo = @ \ {f}]
          /\ UNCHANGED <<touches, touched, late>>
       \/ rebuild' = [rebuild EXCEPT !.todo = @ \ {f}] /\ CannotRead(f)
  /\ UNCHANGED <<vault, liveIndex, hotJournal, runs>>

(* Mutant: an index without rows keeps the generation. *)
AdvancedByRows ==
  IF rebuild.temp # EmptyIndex THEN rebuild.generation + 1 ELSE rebuild.generation

(* The pass advances when it writes a row; of a vault without notes the    *)
(* rebuild does.                                                           *)
Advanced ==
  IF rebuild.temp # EmptyIndex \/ rebuild.checked = {}
    THEN rebuild.generation + 1 ELSE rebuild.generation

Built ==
  /\ rebuild.step = "build" /\ rebuild.todo = {}
  /\ rebuild' = [step |-> "check", temp |-> rebuild.temp, prev |-> rebuild.prev,
                 generation |-> Advanced, todo |-> Walk, seen |-> EmptyIndex]
  /\ late' = {}
  /\ UNCHANGED <<vault, liveIndex, hotJournal, runs, touches, touched>>

CheckNote ==
  /\ rebuild.step = "check"
  /\ \E f \in rebuild.todo :
       \/ /\ rebuild' = [rebuild EXCEPT !.seen[f] = Row(f), !.todo = @ \ {f}]
          /\ UNCHANGED <<touches, touched, late>>
       \/ rebuild' = [rebuild EXCEPT !.todo = @ \ {f}] /\ CannotRead(f)
  /\ UNCHANGED <<vault, liveIndex, hotJournal, runs>>

(* Mutant: only the number of notes is compared. *)
ValidCount ==
  /\ {f \in Places : rebuild.temp[f] # NoNote} = {f \in Places : rebuild.seen[f] # NoNote}
  /\ rebuild.generation = rebuild.prev + 1

Valid == rebuild.temp = rebuild.seen /\ rebuild.generation = rebuild.prev + 1

Checked ==
  /\ rebuild.step = "check" /\ rebuild.todo = {}
  /\ rebuild' = IF Valid THEN [rebuild EXCEPT !.step = "guard"] ELSE [step |-> "refused"]
  /\ UNCHANGED <<vault, liveIndex, hotJournal, runs, touches, touched, late>>

(* The last look for a rollback journal; one may still appear after it.    *)
Guard ==
  /\ rebuild.step = "guard"
  /\ rebuild' = IF hotJournal THEN NoRebuild ELSE [rebuild EXCEPT !.step = "swap"]
  /\ UNCHANGED <<vault, liveIndex, hotJournal, runs, touches, touched, late>>

Swap ==
  /\ rebuild.step = "swap"
  /\ rebuild' = NoRebuild
  /\ liveIndex' = [rows |-> rebuild.temp, generation |-> rebuild.generation]
  /\ UNCHANGED <<vault, hotJournal, runs, touches, touched, late>>

(* Death or an error; the temporary database goes, or is left unused.      *)
RebuildStops ==
  /\ rebuild.step \in {"build", "check", "guard", "swap"}
  /\ rebuild' = NoRebuild
  /\ UNCHANGED <<vault, liveIndex, hotJournal, runs, touches, touched, late>>

Touch ==
  /\ touches < MaxTouches /\ touches' = touches + 1
  /\ \E f \in Places, v \in PlaceContents :
       /\ vault' = [vault EXCEPT ![f] = v]
       /\ touched' = touched \cup {f} /\ late' = late \cup {f}
  /\ UNCHANGED <<liveIndex, hotJournal, rebuild, runs>>

(* A server was started all the same and dies in a transaction, or one     *)
(* that opens the index rolls it back.                                     *)
Transaction ==
  /\ hotJournal' = ~hotJournal
  /\ UNCHANGED <<vault, liveIndex, rebuild, runs, touches, touched, late>>

RebuildNext ==
  BeginRebuild \/ BuildNote \/ Built \/ CheckNote \/ Checked \/ Guard \/ Swap \/ RebuildStops \/ Touch \/ Transaction

RebuildSpec == RebuildInit /\ [][RebuildNext]_rebuildVars

--------------------------------------------------------------------------------
(* Until it is swapped the live index stays as it was.  The one that       *)
(* replaces it has the next generation, and the row of every note that was *)
(* neither edited nor unreadable since the second walk began and of no     *)
(* other, however the edits fell between the two readings of a note.       *)
PublishesTheVault ==
  liveIndex' # liveIndex =>
    /\ liveIndex'.generation = liveIndex.generation + 1
    /\ \A f \in Places \ late : liveIndex'.rows[f] = Row(f)

SwapIsExact == [][PublishesTheVault]_rebuildVars

(* A rebuild that no edit and no failed read disturbs is never refused,    *)
(* also of a vault without notes,                                          *)
Undisturbed == rebuild.step = "refused" => touched # {}

QuietRebuildPublishes == (\E f \in Places : vault[f] \in Versions) \/ Walk = {} => Undisturbed

(* and CHANGELOG.md and the code say: also of one with notes that cannot   *)
(* be decoded.                                                             *)
AnyQuietRebuildPublishes == Undisturbed
================================================================================
