------------------------------- MODULE MCBatches -------------------------------
(* BatchTransaction for TLC on two settings at once; "setting" is chosen   *)
(* at the start and never changes.  The constants are those of the large   *)
(* one: one confirmed batch under faults and an edit.                      *)
EXTENDS MCBatchTransaction

VARIABLE setting

(* One manifest confirmed twice, whose application is cut off; the writes  *)
(* of the other process change its notes in between.                       *)
Narrow == INSTANCE BatchTransaction WITH
  Paths <- {n1, n2}, Notes <- {n1, n2}, Shapes <- {ReplaceOne},
  MaxPlans <- 2, MaxFaults <- 1, MaxEdits <- 0

EitherInit ==
  \/ setting = "large" /\ Init
  \/ setting = "narrow" /\ Narrow!Init

EitherNext ==
  \/ setting = "large" /\ Next /\ UNCHANGED setting
  \/ setting = "narrow" /\ Narrow!Next /\ UNCHANGED setting

EitherSpec == EitherInit /\ [][EitherNext]_<<setting, vars>>

(* The invariants that name a constant the settings differ in.             *)
EitherTypeOK == IF setting = "large" THEN TypeOK ELSE Narrow!TypeOK

(* Every variable has its type, and one batch or operation at most is in   *)
(* doubt (OneInDoubt).                                                     *)
TypedOneInDoubt == EitherTypeOK /\ OneInDoubt

EitherOnlyEditsBlock == IF setting = "large" THEN OnlyEditsBlock ELSE Narrow!OnlyEditsBlock
================================================================================
