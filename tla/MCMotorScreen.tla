--------------------------- MODULE MCMotorScreen ---------------------------
(***************************************************************************)
(* The motor drive with an operator on the motor screen of the monitor who *)
(* edits and presses keys without end.  The one bound is on the events     *)
(* that are queued or being worked on while an edit is under way: one.     *)
(***************************************************************************)
EXTENDS MotorRefinement

FewEventsDuringEdit == vtOpen => Cardinality(evt \cup sig) <= 1

=============================================================================
