------------------------------ MODULE MCMeasure ------------------------------
(***************************************************************************)
(* Measure with the priorities of the firmware (App.h:33-41).              *)
(***************************************************************************)
EXTENDS Measure

MCPrio ==
  [t \in Task |-> CASE t = Measure_task -> 9 [] t = VT100_task -> 10 [] t = LCD_task -> 11]
=============================================================================
