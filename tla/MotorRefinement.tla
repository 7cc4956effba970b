--------------------------- MODULE MotorRefinement ---------------------------
(***************************************************************************)
(* The motor drive implements SafetyTrip: the PWM interrupt is the drive's *)
(* switch, a trip is outstanding while its bit is in the event group or in *)
(* the bits Control_task works on, and a start is being considered while   *)
(* Control_task works on bits without a trip.                              *)
(***************************************************************************)
EXTENDS MotorControl

Considering == ctl \in {"got", "dispatch", "start"} /\ NoTrip

Trip == INSTANCE SafetyTrip
          WITH on <- toie, trip <- TripPending, considering <- Considering

\* Control_task, its events and the emergency stop of CAN_Rx_Task behave as
\* SafetyTrip allows: no trip is lost between the wait, the clear and the
\* else-if chain, and at most the start already under way precedes its stop.
ImplementsSafetyTrip == Trip!Spec

=============================================================================
