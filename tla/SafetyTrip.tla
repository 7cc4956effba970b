----------------------------- MODULE SafetyTrip -----------------------------
(***************************************************************************)
(* What the drive promises about safety trips, without tasks, events or    *)
(* speeds: the drive is on or off, a trip (broken safety chain, driver     *)
(* fault) is outstanding or not, and a start is being considered or not.   *)
(* A start may only begin to be considered when no trip is outstanding, a  *)
(* trip that arrives meanwhile may let that one start through, and it is   *)
(* cleared by nothing but switching the drive off.                         *)
(***************************************************************************)

VARIABLES
  on,           \* the PWM runs
  trip,         \* a trip was signalled and is not handled yet
  considering   \* commands that may lead to a start are being processed

vars == <<on, trip, considering>>

Init == on = FALSE /\ trip = FALSE /\ considering = FALSE

Signal ==
  /\ trip' = TRUE
  /\ UNCHANGED <<on, considering>>

Consider ==
  /\ ~trip /\ considering' = TRUE
  /\ UNCHANGED <<on, trip>>

Withdraw ==
  /\ considering /\ considering' = FALSE
  /\ UNCHANGED <<on, trip>>

SwitchOn ==
  /\ considering /\ ~on
  /\ on' = TRUE /\ considering' = FALSE
  /\ UNCHANGED trip

SwitchOff ==
  /\ on' = FALSE
  /\ UNCHANGED <<trip, considering>>

\* The trip is acted upon.  Another one may have arrived since it was taken
\* up, and with none outstanding the next commands may be considered.
HandleTrip ==
  /\ trip /\ ~considering
  /\ on' = FALSE
  /\ trip' \in BOOLEAN /\ considering' \in BOOLEAN
  /\ trip' => ~considering'

Next == Signal \/ Consider \/ Withdraw \/ SwitchOn \/ SwitchOff \/ HandleTrip

Spec == Init /\ [][Next]_vars

=============================================================================
