---------------------------- MODULE MCMotorLive ----------------------------
(***************************************************************************)
(* MotorControl with bounds on its environment, for checking liveness:     *)
(* at most MaxCommands commands and key presses and MaxEdges pin edges in  *)
(* a behaviour.  The tasks and handlers of the firmware are not bounded.   *)
(***************************************************************************)
EXTENDS MotorRefinement

CONSTANTS MaxCommands, MaxEdges

VARIABLES commands, edges

lvars == <<vars, commands, edges>>

BoundedInit == Init /\ commands = 0 /\ edges = 0

BoundedCommands ==
  /\ commands < MaxCommands /\ commands' = commands + 1
  /\ Commands
  /\ UNCHANGED edges

BoundedEdges ==
  /\ edges < MaxEdges /\ edges' = edges + 1
  /\ Edges
  /\ UNCHANGED commands

BoundedNext ==
  \/ BoundedCommands \/ BoundedEdges
  \/ System /\ UNCHANGED <<commands, edges>>

BoundedSpec == BoundedInit /\ [][BoundedNext]_lvars /\ Fairness

=============================================================================
