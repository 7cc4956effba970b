------------------------------ MODULE LogQueue ------------------------------
(***************************************************************************)
(* What the CAN log promises to its reader: a queue of at most Cap records *)
(* that never refuses a new one and drops the oldest instead, and a reader *)
(* who is shown the records in the order they were logged, each once.      *)
(***************************************************************************)
EXTENDS Naturals, Sequences

CONSTANTS
  Entries,      \* what can be logged
  Cap           \* how many records the log holds, at least one

VARIABLES
  log,          \* the records logged and not shown, oldest first
  seen          \* the records shown to the reader, in order

vars == <<log, seen>>

Init == log = <<>> /\ seen = <<>>

Push(r) ==
  /\ log' = Append(IF Len(log) < Cap THEN log ELSE Tail(log), r)
  /\ UNCHANGED seen

Pop ==
  /\ log # <<>>
  /\ seen' = Append(seen, Head(log))
  /\ log' = Tail(log)

Next == Pop \/ \E r \in Entries : Push(r)

Spec == Init /\ [][Next]_vars

=============================================================================
