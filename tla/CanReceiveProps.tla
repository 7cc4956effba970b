--------------------------- MODULE CanReceiveProps ---------------------------
(***************************************************************************)
(* What the reception of CAN frames is for: no frame is forgotten, frames  *)
(* are handled about in the order they came, and the log is a queue.       *)
(***************************************************************************)
EXTENDS CanReceive

HandledFrames == {handled[i] : i \in DOMAIN handled}

\* A mailbox that holds an unread frame has its flag, its event or a place in
\* the batch: CAN_isr resets only the flags it reported, and CAN_Rx_Task
\* clears only the events it is about to serve.
NoFrameForgotten == unread \subseteq iflag \cup events \cup batch

\* A frame that arrived was handled, is being handled, waits in its mailbox
\* or was overwritten there by a later one, and never two of these.
EveryFrameAccounted ==
  LET waiting == {mbox[m] : m \in unread}
      current == IF rx = "push" THEN {frame} ELSE {}
  IN  /\ 1 .. arrived = HandledFrames \cup current \cup waiting \cup lost
      /\ waiting \cap HandledFrames = {}
      /\ lost \cap (HandledFrames \cup current \cup waiting) = {}

\* The event of a mailbox may outlive the read of its frame, and then the
\* frame is handled twice, but only after an overwritten frame, and at most
\* once for each: a command is not repeated on an idle bus.
RepeatsNeedOverruns ==
  Len(handled) - Cardinality(HandledFrames) <= Cardinality(lost)

\* CAN_Rx_Task handles the mailboxes of a batch by index, not by arrival, but
\* as long as no mailbox was overrun a frame is overtaken by fewer later
\* frames than there are mailboxes.
BoundedOvertaking ==
  lost = {} =>
    \A i \in DOMAIN handled :
      Cardinality({j \in 1 .. i - 1 : handled[j] > handled[i]}) < MbCnt

\* When the log screen is closed or about to sleep, either the log is empty or
\* its event is set: CAN_wait_log_rec clears the event before the records are
\* popped, and CAN_push_log_rec sets it after the record is in.
NoLostWakeup ==
  (view \in {"off", "wait", "blocked", "key"} /\ LOG \notin events)
    => rx_log_head = rx_log_tail

\* Every frame is handled in the end or overwritten by one that came later,
\* whatever the log screen does with the semaphore of the log.
EveryFrameHandled ==
  \A f \in Frames : arrived = f ~> f \in HandledFrames \cup lost

(***************************************************************************)
(* The ring log as a queue.                                                *)
(***************************************************************************)
Length(head, tail) ==
  IF head >= tail THEN head - tail ELSE head + LogSz - tail

Slot(i) == IF i >= LogSz THEN i - LogSz ELSE i

Records(slots, head, tail) ==
  [i \in 1 .. Length(head, tail) |-> slots[Slot(tail + i - 1)]]

LogContents == Records(rx_log, rx_log_head, rx_log_tail)

Queue == INSTANCE LogQueue
           WITH Entries <- Frames, Cap <- LogSz - 1,
                log <- LogContents, seen <- seen

\* The log implements LogQueue: pushes that overwrite the oldest record and
\* pops in two steps never show a record twice, skip one or reorder them.
ImplementsLogQueue == Queue!Spec

=============================================================================
