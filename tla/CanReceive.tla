----------------------------- MODULE CanReceive -----------------------------
(***************************************************************************)
(* Reception of CAN frames: the receive mailboxes of the FlexCAN           *)
(* controller, CAN_isr, CAN_Rx_Task with the ring log it fills             *)
(* (CAN_control.c) and the log screen of the VT100 monitor, which empties  *)
(* it (Do_CAN_log_view, MonitorVT100.c).                                   *)
(*                                                                         *)
(* A frame is its number in the order of arrival.  CAN_isr preempts the    *)
(* tasks, and CAN_Rx_Task (priority 9) preempts the log screen (10), which *)
(* therefore steps only while CAN_Rx_Task is blocked.  The controller runs *)
(* beside all of them.  The mailboxes are set up; what the commands in the *)
(* frames do to the motor is in MotorControl.                              *)
(***************************************************************************)
EXTENDS Naturals, Sequences, FiniteSets

CONSTANTS
  MbCnt,        \* number of receive mailboxes (RX_MBOX_CNT = 8)
  LogSz,        \* slots of the ring log (CAN_RX_LOG_SZ = 128)
  MaxFrames     \* bound of the model: frames that arrive

ASSUME SizesAssumption ==
  MbCnt \in Nat \ {0} /\ LogSz \in Nat \ {0, 1} /\ MaxFrames \in Nat

Mbs == 0 .. MbCnt - 1

LOG == MbCnt    \* event bit "record in the log" (0x80000000)

Frames == 1 .. MaxFrames
NoFrame == 0

VARIABLES
  mbox,         \* the frame in each mailbox
  unread,       \* mailboxes with a frame that was not read yet
  iflag,        \* interrupt flags of the controller, IFLAG1
  reg,          \* the flags CAN_isr has read; empty while it does not run
  events,       \* can_event: the bits set
  rx,           \* where CAN_Rx_Task is
  batch,        \* mailboxes the task still has to read for its last wait
  frame,        \* local rx of CAN_Rx_Task
  rx_log, rx_log_head, rx_log_tail,
  view,         \* where the log screen is
  rec,          \* local rx of the log screen
  arrived,      \* history: frames so far
  lost,         \* history: frames overwritten in a mailbox before any read
  handled,      \* history: frames in the order CAN_Rx_Task handled them
  seen          \* history: records in the order the screen showed them

hardware == <<mbox, unread, arrived, lost>>
ring == <<rx_log, rx_log_head, rx_log_tail>>
rxVars == <<rx, batch, frame>>
viewVars == <<view, rec, seen>>
vars == <<hardware, iflag, reg, events, rxVars, ring, viewVars, handled>>

Init ==
  /\ mbox = [m \in Mbs |-> NoFrame] /\ unread = {} /\ iflag = {} /\ reg = {}
  /\ events = {}
  /\ rx = "wait" /\ batch = {} /\ frame = NoFrame
  /\ rx_log = [i \in 0 .. LogSz - 1 |-> NoFrame]
  /\ rx_log_head = 0 /\ rx_log_tail = 0
  /\ view = "off" /\ rec = NoFrame
  /\ arrived = 0 /\ lost = {} /\ handled = <<>> /\ seen = <<>>

\* The set of the lowest mailbox of a set.
LowestOf(S) == {m \in S : \A k \in S : m <= k}

\* Mutant: the wrap-around comes one slot late.
Mut_Wrap(i) == IF i > LogSz THEN 0 ELSE i

Wrap(i) == IF i >= LogSz THEN 0 ELSE i

(***************************************************************************)
(* The controller.  A frame goes to the lowest mailbox that is free; when  *)
(* none is, it overwrites the unread frame of some mailbox.                *)
(***************************************************************************)
Targets == IF unread = Mbs THEN Mbs ELSE LowestOf(Mbs \ unread)

Receive ==
  /\ arrived < MaxFrames
  /\ arrived' = arrived + 1
  /\ \E m \in Targets :
       /\ lost' = IF m \in unread THEN lost \cup {mbox[m]} ELSE lost
       /\ mbox' = [mbox EXCEPT ![m] = arrived + 1]
       /\ unread' = unread \cup {m}
       /\ iflag' = iflag \cup {m}
  /\ UNCHANGED <<reg, events, rxVars, ring, viewVars, handled>>

\* What a wait of CAN_Rx_Task returns when the group holds the given bits.
\* Mutant: one mailbox for each wait, the lowest first.
Mut_Signalled(bits) == LowestOf(bits \cap Mbs)

Signalled(bits) == bits \cap Mbs

(***************************************************************************)
(* CAN_isr: an event for every flag read, then the same flags are reset.   *)
(* An event wakes CAN_Rx_Task from its wait, and what the wait returns is  *)
(* what was set at that moment.                                            *)
(***************************************************************************)
CAN_isr_set ==
  /\ reg = {} /\ iflag # {}
  /\ reg' = iflag
  /\ events' = events \cup iflag
  /\ IF rx = "blocked"
       THEN rx' = "clear" /\ batch' = Signalled(events')
       ELSE UNCHANGED <<rx, batch>>
  /\ UNCHANGED <<hardware, iflag, frame, ring, viewVars, handled>>

\* Mutant: every flag is reset, also one that was not reported.
Mut_CAN_isr_reset ==
  /\ reg # {}
  /\ iflag' = {} /\ reg' = {}
  /\ UNCHANGED <<hardware, events, rxVars, ring, viewVars, handled>>

CAN_isr_reset ==
  /\ reg # {}
  /\ iflag' = iflag \ reg
  /\ reg' = {}
  /\ UNCHANGED <<hardware, events, rxVars, ring, viewVars, handled>>

(***************************************************************************)
(* CAN_Rx_Task.                                                            *)
(***************************************************************************)
\* Mutant: CAN_push_log_rec does not take the semaphore.
Mut_SemFree == TRUE

SemFree == view # "advance"      \* can_log_sem is not with the log screen

Rx_wait ==
  /\ reg = {} /\ rx = "wait"
  /\ IF events \cap Mbs # {}
       THEN rx' = "clear" /\ batch' = Signalled(events)
       ELSE rx' = "blocked" /\ UNCHANGED batch
  /\ UNCHANGED <<hardware, iflag, reg, events, frame, ring, viewVars, handled>>

\* The bits _lwevent_clear takes out of the group: those the wait returned.
\* Mutants: all bits of the task's mask, and none.
Mut_ToClear == Mbs
Mut_ToClear_none == {}

ToClear == batch

Rx_clear ==
  /\ reg = {} /\ rx = "clear"
  /\ events' = events \ ToClear
  /\ rx' = "read"
  /\ UNCHANGED <<hardware, iflag, reg, batch, frame, ring, viewVars, handled>>

\* CAN_read_rx_mbox on the next mailbox of the batch.  The mailbox is locked
\* from the read of its CS word to the read of TIMER, so the read is one step.
\* Mutant: without the read of TIMER, which frees the mailbox.
Mut_Rx_read ==
  /\ reg = {} /\ rx = "read"
  /\ \E n \in LowestOf(batch) :
       /\ frame' = mbox[n]
       /\ batch' = batch \ {n}
  /\ rx' = "push"
  /\ UNCHANGED <<hardware, iflag, reg, events, ring, viewVars, handled>>

Rx_read ==
  /\ reg = {} /\ rx = "read"
  /\ \E n \in LowestOf(batch) :
       /\ frame' = mbox[n]
       /\ unread' = unread \ {n}
       /\ batch' = batch \ {n}
  /\ rx' = "push"
  /\ UNCHANGED <<mbox, arrived, lost, iflag, reg, events, ring, viewVars,
                 handled>>

NextTail ==
  LET head == Wrap(rx_log_head + 1) IN
  IF head = rx_log_tail THEN Wrap(rx_log_tail + 1) ELSE rx_log_tail

\* CAN_push_log_rec, and the parsing of the frame: the event wakes a log
\* screen that waits, but the task goes on before it.
Rx_push ==
  /\ reg = {} /\ rx = "push" /\ SemFree
  /\ rx_log' = [rx_log EXCEPT ![rx_log_head] = frame]
  /\ rx_log_head' = Wrap(rx_log_head + 1)
  /\ rx_log_tail' = NextTail
  /\ events' = events \cup {LOG}
  /\ view' = IF view = "blocked" THEN "clear" ELSE view
  /\ handled' = Append(handled, frame)
  /\ rx' = IF batch = {} THEN "wait" ELSE "read"
  /\ UNCHANGED <<hardware, iflag, reg, batch, frame, rec, seen>>

CAN_Rx_Task == Rx_wait \/ Rx_clear \/ Rx_read \/ Rx_push

(***************************************************************************)
(* The log screen.                                                         *)
(***************************************************************************)
VT100MayRun ==
  reg = {} /\ (rx = "blocked" \/ (rx = "push" /\ ~SemFree))

View_open ==
  /\ VT100MayRun /\ view = "off"
  /\ view' = "wait"
  /\ UNCHANGED <<hardware, iflag, reg, events, rxVars, ring, rec, seen, handled>>

\* CAN_wait_log_rec(10): the bit is there, comes later, or the time is over.
View_wait ==
  /\ VT100MayRun /\ view = "wait"
  /\ view' = IF LOG \in events THEN "clear" ELSE "blocked"
  /\ UNCHANGED <<hardware, iflag, reg, events, rxVars, ring, rec, seen, handled>>

View_timeout ==
  /\ VT100MayRun /\ view = "blocked"
  /\ view' = "key"
  /\ UNCHANGED <<hardware, iflag, reg, events, rxVars, ring, rec, seen, handled>>

View_clear ==
  /\ VT100MayRun /\ view = "clear"
  /\ events' = events \ {LOG}
  /\ view' = "pop"
  /\ UNCHANGED <<hardware, iflag, reg, rxVars, ring, rec, seen, handled>>

\* CAN_pop_log_rec: the semaphore is taken and the oldest record copied ...
View_pop ==
  /\ VT100MayRun /\ view = "pop"
  /\ IF rx_log_head # rx_log_tail
       THEN rec' = rx_log[rx_log_tail] /\ view' = "advance"
       ELSE view' = "key" /\ UNCHANGED rec
  /\ UNCHANGED <<hardware, iflag, reg, events, rxVars, ring, seen, handled>>

\* ... then the tail moves on, the semaphore is posted and the record shown.
View_advance ==
  /\ VT100MayRun /\ view = "advance"
  /\ rx_log_tail' = Wrap(rx_log_tail + 1)
  /\ seen' = Append(seen, rec)
  /\ view' = "pop"
  /\ UNCHANGED <<hardware, iflag, reg, events, rxVars, rx_log, rx_log_head, rec,
                 handled>>

\* Mutant: the event is cleared once more after the log was emptied.
Mut_View_key ==
  /\ VT100MayRun /\ view = "key"
  /\ view' \in {"wait", "off"}
  /\ events' = events \ {LOG}
  /\ UNCHANGED <<hardware, iflag, reg, rxVars, ring, rec, seen, handled>>

View_key ==
  /\ VT100MayRun /\ view = "key"
  /\ view' \in {"wait", "off"}
  /\ UNCHANGED <<hardware, iflag, reg, events, rxVars, ring, rec, seen, handled>>

LogScreen == View_wait \/ View_clear \/ View_pop \/ View_advance \/ View_key

Next ==
  \/ Receive
  \/ CAN_isr_set \/ CAN_isr_reset
  \/ CAN_Rx_Task
  \/ View_open \/ View_timeout \/ LogScreen

\* Interrupts are served.  CAN_Rx_Task shares its priority with Measure_task,
\* which blocks in every round, so a ready CAN_Rx_Task runs again.  The log
\* screen runs on while CAN_Rx_Task is blocked; opening it is up to the user.
Fairness ==
  /\ WF_vars(CAN_isr_set) /\ WF_vars(CAN_isr_reset)
  /\ WF_vars(CAN_Rx_Task)
  /\ WF_vars(LogScreen) /\ WF_vars(View_timeout)

Spec == Init /\ [][Next]_vars /\ Fairness

TypeOK ==
  /\ mbox \in [Mbs -> Frames \cup {NoFrame}] /\ unread \subseteq Mbs
  /\ iflag \subseteq Mbs /\ reg \subseteq Mbs
  /\ events \subseteq Mbs \cup {LOG}
  /\ rx \in {"wait", "blocked", "clear", "read", "push"}
  /\ batch \subseteq Mbs /\ (rx \in {"clear", "read"} => batch # {})
  /\ frame \in Frames \cup {NoFrame}
  /\ rx_log \in [0 .. LogSz - 1 -> Frames \cup {NoFrame}]
  /\ rx_log_head \in 0 .. LogSz - 1 /\ rx_log_tail \in 0 .. LogSz - 1
  /\ view \in {"off", "wait", "blocked", "clear", "pop", "advance", "key"}
  /\ rec \in Frames \cup {NoFrame}
  /\ arrived \in 0 .. MaxFrames /\ lost \subseteq Frames
  /\ handled \in Seq(Frames \cup {NoFrame}) /\ seen \in Seq(Frames \cup {NoFrame})

=============================================================================
