--------------------------- MODULE CanFramesProofs ---------------------------
(***************************************************************************)
(* For every number of mailboxes and frames: every frame that arrived is   *)
(* handled, about to be, waiting in its mailbox or overwritten there; the  *)
(* log screen never sleeps on records it was not told of; a frame is       *)
(* handled twice only for one that was overwritten; and without overruns   *)
(* fewer later frames overtake a frame than there are mailboxes.           *)
(***************************************************************************)
EXTENDS CanReceiveProofs, FiniteSetTheorems

-----------------------------------------------------------------------------
(***************************************************************************)
(* The event of the log goes when the screen is about to empty the log.    *)
(***************************************************************************)
LEMMA WakeupStep == RxInv /\ NoLostWakeup /\ [Next]_vars => NoLostWakeup'
<1> SUFFICES ASSUME RxInv, NoLostWakeup, [Next]_vars PROVE NoLostWakeup'
  OBVIOUS
<1> USE DEF NoLostWakeup
<1>1. CASE UNCHANGED vars
  BY <1>1 DEF vars, ring, viewVars
<1>2. CASE Receive \/ CAN_isr_set \/ CAN_isr_reset \/ Rx_wait \/ Rx_read
  BY <1>2 DEF Receive, CAN_isr_set, CAN_isr_reset, Rx_wait, Rx_read, ring, viewVars
<1>3. CASE Rx_clear
  <2>1. LOG \notin batch
    BY LogIsNoMailbox DEF RxInv, TypeOK
  <2> QED BY <1>3, <2>1 DEF Rx_clear, ToClear, ring, viewVars
<1>4. CASE Rx_push
  BY <1>4 DEF Rx_push
<1>5. CASE View_open \/ View_timeout \/ LogScreen
  BY <1>5 DEF View_open, View_timeout, LogScreen, View_wait, View_clear,
     View_pop, View_advance, View_key, ring
<1> QED BY <1>1, <1>2, <1>3, <1>4, <1>5 DEF Next, CAN_Rx_Task

\* When the log screen is closed or about to sleep, the log is empty or its
\* event is set (Do_CAN_log_view, CAN_wait_log_rec, CAN_push_log_rec).
THEOREM NoWakeupLost == Spec => []NoLostWakeup
<1>1. Init => NoLostWakeup
  BY DEF Init, NoLostWakeup
<1> QED BY <1>1, InitInv, StepInv, WakeupStep, PTL DEF Spec

-----------------------------------------------------------------------------
(***************************************************************************)
(* The frames.  Mailboxes that wait hold different frames, and one that    *)
(* does not wait any more holds a frame that was read.                     *)
(***************************************************************************)
Waiting == {mbox[m] : m \in unread}
Current == IF rx = "push" THEN {frame} ELSE {}

Distinct == \A m, n \in unread : mbox[m] = mbox[n] => m = n

ReadBefore ==
  \A m \in Mbs \ unread : mbox[m] \in HandledFrames \cup Current \cup {NoFrame}

Accounted ==
  /\ 1 .. arrived = HandledFrames \cup Current \cup Waiting \cup lost
  /\ Waiting \cap (HandledFrames \cup Current) = {}
  /\ lost \cap (HandledFrames \cup Current \cup Waiting) = {}

FramesInv == Distinct /\ ReadBefore /\ Accounted

LEMMA HandledAppend ==
  ASSUME handled \in Seq(Frames \cup {NoFrame}), NEW f \in Frames \cup {NoFrame},
         handled' = Append(handled, f)
  PROVE  HandledFrames' = HandledFrames \cup {f}
<1>1. Len(handled) \in Nat /\ Len(handled') = Len(handled) + 1
      /\ DOMAIN handled = 1 .. Len(handled) /\ DOMAIN handled' = 1 .. Len(handled')
  OBVIOUS
<1>2. \A i \in 1 .. Len(handled) : handled'[i] = handled[i]
  OBVIOUS
<1>3. handled'[Len(handled) + 1] = f
  OBVIOUS
<1>4. 1 .. Len(handled') = 1 .. Len(handled) \cup {Len(handled) + 1}
  BY <1>1
<1> QED BY <1>1, <1>2, <1>3, <1>4 DEF HandledFrames

LEMMA InitFrames == Init => FramesInv
<1> SUFFICES ASSUME Init PROVE FramesInv
  OBVIOUS
<1>1. DOMAIN handled = {} /\ 1 .. arrived = {}
  BY DEF Init
<1> QED BY <1>1 DEF Init, FramesInv, Distinct, ReadBefore, Accounted, Waiting,
   Current, HandledFrames

LEMMA FramesStep == RxInv /\ LogInv /\ FramesInv /\ [Next]_vars => FramesInv'
<1> SUFFICES ASSUME RxInv, LogInv, FramesInv, [Next]_vars PROVE FramesInv'
  OBVIOUS
<1>0. /\ mbox \in [Mbs -> Frames \cup {NoFrame}] /\ unread \subseteq Mbs
      /\ arrived \in Nat /\ batch \subseteq Mbs
      /\ frame \in Frames \cup {NoFrame}
      /\ handled \in Seq(Frames \cup {NoFrame})
  BY SizesAssumption DEF RxInv, TypeOK
<1>1. CASE Receive
  <2>1. PICK m \in Mbs :
          /\ lost' = IF m \in unread THEN lost \cup {mbox[m]} ELSE lost
          /\ mbox' = [mbox EXCEPT ![m] = arrived + 1]
          /\ unread' = unread \cup {m}
    BY <1>1, TargetsType DEF Receive
  <2>2. /\ arrived' = arrived + 1 /\ HandledFrames' = HandledFrames
        /\ Current' = Current
    BY <1>1 DEF Receive, HandledFrames, Current, rxVars
  <2>3. 1 .. arrived' = 1 .. arrived \cup {arrived + 1} /\ arrived + 1 \notin 1 .. arrived
    BY <1>0, <2>2
  <2>4. /\ mbox'[m] = arrived + 1
        /\ \A n \in Mbs : n # m => mbox'[n] = mbox[n]
    BY <1>0, <2>1
  <2>5. \A n \in unread : mbox[n] \in 1 .. arrived
    BY DEF FramesInv, Accounted, Waiting
  <2>6. Distinct'
    BY <1>0, <2>1, <2>3, <2>4, <2>5 DEF FramesInv, Distinct
  <2>7. ReadBefore'
    BY <1>0, <2>1, <2>2, <2>4 DEF FramesInv, ReadBefore
  <2>8. Waiting' = (Waiting \ {mbox[m]}) \cup {arrived + 1} \/ m \notin unread
    BY <1>0, <2>1, <2>4 DEF Waiting, FramesInv, Distinct
  <2>9. m \notin unread => Waiting' = Waiting \cup {arrived + 1} /\ lost' = lost
    BY <1>0, <2>1, <2>4 DEF Waiting
  <2>10. m \in unread => mbox[m] \in Waiting /\ lost' = lost \cup {mbox[m]}
    BY <2>1 DEF Waiting
  <2>11. Accounted'
    <3>1. arrived + 1 \notin HandledFrames \cup Current \cup Waiting \cup lost
      BY <2>3 DEF FramesInv, Accounted
    <3>2. CASE m \notin unread
      BY <2>2, <2>3, <2>9, <3>1, <3>2 DEF FramesInv, Accounted
    <3>3. CASE m \in unread
      BY <2>2, <2>3, <2>8, <2>10, <3>1, <3>3 DEF FramesInv, Accounted
    <3> QED BY <3>2, <3>3
  <2> QED BY <2>6, <2>7, <2>11 DEF FramesInv
<1>2. CASE Rx_read
  <2>1. PICK n \in batch : /\ frame' = mbox[n]
                           /\ unread' = unread \ {n}
                           /\ batch' = batch \ {n}
    BY <1>2 DEF Rx_read, LowestOf
  <2>2. /\ rx = "read" /\ rx' = "push" /\ HandledFrames' = HandledFrames
        /\ mbox' = mbox /\ lost' = lost /\ arrived' = arrived
        /\ Current = {} /\ Current' = {mbox[n]}
    BY <1>2, <2>1 DEF Rx_read, HandledFrames, Current
  <2>3. Waiting' = {mbox[m] : m \in unread \ {n}}
    BY <2>1, <2>2 DEF Waiting
  <2>4. mbox[n] \in Frames /\ n \in Mbs
    BY <1>0 DEF LogInv, Filled
  <2>5. Distinct' /\ ReadBefore'
    BY <1>0, <2>1, <2>2, <2>4 DEF FramesInv, Distinct, ReadBefore
  <2>6. CASE n \in unread
    <3>1. Waiting = Waiting' \cup {mbox[n]} /\ mbox[n] \notin Waiting'
      BY <2>3, <2>6 DEF Waiting, FramesInv, Distinct
    <3> QED BY <2>2, <2>5, <3>1 DEF FramesInv, Accounted
  <2>7. CASE n \notin unread
    <3>1. Waiting' = Waiting
      BY <2>3, <2>7 DEF Waiting
    <3>2. mbox[n] \in HandledFrames
      BY <2>2, <2>4, <2>7 DEF FramesInv, ReadBefore, Frames, NoFrame
    <3> QED BY <2>2, <2>5, <3>1, <3>2 DEF FramesInv, Accounted
  <2> QED BY <2>6, <2>7
<1>3. CASE Rx_push
  <2>1. /\ rx = "push" /\ rx' # "push" /\ handled' = Append(handled, frame)
        /\ UNCHANGED hardware
    BY <1>3 DEF Rx_push
  <2>2. HandledFrames' = HandledFrames \cup {frame}
    BY <1>0, <2>1, HandledAppend
  <2>3. Current = {frame} /\ Current' = {} /\ Waiting' = Waiting
    BY <2>1 DEF Current, Waiting, hardware
  <2> QED BY <2>1, <2>2, <2>3 DEF FramesInv, Distinct, ReadBefore, Accounted, hardware
<1>4. CASE ~Receive /\ ~Rx_read /\ ~Rx_push
  <2>1. /\ UNCHANGED <<mbox, unread, arrived, lost, handled, frame>>
        /\ (rx' # "push" /\ rx # "push") \/ rx' = rx
    BY <1>4 DEF Next, vars, CAN_isr_set, CAN_isr_reset, CAN_Rx_Task, Rx_wait,
       Rx_clear, View_open, View_timeout, LogScreen, View_wait, View_clear,
       View_pop, View_advance, View_key, hardware, rxVars
  <2>2. HandledFrames' = HandledFrames /\ Current' = Current /\ Waiting' = Waiting
    BY <2>1 DEF HandledFrames, Current, Waiting
  <2> QED BY <2>1, <2>2 DEF FramesInv, Distinct, ReadBefore, Accounted
<1> QED BY <1>1, <1>2, <1>3, <1>4

\* A frame that arrived was handled, is being handled, waits in its mailbox
\* or was overwritten there by a later one (CAN_isr, CAN_read_rx_mbox).
THEOREM FramesAccounted == Spec => []EveryFrameAccounted
<1>1. FramesInv => EveryFrameAccounted
  BY DEF FramesInv, Accounted, EveryFrameAccounted, Waiting, Current
<1>2. RxInv /\ LogInv /\ FramesInv /\ [Next]_vars => (RxInv /\ LogInv /\ FramesInv)'
  BY StepInv, StepLog, FramesStep
<1> QED BY <1>1, <1>2, InitInv, InitLog, InitFrames, PTL DEF Spec

-----------------------------------------------------------------------------
(***************************************************************************)
(* Repeated frames.  What makes CAN_Rx_Task read a mailbox is a token: a   *)
(* flag CAN_isr has still to report, an event, or a place in the batch.    *)
(* A frame that arrives brings at most one token, and pays for it with a   *)
(* mailbox to read or with a lost frame; a read spends the token on a      *)
(* frame that was not handled before, or on a repetition.                  *)
(***************************************************************************)
Taken == HandledFrames \cup Current    \* the frames read so far

Raised == iflag \ reg
Pending == events \cap Mbs
InBatch == IF rx \in {"read", "push"} THEN batch ELSE {}
Pushing == IF rx = "push" THEN 1 ELSE 0

BatchRaised == rx = "clear" => batch \subseteq events

Tokens == Cardinality(Raised) + Cardinality(Pending) + Cardinality(InBatch)

Balanced ==
  Tokens + Len(handled) + Pushing
    <= Cardinality(lost) + Cardinality(unread) + Cardinality(Taken)

FlowInv == RxInv /\ LogInv /\ FramesInv

TokenInv == FlowInv /\ BatchRaised /\ Balanced

\* How the sizes of subsets of a finite set change.
LEMMA Counting ==
  ASSUME NEW U, IsFiniteSet(U), NEW S \in SUBSET U, NEW T \in SUBSET U
  PROVE  /\ Cardinality(S) \in Nat /\ Cardinality(T) \in Nat
         /\ S \subseteq T => Cardinality(S) <= Cardinality(T)
         /\ Cardinality(S \cup T) \in Nat
         /\ Cardinality(S \cup T) <= Cardinality(S) + Cardinality(T)
         /\ \A x \in U : x \notin S => Cardinality(S \cup {x}) = Cardinality(S) + 1
         /\ \A x \in S : Cardinality(S \ {x}) = Cardinality(S) - 1
<1>1. IsFiniteSet(S) /\ IsFiniteSet(T) /\ S \cap T \in SUBSET U
  BY FS_Subset
<1>2. Cardinality(S) \in Nat /\ Cardinality(T) \in Nat
  BY <1>1, FS_CardinalityType
<1>3. IsFiniteSet(S \cap T) /\ Cardinality(S \cap T) \in Nat
  BY <1>1, FS_Subset, FS_CardinalityType
<1>4. S \subseteq T => Cardinality(S) <= Cardinality(T)
  BY <1>1, FS_Subset
<1>5. IsFiniteSet(S \cup T) /\ Cardinality(S \cup T)
         = Cardinality(S) + Cardinality(T) - Cardinality(S \cap T)
  BY <1>1, FS_Union
<1>6. Cardinality(S \cup T) \in Nat
  BY <1>5, FS_CardinalityType
<1>7. \A x \in U : x \notin S => Cardinality(S \cup {x}) = Cardinality(S) + 1
  BY <1>1, FS_AddElement
<1>8. \A x \in S : Cardinality(S \ {x}) = Cardinality(S) - 1
  BY <1>1, FS_RemoveElement
<1> QED BY <1>2, <1>3, <1>4, <1>5, <1>6, <1>7, <1>8

LEMMA MailboxesFinite == IsFiniteSet(Mbs) /\ Cardinality(Mbs) = MbCnt
<1>1. MbCnt - 1 \in Int /\ MbCnt \in Nat /\ MbCnt > 0
  BY SizesAssumption
<1> QED BY <1>1, FS_Interval DEF Mbs

LEMMA FramesFinite == IsFiniteSet(Frames)
BY SizesAssumption, FS_Interval DEF Frames

\* What was handled, or is about to be, is a frame that arrived.
LEMMA HandledArrived ==
  ASSUME FlowInv
  PROVE  /\ HandledFrames \subseteq 1 .. arrived /\ Current \subseteq 1 .. arrived
         /\ Waiting \subseteq 1 .. arrived
         /\ 1 .. arrived \subseteq Frames /\ arrived \in Nat
<1>1. arrived \in 0 .. MaxFrames
  BY DEF FlowInv, RxInv, TypeOK
<1> QED BY <1>1, SizesAssumption DEF FlowInv, FramesInv, Accounted, Frames

\* The sets that hold tokens are sets of mailboxes.
LEMMA TokenTypes ==
  ASSUME FlowInv
  PROVE  /\ Raised \in SUBSET Mbs /\ Pending \in SUBSET Mbs
         /\ InBatch \in SUBSET Mbs /\ unread \in SUBSET Mbs
         /\ batch \in SUBSET Mbs /\ reg \subseteq Pending
         /\ lost \in SUBSET Frames
         /\ Taken \in SUBSET Frames
         /\ Len(handled) \in Nat /\ Pushing \in {0, 1}
<1>1. Taken \in SUBSET Frames
  BY HandledArrived DEF Taken
<1> QED BY <1>1 DEF FlowInv, RxInv, TypeOK, Raised, Pending, InBatch, Pushing,
           Reported

LEMMA SizeTypes ==
  ASSUME FlowInv
  PROVE  /\ Cardinality(Raised) \in Nat /\ Cardinality(Pending) \in Nat
         /\ Cardinality(InBatch) \in Nat /\ Cardinality(unread) \in Nat
         /\ Cardinality(lost) \in Nat
         /\ Cardinality(Taken) \in Nat
<1>1. \A S \in SUBSET Mbs : Cardinality(S) \in Nat
  BY MailboxesFinite, Counting
<1>2. \A S \in SUBSET Frames : Cardinality(S) \in Nat
  BY FramesFinite, Counting
<1> QED BY <1>1, <1>2, TokenTypes

\* A frame brings one token at most and is paid for.
LEMMA BalancedReceive ==
  ASSUME TokenInv, Receive
  PROVE  Balanced'
<1>1. PICK m \in Mbs :
        /\ lost' = IF m \in unread THEN lost \cup {mbox[m]} ELSE lost
        /\ unread' = unread \cup {m}
        /\ iflag' = iflag \cup {m}
  BY TargetsType DEF Receive
<1>2. UNCHANGED <<reg, events, rx, batch, frame, handled>>
  BY DEF Receive, rxVars
<1>3. /\ Pending' = Pending /\ InBatch' = InBatch /\ Pushing' = Pushing
      /\ HandledFrames' = HandledFrames /\ Current' = Current
  BY <1>2 DEF Pending, InBatch, Pushing, HandledFrames, Current, Taken
<1>4. Raised' = Raised \cup {m} \/ Raised' = Raised
  BY <1>1, <1>2 DEF Raised
<1>5. FlowInv
  BY DEF TokenInv
<1>6. Cardinality(Raised') \in Nat /\ Cardinality(Raised') <= Cardinality(Raised) + 1
  <2>1. CASE m \notin Raised
    <3>1. Raised \in SUBSET Mbs /\ Cardinality(Raised) \in Nat
      BY <1>5, TokenTypes, SizeTypes
    <3>2. Cardinality(Raised \cup {m}) = Cardinality(Raised) + 1
      BY <2>1, <3>1, MailboxesFinite, Counting
    <3>3. Cardinality(Raised') = Cardinality(Raised \cup {m}) \/ Raised' = Raised
      BY <1>4, Zenon
    <3> QED BY <3>1, <3>2, <3>3
  <2>2. CASE m \in Raised
    <3>1. Raised' = Raised
      BY <1>4, <2>2
    <3> QED BY <1>5, <3>1, SizeTypes
  <2> QED BY <2>1, <2>2
<1>7. Balanced /\ Len(handled) \in Nat /\ Pushing \in Nat
  BY <1>5, TokenTypes DEF TokenInv
<1>8. /\ Len(handled') = Len(handled) /\ Pushing' = Pushing
      /\ Cardinality(Taken') = Cardinality(Taken)
      /\ Cardinality(Pending') = Cardinality(Pending)
      /\ Cardinality(InBatch') = Cardinality(InBatch)
  BY <1>2, <1>3 DEF Taken
<1>9. /\ Cardinality(Pending) \in Nat /\ Cardinality(InBatch) \in Nat
      /\ Cardinality(Raised) \in Nat /\ Cardinality(unread) \in Nat
      /\ Cardinality(lost) \in Nat
      /\ Cardinality(Taken) \in Nat
  BY <1>5, SizeTypes
<1>10. Tokens \in Nat /\ Tokens' \in Nat /\ Tokens' <= Tokens + 1
  BY <1>6, <1>8, <1>9 DEF Tokens
<1>11. /\ Cardinality(lost') \in Nat /\ Cardinality(unread') \in Nat
       /\ Cardinality(lost') + Cardinality(unread')
             = Cardinality(lost) + Cardinality(unread) + 1
  <2>1. CASE m \in unread
    <3>1. unread' = unread /\ lost' = lost \cup {mbox[m]}
      BY <1>1, <2>1
    <3>2. mbox[m] \in Frames /\ mbox[m] \notin lost
      BY <1>5, <2>1 DEF FlowInv, RxInv, UnreadHold, FramesInv, Accounted, Waiting
    <3>3. Cardinality(lost') = Cardinality(lost) + 1
      BY <1>5, <3>1, <3>2, TokenTypes, FramesFinite, Counting
    <3>4. Cardinality(unread') = Cardinality(unread)
      BY <3>1
    <3> QED BY <1>9, <3>3, <3>4
  <2>2. CASE m \notin unread
    <3>1. lost' = lost
      BY <1>1, <2>2
    <3>2. Cardinality(unread') = Cardinality(unread) + 1
      BY <1>1, <1>5, <2>2, TokenTypes, MailboxesFinite, Counting
    <3>3. Cardinality(lost') = Cardinality(lost)
      BY <3>1
    <3> QED BY <1>9, <3>2, <3>3
  <2> QED BY <2>1, <2>2
<1> DEFINE before == Tokens + Len(handled) + Pushing
           paid == Cardinality(lost) + Cardinality(unread) + Cardinality(Taken)
<1>12. before <= paid /\ before \in Nat /\ paid \in Nat
  BY <1>7, <1>9, <1>10 DEF Balanced
<1>13. Tokens' + Len(handled') + Pushing' <= before + 1
  BY <1>7, <1>8, <1>10
<1>14. Cardinality(lost') + Cardinality(unread') + Cardinality(Taken') = paid + 1
  BY <1>8, <1>9, <1>11
<1>15. Tokens' + Len(handled') + Pushing' \in Nat
  BY <1>7, <1>8, <1>10
<1> HIDE DEF before, paid
<1>16. Tokens' + Len(handled') + Pushing' <= paid + 1
  BY <1>12, <1>13, <1>15
<1> QED BY <1>14, <1>16 DEF Balanced

\* CAN_isr turns flags into events.
LEMMA BalancedReport ==
  ASSUME TokenInv, CAN_isr_set
  PROVE  BatchRaised' /\ Balanced'
<1>1. /\ reg = {} /\ reg' = iflag /\ iflag' = iflag
      /\ events' = events \cup iflag
      /\ UNCHANGED <<hardware, frame, handled>>
  BY DEF CAN_isr_set
<1>2. \/ rx = "blocked" /\ rx' = "clear" /\ batch' = events' \cap Mbs
      \/ rx' = rx /\ batch' = batch
  BY DEF CAN_isr_set, Signalled
<1>3. FlowInv /\ BatchRaised
  BY DEF TokenInv
<1>4. /\ Raised' = {} /\ Pending' = Pending \cup Raised
      /\ InBatch' = InBatch /\ Pushing' = Pushing
      /\ lost' = lost /\ unread' = unread
      /\ Taken' = Taken
  BY <1>1, <1>2, <1>3, TokenTypes DEF Raised, Pending, InBatch, Pushing, hardware,
     HandledFrames, Current, Taken
<1>5. /\ Cardinality(Raised') = 0 /\ Cardinality(Pending') \in Nat
      /\ Cardinality(Pending') <= Cardinality(Pending) + Cardinality(Raised)
  BY <1>3, <1>4, TokenTypes, MailboxesFinite, Counting, FS_EmptySet
<1>6. Balanced'
  BY <1>1, <1>3, <1>4, <1>5, SizeTypes, TokenTypes DEF TokenInv, Balanced, Tokens
<1>7. BatchRaised'
  BY <1>1, <1>2, <1>3 DEF BatchRaised
<1> QED BY <1>6, <1>7

\* The batch moves from the events to CAN_Rx_Task.
LEMMA BalancedClear ==
  ASSUME TokenInv, Rx_clear
  PROVE  BatchRaised' /\ Balanced'
<1>1. /\ rx = "clear" /\ rx' = "read" /\ events' = events \ batch
      /\ UNCHANGED <<hardware, iflag, reg, batch, frame, handled>>
  BY DEF Rx_clear, ToClear
<1>2. FlowInv /\ batch \subseteq events /\ batch \in SUBSET Mbs
  BY <1>1, TokenTypes DEF TokenInv, BatchRaised
<1>3. /\ Raised' = Raised /\ Pending' = Pending \ batch
      /\ InBatch = {} /\ InBatch' = batch /\ Pushing = 0 /\ Pushing' = 0
      /\ lost' = lost /\ unread' = unread
      /\ Taken' = Taken
  BY <1>1 DEF Raised, Pending, InBatch, Pushing, hardware, HandledFrames, Current, Taken
<1>4. batch \subseteq Pending
  BY <1>2 DEF Pending
<1>5. IsFiniteSet(Pending) /\ IsFiniteSet(Pending \ batch) /\ IsFiniteSet(batch)
  BY <1>2, TokenTypes, MailboxesFinite, FS_Subset
<1>6. Cardinality(Pending) = Cardinality(Pending \ batch) + Cardinality(batch)
  <2>1. (Pending \ batch) \cup batch = Pending /\ (Pending \ batch) \cap batch = {}
    BY <1>4
  <2>2. Cardinality(Pending) = Cardinality(Pending \ batch) + Cardinality(batch) - 0
    BY <1>5, <2>1, FS_Union, FS_EmptySet
  <2> QED BY <1>5, <2>2, FS_CardinalityType
<1>7. Cardinality(Pending') + Cardinality(InBatch')
        = Cardinality(Pending) + Cardinality(InBatch)
  BY <1>3, <1>5, <1>6, FS_EmptySet, FS_CardinalityType
<1>8. Cardinality(Pending') \in Nat /\ Cardinality(InBatch') \in Nat
  BY <1>3, <1>5, FS_CardinalityType
<1>9. Balanced'
  BY <1>1, <1>2, <1>3, <1>7, <1>8, SizeTypes, TokenTypes
     DEF TokenInv, Balanced, Tokens
<1> QED BY <1>1, <1>9 DEF BatchRaised

\* A read spends a token, on a new frame or on a repetition.
LEMMA BalancedRead ==
  ASSUME TokenInv, Rx_read
  PROVE  Balanced'
<1>1. PICK n \in batch : /\ frame' = mbox[n]
                         /\ unread' = unread \ {n}
                         /\ batch' = batch \ {n}
  BY DEF Rx_read, LowestOf
<1>2. /\ rx = "read" /\ rx' = "push"
      /\ UNCHANGED <<mbox, lost, iflag, reg, events, handled>>
  BY DEF Rx_read
<1>3. FlowInv
  BY DEF TokenInv
<1>4. /\ Raised' = Raised /\ Pending' = Pending
      /\ InBatch = batch /\ InBatch' = batch \ {n}
      /\ Pushing = 0 /\ Pushing' = 1 /\ HandledFrames' = HandledFrames
      /\ Current = {} /\ Current' = {mbox[n]}
  BY <1>1, <1>2 DEF Raised, Pending, InBatch, Pushing, HandledFrames, Current, Taken
<1>5. Cardinality(InBatch') = Cardinality(InBatch) - 1
  BY <1>3, <1>4, TokenTypes, MailboxesFinite, Counting
<1>6. n \in Mbs /\ mbox[n] \in Frames
  BY <1>2, <1>3, TokenTypes DEF FlowInv, LogInv, Filled
<1>9. /\ Balanced /\ Len(handled') = Len(handled) /\ Len(handled) \in Nat
      /\ Cardinality(Pending) \in Nat /\ Cardinality(InBatch) \in Nat
      /\ Cardinality(Raised) \in Nat /\ Cardinality(unread) \in Nat
      /\ Cardinality(lost) \in Nat
      /\ Cardinality(Taken) \in Nat
  BY <1>2, <1>3, SizeTypes, TokenTypes DEF TokenInv
<1>7. CASE n \in unread
  <2>1. Cardinality(unread') = Cardinality(unread) - 1
    BY <1>1, <1>3, <1>7, TokenTypes, MailboxesFinite, Counting
  <2>2. mbox[n] \notin HandledFrames
    BY <1>3, <1>7 DEF FlowInv, FramesInv, Accounted, Waiting
  <2>3. Cardinality(Taken')
          = Cardinality(Taken) + 1
    <3>1. Taken \in SUBSET Frames /\ mbox[n] \notin Taken
      BY <1>3, <1>4, <2>2, TokenTypes DEF Taken
    <3>2. Cardinality(Taken \cup {mbox[n]}) = Cardinality(Taken) + 1
      BY <1>6, <3>1, FramesFinite, Counting
    <3>3. Taken' = Taken \cup {mbox[n]}
      BY <1>4 DEF Taken
    <3> QED BY <3>2, <3>3, Zenon
  <2> QED BY <1>2, <1>4, <1>5, <1>9, <2>1, <2>3 DEF Balanced, Tokens
<1>8. CASE n \notin unread
  <2>1. unread' = unread
    BY <1>1, <1>8
  <2>2. mbox[n] \in HandledFrames
    BY <1>3, <1>4, <1>6, <1>8 DEF FlowInv, FramesInv, ReadBefore, Frames, NoFrame
  <2>3. Taken' = Taken
    BY <1>4, <2>2 DEF Taken
  <2> QED BY <1>2, <1>4, <1>5, <1>9, <2>1, <2>3 DEF Balanced, Tokens
<1> QED BY <1>7, <1>8

LEMMA BalancedPush ==
  ASSUME TokenInv, Rx_push
  PROVE  Balanced'
<1>1. /\ rx = "push" /\ rx' = IF batch = {} THEN "wait" ELSE "read"
      /\ handled' = Append(handled, frame) /\ events' = events \cup {LOG}
      /\ UNCHANGED <<hardware, iflag, reg, batch>>
  BY DEF Rx_push
<1>2. FlowInv
  BY DEF TokenInv
<1>3. /\ handled \in Seq(Frames \cup {NoFrame}) /\ frame \in Frames \cup {NoFrame}
  BY <1>2 DEF FlowInv, RxInv, TypeOK
<1>4. Len(handled') = Len(handled) + 1 /\ HandledFrames' = HandledFrames \cup {frame}
  BY <1>1, <1>3, HandledAppend
<1>5. /\ Raised' = Raised /\ Pending' = Pending /\ InBatch' = InBatch
      /\ Pushing = 1 /\ Pushing' = 0
      /\ Taken' = Taken
      /\ lost' = lost /\ unread' = unread
  BY <1>1, <1>4, LogIsNoMailbox DEF Raised, Pending, InBatch, Pushing,
     Taken, Current, hardware
<1>6. /\ Balanced /\ Len(handled) \in Nat
      /\ Cardinality(Pending) \in Nat /\ Cardinality(InBatch) \in Nat
      /\ Cardinality(Raised) \in Nat /\ Cardinality(unread) \in Nat
      /\ Cardinality(lost) \in Nat
      /\ Cardinality(Taken) \in Nat
  BY <1>2, SizeTypes, TokenTypes DEF TokenInv
<1> QED BY <1>4, <1>5, <1>6 DEF Balanced, Tokens

LEMMA TokenStep == TokenInv /\ [Next]_vars => TokenInv'
<1> SUFFICES ASSUME TokenInv, [Next]_vars PROVE TokenInv'
  OBVIOUS
<1>1. FlowInv'
  BY StepInv, StepLog, FramesStep DEF TokenInv, FlowInv
<1>2. CASE Receive
  <2>1. UNCHANGED <<rx, batch, events>>
    BY <1>2 DEF Receive, rxVars
  <2> QED BY <1>1, <1>2, <2>1, BalancedReceive DEF TokenInv, BatchRaised
<1>3. CASE CAN_isr_set
  BY <1>1, <1>3, BalancedReport DEF TokenInv
<1>4. CASE Rx_clear
  BY <1>1, <1>4, BalancedClear DEF TokenInv
<1>5. CASE Rx_read
  BY <1>1, <1>5, BalancedRead DEF TokenInv, BatchRaised, Rx_read
<1>6. CASE Rx_push
  BY <1>1, <1>6, BalancedPush DEF TokenInv, BatchRaised, Rx_push
<1>7. CASE Rx_wait
  <2>1. /\ UNCHANGED <<hardware, iflag, reg, events, frame, handled>>
        /\ rx = "wait" /\ rx' \in {"clear", "blocked"}
        /\ rx' = "clear" => batch' = events \cap Mbs
    BY <1>7 DEF Rx_wait, Signalled
  <2>2. BatchRaised'
    BY <2>1 DEF BatchRaised
  <2>3. /\ Raised' = Raised /\ Pending' = Pending /\ InBatch' = InBatch
        /\ Pushing' = Pushing /\ Taken' = Taken /\ lost' = lost /\ unread' = unread
    BY <2>1 DEF Raised, Pending, InBatch, Pushing, Taken, HandledFrames, Current,
       hardware
  <2> QED BY <1>1, <2>1, <2>2, <2>3 DEF TokenInv, Balanced, Tokens
<1>8. CASE CAN_isr_reset
  <2>1. /\ UNCHANGED <<hardware, events, rxVars, handled>>
        /\ iflag' = iflag \ reg /\ reg' = {}
    BY <1>8 DEF CAN_isr_reset
  <2>2. /\ Raised' = Raised /\ Pending' = Pending /\ InBatch' = InBatch
        /\ Pushing' = Pushing /\ Taken' = Taken /\ lost' = lost /\ unread' = unread
    BY <2>1 DEF Raised, Pending, InBatch, Pushing, Taken, HandledFrames, Current,
       hardware, rxVars
  <2> QED BY <1>1, <2>1, <2>2 DEF TokenInv, Balanced, Tokens, BatchRaised, rxVars
<1>9. CASE View_open \/ View_timeout \/ LogScreen \/ UNCHANGED vars
  <2>1. /\ UNCHANGED <<hardware, iflag, reg, rxVars, handled>>
        /\ events' = events \/ events' = events \ {LOG}
    BY <1>9 DEF vars, View_open, View_timeout, LogScreen, View_wait, View_clear,
       View_pop, View_advance, View_key, rxVars
  <2>2. /\ Raised' = Raised /\ Pending' = Pending /\ InBatch' = InBatch
        /\ Pushing' = Pushing /\ Taken' = Taken /\ lost' = lost /\ unread' = unread
    BY <2>1, LogIsNoMailbox DEF Raised, Pending, InBatch, Pushing, Taken,
       HandledFrames, Current, hardware, rxVars
  <2>3. batch \subseteq Mbs
    BY DEF TokenInv, FlowInv, RxInv, TypeOK
  <2> QED BY <1>1, <2>1, <2>2, <2>3, LogIsNoMailbox
          DEF TokenInv, Balanced, Tokens, BatchRaised, rxVars
<1> QED BY <1>2, <1>3, <1>4, <1>5, <1>6, <1>7, <1>8, <1>9 DEF Next, CAN_Rx_Task

LEMMA InitTokens == Init => TokenInv
<1> SUFFICES ASSUME Init PROVE TokenInv
  OBVIOUS
<1>1. FlowInv
  BY InitInv, InitLog, InitFrames DEF FlowInv
<1>2. /\ Raised = {} /\ Pending = {} /\ InBatch = {} /\ Pushing = 0
      /\ Len(handled) = 0
  BY DEF Init, Raised, Pending, InBatch, Pushing
<1>3. Tokens = 0
  BY <1>2, FS_EmptySet DEF Tokens
<1>4. Balanced
  BY <1>1, <1>2, <1>3, SizeTypes DEF Balanced
<1> QED BY <1>1, <1>4 DEF TokenInv, BatchRaised, Init

\* Every unread mailbox has a token, so the mailboxes do not outnumber them.
LEMMA UnreadHaveTokens ==
  ASSUME TokenInv
  PROVE  unread \subseteq Raised \cup Pending \cup InBatch
<1>1. /\ unread \subseteq iflag \cup events \cup batch /\ reg \subseteq events
      /\ unread \subseteq Mbs
      /\ rx \in {"wait", "blocked", "clear", "read", "push"}
      /\ rx \in {"wait", "blocked"} => batch = {}
  BY DEF TokenInv, FlowInv, RxInv, TypeOK, NoFrameForgotten, Reported, BatchServed
<1>2. rx = "clear" => batch \subseteq events
  BY DEF TokenInv, BatchRaised
<1> QED BY <1>1, <1>2 DEF Raised, Pending, InBatch

LEMMA TokensBoundRepeats ==
  ASSUME TokenInv
  PROVE  RepeatsNeedOverruns
<1>1. FlowInv /\ Balanced
  BY DEF TokenInv
<1>2. /\ Cardinality(Raised) \in Nat /\ Cardinality(Pending) \in Nat
      /\ Cardinality(InBatch) \in Nat /\ Cardinality(unread) \in Nat
      /\ Cardinality(lost) \in Nat /\ Cardinality(Taken) \in Nat
  BY <1>1, SizeTypes
<1>3. Cardinality(unread) <= Tokens
  <2> DEFINE u == Raised \cup Pending
  <2>1. u \in SUBSET Mbs /\ u \cup InBatch \in SUBSET Mbs
    BY <1>1, TokenTypes
  <2>2. Cardinality(u) \in Nat /\ Cardinality(u) <= Cardinality(Raised) + Cardinality(Pending)
    BY <1>1, TokenTypes, MailboxesFinite, Counting
  <2>3. unread \subseteq u \cup InBatch /\ unread \in SUBSET Mbs
    BY <1>1, TokenTypes, UnreadHaveTokens
  <2> HIDE DEF u
  <2>4. Cardinality(u \cup InBatch) \in Nat
        /\ Cardinality(u \cup InBatch) <= Cardinality(u) + Cardinality(InBatch)
    BY <1>1, <2>1, TokenTypes, MailboxesFinite, Counting
  <2>5. Cardinality(unread) <= Cardinality(u \cup InBatch)
    BY <2>1, <2>3, MailboxesFinite, Counting
  <2> QED BY <1>2, <2>2, <2>4, <2>5 DEF Tokens
<1>4. Tokens \in Nat /\ Len(handled) \in Nat
  BY <1>1, <1>2, TokenTypes DEF Tokens
<1>5. /\ Cardinality(HandledFrames) \in Nat
      /\ Cardinality(Taken) <= Cardinality(HandledFrames) + Pushing
      /\ Pushing \in Nat
  <2>1. HandledFrames \in SUBSET Frames /\ Current \in SUBSET Frames
    BY <1>1, HandledArrived
  <2>2. Cardinality(HandledFrames) \in Nat
    BY <2>1, FramesFinite, Counting
  <2>3. CASE rx = "push"
    <3>1. Current = {frame} /\ Pushing = 1
      BY <2>3 DEF Current, Pushing
    <3>2. Cardinality(Current) = 1
      BY <3>1, FS_Singleton, Zenon
    <3>3. Cardinality(HandledFrames \cup Current)
            <= Cardinality(HandledFrames) + Cardinality(Current)
      BY <2>1, FramesFinite, Counting
    <3> QED BY <2>2, <3>1, <3>2, <3>3 DEF Taken
  <2>4. CASE rx # "push"
    <3>1. Taken = HandledFrames /\ Pushing = 0
      BY <2>4 DEF Taken, Current, Pushing
    <3> QED BY <2>2, <3>1
  <2> QED BY <2>3, <2>4
<1> DEFINE t == Tokens
           n == Len(handled) + Pushing
           u == Cardinality(unread)
           a == Cardinality(lost)
           c == Cardinality(Taken)
           h == Cardinality(HandledFrames)
<1>6. t + n <= a + u + c
  BY <1>1, <1>4, <1>5 DEF Balanced
<1>7. u <= t /\ c <= h + Pushing
  BY <1>3, <1>5
<1>8. t \in Nat /\ n \in Nat /\ u \in Nat /\ a \in Nat /\ c \in Nat
  BY <1>2, <1>4, <1>5
<1> HIDE DEF t, u, a, c, n
<1>9. n <= a + c
  BY <1>6, <1>7, <1>8
<1> QED BY <1>4, <1>5, <1>7, <1>8, <1>9 DEF RepeatsNeedOverruns, n, a, c

\* A frame is handled twice only after an overwritten frame, and at most once
\* for each (CAN_isr, CAN_Rx_Task, CAN_read_rx_mbox).
THEOREM RepeatsArePaidFor == Spec => []RepeatsNeedOverruns
<1>1. TokenInv => RepeatsNeedOverruns
  BY TokensBoundRepeats
<1> QED BY <1>1, InitTokens, TokenStep, PTL DEF Spec

-----------------------------------------------------------------------------
(***************************************************************************)
(* The order of the frames, as long as none is lost.  Every token then     *)
(* stands for one unread mailbox.  A frame whose event comes later came    *)
(* later, so a frame that waits outside the batch is later than all frames *)
(* handled and in the batch.  What overtakes a frame of the batch is       *)
(* therefore in the same batch: the handled frames fall into those before  *)
(* a position p, earlier than every frame still to be read, and those of   *)
(* the present batch, which is not larger than the set of mailboxes.       *)
(***************************************************************************)
Fresh ==
  /\ Raised \cap Pending = {} /\ Raised \cap InBatch = {}
  /\ Pending \cap InBatch = {}
  /\ Raised \cup Pending \cup InBatch \subseteq unread

Levels == \A p \in Pending, r \in Raised : mbox[p] < mbox[r]

Later ==
  \A m \in unread \ batch :
    /\ \A f \in HandledFrames \cup Current : f < mbox[m]
    /\ \A n \in batch : mbox[n] < mbox[m]

Before(p) ==
  \A j \in 1 .. p :
    /\ \A m \in unread : handled[j] < mbox[m]
    /\ rx = "push" => handled[j] < frame

Split(p) ==
  /\ Before(p)
  /\ IF rx \in {"read", "push"}
       THEN Len(handled) - p + Pushing + Cardinality(batch) <= MbCnt
       ELSE p = Len(handled)

Ordered ==
  /\ Fresh /\ Levels /\ Later
  /\ \E p \in 0 .. Len(handled) : Split(p)

OrderInv == TokenInv /\ (lost = {} => Ordered) /\ BoundedOvertaking

LEMMA BatchUnread ==
  ASSUME TokenInv, Fresh
  PROVE  batch \subseteq unread
<1>1. /\ rx \in {"wait", "blocked", "clear", "read", "push"}
      /\ rx \in {"wait", "blocked"} => batch = {}
      /\ batch \subseteq Mbs
  BY DEF TokenInv, FlowInv, RxInv, TypeOK, BatchServed
<1>2. rx = "clear" => batch \subseteq events
  BY DEF TokenInv, BatchRaised
<1> QED BY <1>1, <1>2 DEF Fresh, Pending, InBatch

\* The frames of the mailboxes are numbers, and so are those handled.
LEMMA FrameTypes ==
  ASSUME TokenInv
  PROVE  /\ \A m \in unread : mbox[m] \in 1 .. arrived
         /\ \A m \in Mbs : mbox[m] \in Nat
         /\ \A j \in 1 .. Len(handled) : handled[j] \in 1 .. arrived
         /\ frame \in Nat /\ arrived \in Nat /\ Len(handled) \in Nat
         /\ rx = "push" => frame \in 1 .. arrived
         /\ HandledFrames \subseteq 1 .. arrived
<1>1. FlowInv
  BY DEF TokenInv
<1>2. Waiting \subseteq 1 .. arrived /\ Current \subseteq 1 .. arrived
      /\ HandledFrames \subseteq 1 .. arrived /\ arrived \in Nat
  BY <1>1, HandledArrived
<1>3. handled \in Seq(Frames \cup {NoFrame}) /\ frame \in Nat
      /\ mbox \in [Mbs -> Frames \cup {NoFrame}]
  BY <1>1 DEF FlowInv, RxInv, TypeOK, Frames, NoFrame
<1>4. Len(handled) \in Nat /\ DOMAIN handled = 1 .. Len(handled)
  BY <1>3
<1>5. \A j \in 1 .. Len(handled) : handled[j] \in HandledFrames
  BY <1>4 DEF HandledFrames
<1>6. \A m \in Mbs : mbox[m] \in Nat
  BY <1>3 DEF Frames, NoFrame
<1> QED BY <1>2, <1>3, <1>4, <1>5, <1>6 DEF Waiting, Current

\* A new frame is later than all others and goes to a mailbox of its own.
LEMMA OrderedReceive ==
  ASSUME TokenInv, Ordered, Receive, lost' = {}
  PROVE  Ordered'
<1>1. PICK m \in Mbs :
        /\ lost' = IF m \in unread THEN lost \cup {mbox[m]} ELSE lost
        /\ mbox' = [mbox EXCEPT ![m] = arrived + 1]
        /\ unread' = unread \cup {m}
        /\ iflag' = iflag \cup {m}
  BY TargetsType DEF Receive
<1>2. UNCHANGED <<reg, events, rx, batch, frame, handled>>
  BY DEF Receive, rxVars
<1>3. m \notin unread
  BY <1>1
<1>4. Fresh /\ Levels /\ Later /\ batch \subseteq unread
  BY BatchUnread DEF Ordered
<1>5. reg \subseteq Pending
  BY TokenTypes DEF TokenInv
<1>6. /\ Pending' = Pending /\ InBatch' = InBatch /\ Raised' = Raised \cup {m}
      /\ HandledFrames' = HandledFrames /\ Current' = Current /\ Pushing' = Pushing
  BY <1>1, <1>2, <1>3, <1>4, <1>5
     DEF Pending, InBatch, Raised, HandledFrames, Current, Pushing, Fresh
<1>7. mbox \in [Mbs -> Frames \cup {NoFrame}] /\ unread \subseteq Mbs
  BY DEF TokenInv, FlowInv, RxInv, TypeOK
<1>8. mbox'[m] = arrived + 1 /\ \A n \in unread : mbox'[n] = mbox[n]
  BY <1>1, <1>3, <1>7
<1>9. Fresh'
  BY <1>1, <1>3, <1>4, <1>6 DEF Fresh
<1>10. Levels'
  BY <1>4, <1>6, <1>8, FrameTypes DEF Levels, Fresh
<1>11. Later'
  <2> SUFFICES ASSUME NEW k \in unread' \ batch'
               PROVE  /\ \A f \in HandledFrames \cup Current : f < mbox'[k]
                      /\ \A n \in batch : mbox'[n] < mbox'[k]
    BY <1>2, <1>6 DEF Later
  <2>1. HandledFrames \cup Current \subseteq 1 .. arrived /\ arrived \in Nat
    BY HandledArrived DEF TokenInv
  <2>2. CASE k = m
    BY <1>4, <1>8, <2>1, <2>2, FrameTypes
  <2>3. CASE k # m
    BY <1>1, <1>2, <1>4, <1>8, <2>3 DEF Later
  <2> QED BY <2>2, <2>3
<1>12. \E p \in 0 .. Len(handled') : Split(p)'
  <2>1. PICK p \in 0 .. Len(handled) : Split(p)
    BY DEF Ordered
  <2>2. Before(p)'
    <3> SUFFICES ASSUME NEW j \in 1 .. p
                 PROVE  /\ \A k \in unread' : handled[j] < mbox'[k]
                        /\ rx = "push" => handled[j] < frame
      BY <1>2 DEF Before
    <3>1. handled[j] \in 1 .. arrived /\ arrived \in Nat
      BY FrameTypes
    <3>2. handled[j] < mbox'[m]
      BY <1>8, <3>1
    <3>3. \A k \in unread : handled[j] < mbox'[k]
      BY <1>8, <2>1 DEF Split, Before
    <3> QED BY <1>1, <2>1, <3>2, <3>3 DEF Split, Before
  <2>3. Split(p)'
    BY <1>2, <1>6, <2>1, <2>2 DEF Split
  <2> QED BY <1>2, <2>1, <2>3
<1> QED BY <1>9, <1>10, <1>11, <1>12 DEF Ordered

\* CAN_isr raises every flag that is left, and a wait it ends gets them all.
LEMMA OrderedReport ==
  ASSUME TokenInv, Ordered, CAN_isr_set
  PROVE  Ordered'
<1>1. /\ reg = {} /\ reg' = iflag /\ iflag' = iflag
      /\ events' = events \cup iflag
      /\ UNCHANGED <<mbox, unread, frame, handled>>
  BY DEF CAN_isr_set, hardware
<1>2. \/ rx = "blocked" /\ rx' = "clear" /\ batch' = events' \cap Mbs
      \/ rx' = rx /\ batch' = batch
  BY DEF CAN_isr_set, Signalled
<1>3. iflag \subseteq Mbs /\ unread \subseteq Mbs
  BY DEF TokenInv, FlowInv, RxInv, TypeOK
<1>4. /\ Raised' = {} /\ Raised = iflag /\ Pending' = Pending \cup Raised
      /\ InBatch' = InBatch /\ Pushing' = Pushing
      /\ HandledFrames' = HandledFrames /\ Current' = Current
  BY <1>1, <1>2, <1>3 DEF Raised, Pending, InBatch, Pushing, HandledFrames, Current
<1>5. Fresh' /\ Levels'
  BY <1>1, <1>4 DEF Ordered, Fresh, Levels
<1>6. Later'
  <2>1. CASE rx = "blocked" /\ batch' = events' \cap Mbs
    <3>1. unread \subseteq Pending'
      BY <1>4, <2>1, UnreadHaveTokens DEF InBatch
    <3> QED BY <1>1, <2>1, <3>1 DEF Later, Pending
  <2>2. CASE rx' = rx /\ batch' = batch
    BY <1>1, <1>4, <2>2 DEF Ordered, Later
  <2> QED BY <1>2, <2>1, <2>2
<1>7. \E p \in 0 .. Len(handled') : Split(p)'
  <2>1. PICK p \in 0 .. Len(handled) : Split(p)
    BY DEF Ordered
  <2>2. Split(p)'
    BY <1>1, <1>2, <1>4, <2>1 DEF Split, Before
  <2> QED BY <1>1, <2>1, <2>2
<1> QED BY <1>5, <1>6, <1>7 DEF Ordered

\* A wait that does not sleep gets every event there is; the frames of later
\* events came later.
LEMMA OrderedWait ==
  ASSUME TokenInv, Ordered, Rx_wait
  PROVE  Ordered'
<1>1. /\ rx = "wait" /\ batch = {}
      /\ UNCHANGED <<mbox, unread, iflag, reg, events, frame, handled>>
  BY DEF Rx_wait, hardware, TokenInv, FlowInv, RxInv, BatchServed
<1>2. \/ rx' = "clear" /\ batch' = Pending
      \/ rx' = "blocked" /\ batch' = batch
  BY DEF Rx_wait, Signalled, Pending
<1>3. /\ Raised' = Raised /\ Pending' = Pending /\ InBatch' = {} /\ InBatch = {}
      /\ Current' = {} /\ Current = {} /\ HandledFrames' = HandledFrames
  BY <1>1, <1>2 DEF Raised, Pending, InBatch, Current, HandledFrames
<1>4. Fresh' /\ Levels'
  BY <1>1, <1>3 DEF Ordered, Fresh, Levels
<1>5. Later'
  <2>1. CASE batch' = Pending
    <3>1. unread \ batch' \subseteq Raised
      BY <1>3, <2>1, UnreadHaveTokens
    <3>2. \A m \in unread : \A f \in HandledFrames \cup Current : f < mbox[m]
      BY <1>1 DEF Ordered, Later
    <3>3. \A m \in unread \ batch' : \A n \in batch' : mbox[n] < mbox[m]
      BY <2>1, <3>1 DEF Ordered, Levels
    <3> QED BY <1>1, <1>3, <3>2, <3>3 DEF Later
  <2>2. CASE batch' = batch
    BY <1>1, <1>3, <2>2 DEF Ordered, Later
  <2> QED BY <1>2, <2>1, <2>2
<1>6. \E p \in 0 .. Len(handled') : Split(p)'
  <2>1. PICK p \in 0 .. Len(handled) : Split(p)
    BY DEF Ordered
  <2>2. p = Len(handled) /\ Before(p)'
    BY <1>1, <1>2, <2>1 DEF Split, Before
  <2>3. Split(p)'
    BY <1>1, <1>2, <2>2 DEF Split
  <2> QED BY <1>1, <2>1, <2>3
<1> QED BY <1>4, <1>5, <1>6 DEF Ordered

\* The batch begins: nothing of it is handled, and it fits the mailboxes.
LEMMA OrderedClear ==
  ASSUME TokenInv, Ordered, Rx_clear
  PROVE  Ordered'
<1>1. /\ rx = "clear" /\ rx' = "read" /\ events' = events \ batch
      /\ UNCHANGED <<mbox, unread, iflag, reg, batch, frame, handled>>
  BY DEF Rx_clear, ToClear, hardware
<1>2. batch \in SUBSET Mbs /\ batch \subseteq Pending
  BY <1>1, TokenTypes DEF TokenInv, BatchRaised, Pending
<1>3. /\ Raised' = Raised /\ Pending' = Pending \ batch
      /\ InBatch = {} /\ InBatch' = batch /\ Pushing' = 0
      /\ Current' = {} /\ Current = {} /\ HandledFrames' = HandledFrames
  BY <1>1 DEF Raised, Pending, InBatch, Pushing, Current, HandledFrames
<1>4. Fresh' /\ Levels'
  BY <1>1, <1>2, <1>3 DEF Ordered, Fresh, Levels
<1>5. Later'
  BY <1>1, <1>3 DEF Ordered, Later
<1>6. \E p \in 0 .. Len(handled') : Split(p)'
  <2>1. PICK p \in 0 .. Len(handled) : Split(p)
    BY DEF Ordered
  <2>2. p = Len(handled) /\ Before(p)'
    BY <1>1, <2>1 DEF Split, Before
  <2>3. Cardinality(batch) \in Nat /\ Cardinality(batch) <= MbCnt
    BY <1>2, MailboxesFinite, Counting
  <2>4. Len(handled') - p + Pushing' + Cardinality(batch') <= MbCnt
    BY <1>1, <1>3, <2>2, <2>3, FrameTypes
  <2>5. Split(p)'
    BY <1>1, <2>2, <2>4 DEF Split
  <2> QED BY <1>1, <2>1, <2>5
<1> QED BY <1>4, <1>5, <1>6 DEF Ordered

\* A frame of the batch is read: it is later than those before the batch and
\* earlier than those outside of it.
LEMMA OrderedRead ==
  ASSUME TokenInv, Ordered, Rx_read
  PROVE  Ordered'
<1>1. PICK n \in batch : /\ frame' = mbox[n]
                         /\ unread' = unread \ {n}
                         /\ batch' = batch \ {n}
  BY DEF Rx_read, LowestOf
<1>2. /\ rx = "read" /\ rx' = "push"
      /\ UNCHANGED <<mbox, iflag, reg, events, handled>>
  BY DEF Rx_read
<1>3. /\ Raised' = Raised /\ Pending' = Pending
      /\ InBatch = batch /\ InBatch' = batch \ {n}
      /\ Pushing = 0 /\ Pushing' = 1 /\ HandledFrames' = HandledFrames
      /\ Current = {} /\ Current' = {mbox[n]}
  BY <1>1, <1>2 DEF Raised, Pending, InBatch, Pushing, HandledFrames, Current
<1>4. Fresh /\ Levels /\ Later /\ n \in unread
  BY BatchUnread DEF Ordered
<1>5. Fresh' /\ Levels'
  BY <1>1, <1>2, <1>3, <1>4 DEF Fresh, Levels
<1>6. Later'
  <2>1. unread' \ batch' = unread \ batch
    BY <1>1
  <2> QED BY <1>1, <1>2, <1>3, <1>4, <2>1 DEF Later
<1>7. \E p \in 0 .. Len(handled') : Split(p)'
  <2>1. PICK p \in 0 .. Len(handled) : Split(p)
    BY DEF Ordered
  <2>2. Before(p)'
    BY <1>1, <1>2, <1>4, <2>1 DEF Split, Before
  <2>3. /\ Cardinality(batch \ {n}) = Cardinality(batch) - 1
        /\ Cardinality(batch) \in Nat
    BY TokenTypes, MailboxesFinite, Counting DEF TokenInv
  <2>4. Len(handled) - p + Pushing + Cardinality(batch) <= MbCnt
    BY <1>2, <2>1 DEF Split
  <2>5. Cardinality(batch') = Cardinality(batch) - 1
    BY <1>1, <2>3
  <2>6. Len(handled) - p + 1 + Cardinality(batch') <= MbCnt
    BY <1>3, <2>3, <2>4, <2>5, FrameTypes, SizesAssumption
  <2>7. Split(p)'
    BY <1>2, <1>3, <2>2, <2>6 DEF Split
  <2> QED BY <1>2, <2>1, <2>7
<1> QED BY <1>5, <1>6, <1>7 DEF Ordered

\* The frame is handled.  With the last one of the batch, all that is handled
\* is earlier than all that waits.
LEMMA OrderedPush ==
  ASSUME TokenInv, Ordered, Rx_push
  PROVE  Ordered'
<1>1. /\ rx = "push" /\ rx' = IF batch = {} THEN "wait" ELSE "read"
      /\ handled' = Append(handled, frame) /\ events' = events \cup {LOG}
      /\ UNCHANGED <<mbox, unread, iflag, reg, batch, frame>>
  BY DEF Rx_push, hardware
<1>2. handled \in Seq(Frames \cup {NoFrame}) /\ frame \in Frames \cup {NoFrame}
  BY DEF TokenInv, FlowInv, RxInv, TypeOK
<1>3. /\ Len(handled') = Len(handled) + 1 /\ Len(handled) \in Nat
      /\ HandledFrames' = HandledFrames \cup {frame}
      /\ \A j \in 1 .. Len(handled) : handled'[j] = handled[j]
      /\ handled'[Len(handled) + 1] = frame
      /\ DOMAIN handled' = 1 .. Len(handled')
  BY <1>1, <1>2, HandledAppend
<1>4. /\ Raised' = Raised /\ Pending' = Pending /\ InBatch' = InBatch
      /\ Pushing = 1 /\ Pushing' = 0 /\ Current = {frame} /\ Current' = {}
  BY <1>1, LogIsNoMailbox DEF Raised, Pending, InBatch, Pushing, Current
<1>5. Fresh' /\ Levels'
  BY <1>1, <1>4 DEF Ordered, Fresh, Levels
<1>6. Later'
  BY <1>1, <1>3, <1>4 DEF Ordered, Later
<1>7. \E p \in 0 .. Len(handled') : Split(p)'
  <2>1. CASE batch = {}
    <3>0. PICK p \in Nat : p = Len(handled')
      BY <1>3
    <3>1. rx' = "wait" /\ p \in 0 .. Len(handled')
      BY <1>1, <1>3, <2>1, <3>0
    <3>2. \A j \in 1 .. p : handled'[j] \in HandledFrames'
      BY <1>3, <3>0 DEF HandledFrames
    <3>3. Before(p)'
      BY <1>1, <1>4, <1>6, <2>1, <3>1, <3>2 DEF Before, Later
    <3>4. Split(p)'
      BY <3>0, <3>1, <3>3 DEF Split
    <3> QED BY <3>1, <3>4
  <2>2. CASE batch # {}
    <3>1. PICK p \in 0 .. Len(handled) : Split(p)
      BY DEF Ordered
    <3>2. rx' = "read"
      BY <1>1, <2>2
    <3>3. Before(p)'
      BY <1>1, <1>3, <3>1, <3>2 DEF Split, Before
    <3>4. Len(handled') - p + Pushing' + Cardinality(batch') <= MbCnt
      <4>1. Len(handled) - p + 1 + Cardinality(batch) <= MbCnt
        BY <1>1, <1>4, <3>1 DEF Split
      <4>2. Cardinality(batch) \in Nat /\ Cardinality(batch') = Cardinality(batch)
        BY <1>1, TokenTypes, MailboxesFinite, Counting DEF TokenInv
      <4> QED BY <1>3, <1>4, <4>1, <4>2, SizesAssumption
    <3>5. Split(p)'
      BY <3>2, <3>3, <3>4 DEF Split
    <3> QED BY <1>3, <3>1, <3>5
  <2> QED BY <2>1, <2>2
<1> QED BY <1>5, <1>6, <1>7 DEF Ordered

\* What overtakes the frame that is pushed is of the same batch.
LEMMA PushOvertaking ==
  ASSUME TokenInv, Ordered, BoundedOvertaking, lost = {}, Rx_push
  PROVE  BoundedOvertaking'
<1>1. rx = "push" /\ handled' = Append(handled, frame)
  BY DEF Rx_push
<1>2. handled \in Seq(Frames \cup {NoFrame}) /\ frame \in Frames \cup {NoFrame}
  BY DEF TokenInv, FlowInv, RxInv, TypeOK
<1>3. /\ Len(handled') = Len(handled) + 1 /\ Len(handled) \in Nat
      /\ DOMAIN handled = 1 .. Len(handled)
      /\ DOMAIN handled' = 1 .. Len(handled')
      /\ \A j \in 1 .. Len(handled) : handled'[j] = handled[j]
      /\ handled'[Len(handled) + 1] = frame
  BY <1>1, <1>2
<1> DEFINE Over(q, i) == {j \in 1 .. i - 1 : q[j] > q[i]}
<1> SUFFICES ASSUME NEW i \in 1 .. Len(handled')
             PROVE  Cardinality(Over(handled', i)) < MbCnt
  BY <1>3 DEF BoundedOvertaking
<1>4. CASE i \in 1 .. Len(handled)
  <2>1. Over(handled', i) = Over(handled, i)
    BY <1>3, <1>4
  <2>2. Cardinality(Over(handled, i)) < MbCnt
    BY <1>3, <1>4 DEF BoundedOvertaking
  <2> HIDE DEF Over
  <2> QED BY <2>1, <2>2
<1>5. CASE i = Len(handled) + 1
  <2>1. PICK p \in 0 .. Len(handled) : Split(p)
    BY DEF Ordered
  <2>2. \A j \in 1 .. p : handled[j] < frame
    BY <1>1, <2>1 DEF Split, Before
  <2>3. Over(handled', i) \subseteq p + 1 .. Len(handled)
    <3> SUFFICES ASSUME NEW j \in 1 .. Len(handled), handled[j] > frame
                 PROVE  j \in p + 1 .. Len(handled)
      BY <1>3, <1>5
    <3>1. handled[j] \in Nat /\ frame \in Nat
      BY <1>2, FrameTypes
    <3>2. j \notin 1 .. p
      BY <2>2, <3>1
    <3> QED BY <3>2
  <2> HIDE DEF Over
  <2>4. Len(handled) - p + 1 + Cardinality(batch) <= MbCnt
    BY <1>1, <2>1 DEF Split, Pushing
  <2>5. Cardinality(batch) \in Nat
    BY TokenTypes, MailboxesFinite, Counting DEF TokenInv
  <2>6. /\ IsFiniteSet(p + 1 .. Len(handled))
        /\ Cardinality(p + 1 .. Len(handled)) = Len(handled) - p
    <3>1. p + 1 \in Int /\ Len(handled) \in Int
      BY <1>3
    <3>2. IsFiniteSet(p + 1 .. Len(handled)) /\ Cardinality(p + 1 .. Len(handled))
            = IF p + 1 > Len(handled) THEN 0 ELSE Len(handled) - (p + 1) + 1
      BY <3>1, FS_Interval
    <3> QED BY <1>3, <3>2
  <2>7. /\ Cardinality(Over(handled', i)) <= Len(handled) - p
        /\ Cardinality(Over(handled', i)) \in Nat
    BY <2>3, <2>6, FS_Subset, FS_CardinalityType
  <2> QED BY <1>3, <2>4, <2>5, <2>7, SizesAssumption
<1> QED BY <1>3, <1>4, <1>5

\* Steps that move no token keep the order.
LEMMA OrderedSame ==
  ASSUME Ordered, UNCHANGED <<mbox, unread, rx, batch, frame, handled>>,
         Raised' = Raised, Pending' = Pending
  PROVE  Ordered'
<1>1. /\ InBatch' = InBatch /\ Pushing' = Pushing
      /\ HandledFrames' = HandledFrames /\ Current' = Current
  BY DEF InBatch, Pushing, HandledFrames, Current
<1>2. Fresh' /\ Levels' /\ Later'
  BY <1>1 DEF Ordered, Fresh, Levels, Later
<1>3. \A p \in 0 .. Len(handled) : Split(p) => Split(p)'
  BY <1>1 DEF Split, Before
<1> QED BY <1>2, <1>3 DEF Ordered

\* A lost frame stays lost.
LEMMA LostStays == [Next]_vars /\ lost' = {} => lost = {}
BY DEF Next, vars, Receive, CAN_isr_set, CAN_isr_reset, CAN_Rx_Task, Rx_wait,
   Rx_clear, Rx_read, Rx_push, View_open, View_timeout, LogScreen, View_wait,
   View_clear, View_pop, View_advance, View_key, hardware

LEMMA OrderStep == OrderInv /\ [Next]_vars => OrderInv'
<1> SUFFICES ASSUME OrderInv, [Next]_vars, lost' = {}
             PROVE  Ordered' /\ BoundedOvertaking'
  BY TokenStep DEF OrderInv, BoundedOvertaking
<1>1. TokenInv /\ lost = {} /\ Ordered /\ BoundedOvertaking
  BY LostStays DEF OrderInv
<1>2. CASE Rx_push
  BY <1>1, <1>2, OrderedPush, PushOvertaking
<1>3. handled' = handled => BoundedOvertaking'
  BY <1>1 DEF BoundedOvertaking
<1>4. CASE Receive
  BY <1>1, <1>3, <1>4, OrderedReceive DEF Receive
<1>5. CASE CAN_isr_set
  BY <1>1, <1>3, <1>5, OrderedReport DEF CAN_isr_set
<1>6. CASE Rx_wait
  BY <1>1, <1>3, <1>6, OrderedWait DEF Rx_wait
<1>7. CASE Rx_clear
  BY <1>1, <1>3, <1>7, OrderedClear DEF Rx_clear
<1>8. CASE Rx_read
  BY <1>1, <1>3, <1>8, OrderedRead DEF Rx_read
<1>9. CASE CAN_isr_reset
  <2>1. /\ UNCHANGED <<hardware, events, rxVars, handled>>
        /\ iflag' = iflag \ reg /\ reg' = {}
    BY <1>9 DEF CAN_isr_reset
  <2>2. /\ Raised' = Raised /\ Pending' = Pending
        /\ UNCHANGED <<mbox, unread, rx, batch, frame, handled>>
    BY <2>1 DEF Raised, Pending, hardware, rxVars
  <2> QED BY <1>1, <1>3, <2>2, OrderedSame
<1>10. CASE View_open \/ View_timeout \/ LogScreen \/ UNCHANGED vars
  <2>1. /\ UNCHANGED <<hardware, iflag, reg, rxVars, handled>>
        /\ events' = events \/ events' = events \ {LOG}
    BY <1>10 DEF vars, View_open, View_timeout, LogScreen, View_wait, View_clear,
       View_pop, View_advance, View_key, rxVars
  <2>2. /\ Raised' = Raised /\ Pending' = Pending
        /\ UNCHANGED <<mbox, unread, rx, batch, frame, handled>>
    BY <2>1, LogIsNoMailbox DEF Raised, Pending, hardware, rxVars
  <2> QED BY <1>1, <1>3, <2>2, OrderedSame
<1> QED BY <1>2, <1>4, <1>5, <1>6, <1>7, <1>8, <1>9, <1>10 DEF Next, CAN_Rx_Task

LEMMA InitOrder == Init => OrderInv
<1> SUFFICES ASSUME Init PROVE OrderInv
  OBVIOUS
<1>1. TokenInv
  BY InitTokens
<1>2. /\ unread = {} /\ Raised = {} /\ Pending = {} /\ InBatch = {}
      /\ rx = "wait" /\ Len(handled) = 0 /\ DOMAIN handled = {}
  BY DEF Init, Raised, Pending, InBatch
<1>3. Fresh /\ Levels /\ Later
  BY <1>2 DEF Fresh, Levels, Later
<1>4. Split(0)
  BY <1>2 DEF Split, Before
<1>5. BoundedOvertaking
  BY <1>2 DEF BoundedOvertaking
<1> QED BY <1>1, <1>2, <1>3, <1>4, <1>5 DEF OrderInv, Ordered

\* As long as no mailbox was overrun a frame is overtaken by fewer later
\* frames than there are mailboxes (CAN_Rx_Task serves a batch by index).
THEOREM OvertakingIsBounded == Spec => []BoundedOvertaking
<1>1. OrderInv => BoundedOvertaking
  BY DEF OrderInv
<1> QED BY <1>1, InitOrder, OrderStep, PTL DEF Spec

=============================================================================
