-------------------------- MODULE CanReceiveProofs --------------------------
(***************************************************************************)
(* For every number of mailboxes, frames and log slots no frame that waits *)
(* in a mailbox is forgotten, and the ring log is a queue.                 *)
(*                                                                         *)
(* A mailbox leaves the flags when CAN_isr resets what it reported, so the *)
(* reported flags must still be events (no task runs inside the handler);  *)
(* it leaves the events when CAN_Rx_Task clears its batch; and a batch is  *)
(* replaced only when it is empty.                                         *)
(***************************************************************************)
EXTENDS CanReceiveProps, SequenceTheorems, TLAPS

Reported == reg \subseteq events

BatchServed == rx \in {"wait", "blocked"} => batch = {}

UnreadHold == \A m \in unread : mbox[m] \in Frames

RxInv == TypeOK /\ UnreadHold /\ Reported /\ BatchServed /\ NoFrameForgotten

\* The event of the log is not the event of a mailbox.
LEMMA LogIsNoMailbox == LOG \notin Mbs /\ Mbs \subseteq Nat
BY SizesAssumption DEF LOG, Mbs

\* A slot number plus one, wrapped, is a slot number.
LEMMA WrapType ==
  ASSUME NEW i \in 0 .. LogSz - 1
  PROVE  Wrap(i + 1) \in 0 .. LogSz - 1
BY SizesAssumption DEF Wrap

LEMMA TargetsType == Targets \subseteq Mbs
BY DEF Targets, LowestOf

LEMMA InitInv == Init => RxInv
<1> SUFFICES ASSUME Init PROVE RxInv
  OBVIOUS
<1>1. TypeOK
  <2>1. mbox \in [Mbs -> Frames \cup {NoFrame}]
    BY DEF Init
  <2>2. rx_log \in [0 .. LogSz - 1 -> Frames \cup {NoFrame}]
    BY DEF Init
  <2>3. 0 \in 0 .. LogSz - 1 /\ arrived \in 0 .. MaxFrames
    BY SizesAssumption DEF Init
  <2> QED BY <2>1, <2>2, <2>3 DEF Init, TypeOK
<1>2. UnreadHold /\ Reported /\ BatchServed /\ NoFrameForgotten
  BY DEF Init, UnreadHold, Reported, BatchServed, NoFrameForgotten
<1> QED BY <1>1, <1>2 DEF RxInv

\* The log screen neither touches the mailboxes nor the events of mailboxes.
LEMMA ScreenKeeps ==
  ASSUME RxInv, View_open \/ View_timeout \/ LogScreen
  PROVE  RxInv'
<1>1. UNCHANGED <<hardware, iflag, reg, rxVars, rx_log, rx_log_head, handled>>
  BY DEF View_open, View_timeout, LogScreen, View_wait, View_clear, View_pop,
         View_advance, View_key, ring, hardware, rxVars
<1>2. events' = events \/ events' = events \ {LOG}
  BY DEF View_open, View_timeout, LogScreen, View_wait, View_clear, View_pop,
         View_advance, View_key
<1>3. rx_log_tail' \in 0 .. LogSz - 1
  BY WrapType DEF RxInv, TypeOK, View_open, View_timeout, LogScreen, View_wait,
     View_clear, View_pop, View_advance, View_key, ring
<1>4. view' \in {"off", "wait", "blocked", "clear", "pop", "advance", "key"}
  BY DEF View_open, View_timeout, LogScreen, View_wait,
     View_clear, View_pop, View_advance, View_key
<1>5. rec' \in Frames \cup {NoFrame}
  BY DEF RxInv, TypeOK, View_open, View_timeout, LogScreen, View_wait,
     View_clear, View_pop, View_advance, View_key
<1>6. seen' \in Seq(Frames \cup {NoFrame})
  <2>1. seen' = seen \/ seen' = Append(seen, rec)
    BY DEF View_open, View_timeout, LogScreen, View_wait,
       View_clear, View_pop, View_advance, View_key
  <2> QED BY <2>1 DEF RxInv, TypeOK
<1>7. TypeOK'
  BY <1>1, <1>2, <1>3, <1>4, <1>5, <1>6
     DEF RxInv, TypeOK, hardware, rxVars
<1>8. UnreadHold' /\ Reported' /\ BatchServed'
  BY <1>1, <1>2, LogIsNoMailbox DEF RxInv, UnreadHold, hardware, TypeOK, Reported, BatchServed, rxVars
<1>9. NoFrameForgotten'
  BY <1>1, <1>2, LogIsNoMailbox
     DEF RxInv, TypeOK, NoFrameForgotten, hardware, rxVars
<1> QED BY <1>7, <1>8, <1>9 DEF RxInv

LEMMA StepInv == RxInv /\ [Next]_vars => RxInv'
<1> SUFFICES ASSUME RxInv, [Next]_vars PROVE RxInv'
  OBVIOUS
<1> USE DEF RxInv
<1>1. CASE UNCHANGED vars
  BY <1>1 DEF TypeOK, UnreadHold, Reported, BatchServed, NoFrameForgotten, vars, hardware,
     rxVars, ring, viewVars
<1>2. CASE Receive
  <2>1. PICK m \in Mbs :
          /\ lost' = IF m \in unread THEN lost \cup {mbox[m]} ELSE lost
          /\ mbox' = [mbox EXCEPT ![m] = arrived + 1]
          /\ unread' = unread \cup {m}
          /\ iflag' = iflag \cup {m}
    BY <1>2, TargetsType DEF Receive
  <2>2. /\ arrived < MaxFrames /\ arrived' = arrived + 1
        /\ UNCHANGED <<reg, events, rxVars, ring, viewVars, handled>>
    BY <1>2 DEF Receive
  <2>3. arrived' \in Frames /\ arrived' \in 0 .. MaxFrames
    BY <2>2, SizesAssumption DEF TypeOK, Frames
  <2>4. mbox' \in [Mbs -> Frames \cup {NoFrame}]
    BY <2>1, <2>2, <2>3 DEF TypeOK
  <2>5. TypeOK'
    <3>1. lost' \subseteq Frames
      BY <2>1 DEF UnreadHold, TypeOK
    <3> QED BY <2>1, <2>2, <2>3, <2>4, <3>1 DEF TypeOK, rxVars, ring, viewVars
  <2>6. UnreadHold' /\ Reported' /\ BatchServed'
    BY <2>1, <2>2, <2>3 DEF UnreadHold, TypeOK, Reported, BatchServed, rxVars
  <2>7. NoFrameForgotten'
    BY <2>1, <2>2 DEF NoFrameForgotten, rxVars
  <2> QED BY <2>5, <2>6, <2>7
<1>3. CASE CAN_isr_set
  <2>1. /\ reg = {} /\ iflag # {} /\ reg' = iflag
        /\ events' = events \cup iflag
        /\ UNCHANGED <<hardware, iflag, frame, ring, viewVars, handled>>
    BY <1>3 DEF CAN_isr_set
  <2>2. \/ rx = "blocked" /\ rx' = "clear" /\ batch' = events' \cap Mbs
        \/ rx # "blocked" /\ rx' = rx /\ batch' = batch
    BY <1>3 DEF CAN_isr_set, Signalled
  <2>3. TypeOK'
    BY <2>1, <2>2 DEF TypeOK, hardware, ring, viewVars
  <2>4. UnreadHold' /\ Reported' /\ BatchServed'
    BY <2>1, <2>2 DEF UnreadHold, hardware, Reported, BatchServed
  <2>5. NoFrameForgotten'
    BY <2>1, <2>2 DEF NoFrameForgotten, BatchServed, hardware
  <2> QED BY <2>3, <2>4, <2>5
<1>4. CASE CAN_isr_reset
  <2>1. /\ iflag' = iflag \ reg /\ reg' = {}
        /\ UNCHANGED <<hardware, events, rxVars, ring, viewVars, handled>>
    BY <1>4 DEF CAN_isr_reset
  <2>2. TypeOK'
    BY <2>1 DEF TypeOK, hardware, rxVars, ring, viewVars
  <2>3. UnreadHold' /\ Reported' /\ BatchServed' /\ NoFrameForgotten'
    BY <2>1 DEF UnreadHold, Reported, BatchServed, NoFrameForgotten, hardware, rxVars
  <2> QED BY <2>2, <2>3
<1>5. CASE Rx_wait
  <2>1. /\ reg = {} /\ rx = "wait"
        /\ UNCHANGED <<hardware, iflag, reg, events, frame, ring, viewVars,
                       handled>>
    BY <1>5 DEF Rx_wait
  <2>2. \/ events \cap Mbs # {} /\ rx' = "clear" /\ batch' = events \cap Mbs
        \/ rx' = "blocked" /\ batch' = batch
    BY <1>5 DEF Rx_wait, Signalled
  <2>3. TypeOK'
    BY <2>1, <2>2 DEF TypeOK, hardware, ring, viewVars
  <2>4. UnreadHold' /\ Reported' /\ BatchServed' /\ NoFrameForgotten'
    BY <2>1, <2>2 DEF UnreadHold, Reported, BatchServed, NoFrameForgotten, hardware
  <2> QED BY <2>3, <2>4
<1>6. CASE Rx_clear
  <2>1. /\ reg = {} /\ rx = "clear" /\ events' = events \ batch /\ rx' = "read"
        /\ UNCHANGED <<hardware, iflag, reg, batch, frame, ring, viewVars,
                       handled>>
    BY <1>6 DEF Rx_clear, ToClear
  <2>2. TypeOK'
    BY <2>1 DEF TypeOK, hardware, ring, viewVars
  <2>3. UnreadHold' /\ Reported' /\ BatchServed' /\ NoFrameForgotten'
    BY <2>1 DEF UnreadHold, Reported, BatchServed, NoFrameForgotten, hardware
  <2> QED BY <2>2, <2>3
<1>7. CASE Rx_read
  <2>1. PICK n \in batch : /\ frame' = mbox[n]
                           /\ unread' = unread \ {n}
                           /\ batch' = batch \ {n}
    BY <1>7 DEF Rx_read, LowestOf
  <2>2. /\ reg = {} /\ rx' = "push"
        /\ UNCHANGED <<mbox, arrived, lost, iflag, reg, events, ring, viewVars,
                       handled>>
    BY <1>7 DEF Rx_read
  <2>3. frame' \in Frames \cup {NoFrame}
    BY <2>1 DEF TypeOK
  <2>4. TypeOK'
    BY <2>1, <2>2, <2>3 DEF TypeOK, ring, viewVars
  <2>5. UnreadHold' /\ Reported' /\ BatchServed' /\ NoFrameForgotten'
    BY <2>1, <2>2 DEF UnreadHold, Reported, BatchServed, NoFrameForgotten
  <2> QED BY <2>4, <2>5
<1>8. CASE Rx_push
  <2>1. /\ rx = "push" /\ rx' = IF batch = {} THEN "wait" ELSE "read"
        /\ events' = events \cup {LOG}
        /\ handled' = Append(handled, frame)
        /\ view' = IF view = "blocked" THEN "clear" ELSE view
        /\ UNCHANGED <<hardware, iflag, reg, batch, frame, rec, seen>>
    BY <1>8 DEF Rx_push
  <2>2. handled' \in Seq(Frames \cup {NoFrame})
    BY <2>1 DEF TypeOK
  <2>3. rx_log' \in [0 .. LogSz - 1 -> Frames \cup {NoFrame}]
    BY <1>8 DEF Rx_push, TypeOK
  <2>4. rx_log_head' \in 0 .. LogSz - 1 /\ rx_log_tail' \in 0 .. LogSz - 1
    BY <1>8, WrapType DEF Rx_push, NextTail, TypeOK
  <2>5. /\ rx' \in {"wait", "blocked", "clear", "read", "push"}
        /\ batch' \subseteq Mbs /\ (rx' \in {"clear", "read"} => batch' # {})
    BY <2>1 DEF TypeOK
  <2>6. view' \in {"off", "wait", "blocked", "clear", "pop", "advance", "key"}
    BY <2>1 DEF TypeOK
  <2>7. TypeOK'
    BY <2>1, <2>2, <2>3, <2>4, <2>5, <2>6 DEF TypeOK, hardware
  <2>8. UnreadHold' /\ Reported' /\ BatchServed' /\ NoFrameForgotten'
    BY <2>1 DEF UnreadHold, Reported, BatchServed, NoFrameForgotten, hardware
  <2> QED BY <2>7, <2>8
<1>9. CASE View_open \/ View_timeout \/ LogScreen
  BY <1>9, ScreenKeeps
<1> QED BY <1>1, <1>2, <1>3, <1>4, <1>5, <1>6, <1>7, <1>8, <1>9
        DEF Next, CAN_Rx_Task

\* The variables of the reception keep their types.
THEOREM ReceptionTyped == Spec => []TypeOK
<1>1. RxInv => TypeOK
  BY DEF RxInv
<1> QED BY InitInv, StepInv, <1>1, PTL DEF Spec

\* A frame that waits in a mailbox always has a flag, an event or a place in
\* the batch that will make CAN_Rx_Task read it.
THEOREM FramesRemembered == Spec => []NoFrameForgotten
<1>1. RxInv => NoFrameForgotten
  BY DEF RxInv
<1> QED BY InitInv, StepInv, <1>1, PTL DEF Spec

-----------------------------------------------------------------------------
(***************************************************************************)
(* The ring log of CAN_Rx_Task and the log screen implements LogQueue, for *)
(* every size of the ring.                                                 *)
(*                                                                         *)
(* PushRecords and PopRecords are the two facts about the ring: one push   *)
(* is an Append that drops the head of a full queue, one pop is a Tail.    *)
(* LogInv is what the program adds to them: the frame to be pushed came    *)
(* from a mailbox that holds one, and while the log screen has copied the  *)
(* oldest record and not moved the tail, the semaphore keeps it in place.  *)
(***************************************************************************)
Entry == Frames \cup {NoFrame}

Index == 0 .. LogSz - 1

\* The contents of the ring are a sequence, one short of the ring at most.
IsSequence(S, slots, h, t) ==
  /\ Length(h, t) \in 0 .. LogSz - 1
  /\ Records(slots, h, t) \in Seq(S)
  /\ Len(Records(slots, h, t)) = Length(h, t)
  /\ \A i \in 1 .. Length(h, t) :
       /\ Slot(t + i - 1) \in Index
       /\ Records(slots, h, t)[i] = slots[Slot(t + i - 1)]

LEMMA RecordsType ==
  ASSUME NEW S, NEW slots \in [Index -> S], NEW h \in Index, NEW t \in Index
  PROVE  IsSequence(S, slots, h, t)
<1>1. Length(h, t) \in 0 .. LogSz - 1
  BY SizesAssumption DEF Length, Index
<1>2. \A i \in 1 .. Length(h, t) : Slot(t + i - 1) \in Index
  BY <1>1, SizesAssumption DEF Slot, Index
<1> DEFINE n == Length(h, t)
           s == [i \in 1 .. n |-> slots[Slot(t + i - 1)]]
<1>3. n \in Nat
  BY <1>1, SizesAssumption
<1>4. s \in [1 .. n -> S]
  BY <1>2
<1> HIDE DEF n
<1>5. s \in Seq(S)
  BY <1>3, <1>4, SeqDef
<1>6. Len(s) = n
  BY <1>3, <1>5, LenProperties
<1> QED BY <1>1, <1>2, <1>5, <1>6 DEF Records, n, IsSequence

\* The contents after CAN_push_log_rec, and a push on the queue.
AfterPush(slots, h, t, e) ==
  LET h2 == Wrap(h + 1)
      t2 == IF h2 = t THEN Wrap(t + 1) ELSE t
  IN  Records([slots EXCEPT ![h] = e], h2, t2)

Pushed(q, e) == Append(IF Len(q) < LogSz - 1 THEN q ELSE Tail(q), e)

\* CAN_push_log_rec on the ring is a push on the queue.
LEMMA PushRecords ==
  ASSUME NEW S, NEW slots \in [Index -> S], NEW h \in Index, NEW t \in Index,
         NEW e \in S
  PROVE  AfterPush(slots, h, t, e) = Pushed(Records(slots, h, t), e)
<1> DEFINE h2 == Wrap(h + 1)
           t2 == IF h2 = t THEN Wrap(t + 1) ELSE t
           q  == Records(slots, h, t)
           new == [slots EXCEPT ![h] = e]
           q2 == Records(new, h2, t2)
           old == IF Len(q) < LogSz - 1 THEN q ELSE Tail(q)
           n == Length(h, t)
           n2 == Length(h2, t2)
<1>1. h2 \in Index /\ t2 \in Index
  BY SizesAssumption DEF Wrap, Index
<1>2. /\ n \in 0 .. LogSz - 1 /\ q \in Seq(S) /\ Len(q) = n
      /\ \A i \in 1 .. n : Slot(t + i - 1) \in Index /\ q[i] = slots[Slot(t + i - 1)]
  <2>1. IsSequence(S, slots, h, t)
    BY RecordsType
  <2> QED BY <2>1 DEF IsSequence
<1>3. new \in [Index -> S] /\ new[h] = e
      /\ \A j \in Index : j # h => new[j] = slots[j]
  OBVIOUS
<1> HIDE DEF new
<1>4. /\ q2 \in Seq(S) /\ Len(q2) = n2 /\ n2 \in Nat
      /\ \A i \in 1 .. n2 : Slot(t2 + i - 1) \in Index
                            /\ q2[i] = new[Slot(t2 + i - 1)]
  <2> HIDE DEF h2, t2
  <2>1. IsSequence(S, new, h2, t2)
    BY <1>1, <1>3, RecordsType
  <2> QED BY <2>1, SizesAssumption DEF IsSequence
<1> SUFFICES q2 = Append(old, e)
  BY DEF new, AfterPush, Pushed
<1>5. CASE n < LogSz - 1
  <2>1. t2 = t /\ n2 = n + 1
    BY <1>5, SizesAssumption DEF Wrap, Length, Index
  <2>2. \A i \in 1 .. n : Slot(t + i - 1) # h
    BY <1>5, SizesAssumption DEF Slot, Length, Index
  <2>3. Slot(t + n) = h
    BY <1>5, SizesAssumption DEF Slot, Length, Index
  <2> HIDE DEF h2, t2, n, n2, q2, q
  <2>4. old = q /\ Append(q, e) \in Seq(S) /\ Len(Append(q, e)) = n + 1
    BY <1>2, <1>5
  <2>5. ASSUME NEW i \in 1 .. n PROVE q2[i] = Append(q, e)[i]
    BY <1>2, <1>3, <1>4, <2>1, <2>2
  <2>6. q2[n + 1] = Append(q, e)[n + 1]
    BY <1>2, <1>3, <1>4, <2>1, <2>3
  <2>7. \A i \in 1 .. n + 1 : q2[i] = Append(q, e)[i]
    BY <1>2, <2>5, <2>6
  <2> QED BY <1>2, <1>4, <2>1, <2>4, <2>7, SeqEqual
<1>6. CASE n = LogSz - 1
  <2>1. t2 = Wrap(t + 1) /\ n2 = n
    BY <1>6, SizesAssumption DEF Wrap, Length, Index
  <2>2. \A i \in 1 .. n - 1 : /\ Slot(t2 + i - 1) = Slot(t + i)
                              /\ Slot(t + i) # h
    BY <1>6, SizesAssumption DEF Slot, Length, Index, Wrap
  <2>3. Slot(t2 + n - 1) = h
    BY <1>6, SizesAssumption DEF Slot, Length, Index, Wrap
  <2>4. n \in Nat /\ n >= 1
    BY <1>6, SizesAssumption
  <2> HIDE DEF h2, t2, n, n2, q2, q
  <2>5. q # <<>>
    BY <1>2, <2>4
  <2>6. /\ Tail(q) \in Seq(S) /\ Len(Tail(q)) = n - 1
        /\ \A i \in 1 .. n - 1 : Tail(q)[i] = q[i + 1]
    BY <1>2, <2>5, HeadTailProperties
  <2>7. old = Tail(q) /\ Append(Tail(q), e) \in Seq(S)
        /\ Len(Append(Tail(q), e)) = n
    BY <1>2, <1>6, <2>4, <2>6
  <2>8. ASSUME NEW i \in 1 .. n - 1 PROVE q2[i] = Append(Tail(q), e)[i]
    <3>1. q2[i] = slots[Slot(t + i)]
      BY <1>3, <1>4, <2>1, <2>2, <2>4
    <3>2. q[i + 1] = slots[Slot(t + (i + 1) - 1)] /\ t + (i + 1) - 1 = t + i
      BY <1>2, <2>4 DEF Index
    <3> QED BY <2>4, <2>6, <3>1, <3>2
  <2>9. q2[n] = Append(Tail(q), e)[n]
    BY <1>3, <1>4, <2>1, <2>3, <2>4, <2>6
  <2>10. \A i \in 1 .. n : q2[i] = Append(Tail(q), e)[i]
    <3> HIDE DEF old
    <3> SUFFICES ASSUME NEW i \in 1 .. n PROVE q2[i] = Append(Tail(q), e)[i]
      OBVIOUS
    <3>1. i \in 1 .. n - 1 \/ i = n
      BY <2>4
    <3> QED BY <2>8, <2>9, <3>1, Zenon
  <2> QED BY <1>4, <2>1, <2>7, <2>10, SeqEqual
<1> QED BY <1>2, <1>5, <1>6, SizesAssumption

\* Moving the tail of a ring that is not empty is a pop.
LEMMA PopRecords ==
  ASSUME NEW S, NEW slots \in [Index -> S], NEW h \in Index, NEW t \in Index,
         h # t
  PROVE  LET q == Records(slots, h, t)
         IN  /\ q # <<>> /\ Head(q) = slots[t]
             /\ Records(slots, h, Wrap(t + 1)) = Tail(q)
<1> DEFINE q == Records(slots, h, t)
           t2 == Wrap(t + 1)
           q2 == Records(slots, h, t2)
           n == Length(h, t)
           n2 == Length(h, t2)
<1>1. t2 \in Index
  BY SizesAssumption DEF Wrap, Index
<1>2. /\ q \in Seq(S) /\ Len(q) = n
      /\ \A i \in 1 .. n : q[i] = slots[Slot(t + i - 1)]
  <2>1. IsSequence(S, slots, h, t)
    BY RecordsType
  <2> QED BY <2>1 DEF IsSequence
<1>3. /\ q2 \in Seq(S) /\ Len(q2) = n2
      /\ \A i \in 1 .. n2 : q2[i] = slots[Slot(t2 + i - 1)]
  <2> HIDE DEF t2
  <2>1. IsSequence(S, slots, h, t2)
    BY <1>1, RecordsType
  <2> QED BY <2>1 DEF IsSequence
<1>4. n \in Nat /\ n >= 1 /\ n2 = n - 1 /\ Slot(t) = t
  BY SizesAssumption DEF Length, Index, Wrap, Slot
<1>5. \A i \in 1 .. n - 1 : Slot(t2 + i - 1) = Slot(t + i)
  BY SizesAssumption DEF Length, Index, Wrap, Slot
<1> HIDE DEF q, q2, n, n2, t2
<1>6. q # <<>>
  BY <1>2, <1>4
<1>7. /\ Tail(q) \in Seq(S) /\ Len(Tail(q)) = n - 1
      /\ \A i \in 1 .. n - 1 : Tail(q)[i] = q[i + 1]
  BY <1>2, <1>6, HeadTailProperties
<1>8. \A i \in 1 .. n - 1 : q2[i] = Tail(q)[i]
  <2> SUFFICES ASSUME NEW i \in 1 .. n - 1 PROVE q2[i] = Tail(q)[i]
    OBVIOUS
  <2>1. q[i + 1] = slots[Slot(t + (i + 1) - 1)] /\ t + (i + 1) - 1 = t + i
    BY <1>2, <1>4 DEF Index
  <2> QED BY <1>3, <1>4, <1>5, <1>7, <2>1
<1>9. q2 = Tail(q)
  BY <1>3, <1>4, <1>7, <1>8, SeqEqual
<1>10. Head(q) = slots[t]
  <2>1. q[1] = slots[Slot(t + 1 - 1)] /\ t + 1 - 1 = t
    BY <1>2, <1>4 DEF Index
  <2> QED BY <1>2, <1>4, <2>1
<1> QED BY <1>6, <1>9, <1>10 DEF q, q2, t2

Filled ==
  \A m \in iflag \cup reg \cup (events \cap Mbs) \cup batch : mbox[m] \in Frames

PushesFrame == rx = "push" => frame \in Frames

CopiedOldest ==
  view = "advance" => rx_log_head # rx_log_tail /\ rec = rx_log[rx_log_tail]

LogInv == Filled /\ PushesFrame /\ CopiedOldest

LEMMA InitLog == Init => LogInv
BY DEF Init, LogInv, Filled, PushesFrame, CopiedOldest

LEMMA StepLog == RxInv /\ LogInv /\ [Next]_vars => LogInv'
<1> SUFFICES ASSUME RxInv, LogInv, [Next]_vars PROVE LogInv'
  OBVIOUS
<1> USE DEF RxInv, LogInv
<1>1. CASE UNCHANGED vars
  BY <1>1 DEF Filled, PushesFrame, CopiedOldest, vars, hardware, rxVars, ring,
     viewVars
<1>2. CASE Receive
  <2>1. PICK m \in Mbs : /\ mbox' = [mbox EXCEPT ![m] = arrived + 1]
                         /\ iflag' = iflag \cup {m}
    BY <1>2, TargetsType DEF Receive
  <2>2. /\ arrived < MaxFrames
        /\ UNCHANGED <<reg, events, rxVars, ring, viewVars, handled>>
    BY <1>2 DEF Receive
  <2>3. arrived + 1 \in Frames
    BY <2>2, SizesAssumption DEF TypeOK, Frames
  <2>4. Filled'
    BY <2>1, <2>2, <2>3 DEF Filled, TypeOK, rxVars
  <2>5. PushesFrame' /\ CopiedOldest'
    BY <2>2 DEF PushesFrame, CopiedOldest, rxVars, ring, viewVars
  <2> QED BY <2>4, <2>5
<1>3. CASE CAN_isr_set
  <2>1. /\ reg' = iflag /\ events' = events \cup iflag
        /\ UNCHANGED <<hardware, iflag, frame, ring, viewVars, handled>>
        /\ \/ rx' = "clear" /\ batch' = events' \cap Mbs
           \/ rx' = rx /\ batch' = batch
    BY <1>3 DEF CAN_isr_set, Signalled
  <2>2. Filled'
    BY <2>1 DEF Filled, TypeOK, hardware
  <2>3. PushesFrame' /\ CopiedOldest'
    BY <2>1 DEF PushesFrame, CopiedOldest, ring, viewVars
  <2> QED BY <2>2, <2>3
<1>4. CASE CAN_isr_reset
  BY <1>4 DEF CAN_isr_reset, Filled, PushesFrame, CopiedOldest, hardware, rxVars,
     ring, viewVars
<1>5. CASE Rx_wait
  BY <1>5 DEF Rx_wait, Signalled, Filled, PushesFrame, CopiedOldest, hardware,
     ring, viewVars
<1>6. CASE Rx_clear
  BY <1>6 DEF Rx_clear, ToClear, Filled, PushesFrame, CopiedOldest, hardware,
     ring, viewVars
<1>7. CASE Rx_read
  <2>1. PICK n \in batch : frame' = mbox[n] /\ batch' = batch \ {n}
    BY <1>7 DEF Rx_read, LowestOf
  <2>2. UNCHANGED <<mbox, arrived, lost, iflag, reg, events, ring, viewVars,
                    handled>>
    BY <1>7 DEF Rx_read
  <2>3. Filled' /\ PushesFrame'
    BY <2>1, <2>2 DEF Filled, PushesFrame
  <2>4. CopiedOldest'
    BY <2>2 DEF CopiedOldest, ring, viewVars
  <2> QED BY <2>3, <2>4
<1>8. CASE Rx_push
  <2>1. Filled'
    BY <1>8, LogIsNoMailbox DEF Rx_push, Filled, hardware
  <2>2. PushesFrame'
    BY <1>8 DEF Rx_push, PushesFrame
  <2>3. view' # "advance"
    BY <1>8 DEF Rx_push, SemFree
  <2> QED BY <2>1, <2>2, <2>3 DEF CopiedOldest
<1>9. CASE View_open \/ View_timeout \/ LogScreen
  <2>1. /\ UNCHANGED <<hardware, iflag, reg, rxVars, rx_log, rx_log_head>>
        /\ events' = events \/ events' = events \ {LOG}
    BY <1>9 DEF View_open, View_timeout, LogScreen, View_wait, View_clear,
       View_pop, View_advance, View_key, ring, hardware, rxVars
  <2>2. Filled' /\ PushesFrame'
    BY <2>1 DEF Filled, PushesFrame, hardware, rxVars
  <2>3. CopiedOldest'
    BY <1>9 DEF CopiedOldest, View_open, View_timeout, LogScreen, View_wait,
       View_clear, View_pop, View_advance, View_key, ring
  <2> QED BY <2>2, <2>3
<1> QED BY <1>1, <1>2, <1>3, <1>4, <1>5, <1>6, <1>7, <1>8, <1>9
        DEF Next, CAN_Rx_Task

\* An empty ring is the empty queue.
LEMMA InitQueue == Init => Queue!Init
<1> SUFFICES ASSUME Init PROVE LogContents = <<>>
  BY DEF Init, Queue!Init
<1>1. rx_log \in [Index -> Entry] /\ 0 \in Index
  BY SizesAssumption DEF Init, Index, Entry
<1>2. IsSequence(Entry, rx_log, 0, 0)
  BY <1>1, RecordsType
<1>3. LogContents = Records(rx_log, 0, 0)
  BY DEF LogContents, Init
<1>4. Length(0, 0) = 0
  BY DEF Length
<1> QED BY <1>2, <1>3, <1>4, EmptySeq DEF IsSequence

\* Every step pushes, pops or leaves the queue alone.
LEMMA StepQueue ==
  ASSUME RxInv, LogInv, [Next]_vars
  PROVE  [Queue!Next]_(Queue!vars)
<1>1. /\ rx_log \in [Index -> Entry]
      /\ rx_log_head \in Index /\ rx_log_tail \in Index
  BY DEF RxInv, TypeOK, Index, Entry
<1>2. CASE Rx_push
  <2>1. /\ frame \in Frames /\ frame \in Entry
        /\ rx_log' = [rx_log EXCEPT ![rx_log_head] = frame]
        /\ rx_log_head' = Wrap(rx_log_head + 1)
        /\ rx_log_tail' = IF rx_log_head' = rx_log_tail
                            THEN Wrap(rx_log_tail + 1) ELSE rx_log_tail
        /\ seen' = seen
    BY <1>2 DEF Rx_push, NextTail, LogInv, PushesFrame, Entry
  <2>2. LogContents' = Append(IF Len(LogContents) < LogSz - 1
                                THEN LogContents ELSE Tail(LogContents), frame)
    <3>1. AfterPush(rx_log, rx_log_head, rx_log_tail, frame)
            = Pushed(LogContents, frame)
      BY <1>1, <2>1, PushRecords DEF LogContents
    <3>2. LogContents' = AfterPush(rx_log, rx_log_head, rx_log_tail, frame)
      BY <2>1 DEF LogContents, AfterPush
    <3> QED BY <3>1, <3>2 DEF Pushed
  <2> QED BY <2>1, <2>2 DEF Queue!Next, Queue!Push
<1>3. CASE View_advance
  <2>1. /\ rx_log_head # rx_log_tail /\ rec = rx_log[rx_log_tail]
        /\ rx_log' = rx_log /\ rx_log_head' = rx_log_head
        /\ rx_log_tail' = Wrap(rx_log_tail + 1)
        /\ seen' = Append(seen, rec)
    BY <1>3 DEF View_advance, LogInv, CopiedOldest
  <2>2. /\ LogContents # <<>> /\ Head(LogContents) = rec
        /\ LogContents' = Tail(LogContents)
    BY <1>1, <2>1, PopRecords DEF LogContents
  <2> QED BY <2>1, <2>2 DEF Queue!Next, Queue!Pop
<1>4. CASE ~Rx_push /\ ~View_advance
  <2>1. UNCHANGED <<rx_log, rx_log_head, rx_log_tail, seen>>
    BY <1>4 DEF Next, vars, ring, viewVars, Receive, CAN_isr_set, CAN_isr_reset,
       CAN_Rx_Task, Rx_wait, Rx_clear, Rx_read, View_open, View_timeout,
       LogScreen, View_wait, View_clear, View_pop, View_key
  <2> QED BY <2>1 DEF LogContents, Queue!vars
<1> QED BY <1>2, <1>3, <1>4

\* The ring log implements LogQueue: no record is shown twice, skipped or
\* reordered, and only the oldest of a full log is dropped.
THEOREM LogImplemented == Spec => ImplementsLogQueue
<1>1. Init => RxInv /\ LogInv
  BY InitInv, InitLog
<1>2. RxInv /\ LogInv /\ [Next]_vars => (RxInv /\ LogInv)'
  BY StepInv, StepLog
<1>3. RxInv /\ LogInv /\ [Next]_vars => [Queue!Next]_(Queue!vars)
  BY StepQueue
<1> QED BY <1>1, <1>2, <1>3, InitQueue, PTL DEF Spec, ImplementsLogQueue, Queue!Spec

=============================================================================
