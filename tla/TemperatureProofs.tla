------------------------- MODULE TemperatureProofs -------------------------
(***************************************************************************)
(* Theorems about IgbtTemperature: types, and that a reading that succeeds *)
(* is two bytes of the sensor in order, whatever the other task did        *)
(* meanwhile, and the temperature when nothing disturbed it.               *)
(***************************************************************************)
EXTENDS IgbtTemperature, TLAPS

-----------------------------------------------------------------------------
(* Types: of what the tasks share, and of what each has for itself *)

Calls == {"idle", "hello", "pointer", "request", "read", "done", "failed"}
Phases == {"enter", "start", "again", "address", "poll", "act", "returned"}
Bytes == 0..2

DriverTypes ==
  /\ state \in {"READY", "REPEATED_START", "TRANSMIT", "RECEIVE", "FINISHED"}
  /\ OPERATION \subseteq {"READ", "STARTED"} /\ RX_REQUEST \in Bytes

RegisterTypes ==
  /\ mst \in BOOLEAN /\ tx \in BOOLEAN /\ txak \in BOOLEAN
  /\ iicif \in BOOLEAN /\ rxak \in BOOLEAN

BusTypes ==
  /\ xfer \in {"none", "address W", "address R", "address as data", "zero", "in"}
  /\ register \in {"temperature", "other"} /\ lost \in BOOLEAN
  /\ sensor \in {"off", "selecting", "written", "sending"}
  /\ sent \in Bytes /\ d \in Bytes

SharedTypes == DriverTypes /\ RegisterTypes /\ BusTypes

LocalTypes ==
  /\ at \in [Task -> Calls] /\ phase \in [Task -> Phases]
  /\ i \in [Task -> Bytes] /\ length \in [Task -> Bytes]
  /\ i2csr \in [Task -> BOOLEAN] /\ buf \in [Task -> Seq(Bytes)]
  /\ \A t \in Task : Len(buf[t]) <= 2

LEMMA TypeParts ==
  TypeOK <=> /\ SharedTypes /\ LocalTypes
             /\ temp \in {"cold", "mild", "hot"} /\ fan \in BOOLEAN /\ mixed \in BOOLEAN
BY DEF TypeOK, I2cTypeOK, SharedTypes, DriverTypes, RegisterTypes, BusTypes,
       LocalTypes, Calls, Phases, Bytes

\* No byte more than the call has counted is in the buffer.
Counted ==
  \A t \in Task : phase[t] \notin {"enter", "returned"} => Len(buf[t]) <= i[t]

Typed == SharedTypes /\ LocalTypes /\ Counted

LEMMA Appended ==
  ASSUME NEW s \in Seq(Bytes), NEW e \in Bytes
  PROVE  Append(s, e) \in Seq(Bytes) /\ Len(Append(s, e)) = Len(s) + 1
OBVIOUS

LEMMA NothingReceived == << >> \in Seq(Bytes) /\ Len(<< >>) = 0
OBVIOUS

LEMMA InitTyped == Init => Typed
<1> SUFFICES ASSUME Init PROVE Typed
  OBVIOUS
<1>1. SharedTypes
  <2>1. 0 \in Bytes
    BY DEF Bytes
  <2>2. DriverTypes
    BY <2>1 DEF Init, I2cInit, DriverTypes
  <2>3. RegisterTypes
    BY DEF Init, I2cInit, RegisterTypes
  <2>4. BusTypes
    BY <2>1 DEF Init, I2cInit, BusTypes
  <2> QED BY <2>2, <2>3, <2>4 DEF SharedTypes
<1>2. /\ at \in [Task -> Calls] /\ phase \in [Task -> Phases]
      /\ i \in [Task -> Bytes] /\ length \in [Task -> Bytes]
      /\ i2csr \in [Task -> BOOLEAN]
  BY DEF Init, I2cInit, Calls, Phases, Bytes
<1>3. buf \in [Task -> Seq(Bytes)] /\ \A t \in Task : Len(buf[t]) <= 2
  BY NothingReceived DEF Init, I2cInit
<1>4. Counted
  BY DEF Init, I2cInit, Counted
<1> QED BY <1>1, <1>2, <1>3, <1>4 DEF Typed, LocalTypes

LEMMA DriverFrame == ASSUME DriverTypes, UNCHANGED driver PROVE DriverTypes'
BY DEF DriverTypes, driver

LEMMA RegisterFrame == ASSUME RegisterTypes, UNCHANGED registers PROVE RegisterTypes'
BY DEF RegisterTypes, registers

LEMMA BusFrame == ASSUME BusTypes, UNCHANGED bus PROVE BusTypes'
BY DEF BusTypes, bus

\* A task that goes from one step of a call to the next.
LEMMA StepTyped ==
  ASSUME Typed, NEW t \in Task, NEW p \in Phases, Step(t, p)
  PROVE  /\ at' \in [Task -> Calls] /\ phase' \in [Task -> Phases]
         /\ phase'[t] = p /\ \A u \in Task \ {t} : phase'[u] = phase[u]
BY DEF Typed, LocalTypes, Step

LEMMA CallTyped ==
  ASSUME Typed, NEW t \in Task, NEW c \in Calls, Call(t, c), UNCHANGED locals
  PROVE  LocalTypes' /\ Counted'
<1>1. "enter" \in Phases
  BY DEF Phases
<1> QED BY <1>1 DEF Typed, LocalTypes, Counted, Call, locals

LEMMA LoopTyped ==
  ASSUME Typed, NEW t \in Task, NEW n \in 0..3, NEW m \in Bytes, Loop(t, n, m)
  PROVE  /\ at' \in [Task -> Calls] /\ phase' \in [Task -> Phases]
         /\ i' \in [Task -> Bytes] /\ length' \in [Task -> Bytes]
         /\ \A u \in Task \ {t} : phase'[u] = phase[u] /\ i'[u] = i[u]
         /\ phase'[t] # "returned" => i'[t] = n
<1>1. 0 \in Bytes /\ (n <= m => n \in Bytes) /\ "returned" \in Phases /\ "poll" \in Phases
  BY DEF Bytes, Phases
<1>2. CASE n <= m
  <2>1. Step(t, "poll") /\ i' = [i EXCEPT ![t] = n] /\ length' = [length EXCEPT ![t] = m]
    BY <1>2 DEF Loop
  <2>2. n \in Bytes
    BY <1>1, <1>2
  <2> HIDE DEF Bytes
  <2> QED BY <1>1, <2>1, <2>2, StepTyped DEF Typed, LocalTypes
<1>3. CASE ~(n <= m)
  <2>1. /\ Step(t, "returned") /\ i' = [i EXCEPT ![t] = m]
        /\ length' = [length EXCEPT ![t] = 0]
    BY <1>3 DEF Loop, End
  <2> QED BY <1>1, <2>1, StepTyped DEF Typed, LocalTypes
<1> QED BY <1>2, <1>3

\* The index only goes up, so that nothing is counted twice.
LEMMA LoopCounted ==
  ASSUME Typed, NEW t \in Task, NEW n \in 0..3, NEW m \in Bytes, Loop(t, n, m),
         buf' \in [Task -> Seq(Bytes)], \A u \in Task \ {t} : buf'[u] = buf[u],
         Len(buf'[t]) <= n, Len(buf'[t]) <= 2, i2csr' \in [Task -> BOOLEAN]
  PROVE  LocalTypes' /\ Counted'
<1>1. /\ at' \in [Task -> Calls] /\ phase' \in [Task -> Phases]
      /\ i' \in [Task -> Bytes] /\ length' \in [Task -> Bytes]
      /\ \A u \in Task \ {t} : phase'[u] = phase[u] /\ i'[u] = i[u]
      /\ phase'[t] # "returned" => i'[t] = n
  BY LoopTyped
<1>2. \A u \in Task : Len(buf[u]) <= 2 /\ buf[u] \in Seq(Bytes)
  BY DEF Typed, LocalTypes
<1>3. \A u \in Task : Len(buf'[u]) <= 2
  BY <1>2
<1>4. Counted'
  <2> SUFFICES ASSUME NEW u \in Task, phase'[u] \notin {"enter", "returned"}
               PROVE  Len(buf'[u]) <= i'[u]
    BY DEF Counted
  <2>1. CASE u = t
    BY <1>1, <2>1
  <2>2. CASE u # t
    BY <1>1, <2>2 DEF Typed, Counted
  <2> QED BY <2>1, <2>2
<1> QED BY <1>1, <1>3, <1>4 DEF LocalTypes

LEMMA NothingAdded ==
  ASSUME Typed, NEW t \in Task, NEW n \in 0..3, NEW m \in Bytes, Loop(t, n, m),
         phase[t] = "act", n >= i[t], UNCHANGED buf, i2csr' \in [Task -> BOOLEAN]
  PROVE  LocalTypes' /\ Counted'
<1>1. /\ Len(buf[t]) <= n /\ Len(buf[t]) <= 2 /\ buf' \in [Task -> Seq(Bytes)]
  <2>1. /\ i[t] \in 0..2 /\ Len(buf[t]) <= i[t] /\ buf[t] \in Seq(Bytes)
        /\ Len(buf[t]) <= 2
    BY DEF Typed, LocalTypes, Counted, Bytes
  <2>2. buf' \in [Task -> Seq(Bytes)]
    BY DEF Typed, LocalTypes
  <2> QED BY <2>1, <2>2
<1> QED BY <1>1, LoopCounted

LEMMA ActTyped ==
  ASSUME Typed, NEW t \in Task, Act(t)
  PROVE  SharedTypes' /\ LocalTypes' /\ Counted'
<1> USE DEF Typed, SharedTypes
<1>1. /\ phase[t] = "act" /\ i[t] \in Bytes /\ length[t] \in Bytes
      /\ buf[t] \in Seq(Bytes) /\ Len(buf[t]) <= i[t] /\ Len(buf[t]) <= 2
      /\ i2csr' \in [Task -> BOOLEAN] /\ buf \in [Task -> Seq(Bytes)]
      /\ OPERATION' \subseteq {"READ", "STARTED"}
      /\ UNCHANGED <<sensor, sent, d, register, lost>>
  BY DEF Act, LocalTypes, DriverTypes, Counted
<1>2. /\ i[t] \in 0..3 /\ i[t] + 1 \in 0..3 /\ i[t] + 1 >= i[t] /\ i[t] >= i[t]
      /\ Len(buf[t]) \in Nat
  BY <1>1 DEF Bytes
<1>3. CASE NotAcknowledged(t)
  <2>1. Loop(t, i[t] + 1, i[t]) /\ UNCHANGED buf
    BY <1>3 DEF NotAcknowledged, Leave
  <2>2. LocalTypes' /\ Counted'
    BY <1>1, <1>2, <2>1, NothingAdded
  <2>3. DriverTypes'
    BY <1>1, <1>3 DEF NotAcknowledged, DriverTypes
  <2>4. RegisterTypes'
    BY <1>3 DEF NotAcknowledged, RegisterTypes
  <2>5. BusTypes'
    BY <1>1, <1>3 DEF NotAcknowledged, BusTypes
  <2> QED BY <2>2, <2>3, <2>4, <2>5
<1>4. CASE TransmitByte(t)
  <2>1. Loop(t, i[t] + 1, length[t]) /\ UNCHANGED buf
    BY <1>4 DEF TransmitByte
  <2>2. LocalTypes' /\ Counted'
    BY <1>1, <1>2, <2>1, NothingAdded
  <2>3. DriverTypes'
    BY <1>1, <1>4 DEF TransmitByte, DriverTypes
  <2>4. RegisterTypes'
    BY <1>4 DEF TransmitByte, RegisterTypes
  <2>5. BusTypes'
    BY <1>1, <1>4 DEF TransmitByte, BusTypes
  <2> QED BY <2>2, <2>3, <2>4, <2>5
<1>5. CASE TurnRound(t)
  <2>1. /\ UNCHANGED buf
        /\ Loop(t, i[t] + 1, i[t]) \/ Loop(t, i[t], length[t])
    BY <1>5 DEF TurnRound, Leave
  <2>2. LocalTypes' /\ Counted'
    BY <1>1, <1>2, <2>1, NothingAdded
  <2>3. DriverTypes'
    BY <1>1, <1>5 DEF TurnRound, DriverTypes
  <2>4. RegisterTypes'
    BY <1>5 DEF TurnRound, RegisterTypes
  <2>5. BusTypes'
    BY <1>1, <1>5 DEF TurnRound, BusTypes
  <2> QED BY <2>2, <2>3, <2>4, <2>5
<1>6. CASE ReceiveByte(t)
  <2>1. LocalTypes' /\ Counted'
    <3>1. CASE i[t] < length[t]
      <4>1. /\ buf' = [buf EXCEPT ![t] = Append(buf[t], d)]
            /\ Loop(t, i[t] + 2, i[t] + 1) \/ Loop(t, i[t] + 1, length[t])
        BY <1>6, <3>1 DEF ReceiveByte
      <4>2. /\ Append(buf[t], d) \in Seq(Bytes)
            /\ Len(Append(buf[t], d)) = Len(buf[t]) + 1
        BY <1>1, Appended DEF BusTypes
      <4>3. /\ buf' \in [Task -> Seq(Bytes)] /\ buf'[t] = Append(buf[t], d)
            /\ \A u \in Task \ {t} : buf'[u] = buf[u]
        BY <1>1, <4>1, <4>2
      <4>4. /\ Len(buf'[t]) <= 2 /\ Len(buf'[t]) <= i[t] + 1 /\ Len(buf'[t]) <= i[t] + 2
            /\ i[t] + 1 \in Bytes /\ i[t] + 2 \in 0..3
        BY <1>1, <1>2, <3>1, <4>2, <4>3 DEF Bytes
      <4> QED BY <1>1, <1>2, <4>1, <4>3, <4>4, LoopCounted
    <3>2. CASE ~(i[t] < length[t])
      <4>1. Loop(t, i[t] + 1, length[t]) /\ UNCHANGED buf
        BY <1>6, <3>2 DEF ReceiveByte
      <4> QED BY <1>1, <1>2, <4>1, NothingAdded
    <3> QED BY <3>1, <3>2
  <2>2. DriverTypes'
    BY <1>1, <1>6 DEF ReceiveByte, DriverTypes, Bytes
  <2>3. RegisterTypes'
    BY <1>6 DEF ReceiveByte, RegisterTypes
  <2>4. BusTypes'
    BY <1>1, <1>6 DEF ReceiveByte, BusTypes
  <2> QED BY <2>1, <2>2, <2>3, <2>4
<1>7. CASE Unwanted(t)
  <2>1. /\ Loop(t, i[t] + 1, i[t]) /\ UNCHANGED registers
        /\ UNCHANGED <<state, RX_REQUEST, xfer, buf>>
    BY <1>7 DEF Unwanted, Leave
  <2>2. LocalTypes' /\ Counted'
    BY <1>1, <1>2, <2>1, NothingAdded
  <2>3. DriverTypes'
    BY <1>1, <2>1 DEF DriverTypes
  <2>4. BusTypes'
    BY <1>1, <2>1 DEF BusTypes
  <2> QED BY <2>1, <2>2, <2>3, <2>4, RegisterFrame
<1> QED BY <1>3, <1>4, <1>5, <1>6, <1>7 DEF Act

LEMMA TransactTyped ==
  ASSUME Typed, NEW t \in Task, NEW direction \in {"R", "W"}, NEW len \in Bytes,
         Transact(t, direction, len)
  PROVE  SharedTypes' /\ LocalTypes' /\ Counted'
<1> USE DEF Typed, SharedTypes
<1> "start" \in Phases /\ "again" \in Phases /\ "address" \in Phases
    /\ "poll" \in Phases /\ "act" \in Phases /\ "returned" \in Phases
  BY DEF Phases
<1>1. CASE Enter(t, direction, len)
  <2>1. PICK p \in {"start", "again", "poll"} : Step(t, p)
    BY <1>1 DEF Enter
  <2>2. /\ i' \in [Task -> Bytes] /\ length' \in [Task -> Bytes]
        /\ i2csr' \in [Task -> BOOLEAN]
        /\ buf' \in [Task -> Seq(Bytes)] /\ buf'[t] = << >> /\ i'[t] = 0
        /\ \A u \in Task \ {t} : buf'[u] = buf[u] /\ i'[u] = i[u]
    <3>1. 0 \in Bytes
      BY DEF Bytes
    <3> QED BY <1>1, <3>1, NothingReceived DEF Enter, LocalTypes
  <2>3. LocalTypes' /\ Counted'
    <3>1. /\ at' \in [Task -> Calls] /\ phase' \in [Task -> Phases]
          /\ phase'[t] = p /\ \A u \in Task \ {t} : phase'[u] = phase[u]
      BY <2>1, StepTyped
    <3>2. Len(buf'[t]) = 0
      BY <2>2, NothingReceived, Zenon
    <3>3. i'[t] = 0 /\ \A u \in Task \ {t} : buf'[u] = buf[u] /\ i'[u] = i[u]
      BY <2>2
    <3>4. \A u \in Task : Len(buf'[u]) <= 2
      <4>1. \A u \in Task : Len(buf[u]) <= 2
        BY DEF LocalTypes
      <4> QED BY <3>2, <3>3, <4>1
    <3>5. Counted'
      BY <3>1, <3>2, <3>3 DEF Counted
    <3> QED BY <2>2, <3>1, <3>4, <3>5 DEF LocalTypes
  <2>4. DriverTypes'
    BY <1>1 DEF Enter, DriverTypes
  <2>5. UNCHANGED registers /\ UNCHANGED bus
    BY <1>1 DEF Enter
  <2> QED BY <2>3, <2>4, <2>5, RegisterFrame, BusFrame
<1>2. CASE Start(t, direction)
  <2>1. Step(t, "address") /\ phase[t] \in {"start", "again"} /\ UNCHANGED locals
    BY <1>2 DEF Start
  <2>2. LocalTypes' /\ Counted'
    BY <2>1, StepTyped DEF LocalTypes, Counted, locals
  <2>3. DriverTypes'
    BY <1>2 DEF Start, DriverTypes
  <2>4. RegisterTypes'
    BY <1>2 DEF Start, RegisterTypes
  <2>5. BusTypes'
    BY <1>2 DEF Start, Address, BusTypes
  <2> QED BY <2>2, <2>3, <2>4, <2>5
<1>3. CASE Addressed(t)
  <2>1. /\ Step(t, "poll") /\ phase[t] = "address"
        /\ UNCHANGED driver /\ UNCHANGED registers /\ UNCHANGED bus /\ UNCHANGED locals
    BY <1>3 DEF Addressed
  <2>2. LocalTypes' /\ Counted'
    BY <2>1, StepTyped DEF LocalTypes, Counted, locals
  <2> QED BY <2>1, <2>2, DriverFrame, RegisterFrame, BusFrame
<1>4. CASE Poll(t)
  <2>1. UNCHANGED registers /\ UNCHANGED bus /\ UNCHANGED buf /\ phase[t] = "poll"
    BY <1>4 DEF Poll
  <2>2. DriverTypes'
    <3>1. \/ UNCHANGED driver
          \/ state' = "FINISHED" /\ OPERATION' = {} /\ RX_REQUEST' = 0
      BY <1>4 DEF Poll
    <3>2. 0 \in Bytes
      BY DEF Bytes
    <3> QED BY <3>1, <3>2, DriverFrame DEF DriverTypes
  <2>3. LocalTypes' /\ Counted'
    <3>1. CASE End(t, i[t]) /\ UNCHANGED i2csr
      <4>1. /\ Step(t, "returned") /\ i' = [i EXCEPT ![t] = i[t]]
            /\ length' = [length EXCEPT ![t] = 0] /\ 0 \in Bytes
        BY <3>1 DEF End, Bytes
      <4> QED BY <2>1, <3>1, <4>1, StepTyped DEF LocalTypes, Counted
    <3>2. CASE /\ i2csr' = [i2csr EXCEPT ![t] = rxak]
               /\ Step(t, "act") /\ UNCHANGED <<i, length>>
      <4>1. rxak \in BOOLEAN
        BY DEF RegisterTypes
      <4> QED BY <2>1, <3>2, <4>1, StepTyped DEF LocalTypes, Counted
    <3> QED BY <1>4, <3>1, <3>2 DEF Poll
  <2> QED BY <2>1, <2>2, <2>3, RegisterFrame, BusFrame
<1>5. CASE Act(t)
  BY <1>5, ActTyped
<1> QED BY <1>1, <1>2, <1>3, <1>4, <1>5 DEF Transact

LEMMA StopTyped == ASSUME SharedTypes, Stop PROVE SharedTypes'
<1>1. DriverTypes'
  BY DEF Stop, SharedTypes, DriverTypes, Bytes
<1>2. RegisterTypes'
  BY DEF Stop, SharedTypes, RegisterTypes
<1>3. BusTypes'
  BY DEF Stop, SharedTypes, BusTypes
<1> QED BY <1>1, <1>2, <1>3 DEF SharedTypes

LEMMA FlushTyped == ASSUME DriverTypes, Flush PROVE DriverTypes'
BY DriverFrame DEF Flush, DriverTypes, Bytes

LEMMA ReadingTyped ==
  ASSUME Typed, NEW t \in Task, TempCtrl_read_IGBT_temperature(t)
  PROVE  SharedTypes' /\ LocalTypes' /\ Counted'
<1> USE DEF Typed, SharedTypes
<1> "R" \in {"R", "W"} /\ "W" \in {"R", "W"} /\ 0 \in Bytes /\ 1 \in Bytes /\ 2 \in Bytes
  BY DEF Bytes
<1> "failed" \in Calls /\ "pointer" \in Calls /\ "request" \in Calls /\ "read" \in Calls
    /\ "done" \in Calls
  BY DEF Calls
<1>1. CASE Hello(t) \/ Pointer(t) \/ Read(t)
  BY <1>1, TransactTyped DEF Hello, Pointer, Read
<1>2. CASE Check_answer(t)
  <2>1. CASE rxak
    <3>1. Stop /\ Call(t, "failed") /\ UNCHANGED locals
      BY <1>2, <2>1 DEF Check_answer
    <3> QED BY <3>1, StopTyped, CallTyped
  <2>2. CASE ~rxak
    <3>1. /\ Flush /\ Call(t, "pointer") /\ UNCHANGED locals
          /\ UNCHANGED registers /\ UNCHANGED bus
      BY <1>2, <2>2 DEF Check_answer
    <3> QED BY <3>1, FlushTyped, CallTyped, RegisterFrame, BusFrame
  <2> QED BY <2>1, <2>2
<1>3. CASE Restart(t)
  <2>1. /\ Call(t, "request") \/ Call(t, "failed")
        /\ UNCHANGED locals /\ UNCHANGED registers /\ UNCHANGED bus
        /\ UNCHANGED <<OPERATION, RX_REQUEST>> /\ state' \in {state, "REPEATED_START"}
    BY <1>3 DEF Restart
  <2>2. DriverTypes'
    BY <2>1 DEF DriverTypes
  <2> QED BY <2>1, <2>2, CallTyped, RegisterFrame, BusFrame
<1>4. CASE Request(t)
  <2>1. /\ Call(t, "read") /\ UNCHANGED locals /\ UNCHANGED registers /\ UNCHANGED bus
        /\ UNCHANGED <<state, OPERATION>> /\ RX_REQUEST' = 2
    BY <1>4 DEF Request
  <2>2. DriverTypes'
    BY <2>1 DEF DriverTypes
  <2> QED BY <2>1, <2>2, CallTyped, RegisterFrame, BusFrame
<1>5. CASE Finish(t)
  <2>1. CASE i[t] = 2
    <3>1. Stop /\ Call(t, "done") /\ UNCHANGED locals
      BY <1>5, <2>1 DEF Finish
    <3> QED BY <3>1, StopTyped, CallTyped
  <2>2. CASE i[t] # 2
    <3>1. /\ Call(t, "failed") /\ UNCHANGED locals
          /\ UNCHANGED driver /\ UNCHANGED registers /\ UNCHANGED bus
      BY <1>5, <2>2 DEF Finish
    <3> QED BY <3>1, CallTyped, DriverFrame, RegisterFrame, BusFrame
  <2> QED BY <2>1, <2>2
<1> QED BY <1>1, <1>2, <1>3, <1>4, <1>5 DEF TempCtrl_read_IGBT_temperature

LEMMA TransferTyped ==
  ASSUME Typed, Transfer
  PROVE  SharedTypes' /\ LocalTypes' /\ Counted'
<1> USE DEF Typed, SharedTypes
<1>1. /\ UNCHANGED driver /\ UNCHANGED at /\ UNCHANGED phase /\ UNCHANGED locals
      /\ xfer' = "none" /\ iicif' = TRUE /\ UNCHANGED <<mst, tx, txak>>
  BY DEF Transfer
<1>2. LocalTypes' /\ Counted'
  BY <1>1 DEF LocalTypes, Counted, locals
<1>3. PICK ack \in BOOLEAN : Sent(ack) \/ Received(ack)
  BY DEF Transfer
<1>4. rxak' = ~ack
  BY <1>3 DEF Sent, Received
<1>5. RegisterTypes'
  BY <1>1, <1>4 DEF RegisterTypes
<1>6. BusTypes'
  <2>1. CASE Sent(ack)
    <3>1. /\ sensor' \in {"off", "selecting", "written", "sending"} /\ sent' = 0 /\ d' = d
          /\ register' \in {register, "temperature", "other"}
      BY <2>1 DEF Sent
    <3>2. lost' \in BOOLEAN
      BY <2>1 DEF Sent
    <3>3. sent' \in Bytes
      BY <3>1 DEF Bytes
    <3>4. d' \in Bytes
      BY <3>1 DEF BusTypes
    <3>5. register' \in {"temperature", "other"}
      BY <3>1 DEF BusTypes
    <3> QED BY <1>1, <3>1, <3>2, <3>3, <3>4, <3>5 DEF BusTypes
  <2>2. CASE Received(ack)
    BY <1>1, <2>2 DEF Received, BusTypes, Bytes
  <2> QED BY <1>3, <2>1, <2>2
<1> QED BY <1>1, <1>2, <1>5, <1>6, DriverFrame

\* Everything the driver and the bus keep has its type, and the buffer of a
\* call no more bytes than the call has counted.
LEMMA NextTyped == Typed /\ [Next]_vars => Typed'
<1> SUFFICES ASSUME Typed, [Next]_vars PROVE SharedTypes' /\ LocalTypes' /\ Counted'
  BY DEF Typed
<1> LCD_task \in Task /\ VT100_task \in Task
  BY TemperatureAssumption
<1> "idle" \in Calls /\ "hello" \in Calls
  BY DEF Calls
<1>1. CASE UNCHANGED i2c
  <2>1. /\ UNCHANGED driver /\ UNCHANGED registers /\ UNCHANGED bus
        /\ UNCHANGED at /\ UNCHANGED phase /\ UNCHANGED locals
    BY <1>1 DEF i2c
  <2>2. LocalTypes' /\ Counted'
    BY <2>1 DEF Typed, LocalTypes, Counted, locals
  <2> QED BY <2>1, <2>2, DriverFrame, RegisterFrame, BusFrame DEF Typed, SharedTypes
<1>2. ASSUME NEW t \in Task, NEW c \in {"idle", "hello"}, Call(t, c),
             UNCHANGED <<driver, registers, bus, locals>>
      PROVE  SharedTypes' /\ LocalTypes' /\ Counted'
  <2>1. UNCHANGED driver /\ UNCHANGED registers /\ UNCHANGED bus /\ UNCHANGED locals
    BY <1>2
  <2>2. LocalTypes' /\ Counted'
    BY <1>2, <2>1, CallTyped
  <2> QED BY <2>1, <2>2, DriverFrame, RegisterFrame, BusFrame DEF Typed, SharedTypes
<1>3. CASE LCD
  BY <1>2, <1>3, ReadingTyped DEF LCD, Begin, LCD_show
<1>4. CASE VT100
  BY <1>2, <1>4, ReadingTyped DEF VT100, VT100_print
<1>5. CASE VT100_screen
  BY <1>2, <1>5 DEF VT100_screen, Begin
<1>6. CASE Transfer
  BY <1>6, TransferTyped
<1> QED BY <1>1, <1>3, <1>4, <1>5, <1>6 DEF Next, Warm, vars

-----------------------------------------------------------------------------
(* The two bytes of a reading *)

\* t has asked for two bytes: its call is on the way to read them.
Entering(t) == at[t] = "request" \/ In(t, "read", "enter")

Polling(t) ==
  at[t] = "read" /\ phase[t] \in {"start", "again", "address", "poll", "act"}

\* The transaction under way is that of t: about to be started, addressing
\* the sensor, or fed by it.
Begun(t) ==
  /\ phase[t] \in {"start", "again"} /\ (phase[t] = "start" => ~mst)
  /\ i[t] = 0 /\ buf[t] = << >> /\ RX_REQUEST \in {0, 2}

Asked(t) ==
  /\ phase[t] \in {"address", "poll", "act"} /\ mst /\ tx
  /\ i[t] = 0 /\ buf[t] = << >> /\ RX_REQUEST \in {0, 2}
  /\ iicif <=> xfer = "none"
  /\ phase[t] = "act" => xfer = "none" /\ (~i2csr[t] => sensor = "sending" /\ sent = 0)
  /\ phase[t] # "act" => \/ xfer = "address R"
                         \/ xfer = "none" /\ (~rxak => sensor = "sending" /\ sent = 0)

Fed(t) ==
  /\ phase[t] \in {"poll", "act"} /\ mst /\ ~tx
  /\ \/ i[t] = 0 /\ buf[t] = << >> /\ RX_REQUEST = 2
     \/ i[t] = 1 /\ buf[t] = <<1>> /\ RX_REQUEST = 1
  /\ txak <=> i[t] = 1
  /\ iicif <=> xfer = "none"
  /\ phase[t] = "act" => xfer = "none"
  /\ \/ xfer = "in" /\ sensor = "sending" /\ sent = i[t]
     \/ xfer = "none" /\ d = i[t] + 1 /\ (i[t] = 0 => sensor = "sending" /\ sent = 1)

Holds(t) ==
  /\ state = "RECEIVE" /\ Reading /\ length[t] = 2
  /\ Begun(t) \/ Asked(t) \/ Fed(t)

\* Nothing of a reading is under way: a task that polls for a byte gets none.
Dropped == state \in {"READY", "FINISHED"} \/ (state = "RECEIVE" /\ ~Reading)

\* A reading that succeeds has the two bytes; one under way has at most one.
Complete(t) ==
  /\ at[t] = "done" => buf[t] = <<1, 2>>
  /\ In(t, "read", "returned") /\ i[t] = 2 => buf[t] = <<1, 2>>
  /\ Polling(t) => i[t] \in {0, 1}

\* What t finds when it goes on.
Resumes(t) ==
  /\ Entering(t) =>
       /\ state \in {"READY", "REPEATED_START", "FINISHED"}
       /\ state = "READY" => ~mst
       /\ at[t] = "read" /\ state # "FINISHED" => RX_REQUEST \in {0, 2}
  /\ Polling(t) => Holds(t) \/ Dropped

\* A call or a step of t changes nothing that is its own of another task.
Apart(t) ==
  \A u \in Task \ {t} :
    /\ at'[u] = at[u] /\ phase'[u] = phase[u] /\ i'[u] = i[u]
    /\ length'[u] = length[u] /\ i2csr'[u] = i2csr[u] /\ buf'[u] = buf[u]

LEMMA ReadingApart ==
  ASSUME Typed, NEW t \in Task, TempCtrl_read_IGBT_temperature(t)
  PROVE  Apart(t)
<1> USE DEF Typed, LocalTypes, Apart
<1>1. ASSUME NEW direction, NEW len, Transact(t, direction, len)
      PROVE  Apart(t)
  <2>1. CASE Enter(t, direction, len)
    BY <2>1 DEF Enter, Step
  <2>2. CASE Start(t, direction)
    BY <2>2 DEF Start, Step, locals
  <2>3. CASE Addressed(t)
    BY <2>3 DEF Addressed, Step, locals
  <2>4. CASE Poll(t)
    BY <2>4 DEF Poll, End, Step
  <2>5. CASE Act(t)
    <3>1. i2csr' = [i2csr EXCEPT ![t] = FALSE]
      BY <2>5 DEF Act
    <3>2. \/ NotAcknowledged(t) \/ TransmitByte(t) \/ TurnRound(t) \/ ReceiveByte(t)
          \/ Unwanted(t)
      BY <2>5 DEF Act
    <3>3. \E n, m : Loop(t, n, m)
      BY <3>2 DEF NotAcknowledged, TransmitByte, TurnRound, ReceiveByte, Unwanted, Leave
    <3>4. buf' = buf \/ \E e : buf' = [buf EXCEPT ![t] = e]
      BY <3>2 DEF NotAcknowledged, TransmitByte, TurnRound, ReceiveByte, Unwanted
    <3> QED BY <3>1, <3>3, <3>4 DEF Loop, End, Step
  <2> QED BY <1>1, <2>1, <2>2, <2>3, <2>4, <2>5 DEF Transact
<1>2. CASE Hello(t) \/ Pointer(t) \/ Read(t)
  BY <1>1, <1>2 DEF Hello, Pointer, Read
<1>3. CASE Check_answer(t) \/ Restart(t) \/ Request(t) \/ Finish(t)
  BY <1>3 DEF Check_answer, Restart, Request, Finish, Call, locals
<1> QED BY <1>2, <1>3 DEF TempCtrl_read_IGBT_temperature

LEMMA CallApart ==
  ASSUME Typed, NEW t \in Task, NEW c, Call(t, c), UNCHANGED locals
  PROVE  Apart(t) /\ at'[t] = c /\ phase'[t] = "enter" /\ UNCHANGED <<i, length, i2csr, buf>>
BY DEF Typed, LocalTypes, Apart, Call, locals

LEMMA TwoBytes == Append(<<1>>, 2) = <<1, 2>>
<1> DEFINE s == Append(<<1>>, 2)
           r == <<1, 2>>
<1>1. <<1>> \in Seq(Nat) /\ Len(<<1>>) = 1 /\ <<1>>[1] = 1
  OBVIOUS
<1>2. s \in Seq(Nat) /\ Len(s) = 2 /\ s[1] = 1 /\ s[2] = 2
  BY <1>1
<1>3. r \in Seq(Nat) /\ Len(r) = 2 /\ r[1] = 1 /\ r[2] = 2
  OBVIOUS
<1> HIDE DEF s, r
<1>4. s = r
  <2>1. \A k \in 1..2 : s[k] = r[k]
    BY <1>2, <1>3
  <2>2. s \in [1..2 -> Nat] /\ r \in [1..2 -> Nat]
    BY <1>2, <1>3
  <2> QED BY <2>1, <2>2
<1> QED BY <1>4 DEF s, r

\* A call that reads goes on reading, or returns with the transaction over.
LEMMA HoldsStep ==
  ASSUME Typed, NEW t \in Task, Polling(t), Holds(t), Transact(t, "R", 2)
  PROVE  /\ at'[t] = "read"
         /\ \/ Polling(t)' /\ Holds(t)' /\ i'[t] \in {0, 1}
            \/ /\ phase'[t] = "returned" /\ state' = "FINISHED"
               /\ i'[t] = 2 => buf'[t] = <<1, 2>>
<1> USE DEF Typed, LocalTypes
<1>1. CASE Begun(t)
  <2>1. Start(t, "R")
    BY <1>1 DEF Begun, Transact, Enter, Addressed, Poll, Act
  <2>2. /\ xfer' = "address R" /\ tx' = TRUE /\ mst' = TRUE /\ iicif' = FALSE
        /\ OPERATION' = OPERATION \cup {"STARTED"} /\ UNCHANGED <<state, RX_REQUEST>>
        /\ Step(t, "address") /\ UNCHANGED <<i, length, i2csr, buf>>
    BY <1>1, <2>1 DEF Start, Address, Begun, locals
  <2>3. at'[t] = "read" /\ phase'[t] = "address"
    BY <2>2 DEF Step, Polling
  <2>4. Asked(t)'
    BY <1>1, <2>2, <2>3 DEF Asked, Begun
  <2> QED BY <1>1, <2>2, <2>3, <2>4 DEF Holds, Polling, Reading, Begun
<1>2. CASE (Asked(t) \/ Fed(t)) /\ phase[t] = "address"
  <2>1. Addressed(t)
    BY <1>2 DEF Transact, Enter, Start, Poll, Act
  <2>2. /\ UNCHANGED <<state, OPERATION, RX_REQUEST, mst, tx, iicif, rxak>>
        /\ UNCHANGED <<xfer, sensor, sent, i, length, buf>>
        /\ Step(t, "poll")
    BY <2>1 DEF Addressed, driver, registers, bus, locals
  <2>3. at'[t] = "read" /\ phase'[t] = "poll"
    BY <2>2 DEF Step, Polling
  <2>4. Asked(t)'
    BY <1>2, <2>2, <2>3 DEF Asked, Fed
  <2> QED BY <1>2, <2>2, <2>3, <2>4 DEF Holds, Polling, Reading, Asked, Fed
<1>3. CASE (Asked(t) \/ Fed(t)) /\ phase[t] = "poll"
  <2>1. Poll(t) /\ mst
    BY <1>3 DEF Transact, Enter, Start, Addressed, Act, Asked, Fed
  <2>2. /\ iicif /\ i2csr' = [i2csr EXCEPT ![t] = rxak] /\ Step(t, "act")
        /\ UNCHANGED <<i, length, buf>>
        /\ UNCHANGED driver /\ UNCHANGED registers /\ UNCHANGED bus
    BY <2>1 DEF Poll
  <2>3. /\ UNCHANGED <<state, OPERATION, RX_REQUEST, mst, tx, iicif, txak>>
        /\ UNCHANGED <<xfer, sensor, sent, d>>
    BY <2>2 DEF driver, registers, bus
  <2>4. at'[t] = "read" /\ phase'[t] = "act" /\ (i2csr'[t] <=> rxak)
    BY <2>2 DEF Step, Polling
  <2>5. CASE Asked(t)
    <3>1. Asked(t)'
      BY <1>3, <2>2, <2>3, <2>4, <2>5 DEF Asked
    <3> QED BY <2>2, <2>3, <2>4, <2>5, <3>1 DEF Holds, Polling, Reading, Asked
  <2>6. CASE Fed(t)
    <3>1. Fed(t)'
      BY <1>3, <2>2, <2>3, <2>4, <2>6 DEF Fed
    <3> QED BY <2>2, <2>3, <2>4, <2>6, <3>1 DEF Holds, Polling, Reading, Fed
  <2> QED BY <1>3, <2>5, <2>6
<1>4. CASE (Asked(t) \/ Fed(t)) /\ phase[t] = "act"
  <2>1. Act(t) /\ mst /\ state = "RECEIVE" /\ Reading /\ length[t] = 2
    BY <1>4 DEF Transact, Enter, Start, Addressed, Poll, Asked, Fed, Holds
  <2>2. /\ OPERATION' = OPERATION \cup {"STARTED"}
        /\ \/ NotAcknowledged(t) \/ TransmitByte(t) \/ TurnRound(t) \/ ReceiveByte(t)
           \/ Unwanted(t)
        /\ UNCHANGED <<sensor, sent, d>>
    BY <2>1 DEF Act
  <2>3. Reading' /\ 0 \in Bytes /\ 1 \in Bytes
    BY <2>1, <2>2 DEF Reading, Bytes
  <2>4. ~TransmitByte(t) /\ ~Unwanted(t)
    BY <1>4, <2>1 DEF TransmitByte, Unwanted, Asked, Fed
  <2>5. CASE NotAcknowledged(t)
    <3>1. i[t] = 0 /\ state' = "FINISHED" /\ Loop(t, 0 + 1, 0)
      BY <1>4, <2>5 DEF NotAcknowledged, Asked, Fed, Leave
    <3>2. Step(t, "returned") /\ i' = [i EXCEPT ![t] = 0]
      BY <3>1 DEF Loop, End
    <3> QED BY <3>1, <3>2 DEF Step, Polling
  <2>6. CASE TurnRound(t)
    <3>1. Asked(t) /\ tx' = FALSE /\ iicif' = FALSE /\ (txak' <=> RX_REQUEST = 1)
          /\ ~i2csr[t] /\ UNCHANGED <<RX_REQUEST, mst, buf>>
      BY <1>4, <2>6 DEF TurnRound, Fed
    <3>2. CASE RX_REQUEST = 0
      <4>1. i[t] = 0 /\ state' = "FINISHED" /\ Loop(t, 0 + 1, 0)
        BY <2>6, <3>1, <3>2 DEF TurnRound, Asked, Leave
      <4>2. Step(t, "returned") /\ i' = [i EXCEPT ![t] = 0]
        BY <4>1 DEF Loop, End
      <4> QED BY <4>1, <4>2 DEF Step, Polling
    <3>3. CASE RX_REQUEST = 2
      <4>1. i[t] = 0 /\ xfer' = "in" /\ state' = state /\ Loop(t, i[t], length[t])
        <5>1. i[t] = 0
          BY <3>1, Zenon DEF Asked
        <5>2. ~(RX_REQUEST = 0)
          BY <3>3
        <5> QED BY <2>6, <5>1, <5>2 DEF TurnRound
      <4>2. /\ Step(t, "poll") /\ i' = [i EXCEPT ![t] = 0]
            /\ length' = [length EXCEPT ![t] = 2]
        BY <2>1, <4>1 DEF Loop
      <4>3. at'[t] = "read" /\ phase'[t] = "poll" /\ i'[t] = 0 /\ length'[t] = 2
        BY <4>2 DEF Step, Polling
      <4>4. Fed(t)'
        BY <1>4, <2>2, <3>1, <3>3, <4>1, <4>3 DEF Fed, Asked
      <4> QED BY <2>1, <2>3, <4>1, <4>3, <4>4 DEF Holds, Polling
    <3> QED BY <3>1, <3>2, <3>3 DEF Asked
  <2>7. CASE ReceiveByte(t)
    <3>1. Fed(t) /\ i[t] < length[t]
      BY <1>4, <2>1, <2>7 DEF ReceiveByte, Asked, Fed
    <3>2. /\ iicif' = FALSE /\ RX_REQUEST' = RX_REQUEST - 1
          /\ (txak' <=> RX_REQUEST - 1 = 1) /\ buf'[t] = Append(buf[t], d)
          /\ UNCHANGED <<mst, tx, rxak>>
      BY <2>7, <3>1 DEF ReceiveByte
    <3>3. CASE i[t] = 0
      <4>1. RX_REQUEST = 2 /\ d = 1 /\ buf[t] = << >> /\ sensor = "sending" /\ sent = 1
        BY <1>4, <3>1, <3>3 DEF Fed
      <4>2. xfer' = "in" /\ state' = state /\ Loop(t, 0 + 1, 2)
        BY <2>1, <2>7, <3>1, <3>3, <4>1 DEF ReceiveByte
      <4>3. /\ Step(t, "poll") /\ i' = [i EXCEPT ![t] = 1]
            /\ length' = [length EXCEPT ![t] = 2]
        BY <4>2 DEF Loop
      <4>4. at'[t] = "read" /\ phase'[t] = "poll" /\ i'[t] = 1 /\ length'[t] = 2
        BY <4>3 DEF Step, Polling
      <4>5. buf'[t] = <<1>>
        BY <3>2, <4>1
      <4>6. Fed(t)'
        BY <2>2, <3>1, <3>2, <4>1, <4>2, <4>4, <4>5 DEF Fed
      <4> QED BY <2>1, <2>3, <4>2, <4>4, <4>6 DEF Holds, Polling
    <3>4. CASE i[t] = 1
      <4>1. RX_REQUEST = 1 /\ d = 2 /\ buf[t] = <<1>>
        BY <1>4, <3>1, <3>4 DEF Fed
      <4>2. state' = "FINISHED" /\ Loop(t, 1 + 2, 1 + 1)
        BY <2>1, <2>7, <3>1, <3>4, <4>1 DEF ReceiveByte
      <4>3. Step(t, "returned")
        BY <4>2 DEF Loop, End
      <4>4. buf'[t] = Append(<<1>>, 2)
        BY <3>2, <4>1
      <4>5. buf'[t] = <<1, 2>>
        BY <4>4, TwoBytes
      <4> QED BY <4>2, <4>3, <4>5 DEF Step, Polling
    <3> QED BY <3>1, <3>3, <3>4 DEF Fed
  <2> QED BY <2>2, <2>4, <2>5, <2>6, <2>7
<1> QED BY <1>1, <1>2, <1>3, <1>4 DEF Holds, Asked, Fed

\* A call that polls when nothing of its reading is under way gets no byte.
LEMMA DroppedStep ==
  ASSUME Typed, NEW t \in Task, Polling(t), Dropped, i[t] \in {0, 1}, Transact(t, "R", 2)
  PROVE  /\ at'[t] = "read" /\ i'[t] \in {0, 1} /\ Dropped'
         /\ phase'[t] \in {"start", "again", "address", "poll", "act", "returned"}
<1> USE DEF Typed, LocalTypes
<1>1. ~Enter(t, "R", 2) /\ at[t] = "read"
  BY DEF Polling, Enter
<1>2. CASE Start(t, "R")
  <2>1. /\ Step(t, "address") /\ UNCHANGED <<state, i>>
        /\ OPERATION' = OPERATION \cup {"STARTED"}
    BY <1>2 DEF Start, locals
  <2> QED BY <1>1, <2>1 DEF Step, Dropped, Reading
<1>3. CASE Addressed(t)
  <2>1. Step(t, "poll") /\ UNCHANGED <<state, OPERATION, i>>
    BY <1>3 DEF Addressed, driver, locals
  <2> QED BY <1>1, <2>1 DEF Step, Dropped, Reading
<1>4. CASE Poll(t)
  <2>1. /\ Step(t, "returned") \/ Step(t, "act")
        /\ i' = i \/ i' = [i EXCEPT ![t] = i[t]]
        /\ state' = "FINISHED" \/ UNCHANGED <<state, OPERATION>>
    BY <1>4 DEF Poll, End, driver
  <2> QED BY <1>1, <2>1 DEF Step, Dropped, Reading
<1>5. CASE Act(t)
  <2>1. /\ OPERATION' = OPERATION \cup {"STARTED"}
        /\ NotAcknowledged(t) \/ Unwanted(t)
    BY <1>5 DEF Act, TransmitByte, TurnRound, ReceiveByte, Dropped
  <2>2. Loop(t, i[t] + 1, i[t]) /\ state' \in {state, "FINISHED"}
    BY <2>1 DEF NotAcknowledged, Unwanted, Leave
  <2>3. Step(t, "returned") /\ i' = [i EXCEPT ![t] = i[t]]
    BY <2>2 DEF Loop, End
  <2> QED BY <1>1, <2>1, <2>2, <2>3 DEF Step, Dropped, Reading
<1> QED BY <1>1, <1>2, <1>3, <1>4, <1>5 DEF Transact

\* A call to read begins with the driver left to it, or with nothing to get.
LEMMA EnterStep ==
  ASSUME Typed, NEW t \in Task, In(t, "read", "enter"), Resumes(t), Transact(t, "R", 2)
  PROVE  /\ at'[t] = "read" /\ i'[t] = 0
         /\ phase'[t] \in {"start", "again", "poll"}
         /\ state # "FINISHED" => Holds(t)'
         /\ state = "FINISHED" => state' = "FINISHED"
<1> USE DEF Typed, LocalTypes
<1>1. /\ Enter(t, "R", 2) /\ at[t] = "read" /\ phase[t] = "enter"
      /\ state \in {"READY", "REPEATED_START", "FINISHED"} /\ (state = "READY" => ~mst)
      /\ state # "FINISHED" => RX_REQUEST \in {0, 2}
  BY DEF In, Transact, Start, Addressed, Poll, Act, Resumes, Entering
<1>2. /\ OPERATION' = OPERATION \cup {"READ"} /\ i' = [i EXCEPT ![t] = 0]
      /\ length' = [length EXCEPT ![t] = 2] /\ buf' = [buf EXCEPT ![t] = << >>]
      /\ UNCHANGED RX_REQUEST /\ UNCHANGED registers
  BY <1>1 DEF Enter
<1>3. Reading' /\ i'[t] = 0 /\ length'[t] = 2 /\ buf'[t] = << >> /\ UNCHANGED mst
      /\ 0 \in Bytes /\ 2 \in Bytes
  BY <1>2 DEF Reading, registers, Bytes
<1>4. CASE state = "FINISHED"
  <2>1. Step(t, "poll") /\ UNCHANGED state
    BY <1>1, <1>4 DEF Enter
  <2> QED BY <1>1, <1>3, <1>4, <2>1 DEF Step
<1>5. CASE state # "FINISHED"
  <2>1. state' = "RECEIVE" /\ Step(t, IF state = "READY" THEN "start" ELSE "again")
    BY <1>1, <1>5 DEF Enter
  <2>2. /\ at'[t] = "read" /\ phase'[t] \in {"start", "again"}
        /\ phase'[t] = "start" => state = "READY"
    BY <1>1, <2>1 DEF Step
  <2>3. Begun(t)'
    BY <1>1, <1>2, <1>3, <1>5, <2>2 DEF Begun
  <2> QED BY <1>3, <1>5, <2>1, <2>2, <2>3 DEF Holds
<1> QED BY <1>4, <1>5

LEMMA TransferHolds ==
  ASSUME Typed, NEW t \in Task, Polling(t), Holds(t), Transfer
  PROVE  Holds(t)'
<1>1. /\ xfer' = "none" /\ iicif' = TRUE
      /\ UNCHANGED <<mst, tx, txak, at, phase>>
      /\ UNCHANGED <<state, OPERATION, RX_REQUEST>> /\ UNCHANGED <<i, length, i2csr, buf>>
  BY DEF Transfer, driver, locals
<1>2. PICK ack \in BOOLEAN : Sent(ack) \/ Received(ack)
  BY DEF Transfer
<1>3. CASE Begun(t)
  <2>1. Begun(t)'
    BY <1>1, <1>3 DEF Begun
  <2> QED BY <1>1, <2>1 DEF Holds, Reading
<1>4. CASE Asked(t)
  <2>1. xfer = "address R" /\ phase[t] # "act"
    BY <1>2, <1>4 DEF Asked, Sent, Received
  <2>2. (rxak' <=> ~ack) /\ (ack => sensor' = "sending") /\ sent' = 0
    BY <1>2, <2>1 DEF Sent, Received
  <2>3. Asked(t)'
    BY <1>1, <1>4, <2>1, <2>2 DEF Asked
  <2> QED BY <1>1, <2>3 DEF Holds, Reading
<1>5. CASE Fed(t)
  <2>1. xfer = "in" /\ sensor = "sending" /\ sent = i[t] /\ phase[t] # "act"
    BY <1>2, <1>5 DEF Fed, Sent, Received
  <2>2. /\ d' = i[t] + 1 /\ sent' = i[t] + 1
        /\ i[t] = 0 => sensor' = "sending"
    BY <1>2, <1>5, <2>1 DEF Received, Sent, Fed
  <2>3. Fed(t)'
    BY <1>1, <1>5, <2>1, <2>2 DEF Fed
  <2> QED BY <1>1, <2>3 DEF Holds, Reading
<1> QED BY <1>3, <1>4, <1>5 DEF Holds

-----------------------------------------------------------------------------
(* The monitor, between two steps of the display *)

\* The display is to read, or is reading.
Waits == Entering(LCD_task) \/ Polling(LCD_task)

\* The monitor has nothing to do or has not touched the driver yet.
Free == at[VT100_task] \in {"idle", "done", "failed"} \/ In(VT100_task, "hello", "enter")

\* The monitor addresses the sensor or selects the register.
Passing ==
  (at[VT100_task] = "hello" /\ phase[VT100_task] # "enter") \/ at[VT100_task] = "pointer"

\* A transaction the monitor sends in can be restarted when it has been sent.
Restartable ==
  /\ phase[VT100_task] \notin {"start", "again"} => mst /\ tx
  /\ at[VT100_task] = "pointer" =>
       /\ phase[VT100_task] \in {"enter", "poll", "act", "returned"}
       /\ phase[VT100_task] \in {"poll", "act"} =>
            length[VT100_task] = 1 /\ i[VT100_task] \in {0, 1}
       /\ phase[VT100_task] = "returned" => i[VT100_task] = 1

Passes ==
  /\ ~Reading /\ state \in {"TRANSMIT", "RECEIVE", "FINISHED"}
  /\ Entering(LCD_task) => state # "RECEIVE"
  /\ Waits /\ state = "TRANSMIT" => Restartable

\* The monitor is not interrupted, so that what it has restarted it reads.
Monitor ==
  /\ at[VT100_task] = "request" => state = "REPEATED_START"
  /\ In(VT100_task, "read", "enter") => state = "REPEATED_START" /\ RX_REQUEST = 2
  /\ Polling(VT100_task) => Holds(VT100_task)
  /\ In(VT100_task, "read", "returned") => state = "FINISHED"

Taken ==
  /\ \A t \in Task : Complete(t)
  /\ Free => Resumes(LCD_task)
  /\ Passing => Passes
  /\ Monitor

LEMMA Tasks == /\ LCD_task \in Task /\ VT100_task \in Task /\ LCD_task # VT100_task
               /\ \A t \in Task : t = LCD_task \/ t = VT100_task
BY TemperatureAssumption

LEMMA WaitsFrame ==
  ASSUME Apart(VT100_task)
  PROVE  /\ Entering(LCD_task)' <=> Entering(LCD_task)
         /\ Polling(LCD_task)' <=> Polling(LCD_task)
         /\ Waits' <=> Waits
         /\ Complete(LCD_task) => Complete(LCD_task)'
<1>1. /\ at'[LCD_task] = at[LCD_task] /\ phase'[LCD_task] = phase[LCD_task]
      /\ i'[LCD_task] = i[LCD_task] /\ buf'[LCD_task] = buf[LCD_task]
  BY Tasks DEF Apart
<1> QED BY <1>1 DEF Entering, Polling, Waits, Complete, In

\* The monitor sends: it addresses the sensor, or selects a register.
LEMMA PassStep ==
  ASSUME Typed, Passing, Passes, NEW len \in {0, 1},
         Transact(VT100_task, "W", len), phase[VT100_task] # "returned",
         at[VT100_task] = "pointer" <=> len = 1
  PROVE  Passing' /\ Passes'
<1> USE DEF Typed, LocalTypes
<1> DEFINE v == VT100_task
<1>1. v \in Task /\ Apart(v)
  <2>1. Hello(v) \/ Pointer(v)
    BY DEF Hello, Pointer, Passing
  <2> QED BY <2>1, Tasks, ReadingApart DEF TempCtrl_read_IGBT_temperature
<1>2. /\ Entering(LCD_task)' <=> Entering(LCD_task)
      /\ Waits' <=> Waits
  BY <1>1, WaitsFrame
<1>3. at[v] = "hello" \/ at[v] = "pointer"
  BY DEF Passing
<1> HIDE DEF v
<1>4. ASSUME NEW p \in {"start", "again", "address", "poll", "act", "returned"}, Step(v, p)
      PROVE  at'[v] = at[v] /\ phase'[v] = p /\ Passing'
  BY <1>1, <1>3, <1>4 DEF Step, Passing, v
<1>5. CASE Enter(v, "W", len)
  <2>1. ~Reading' /\ i'[v] = 0 /\ length'[v] = len /\ UNCHANGED <<mst, tx>>
    BY <1>1, <1>5 DEF Enter, Reading, registers
  <2>2. at[v] = "pointer" /\ phase[v] = "enter" /\ len = 1
    BY <1>3, <1>5 DEF Enter, Passing, v
  <2>3. Step(v, "poll") /\ UNCHANGED state
    BY <1>5 DEF Enter, Passes
  <2>4. at'[v] = at[v] /\ phase'[v] = "poll" /\ Passing'
    BY <1>4, <2>3
  <2> QED BY <1>2, <2>1, <2>2, <2>3, <2>4 DEF Passes, Restartable, v
<1>6. CASE Start(v, "W")
  <2>1. /\ OPERATION' = OPERATION \cup {"STARTED"} /\ mst' = TRUE /\ tx' = TRUE
        /\ Step(v, "address") /\ UNCHANGED state /\ phase[v] \in {"start", "again"}
    BY <1>6 DEF Start
  <2>2. at'[v] = at[v] /\ phase'[v] = "address" /\ Passing'
    BY <1>4, <2>1
  <2> QED BY <1>2, <2>1, <2>2 DEF Passes, Restartable, Reading, v
<1>7. CASE Addressed(v)
  <2>1. /\ Step(v, "poll") /\ phase[v] = "address"
        /\ UNCHANGED <<state, OPERATION, mst, tx>>
    BY <1>7 DEF Addressed, driver, registers
  <2>2. at'[v] = at[v] /\ phase'[v] = "poll" /\ Passing'
    BY <1>4, <2>1
  <2> QED BY <1>2, <2>1, <2>2 DEF Passes, Restartable, Reading, v
<1>8. CASE Poll(v)
  <2>1. PICK p \in {"act", "returned"} : Step(v, p)
    BY <1>8 DEF Poll, End
  <2>2. at'[v] = at[v] /\ phase'[v] = p /\ Passing'
    BY <1>4, <2>1
  <2>3. phase[v] = "poll" /\ UNCHANGED <<mst, tx>>
    BY <1>8 DEF Poll, registers
  <2>4. CASE state' = "FINISHED" /\ OPERATION' = {}
    BY <2>2, <2>4 DEF Passes, Reading
  <2>5. CASE ~mst /\ UNCHANGED <<state, OPERATION>>
    BY <1>2, <2>2, <2>3, <2>5 DEF Passes, Restartable, Reading, v
  <2>6. CASE Step(v, "act") /\ UNCHANGED <<state, OPERATION>> /\ UNCHANGED <<i, length>>
    <3>1. phase'[v] = "act"
      BY <1>4, <2>6
    <3> QED BY <1>2, <2>2, <2>3, <2>6, <3>1 DEF Passes, Restartable, Reading, v
  <2> QED BY <1>8, <2>4, <2>5, <2>6 DEF Poll, driver
<1>9. CASE Act(v)
  <2>1. /\ OPERATION' = OPERATION \cup {"STARTED"} /\ phase[v] = "act"
        /\ \/ NotAcknowledged(v) \/ TransmitByte(v) \/ TurnRound(v) \/ ReceiveByte(v)
           \/ Unwanted(v)
    BY <1>9 DEF Act
  <2>2. ~Reading' /\ ~TurnRound(v) /\ ~ReceiveByte(v)
    BY <2>1 DEF Passes, Reading, TurnRound, ReceiveByte
  <2>3. PICK p \in {"poll", "returned"} : Step(v, p)
    BY <2>1, <2>2 DEF NotAcknowledged, TransmitByte, Unwanted, Leave, Loop, End
  <2>4. at'[v] = at[v] /\ phase'[v] = p /\ Passing'
    BY <1>4, <2>3
  <2>5. CASE NotAcknowledged(v)
    BY <2>2, <2>4, <2>5 DEF NotAcknowledged, Passes
  <2>6. CASE TransmitByte(v)
    <3>1. /\ UNCHANGED <<state, mst, tx>> /\ mst /\ tx
          /\ Loop(v, i[v] + 1, length[v])
      BY <2>6 DEF TransmitByte
    <3>2. ASSUME Waits, state = "TRANSMIT", at[v] = "pointer"
          PROVE  /\ phase'[v] = "poll" => i'[v] = 1 /\ length'[v] = 1
                 /\ phase'[v] = "returned" => i'[v] = 1
      <4>1. length[v] = 1 /\ (i[v] = 0 \/ i[v] = 1)
        BY <2>1, <3>2 DEF Passes, Restartable, v
      <4>2. CASE i[v] = 0
        <5>1. i' = [i EXCEPT ![v] = 1] /\ length' = [length EXCEPT ![v] = 1]
              /\ Step(v, "poll")
          BY <3>1, <4>1, <4>2 DEF Loop
        <5> QED BY <1>1, <1>4, <5>1
      <4>3. CASE i[v] = 1
        <5>1. i' = [i EXCEPT ![v] = 1] /\ Step(v, "returned")
          BY <3>1, <4>1, <4>3 DEF Loop, End
        <5> QED BY <1>1, <1>4, <5>1
      <4> QED BY <4>1, <4>2, <4>3
    <3> QED BY <1>2, <2>2, <2>4, <3>1, <3>2 DEF Passes, Restartable, v
  <2>7. CASE Unwanted(v)
    <3>1. UNCHANGED state
      BY <2>7 DEF Unwanted
    <3>2. ~(Waits /\ state = "TRANSMIT")
      BY <2>1, <2>7 DEF Unwanted, Passes, Restartable, v
    <3> QED BY <1>2, <2>2, <2>4, <3>1, <3>2 DEF Passes
  <2> QED BY <2>1, <2>2, <2>5, <2>6, <2>7
<1> QED BY <1>5, <1>6, <1>7, <1>8, <1>9 DEF Transact, v

-----------------------------------------------------------------------------
(* Steps of the two tasks *)

LEMMA SendingStep ==
  ASSUME Typed, NEW t \in Task, NEW len \in {0, 1}, Transact(t, "W", len)
  PROVE  at'[t] = at[t]
BY DEF Transact, Enter, Start, Addressed, Poll, Act, NotAcknowledged, TransmitByte, TurnRound,
       ReceiveByte, Unwanted, Leave, Loop, End, Step

LEMMA CompleteStep ==
  ASSUME Typed, NEW t \in Task, Complete(t), Resumes(t), TempCtrl_read_IGBT_temperature(t)
  PROVE  Complete(t)'
<1>1. CASE Hello(t) \/ Pointer(t)
  <2>1. at'[t] = at[t] /\ at[t] \in {"hello", "pointer"}
    BY <1>1, SendingStep DEF Hello, Pointer
  <2> QED BY <2>1 DEF Complete, In, Polling
<1>2. CASE Check_answer(t) \/ Restart(t) \/ Request(t)
  <2>1. PICK c \in {"failed", "pointer", "request", "read"} : Call(t, c)
    BY <1>2 DEF Check_answer, Restart, Request
  <2>2. at'[t] = c /\ phase'[t] = "enter"
    BY <2>1 DEF Call, Typed, LocalTypes
  <2> QED BY <2>2 DEF Complete, In, Polling
<1>3. CASE Read(t) /\ In(t, "read", "enter")
  <2>1. /\ at'[t] = "read" /\ i'[t] = 0
        /\ phase'[t] \in {"start", "again", "poll"}
    BY <1>3, EnterStep DEF Read
  <2> QED BY <2>1 DEF Complete, In, Polling
<1>4. CASE Read(t) /\ Polling(t)
  <2>1. Transact(t, "R", 2) /\ i[t] \in {0, 1}
    BY <1>4 DEF Read, Complete
  <2>2. CASE Holds(t)
    <3>1. /\ at'[t] = "read"
          /\ \/ Polling(t)' /\ i'[t] \in {0, 1}
             \/ phase'[t] = "returned" /\ (i'[t] = 2 => buf'[t] = <<1, 2>>)
      BY <1>4, <2>1, <2>2, HoldsStep
    <3> QED BY <3>1 DEF Complete, In, Polling
  <2>3. CASE Dropped
    <3>1. at'[t] = "read" /\ i'[t] \in {0, 1}
      BY <1>4, <2>1, <2>3, DroppedStep
    <3> QED BY <3>1 DEF Complete, In
  <2> QED BY <1>4, <2>2, <2>3 DEF Resumes
<1>5. CASE Finish(t)
  <2>1. PICK c \in {"failed", "done"} : Call(t, c)
    BY <1>5 DEF Finish
  <2>2. /\ at'[t] = c /\ UNCHANGED buf
        /\ c = "done" => i[t] = 2 /\ In(t, "read", "returned")
    <3>1. at'[t] = c
      BY <2>1 DEF Call, Typed, LocalTypes
    <3>2. CASE i[t] = 2
      BY <1>5, <3>1, <3>2 DEF Finish, locals
    <3>3. CASE i[t] # 2
      <4>1. Call(t, "failed")
        BY <1>5, <3>3 DEF Finish
      <4>2. at'[t] = "failed"
        BY <4>1 DEF Call, Typed, LocalTypes
      <4> QED BY <1>5, <3>1, <4>2 DEF Finish, locals
    <3> QED BY <3>2, <3>3
  <2> QED BY <2>2 DEF Complete, In, Polling
<1>6. Read(t) => In(t, "read", "enter") \/ Polling(t)
  BY DEF Read, Transact, Enter, Start, Addressed, Poll, Act, In, Polling
<1> QED BY <1>1, <1>2, <1>3, <1>4, <1>5, <1>6 DEF TempCtrl_read_IGBT_temperature

\* The display goes on as it was, as nobody comes between.
LEMMA ResumesStep ==
  ASSUME Typed, NEW t \in Task, Complete(t), Resumes(t), TempCtrl_read_IGBT_temperature(t)
  PROVE  Resumes(t)'
<1>1. CASE Hello(t) \/ Pointer(t)
  <2>1. at'[t] = at[t] /\ at[t] \in {"hello", "pointer"}
    BY <1>1, SendingStep DEF Hello, Pointer
  <2> QED BY <2>1 DEF Resumes, Entering, In, Polling
<1>2. CASE Check_answer(t) \/ Finish(t)
  <2>1. PICK c \in {"failed", "pointer", "done"} : Call(t, c)
    BY <1>2 DEF Check_answer, Finish
  <2>2. at'[t] = c
    BY <2>1 DEF Call, Typed, LocalTypes
  <2> QED BY <2>2 DEF Resumes, Entering, In, Polling
<1>3. CASE Restart(t)
  <2>1. \/ Call(t, "request") /\ state' = "REPEATED_START"
        \/ Call(t, "failed")
    BY <1>3 DEF Restart
  <2>2. \/ at'[t] = "request" /\ state' = "REPEATED_START"
        \/ at'[t] = "failed"
    BY <2>1 DEF Call, Typed, LocalTypes
  <2> QED BY <2>2 DEF Resumes, Entering, In, Polling
<1>4. CASE Request(t)
  <2>1. /\ Entering(t) /\ Call(t, "read") /\ RX_REQUEST' = 2 /\ UNCHANGED <<state, mst>>
    BY <1>4 DEF Request, Entering, registers
  <2>2. at'[t] = "read" /\ phase'[t] = "enter"
    BY <2>1 DEF Call, Typed, LocalTypes
  <2> QED BY <2>1, <2>2 DEF Resumes, Entering, In, Polling
<1>5. CASE Read(t) /\ In(t, "read", "enter")
  <2>1. /\ at'[t] = "read" /\ phase'[t] \in {"start", "again", "poll"}
        /\ Holds(t)' \/ state' = "FINISHED"
    BY <1>5, EnterStep DEF Read
  <2> QED BY <2>1 DEF Resumes, Entering, In, Dropped
<1>6. CASE Read(t) /\ Polling(t)
  <2>1. Transact(t, "R", 2) /\ i[t] \in {0, 1}
    BY <1>6 DEF Read, Complete
  <2>2. CASE Holds(t)
    <3>1. /\ at'[t] = "read"
          /\ (Polling(t)' /\ Holds(t)') \/ phase'[t] = "returned"
      BY <1>6, <2>1, <2>2, HoldsStep
    <3> QED BY <3>1 DEF Resumes, Entering, In, Polling
  <2>3. CASE Dropped
    <3>1. /\ at'[t] = "read" /\ Dropped'
          /\ phase'[t] \in {"start", "again", "address", "poll", "act", "returned"}
      BY <1>6, <2>1, <2>3, DroppedStep
    <3> QED BY <3>1 DEF Resumes, Entering, In
  <2> QED BY <1>6, <2>2, <2>3 DEF Resumes
<1>7. Read(t) => In(t, "read", "enter") \/ Polling(t)
  BY DEF Read, Transact, Enter, Start, Addressed, Poll, Act, In, Polling
<1> QED BY <1>1, <1>2, <1>3, <1>4, <1>5, <1>6, <1>7 DEF TempCtrl_read_IGBT_temperature

\* With the transaction stopped, or over, the display gets no more of it.
LEMMA StoppedResumes ==
  ASSUME Apart(VT100_task),
         \/ state' = "READY" /\ ~mst' /\ RX_REQUEST' = 0
         \/ state' = "FINISHED"
         \/ state' = "RECEIVE" /\ ~Reading' /\ ~Entering(LCD_task)
         \/ ~Waits
  PROVE  Resumes(LCD_task)'
<1>1. /\ Entering(LCD_task)' <=> Entering(LCD_task)
      /\ Waits' <=> Waits
  BY WaitsFrame
<1> QED BY <1>1 DEF Resumes, Waits, Dropped

\* A step of the monitor inside its reading.
LEMMA MonitorStep ==
  ASSUME Typed, Taken, TempCtrl_read_IGBT_temperature(VT100_task)
  PROVE  Taken'
<1> DEFINE v == VT100_task
<1>1. v \in Task /\ LCD_task \in Task /\ Apart(v) /\ Complete(v) /\ Complete(LCD_task)
  BY Tasks, ReadingApart DEF Taken
<1>2. Resumes(v)
  BY DEF Taken, Monitor, Resumes, Entering, In
<1>3. \A t \in Task : Complete(t)'
  BY <1>1, <1>2, Tasks, CompleteStep, WaitsFrame
<1> SUFFICES (Free => Resumes(LCD_task))' /\ (Passing => Passes)' /\ Monitor'
  BY <1>3 DEF Taken
<1> HIDE DEF v
<1> USE DEF v
<1>4. CASE Hello(v) /\ phase[v] = "enter"
  <2>1. /\ Enter(v, "W", 0) /\ at[v] = "hello" /\ Resumes(LCD_task)
    BY <1>4 DEF Hello, Transact, Start, Addressed, Poll, Act, Taken, Free, In
  <2>2. /\ ~Reading'
        /\ \/ /\ state \in {"READY", "REPEATED_START"} /\ state' = "TRANSMIT"
              /\ Step(v, "start") \/ Step(v, "again")
           \/ /\ state \in {"TRANSMIT", "RECEIVE", "FINISHED"} /\ state' = state
              /\ Step(v, "poll")
    BY <2>1 DEF Enter, Reading, Typed, SharedTypes, DriverTypes
  <2>3. at'[v] = "hello" /\ phase'[v] \in {"start", "again", "poll"}
    BY <1>1, <2>1, <2>2 DEF Step, Typed, LocalTypes
  <2>4. state' # state => phase'[v] \in {"start", "again"}
    BY <1>1, <2>1, <2>2 DEF Step, Typed, LocalTypes
  <2>5. /\ Entering(LCD_task)' <=> Entering(LCD_task)
        /\ Waits' <=> Waits
    BY <1>1, WaitsFrame
  <2>6. (Waits => state # "TRANSMIT") /\ (Entering(LCD_task) => state # "RECEIVE")
    BY <2>1 DEF Resumes, Waits, Holds, Dropped
  <2>7. Passes'
    BY <2>2, <2>3, <2>4, <2>5, <2>6 DEF Passes, Restartable
  <2> QED BY <2>3, <2>7 DEF Free, In, Monitor, Polling
<1>5. CASE (Hello(v) /\ phase[v] # "enter") \/ Pointer(v)
  <2>1. Passing /\ Passes
    BY <1>5 DEF Hello, Pointer, Passing, Taken
  <2>2. PICK len \in {0, 1} : Transact(v, "W", len) /\ (at[v] = "pointer" <=> len = 1)
    BY <1>5 DEF Hello, Pointer
  <2>3. phase[v] # "returned"
    BY <2>2 DEF Transact, Enter, Start, Addressed, Poll, Act
  <2>4. Passing' /\ Passes'
    BY <2>1, <2>2, <2>3, PassStep
  <2> QED BY <2>4 DEF Passing, Free, In, Monitor, Polling
<1>6. CASE Check_answer(v)
  <2>1. /\ at[v] = "hello" /\ phase[v] = "returned" /\ Passes /\ UNCHANGED locals
    BY <1>6 DEF Check_answer, In, Taken, Passing
  <2>2. CASE rxak
    <3>1. Stop /\ Call(v, "failed")
      BY <1>6, <2>2 DEF Check_answer
    <3>2. at'[v] = "failed" /\ state' = "READY" /\ ~mst' /\ RX_REQUEST' = 0
      BY <1>1, <3>1 DEF Stop, Call, Typed, LocalTypes
    <3>3. Resumes(LCD_task)'
      BY <1>1, <3>2, StoppedResumes
    <3> QED BY <3>2, <3>3 DEF Passing, Monitor, Polling, In
  <2>3. CASE ~rxak
    <3>1. Flush /\ Call(v, "pointer") /\ UNCHANGED registers
      BY <1>6, <2>3 DEF Check_answer
    <3>2. at'[v] = "pointer" /\ phase'[v] = "enter" /\ UNCHANGED <<mst, tx>>
      BY <1>1, <3>1 DEF Call, Typed, LocalTypes, registers
    <3>3. (state' = "FINISHED" /\ OPERATION' = {}) \/ UNCHANGED <<state, OPERATION>>
      BY <3>1 DEF Flush, driver
    <3>4. /\ Entering(LCD_task)' <=> Entering(LCD_task)
          /\ Waits' <=> Waits
      BY <1>1, WaitsFrame
    <3>5. Passes'
      BY <2>1, <3>2, <3>3, <3>4 DEF Passes, Restartable, Reading
    <3> QED BY <3>2, <3>5 DEF Free, In, Monitor, Polling
  <2> QED BY <2>2, <2>3
<1>7. CASE Restart(v)
  <2>1. at[v] = "pointer" /\ phase[v] = "returned" /\ Passes /\ UNCHANGED OPERATION
    BY <1>7 DEF Restart, In, Taken, Passing
  <2>2. CASE i[v] = 1 /\ MayRestart
    <3>1. state' = "REPEATED_START" /\ Call(v, "request")
      BY <1>7, <2>2 DEF Restart
    <3>2. at'[v] = "request"
      BY <1>1, <3>1 DEF Call, Typed, LocalTypes
    <3> QED BY <3>1, <3>2 DEF Free, Passing, Monitor, Polling, In
  <2>3. CASE ~(i[v] = 1 /\ MayRestart)
    <3>1. UNCHANGED state /\ Call(v, "failed")
      BY <1>7, <2>3 DEF Restart
    <3>2. at'[v] = "failed"
      BY <1>1, <3>1 DEF Call, Typed, LocalTypes
    <3>3. Waits => state # "TRANSMIT"
      BY <2>1, <2>3 DEF Passes, Restartable, MayRestart
    <3>4. Resumes(LCD_task)'
      BY <1>1, <2>1, <3>1, <3>3, StoppedResumes DEF Passes, Reading
    <3> QED BY <3>2, <3>4 DEF Passing, Monitor, Polling, In
  <2> QED BY <2>2, <2>3
<1>8. CASE Request(v)
  <2>1. /\ state = "REPEATED_START" /\ Call(v, "read") /\ RX_REQUEST' = 2 /\ UNCHANGED state
    BY <1>8 DEF Request, Taken, Monitor
  <2>2. at'[v] = "read" /\ phase'[v] = "enter"
    BY <1>1, <2>1 DEF Call, Typed, LocalTypes
  <2> QED BY <2>1, <2>2 DEF Free, Passing, Monitor, Polling, In
<1>9. CASE Read(v) /\ In(v, "read", "enter")
  <2>1. state = "REPEATED_START"
    BY <1>9 DEF Taken, Monitor
  <2>2. at'[v] = "read" /\ phase'[v] \in {"start", "again", "poll"} /\ Holds(v)'
    BY <1>1, <1>2, <1>9, <2>1, EnterStep DEF Read
  <2> QED BY <2>2 DEF Free, Passing, Monitor, Polling, In
<1>10. CASE Read(v) /\ Polling(v)
  <2>1. /\ at'[v] = "read"
        /\ \/ Polling(v)' /\ Holds(v)'
           \/ phase'[v] = "returned" /\ state' = "FINISHED"
    BY <1>1, <1>10, HoldsStep DEF Read, Taken, Monitor
  <2> QED BY <2>1 DEF Free, Passing, Monitor, Polling, In
<1>11. CASE Finish(v)
  <2>1. at[v] = "read" /\ phase[v] = "returned" /\ state = "FINISHED"
    BY <1>11 DEF Finish, In, Taken, Monitor
  <2>2. /\ Call(v, "done") \/ Call(v, "failed")
        /\ \/ state' = "READY" /\ ~mst' /\ RX_REQUEST' = 0
           \/ state' = "FINISHED"
    BY <1>11, <2>1 DEF Finish, Stop, driver
  <2>3. at'[v] \in {"done", "failed"}
    BY <1>1, <2>2 DEF Call, Typed, LocalTypes
  <2>4. Resumes(LCD_task)'
    BY <1>1, <2>2, StoppedResumes
  <2> QED BY <2>3, <2>4 DEF Passing, Monitor, Polling, In
<1>12. Read(v) => In(v, "read", "enter") \/ Polling(v)
  BY DEF Read, Transact, Enter, Start, Addressed, Poll, Act, In, Polling
<1> QED BY <1>4, <1>5, <1>6, <1>7, <1>8, <1>9, <1>10, <1>11, <1>12
        DEF TempCtrl_read_IGBT_temperature

LEMMA InitTaken == Init => Taken
<1> SUFFICES ASSUME Init PROVE Taken
  OBVIOUS
<1>1. \A t \in Task : at[t] = "idle"
  BY DEF Init, I2cInit
<1>2. \A t \in Task : Complete(t) /\ Resumes(t)
  BY <1>1 DEF Complete, Resumes, Entering, Polling, In
<1>3. ~Passing /\ Monitor
  BY <1>1, Tasks DEF Passing, Monitor, Polling, In
<1> QED BY <1>2, <1>3, Tasks DEF Taken

LEMMA TransferTaken ==
  ASSUME Typed, Taken, Transfer
  PROVE  Taken'
<1>1. UNCHANGED <<state, OPERATION, RX_REQUEST, mst, tx, at, phase, i, length, i2csr, buf>>
  BY DEF Transfer, driver, locals
<1>2. ASSUME NEW t \in Task, Polling(t), Holds(t)
      PROVE  Holds(t)'
  BY <1>2, TransferHolds
<1>3. \A t \in Task : Complete(t)'
  BY <1>1 DEF Taken, Complete, In, Polling
<1>4. (Free => Resumes(LCD_task))'
  BY <1>1, <1>2, Tasks DEF Taken, Free, In, Resumes, Entering, Polling, Dropped, Reading
<1>5. (Passing => Passes)'
  BY <1>1 DEF Taken, Passing, Passes, Restartable, Waits, Entering, Polling, In, Reading
<1>6. Monitor'
  BY <1>1, <1>2, Tasks DEF Taken, Monitor, Polling, In
<1> QED BY <1>3, <1>4, <1>5, <1>6 DEF Taken

\* A task that calls something else than the driver.
LEMMA CallTaken ==
  ASSUME Typed, Taken, NEW t \in Task, NEW c \in {"idle", "hello"}, Call(t, c),
         UNCHANGED <<driver, registers, bus, locals>>,
         t = VT100_task => Free, t = LCD_task => at[VT100_task] = "idle"
  PROVE  Taken'
<1>1. /\ Apart(t) /\ at'[t] = c /\ phase'[t] = "enter"
      /\ UNCHANGED <<i, length, i2csr, buf>>
  BY CallApart
<1>2. UNCHANGED <<state, OPERATION, RX_REQUEST, mst, tx, txak, iicif, rxak>>
  BY DEF driver, registers
<1>3. UNCHANGED <<xfer, sensor, sent, d>>
  BY DEF bus
<1>4. Free /\ Free' /\ ~Passing' /\ Monitor'
  <2>1. at'[VT100_task] \in {"idle", "hello"} /\ (at'[VT100_task] = "hello" => phase'[VT100_task] = "enter")
    BY <1>1, Tasks DEF Apart
  <2>2. Free
    BY Tasks DEF Free
  <2> QED BY <2>1, <2>2 DEF Free, In, Passing, Monitor, Polling
<1>5. \A u \in Task : Complete(u)'
  <2> SUFFICES ASSUME NEW u \in Task PROVE Complete(u)'
    OBVIOUS
  <2>1. CASE u = t
    BY <1>1, <2>1 DEF Complete, In, Polling
  <2>2. CASE u # t
    BY <1>1, <2>2 DEF Taken, Complete, In, Polling, Apart
  <2> QED BY <2>1, <2>2
<1>6. Resumes(LCD_task)'
  <2>1. CASE t = LCD_task
    BY <1>1, <2>1 DEF Resumes, Entering, Polling, In
  <2>2. CASE t = VT100_task
    <3>1. /\ Resumes(LCD_task) /\ at'[LCD_task] = at[LCD_task]
          /\ phase'[LCD_task] = phase[LCD_task]
      BY <1>1, <1>4, <2>2, Tasks DEF Taken, Apart
    <3>2. Holds(LCD_task) => Holds(LCD_task)'
      BY <1>1, <1>2, <1>3, <3>1 DEF Holds, Begun, Asked, Fed, Reading
    <3> QED BY <1>2, <3>1, <3>2 DEF Resumes, Entering, Polling, In, Dropped, Reading
  <2> QED BY <2>1, <2>2, Tasks
<1> QED BY <1>4, <1>5, <1>6 DEF Taken

LEMMA NextTaken == Typed /\ Taken /\ [Next]_vars => Taken'
<1> SUFFICES ASSUME Typed, Taken, [Next]_vars PROVE Taken'
  OBVIOUS
<1>1. CASE UNCHANGED i2c
  <2>1. UNCHANGED <<driver, registers, bus, at, phase, locals>>
    BY <1>1 DEF i2c
  <2>2. /\ UNCHANGED <<state, OPERATION, RX_REQUEST, mst, tx, txak, iicif, rxak>>
        /\ UNCHANGED <<xfer, sensor, sent, d, at, phase, i, length, i2csr, buf>>
    BY <2>1 DEF driver, registers, bus, locals
  <2>3. \A t \in Task : (Holds(t) => Holds(t)') /\ (Complete(t) => Complete(t)')
    BY <2>2 DEF Holds, Begun, Asked, Fed, Reading, Complete, In, Polling
  <2>4. (Free => Resumes(LCD_task))'
    BY <2>2, <2>3, Tasks DEF Taken, Free, In, Resumes, Entering, Polling, Dropped, Reading
  <2>5. (Passing => Passes)'
    BY <2>2 DEF Taken, Passing, Passes, Restartable, Waits, Entering, Polling, In, Reading
  <2>6. Monitor'
    BY <2>2, <2>3, Tasks DEF Taken, Monitor, Polling, In
  <2> QED BY <2>3, <2>4, <2>5, <2>6 DEF Taken
<1>2. CASE LCD
  <2>1. at[VT100_task] = "idle"
    BY <1>2, Tasks DEF LCD, Runs
  <2>2. CASE TempCtrl_read_IGBT_temperature(LCD_task)
    <3>1. Free /\ Resumes(LCD_task) /\ Complete(LCD_task) /\ Apart(LCD_task)
      BY <2>1, <2>2, Tasks, ReadingApart DEF Taken, Free
    <3>2. Complete(LCD_task)' /\ Resumes(LCD_task)'
      BY <2>2, <3>1, Tasks, CompleteStep, ResumesStep
    <3>3. at'[VT100_task] = "idle"
      BY <2>1, <3>1, Tasks DEF Apart
    <3>4. Complete(VT100_task)' /\ ~Passing' /\ Monitor'
      BY <3>3 DEF Complete, In, Polling, Passing, Monitor
    <3> QED BY <3>2, <3>4, Tasks DEF Taken
  <2>3. CASE Begin(LCD_task) \/ LCD_show
    BY <2>1, <2>3, Tasks, CallTaken DEF Begin, LCD_show
  <2> QED BY <1>2, <2>2, <2>3 DEF LCD
<1>3. CASE VT100
  <2>1. CASE TempCtrl_read_IGBT_temperature(VT100_task)
    BY <2>1, MonitorStep
  <2>2. CASE VT100_print
    BY <2>2, Tasks, CallTaken DEF VT100_print, Finished, Free
  <2> QED BY <1>3, <2>1, <2>2 DEF VT100
<1>4. CASE VT100_screen
  BY <1>4, Tasks, CallTaken DEF VT100_screen, Begin, Free
<1>5. CASE Transfer
  BY <1>5, TransferTaken
<1> QED BY <1>1, <1>2, <1>3, <1>4, <1>5 DEF Next, Warm, vars

-----------------------------------------------------------------------------
(* An undisturbed reading *)

Active(t) == at[t] \notin {"idle", "done", "failed"}

AtRest == state = "READY" /\ ~mst /\ xfer = "none" /\ sensor = "off"

\* The master sends, and the sensor is in the given state.
Sends(s) == state = "TRANSMIT" /\ mst /\ tx /\ ~Reading /\ sensor = s

Starts(t) ==
  /\ In(t, "hello", "start") /\ state = "TRANSMIT" /\ ~Reading
  /\ ~mst /\ xfer = "none" /\ sensor = "off" /\ i[t] = 0 /\ length[t] = 0

Greets(t) ==
  /\ at[t] = "hello" /\ phase[t] \in {"address", "poll", "act"}
  /\ i[t] = 0 /\ length[t] = 0 /\ (iicif => xfer = "none")
  /\ \/ xfer = "address W" /\ Sends("off") /\ phase[t] # "act"
     \/ /\ xfer = "none" /\ (phase[t] = "act" => (i2csr[t] <=> rxak))
        /\ Sends(IF rxak THEN "off" ELSE "selecting")

Greeted(t) ==
  In(t, "hello", "returned") /\ xfer = "none" /\ (~rxak => Sends("selecting"))

Points(t) ==
  \/ In(t, "pointer", "enter") /\ xfer = "none" /\ ~rxak /\ Sends("selecting")
  \/ /\ at[t] = "pointer" /\ phase[t] \in {"poll", "act"} /\ length[t] = 1
     /\ iicif => xfer = "none"
     /\ \/ i[t] = 0 /\ xfer = "none" /\ Sends("selecting") /\ ~rxak
        \/ i[t] = 1 /\ xfer = "zero" /\ Sends("selecting")
        \/ i[t] = 1 /\ xfer = "none" /\ Sends("written") /\ ~rxak
     /\ phase[t] = "act" => xfer = "none" /\ ~i2csr[t]
  \/ In(t, "pointer", "returned") /\ i[t] = 1 /\ xfer = "none" /\ Sends("written")

Restarted(t) ==
  /\ Entering(t) /\ state = "REPEATED_START" /\ mst /\ xfer = "none" /\ sensor = "written"
  /\ at[t] = "read" => RX_REQUEST = 2

Reads(t) ==
  /\ Polling(t) /\ Holds(t) /\ phase[t] # "start" /\ mst /\ sensor # "selecting"
  /\ phase[t] = "again" => RX_REQUEST = 2 /\ xfer = "none"
  /\ phase[t] # "again" /\ tx =>
       /\ RX_REQUEST = 2 /\ (xfer = "none" => ~rxak)
       /\ phase[t] = "act" => ~i2csr[t]

Protocol(t) ==
  \/ In(t, "hello", "enter") /\ AtRest
  \/ Starts(t) \/ Greets(t) \/ Greeted(t) \/ Points(t) \/ Restarted(t) \/ Reads(t)
  \/ In(t, "read", "returned") /\ i[t] = 2 /\ xfer = "none"

Alone ==
  /\ register = "temperature"
  /\ ~(Active(LCD_task) /\ Active(VT100_task))
  /\ (\A t \in Task : ~Active(t)) => AtRest
  /\ \A t \in Task : Active(t) => Protocol(t)

\* From the address for reading on, the sensor acknowledges and sends.
LEMMA ReadsStep ==
  ASSUME Typed, NEW t \in Task, Reads(t), Transact(t, "R", 2)
  PROVE  Reads(t)' \/ (In(t, "read", "returned")' /\ i'[t] = 2 /\ xfer' = "none")
<1> USE DEF Typed, LocalTypes
<1>1. /\ at[t] = "read" /\ at'[t] = "read"
      /\ \/ Polling(t)' /\ Holds(t)'
         \/ phase'[t] = "returned"
  BY HoldsStep DEF Reads, Polling
<1>2. ~Enter(t, "R", 2)
  BY DEF Reads, Polling, Enter
<1>3. CASE Start(t, "R")
  <2>1. /\ phase[t] = "again" /\ Step(t, "address") /\ xfer' = "address R" /\ mst' = TRUE
        /\ UNCHANGED <<RX_REQUEST, sensor>>
    BY <1>3 DEF Start, Address, Reads
  <2>2. phase'[t] = "address"
    BY <2>1 DEF Step
  <2> QED BY <1>1, <2>1, <2>2 DEF Reads
<1>4. CASE Addressed(t)
  <2>1. /\ phase[t] = "address" /\ Step(t, "poll")
        /\ UNCHANGED <<RX_REQUEST, mst, tx, rxak, xfer, sensor>>
    BY <1>4 DEF Addressed, driver, registers, bus
  <2>2. phase'[t] = "poll"
    BY <2>1 DEF Step
  <2> QED BY <1>1, <2>1, <2>2 DEF Reads
<1>5. CASE Poll(t)
  <2>1. /\ phase[t] = "poll" /\ Step(t, "act") /\ i2csr' = [i2csr EXCEPT ![t] = rxak]
        /\ iicif /\ UNCHANGED driver /\ UNCHANGED registers /\ UNCHANGED bus
    BY <1>5 DEF Poll, Reads
  <2>2. UNCHANGED <<RX_REQUEST, mst, tx, rxak, xfer, sensor>>
    BY <2>1 DEF driver, registers, bus
  <2>3. phase'[t] = "act" /\ (i2csr'[t] <=> rxak)
    BY <2>1 DEF Step
  <2>4. iicif => xfer = "none"
    BY <2>1 DEF Reads, Holds, Begun, Asked, Fed
  <2> QED BY <1>1, <2>1, <2>2, <2>3, <2>4 DEF Reads
<1>6. CASE Act(t)
  <2>1. /\ phase[t] = "act" /\ UNCHANGED sensor
        /\ \/ NotAcknowledged(t) \/ TransmitByte(t) \/ TurnRound(t) \/ ReceiveByte(t)
           \/ Unwanted(t)
        /\ state = "RECEIVE" /\ Reading /\ length[t] = 2 /\ mst
        /\ (tx => ~i2csr[t] /\ RX_REQUEST = 2 /\ i[t] = 0)
        /\ (~tx => Fed(t))
    BY <1>6 DEF Act, Reads, Holds, Begun, Asked, Fed
  <2>2. ~NotAcknowledged(t) /\ ~TransmitByte(t) /\ ~Unwanted(t)
    <3>1. ~tx => RX_REQUEST # 0
      BY <2>1 DEF Fed
    <3>2. ~NotAcknowledged(t) /\ ~TransmitByte(t)
      BY <2>1 DEF NotAcknowledged, TransmitByte
    <3>3. ~Unwanted(t)
      BY <2>1, <3>1 DEF Unwanted
    <3> QED BY <3>2, <3>3
  <2>3. CASE TurnRound(t)
    <3>1. tx' = FALSE /\ UNCHANGED mst /\ i[t] = 0 /\ Loop(t, i[t], length[t])
      BY <2>1, <2>3 DEF TurnRound
    <3>2. Step(t, "poll")
      BY <2>1, <3>1 DEF Loop
    <3>3. phase'[t] = "poll"
      BY <3>2 DEF Step
    <3> QED BY <1>1, <2>1, <3>1, <3>3 DEF Reads
  <2>4. CASE ReceiveByte(t)
    <3>1. ~tx /\ UNCHANGED <<mst, tx>> /\ Fed(t)
      BY <2>1, <2>4 DEF ReceiveByte
    <3>2. CASE i[t] = 0
      <4>1. RX_REQUEST = 2
        BY <3>1, <3>2 DEF Fed
      <4>2. Loop(t, 0 + 1, 2)
        BY <2>1, <2>4, <3>2, <4>1 DEF ReceiveByte
      <4>3. Step(t, "poll")
        BY <4>2 DEF Loop
      <4>4. phase'[t] = "poll"
        BY <4>3 DEF Step
      <4> QED BY <1>1, <2>1, <3>1, <4>4 DEF Reads
    <3>3. CASE i[t] = 1
      <4>1. RX_REQUEST = 1
        BY <3>1, <3>3 DEF Fed
      <4>2. Loop(t, 1 + 2, 1 + 1) /\ xfer' = "none"
        BY <2>1, <2>4, <3>1, <3>3, <4>1 DEF ReceiveByte, Fed
      <4>3. Step(t, "returned") /\ i' = [i EXCEPT ![t] = 2]
        BY <4>2 DEF Loop, End
      <4>4. phase'[t] = "returned" /\ i'[t] = 2
        BY <4>3 DEF Step
      <4> QED BY <1>1, <4>2, <4>4 DEF In
    <3> QED BY <3>1, <3>2, <3>3 DEF Fed
  <2> QED BY <2>1, <2>2, <2>3, <2>4
<1> QED BY <1>2, <1>3, <1>4, <1>5, <1>6 DEF Transact

\* The sensor is addressed to be written to, which it may not answer.
LEMMA GreetsStep ==
  ASSUME Typed, NEW t \in Task, at[t] = "hello", Protocol(t), Transact(t, "W", 0)
  PROVE  Starts(t)' \/ Greets(t)' \/ Greeted(t)'
<1> USE DEF Typed, LocalTypes
<1>1. at'[t] = "hello"
  BY SendingStep
<1>2. \/ In(t, "hello", "enter") /\ AtRest
      \/ Starts(t) \/ Greets(t) \/ Greeted(t)
  BY DEF Protocol, Points, Restarted, Entering, Reads, Polling, In
<1>3. CASE Enter(t, "W", 0)
  <2>1. AtRest
    BY <1>2, <1>3 DEF Enter, Starts, Greets, Greeted, In
  <2>2. /\ state' = "TRANSMIT" /\ Step(t, "start") /\ OPERATION' = OPERATION \ {"READ"}
        /\ i' = [i EXCEPT ![t] = 0] /\ length' = [length EXCEPT ![t] = 0]
        /\ UNCHANGED <<mst, xfer, sensor>>
    BY <1>3, <2>1 DEF Enter, AtRest, registers, bus
  <2>3. phase'[t] = "start" /\ i'[t] = 0 /\ length'[t] = 0 /\ ~Reading'
    BY <2>2 DEF Step, Reading
  <2> QED BY <1>1, <2>1, <2>2, <2>3 DEF Starts, AtRest, In
<1>4. CASE Start(t, "W")
  <2>1. Starts(t)
    BY <1>2, <1>4 DEF Start, Greets, Greeted, In
  <2>2. /\ tx' = TRUE /\ iicif' = FALSE /\ mst' = TRUE
        /\ OPERATION' = OPERATION \cup {"STARTED"} /\ xfer' = "address W"
        /\ Step(t, "address") /\ UNCHANGED <<state, sensor, i, length>>
    BY <1>4, <2>1 DEF Start, Address, Starts, locals
  <2>3. phase'[t] = "address" /\ (Reading' <=> Reading)
    BY <2>2 DEF Step, Reading
  <2>4. Sends("off")'
    BY <2>1, <2>2, <2>3 DEF Sends, Starts
  <2> QED BY <1>1, <2>1, <2>2, <2>3, <2>4 DEF Greets, Starts
<1>5. CASE Addressed(t)
  <2>1. Greets(t) /\ iicif
    BY <1>2, <1>5 DEF Addressed, Starts, Greeted, In
  <2>2. /\ Step(t, "poll") /\ UNCHANGED <<state, OPERATION, mst, tx, iicif, rxak>>
        /\ UNCHANGED <<xfer, sensor, i, length>>
    BY <1>5 DEF Addressed, driver, registers, bus, locals
  <2>3. phase'[t] = "poll" /\ (Reading' <=> Reading)
    BY <2>2 DEF Step, Reading
  <2> QED BY <1>1, <2>1, <2>2, <2>3 DEF Greets, Sends
<1>6. CASE Poll(t)
  <2>1. Greets(t) /\ mst
    BY <1>2, <1>6 DEF Poll, Starts, Greets, Greeted, Sends, In
  <2>2. /\ iicif /\ i2csr' = [i2csr EXCEPT ![t] = rxak] /\ Step(t, "act")
        /\ UNCHANGED <<i, length>>
        /\ UNCHANGED driver /\ UNCHANGED registers /\ UNCHANGED bus
    BY <1>6, <2>1 DEF Poll
  <2>3. UNCHANGED <<state, OPERATION, mst, tx, iicif, rxak, xfer, sensor>>
    BY <2>2 DEF driver, registers, bus
  <2>4. phase'[t] = "act" /\ (i2csr'[t] <=> rxak) /\ (Reading' <=> Reading)
    BY <2>2, <2>3 DEF Step, Reading
  <2>5. xfer = "none" /\ Sends(IF rxak THEN "off" ELSE "selecting")
    BY <2>1, <2>2 DEF Greets
  <2>6. Sends(IF rxak THEN "off" ELSE "selecting")'
    BY <2>3, <2>4, <2>5 DEF Sends
  <2> QED BY <1>1, <2>1, <2>2, <2>3, <2>4, <2>5, <2>6 DEF Greets
<1>7. CASE Act(t)
  <2>1. /\ Greets(t) /\ phase[t] = "act" /\ OPERATION' = OPERATION \cup {"STARTED"}
        /\ UNCHANGED sensor
        /\ \/ NotAcknowledged(t) \/ TransmitByte(t) \/ TurnRound(t) \/ ReceiveByte(t)
           \/ Unwanted(t)
    BY <1>2, <1>7 DEF Act, Starts, Greeted, In
  <2>2. /\ xfer = "none" /\ (i2csr[t] <=> rxak) /\ i[t] = 0 /\ length[t] = 0
        /\ state = "TRANSMIT" /\ mst /\ tx /\ ~Reading
        /\ sensor = IF rxak THEN "off" ELSE "selecting"
    BY <2>1 DEF Greets, Sends
  <2>3. ~TurnRound(t) /\ ~ReceiveByte(t)
    BY <2>2 DEF TurnRound, ReceiveByte
  <2>4. CASE rxak
    <3>1. NotAcknowledged(t)
      BY <2>1, <2>2, <2>3, <2>4 DEF TransmitByte, Unwanted
    <3>2. UNCHANGED <<rxak, xfer>> /\ Loop(t, 0 + 1, 0)
      BY <2>2, <3>1 DEF NotAcknowledged, Leave
    <3>3. Step(t, "returned")
      BY <3>2 DEF Loop, End
    <3>4. phase'[t] = "returned"
      BY <3>3 DEF Step
    <3> QED BY <1>1, <2>2, <2>4, <3>2, <3>4 DEF Greeted, In
  <2>5. CASE ~rxak
    <3>1. TransmitByte(t)
      BY <2>1, <2>2, <2>3, <2>5 DEF NotAcknowledged, Unwanted
    <3>2. UNCHANGED <<state, mst, tx, rxak, xfer>> /\ Loop(t, 0 + 1, 0)
      BY <2>2, <3>1 DEF TransmitByte
    <3>3. Step(t, "returned")
      BY <3>2 DEF Loop, End
    <3>4. phase'[t] = "returned" /\ ~Reading'
      BY <2>1, <2>2, <3>3 DEF Step, Reading
    <3>5. Sends("selecting")'
      BY <2>1, <2>2, <2>5, <3>2, <3>4 DEF Sends
    <3> QED BY <1>1, <2>2, <3>2, <3>4, <3>5 DEF Greeted, In
  <2> QED BY <2>4, <2>5
<1> QED BY <1>3, <1>4, <1>5, <1>6, <1>7 DEF Transact

\* The sensor has answered, and the number of the register is sent.
LEMMA PointsStep ==
  ASSUME Typed, NEW t \in Task, at[t] = "pointer", Protocol(t), Transact(t, "W", 1)
  PROVE  Points(t)'
<1> USE DEF Typed, LocalTypes
<1>1. at'[t] = "pointer"
  BY SendingStep
<1>2. Points(t)
  BY DEF Protocol, Starts, Greets, Greeted, Restarted, Entering, Reads, Polling, In
<1>3. CASE Enter(t, "W", 1)
  <2>1. In(t, "pointer", "enter") /\ xfer = "none" /\ ~rxak /\ Sends("selecting")
    BY <1>2, <1>3 DEF Enter, Points, In
  <2>2. /\ UNCHANGED <<state, mst, tx, rxak, xfer, sensor>> /\ Step(t, "poll")
        /\ OPERATION' = OPERATION \ {"READ"}
        /\ i' = [i EXCEPT ![t] = 0] /\ length' = [length EXCEPT ![t] = 1]
    BY <1>3, <2>1 DEF Enter, Sends, registers, bus
  <2>3. /\ phase'[t] = "poll" /\ i'[t] = 0 /\ length'[t] = 1 /\ ~Reading'
    BY <2>2 DEF Step, Reading
  <2>4. Sends("selecting")'
    BY <2>1, <2>2, <2>3 DEF Sends
  <2> QED BY <1>1, <2>1, <2>2, <2>3, <2>4 DEF Points
<1>4. ~Start(t, "W") /\ ~Addressed(t)
  BY <1>2 DEF Points, Start, Addressed, In
<1>5. CASE Poll(t)
  <2>1. phase[t] = "poll" /\ mst
    BY <1>2, <1>5 DEF Poll, Points, Sends, In
  <2>2. /\ iicif /\ i2csr' = [i2csr EXCEPT ![t] = rxak] /\ Step(t, "act")
        /\ UNCHANGED <<i, length>>
        /\ UNCHANGED driver /\ UNCHANGED registers /\ UNCHANGED bus
    BY <1>5, <2>1 DEF Poll
  <2>3. UNCHANGED <<state, OPERATION, mst, tx, iicif, rxak, xfer, sensor>>
    BY <2>2 DEF driver, registers, bus
  <2>4. phase'[t] = "act" /\ (i2csr'[t] <=> rxak) /\ (Reading' <=> Reading)
    BY <2>2, <2>3 DEF Step, Reading
  <2>5. /\ xfer = "none" /\ ~rxak /\ length[t] = 1
        /\ \/ i[t] = 0 /\ Sends("selecting")
           \/ i[t] = 1 /\ Sends("written")
    BY <1>2, <2>1, <2>2 DEF Points, In
  <2>6. /\ Sends("selecting") => Sends("selecting")'
        /\ Sends("written") => Sends("written")'
    BY <2>3, <2>4 DEF Sends
  <2> QED BY <1>1, <2>2, <2>3, <2>4, <2>5, <2>6 DEF Points
<1>6. CASE Act(t)
  <2>1. /\ phase[t] = "act" /\ OPERATION' = OPERATION \cup {"STARTED"}
        /\ UNCHANGED sensor
        /\ \/ NotAcknowledged(t) \/ TransmitByte(t) \/ TurnRound(t) \/ ReceiveByte(t)
           \/ Unwanted(t)
    BY <1>6 DEF Act
  <2>2. /\ xfer = "none" /\ ~i2csr[t] /\ length[t] = 1
        /\ state = "TRANSMIT" /\ mst /\ tx /\ ~Reading
        /\ \/ i[t] = 0 /\ sensor = "selecting"
           \/ i[t] = 1 /\ sensor = "written"
    BY <1>2, <2>1 DEF Points, Sends, In
  <2>3. TransmitByte(t)
    BY <2>1, <2>2 DEF NotAcknowledged, TurnRound, ReceiveByte, Unwanted
  <2>4. ~Reading' /\ UNCHANGED <<state, mst, tx>>
    BY <2>1, <2>2, <2>3 DEF TransmitByte, Reading
  <2>5. CASE i[t] = 0
    <3>1. Loop(t, 0 + 1, 1) /\ iicif' = FALSE /\ xfer' = "zero"
      BY <2>2, <2>3, <2>5 DEF TransmitByte
    <3>2. /\ Step(t, "poll") /\ i' = [i EXCEPT ![t] = 1]
          /\ length' = [length EXCEPT ![t] = 1]
      BY <3>1 DEF Loop
    <3>3. phase'[t] = "poll" /\ i'[t] = 1 /\ length'[t] = 1
      BY <3>2 DEF Step
    <3>4. Sends("selecting")'
      BY <2>1, <2>2, <2>4, <2>5 DEF Sends
    <3> QED BY <1>1, <3>1, <3>3, <3>4 DEF Points
  <2>6. CASE i[t] = 1
    <3>1. Loop(t, 1 + 1, 1) /\ UNCHANGED xfer
      BY <2>2, <2>3, <2>6 DEF TransmitByte
    <3>2. Step(t, "returned") /\ i' = [i EXCEPT ![t] = 1]
      BY <3>1 DEF Loop, End
    <3>3. phase'[t] = "returned" /\ i'[t] = 1
      BY <3>2 DEF Step
    <3>4. Sends("written")'
      BY <2>1, <2>2, <2>4, <2>6 DEF Sends
    <3> QED BY <1>1, <2>2, <3>1, <3>3, <3>4 DEF Points, In
  <2> QED BY <2>2, <2>5, <2>6
<1> QED BY <1>3, <1>4, <1>5, <1>6 DEF Transact

\* A reading goes its way, or it is over and the bus is free.
LEMMA ProtocolStep ==
  ASSUME Typed, NEW t \in Task, Active(t), Protocol(t), Resumes(t),
         TempCtrl_read_IGBT_temperature(t)
  PROVE  /\ UNCHANGED register
         /\ (Active(t)' /\ Protocol(t)') \/ (~Active(t)' /\ AtRest')
<1>1. UNCHANGED register
  BY DEF TempCtrl_read_IGBT_temperature, Hello, Pointer, Read, Transact, Enter, Start,
         Addressed, Poll, Act, Check_answer, Stop, Restart, Request, Finish, bus
<1>2. CASE Hello(t)
  <2>1. at[t] = "hello" /\ Transact(t, "W", 0) /\ at'[t] = "hello"
    BY <1>2, SendingStep DEF Hello
  <2> QED BY <1>1, <2>1, GreetsStep DEF Protocol, Active
<1>3. CASE Pointer(t)
  <2>1. at[t] = "pointer" /\ Transact(t, "W", 1) /\ at'[t] = "pointer"
    BY <1>3, SendingStep DEF Pointer
  <2> QED BY <1>1, <2>1, PointsStep DEF Protocol, Active
<1>4. CASE Check_answer(t)
  <2>1. Greeted(t)
    BY <1>4 DEF Check_answer, Protocol, Starts, Greets, Points, Restarted, Entering, Reads,
                Polling, In
  <2>2. CASE rxak
    <3>1. Stop /\ Call(t, "failed")
      BY <1>4, <2>2 DEF Check_answer
    <3>2. at'[t] = "failed" /\ AtRest'
      BY <3>1 DEF Stop, Call, AtRest, Typed, LocalTypes
    <3> QED BY <1>1, <3>2 DEF Active
  <2>3. CASE ~rxak
    <3>1. /\ xfer = "none" /\ Sends("selecting") /\ Flush /\ Call(t, "pointer")
          /\ UNCHANGED registers /\ UNCHANGED bus
      BY <1>4, <2>1, <2>3 DEF Check_answer, Greeted
    <3>2. UNCHANGED <<state, OPERATION, mst, tx, rxak, xfer, sensor>>
      BY <3>1 DEF Flush, Busy, Sends, driver, registers, bus
    <3>3. at'[t] = "pointer" /\ phase'[t] = "enter"
      BY <3>1 DEF Call, Typed, LocalTypes
    <3>4. Points(t)'
      BY <2>3, <3>1, <3>2, <3>3 DEF Points, Sends, Reading, In
    <3> QED BY <1>1, <3>3, <3>4 DEF Protocol, Active
  <2> QED BY <2>2, <2>3
<1>5. CASE Restart(t)
  <2>1. i[t] = 1 /\ xfer = "none" /\ Sends("written")
    BY <1>5 DEF Restart, Protocol, Starts, Greets, Greeted, Points, Restarted, Entering, Reads,
                Polling, In
  <2>2. /\ state' = "REPEATED_START" /\ Call(t, "request") /\ UNCHANGED registers
        /\ UNCHANGED bus
    BY <1>5, <2>1 DEF Restart, MayRestart, Sends
  <2>3. at'[t] = "request" /\ UNCHANGED <<mst, xfer, sensor>>
    BY <2>2 DEF Call, Typed, LocalTypes, registers, bus
  <2>4. Restarted(t)'
    BY <2>1, <2>2, <2>3 DEF Restarted, Entering, Sends
  <2> QED BY <1>1, <2>3, <2>4 DEF Protocol, Active
<1>6. CASE Request(t)
  <2>1. Restarted(t)
    BY <1>6 DEF Request, Protocol, Starts, Greets, Greeted, Points, Restarted, Entering, Reads,
                Polling, In
  <2>2. /\ RX_REQUEST' = 2 /\ Call(t, "read") /\ UNCHANGED state /\ UNCHANGED registers
        /\ UNCHANGED bus
    BY <1>6 DEF Request
  <2>3. at'[t] = "read" /\ phase'[t] = "enter" /\ UNCHANGED <<mst, xfer, sensor>>
    BY <2>2 DEF Call, Typed, LocalTypes, registers, bus
  <2>4. Restarted(t)'
    BY <2>1, <2>2, <2>3 DEF Restarted, Entering, In
  <2> QED BY <1>1, <2>3, <2>4 DEF Protocol, Active
<1>7. CASE Read(t)
  <2>1. Transact(t, "R", 2) /\ at[t] = "read" /\ phase[t] # "returned"
    BY <1>7 DEF Read, Transact, Enter, Start, Addressed, Poll, Act
  <2>2. (In(t, "read", "enter") /\ Restarted(t)) \/ Reads(t)
    BY <2>1 DEF Protocol, Starts, Greets, Greeted, Points, Restarted, Entering, In
  <2>3. CASE In(t, "read", "enter") /\ Restarted(t)
    <3>1. /\ at'[t] = "read" /\ phase'[t] \in {"start", "again", "poll"} /\ Holds(t)'
      BY <2>1, <2>3, EnterStep DEF Restarted
    <3>2. /\ Step(t, "again") /\ UNCHANGED RX_REQUEST
          /\ UNCHANGED <<mst, xfer, sensor>>
      BY <2>1, <2>3 DEF Transact, Enter, Start, Addressed, Poll, Act, Restarted, In, registers,
                        bus
    <3>3. phase'[t] = "again"
      BY <3>2 DEF Step, Typed, LocalTypes
    <3>4. Reads(t)'
      BY <2>3, <3>1, <3>2, <3>3 DEF Reads, Polling, Restarted, In
    <3> QED BY <1>1, <3>1, <3>4 DEF Protocol, Active
  <2>4. CASE Reads(t)
    <3>1. Reads(t)' \/ (In(t, "read", "returned")' /\ i'[t] = 2 /\ xfer' = "none")
      BY <2>1, <2>4, ReadsStep
    <3> QED BY <1>1, <3>1 DEF Protocol, Active, Reads, Polling, In
  <2> QED BY <2>2, <2>3, <2>4
<1>8. CASE Finish(t)
  <2>1. i[t] = 2
    BY <1>8 DEF Finish, Protocol, Starts, Greets, Greeted, Points, Restarted, Entering, Reads,
                Polling, In
  <2>2. Stop /\ Call(t, "done")
    BY <1>8, <2>1 DEF Finish
  <2>3. at'[t] = "done" /\ AtRest'
    BY <2>2 DEF Stop, Call, AtRest, Typed, LocalTypes
  <2> QED BY <1>1, <2>3 DEF Active
<1> QED BY <1>2, <1>3, <1>4, <1>5, <1>6, <1>7, <1>8 DEF TempCtrl_read_IGBT_temperature

\* The sensor may refuse the address to be written to, and nothing else.
LEMMA TransferProtocol ==
  ASSUME Typed, NEW t \in Task, Active(t), Protocol(t), register = "temperature",
         Transfer, ~lost'
  PROVE  Protocol(t)' /\ register' = "temperature" /\ Active(t)'
<1>1. /\ xfer' = "none" /\ iicif' = TRUE
      /\ UNCHANGED <<state, OPERATION, RX_REQUEST, mst, tx, txak, at, phase>>
      /\ UNCHANGED <<i, length, i2csr, buf>>
  BY DEF Transfer, driver, locals
<1>2. PICK ack \in BOOLEAN : Sent(ack) \/ Received(ack)
  BY DEF Transfer
<1>3. (rxak' <=> ~ack) /\ xfer # "none" /\ Active(t)'
  BY <1>1, <1>2 DEF Sent, Received, Active
<1>4. CASE Greets(t)
  <2>1. xfer = "address W" /\ Sends("off") /\ phase[t] # "act"
    BY <1>3, <1>4 DEF Greets
  <2>2. /\ sensor' = (IF ack THEN "selecting" ELSE "off") /\ register' = register
    <3>1. Sent(ack) /\ sensor = "off"
      BY <1>2, <2>1 DEF Received, Sends
    <3>2. CASE ack
      BY <2>1, <3>1, <3>2 DEF Sent
    <3>3. CASE ~ack
      <4>1. sensor' = "off" /\ register' = register
        BY <3>1, <3>3 DEF Sent
      <4> QED BY <3>3, <4>1
    <3> QED BY <3>2, <3>3
  <2>3. Sends(IF rxak THEN "off" ELSE "selecting")'
    BY <1>1, <1>3, <2>1, <2>2 DEF Sends, Reading
  <2>4. Greets(t)'
    BY <1>1, <1>4, <2>1, <2>3 DEF Greets
  <2> QED BY <1>3, <2>2, <2>4 DEF Protocol
<1>5. CASE Points(t)
  <2>1. /\ xfer = "zero" /\ Sends("selecting") /\ phase[t] = "poll" /\ i[t] = 1
        /\ at[t] = "pointer" /\ length[t] = 1
    BY <1>3, <1>5 DEF Points
  <2>2. ack
    BY <1>2, <2>1 DEF Sent, Received, Sends
  <2>3. sensor' = "written" /\ register' = "temperature"
    BY <1>2, <2>1, <2>2 DEF Sent, Received, Sends
  <2>4. Sends("written")'
    BY <1>1, <2>1, <2>3 DEF Sends, Reading
  <2>5. Points(t)'
    BY <1>1, <1>3, <2>1, <2>2, <2>4 DEF Points
  <2> QED BY <1>3, <2>3, <2>5 DEF Protocol
<1>6. CASE Reads(t)
  <2>1. Holds(t)' /\ Polling(t)'
    BY <1>1, <1>6, TransferHolds DEF Reads, Polling
  <2>2. xfer = "address R" \/ xfer = "in"
    BY <1>3, <1>6 DEF Reads, Holds, Begun, Asked, Fed
  <2>3. sensor' # "selecting" /\ register' = register
    BY <1>2, <1>6, <2>2 DEF Sent, Received, Reads
  <2>4. tx => xfer = "address R"
    BY <1>3, <1>6 DEF Reads, Holds, Begun, Asked, Fed
  <2>5. xfer = "address R" => ack
    BY <1>2 DEF Sent, Received
  <2>6. Reads(t)'
    BY <1>1, <1>3, <1>6, <2>1, <2>3, <2>4, <2>5 DEF Reads
  <2> QED BY <1>3, <2>3, <2>6 DEF Protocol
<1> QED BY <1>3, <1>4, <1>5, <1>6 DEF Protocol, AtRest, Starts, Greeted, Restarted

LEMMA InitAlone == Init => Alone
<1> SUFFICES ASSUME Init PROVE Alone
  OBVIOUS
<1>1. \A t \in Task : at[t] = "idle"
  BY DEF Init, I2cInit
<1>2. register = "temperature" /\ AtRest
  BY DEF Init, I2cInit, AtRest
<1> QED BY <1>1, <1>2, Tasks DEF Alone, Active

\* What t does when it is the only one, or nothing else is.
LEMMA AloneStep ==
  ASSUME Typed, Alone, NEW t \in Task, NEW u \in Task, t # u, Active(t), Resumes(t),
         TempCtrl_read_IGBT_temperature(t)
  PROVE  Alone'
<1>1. Apart(t) /\ Protocol(t) /\ ~Active(u)
  BY Tasks, ReadingApart DEF Alone
<1>2. /\ UNCHANGED register
      /\ (Active(t)' /\ Protocol(t)') \/ (~Active(t)' /\ AtRest')
  BY <1>1, ProtocolStep
<1>3. ~Active(u)'
  BY <1>1 DEF Apart, Active
<1>4. \A w \in Task : w = t \/ w = u
  BY Tasks
<1> QED BY <1>2, <1>3, <1>4, Tasks DEF Alone

LEMMA ReadingActive ==
  ASSUME NEW t \in Task, TempCtrl_read_IGBT_temperature(t)
  PROVE  Active(t)
BY DEF TempCtrl_read_IGBT_temperature, Hello, Check_answer, Pointer, Restart, Request, Read,
       Finish, In, Active

\* A task that is not reading calls something else.
LEMMA AloneCall ==
  ASSUME Typed, Alone, NEW t \in Task, NEW c \in {"idle", "hello"}, Call(t, c),
         UNCHANGED <<driver, registers, bus, locals>>, ~Active(t),
         c = "hello" => \A u \in Task : ~Active(u)
  PROVE  Alone'
<1>1. /\ Apart(t) /\ at'[t] = c /\ phase'[t] = "enter"
      /\ UNCHANGED <<i, length, i2csr, buf>>
  BY CallApart
<1>2. UNCHANGED <<state, OPERATION, RX_REQUEST, mst, tx, txak, iicif, rxak>>
  BY DEF driver, registers
<1>3. UNCHANGED <<xfer, sensor, sent, d, register>>
  BY DEF bus
<1>4. CASE c = "idle"
  <2>1. \A u \in Task : Active(u)' <=> Active(u)
    BY <1>1, <1>4 DEF Apart, Active
  <2>2. \A u \in Task : Active(u) /\ Protocol(u) => Protocol(u)'
    <3> SUFFICES ASSUME NEW u \in Task, Active(u), Protocol(u)
                 PROVE  Protocol(u)'
      OBVIOUS
    <3>1. at'[u] = at[u] /\ phase'[u] = phase[u] /\ u # t
      BY <1>1 DEF Apart
    <3>2. /\ (Reads(u) => Reads(u)') /\ (AtRest => AtRest')
          /\ (Restarted(u) => Restarted(u)')
      BY <1>1, <1>2, <1>3, <3>1 DEF Reads, AtRest, Restarted, Entering, Polling, Holds, Begun,
                                    Asked, Fed, Reading, In
    <3>3. /\ (Starts(u) => Starts(u)') /\ (Greets(u) => Greets(u)')
          /\ (Greeted(u) => Greeted(u)') /\ (Points(u) => Points(u)')
      BY <1>1, <1>2, <1>3, <3>1 DEF Starts, Greets, Greeted, Points, Sends, Reading, In
    <3> QED BY <1>1, <1>3, <3>1, <3>2, <3>3 DEF Protocol, In
  <2>3. AtRest => AtRest'
    BY <1>2, <1>3 DEF AtRest
  <2> QED BY <1>3, <2>1, <2>2, <2>3, Tasks DEF Alone
<1>5. CASE c = "hello"
  <2>1. AtRest'
    BY <1>2, <1>3, <1>5 DEF Alone, AtRest
  <2>2. \A u \in Task \ {t} : ~Active(u)'
    BY <1>1, <1>5 DEF Apart, Active
  <2>3. Protocol(t)'
    BY <1>1, <1>5, <2>1 DEF Protocol, In
  <2> QED BY <1>3, <2>1, <2>2, <2>3, Tasks DEF Alone
<1> QED BY <1>4, <1>5

\* What has been disturbed stays so.
LEMMA LostForGood ==
  ASSUME NEW t \in Task, TempCtrl_read_IGBT_temperature(t)
  PROVE  UNCHANGED lost
BY DEF TempCtrl_read_IGBT_temperature, Hello, Pointer, Read, Transact, Enter, Start, Addressed,
       Poll, Act, Check_answer, Stop, Restart, Request, Finish, bus

LEMMA Disturbed ==
  ASSUME [Next]_vars, Undisturbed'
  PROVE  Undisturbed
<1>1. CASE UNCHANGED i2c /\ UNCHANGED mixed
  BY <1>1 DEF i2c, bus, Undisturbed
<1>2. CASE LCD
  <2>1. UNCHANGED mixed /\ UNCHANGED lost
    BY <1>2, LostForGood, Tasks DEF LCD, LCD_show, Begin, bus
  <2> QED BY <2>1 DEF Undisturbed
<1>3. CASE VT100
  <2>1. UNCHANGED mixed /\ UNCHANGED lost
    BY <1>3, LostForGood, Tasks DEF VT100, VT100_print, bus
  <2> QED BY <2>1 DEF Undisturbed
<1>4. CASE VT100_screen
  <2>1. (mixed => mixed') /\ UNCHANGED lost
    BY <1>4 DEF VT100_screen, Begin, bus
  <2> QED BY <2>1 DEF Undisturbed
<1>5. CASE Transfer /\ UNCHANGED mixed
  <2>1. lost => lost'
    BY <1>5 DEF Transfer, Sent, Received
  <2> QED BY <1>5, <2>1 DEF Undisturbed
<1> QED BY <1>1, <1>2, <1>3, <1>4, <1>5 DEF Next, Warm, vars

LEMMA NextAlone ==
  ASSUME Typed, Taken, Alone, [Next]_vars, Undisturbed'
  PROVE  Alone'
<1>1. CASE UNCHANGED i2c
  <2>1. UNCHANGED <<driver, registers, bus, at, phase, locals>>
    BY <1>1 DEF i2c
  <2>2. /\ UNCHANGED <<state, OPERATION, RX_REQUEST, mst, tx, txak, iicif, rxak>>
        /\ UNCHANGED <<xfer, sensor, sent, d, register, at, phase>>
        /\ UNCHANGED <<i, length, i2csr, buf>>
    BY <2>1 DEF driver, registers, bus, locals
  <2>3. \A t \in Task : (Protocol(t) => Protocol(t)') /\ (Active(t)' <=> Active(t))
    <3> SUFFICES ASSUME NEW t \in Task
                 PROVE  (Protocol(t) => Protocol(t)') /\ (Active(t)' <=> Active(t))
      OBVIOUS
    <3>1. /\ (Reads(t) => Reads(t)') /\ (AtRest => AtRest')
          /\ (Restarted(t) => Restarted(t)')
      BY <2>2 DEF Reads, AtRest, Restarted, Entering, Polling, Holds, Begun, Asked, Fed,
                  Reading, In
    <3>2. /\ (Starts(t) => Starts(t)') /\ (Greets(t) => Greets(t)')
          /\ (Greeted(t) => Greeted(t)') /\ (Points(t) => Points(t)')
      BY <2>2 DEF Starts, Greets, Greeted, Points, Sends, Reading, In
    <3> QED BY <2>2, <3>1, <3>2 DEF Protocol, Active, In
  <2>4. AtRest => AtRest'
    BY <2>2 DEF AtRest
  <2> QED BY <2>2, <2>3, <2>4, Tasks DEF Alone
<1>2. CASE LCD
  <2>1. at[VT100_task] = "idle"
    BY <1>2, Tasks DEF LCD, Runs
  <2>2. CASE TempCtrl_read_IGBT_temperature(LCD_task)
    <3>1. Resumes(LCD_task)
      BY <2>1 DEF Taken, Free
    <3> QED BY <2>2, <3>1, Tasks, ReadingActive, AloneStep
  <2>3. CASE Begin(LCD_task)
    <3>1. \A u \in Task : ~Active(u)
      BY <2>1, <2>3, Tasks DEF Active, Begin
    <3> QED BY <2>3, <3>1, Tasks, AloneCall DEF Begin
  <2>4. CASE LCD_show
    <3>1. ~Active(LCD_task)
      BY <2>4 DEF LCD_show, Finished, Active
    <3> QED BY <2>4, <3>1, Tasks, AloneCall DEF LCD_show
  <2> QED BY <1>2, <2>2, <2>3, <2>4 DEF LCD
<1>3. CASE VT100
  <2>1. CASE TempCtrl_read_IGBT_temperature(VT100_task)
    <3>1. Resumes(VT100_task)
      BY DEF Taken, Monitor, Resumes, Entering, In
    <3> QED BY <2>1, <3>1, Tasks, ReadingActive, AloneStep
  <2>2. CASE VT100_print
    <3>1. ~Active(VT100_task)
      BY <2>2 DEF VT100_print, Finished, Active
    <3> QED BY <2>2, <3>1, Tasks, AloneCall DEF VT100_print
  <2> QED BY <1>3, <2>1, <2>2 DEF VT100
<1>4. CASE VT100_screen
  <2>1. \A u \in Task : ~Active(u)
    BY <1>4, Tasks DEF VT100_screen, Begin, Undisturbed, Finished, Active
  <2> QED BY <1>4, <2>1, Tasks, AloneCall DEF VT100_screen, Begin
<1>5. CASE Transfer
  <2>1. UNCHANGED at /\ ~lost'
    BY <1>5 DEF Transfer, Undisturbed
  <2>2. xfer # "none"
    BY <1>5 DEF Transfer, Sent, Received
  <2>3. PICK t \in Task : Active(t)
    BY <2>2 DEF Alone, AtRest
  <2>4. Protocol(t)' /\ register' = "temperature" /\ Active(t)'
    BY <1>5, <2>1, <2>3, TransferProtocol DEF Alone
  <2>5. \A u \in Task : Active(u)' => u = t
    BY <2>1, <2>3, Tasks DEF Alone, Active
  <2> QED BY <2>4, <2>5, Tasks DEF Alone
<1> QED BY <1>1, <1>2, <1>3, <1>4, <1>5 DEF Next, Warm, vars

-----------------------------------------------------------------------------
(* Results *)

ReadingInv == Typed /\ Taken /\ (Undisturbed => Alone)

LEMMA ReadingInvariant == Init /\ [][Next]_vars => []ReadingInv
<1>1. Init => ReadingInv
  BY InitTyped, InitTaken, InitAlone DEF ReadingInv
<1>2. ReadingInv /\ [Next]_vars => ReadingInv'
  BY NextTyped, NextTaken, NextAlone, Disturbed DEF ReadingInv
<1> QED BY <1>1, <1>2, PTL

(***************************************************************************)
(* The driver, the bus, the calls of both tasks and the display's fan have *)
(* their types; the buffer of a reading is never overrun.                  *)
(***************************************************************************)
THEOREM TemperatureTypes == Spec => []TypeOK
<1> DEFINE Outside ==
      temp \in {"cold", "mild", "hot"} /\ fan \in BOOLEAN /\ mixed \in BOOLEAN
<1>1. Init => Outside
  BY DEF Init
<1>2. Outside /\ [Next]_vars => Outside'
  BY DEF Next, LCD, LCD_show, Control_fan, VT100, VT100_print, VT100_screen, Warm, vars
<1>3. ReadingInv /\ Outside => TypeOK
  BY TypeParts DEF ReadingInv, Typed
<1> HIDE DEF Outside
<1> QED BY <1>1, <1>2, <1>3, ReadingInvariant, PTL DEF Spec

(***************************************************************************)
(* A reading that succeeds, of the display or of the monitor, is the two   *)
(* bytes of the sensor in order, at whatever point the monitor interrupted *)
(* the display; and it is the temperature when nothing was disturbed       *)
(* (Temperature_control.c:83-96).                                          *)
(***************************************************************************)
THEOREM ReadingsAreRight == Spec => []ReadingIsRight
<1>1. ReadingInv => ReadingIsRight
  BY DEF ReadingInv, Taken, Complete, Alone, ReadingIsRight
<1> QED BY <1>1, ReadingInvariant, PTL DEF Spec
=============================================================================
