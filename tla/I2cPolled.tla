------------------------------ MODULE I2cPolled ------------------------------
(***************************************************************************)
(* The polled I2C driver of MQX (i2c_pol_ki2c.c) as the master of one      *)
(* sensor, used by several tasks without a lock.  The driver keeps its     *)
(* state in one structure; registers, bus and sensor are those of the      *)
(* hardware.  Each call is a sequence of steps, and a step is what happens *)
(* between two looks at registers that something else may change.          *)
(***************************************************************************)
EXTENDS Naturals, Sequences

CONSTANT Task       \* the tasks that use the driver

VARIABLES
  state, OPERATION, RX_REQUEST,       \* VKI2C_INFO_STRUCT
  mst, tx, txak, iicif, rxak,         \* bits of the registers C1 and S
  xfer,                               \* what the bus is transferring
  sensor,                             \* what the sensor expects to do next
  sent, d,                            \* bytes it has sent; the byte in register D
  at, phase,                          \* the call a task is in, and the step of it
  i, length, i2csr, buf,              \* locals of _ki2c_polled_rx_tx, of i2csr
                                      \* the bit that says "not acknowledged"
  register,                           \* the register of the sensor that is selected
  lost                                \* history: an acknowledgement was missing, other
                                      \* than that of an address to write to

driver == <<state, OPERATION, RX_REQUEST>>
registers == <<mst, tx, txak, iicif, rxak>>
bus == <<xfer, sensor, sent, d, register, lost>>
locals == <<i, length, i2csr, buf>>
i2c == <<driver, registers, bus, at, phase, locals>>

I2cInit ==
  /\ state = "READY" /\ OPERATION = {} /\ RX_REQUEST = 0
  /\ mst = FALSE /\ tx = FALSE /\ txak = FALSE /\ iicif = FALSE /\ rxak = FALSE
  /\ xfer = "none" /\ sensor = "off" /\ sent = 0 /\ d = 0
  /\ register = "temperature" /\ lost = FALSE
  /\ at = [t \in Task |-> "idle"] /\ phase = [t \in Task |-> "enter"]
  /\ i = [t \in Task |-> 0] /\ length = [t \in Task |-> 0]
  /\ i2csr = [t \in Task |-> FALSE]
  /\ buf = [t \in Task |-> << >>]

Busy == mst         \* the bus of a single master is busy from start to stop

\* Task t goes on with another call, or with another step of its call.
Call(t, c) ==
  /\ at' = [at EXCEPT ![t] = c] /\ phase' = [phase EXCEPT ![t] = "enter"]
Step(t, p) == phase' = [phase EXCEPT ![t] = p] /\ UNCHANGED at
In(t, c, p) == at[t] = c /\ phase[t] = p

-----------------------------------------------------------------------------
(***************************************************************************)
(* The bus.  A transfer ends with IICIF; a byte that is sent is            *)
(* acknowledged or not.  The first byte after the address selects a        *)
(* register, and addressed for reading the sensor sends its two bytes.     *)
(***************************************************************************)
Sent(ack) ==
  /\ xfer \in {"address W", "address R", "zero", "address as data"}
  /\ sensor = "off" /\ xfer \notin {"address W", "address R"} => ~ack
  /\ rxak' = ~ack
  /\ sensor' = IF ~ack THEN "off"
                ELSE CASE xfer = "address R" -> "sending"
                       [] xfer = "address W" -> "selecting"
                       [] OTHER -> "written"
  /\ register' = IF sensor # "selecting" \/ ~ack THEN register
                 ELSE IF xfer = "zero" THEN "temperature" ELSE "other"
  /\ sent' = 0
  /\ lost' = \/ lost
             \/ ~ack /\ xfer # "address W" /\ (xfer = "address R" \/ sensor # "off")
  /\ UNCHANGED d

Received(ack) ==
  /\ xfer = "in" /\ rxak' = ~ack
  /\ d' = IF sensor = "sending" /\ sent < 2 THEN sent + 1 ELSE 0
  /\ sent' = IF sent < 2 THEN sent + 1 ELSE sent
  /\ sensor' = IF txak THEN "off" ELSE sensor
  /\ UNCHANGED <<register, lost>>

Transfer ==
  /\ \E ack \in BOOLEAN : Sent(ack) \/ Received(ack)
  /\ xfer' = "none" /\ iicif' = TRUE
  /\ UNCHANGED <<driver, mst, tx, txak, at, phase, locals>>

-----------------------------------------------------------------------------
(***************************************************************************)
(* _ki2c_polled_tx and _ki2c_polled_rx: note the direction, and when no    *)
(* transaction is under way begin one with the address of the sensor.      *)
(***************************************************************************)
Enter(t, direction, len) ==
  /\ phase[t] = "enter"
  /\ OPERATION' = IF direction = "R" THEN OPERATION \cup {"READ"} ELSE OPERATION \ {"READ"}
  /\ i' = [i EXCEPT ![t] = 0] /\ length' = [length EXCEPT ![t] = len]
  /\ buf' = [buf EXCEPT ![t] = << >>]
  /\ IF state \in {"READY", "REPEATED_START"}
       THEN /\ state' = IF direction = "R" THEN "RECEIVE" ELSE "TRANSMIT"
            /\ Step(t, IF state = "READY" THEN "start" ELSE "again")
       ELSE UNCHANGED state /\ Step(t, "poll")
  /\ UNCHANGED <<RX_REQUEST, registers, bus, i2csr>>

\* Mutant: the repeated start is not asked for.
Mut_Address(t, direction) ==
  IF mst THEN "address as data" ELSE IF direction = "R" THEN "address R" ELSE "address W"

\* A start makes a start condition only on a free bus; otherwise the address
\* is one more byte of the transfer that is under way.
Address(t, direction) ==
  IF mst /\ phase[t] = "start" THEN "address as data"
  ELSE IF direction = "R" THEN "address R" ELSE "address W"

Start(t, direction) ==
  /\ phase[t] \in {"start", "again"}
  /\ tx' = TRUE /\ iicif' = FALSE /\ mst' = TRUE
  /\ OPERATION' = OPERATION \cup {"STARTED"}
  /\ xfer' = Address(t, direction)
  /\ Step(t, "address")
  /\ UNCHANGED <<state, RX_REQUEST, txak, rxak, sensor, sent, d, register, lost, locals>>

Addressed(t) ==
  /\ phase[t] = "address" /\ iicif /\ Step(t, "poll")
  /\ UNCHANGED <<driver, registers, bus, locals>>

(***************************************************************************)
(* _ki2c_polled_rx_tx: look at the status until IICIF is set, then act on  *)
(* what was seen.  As long as IICIF is not set the task spins.  The call   *)
(* returns a number of bytes, which is left in i.                          *)
(***************************************************************************)
End(t, n) ==
  /\ Step(t, "returned")
  /\ i' = [i EXCEPT ![t] = n] /\ length' = [length EXCEPT ![t] = 0]

Poll(t) ==
  /\ phase[t] = "poll"
  /\ \/ /\ ~mst /\ i[t] = length[t]
        /\ End(t, i[t]) /\ UNCHANGED <<driver, i2csr>>
     \/ /\ ~mst /\ i[t] # length[t] /\ "STARTED" \in OPERATION
        /\ state' = "FINISHED" /\ OPERATION' = {} /\ RX_REQUEST' = 0
        /\ End(t, i[t]) /\ UNCHANGED i2csr
     \/ /\ mst \/ (i[t] # length[t] /\ "STARTED" \notin OPERATION)
        /\ iicif /\ i2csr' = [i2csr EXCEPT ![t] = rxak]
        /\ Step(t, "act") /\ UNCHANGED <<driver, i, length>>
  /\ UNCHANGED <<registers, bus, buf>>

Reading == "READ" \in OPERATION

\* The loop goes on with index next, or the call returns len.
Loop(t, next, len) ==
  IF next <= len
    THEN /\ i' = [i EXCEPT ![t] = next] /\ length' = [length EXCEPT ![t] = len]
         /\ Step(t, "poll")
    ELSE End(t, len)

Leave(t) == Loop(t, i[t] + 1, i[t])

NotAcknowledged(t) ==
  /\ mst /\ tx /\ i2csr[t]
  /\ iicif' = FALSE /\ state' = "FINISHED"
  /\ Leave(t)
  /\ UNCHANGED <<RX_REQUEST, mst, tx, txak, rxak, xfer, buf>>

TransmitByte(t) ==
  /\ mst /\ tx /\ ~i2csr[t] /\ state = "TRANSMIT" /\ ~Reading
  /\ Loop(t, i[t] + 1, length[t])
  /\ IF i[t] < length[t]
       THEN iicif' = FALSE /\ xfer' = "zero"
       ELSE UNCHANGED <<iicif, xfer>>
  /\ UNCHANGED <<state, RX_REQUEST, mst, tx, txak, rxak, buf>>

\* The address was acknowledged: turn round and clock in the first byte.
TurnRound(t) ==
  /\ mst /\ tx /\ ~i2csr[t] /\ state = "RECEIVE" /\ Reading
  /\ tx' = FALSE /\ txak' = (RX_REQUEST = 1) /\ iicif' = FALSE
  /\ IF RX_REQUEST = 0
       THEN state' = "FINISHED" /\ Leave(t) /\ UNCHANGED xfer
       ELSE xfer' = "in" /\ Loop(t, i[t], length[t]) /\ UNCHANGED state
  /\ UNCHANGED <<RX_REQUEST, mst, rxak, buf>>

ReceiveByte(t) ==
  LET left == RX_REQUEST - 1
  IN  /\ mst /\ ~tx /\ state = "RECEIVE" /\ Reading /\ RX_REQUEST # 0
      /\ IF i[t] < length[t]
           THEN /\ iicif' = FALSE /\ RX_REQUEST' = left
                /\ txak' = (left = 1)
                /\ buf' = [buf EXCEPT ![t] = Append(@, d)]
                /\ IF left = 0
                     THEN /\ state' = "FINISHED" /\ UNCHANGED xfer
                          /\ Loop(t, i[t] + 2, i[t] + 1)
                     ELSE /\ xfer' = "in" /\ UNCHANGED state
                          /\ Loop(t, i[t] + 1, length[t])
           ELSE /\ Loop(t, i[t] + 1, length[t])
                /\ UNCHANGED <<iicif, RX_REQUEST, txak, buf, state, xfer>>
      /\ UNCHANGED <<mst, tx, rxak>>

\* Anything else ends the call.  A master whose transaction another task has
\* stopped is a slave here, with nothing to send and nothing requested.
Unwanted(t) ==
  /\ mst => \/ tx /\ ~i2csr[t] /\ ~(state = "TRANSMIT" /\ ~Reading)
                                     /\ ~(state = "RECEIVE" /\ Reading)
            \/ ~tx /\ ~(state = "RECEIVE" /\ Reading /\ RX_REQUEST # 0)
  /\ Leave(t)
  /\ UNCHANGED <<state, RX_REQUEST, registers, xfer, buf>>

Act(t) ==
  /\ phase[t] = "act"
  /\ OPERATION' = OPERATION \cup {"STARTED"}
  /\ \/ NotAcknowledged(t) \/ TransmitByte(t) \/ TurnRound(t)
     \/ ReceiveByte(t) \/ Unwanted(t)
  /\ i2csr' = [i2csr EXCEPT ![t] = FALSE]
  /\ UNCHANGED <<sensor, sent, d, register, lost>>

\* fwrite and fread of len bytes.
Transact(t, direction, len) ==
  \/ Enter(t, direction, len) \/ Start(t, direction) \/ Addressed(t)
  \/ Poll(t) \/ Act(t)

-----------------------------------------------------------------------------
(***************************************************************************)
(* _ki2c_polled_ioctl.                                                     *)
(***************************************************************************)
\* IO_IOCTL_I2C_STOP
Stop ==
  /\ tx' = FALSE /\ txak' = FALSE /\ iicif' = FALSE /\ mst' = FALSE
  /\ state' = "READY" /\ OPERATION' = {} /\ RX_REQUEST' = 0
  /\ xfer' = "none" /\ sensor' = "off"
  /\ UNCHANGED <<rxak, sent, d, register, lost>>

\* IO_IOCTL_FLUSH_OUTPUT goes on once nothing is being sent.
Flushed == ~(tx /\ Busy /\ xfer # "none")

Flush ==
  IF "STARTED" \in OPERATION /\ ~Busy
    THEN state' = "FINISHED" /\ OPERATION' = {} /\ RX_REQUEST' = 0
    ELSE UNCHANGED driver

\* IO_IOCTL_I2C_REPEATED_START
MayRestart ==
  /\ mst
  /\ \/ state \in {"TRANSMIT", "FINISHED"}
     \/ state = "RECEIVE" /\ RX_REQUEST = 0

-----------------------------------------------------------------------------
I2cTypeOK ==
  /\ state \in {"READY", "REPEATED_START", "TRANSMIT", "RECEIVE", "FINISHED"}
  /\ OPERATION \subseteq {"READ", "STARTED"} /\ RX_REQUEST \in 0..2
  /\ {mst, tx, txak, iicif, rxak} \subseteq BOOLEAN
  /\ xfer \in {"none", "address W", "address R", "address as data", "zero", "in"}
  /\ register \in {"temperature", "other"} /\ lost \in BOOLEAN
  /\ sensor \in {"off", "selecting", "written", "sending"} /\ sent \in 0..2 /\ d \in 0..2
  /\ phase \in [Task -> {"enter", "start", "again", "address", "poll", "act", "returned"}]
  /\ i \in [Task -> 0..2] /\ length \in [Task -> 0..2]
  /\ i2csr \in [Task -> BOOLEAN]
  /\ buf \in [Task -> Seq(0..2)] /\ \A t \in Task : Len(buf[t]) <= 2
=============================================================================
