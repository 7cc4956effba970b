# Verification of the Frequency_Inverter firmware

TLA+ models of the firmware of a three-phase frequency inverter that drives the
motor of a lift or gate: when it may switch the power stage, how it ramps the
speed, how it handles commands from the CAN bus and trips from its safety chain,
how it measures currents and temperature, and how its bootloader stores an image.
TLC checks the models on small instances and TLAPS proves the theorems listed
below for all values of their constants.

Paths are relative to the repository. `Main/` stands for
`Firmware/Inverter_firmware/Main/` and `APP/` for
`Firmware/Inverter_bootloader/APP/`, `mqx/` for
`Firmware/Inverter_firmware/mqx/source/`.

## 1. The system

The board runs one of two programs. A bootloader (bare metal) checks the image in
flash, starts it, or receives a new one over the serial line. The application runs
on MQX, a pre-emptive real-time kernel: of the ready tasks the one of the highest
priority runs, interrupt handlers run above all tasks, and a task gives the
processor up only by blocking or to a higher one.

| task or handler | priority | where | what it does |
|---|---|---|---|
| CAN, PDB, FTM0, pin handlers | interrupt | `CAN_control.c`, `ADC_control.c`, `Motor_control.c`, `Pins_control.c` | turn hardware flags into event bits; FTM0 wakes the PWM task |
| `Motor_ISR_task` | 7 | `Motor_control.c:589` | one round each PWM period: next speed, end of a ramp, switch-off |
| `Control_task` | 8 | `Main.c:107` | waits for motor events, dispatches trips, stop and start |
| `CAN_Rx_Task`, `Measure_task` | 9 | `CAN_control.c:515`, `Main.c:351` | commands from the bus; RMS values of currents and voltages |
| `VT100_task` | 10 | `MonitorVT100.c` | operator's screens on the serial line |
| `LCD_task` | 11 | `Main.c:471` | display, fan |

### Components

**Motor drive** (`Motor_control.c`, `Pins_control.c`, `Main.c`). State: the PWM
overflow interrupt enable, which `PWM_state()` reads as "running"; the output
enable of the timer; the control block `mc_cbl` (direction, action, speed, ramp,
target speeds and times, failure flag); the event group `evt_grp`; two pins,
PWM_OE (safety chain) and VFO (driver fault). Operations: start, stop, emergency
stop, change of speed, one PWM period, the pin interrupts. `mc_cbl` is shared
without a lock by the PWM task, Control_task, CAN_Rx_Task and the monitor.
*Hard:* read-modify-write of the whole block across pre-emption; events set
between wait and clear; a switch-off of two register writes interrupted by a
switch-on; the order in which queued commands are served. *Correct when:* a trip
is never forgotten; outputs are never frozen in some state; the speed stays within
what was asked for; the direction never changes in motion; stop commands stop.

**CAN reception and log** (`CAN_control.c`). State: eight receive mailboxes with
flags, the event group `can_event`, the ring `rx_log` with head and tail and its
semaphore. The handler turns flags into events, CAN_Rx_Task reads mailboxes, logs
and executes the frames, the log screen of the monitor pops the ring.
*Hard:* frames arriving at every point; overrun; order by mailbox index instead of
arrival; a full ring under a reader. *Correct when:* no frame is forgotten, order
is kept within a bound, and the ring is a queue.

**CAN bit timing** (`Solve_can_timings`). A search for prescaler and time quanta.
*Hard:* division by a prescaler of 0, values of different rounds of a loop combined.

**Measurement** (`Measure_task`, `PDB0_isr`). State: a double buffer of ADC samples,
two "half full" events, a mutex, the results `meas_results` and their event, and the
sum and count of currents that `MC_init_speed_change` divides. The interrupt fills
the buffer, Measure_task evaluates the half it was told of, the monitor waits for
results and the display looks twice a second; both copy with preemption off.
*Hard:* a late task and the interrupt on the same half; both events at once; the
mutex locked again after a timeout; a copy under a task of higher priority; timeouts
racing events in the kernel. *Correct when:* a round is computed from one half, a
copy is of one round, no event is slept over and results keep coming.

**VT100 monitor** (`MonitorVT100.c`). Screens, menus, and edits of `mc_cbl`.
*Hard:* it works on a copy of `mc_cbl` taken before the operator types.

**LCD, fan, temperature** (`LCD_task`, `Temperature_control.c`, the polled I2C driver
`mqx/io/i2c/polled/i2c_pol_ki2c.c`). The display reads a sensor twice a second and
switches the fan by two thresholds; the motor screen of the monitor reads it too.
State: the driver's `STATE`, `OPERATION` and request, the registers of the I2C module,
what the sensor expects. *Hard:* two tasks in one driver without a lock, the higher
one preempting anywhere; a reading that fails in the middle; a driver that polls
without a limit. *Correct when:* a reading that succeeds is the sensor's two bytes,
every reading ends, and a hot module gets its fan.

**Kernel services** (`mqx/kernel/`: `lwevent.c`, `time.c`, `task.c`, `mutex.c`). Events,
timeouts, delays and the switch of preemption as the tasks above use them.

**Bootloader** (`APP/`). `Y_Loader.c` receives an image by YMODEM,
`flash_FTFL.c` erases and programs, `Main.c` compares an MD5 sum in a boot record
at the end of flash with the image and jumps to it. *Hard:* lost, repeated and
damaged packets; timeouts; loss of power between two writes. *Correct when:* only
a complete image is ever started and a broken transfer can be repeated. (The CAN
loader of `CAN_task.c` is compiled in, but the call in `Main.c` is commented out.)

The rest of MQX, the USB stacks, file systems and the motor control library are
third-party code. AES, MD5 and CRC are published algorithms. Both are data to
these models.

## 2. Plan

1. *Done:* motor drive. `SafetyTrip` (abstract), `MotorControl`,
   `MotorRefinement`, `MCMotorLive`, `MCMotorScreen`, `MotorProofs`.
2. *Done:* CAN reception. `LogQueue` (abstract), `CanReceive`, `CanReceiveProps`,
   `CanReceiveProofs`.
3. *Done:* bit timing. `CanTimings`, `MCCanTimings`, `CanTimingsProofs`.
4. *Done:* bootloader. `ImageStore` (abstract), `Bootloader`, `MCBootloader`,
   `YmodemSession`, `MCYmodemSession`, `BootloaderProofs`, `YmodemProofs`.
5. *Done:* measurement. `MqxEvents`, `Measure`, `MCMeasure`, `MeasureProofs`.
6. *Done:* temperature and fan. `I2cPolled`, `IgbtTemperature`, `TemperatureProofs`.
7. *Done:* wake-ups, accounting, repetitions and order of frames, `CanFramesProofs`.
8. Left: the pages of the display and the menus of the monitor, which hold no state that
   another part reads.

## 3. Modules

### MotorControl

| in the model | in the code |
|---|---|
| `toie`, `outputs` | FTM0 TOIE and SWOCTRL, written by `PWM_start`, `PWM_stop` |
| `cbl` | `mc_cbl`; frequencies in the fixed point of `ll_mot_freq`, scale `Q`, width `W` |
| `evt`, `sig` | `evt_grp`, and what `_lwevent_get_signalled` returned |
| `ctl`, `job`, `copy` | the point Control_task is at, the call it is in, the local copy of `mc_cbl` in `MC_init_speed_change` |
| `Motor_ISR_task` | one PWM period: `SkewStep`, `SkewEnd`, `AfterPeriod`, switch-off |
| `Dispatch_*` | the else-if chain of Control_task over the event bits |
| `SpeedChange_get/plan/set` | read, compute, write back in `MC_init_speed_change` |
| `CAN_Rx_start/stop/emergency`, `Rx_*` | commands of CAN_Rx_Task; an emergency stop in steps |
| `PORTA_isr`, `PORTB_isr`, `ChainEdge`, `VfoEdge` | the pins and their handlers |
| `VT100_snapshot/edit/key` | the motor screen |

A stretch of code that no other task or handler can observe half-way is one step;
where a higher task can cut in, the step is divided. Priorities are guards: a step
of a lower task requires the higher ones blocked. PWM amplitudes, tables and
sample generation are left out. `Times` are in tenths of a second; a ramp takes
`PerTenth` periods for each of them, and one period when the time is 0.

`SafetyTrip` says what a trip promises with three Booleans: a start is considered
only while no trip is outstanding, and only switching off ends a trip.
`MotorRefinement` maps the drive to it. `MCMotorLive` adds bounds on commands and
edges, and the fairness below; `MCMotorScreen` limits the events during an operator's
edit.

### CanReceive, LogQueue

Frames are numbers in the order of arrival, so "overtaken" and "handled twice" are
statements about numbers. A mailbox read is one step because the controller locks
the mailbox from the read of its CS word to the read of TIMER. `CAN_isr` is two
steps since the controller may receive between reading and resetting the flags.
`_lwevent_wait_ticks` returns what is set when it is called or, if it blocks, what
is set when it is woken; later bits stay in the group. The semaphore of the ring is
the log screen's state `advance`: CAN_Rx_Task cannot be pre-empted by the log
screen, so only that side is ever seen holding it. `LogQueue` is a bounded queue
that drops its oldest entry; `CanReceiveProps` maps the ring to it.

The choice of the mailbox (lowest free one; any, if all are unread) belongs to the
FlexCAN controller and is external.

### CanTimings

The loop as in the code, a round each action; the result encodes the registers.
The Cortex-M4 divides by zero to zero, and no code of the firmware enables the
trap. `MCCanTimings` supplies the bit rates.

### Bootloader, ImageStore, YmodemSession

| in the model | in the code |
|---|---|
| `pc` | `boot` to `app`: `main`; `wait`: `Ymodem_packets_receiving`; `pack` to `program`: `Ymodem_pack_prg_to_FLASH`; `finish`, `write_record`: `Finish_file_program`; `fault`: the fault handler |
| `ram` | the static variables of `Y_Loader.c` without the prefix `g_`; `boot_rec1`, `block`, `chain` (`chainCipherBlock`) |
| `flash` | the program area from `PROGRAMM_AREA_BEG_ADDR` on, the boot record in its last unit |
| `reply` | what `Send_byte` sent last |

A unit of data stands for the 128 bytes of a short packet and is known by its
image, its place in the file and whether it is encrypted; an MD5 sum matches if the
units of the image are all in their places, and decryption gives junk unless a unit
follows the one before it in the chain. Bytes of a packet arrive in one step. Each
flash command is a step, because power may fail between two and, with a partial
effect, within one. What a session leaves to the next is `block` and
`boot_encrypted`; all else is written before it is read, and is reset in the model.
`blocks_cnt` is capped by `MaxBlocks`; the code asks only whether it is zero.

`ImageStore` has four variables: the image stored, the one being loaded, the one
running, and whether an erase command has ever failed. `Bootloader` implements it
with the mapping `Store`. The fourth is the price of a truth: `Finish_file_program`
compares nothing, and if an erase command failed, a record of an earlier image may
have survived, so that blocks gathered from short packets under the header of one
image can complete the other, still recorded one. `Install` allows that image only
then; without an erase failure the image installed is the one whose header was
accepted. `YmodemSession` adds a sender that keeps to the protocol comment and a
line that loses and garbles packets; both are outside the repository.

### MqxEvents, Measure

`MqxEvents` is a library of operators on the kernel's variables, an action of a task
each being composed of them: `value` and `waiting` are the fields of the event group,
`td` the task descriptors (state, `LWEVENT_BITS`, `INFO`), `held` the tasks with
preemption off. A call that may block is two steps of its task, before and after.
Time-outs come at any moment. A task steps only while it is the ready task of the
highest priority or holds the processor with preemption off (`Running`).

| in the model | in the code |
|---|---|
| `smpls`, `arr_pos`, `lap` | the buffer and position of `PDB0_isr`; a sample is the half and lap it was taken in |
| `Measure_lock` to `Measure_unlock` | one round of `Measure_task`; `seen` is what the loop over a channel has read |
| `Copy_*` | `Get_copy_meas_results`, element by element |
| `VT100_*` | `Do_Meas_values_view`: the output of a line for each round |
| `LCD_show` | `LCD_task` |
| `late` | history: a half was full before the last one was evaluated |

Laps and rounds are numbered modulo `Laps` and `Rounds`.

### I2cPolled, IgbtTemperature

`I2cPolled` is one transfer of the polled driver with its registers: `Enter` and `Start`
are the head of `_ki2c_polled_tx/rx`, `Act` and its parts the state machine in the loop
of `_ki2c_polled_rx_tx`, `Poll` a look at IICIF. The bus and the MAX31725 sensor are
external: a byte is acknowledged or not, whenever the sensor likes. `IgbtTemperature`
composes the calls of `TempCtrl_read_IGBT_temperature`, made by the display and, at any
point between or inside them, by the monitor. A temperature is below, between or above
the two thresholds of `LCD_task`; `register` is what the two bytes are of.

## 4. Runs

| run | states | what it shows |
|---|---|---|
| `motor_safety` | 1,105,568 | safety, action properties and refinement with any number of commands, edges, samples |
| `motor_live` | 52,802 | stop, interrupted emergency stop and broken chain switch the drive off in the end |
| `motor_screen` | 3,241,040 | `SafetyTrip` is implemented with an operator who edits without end |
| `can_receive` | 92,796 | reception, order, wake-ups and the log |
| `can_timings` | 5,383 | fields and exactness for 348 bit rates at 60 MHz |
| `loader` | 959,484 | `ImageStore` and the invariants with any packets, failing commands, loss of power at any step |
| `loader_session` | 3,066 | six files over four contents of the flash: the transfer completes |
| `measure` | 396,310 | the double buffer, the results and their two readers over the kernel's events |
| `temperature` | 173,973 | two tasks in one I2C driver, a sensor that is silent at times, and the fan |
| `motor_operator`, `can_closest`, `temperature_ends` | | a disagreement of code and comment each, section 6 |

**Properties.** *Motor.* `BreakNeverForgotten`: chain open and PWM on or about to start
implies an interrupt or event still to be served. `NoFrozenOutputs`: outputs
without the PWM interrupt exist only inside the two writes of one `PWM_stop`.
`SpeedBounded`: the speed never exceeds what start, stop or final speeds allow by more
than the start speed, and never wraps, when every ramp takes time. `ClearedSpeedStays`:
a speed cleared under a running PWM, by an emergency stop that a start cut into, is not
made a running one by an old ramp or a copy written back. `DirectionHeld`: direction is constant in motion.
`ImplementsSafetyTrip`. `StopCommandStops`, `InterruptedEmergencyCompletes`,
`BreakStopsMotor`: each ends with the drive off.
*Reception.* `NoFrameForgotten`, `EveryFrameAccounted`, `RepeatsNeedOverruns`,
`BoundedOvertaking`, `NoLostWakeup`, `EveryFrameHandled`, `ImplementsLogQueue`.
*Bit timing.* `FieldsFit`, `ExactWhenPossible`.
*Bootloader.* `RecordNotOverwritten`: no size a sender announces makes the loader
program the place of the record. `DoneMeansStored`: the answer "programming is over" is
given only with image and record in flash. `RecordMeansImage`: a record never stands
before an incomplete image. `ImplementsImageStore`. `SuccessIsStored`,
`TransferCompletes`: what the sender is told, and that it gets there.
*Measurement.* `NoMissedEvent`: a task is in the queue of the event group exactly
while it sleeps there, and then none of its bits is set. `OneHalf`: the values of a
round are from one half of one lap unless Measure_task is late. `CopiesAreWhole`: a copy
is of one round. `MonitorUpToDate`: the monitor sleeps only after the last round
announced was copied. `ResultsKeepComing`, `MonitorPrints`.
*Temperature.* `ReadingIsRight`: a successful reading is two bytes of the sensor in
order, and if nobody interfered they are the temperature. `SilenceIsSurvived`: a sensor
missing whenever it is addressed is an error, and reading goes on. `HotMeansFan`: a module that stays
hot and can be read gets its fan back.

**Bounds.** *Motor:* `MIN_FREQ = 1`, `START_FREQ = 2`, `StopLow = 2`,
`StopHigh = 4` keep the order of the real 4, 5, 5, 15 with one speed between each
pair that the code compares; a target of 5 lies above them all; `Q = 2` makes
rounding visible and `W = 16` leaves room for a wrap to be seen; `PerTenth = 4`
gives ramps of four periods, so that every event falls before, inside and at the end of
one; it is the least at which a period takes no more than `MIN_FREQ + 1` off the speed,
as 1,600 periods do for the source's speeds. The safety run bounds nothing else. `motor_screen` lowers
`StopHigh` to 2, `W` to 4 and `Q` to 1, because an operator's stale block multiplies
every speed with every other, and lets one event at a time be queued or served
during an edit. The liveness runs use at most three commands and
one edge: a start, a stop and one more that interferes, and a trip anywhere.
*Reception:* three mailboxes are the least at which "lowest free", "highest in the
batch" and one in between differ; five frames fill them, overrun them and let the
most later frames overtake one (the bound of `BoundedOvertaking` is reached); a
ring of three slots holds two records, so it fills, wraps and drops. *Timing:* all
ratios from 6 to 300 and those around the ends of the prescaler's range.
*Bootloader:* a block of two units and packets of one and four keep what the code
compares: a short packet does not fill a block and a long one fills two. Two
sectors are the least with one for the record and one before it; `SeqMod = 2` makes
packet numbers wrap within a file. The announced sizes are none, the true one and one
too large. `loader_session` has images that end in a short packet, in a long one not
filled and at the end of one, the last of them needing two sectors; at most two
losses, and fewer than `MaxErrors` allows. A larger instance of `loader` (both images
plain, sizes none, 3 and 5) was followed over more than five million states without a
violation; the theorems of section 5 settle it for all.
*Measurement:* halves of two samples and results of two elements are the least in
which one can be cut in two; two laps and two rounds tell the current one from the one
before. *Temperature:* the sensor's two bytes and the two tasks are those of the code;
what the sensor does is unbounded.

**Fairness.** Interrupts that are raised are served, and the PWM timer fires while
enabled: weak fairness of the handlers and of `Motor_ISR_task`. Control_task is
below only those, each of which blocks after a bounded time: weak fairness. An
emergency stop of CAN_Rx_Task is enabled again and again between the steps of
higher tasks, and the processor is not saturated by them: strong fairness of its
steps. CAN_Rx_Task shares its priority with Measure_task, which blocks in every
round. The log screen runs whenever CAN_Rx_Task is blocked. In `Measure` conversions
go on and time passes: weak fairness of the interrupt and of the timeouts; Measure_task is the highest there:
weak fairness; the readers below it are preempted again and again: strong fairness. In
`IgbtTemperature` the monitor has weak fairness, the display below it strong, and a
byte under way on the bus ends. Commands, pin edges,
frames and the operator have no fairness. The bootloader is a loop without other
tasks: weak fairness of its steps and of the timeout; weak fairness of the sender,
which may lose at most `MaxLosses` packets and answers.

**Deadlock** is checked except for the timing function, which returns, and the session, which
ends with the application running.

## 5. Proofs

| theorem | module | statement |
|---|---|---|
| `TypeCorrect` | `MotorProofs` | `Spec => []TypeOK` |
| `BreakRemembered` | | `Spec => []BreakNeverForgotten` |
| `OutputsFollowPWM` | | `Spec => []NoFrozenOutputs` |
| `TripImplemented` | | `Spec => ImplementsSafetyTrip` |
| `DirectionKept` | | without an operator on the motor screen `Spec => DirectionHeld` |
| `ClearedSpeedKept` | | without an operator `Spec => ClearedSpeedStays` |
| `SpeedKept` | | without an operator and with `0 \notin Times`, `Spec => []SpeedBounded` |
| `ReceptionTyped`, `FramesRemembered` | `CanReceiveProofs` | types, `NoFrameForgotten` |
| `LogImplemented` | | `Spec => ImplementsLogQueue` |
| `NoWakeupLost`, `FramesAccounted` | `CanFramesProofs` | `NoLostWakeup`, `EveryFrameAccounted` |
| `RepeatsArePaidFor`, `OvertakingIsBounded` | | `RepeatsNeedOverruns`, `BoundedOvertaking` |
| `TimingsTyped`, `SolutionsFit`, `SolutionsExact` | `CanTimingsProofs` | types, `FieldsFit`, `ExactWhenPossible` |
| `LoaderTyped`, `RecordSafe`, `DoneStored`, `RecordComplete` | `BootloaderProofs` | types, `RecordNotOverwritten`, `DoneMeansStored`, `RecordMeansImage` |
| `StoreImplemented` | | `Spec => ImplementsImageStore` |
| `SuccessStored` | `YmodemProofs` | `SessionSpec => []SuccessIsStored` |
| `Typed`, `NoEventMissed`, `WholeCopies`, `UpToDate`, `RoundsOfOneHalf` | `MeasureProofs` | types, `NoMissedEvent`, `CopiesAreWhole`, `MonitorUpToDate`, `OneHalf` |
| `TemperatureTypes`, `ReadingsAreRight` | `TemperatureProofs` | types, `ReadingIsRight` |

*Assumptions* are on the constants only: `SpeedsAssumption` (order of the speed
limits, positive scale), `GradualAssumption` (a period of the steepest ramp of a tenth of a second takes at most
`MIN_FREQ + 1` off the speed),
`SizesAssumption` (a mailbox, two ring slots), `RatesAssumption` (positive rates),
`ImagesAssumption` and `LengthsAssumption` (an image is not empty and its file known;
positive lengths of packets, blocks and sectors, room for a record),
`SessionAssumption` (more than one packet number: it is a byte),
`TaskAssumption` and `MeasureAssumption` (three tasks of different priorities, three bits),
`TemperatureAssumption` (the display and the monitor are the two tasks).
The values of the source satisfy them.

*Motor.* `BreakNeverForgotten` is not inductive: that a start which saw the chain
closed still leaves an event for the edge depends on where Control_task is and
which bits it holds. `ControlInv` ties the local state of Control_task (`ctl`,
`sig`, `job`) to the event group, and the conjunction with `BreakNeverForgotten`
and `NoFrozenOutputs` is inductive. The refinement needs the same invariant: a
trip in `sig` is cleared only by the dispatch that switches off. `DirectionHeld`
needs `DirectionInv`: a start's copy of `mc_cbl` still carries the direction while
the PWM runs. `ClearedSpeedStays` needs `Moving`: under a running PWM the speed is above
`MIN_FREQ` or wholly cleared, ramp included, and a copy about to be written back is that
of a drive above `MIN_FREQ`. `SpeedBounded` needs to know of every ramp in `mc_cbl`, also
one left over from an earlier movement, that it is harmless from where it began and from
the start speed: `Moderate` bounds where the rest of the ramp leads, its step down and the
distance between the rounded and the fixed-point speed, and each period keeps it or leaves
the speed so low that the period switches the drive off.

*Reception.* `NoFrameForgotten` needs that the flags `CAN_isr` is about to reset
are events already, and that a batch is replaced only when empty. The ring needs
two lemmas on its arithmetic (`PushRecords`, `PopRecords`) and `LogInv`: the log
screen's copy is the oldest record as long as it holds the semaphore.
`EveryFrameAccounted` is made inductive by `Distinct` (two waiting mailboxes hold
different frames) and `ReadBefore` (a mailbox that waits no more holds a frame already
handled or being handled): a stale event makes the task read such a mailbox again.
`RepeatsNeedOverruns` counts tokens: a flag not yet reported, an event and a place in the
batch each promise a read of their mailbox. An arrival makes at most one, and `Balanced`
says that tokens and frames handled together never exceed the frames read, unread and lost.
As every unread mailbox has a token (`UnreadHaveTokens`), what is handled more often than
it was read is paid for by a lost frame. `BoundedOvertaking` cuts the handled frames where
the batch in hand began (`Split`): without overruns all before that point are older than
every frame still to be read, so a frame is overtaken only within its batch, and a batch
has at most as many frames as there are mailboxes.

*Timing.* The delicate value is the prescaler, written less one. A ratio of 7
passes the first test of the function, and every prescaler is then 0; `Solvable`
says that no TQ is chosen in that case, since a frequency of 0 is exactly the
initial `lowest_diff` away. `ExactWhenPossible` needs to know what the rounds gone by have
seen (`Searched`): the loop comes down from the largest TQ and ends at the first that is
exact, which therefore has the lowest prescaler.

*Bootloader.* `LoaderInv` is types, `ControlInv` and `FlashInv`. `ControlInv` says where
the control is: which header was accepted when data are taken (`Accepted`), which
phases may follow (`Phases`), what a repeated packet finds (`Repeats`), and that what is
left of the file fits before the record (`Room`). `FlashInv` says what the flash holds:
while blocks are programmed the record is blank or complete as it was (`Unrecorded`),
the record is written only over a complete image (`Complete`), and what was started is
stored (`Started`). Loss of power keeps only `FlashInv`, which is why it speaks of the
flash wherever the control is.

*Session.* `SuccessIsStored` relates two programs that see only each other's packets. Its
invariant, `SessionInv`, goes by the point the sender is at. While it sends data
(`DataPhase`), all units in the loader are of its file or of none (`DataOf`); if the
loader would take the sender's next packet, both have as much of the file to go
(`Expecting`); in the middle of a packet what is left of packet and file agree (`InHand`);
and an acknowledgement means that the loader has moved on by that packet, or that the file
is done (`Acknowledged`). So the sender reaches the end of its file only when the loader
has; `DoneMeansStored` says that an image is complete in flash then, and `DataOf` that it
is the sender's. With a single packet number it would be false, since a repeated first
packet would pass for the next. A sender may send what `Arrival` does not enumerate, so the
lemmas about packets are for every packet of the right type (`PacketLoader`).

*Measurement.* The kernel part: the bits a task asked for (`BitsAsked`), who can sleep
where (`Asleep`, `Places`, `Held`). On it rest `Copying` (a reader with preemption off
keeps Measure_task between two rounds, so all elements are of the round announced),
`Monitored` (a monitor that has copied an older round finds the event set) and, for
`OneHalf`, `Filled` (the half the interrupt is not in is of one lap) with `InStep`
(unless it is late, the half Measure_task works on is that one).

*Temperature.* The invariant `ReadingInv` has three parts. A task that polls for a byte
either holds the transaction (`Holds`: what it has asked for, what the sensor has sent and
what its buffer has fit together) or no transaction of a reading is under way (`Dropped`)
and it gets no byte at all: the monitor's calls may take the bus away, but they cannot leave
it where a byte of theirs would count as one of the display's. To show that, `Passing`
follows the monitor through its own reading while the display waits, and `Restartable` says
in which states of the driver it may find, and leave, an interrupted reading. That a
reading is of the temperature needs more: as long as nothing was disturbed only one task is
inside the function (`Alone`), and `Protocol` says for each of its calls in which state
driver, bus and sensor are. The clause is conditional, since after a missing
acknowledgement or an interruption it need not hold; `temperature_ends` shows what follows.

*Only model-checked:* all liveness properties, as fairness and ENABLED are out of the
prover's reach. Every safety invariant, action property and refinement that a run checks
is proved.

## 6. Where code and comments disagree

* `motor_operator`: the monitor's stale copy undoes a stop command.
* `can_closest`: without an exact match the best TQ is paired with the prescaler of
  the last TQ tried. The rate the board uses has an exact match.
* `temperature_ends`: a reading that fails after its address was acknowledged leaves the
  driver in FINISHED, and the next reading spins for ever. The display means to flag
  the error.

Met while modelling, and part of the models without a run of their own.

*Motor:* a write-back after a switch-off leaves a stopped motor in the action of a
ramp; a start to the start speed leaves `MOT_IDLE` on a running motor; without a current
sample the average is 0/0 and a stop ends at the speed meant for large currents; a ramp
written after a switch-off stays for the next start, and with ramp time 0, which the bus
may send, it can be a step of one period that takes the fixed-point speed of that start
below 0 (with `Times = {0, 1}` and `MoveFreqs = {0, 5}` TLC finds `SpeedBounded` violated
after about 30 steps); a start
set during the pause after a driver fault runs after a later emergency stop.
*Bootloader:* the CRC of a packet is not looked at, so damaged data are acknowledged
and refused by the MD5 sum at the end of the file; `boot_encrypted` is never set back, so
after an encrypted file a plain one is refused until the next reset; a data packet
repeated after a lost acknowledgement is answered with NAK for ever; a block gathered
from several short packets keeps only the last; an image of an odd number of words makes
`Flash_ByteProgram` run past its end; after a failed erase command an old record can
complete the image it belongs to instead of the one announced.
*Measurement:* a Measure_task that is late by a half evaluates a half the interrupt is
writing; with both events set it takes the first half. It is in step again after its next
wait that blocks. LCD_task declares 8 elements for the 11 that are copied.
*Temperature:* if the display is preempted between choosing the direction and the start
condition, the monitor's reading leaves the driver in a state in which the display's
address goes out as a data byte or its pointer selects another register; a monitor
that reads in the middle of the display's reading can hang either task.

`PROJECT.json` quotes the comments.

## 7. Not modelled

*Of the project's own code:* register set-up of timer, converters and CAN; PWM
amplitudes, modulation and its tables, and the conversion of samples (floating point);
layout of display and menus; the start-up tests; the reset of the average current (a few
instructions with interrupts off). Reception assumes that mailbox set-up has finished:
a mailbox is configured in freeze mode, in which no frame arrives. Frames with other
identifiers than the inverter's pass the mask into the log and have no further effect.
The CAN loader of the bootloader (`CAN_task.c`) is dead code: its only call, in
`APP/Main.c:84`, is commented out, and a model of it would be one of no run of the
program. The bootloader's USB code is glue to the vendor's stack and moves no image.

*Of the code of others:* nearly all of the repository's half a million lines are MQX with
its board packages, register headers, USB, TCP/IP, file systems and touch library, built
or only shipped with the application. They are modelled where an own task depends on
their order of steps: events, delays, timeouts, preemption, the mutex and the polled I2C
driver. Register headers and unused libraries have no behaviour of this program to
state, so the share of all lines that the models cover stays small whatever is added;
of the application's and the bootloader's own control code it is most.
