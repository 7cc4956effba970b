---------------------------- MODULE MotorControl ----------------------------
(***************************************************************************)
(* The motor drive of the inverter firmware: Control_task (Main.c), the    *)
(* PWM task Motor_ISR_task and the control block mc_cbl (Motor_control.c), *)
(* the PWM_OE and VFO pin interrupts (Pins_control.c), the command part of *)
(* CAN_Rx_Task (CAN_control.c), the current average that Measure_task      *)
(* keeps, and the motor screen of the VT100 monitor.                       *)
(*                                                                         *)
(* Scheduling.  MQX runs the ready task of the highest priority:           *)
(*   Motor_ISR_task 7 > Control_task 8 > CAN_Rx_Task, Measure_task 9       *)
(*   > VT100_task 10, and interrupt handlers above them all.  A step of    *)
(* a lower task needs the higher ones blocked.  A stretch of code no other *)
(* task or handler can observe half-way is one step.                       *)
(*                                                                         *)
(* Frequencies keep the source's fixed point: ll_mot_freq counts 1/Q of a  *)
(* unit and wraps at W * Q (Q = W = 2^32 in the source).  PWM amplitudes   *)
(* (pwm_scale and its ramp) and the generated samples are left out.        *)
(***************************************************************************)
EXTENDS Integers, FiniteSets

CONSTANTS
  MIN_FREQ,     \* speed at which the drive is switched off (4)
  START_FREQ,   \* speed at which it is switched on (5)
  StopLow,      \* final speed of a stop moving up, low current (5)
  StopHigh,     \* final speed of a stop moving up, otherwise (15)
  PerTenth,     \* PWM periods in a tenth of a second (1600)
  Q, W,         \* scale and range of the fixed-point speed (2^32, 2^32)
  MoveFreqs,    \* target speeds a command or the operator may give
  Times,        \* ramp times a command or the operator may give
  VT100Active   \* is an operator on the motor screen of the monitor?

ASSUME SpeedsAssumption ==
  /\ MIN_FREQ \in Nat /\ START_FREQ \in Nat
  /\ StopLow \in Nat /\ StopHigh \in Nat
  /\ MIN_FREQ < START_FREQ /\ START_FREQ <= StopLow /\ StopLow <= StopHigh
  /\ PerTenth \in Nat \ {0} /\ Q \in Nat \ {0} /\ W \in Nat \ {0}
  /\ MoveFreqs \subseteq Nat /\ Times \subseteq Nat
  /\ VT100Active \in BOOLEAN

\* A ramp is slow against the PWM period: one period of the steepest one takes
\* no more than MIN_FREQ + 1 off the speed (260 Hz over at least 1600 periods).
ASSUME GradualAssumption ==
  \A f \in MoveFreqs \cup {StopHigh} :
    f + START_FREQ <= (MIN_FREQ + 1) * PerTenth

VARIABLES
  toie,         \* FTM0 overflow interrupt enabled: what PWM_state() reads
  outputs,      \* FTM0_SWOCTRL = 0: the PWM drives the power switches
  cbl,          \* mc_cbl, the motor control block
  aver,         \* Get_aver_curr(): no sample yet, below 9.0, or not below
  evt,          \* evt_grp: the event bits Control_task waits for
  sig,          \* the bits the last wait of Control_task returned
  ctl,          \* where Control_task is
  job,          \* arguments of the call Control_task is in
  copy,         \* local copy of mc_cbl in MC_init_speed_change
  chainOpen,    \* level of pin PWM_OE: high when the safety chain is broken
  irqA,         \* PORTA interrupt flag
  vfoLow,       \* level of pin VFO: low while the driver reports a fault
  irqB,         \* PORTB interrupt flag
  rx,           \* where CAN_Rx_Task is in an emergency stop
  vtOpen,       \* the monitor holds a snapshot of mc_cbl
  vtCopy        \* ... which is this one

pwm   == <<toie, outputs>>
ctask == <<ctl, sig, job, copy>>
pins  == <<chainOpen, irqA, vfoLow, irqB>>
vt    == <<vtOpen, vtCopy>>
vars  == <<pwm, cbl, aver, evt, ctask, pins, rx, vt>>

Dirs    == {"up", "down"}
Actions == {"idle", "start", "stop", "uniform"}
Events  == {"VFO_FALL", "PWM_OE_RISE", "MOTOR_STOP",
            "MOTOR_START_DOWN", "MOTOR_START_UP"}
StartEvent(dir) == IF dir = "up" THEN "MOTOR_START_UP" ELSE "MOTOR_START_DOWN"

\* The speed and the ramp it is on: skew_cnt more steps of ll_step.
Speeds == [mot_freq : Nat, ll_mot_freq : Nat, skew_cnt : Nat, ll_step : Int]

Cbl == [action : Actions, direction : Dirs, speed : Speeds,
        motor_drv_fail : {0, 1},
        move_freq : [Dirs -> Nat], acceler_time : [Dirs -> Nat],
        deceler_time : [Dirs -> Nat]]

Jobs  == [action : {"start", "stop"}, dir : Dirs, target : Nat, time : Nat]
NoJob == [action |-> "stop", dir |-> "up", target |-> 0, time |-> 0]

-----------------------------------------------------------------------------
(* mc_cbl after MC_init_PWM: zeroed static storage and the default profile *)

Rest == [mot_freq |-> 0, ll_mot_freq |-> 0, skew_cnt |-> 0, ll_step |-> 0]

DefaultCbl(f, t) ==
  [action |-> "idle", direction |-> "up", speed |-> Rest, motor_drv_fail |-> 0,
   move_freq |-> [d \in Dirs |-> f], acceler_time |-> [d \in Dirs |-> t],
   deceler_time |-> [d \in Dirs |-> t]]

Blank == DefaultCbl(0, 0)

\* The entry of Control_task's loop: everything is installed, nothing moves.
Init ==
  /\ toie = FALSE /\ outputs = FALSE
  /\ \E f \in MoveFreqs, t \in Times : cbl = DefaultCbl(f, t)
  /\ aver = "none"
  /\ evt = {} /\ sig = {} /\ ctl = "wait" /\ job = NoJob /\ copy = Blank
  /\ chainOpen \in BOOLEAN /\ vfoLow \in BOOLEAN
  /\ irqA = FALSE /\ irqB = FALSE
  /\ rx = "idle"
  /\ vtOpen = FALSE /\ vtCopy = Blank

-----------------------------------------------------------------------------
(* Events and scheduling *)

\* _lwevent_set: the bits join the group, and a waiting Control_task is made
\* ready with the bits it waits for.
MC_set_events(bits) ==
  /\ evt' = evt \cup bits
  /\ IF ctl = "wait" /\ evt \cup bits # {}
       THEN ctl' = "got" /\ sig' = evt \cup bits
       ELSE UNCHANGED <<ctl, sig>>
  /\ UNCHANGED <<job, copy>>

\* Back at the top of the loop: _lwevent_wait_ticks returns at once when a
\* bit is set and blocks otherwise (its 2-tick timeout only blinks a LED).
WaitForEvents ==
  /\ IF evt # {} THEN ctl' = "got"  /\ sig' = evt
                 ELSE ctl' = "wait" /\ sig' = {}
  /\ job' = NoJob /\ copy' = Blank

ControlBlocked == ctl \in {"wait", "delay"}
LowTaskMayRun  == ControlBlocked /\ rx = "idle"

-----------------------------------------------------------------------------
(* Speed changes *)

\* Mutant: the emergency stop clears the speed but not the ramp.
Mut_Stopped(c) == [c EXCEPT !.speed.mot_freq = 0, !.action = "idle"]

\* The assignments MC_emergency_stop_motor makes with interrupts disabled.
Stopped(c) == [c EXCEPT !.speed = Rest, !.action = "idle"]

\* A C conversion to integer truncates towards zero.
Truncated(a, b) == IF a < 0 THEN -((-a) \div b) ELSE a \div b

\* The final speed of a change: a stop moving up that takes time ends at
\* StopLow or StopHigh.  With no sample the average is 0/0, and a NaN is not
\* below 9.0.
FinalFreq(c, j) ==
  IF j.action = "stop" /\ c.direction = "up" /\ j.time # 0
    THEN IF aver = "low" THEN StopLow ELSE StopHigh
    ELSE j.target

\* The ramp MC_init_speed_change puts in its copy c for the call j.
Ramped(c, j) ==
  LET n    == IF j.time # 0 THEN j.time * PerTenth ELSE 1
      diff == FinalFreq(c, j) - c.speed.mot_freq
  IN  [c EXCEPT !.action = j.action,
                !.speed = [mot_freq |-> c.speed.mot_freq,
                           ll_mot_freq |-> c.speed.ll_mot_freq,
                           skew_cnt |-> n,
                           ll_step |-> Truncated(diff * Q, n)]]

\* One PWM period of a ramp: the step is added, the speed is the rounded sum.
SkewStep(s) ==
  LET ll == (s.ll_mot_freq + s.ll_step) % (W * Q)
  IN  [mot_freq |-> ((ll + (Q \div 2)) % (W * Q)) \div Q,
       ll_mot_freq |-> ll, skew_cnt |-> s.skew_cnt - 1, ll_step |-> s.ll_step]

\* Mutant: the end of a stop ramp does not stop.
Mut_SkewEnd(c) == [c EXCEPT !.action = "uniform"]

\* The last period of a ramp: a stop ends in an emergency stop, and either
\* way the action becomes uniform motion.
SkewEnd(c) ==
  [(IF c.action = "stop" THEN Stopped(c) ELSE c) EXCEPT !.action = "uniform"]

\* Mutant: the ramp goes on when its counter has run out.
Mut_AfterPeriod(c) ==
  LET moved == [c EXCEPT !.speed = SkewStep(c.speed)]
  IN  IF c.speed.skew_cnt = 1 THEN SkewEnd(moved) ELSE moved

AfterPeriod(c) ==
  LET moved == [c EXCEPT !.speed = SkewStep(c.speed)]
  IN  IF c.speed.skew_cnt = 0 THEN c
      ELSE IF c.speed.skew_cnt = 1 THEN SkewEnd(moved) ELSE moved

-----------------------------------------------------------------------------
(* Motor_ISR_task, resumed by every FTM0 overflow interrupt *)

Motor_ISR_task ==
  LET c    == AfterPeriod(cbl)
      slow == c.speed.mot_freq <= MIN_FREQ
  IN  /\ toie
      /\ cbl' = IF slow THEN Stopped(c) ELSE c
      /\ toie' = ~slow
      /\ outputs' = (outputs /\ ~slow)
      /\ aver' = IF \/ slow
                    \/ cbl.speed.skew_cnt = 1 /\ cbl.direction = "up"
                                        /\ cbl.action = "start"
                 THEN "none" ELSE aver
      /\ UNCHANGED <<evt, ctask, pins, rx, vt>>

-----------------------------------------------------------------------------
(* Control_task *)

\* Mutant: the whole group is cleared, with what came after the wait.
Mut_Control_clear ==
  /\ ctl = "got"
  /\ evt' = {}
  /\ ctl' = "dispatch"
  /\ UNCHANGED <<pwm, cbl, aver, sig, job, copy, pins, rx, vt>>

\* MC_get_events clears the bits the wait returned.
Control_clear ==
  /\ ctl = "got"
  /\ evt' = evt \ sig
  /\ ctl' = "dispatch"
  /\ UNCHANGED <<pwm, cbl, aver, sig, job, copy, pins, rx, vt>>

\* Mutant: the power switches stay with the PWM.
Mut_EmergencyStop(fail) ==
  /\ toie' = FALSE /\ outputs' = outputs
  /\ cbl' = [Stopped(cbl) EXCEPT !.motor_drv_fail = fail]
  /\ aver' = "none"

\* MC_emergency_stop_motor in Control_task: only interrupt handlers that
\* touch none of this can interrupt it once the PWM interrupt is off.
EmergencyStop(fail) ==
  /\ toie' = FALSE /\ outputs' = FALSE
  /\ cbl' = [Stopped(cbl) EXCEPT !.motor_drv_fail = fail]
  /\ aver' = "none"

\* The driver reported a fault: stop, raise the flag, pause for 5 s.
Dispatch_VFO_FALL ==
  /\ ctl = "dispatch" /\ "VFO_FALL" \in sig
  /\ EmergencyStop(1)
  /\ ctl' = "delay" /\ sig' = {}
  /\ UNCHANGED <<evt, job, copy, pins, rx, vt>>

Control_delay_end ==
  /\ ctl = "delay"
  /\ cbl' = [cbl EXCEPT !.motor_drv_fail = 0]
  /\ WaitForEvents
  /\ UNCHANGED <<pwm, aver, evt, pins, rx, vt>>

\* The safety chain was broken.
Dispatch_PWM_OE_RISE ==
  /\ ctl = "dispatch" /\ "VFO_FALL" \notin sig /\ "PWM_OE_RISE" \in sig
  /\ EmergencyStop(cbl.motor_drv_fail)
  /\ WaitForEvents
  /\ UNCHANGED <<evt, pins, rx, vt>>

\* The first event of the else-if chain after the two trips.
FirstCommand ==
  IF "MOTOR_STOP" \in sig THEN "MOTOR_STOP"
  ELSE IF "MOTOR_START_DOWN" \in sig THEN "MOTOR_START_DOWN"
  ELSE "MOTOR_START_UP"

NoTrip == sig \cap {"VFO_FALL", "PWM_OE_RISE"} = {}

\* MC_stop_motor_moving, with the deceleration time of the direction.
Dispatch_MOTOR_STOP ==
  /\ ctl = "dispatch" /\ NoTrip /\ FirstCommand = "MOTOR_STOP"
  /\ IF toie
       THEN /\ job' = [action |-> "stop", dir |-> cbl.direction, target |-> 0,
                       time |-> cbl.deceler_time[cbl.direction]]
            /\ ctl' = "get" /\ sig' = {}
            /\ UNCHANGED copy
       ELSE WaitForEvents
  /\ UNCHANGED <<pwm, cbl, aver, evt, pins, rx, vt>>

\* Mutant: a start does not look whether the PWM is on.
Mut_MayStart == ~chainOpen

MayStart == ~toie /\ ~chainOpen

\* MC_start_motor_moving: nothing unless the PWM is off and the chain closed.
Dispatch_MOTOR_START(dir) ==
  /\ ctl = "dispatch" /\ NoTrip /\ FirstCommand = StartEvent(dir)
  /\ IF MayStart
       THEN /\ job' = [action |-> "start", dir |-> dir,
                       target |-> cbl.move_freq[dir],
                       time |-> cbl.acceler_time[dir]]
            /\ ctl' = "start" /\ sig' = {}
            /\ UNCHANGED copy
       ELSE WaitForEvents
  /\ UNCHANGED <<pwm, cbl, aver, evt, pins, rx, vt>>

\* PWM_start at START_FREQ.
PWM_start ==
  /\ ctl = "start"
  /\ cbl' = [cbl EXCEPT !.direction = job.dir,
                        !.speed = [@ EXCEPT !.mot_freq = START_FREQ,
                                            !.ll_mot_freq = START_FREQ * Q]]
  /\ toie' = TRUE /\ outputs' = TRUE
  /\ ctl' = "get"
  /\ UNCHANGED <<aver, evt, sig, job, copy, pins, rx, vt>>

\* MC_init_speed_change, first part: MC_get_CBL(&cbl).
SpeedChange_get ==
  /\ ctl = "get"
  /\ copy' = cbl
  /\ ctl' = "plan"
  /\ UNCHANGED <<pwm, cbl, aver, evt, sig, job, pins, rx, vt>>

\* Second part: the ramp is computed in the copy, and nothing is done when
\* the speed asked for is the speed the copy has.
SpeedChange_plan ==
  /\ ctl = "plan"
  /\ IF job.target # copy.speed.mot_freq
       THEN /\ copy' = Ramped(copy, job) /\ ctl' = "set"
            /\ UNCHANGED <<aver, sig, job>>
       ELSE aver' = "none" /\ WaitForEvents
  /\ UNCHANGED <<pwm, cbl, evt, pins, rx, vt>>

\* Last part: MC_set_CBL(&cbl) writes the whole block, then Reset_aver_curr.
SpeedChange_set ==
  /\ ctl = "set"
  /\ cbl' = copy
  /\ aver' = "none"
  /\ WaitForEvents
  /\ UNCHANGED <<pwm, evt, pins, rx, vt>>

Control_task ==
  \/ Control_clear \/ Dispatch_VFO_FALL \/ Control_delay_end
  \/ Dispatch_PWM_OE_RISE \/ Dispatch_MOTOR_STOP
  \/ \E dir \in Dirs : Dispatch_MOTOR_START(dir)
  \/ PWM_start \/ SpeedChange_get \/ SpeedChange_plan \/ SpeedChange_set

-----------------------------------------------------------------------------
(* The pins and their interrupt handlers *)

ChainEdge ==
  /\ chainOpen' = ~chainOpen /\ irqA' = TRUE
  /\ UNCHANGED <<pwm, cbl, aver, evt, ctask, vfoLow, irqB, rx, vt>>

VfoEdge ==
  /\ vfoLow' = ~vfoLow /\ irqB' = TRUE
  /\ UNCHANGED <<pwm, cbl, aver, evt, ctask, chainOpen, irqA, rx, vt>>

\* The handlers clear the flag and read the level the pin has by then.
\* PWM_OE_FALL and VFO_RISE are set too, but nobody waits for them.
PORTA_isr ==
  /\ irqA /\ irqA' = FALSE
  /\ MC_set_events(IF chainOpen THEN {"PWM_OE_RISE"} ELSE {})
  /\ UNCHANGED <<pwm, cbl, aver, chainOpen, vfoLow, irqB, rx, vt>>

PORTB_isr ==
  /\ irqB /\ irqB' = FALSE
  /\ MC_set_events(IF vfoLow THEN {"VFO_FALL"} ELSE {})
  /\ UNCHANGED <<pwm, cbl, aver, chainOpen, irqA, vfoLow, rx, vt>>

-----------------------------------------------------------------------------
(* CAN_Rx_Task: the three commands of an INVERT_REQ message *)

CAN_Rx_start(dir, freq, time) ==
  /\ LowTaskMayRun
  /\ cbl' = [cbl EXCEPT !.move_freq[dir] = freq, !.acceler_time[dir] = time]
  /\ MC_set_events({StartEvent(dir)})
  /\ UNCHANGED <<pwm, aver, pins, rx, vt>>

CAN_Rx_stop(time) ==
  /\ LowTaskMayRun
  /\ cbl' = [cbl EXCEPT !.deceler_time[cbl.direction] = time]
  /\ MC_set_events({"MOTOR_STOP"})
  /\ UNCHANGED <<pwm, aver, pins, rx, vt>>

\* The emergency stop is carried out by CAN_Rx_Task itself, below
\* Control_task: it may be preempted between any two of its writes.
CAN_Rx_emergency ==
  /\ LowTaskMayRun
  /\ rx' = "toie"
  /\ UNCHANGED <<pwm, cbl, aver, evt, ctask, pins, vt>>

Rx_PWM_stop_toie ==
  /\ rx = "toie" /\ ControlBlocked
  /\ toie' = FALSE
  /\ rx' = "swo"
  /\ UNCHANGED <<outputs, cbl, aver, evt, ctask, pins, vt>>

Rx_PWM_stop_outputs ==
  /\ rx = "swo" /\ ControlBlocked
  /\ outputs' = FALSE
  /\ rx' = "clear"
  /\ UNCHANGED <<toie, cbl, aver, evt, ctask, pins, vt>>

Rx_emergency_clear ==
  /\ rx = "clear" /\ ControlBlocked
  /\ cbl' = Stopped(cbl)
  /\ rx' = "reset"
  /\ UNCHANGED <<pwm, aver, evt, ctask, pins, vt>>

Rx_Reset_aver_curr ==
  /\ rx = "reset" /\ ControlBlocked
  /\ aver' = "none"
  /\ rx' = "idle"
  /\ UNCHANGED <<pwm, cbl, evt, ctask, pins, vt>>

Rx_emergency_step ==
  \/ Rx_PWM_stop_toie \/ Rx_PWM_stop_outputs
  \/ Rx_emergency_clear \/ Rx_Reset_aver_curr

-----------------------------------------------------------------------------
(* Measure_task adds a sample to the average; the VT100 motor screen *)

Measure_task ==
  /\ LowTaskMayRun
  /\ aver' \in {"low", "high"}
  /\ UNCHANGED <<pwm, cbl, evt, ctask, pins, rx, vt>>

\* Each pass of Do_motor_test copies mc_cbl before it waits for a key.
VT100_snapshot ==
  /\ VT100Active /\ LowTaskMayRun
  /\ vtOpen' = TRUE /\ vtCopy' = cbl
  /\ UNCHANGED <<pwm, cbl, aver, evt, ctask, pins, rx>>

\* An edited field goes back with the rest of the copy taken before it.
VT100_edit ==
  /\ vtOpen /\ LowTaskMayRun
  /\ \E d \in Dirs :
       \/ \E f \in MoveFreqs \ {0} : cbl' = [vtCopy EXCEPT !.move_freq[d] = f]
       \/ \E t \in Times : cbl' = [vtCopy EXCEPT !.acceler_time[d] = t]
       \/ \E t \in Times : cbl' = [vtCopy EXCEPT !.deceler_time[d] = t]
  /\ vtOpen' = FALSE /\ vtCopy' = Blank
  /\ UNCHANGED <<pwm, aver, evt, ctask, pins, rx>>

VT100_key(event) ==
  /\ VT100Active /\ LowTaskMayRun
  /\ MC_set_events({event})
  /\ UNCHANGED <<pwm, cbl, aver, pins, rx, vt>>

-----------------------------------------------------------------------------

Commands ==
  \/ \E dir \in Dirs, f \in MoveFreqs, t \in Times : CAN_Rx_start(dir, f, t)
  \/ \E t \in Times : CAN_Rx_stop(t)
  \/ CAN_Rx_emergency
  \/ VT100_snapshot \/ VT100_edit
  \/ \E e \in Events \ {"VFO_FALL", "PWM_OE_RISE"} : VT100_key(e)

Edges == ChainEdge \/ VfoEdge

System ==
  \/ Motor_ISR_task \/ Control_task \/ PORTA_isr \/ PORTB_isr
  \/ Rx_emergency_step \/ Measure_task

Next == Commands \/ Edges \/ System

Spec == Init /\ [][Next]_vars

\* The PWM timer and the pins interrupt whatever runs; Control_task waits for
\* interrupt handlers and Motor_ISR_task only, which leave it most of the
\* time; CAN_Rx_Task gets the processor whenever Control_task blocks, and it
\* blocks again and again.
Fairness ==
  /\ WF_vars(Motor_ISR_task) /\ WF_vars(Control_task)
  /\ WF_vars(PORTA_isr) /\ WF_vars(PORTB_isr)
  /\ SF_vars(Rx_emergency_step)

FairSpec == Spec /\ Fairness

-----------------------------------------------------------------------------
(* Properties *)

TypeOK ==
  /\ toie \in BOOLEAN /\ outputs \in BOOLEAN
  /\ cbl \in Cbl /\ copy \in Cbl /\ vtCopy \in Cbl
  /\ aver \in {"none", "low", "high"}
  /\ evt \subseteq Events /\ sig \subseteq Events
  /\ ctl \in {"wait", "got", "dispatch", "start", "get", "plan", "set", "delay"}
  /\ job \in Jobs
  /\ chainOpen \in BOOLEAN /\ irqA \in BOOLEAN
  /\ vfoLow \in BOOLEAN /\ irqB \in BOOLEAN
  /\ rx \in {"idle", "toie", "swo", "clear", "reset"}
  /\ vtOpen \in BOOLEAN

\* A trip (broken chain or driver fault) that Control_task has yet to act on.
TripPending ==
  {"PWM_OE_RISE", "VFO_FALL"} \cap (evt \cup sig) # {}

\* While the PWM runs, or is about to be switched on by a start that already
\* looked at the pin, an open safety chain is never forgotten: its interrupt
\* or a trip event is still to be served.  At stake: an edge between
\* Pin_PWM_OE_state() and PWM_start, or between _lwevent_get_signalled and
\* _lwevent_clear, after which the motor would run on over an open chain.
BreakNeverForgotten ==
  chainOpen /\ (toie \/ ctl = "start") => irqA \/ TripPending

\* The power switches are never left at a frozen PWM pattern: outputs without
\* the interrupt that updates them exist only between the two writes of the
\* PWM_stop that CAN_Rx_Task makes.
NoFrozenOutputs == outputs /\ ~toie => rx = "swo"

\* A stop carried out by CAN_Rx_Task while Control_task switches the drive on
\* in between is completed by the next PWM period: a speed of 0 with the PWM
\* interrupt on is never turned into a running ramp again.
ClearedSpeedStays ==
  [][toie /\ toie' /\ cbl.speed.mot_freq = 0 => cbl'.speed.mot_freq = 0]_vars

\* The direction never changes under a running PWM.
DirectionHeld ==
  [][toie /\ toie' => cbl'.direction = cbl.direction]_vars

\* No ramp takes the speed more than START_FREQ above the highest speed ever
\* asked for, not even the rest of an old ramp that a late write of
\* SpeedChange_set left behind and a new start runs into.  It needs ramps that
\* take time: what is left of a start within one period can be a step back
\* that takes the fixed-point speed of the next start below 0.
SpeedBounded ==
  \E f \in MoveFreqs \cup {StopHigh} : cbl.speed.mot_freq <= f + START_FREQ

\* A stop command that Control_task has not consumed yet switches the PWM off.
StopCommandStops == "MOTOR_STOP" \in evt \cup sig ~> ~toie

\* When Control_task switches the drive on between the first write of an
\* emergency stop in CAN_Rx_Task and its last ones, the PWM is left on with
\* its outputs forced off; it does not stay so.
InterruptedEmergencyCompletes == rx = "clear" /\ toie ~> ~toie

\* A running motor with an open safety chain is switched off.
BreakStopsMotor == toie /\ chainOpen ~> ~toie

=============================================================================
