---------------------------- MODULE MotorProofs ----------------------------
(***************************************************************************)
(* Theorems about MotorControl for every value of its constants: types,    *)
(* the two invariants about the safety chain and the power outputs, the    *)
(* direction of a running motor, the refinement of SafetyTrip, and the     *)
(* speed of the drive when nobody edits on the motor screen.               *)
(***************************************************************************)
EXTENDS MotorRefinement, TLAPS

-----------------------------------------------------------------------------
(* Types *)

\* What WaitForEvents and MC_set_events leave in Control_task's variables.
LEMMA BlankType == Blank \in Cbl /\ Rest \in Speeds /\ NoJob \in Jobs
BY DEF Blank, DefaultCbl, Rest, Cbl, Speeds, Dirs, Actions, NoJob, Jobs

LEMMA WaitType ==
  ASSUME TypeOK, WaitForEvents
  PROVE  /\ ctl' \in {"got", "wait"} /\ sig' \subseteq Events
         /\ job' \in Jobs /\ copy' \in Cbl
BY BlankType DEF TypeOK, WaitForEvents

LEMMA SetEventsType ==
  ASSUME TypeOK, NEW bits \in SUBSET Events, MC_set_events(bits)
  PROVE  /\ evt' \subseteq Events /\ sig' \subseteq Events
         /\ ctl' \in {"wait", "got", "dispatch", "start", "get", "plan",
                      "set", "delay"}
         /\ UNCHANGED <<job, copy>>
BY DEF TypeOK, MC_set_events

LEMMA StoppedType ==
  ASSUME NEW c \in Cbl
  PROVE  Stopped(c) \in Cbl
BY BlankType DEF Stopped, Cbl, Actions

LEMMA RangePositive == Q \in Nat \ {0} /\ W * Q \in Nat \ {0}
BY SpeedsAssumption

\* One PWM period of a ramp: the wrapped sum and its rounding are numbers.
LEMMA SkewStepType ==
  ASSUME NEW s \in Speeds, s.skew_cnt # 0
  PROVE  SkewStep(s) \in Speeds
<1> DEFINE M  == W * Q
           ll == (s.ll_mot_freq + s.ll_step) % M
           h  == (ll + (Q \div 2)) % M
<1>1. Q \in Nat \ {0} /\ M \in Nat \ {0}
  BY RangePositive
<1>2. s.ll_mot_freq + s.ll_step \in Int
  BY DEF Speeds
<1> HIDE DEF M
<1>3. ll \in Nat
  BY <1>1, <1>2
<1> HIDE DEF ll
<1>4. Q \div 2 \in Int
  BY <1>1
<1>5. h \in Nat
  BY <1>1, <1>3, <1>4
<1> HIDE DEF h
<1>6. h \div Q \in Nat
  BY <1>1, <1>5
<1>7. SkewStep(s) = [mot_freq |-> h \div Q, ll_mot_freq |-> ll,
                     skew_cnt |-> s.skew_cnt - 1, ll_step |-> s.ll_step]
  BY DEF SkewStep, h, ll, M
<1>8. s.skew_cnt - 1 \in Nat /\ s.ll_step \in Int
  BY DEF Speeds
<1>9. QED
  BY <1>3, <1>6, <1>7, <1>8 DEF Speeds

LEMMA AfterPeriodType ==
  ASSUME NEW c \in Cbl
  PROVE  AfterPeriod(c) \in Cbl
<1> DEFINE moved == [c EXCEPT !.speed = SkewStep(c.speed)]
<1>1. c.speed \in Speeds
  BY DEF Cbl
<1>2. ASSUME c.speed.skew_cnt # 0
      PROVE  moved \in Cbl /\ SkewEnd(moved) \in Cbl
  <2>1. SkewStep(c.speed) \in Speeds
    BY <1>1, <1>2, SkewStepType
  <2>2. moved \in Cbl
    BY <2>1 DEF Cbl
  <2> HIDE DEF moved
  <2>3. Stopped(moved) \in Cbl
    BY <2>2, StoppedType
  <2>4. QED
    BY <2>2, <2>3 DEF SkewEnd, Cbl, Actions
<1>3. QED
  BY <1>2 DEF AfterPeriod

LEMMA RampedType ==
  ASSUME NEW c \in Cbl, NEW j \in Jobs
  PROVE  Ramped(c, j) \in Cbl
<1> DEFINE n    == IF j.time # 0 THEN j.time * PerTenth ELSE 1
           diff == FinalFreq(c, j) - c.speed.mot_freq
           sp   == [mot_freq |-> c.speed.mot_freq,
                    ll_mot_freq |-> c.speed.ll_mot_freq, skew_cnt |-> n,
                    ll_step |-> Truncated(diff * Q, n)]
<1>1. j.time \in Nat /\ j.target \in Nat /\ j.action \in Actions
  BY DEF Jobs, Actions
<1>2. c.speed.mot_freq \in Nat /\ c.speed.ll_mot_freq \in Nat
  BY DEF Cbl, Speeds
<1>3. n \in Nat \ {0}
  BY <1>1, SpeedsAssumption
<1>4. diff \in Int
  BY <1>1, <1>2, SpeedsAssumption DEF FinalFreq
<1> HIDE DEF n, diff
<1>5. diff * Q \in Int
  BY <1>4, RangePositive
<1>6. Truncated(diff * Q, n) \in Int
  <2> DEFINE a == diff * Q
  <2>1. a \in Int
    BY <1>5
  <2> HIDE DEF a
  <2>2. (-a) \div n \in Int /\ a \div n \in Int
    BY <2>1, <1>3
  <2>3. QED
    BY <2>2 DEF Truncated, a
<1>7. sp \in Speeds
  BY <1>2, <1>3, <1>6 DEF Speeds
<1>8. Ramped(c, j) = [c EXCEPT !.action = j.action, !.speed = sp]
  BY DEF Ramped, n, diff
<1> HIDE DEF sp
<1>9. QED
  BY <1>1, <1>7, <1>8 DEF Cbl

\* The profile fields a CAN command writes.
LEMMA ProfileType ==
  ASSUME NEW c \in Cbl, NEW d \in Dirs, NEW n \in Nat, NEW m \in Nat
  PROVE  /\ [c EXCEPT !.move_freq[d] = n] \in Cbl
         /\ [c EXCEPT !.acceler_time[d] = n] \in Cbl
         /\ [c EXCEPT !.deceler_time[d] = n] \in Cbl
         /\ [c EXCEPT !.move_freq[d] = n, !.acceler_time[d] = m] \in Cbl
<1>1. /\ [c.move_freq EXCEPT ![d] = n] \in [Dirs -> Nat]
      /\ [c.acceler_time EXCEPT ![d] = n] \in [Dirs -> Nat]
      /\ [c.acceler_time EXCEPT ![d] = m] \in [Dirs -> Nat]
      /\ [c.deceler_time EXCEPT ![d] = n] \in [Dirs -> Nat]
  BY DEF Cbl
<1>2. QED
  BY <1>1 DEF Cbl

LEMMA InitType == Init => TypeOK
<1> SUFFICES ASSUME Init PROVE TypeOK
  OBVIOUS
<1>1. PICK f \in MoveFreqs, t \in Times : cbl = DefaultCbl(f, t)
  BY DEF Init
<1>2. f \in Nat /\ t \in Nat
  BY SpeedsAssumption
<1>3. cbl \in Cbl
  BY <1>1, <1>2, BlankType DEF DefaultCbl, Cbl, Actions, Dirs
<1>4. QED
  BY <1>3, BlankType DEF Init, TypeOK, Events

LEMMA ControlType ==
  ASSUME TypeOK, Control_task
  PROVE  TypeOK'
<1> USE DEF TypeOK, pwm, ctask, pins, vt
<1>1. CASE Control_clear
  BY <1>1 DEF Control_clear
<1>2. CASE Dispatch_VFO_FALL
  BY <1>2, StoppedType DEF Dispatch_VFO_FALL, EmergencyStop, Cbl
<1>3. CASE Control_delay_end
  BY <1>3, WaitType DEF Control_delay_end, Cbl
<1>4. CASE Dispatch_PWM_OE_RISE
  BY <1>4, StoppedType, WaitType
     DEF Dispatch_PWM_OE_RISE, EmergencyStop, Cbl
<1>5. CASE Dispatch_MOTOR_STOP
  <2>1. [action |-> "stop", dir |-> cbl.direction, target |-> 0,
         time |-> cbl.deceler_time[cbl.direction]] \in Jobs
    BY DEF Cbl, Jobs
  <2>2. QED
    BY <1>5, <2>1, WaitType DEF Dispatch_MOTOR_STOP
<1>6. ASSUME NEW dir \in Dirs, Dispatch_MOTOR_START(dir)
      PROVE  TypeOK'
  <2>1. [action |-> "start", dir |-> dir, target |-> cbl.move_freq[dir],
         time |-> cbl.acceler_time[dir]] \in Jobs
    BY DEF Cbl, Jobs
  <2>2. QED
    BY <1>6, <2>1, WaitType DEF Dispatch_MOTOR_START
<1>7. CASE PWM_start
  <2> DEFINE sp == [cbl.speed EXCEPT !.mot_freq = START_FREQ,
                                     !.ll_mot_freq = START_FREQ * Q]
  <2>1. START_FREQ \in Nat /\ START_FREQ * Q \in Nat
    BY SpeedsAssumption
  <2>2. sp \in Speeds
    BY <2>1 DEF Cbl, Speeds
  <2>3. cbl' = [cbl EXCEPT !.direction = job.dir, !.speed = sp]
    BY <1>7 DEF PWM_start
  <2> HIDE DEF sp
  <2>4. cbl' \in Cbl
    BY <2>2, <2>3 DEF Cbl, Jobs
  <2>5. QED
    BY <1>7, <2>4 DEF PWM_start
<1>8. CASE SpeedChange_get
  BY <1>8 DEF SpeedChange_get
<1>9. CASE SpeedChange_plan
  BY <1>9, RampedType, WaitType DEF SpeedChange_plan
<1>10. CASE SpeedChange_set
  BY <1>10, WaitType DEF SpeedChange_set
<1>11. QED
  BY <1>1, <1>2, <1>3, <1>4, <1>5, <1>6, <1>7, <1>8, <1>9, <1>10
     DEF Control_task

LEMMA CommandsType ==
  ASSUME TypeOK, Commands
  PROVE  TypeOK'
<1> USE DEF TypeOK, pwm, ctask, pins, vt
<1>1. ASSUME NEW dir \in Dirs, NEW f \in MoveFreqs, NEW t \in Times,
             CAN_Rx_start(dir, f, t)
      PROVE  TypeOK'
  <2>1. StartEvent(dir) \in Events
    BY DEF StartEvent, Events
  <2>2. cbl' \in Cbl
    BY <1>1, ProfileType, SpeedsAssumption DEF CAN_Rx_start
  <2>3. QED
    BY <1>1, <2>1, <2>2, SetEventsType DEF CAN_Rx_start
<1>2. ASSUME NEW t \in Times, CAN_Rx_stop(t)
      PROVE  TypeOK'
  <2>1. cbl.direction \in Dirs /\ t \in Nat
    BY SpeedsAssumption DEF Cbl
  <2>2. cbl' \in Cbl
    BY <1>2, <2>1, ProfileType DEF CAN_Rx_stop
  <2>3. {"MOTOR_STOP"} \in SUBSET Events
    BY DEF Events
  <2>4. QED
    BY <1>2, <2>2, <2>3, SetEventsType DEF CAN_Rx_stop
<1>3. CASE CAN_Rx_emergency
  BY <1>3 DEF CAN_Rx_emergency
<1>4. CASE VT100_snapshot
  BY <1>4 DEF VT100_snapshot
<1>5. CASE VT100_edit
  <2>1. cbl' \in Cbl
    <3>1. vtCopy \in Cbl /\ MoveFreqs \subseteq Nat /\ Times \subseteq Nat
      BY SpeedsAssumption
    <3> HIDE DEF TypeOK
    <3>2. PICK d \in Dirs :
            \/ \E f \in MoveFreqs : cbl' = [vtCopy EXCEPT !.move_freq[d] = f]
            \/ \E t \in Times : cbl' = [vtCopy EXCEPT !.acceler_time[d] = t]
            \/ \E t \in Times : cbl' = [vtCopy EXCEPT !.deceler_time[d] = t]
      BY <1>5 DEF VT100_edit
    <3>3. PICK n \in Nat :
            \/ cbl' = [vtCopy EXCEPT !.move_freq[d] = n]
            \/ cbl' = [vtCopy EXCEPT !.acceler_time[d] = n]
            \/ cbl' = [vtCopy EXCEPT !.deceler_time[d] = n]
      BY <3>1, <3>2
    <3>4. /\ [vtCopy EXCEPT !.move_freq[d] = n] \in Cbl
          /\ [vtCopy EXCEPT !.acceler_time[d] = n] \in Cbl
          /\ [vtCopy EXCEPT !.deceler_time[d] = n] \in Cbl
      BY <3>1, ProfileType
    <3>5. QED
      BY <3>3, <3>4
  <2>2. vtOpen' \in BOOLEAN /\ vtCopy' \in Cbl
    BY <1>5, BlankType DEF VT100_edit
  <2>3. /\ UNCHANGED <<toie, outputs, aver, evt, ctl, sig, job, copy>>
        /\ UNCHANGED <<chainOpen, irqA, vfoLow, irqB, rx>>
    BY <1>5 DEF VT100_edit
  <2>4. QED
    BY <2>1, <2>2, <2>3
<1>6. ASSUME NEW e \in Events, VT100_key(e)
      PROVE  TypeOK'
  BY <1>6, SetEventsType DEF VT100_key
<1>7. QED
  BY <1>1, <1>2, <1>3, <1>4, <1>5, <1>6 DEF Commands

LEMMA NextType ==
  ASSUME TypeOK, [Next]_vars
  PROVE  TypeOK'
<1> USE DEF TypeOK, pwm, ctask, pins, vt
<1>1. CASE Motor_ISR_task
  <2> DEFINE c == AfterPeriod(cbl)
  <2>1. c \in Cbl /\ Stopped(c) \in Cbl
    BY AfterPeriodType, StoppedType
  <2>2. cbl' \in Cbl /\ toie' \in BOOLEAN /\ outputs' \in BOOLEAN
    BY <1>1, <2>1 DEF Motor_ISR_task
  <2>3. QED
    BY <1>1, <2>2 DEF Motor_ISR_task
<1>2. CASE PORTA_isr
  <2>1. (IF chainOpen THEN {"PWM_OE_RISE"} ELSE {}) \in SUBSET Events
    BY DEF Events
  <2>2. QED
    BY <1>2, <2>1, SetEventsType DEF PORTA_isr
<1>3. CASE PORTB_isr
  <2>1. (IF vfoLow THEN {"VFO_FALL"} ELSE {}) \in SUBSET Events
    BY DEF Events
  <2>2. QED
    BY <1>3, <2>1, SetEventsType DEF PORTB_isr
<1>4. CASE Rx_emergency_step
  <2>1. CASE Rx_PWM_stop_toie
    BY <2>1 DEF Rx_PWM_stop_toie
  <2>2. CASE Rx_PWM_stop_outputs
    BY <2>2 DEF Rx_PWM_stop_outputs
  <2>3. CASE Rx_emergency_clear
    BY <2>3, StoppedType DEF Rx_emergency_clear
  <2>4. CASE Rx_Reset_aver_curr
    BY <2>4 DEF Rx_Reset_aver_curr
  <2>5. QED
    BY <1>4, <2>1, <2>2, <2>3, <2>4 DEF Rx_emergency_step
<1>5. CASE Measure_task
  BY <1>5 DEF Measure_task
<1>6. CASE Edges
  BY <1>6 DEF Edges, ChainEdge, VfoEdge
<1>7. CASE UNCHANGED vars
  BY <1>7 DEF vars
<1>8. QED
  BY <1>1, <1>2, <1>3, <1>4, <1>5, <1>6, <1>7, ControlType, CommandsType
     DEF Next, System

\* Every variable of MotorControl keeps its type: the speeds stay numbers
\* under the wrapping sums of Motor_ISR_task and the divisions of
\* MC_init_speed_change, and Control_task is always at a known place.
THEOREM TypeCorrect == Spec => []TypeOK
<1>1. Init => TypeOK
  BY InitType
<1>2. TypeOK /\ [Next]_vars => TypeOK'
  BY NextType
<1>3. QED
  BY <1>1, <1>2, PTL DEF Spec

-----------------------------------------------------------------------------
(* The invariants about the safety chain and the power outputs *)

\* What Control_task's place says about the events it works on: it waits
\* only with none set, drops the bits it works on before it waits or starts
\* anything, and is about to switch the PWM on only while it is off.
ControlInv ==
  /\ ctl = "wait" => evt = {} /\ sig = {}
  /\ ctl \notin {"got", "dispatch"} => sig = {}
  /\ ctl = "start" => ~toie

SafetyInv == ControlInv /\ BreakNeverForgotten /\ NoFrozenOutputs

\* Going back to the wait loses no trip that is still in the group.
LEMMA WaitKeepsTrips ==
  ASSUME WaitForEvents, evt' = evt, NoTrip
  PROVE  /\ TripPending' <=> TripPending
         /\ ctl' \in {"got", "wait"}
         /\ ctl' = "wait" => evt' = {} /\ sig' = {}
         /\ ctl' = "got" => sig' = evt'
<1>1. {"PWM_OE_RISE", "VFO_FALL"} \cap sig = {}
  BY DEF NoTrip
<1>2. TripPending' <=> {"PWM_OE_RISE", "VFO_FALL"} \cap evt # {}
  BY DEF WaitForEvents, TripPending
<1>3. TripPending <=> {"PWM_OE_RISE", "VFO_FALL"} \cap evt # {}
  BY <1>1 DEF TripPending
<1>4. QED
  BY <1>2, <1>3 DEF WaitForEvents

\* Setting events loses no trip ...
LEMMA SetKeepsTrips ==
  ASSUME NEW bits, MC_set_events(bits), ControlInv,
         TripPending \/ bits \cap {"PWM_OE_RISE", "VFO_FALL"} # {}
  PROVE  TripPending'
<1>1. evt' = evt \cup bits
  BY DEF MC_set_events
<1>2. CASE ctl = "wait"
  <2>1. sig = {}
    BY <1>2 DEF ControlInv
  <2>2. QED
    BY <1>1, <2>1 DEF TripPending
<1>3. CASE ctl # "wait"
  <2>1. sig' = sig
    BY <1>3 DEF MC_set_events
  <2>2. QED
    BY <1>1, <2>1 DEF TripPending
<1>4. QED
  BY <1>2, <1>3

\* ... and wakes Control_task only from its wait.
LEMMA SetWakes ==
  ASSUME NEW bits, MC_set_events(bits), ControlInv
  PROVE  \/ ctl' = "got" /\ ctl = "wait" /\ sig' = evt'
         \/ ctl' = ctl /\ sig' = sig /\ (ctl = "wait" => evt' = {})
<1>1. CASE ctl = "wait" /\ evt \cup bits # {}
  BY <1>1 DEF MC_set_events
<1>2. CASE ~(ctl = "wait" /\ evt \cup bits # {})
  <2>1. evt' = evt \cup bits /\ sig' = sig /\ ctl' = ctl
    BY <1>2 DEF MC_set_events
  <2>2. ASSUME ctl = "wait" PROVE evt' = {}
    BY <1>2, <2>1, <2>2
  <2>3. QED
    BY <2>1, <2>2
<1>3. QED
  BY <1>1, <1>2

LEMMA SafetyInit == Init => SafetyInv
BY DEF Init, SafetyInv, ControlInv, BreakNeverForgotten, NoFrozenOutputs

LEMMA ControlSafety ==
  ASSUME TypeOK, SafetyInv, Control_task
  PROVE  SafetyInv'
<1> USE DEF SafetyInv, ControlInv, BreakNeverForgotten, NoFrozenOutputs, pins
<1>1. CASE Control_clear
  BY <1>1 DEF Control_clear, TripPending, pwm
<1>2. CASE Dispatch_VFO_FALL
  BY <1>2 DEF Dispatch_VFO_FALL, EmergencyStop
<1>3. CASE Control_delay_end
  <2>1. NoTrip
    BY <1>3 DEF Control_delay_end, NoTrip
  <2>2. QED
    BY <1>3, <2>1, WaitKeepsTrips DEF Control_delay_end, pwm
<1>4. CASE Dispatch_PWM_OE_RISE
  BY <1>4 DEF Dispatch_PWM_OE_RISE, EmergencyStop, WaitForEvents
<1>5. CASE Dispatch_MOTOR_STOP
  <2>1. CASE toie
    BY <1>5, <2>1 DEF Dispatch_MOTOR_STOP, NoTrip, TripPending, pwm
  <2>2. CASE ~toie
    BY <1>5, <2>2, WaitKeepsTrips DEF Dispatch_MOTOR_STOP, pwm
  <2>3. QED
    BY <2>1, <2>2
<1>6. ASSUME NEW dir \in Dirs, Dispatch_MOTOR_START(dir)
      PROVE  SafetyInv'
  <2>1. CASE MayStart
    BY <1>6, <2>1 DEF Dispatch_MOTOR_START, MayStart, pwm
  <2>2. CASE ~MayStart
    BY <1>6, <2>2, WaitKeepsTrips DEF Dispatch_MOTOR_START, pwm
  <2>3. QED
    BY <2>1, <2>2
<1>7. CASE PWM_start
  BY <1>7 DEF PWM_start, TripPending
<1>8. CASE SpeedChange_get
  BY <1>8 DEF SpeedChange_get, TripPending, pwm
<1>9. CASE SpeedChange_plan
  <2>1. NoTrip
    BY <1>9 DEF SpeedChange_plan, NoTrip
  <2>2. CASE job.target # copy.speed.mot_freq
    BY <1>9, <2>2 DEF SpeedChange_plan, TripPending, pwm
  <2>3. CASE job.target = copy.speed.mot_freq
    BY <1>9, <2>1, <2>3, WaitKeepsTrips DEF SpeedChange_plan, pwm
  <2>4. QED
    BY <2>2, <2>3
<1>10. CASE SpeedChange_set
  <2>1. NoTrip
    BY <1>10 DEF SpeedChange_set, NoTrip
  <2>2. QED
    BY <1>10, <2>1, WaitKeepsTrips DEF SpeedChange_set, pwm
<1>11. QED
  BY <1>1, <1>2, <1>3, <1>4, <1>5, <1>6, <1>7, <1>8, <1>9, <1>10
     DEF Control_task

LEMMA NextSafety ==
  ASSUME TypeOK, SafetyInv, [Next]_vars
  PROVE  SafetyInv'
<1> USE DEF SafetyInv, ControlInv, BreakNeverForgotten, NoFrozenOutputs
<1>1. CASE Motor_ISR_task
  BY <1>1 DEF Motor_ISR_task, TypeOK, TripPending, ctask, pins
<1>2. CASE PORTA_isr
  <2>1. chainOpen => TripPending'
    BY <1>2, SetKeepsTrips DEF PORTA_isr
  <2>2. QED
    BY <1>2, <2>1, SetWakes DEF PORTA_isr, pwm
<1>3. CASE PORTB_isr
  BY <1>3, SetKeepsTrips, SetWakes DEF PORTB_isr, pwm
<1>4. CASE Rx_emergency_step
  <2>1. CASE Rx_PWM_stop_toie
    BY <2>1 DEF Rx_PWM_stop_toie, ControlBlocked, ctask, pins
  <2>2. CASE Rx_PWM_stop_outputs
    BY <2>2 DEF Rx_PWM_stop_outputs, ctask, pins, TripPending
  <2>3. CASE Rx_emergency_clear
    BY <2>3 DEF Rx_emergency_clear, pwm, ctask, pins, TripPending
  <2>4. CASE Rx_Reset_aver_curr
    BY <2>4 DEF Rx_Reset_aver_curr, pwm, ctask, pins, TripPending
  <2>5. QED
    BY <1>4, <2>1, <2>2, <2>3, <2>4 DEF Rx_emergency_step
<1>5. CASE Measure_task
  BY <1>5 DEF Measure_task, LowTaskMayRun, pwm, ctask, pins, TripPending
<1>6. CASE Edges
  BY <1>6 DEF Edges, ChainEdge, VfoEdge, pwm, ctask, TripPending
<1>7. CASE Commands
  <2>1. ASSUME NEW bits, MC_set_events(bits), UNCHANGED <<toie, outputs>>,
               UNCHANGED <<chainOpen, irqA, rx>>
        PROVE  SafetyInv'
    BY <2>1, SetKeepsTrips, SetWakes
  <2>2. ASSUME NEW dir \in Dirs, NEW f \in MoveFreqs, NEW t \in Times,
               CAN_Rx_start(dir, f, t)
        PROVE  SafetyInv'
    BY <2>1, <2>2 DEF CAN_Rx_start, pwm, pins
  <2>3. ASSUME NEW t \in Times, CAN_Rx_stop(t)
        PROVE  SafetyInv'
    BY <2>1, <2>3 DEF CAN_Rx_stop, pwm, pins
  <2>4. CASE CAN_Rx_emergency
    BY <2>4 DEF CAN_Rx_emergency, LowTaskMayRun, pwm, ctask, pins, TripPending
  <2>5. CASE VT100_snapshot
    BY <2>5 DEF VT100_snapshot, pwm, ctask, pins, TripPending
  <2>6. CASE VT100_edit
    BY <2>6 DEF VT100_edit, pwm, ctask, pins, TripPending
  <2>7. ASSUME NEW e, VT100_key(e)
        PROVE  SafetyInv'
    BY <2>1, <2>7 DEF VT100_key, pwm, pins
  <2>8. QED
    BY <1>7, <2>2, <2>3, <2>4, <2>5, <2>6, <2>7 DEF Commands
<1>8. CASE UNCHANGED vars
  BY <1>8 DEF vars, pwm, ctask, pins, TripPending
<1>9. QED
  BY <1>1, <1>2, <1>3, <1>4, <1>5, <1>6, <1>7, <1>8, ControlSafety
     DEF Next, System

LEMMA SafetyInvariant == Spec => [](TypeOK /\ SafetyInv)
<1>1. Init => TypeOK /\ SafetyInv
  BY InitType, SafetyInit
<1>2. TypeOK /\ SafetyInv /\ [Next]_vars => (TypeOK /\ SafetyInv)'
  BY NextType, NextSafety
<1>3. QED
  BY <1>1, <1>2, PTL DEF Spec

\* An open safety chain under a running or starting PWM always has an
\* interrupt or a trip event still to be served, whatever the order in which
\* pin edges, commands, the event clear of Control_task and the stop of
\* CAN_Rx_Task fall.
THEOREM BreakRemembered == Spec => []BreakNeverForgotten
<1>1. SafetyInv => BreakNeverForgotten
  BY DEF SafetyInv
<1>2. QED
  BY <1>1, SafetyInvariant, PTL

\* The outputs are driven without the PWM interrupt only inside the PWM_stop
\* of CAN_Rx_Task, even when Control_task preempts that PWM_stop and starts
\* or stops the drive in the middle of it.
THEOREM OutputsFollowPWM == Spec => []NoFrozenOutputs
<1>1. SafetyInv => NoFrozenOutputs
  BY DEF SafetyInv
<1>2. QED
  BY <1>1, SafetyInvariant, PTL

-----------------------------------------------------------------------------
(* The motor drive implements SafetyTrip *)

LEMMA TripBooleans ==
  /\ TripPending \in BOOLEAN /\ TripPending' \in BOOLEAN
  /\ Considering \in BOOLEAN /\ Considering' \in BOOLEAN
BY DEF TripPending, Considering

\* A step that leaves the drive and the trips alone is a stutter, or begins
\* or ends the consideration of commands.
LEMMA QuietStep ==
  ASSUME toie' = toie, TripPending' = TripPending,
         Considering' => Considering \/ ~TripPending
  PROVE  [Trip!Next]_(Trip!vars)
<1>1. CASE Considering' = Considering
  BY <1>1 DEF Trip!vars
<1>2. CASE Considering' # Considering /\ Considering'
  <2>1. ~TripPending /\ Considering' = TRUE
    BY <1>2, TripBooleans
  <2>2. QED
    BY <2>1 DEF Trip!Next, Trip!Consider
<1>3. CASE Considering' # Considering /\ ~Considering'
  <2>1. Considering /\ Considering' = FALSE
    BY <1>3, TripBooleans
  <2>2. QED
    BY <2>1 DEF Trip!Next, Trip!Withdraw
<1>4. QED
  BY <1>1, <1>2, <1>3

LEMMA SignalStep ==
  ASSUME toie' = toie, TripPending', Considering' = Considering
  PROVE  [Trip!Next]_(Trip!vars)
<1>1. TripPending' = TRUE
  BY TripBooleans
<1>2. QED
  BY <1>1 DEF Trip!Next, Trip!Signal

LEMMA HandleStep ==
  ASSUME TripPending, ~Considering, toie' = FALSE,
         TripPending' => ~Considering'
  PROVE  [Trip!Next]_(Trip!vars)
BY TripBooleans DEF Trip!Next, Trip!HandleTrip

LEMMA SwitchOffStep ==
  ASSUME toie' = FALSE \/ toie' = toie,
         TripPending' = TripPending, Considering' = Considering
  PROVE  [Trip!Next]_(Trip!vars)
BY DEF Trip!Next, Trip!SwitchOff, Trip!vars

\* Commands taken up after a wait are considered only without a trip.
LEMMA WaitStep ==
  ASSUME WaitForEvents, evt' = evt, NoTrip, toie' = toie
  PROVE  [Trip!Next]_(Trip!vars)
<1>1. TripPending' = TripPending
  BY WaitKeepsTrips, TripBooleans
<1>2. ASSUME Considering' PROVE ~TripPending'
  <2>1. ctl' = "got" /\ sig' = evt'
    BY <1>2, WaitKeepsTrips DEF Considering
  <2>2. {"VFO_FALL", "PWM_OE_RISE"} \cap sig' = {}
    BY <1>2 DEF Considering, NoTrip
  <2>3. QED
    BY <2>1, <2>2 DEF TripPending
<1>3. QED
  BY <1>1, <1>2, QuietStep

LEMMA SetStep ==
  ASSUME NEW bits, MC_set_events(bits), ControlInv, toie' = toie
  PROVE  [Trip!Next]_(Trip!vars)
<1>1. CASE ctl' = "got" /\ ctl = "wait" /\ sig' = evt'
  <2>1. ~TripPending /\ ~Considering
    BY <1>1 DEF ControlInv, TripPending, Considering
  <2>2. CASE TripPending'
    <3>1. ~Considering'
      <4>1. {"VFO_FALL", "PWM_OE_RISE"} \cap sig' # {}
        BY <1>1, <2>2 DEF TripPending
      <4>2. QED
        BY <4>1 DEF Considering, NoTrip
    <3>2. Considering' = Considering
      BY <2>1, <3>1, TripBooleans
    <3>3. QED
      BY <2>2, <3>2, SignalStep
  <2>3. CASE ~TripPending'
    <3>1. TripPending' = TripPending
      BY <2>1, <2>3, TripBooleans
    <3>2. QED
      BY <2>1, <3>1, QuietStep
  <2>4. QED
    BY <2>2, <2>3
<1>2. CASE ctl' = ctl /\ sig' = sig /\ (ctl = "wait" => evt' = {})
  <2>1. Considering' = Considering
    BY <1>2 DEF Considering, NoTrip
  <2>2. CASE TripPending'
    BY <2>1, <2>2, SignalStep
  <2>3. CASE ~TripPending'
    <3>1. ~TripPending
      BY <2>3, SetKeepsTrips
    <3>2. TripPending' = TripPending
      BY <2>3, <3>1, TripBooleans
    <3>3. QED
      BY <2>1, <3>2, QuietStep
  <2>4. QED
    BY <2>2, <2>3
<1>3. QED
  BY <1>1, <1>2, SetWakes

LEMMA ControlStep ==
  ASSUME TypeOK, SafetyInv, Control_task
  PROVE  [Trip!Next]_(Trip!vars)
<1> USE DEF SafetyInv, ControlInv
<1>1. CASE Control_clear
  <2>1. TripPending' = TripPending /\ Considering' = Considering
    BY <1>1 DEF Control_clear, TripPending, Considering, NoTrip
  <2>2. QED
    BY <1>1, <2>1, SwitchOffStep DEF Control_clear, pwm
<1>2. CASE Dispatch_VFO_FALL
  <2>1. TripPending /\ ~Considering /\ ~Considering'
    BY <1>2 DEF Dispatch_VFO_FALL, TripPending, Considering, NoTrip
  <2>2. QED
    BY <1>2, <2>1, HandleStep DEF Dispatch_VFO_FALL, EmergencyStop
<1>3. CASE Control_delay_end
  BY <1>3, WaitStep DEF Control_delay_end, NoTrip, pwm
<1>4. CASE Dispatch_PWM_OE_RISE
  <2>1. TripPending /\ ~Considering
    BY <1>4 DEF Dispatch_PWM_OE_RISE, TripPending, Considering, NoTrip
  <2>2. ASSUME TripPending' PROVE ~Considering'
    <3>1. ctl' \in {"got", "wait"} /\ (ctl' = "got" => sig' = evt')
      BY <1>4 DEF Dispatch_PWM_OE_RISE, WaitForEvents
    <3>2. CASE ctl' = "wait"
      BY <3>2 DEF Considering
    <3>3. CASE ctl' = "got"
      <4>1. {"VFO_FALL", "PWM_OE_RISE"} \cap sig' # {}
        BY <2>2, <3>1, <3>3 DEF TripPending
      <4>2. QED
        BY <4>1 DEF Considering, NoTrip
    <3>4. QED
      BY <3>1, <3>2, <3>3
  <2>3. QED
    BY <1>4, <2>1, <2>2, HandleStep DEF Dispatch_PWM_OE_RISE, EmergencyStop
<1>5. CASE Dispatch_MOTOR_STOP
  <2>1. CASE toie
    <3>1. ~Considering' /\ TripPending' = TripPending
      BY <1>5, <2>1
         DEF Dispatch_MOTOR_STOP, Considering, TripPending, NoTrip
    <3>2. QED
      BY <1>5, <3>1, QuietStep DEF Dispatch_MOTOR_STOP, pwm
  <2>2. CASE ~toie
    BY <1>5, <2>2, WaitStep DEF Dispatch_MOTOR_STOP, pwm
  <2>3. QED
    BY <2>1, <2>2
<1>6. ASSUME NEW dir \in Dirs, Dispatch_MOTOR_START(dir)
      PROVE  [Trip!Next]_(Trip!vars)
  <2>1. CASE MayStart
    <3>1. Considering /\ TripPending' = TripPending
      BY <1>6, <2>1
         DEF Dispatch_MOTOR_START, Considering, TripPending, NoTrip
    <3>2. QED
      BY <1>6, <3>1, QuietStep DEF Dispatch_MOTOR_START, pwm
  <2>2. CASE ~MayStart
    BY <1>6, <2>2, WaitStep DEF Dispatch_MOTOR_START, pwm
  <2>3. QED
    BY <2>1, <2>2
<1>7. CASE PWM_start
  <2>1. /\ Considering /\ ~toie /\ toie' = TRUE
        /\ ~Considering' /\ TripPending' = TripPending
    BY <1>7 DEF PWM_start, Considering, NoTrip, TripPending
  <2>2. Considering' = FALSE
    BY <2>1, TripBooleans
  <2>3. QED
    BY <2>1, <2>2 DEF Trip!Next, Trip!SwitchOn
<1>8. CASE SpeedChange_get
  <2>1. ~Considering' /\ TripPending' = TripPending
    BY <1>8 DEF SpeedChange_get, Considering, TripPending
  <2>2. QED
    BY <1>8, <2>1, QuietStep DEF SpeedChange_get, pwm
<1>9. CASE SpeedChange_plan
  <2>1. CASE job.target # copy.speed.mot_freq
    <3>1. ~Considering' /\ TripPending' = TripPending
      BY <1>9, <2>1 DEF SpeedChange_plan, Considering, TripPending
    <3>2. QED
      BY <1>9, <3>1, QuietStep DEF SpeedChange_plan, pwm
  <2>2. CASE job.target = copy.speed.mot_freq
    BY <1>9, <2>2, WaitStep DEF SpeedChange_plan, NoTrip, pwm
  <2>3. QED
    BY <2>1, <2>2
<1>10. CASE SpeedChange_set
  BY <1>10, WaitStep DEF SpeedChange_set, NoTrip, pwm
<1>11. QED
  BY <1>1, <1>2, <1>3, <1>4, <1>5, <1>6, <1>7, <1>8, <1>9, <1>10
     DEF Control_task

LEMMA NextStep ==
  ASSUME TypeOK, SafetyInv, [Next]_vars
  PROVE  [Trip!Next]_(Trip!vars)
<1>1. ASSUME UNCHANGED <<evt, ctask>>, toie' = FALSE \/ toie' = toie
      PROVE  [Trip!Next]_(Trip!vars)
  <2>1. TripPending' = TripPending /\ Considering' = Considering
    BY <1>1 DEF TripPending, Considering, NoTrip, ctask
  <2>2. QED
    BY <1>1, <2>1, SwitchOffStep
<1>2. ASSUME NEW bits, MC_set_events(bits), UNCHANGED toie
      PROVE  [Trip!Next]_(Trip!vars)
  BY <1>2, SetStep DEF SafetyInv
<1>3. CASE Motor_ISR_task
  BY <1>1, <1>3 DEF Motor_ISR_task, TypeOK
<1>4. CASE PORTA_isr \/ PORTB_isr
  BY <1>2, <1>4 DEF PORTA_isr, PORTB_isr, pwm
<1>5. CASE Rx_emergency_step
  BY <1>1, <1>5
     DEF Rx_emergency_step, Rx_PWM_stop_toie, Rx_PWM_stop_outputs,
         Rx_emergency_clear, Rx_Reset_aver_curr, pwm
<1>6. CASE Measure_task \/ Edges
  BY <1>1, <1>6 DEF Measure_task, Edges, ChainEdge, VfoEdge, pwm
<1>7. CASE Commands
  <2>1. ASSUME NEW dir \in Dirs, NEW f \in MoveFreqs, NEW t \in Times,
               CAN_Rx_start(dir, f, t)
        PROVE  [Trip!Next]_(Trip!vars)
    BY <1>2, <2>1 DEF CAN_Rx_start, pwm
  <2>2. ASSUME NEW t \in Times, CAN_Rx_stop(t)
        PROVE  [Trip!Next]_(Trip!vars)
    BY <1>2, <2>2 DEF CAN_Rx_stop, pwm
  <2>3. CASE CAN_Rx_emergency \/ VT100_snapshot \/ VT100_edit
    BY <1>1, <2>3 DEF CAN_Rx_emergency, VT100_snapshot, VT100_edit, pwm
  <2>4. ASSUME NEW e, VT100_key(e)
        PROVE  [Trip!Next]_(Trip!vars)
    BY <1>2, <2>4 DEF VT100_key, pwm
  <2>5. QED
    BY <1>7, <2>1, <2>2, <2>3, <2>4 DEF Commands
<1>8. CASE UNCHANGED vars
  BY <1>1, <1>8 DEF vars, pwm, ctask
<1>9. QED
  BY <1>3, <1>4, <1>5, <1>6, <1>7, <1>8, ControlStep DEF Next, System

\* Every behaviour of the tasks, handlers and pins is one SafetyTrip allows:
\* a trip is cleared by switching the drive off and by nothing else, and at
\* most the start that was already under way precedes it.
THEOREM TripImplemented == Spec => ImplementsSafetyTrip
<1>1. Init => Trip!Init
  <2>1. ASSUME Init PROVE toie = FALSE /\ ~TripPending /\ ~Considering
    BY <2>1 DEF Init, TripPending, Considering
  <2>2. QED
    BY <2>1, TripBooleans DEF Trip!Init
<1>2. TypeOK /\ SafetyInv /\ [Next]_vars => [Trip!Next]_(Trip!vars)
  BY NextStep
<1>3. QED
  BY <1>1, <1>2, SafetyInvariant, PTL DEF Spec, Trip!Spec, ImplementsSafetyTrip

-----------------------------------------------------------------------------
(* The direction of a running motor *)

\* The copy of MC_init_speed_change has the direction of mc_cbl from the
\* moment it is taken until it is written back, and without an operator no
\* older copy exists.
DirectionInv ==
  /\ ctl \in {"plan", "set"} => copy.direction = cbl.direction
  /\ ~vtOpen

\* Ramps, their steps and their ends leave the direction alone.
LEMMA KeepDirection ==
  ASSUME NEW c \in Cbl
  PROVE  /\ Stopped(c).direction = c.direction
         /\ AfterPeriod(c).direction = c.direction
         /\ \A j \in Jobs : Ramped(c, j).direction = c.direction
<1>1. \A d \in Cbl : Stopped(d).direction = d.direction
  BY DEF Stopped, Cbl
<1>2. \A j \in Jobs : Ramped(c, j).direction = c.direction
  BY DEF Ramped, Cbl
<1> DEFINE moved == [c EXCEPT !.speed = SkewStep(c.speed)]
<1>3. moved.direction = c.direction
  BY DEF Cbl
<1>4. ASSUME c.speed.skew_cnt # 0
      PROVE  SkewEnd(moved).direction = c.direction
  <2>1. moved \in Cbl
    BY <1>4, SkewStepType DEF Cbl
  <2> HIDE DEF moved
  <2>2. Stopped(moved).direction = c.direction /\ Stopped(moved) \in Cbl
    BY <1>1, <1>3, <2>1, StoppedType
  <2>3. QED
    BY <1>3, <2>1, <2>2 DEF SkewEnd, Cbl
<1>5. AfterPeriod(c).direction = c.direction
  BY <1>3, <1>4 DEF AfterPeriod
<1>6. QED
  BY <1>1, <1>2, <1>5

LEMMA DirectionStep ==
  ASSUME ~VT100Active, TypeOK, SafetyInv, DirectionInv, [Next]_vars
  PROVE  /\ DirectionInv'
         /\ toie /\ toie' => cbl'.direction = cbl.direction
<1> DEFINE Goal == /\ DirectionInv'
                   /\ toie /\ toie' => cbl'.direction = cbl.direction
<1>1. cbl \in Cbl /\ copy \in Cbl /\ job \in Jobs
  BY DEF TypeOK
<1>2. /\ ~vtOpen /\ (ctl = "start" => ~toie)
      /\ ctl \in {"plan", "set"} => copy.direction = cbl.direction
  BY DEF SafetyInv, ControlInv, DirectionInv
\* A step that keeps the direction and neither starts nor keeps up a copy.
<1>3. ASSUME cbl'.direction = cbl.direction, UNCHANGED vt,
             \/ UNCHANGED copy /\ (ctl' = ctl \/ ctl' \notin {"plan", "set"})
             \/ ctl' \notin {"plan", "set"}
      PROVE  Goal
  BY <1>2, <1>3 DEF DirectionInv, vt
<1>4. ASSUME NEW bits, MC_set_events(bits)
      PROVE  UNCHANGED copy /\ (ctl' = ctl \/ ctl' = "got")
  BY <1>4 DEF MC_set_events
<1>5. ASSUME WaitForEvents
      PROVE  ctl' \notin {"plan", "set"}
  BY <1>5 DEF WaitForEvents
<1>6. CASE Control_task
  <2>1. CASE Control_clear
    BY <1>3, <2>1 DEF Control_clear
  <2>2. CASE Dispatch_VFO_FALL
    <3>1. cbl'.direction = cbl.direction
      BY <1>1, <2>2, KeepDirection, StoppedType
         DEF Dispatch_VFO_FALL, EmergencyStop, Cbl
    <3>2. QED
      BY <1>3, <2>2, <3>1 DEF Dispatch_VFO_FALL
  <2>3. CASE Control_delay_end
    <3>1. cbl'.direction = cbl.direction
      BY <1>1, <2>3 DEF Control_delay_end, Cbl
    <3>2. QED
      BY <1>3, <1>5, <2>3, <3>1 DEF Control_delay_end
  <2>4. CASE Dispatch_PWM_OE_RISE
    <3>1. cbl'.direction = cbl.direction
      BY <1>1, <2>4, KeepDirection, StoppedType
         DEF Dispatch_PWM_OE_RISE, EmergencyStop, Cbl
    <3>2. QED
      BY <1>3, <1>5, <2>4, <3>1 DEF Dispatch_PWM_OE_RISE
  <2>5. CASE Dispatch_MOTOR_STOP
    BY <1>3, <1>5, <2>5 DEF Dispatch_MOTOR_STOP
  <2>6. ASSUME NEW dir \in Dirs, Dispatch_MOTOR_START(dir)
        PROVE  Goal
    BY <1>3, <1>5, <2>6 DEF Dispatch_MOTOR_START
  <2>7. CASE PWM_start
    BY <1>2, <2>7 DEF PWM_start, DirectionInv, vt
  <2>8. CASE SpeedChange_get
    BY <1>2, <2>8 DEF SpeedChange_get, DirectionInv, vt
  <2>9. CASE SpeedChange_plan
    <3>1. CASE job.target # copy.speed.mot_freq
      <4>1. copy' = Ramped(copy, job) /\ cbl' = cbl /\ vtOpen' = vtOpen
        BY <2>9, <3>1 DEF SpeedChange_plan, vt
      <4>2. copy'.direction = cbl.direction
        BY <1>1, <1>2, <2>9, <4>1, KeepDirection DEF SpeedChange_plan
      <4>3. QED
        BY <1>2, <4>1, <4>2 DEF DirectionInv
    <3>2. CASE job.target = copy.speed.mot_freq
      BY <1>3, <1>5, <2>9, <3>2 DEF SpeedChange_plan
    <3>3. QED
      BY <3>1, <3>2
  <2>10. CASE SpeedChange_set
    <3>1. cbl'.direction = cbl.direction
      BY <1>2, <2>10 DEF SpeedChange_set
    <3>2. QED
      BY <1>3, <1>5, <2>10, <3>1 DEF SpeedChange_set
  <2>11. QED
    BY <1>6, <2>1, <2>2, <2>3, <2>4, <2>5, <2>6, <2>7, <2>8, <2>9, <2>10
       DEF Control_task
<1>7. CASE Motor_ISR_task
  <2>1. AfterPeriod(cbl) \in Cbl
    BY <1>1, AfterPeriodType
  <2>2. cbl'.direction = cbl.direction
    BY <1>1, <1>7, <2>1, KeepDirection DEF Motor_ISR_task
  <2>3. QED
    BY <1>3, <1>7, <2>2 DEF Motor_ISR_task, ctask
<1>8. CASE PORTA_isr \/ PORTB_isr
  BY <1>3, <1>4, <1>8 DEF PORTA_isr, PORTB_isr
<1>9. CASE Rx_emergency_step
  <2>1. CASE Rx_PWM_stop_toie \/ Rx_PWM_stop_outputs \/ Rx_Reset_aver_curr
    BY <1>3, <2>1
       DEF Rx_PWM_stop_toie, Rx_PWM_stop_outputs, Rx_Reset_aver_curr, ctask
  <2>2. CASE Rx_emergency_clear
    BY <1>1, <1>3, <2>2, KeepDirection DEF Rx_emergency_clear, ctask
  <2>3. QED
    BY <1>9, <2>1, <2>2 DEF Rx_emergency_step
<1>10. CASE Measure_task \/ Edges
  BY <1>3, <1>10 DEF Measure_task, Edges, ChainEdge, VfoEdge, ctask
<1>11. CASE Commands
  <2>1. ASSUME NEW dir \in Dirs, NEW f \in MoveFreqs, NEW t \in Times,
               CAN_Rx_start(dir, f, t)
        PROVE  Goal
    <3>1. cbl'.direction = cbl.direction
      BY <1>1, <2>1 DEF CAN_Rx_start, Cbl
    <3>2. QED
      BY <1>3, <1>4, <2>1, <3>1 DEF CAN_Rx_start
  <2>2. ASSUME NEW t \in Times, CAN_Rx_stop(t)
        PROVE  Goal
    <3>1. cbl'.direction = cbl.direction
      BY <1>1, <2>2 DEF CAN_Rx_stop, Cbl
    <3>2. QED
      BY <1>3, <1>4, <2>2, <3>1 DEF CAN_Rx_stop
  <2>3. CASE CAN_Rx_emergency
    BY <1>3, <2>3 DEF CAN_Rx_emergency, ctask
  <2>4. ASSUME VT100_snapshot \/ VT100_edit
        PROVE  FALSE
    BY <1>2, <2>4 DEF VT100_snapshot, VT100_edit
  <2>5. ASSUME NEW e, VT100_key(e)
        PROVE  FALSE
    BY <2>5 DEF VT100_key
  <2>6. QED
    BY <1>11, <2>1, <2>2, <2>3, <2>4, <2>5 DEF Commands
<1>12. CASE UNCHANGED vars
  BY <1>3, <1>12 DEF vars, ctask
<1>13. QED
  BY <1>6, <1>7, <1>8, <1>9, <1>10, <1>11, <1>12 DEF Next, System

\* Without an operator on the motor screen the direction never changes while
\* the PWM runs, although MC_init_speed_change writes back a whole copy of
\* mc_cbl that Motor_ISR_task and an emergency stop may have overtaken.
THEOREM DirectionKept == ASSUME ~VT100Active PROVE Spec => DirectionHeld
<1>1. Init => DirectionInv
  BY DEF Init, DirectionInv
<1>2. TypeOK /\ SafetyInv /\ DirectionInv /\ [Next]_vars => DirectionInv'
  BY DirectionStep
<1>3. TypeOK /\ SafetyInv /\ DirectionInv /\ [Next]_vars
        => [toie /\ toie' => cbl'.direction = cbl.direction]_vars
  BY DirectionStep
<1>4. QED
  BY <1>1, <1>2, <1>3, SafetyInvariant, PTL DEF Spec, DirectionHeld

-----------------------------------------------------------------------------
(***************************************************************************)
(* The speed of the drive, for every value of the constants, as long as    *)
(* nobody edits on the motor screen: a speed an emergency stop has cleared *)
(* is not brought back, and when every ramp takes time the speed stays     *)
(* bounded.                                                                *)
(*                                                                         *)
(* The ramp in mc_cbl need not be the one of the movement under way: one   *)
(* that SpeedChange_set wrote after the drive had been switched off waits  *)
(* for the next start, which resets the speed and not the ramp.  Moderate  *)
(* is what makes any ramp safe from START_FREQ and from where it began.    *)
(***************************************************************************)

Top == MoveFreqs \cup {StopHigh}

UpTo(x) == \E f \in Top : x <= f * Q

Moderate(s) ==
  /\ \E f \in Top : s.mot_freq <= f + START_FREQ
  /\ UpTo(s.ll_mot_freq - START_FREQ * Q)
  /\ UpTo(s.skew_cnt * s.ll_step)
  /\ UpTo(s.ll_mot_freq + s.skew_cnt * s.ll_step - START_FREQ * Q)
  /\ s.ll_step >= -((MIN_FREQ + 1) * Q)
  /\ s.ll_mot_freq <= s.mot_freq * Q + Q
  /\ s.mot_freq > MIN_FREQ => s.ll_mot_freq + (Q \div 2) >= s.mot_freq * Q

\* The block holds what commands may put there.
Commanded(c) ==
  /\ c.move_freq \in [Dirs -> MoveFreqs]
  /\ c.acceler_time \in [Dirs -> Times] /\ c.deceler_time \in [Dirs -> Times]

\* A running drive is above the lowest speed, or cleared by CAN_Rx_Task and
\* switched off by the next period.  The copy of MC_init_speed_change is that
\* of a running drive, or nothing is done with it.
Moving ==
  /\ toie => cbl.speed.mot_freq > MIN_FREQ \/ cbl.speed = Rest
  /\ toie /\ ctl = "get" => cbl.speed.mot_freq > MIN_FREQ \/ job.target = 0
  /\ toie /\ ctl = "plan" => \/ /\ cbl.speed.mot_freq > MIN_FREQ
                                /\ copy.speed.mot_freq > MIN_FREQ
                             \/ copy.speed.mot_freq = 0 /\ job.target = 0
  /\ toie /\ ctl = "set" => /\ cbl.speed.mot_freq > MIN_FREQ
                            /\ copy.speed.mot_freq > MIN_FREQ

MovingInv == ~vtOpen /\ Moving

SpeedInv ==
  /\ Moderate(cbl.speed) /\ Commanded(cbl)
  /\ ctl \in {"plan", "set"} => Moderate(copy.speed) /\ Commanded(copy)
  /\ ctl \in {"start", "get", "plan"} =>
       job.target \in MoveFreqs \cup {0} /\ job.time \in Times

-----------------------------------------------------------------------------
(* Arithmetic *)

LEMMA Wrapping ==
  ASSUME NEW m \in Nat \ {0}, NEW y \in Int
  PROVE  /\ y % m \in 0 .. m - 1
         /\ y >= 0 => y % m <= y
         /\ y \in 0 .. m - 1 => y % m = y
         /\ y \in -m .. -1 => y % m = y + m
         /\ y \in m .. 2 * m - 1 => y % m = y - m
<1>1. y % m \in 0 .. m - 1
  BY Z3
<1>9. y \div m \in Int
  BY Z3
<1>10. y = m * (y \div m) + (y % m)
  BY Z3
<1> DEFINE q == y \div m
           r == y % m
<1>2. q \in Int /\ r \in 0 .. m - 1 /\ y = m * q + r
  BY <1>1, <1>9, <1>10
<1> HIDE DEF q, r
<1>3. y >= 0 => q >= 0
  BY <1>2, Z3
<1>4. q >= 0 => m * q >= 0
  BY <1>2, Z3
<1>5. y >= 0 => r <= y
  BY <1>2, <1>3, <1>4, Z3
<1>6. y \in 0 .. m - 1 => q = 0
  BY <1>2, Z3
<1>7. y \in -m .. -1 => q = -1
  BY <1>2, Z3
<1>8. y \in m .. 2 * m - 1 => q = 1
  BY <1>2, Z3
<1> QED BY <1>2, <1>5, <1>6, <1>7, <1>8 DEF r

LEMMA WrapsOnce ==
  \A m \in Nat \ {0} : \A x \in Nat :
    x < 2 * m => /\ x % m \in Nat
                 /\ x < m => x % m = x
                 /\ x >= m => x % m = x - m
<1> SUFFICES ASSUME NEW m \in Nat \ {0}, NEW x \in Nat, x < 2 * m
             PROVE  /\ x % m \in Nat
                    /\ x < m => x % m = x
                    /\ x >= m => x % m = x - m
  OBVIOUS
<1>1. x < m => x \in 0 .. m - 1
  OBVIOUS
<1>2. x >= m => x \in m .. 2 * m - 1
  OBVIOUS
<1>3. x \in Int
  OBVIOUS
<1>4. x % m \in 0 .. m - 1
  BY <1>3, Wrapping
<1>5. x \in 0 .. m - 1 => x % m = x
  BY <1>3, Wrapping
<1>6. x \in m .. 2 * m - 1 => x % m = x - m
  BY <1>3, Wrapping
<1>7. x % m \in Nat
  BY <1>4
<1> QED BY <1>1, <1>2, <1>5, <1>6, <1>7

LEMMA Dividing ==
  ASSUME NEW m \in Nat \ {0}, NEW y \in Nat
  PROVE  /\ y \div m \in Nat
         /\ (y \div m) * m <= y /\ y < (y \div m) * m + m
         /\ \A k \in Nat : y <= k * m + m - 1 => y \div m <= k
         /\ \A k \in Nat : y >= k * m => y \div m >= k
<1> DEFINE q == y \div m
<1>1. q \in Nat /\ q * m <= y /\ y < q * m + m
  BY Z3
<1> HIDE DEF q
<1>2. ASSUME NEW k \in Nat, y <= k * m + m - 1 PROVE q <= k
  <2>1. q * m < (k + 1) * m
    BY <1>1, <1>2, Z3
  <2> QED BY <1>1, <2>1, Z3
<1>3. ASSUME NEW k \in Nat, y >= k * m PROVE q >= k
  <2>1. k * m < (q + 1) * m
    BY <1>1, <1>3, Z3
  <2> QED BY <1>1, <2>1, Z3
<1> QED BY <1>1, <1>2, <1>3 DEF q

LEMMA Products ==
  ASSUME NEW n \in Nat, NEW d \in Int
  PROVE  /\ n * d \in Int /\ (n - 1) * d = n * d - d
         /\ d >= 0 => n * d >= 0
         /\ d <= 0 => n * d <= 0
         /\ d >= 0 /\ n # 0 => n * d >= d
BY Z3

-----------------------------------------------------------------------------
(* Ramps *)

LEMMA Sizes ==
  /\ Q \in Nat \ {0} /\ W * Q \in Nat \ {0} /\ Q <= W * Q
  /\ Q \div 2 \in Nat /\ Q \div 2 < Q
  /\ MIN_FREQ \in Nat /\ START_FREQ \in Nat /\ MIN_FREQ < START_FREQ
  /\ Q <= START_FREQ * Q /\ START_FREQ * Q \in Nat /\ (MIN_FREQ + 1) * Q \in Nat
  /\ Top \subseteq Nat /\ StopHigh \in Top
<1>1. Q \in Nat \ {0} /\ W \in Nat \ {0}
  BY SpeedsAssumption
<1>2. Q \div 2 \in Nat /\ Q \div 2 < Q
  BY <1>1, Z3
<1>3. W * Q \in Nat /\ Q <= W * Q
  BY <1>1, Z3
<1>4. START_FREQ \in Nat /\ MIN_FREQ \in Nat /\ MIN_FREQ < START_FREQ
  BY SpeedsAssumption
<1>5. Q <= START_FREQ * Q /\ START_FREQ * Q \in Nat /\ (MIN_FREQ + 1) * Q \in Nat
  BY <1>1, <1>4, Z3
<1>6. Top \subseteq Nat /\ StopHigh \in Top
  BY SpeedsAssumption DEF Top
<1> QED BY <1>1, <1>2, <1>3, <1>4, <1>5, <1>6

LEMMA UpToLess ==
  /\ \A x, y \in Int : UpTo(x) /\ y <= x => UpTo(y)
  /\ \A x \in Int : x <= 0 => UpTo(x)
<1>1. \A f \in Top : f * Q \in Nat
  BY Sizes, Z3
<1>2. ASSUME NEW x \in Int, NEW y \in Int, UpTo(x), y <= x PROVE UpTo(y)
  <2>1. PICK f \in Top : x <= f * Q
    BY <1>2 DEF UpTo
  <2>2. f * Q \in Nat
    BY <1>1
  <2>3. y <= f * Q
    BY <1>2, <2>1, <2>2
  <2> QED BY <2>3 DEF UpTo
<1>3. ASSUME NEW x \in Int, x <= 0 PROVE UpTo(x)
  <2>1. StopHigh * Q \in Nat
    BY <1>1, Sizes
  <2>2. x <= StopHigh * Q
    BY <1>3, <2>1
  <2> QED BY <2>2, Sizes DEF UpTo
<1> QED BY <1>2, <1>3

LEMMA RestModerate == Moderate(Rest)
<1>1. 0 - START_FREQ * Q \in Int /\ 0 - START_FREQ * Q <= 0
      /\ -((MIN_FREQ + 1) * Q) <= 0 /\ 0 * Q = 0 /\ 0 * 0 = 0
  BY Sizes
<1>2. UpTo(0 - START_FREQ * Q) /\ UpTo(0)
  BY <1>1, UpToLess
<1>3. 0 <= StopHigh + START_FREQ
  BY SpeedsAssumption
<1>4. 0 + 0 - START_FREQ * Q = 0 - START_FREQ * Q
  BY Sizes
<1> QED BY <1>1, <1>2, <1>3, <1>4, Sizes, SpeedsAssumption DEF Moderate, Rest

\* One period of a moderate ramp leaves it moderate or the speed too low.
LEMMA SkewModerate ==
  ASSUME NEW s \in Speeds, s.skew_cnt # 0, Moderate(s), s.mot_freq > MIN_FREQ
  PROVE  SkewStep(s).mot_freq <= MIN_FREQ \/ Moderate(SkewStep(s))
<1> DEFINE h == Q \div 2
           m == W * Q
           n == s.skew_cnt
           d == s.ll_step
           y == s.ll_mot_freq + d
           ll == y % m
           z == (ll + h) % m
           mot == z \div Q
           S == START_FREQ * Q
           t == [mot_freq |-> mot, ll_mot_freq |-> ll, skew_cnt |-> n - 1, ll_step |-> d]
<1>1. SkewStep(s) = t
  BY DEF SkewStep
<1>2. /\ n \in Nat \ {0} /\ d \in Int /\ s.ll_mot_freq \in Nat /\ s.mot_freq \in Nat
      /\ y \in Int
  BY DEF Speeds
<1>3. /\ h \in Nat /\ h < Q /\ Q \in Nat \ {0} /\ m \in Nat \ {0} /\ Q <= m /\ S \in Nat
      /\ MIN_FREQ \in Nat
  BY Sizes
<1>4. y + h >= 0
  <2>1. s.mot_freq * Q >= (MIN_FREQ + 1) * Q /\ s.mot_freq * Q \in Nat
    BY <1>2, <1>3, Z3
  <2>2. s.ll_mot_freq + h >= s.mot_freq * Q /\ d >= -((MIN_FREQ + 1) * Q)
    BY DEF Moderate
  <2> QED BY <1>2, <1>3, <2>1, <2>2, Sizes
<1>5. ll \in 0 .. m - 1
  BY <1>2, <1>3, Wrapping
<1>6. ll + h < 2 * m /\ ll + h \in Nat /\ ll + h \in Int
  BY <1>3, <1>5
<1>7. /\ z \in Nat
      /\ ll + h < m => z = ll + h
      /\ ll + h >= m => z = ll + h - m
  <2> DEFINE x == ll + h
  <2>1. m \in Nat \ {0} /\ x \in Nat /\ x < 2 * m
    BY <1>3, <1>6
  <2> HIDE DEF x, m
  <2>2. /\ x % m \in Nat
        /\ x < m => x % m = x
        /\ x >= m => x % m = x - m
    BY ONLY <2>1, WrapsOnce, Zenon
  <2>3. z = x % m
    BY DEF x
  <2> HIDE DEF z
  <2>4. z \in Nat /\ (x < m => z = x) /\ (x >= m => z = x - m)
    BY ONLY <2>2, <2>3
  <2>5. ll \in Int /\ h \in Int /\ m \in Int
    BY <1>3, <1>5, <2>1
  <2> HIDE DEF ll, h
  <2> QED BY <2>4, <2>5 DEF x
<1>8. z < Q => mot <= MIN_FREQ
  <2>1. 0 \in Nat /\ 0 * Q + Q - 1 = Q - 1
    BY <1>3
  <2> HIDE DEF z
  <2>2. z < Q => z <= 0 * Q + Q - 1
    BY <1>3, <1>7, <2>1
  <2>3. z <= 0 * Q + Q - 1 => mot <= 0
    BY <1>3, <1>7, Dividing
  <2>4. mot \in Nat
    BY <1>3, <1>7, Dividing
  <2> HIDE DEF mot
  <2> QED BY <1>3, <2>2, <2>3, <2>4
<1>9. CASE y < 0
  <2>1. y \in -m .. -1
    BY <1>2, <1>3, <1>4, <1>9
  <2>2. ll = y + m
    BY <1>2, <1>3, <2>1, Wrapping
  <2>3. ll + h \in m .. 2 * m - 1
    BY <1>2, <1>3, <1>4, <1>6, <2>2
  <2>4. z = ll + h - m
    BY <1>3, <1>7, <2>3
  <2>5. z < Q
    BY <1>2, <1>3, <1>9, <2>2, <2>4
  <2> QED BY <1>1, <1>8, <2>5
<1>10. CASE y >= 0 /\ ll + h >= m
  <2>2. z = ll + h - m
    BY <1>7, <1>10
  <2>3. z < Q
    BY <1>3, <1>5, <2>2
  <2> QED BY <1>1, <1>8, <2>3
<1>11. CASE y >= 0 /\ ll + h < m
  <2>1. z = ll + h
    BY <1>7, <1>11
  <2>2. ll <= y /\ ll \in Nat
    BY <1>2, <1>3, <1>5, <1>11, Wrapping
  <2> HIDE DEF ll
  <2>3. mot \in Nat /\ mot * Q <= ll + h /\ ll + h < mot * Q + Q
        /\ \A k \in Nat : ll + h <= k * Q + Q - 1 => mot <= k
    BY <1>3, <1>6, <2>1, Dividing
  <2> HIDE DEF mot, z
  <2>4. n * d \in Int /\ (n - 1) * d = n * d - d /\ (n - 1) * d \in Int
        /\ (d >= 0 => n * d >= d) /\ (d <= 0 => (n - 1) * d <= 0)
    <3>1. n - 1 \in Nat
      BY <1>2
    <3> QED BY <1>2, <3>1, Products
  <2> HIDE DEF n, d
  <2>5. /\ UpTo(s.ll_mot_freq - S) /\ UpTo(n * d) /\ UpTo(s.ll_mot_freq + n * d - S)
        /\ d >= -((MIN_FREQ + 1) * Q)
    BY DEF Moderate, n, d
  <2>6. UpTo(ll - S)
    <3>1. CASE d >= 0
      <4>1. ll - S <= s.ll_mot_freq + n * d - S
        BY <1>2, <1>3, <2>2, <2>4, <3>1
      <4> QED BY <1>2, <1>3, <2>2, <2>4, <2>5, <4>1, UpToLess
    <3>2. CASE d < 0
      <4>1. ll - S <= s.ll_mot_freq - S
        BY <1>2, <1>3, <2>2, <3>2
      <4> QED BY <1>2, <1>3, <2>2, <2>5, <4>1, UpToLess
    <3> QED BY <1>2, <3>1, <3>2
  <2>7. UpTo((n - 1) * d)
    <3>1. CASE d >= 0
      <4>1. (n - 1) * d <= n * d
        BY <1>2, <2>4, <3>1
      <4> QED BY <2>4, <2>5, <4>1, UpToLess
    <3>2. CASE d < 0
      BY <1>2, <2>4, <3>2, UpToLess
    <3> QED BY <1>2, <3>1, <3>2
  <2>8. UpTo(ll + (n - 1) * d - S)
    <3>1. ll + (n - 1) * d - S <= s.ll_mot_freq + n * d - S
      BY <1>2, <1>3, <2>2, <2>4
    <3> QED BY <1>2, <1>3, <2>2, <2>4, <2>5, <3>1, UpToLess
  <2>9. PICK f \in Top : ll - S <= f * Q
    BY <2>6 DEF UpTo
  <2>10. mot <= f + START_FREQ
    <3>1. f \in Nat /\ START_FREQ \in Nat
      BY Sizes
    <3>2. (f + START_FREQ) * Q = f * Q + S /\ f * Q \in Nat
      BY <1>3, <3>1, Z3
    <3>3. ll + h <= (f + START_FREQ) * Q + Q - 1
      BY <1>3, <2>2, <2>9, <3>2
    <3> QED BY <2>3, <3>1, <3>3
  <2>11. ll <= mot * Q + Q /\ ll + h >= mot * Q
    <3>1. mot * Q \in Nat
      BY <1>3, <2>3, Z3
    <3> QED BY <1>3, <2>2, <2>3, <3>1
  <2>12. Moderate(t)
    BY <2>5, <2>6, <2>7, <2>8, <2>10, <2>11 DEF Moderate
  <2> QED BY <1>1, <2>12
<1>12. y < 0 \/ y >= 0
  BY <1>2
<1>13. ll + h >= m \/ ll + h < m
  BY <1>3, <1>6
<1> QED BY <1>9, <1>10, <1>11, <1>12, <1>13

LEMMA TruncatedBounds ==
  ASSUME NEW n \in Nat \ {0}, NEW a \in Int
  PROVE  /\ Truncated(a, n) \in Int
         /\ a >= 0 => Truncated(a, n) >= 0 /\ n * Truncated(a, n) <= a
         /\ a < 0 => /\ Truncated(a, n) <= 0
                     /\ \A k \in Nat : -a <= k * n => Truncated(a, n) >= -k
<1> DEFINE t == Truncated(a, n)
<1>1. CASE a >= 0
  <2>1. t = a \div n
    BY <1>1 DEF Truncated
  <2>2. a \in Nat
    BY <1>1
  <2>3. t \in Nat /\ t * n <= a
    BY <2>1, <2>2, Dividing
  <2> HIDE DEF t
  <2>4. n * t = t * n
    BY <2>3, Z3
  <2> QED BY <1>1, <2>3, <2>4 DEF t
<1>2. CASE a < 0
  <2> DEFINE q == (-a) \div n
  <2>1. t = -q
    BY <1>2 DEF Truncated
  <2>2. -a \in Nat
    BY <1>2
  <2>3. q \in Nat /\ \A k \in Nat : -a <= k * n + n - 1 => q <= k
    BY <2>2, Dividing
  <2> HIDE DEF q, t
  <2>4. ASSUME NEW k \in Nat, -a <= k * n PROVE q <= k
    <3>1. k * n \in Nat
      BY Z3
    <3>2. -a <= k * n + n - 1
      BY <2>2, <2>4, <3>1
    <3> QED BY <2>3, <3>2
  <2> QED BY <1>2, <2>1, <2>3, <2>4 DEF t
<1> QED BY <1>1, <1>2

\* A ramp that takes time is moderate when the speed it starts from is.
LEMMA RampedModerate ==
  ASSUME NEW c \in Cbl, NEW j \in Jobs, Moderate(c.speed),
         j.target \in MoveFreqs \cup {0}, j.time \in Times, j.time # 0
  PROVE  Moderate(Ramped(c, j).speed)
<1> DEFINE n    == j.time * PerTenth
           fin  == FinalFreq(c, j)
           mot  == c.speed.mot_freq
           ll   == c.speed.ll_mot_freq
           a    == (fin - mot) * Q
           step == Truncated(a, n)
           S    == START_FREQ * Q
           t    == [mot_freq |-> mot, ll_mot_freq |-> ll,
                    skew_cnt |-> n, ll_step |-> step]
<1>1. Ramped(c, j).speed = t
  BY DEF Ramped, Cbl
<1>2. mot \in Nat /\ ll \in Nat
  BY DEF Cbl, Speeds
<1>3. n \in Nat \ {0} /\ PerTenth <= n
  <2>1. j.time \in Nat \ {0} /\ PerTenth \in Nat \ {0}
    BY SpeedsAssumption DEF Jobs
  <2> QED BY <2>1, Z3
<1>4. fin \in Nat /\ \E f \in Top : fin <= f
  <2>1. /\ fin \in MoveFreqs \cup {0, StopLow, StopHigh}
        /\ StopLow \in Nat /\ StopHigh \in Nat /\ StopLow <= StopHigh
        /\ MoveFreqs \subseteq Nat
    BY SpeedsAssumption DEF FinalFreq
  <2> HIDE DEF fin
  <2>2. CASE fin \in MoveFreqs
    <3>1. fin \in Nat /\ fin <= fin
      BY <2>1, <2>2
    <3> QED BY <2>2, <3>1 DEF Top
  <2>3. CASE fin \in {0, StopLow, StopHigh}
    <3>1. fin \in Nat /\ fin <= StopHigh
      BY <2>1, <2>3
    <3> QED BY <3>1, Sizes
  <2> QED BY <2>1, <2>2, <2>3
<1> HIDE DEF fin
<1>5. /\ Q \in Nat \ {0} /\ S \in Nat /\ Q <= S /\ (MIN_FREQ + 1) * Q \in Nat
      /\ MIN_FREQ \in Nat /\ START_FREQ \in Nat
  BY Sizes
<1>6. fin * Q \in Nat /\ mot * Q \in Nat /\ a \in Int /\ a = fin * Q - mot * Q
  BY <1>2, <1>4, <1>5, Z3
<1>7. UpTo(fin * Q)
  <2>1. PICK f \in Top : fin <= f
    BY <1>4
  <2>2. f \in Nat
    BY Sizes
  <2>3. fin * Q <= f * Q
    BY <1>4, <1>5, <2>1, <2>2, Z3
  <2> QED BY <2>3 DEF UpTo
<1>8. /\ UpTo(ll - S) /\ ll <= mot * Q + Q
      /\ \E f \in Top : mot <= f + START_FREQ
      /\ mot > MIN_FREQ => ll + (Q \div 2) >= mot * Q
  BY DEF Moderate
<1> HIDE DEF n, a, mot, ll, S
<1>9. /\ step \in Int
      /\ a >= 0 => step >= 0 /\ n * step <= a
      /\ a < 0 => step <= 0 /\ \A k \in Nat : -a <= k * n => step >= -k
  BY <1>3, <1>6, TruncatedBounds
<1> HIDE DEF step
<1>10. n * step \in Int /\ (step <= 0 => n * step <= 0)
  BY <1>3, <1>9, Products
<1>11. UpTo(n * step)
  <2>1. CASE a >= 0
    <3>1. n * step <= fin * Q
      BY <1>6, <1>9, <1>10, <2>1
    <3> QED BY <1>6, <1>7, <1>10, <3>1, UpToLess
  <2>2. CASE a < 0
    BY <1>9, <1>10, <2>2, UpToLess
  <2> QED BY <1>6, <2>1, <2>2
<1>12. UpTo(ll + n * step - S)
  <2>1. CASE a >= 0
    <3>1. ll + n * step - S <= fin * Q
      BY <1>2, <1>5, <1>6, <1>8, <1>9, <1>10, <2>1
    <3> QED BY <1>2, <1>5, <1>6, <1>7, <1>10, <3>1, UpToLess
  <2>2. CASE a < 0
    <3>1. ll + n * step - S <= ll - S
      BY <1>2, <1>5, <1>9, <1>10, <2>2
    <3> QED BY <1>2, <1>5, <1>8, <1>10, <3>1, UpToLess
  <2> QED BY <1>6, <2>1, <2>2
<1>13. step >= -((MIN_FREQ + 1) * Q)
  <2>1. CASE a >= 0
    BY <1>5, <1>9, <2>1
  <2>2. CASE a < 0
    <3>1. PICK f \in Top : mot <= f + START_FREQ
      BY <1>8
    <3>2. f \in Nat /\ PerTenth \in Nat
      BY Sizes, SpeedsAssumption
    <3>3. f + START_FREQ <= (MIN_FREQ + 1) * PerTenth
      BY GradualAssumption DEF Top
    <3>4. (MIN_FREQ + 1) * PerTenth <= (MIN_FREQ + 1) * n
          /\ (MIN_FREQ + 1) * n \in Nat /\ (MIN_FREQ + 1) * PerTenth \in Nat
      BY <1>3, <1>5, <3>2, Z3
    <3>5. mot <= (MIN_FREQ + 1) * n
      BY <1>2, <1>5, <3>1, <3>2, <3>3, <3>4
    <3>6. mot * Q <= ((MIN_FREQ + 1) * n) * Q
      BY <1>2, <1>5, <3>4, <3>5, Z3
    <3>7. ((MIN_FREQ + 1) * n) * Q = ((MIN_FREQ + 1) * Q) * n
          /\ ((MIN_FREQ + 1) * Q) * n \in Int
      BY <1>3, <1>5, Z3
    <3>8. -a <= ((MIN_FREQ + 1) * Q) * n
      BY <1>6, <3>6, <3>7
    <3> QED BY <1>5, <1>9, <2>2, <3>8
  <2> QED BY <1>6, <2>1, <2>2
<1>14. Moderate(t)
  BY <1>8, <1>11, <1>12, <1>13 DEF Moderate, S
<1> QED BY <1>1, <1>14

\* A start runs any moderate ramp from START_FREQ.
LEMMA StartModerate ==
  ASSUME NEW s \in Speeds, Moderate(s)
  PROVE  Moderate([s EXCEPT !.mot_freq = START_FREQ,
                            !.ll_mot_freq = START_FREQ * Q])
<1> DEFINE t == [s EXCEPT !.mot_freq = START_FREQ, !.ll_mot_freq = START_FREQ * Q]
           S == START_FREQ * Q
           p == s.skew_cnt * s.ll_step
<1>1. /\ t.mot_freq = START_FREQ /\ t.ll_mot_freq = S
      /\ t.skew_cnt = s.skew_cnt /\ t.ll_step = s.ll_step
  BY DEF Speeds
<1>2. S \in Nat /\ Q \in Nat \ {0} /\ START_FREQ \in Nat /\ Q \div 2 \in Nat
      /\ StopHigh \in Top /\ StopHigh \in Nat
  BY Sizes
<1>3. p \in Int
  <2>1. s.skew_cnt \in Int /\ s.ll_step \in Int
    BY DEF Speeds
  <2> QED BY <2>1, Z3
<1>4. UpTo(p) /\ s.ll_step >= -((MIN_FREQ + 1) * Q)
  BY DEF Moderate
<1> HIDE DEF S, p
<1>5. S - S = 0 /\ S + p - S = p /\ S <= S + Q /\ S + (Q \div 2) >= S
      /\ START_FREQ <= StopHigh + START_FREQ
  BY <1>2, <1>3
<1>6. UpTo(S - S)
  BY <1>5, UpToLess
<1>7. UpTo(S + p - S)
  BY <1>4, <1>5
<1> HIDE DEF t
<1>8. Moderate(t)
  BY <1>1, <1>2, <1>4, <1>5, <1>6, <1>7 DEF Moderate, S, p
<1> QED BY <1>8 DEF t

-----------------------------------------------------------------------------
(* Stops, periods and ramps in the control block *)

\* Stops and periods keep the commanded part; a period keeps the ramp
\* moderate or ends in a stop.
LEMMA StoppedSpeed ==
  ASSUME NEW c \in Cbl
  PROVE  /\ Stopped(c).speed = Rest /\ Moderate(Stopped(c).speed)
         /\ Commanded(c) => Commanded(Stopped(c))
<1>1. Stopped(c).speed = Rest
  BY DEF Stopped, Cbl
<1>2. Commanded(c) => Commanded(Stopped(c))
  BY DEF Stopped, Cbl, Commanded
<1> QED BY <1>1, <1>2, RestModerate

LEMMA PeriodSpeed ==
  ASSUME NEW c \in Cbl, Moderate(c.speed), Commanded(c),
         c.speed.mot_freq > MIN_FREQ \/ c.speed = Rest
  PROVE  /\ \/ AfterPeriod(c).speed.mot_freq <= MIN_FREQ
            \/ Moderate(AfterPeriod(c).speed)
         /\ Commanded(AfterPeriod(c))
<1> DEFINE moved == [c EXCEPT !.speed = SkewStep(c.speed)]
<1>1. c.speed \in Speeds
  BY DEF Cbl
<1>2. CASE c.speed.skew_cnt = 0
  BY <1>2 DEF AfterPeriod
<1>3. CASE c.speed.skew_cnt # 0
  <2>1. c.speed.mot_freq > MIN_FREQ
    BY <1>3 DEF Rest
  <2>2. /\ moved \in Cbl /\ moved.speed = SkewStep(c.speed) /\ Commanded(moved)
    BY <1>1, <1>3, SkewStepType DEF Cbl, Commanded
  <2>3. moved.speed.mot_freq <= MIN_FREQ \/ Moderate(moved.speed)
    BY <1>1, <1>3, <2>1, <2>2, SkewModerate
  <2>4. AfterPeriod(c) = moved \/ AfterPeriod(c) = SkewEnd(moved)
    BY <1>3 DEF AfterPeriod
  <2> HIDE DEF moved
  <2>5. Stopped(moved) \in Cbl
    BY <2>2, StoppedType
  <2>6. /\ Commanded(SkewEnd(moved))
        /\ SkewEnd(moved).speed = moved.speed \/ SkewEnd(moved).speed = Rest
    BY <2>2, <2>5, StoppedSpeed DEF SkewEnd, Cbl, Commanded
  <2> QED BY <2>2, <2>3, <2>4, <2>6, RestModerate
<1> QED BY <1>2, <1>3

LEMMA RampedCommanded ==
  ASSUME NEW c \in Cbl, NEW j \in Jobs, Commanded(c)
  PROVE  Commanded(Ramped(c, j))
BY DEF Ramped, Cbl, Commanded

-----------------------------------------------------------------------------
(* A cleared speed *)

LEMMA MovingStep ==
  ASSUME ~VT100Active, TypeOK, SafetyInv, MovingInv, [Next]_vars
  PROVE  /\ MovingInv'
         /\ toie /\ toie' /\ cbl.speed.mot_freq = 0 => cbl'.speed.mot_freq = 0
<1> DEFINE Goal == /\ MovingInv'
                   /\ toie /\ toie' /\ cbl.speed.mot_freq = 0
                        => cbl'.speed.mot_freq = 0
<1>1. /\ cbl \in Cbl /\ copy \in Cbl /\ cbl.speed \in Speeds
      /\ cbl.speed.mot_freq \in Nat /\ MIN_FREQ \in Nat
  BY Sizes DEF TypeOK, Cbl, Speeds
<1>2. ~vtOpen /\ Moving /\ (ctl = "start" => ~toie)
  BY DEF MovingInv, SafetyInv, ControlInv
\* A step that keeps or clears the speed, and neither begins a call nor goes
\* on with one.
<1>3. ASSUME UNCHANGED vt, toie' => toie,
             cbl'.speed = cbl.speed \/ cbl'.speed = Rest,
             \/ UNCHANGED <<ctl, job, copy>> /\ cbl'.speed = cbl.speed
             \/ ctl' \notin {"get", "plan", "set"}
      PROVE  Goal
  <2>1. Moving'
    BY <1>2, <1>3 DEF Moving
  <2> QED BY <1>2, <1>3, <2>1 DEF MovingInv, vt, Rest
<1>4. ASSUME NEW bits, MC_set_events(bits)
      PROVE  UNCHANGED <<job, copy>> /\ (ctl' = ctl \/ ctl' = "got")
  BY <1>4 DEF MC_set_events
<1>5. ASSUME WaitForEvents
      PROVE  ctl' \notin {"get", "plan", "set"}
  BY <1>5 DEF WaitForEvents
\* A step after which the PWM is off.
<1>6. ASSUME ~toie', UNCHANGED vt PROVE Goal
  BY <1>2, <1>6 DEF MovingInv, Moving, vt
<1>7. CASE Control_task
  <2>1. CASE Control_clear
    BY <1>3, <2>1 DEF Control_clear, pwm
  <2>2. CASE Dispatch_VFO_FALL \/ Dispatch_PWM_OE_RISE
    BY <1>6, <2>2 DEF Dispatch_VFO_FALL, Dispatch_PWM_OE_RISE, EmergencyStop
  <2>3. CASE Control_delay_end
    <3>1. cbl'.speed = cbl.speed /\ toie' = toie
      BY <1>1, <2>3 DEF Control_delay_end, Cbl, pwm
    <3> QED BY <1>3, <1>5, <2>3, <3>1 DEF Control_delay_end
  <2>4. CASE Dispatch_MOTOR_STOP
    <3>1. CASE toie
      <4>1. job'.target = 0 /\ ctl' = "get" /\ UNCHANGED <<toie, cbl, vtOpen>>
        BY <2>4, <3>1 DEF Dispatch_MOTOR_STOP, pwm, vt
      <4> QED BY <1>2, <4>1 DEF MovingInv, Moving
    <3>2. CASE ~toie
      BY <1>3, <1>5, <2>4, <3>2 DEF Dispatch_MOTOR_STOP, pwm
    <3> QED BY <3>1, <3>2
  <2>5. ASSUME NEW dir \in Dirs, Dispatch_MOTOR_START(dir)
        PROVE  Goal
    BY <1>3, <1>5, <2>5 DEF Dispatch_MOTOR_START, pwm
  <2>6. CASE PWM_start
    <3>1. cbl'.speed.mot_freq = START_FREQ /\ START_FREQ > MIN_FREQ
      BY <1>1, <2>6, Sizes DEF PWM_start, Cbl, Speeds
    <3> QED BY <1>2, <2>6, <3>1 DEF PWM_start, MovingInv, Moving, vt
  <2>7. CASE SpeedChange_get
    <3>1. copy' = cbl /\ ctl = "get" /\ ctl' = "plan"
          /\ UNCHANGED <<toie, cbl, job, vtOpen>>
      BY <2>7 DEF SpeedChange_get, pwm, vt
    <3> QED BY <1>2, <3>1 DEF MovingInv, Moving, Rest
  <2>8. CASE SpeedChange_plan
    <3>1. CASE job.target # copy.speed.mot_freq
      <4>1. /\ copy' = Ramped(copy, job) /\ ctl = "plan" /\ ctl' = "set"
            /\ UNCHANGED <<toie, cbl, vtOpen>>
        BY <2>8, <3>1 DEF SpeedChange_plan, pwm, vt
      <4>2. copy'.speed.mot_freq = copy.speed.mot_freq
        BY <1>1, <4>1 DEF Ramped, Cbl
      <4> QED BY <1>2, <3>1, <4>1, <4>2 DEF MovingInv, Moving
    <3>2. CASE job.target = copy.speed.mot_freq
      BY <1>3, <1>5, <2>8, <3>2 DEF SpeedChange_plan, pwm
    <3> QED BY <3>1, <3>2
  <2>9. CASE SpeedChange_set
    <3>1. cbl' = copy /\ UNCHANGED <<toie, vtOpen>> /\ ctl = "set"
          /\ ctl' \notin {"get", "plan", "set"}
      BY <1>5, <2>9 DEF SpeedChange_set, pwm, vt
    <3>2. toie => cbl.speed.mot_freq # 0 /\ cbl'.speed.mot_freq > MIN_FREQ
      BY <1>1, <1>2, <3>1 DEF Moving
    <3> QED BY <1>2, <3>1, <3>2 DEF MovingInv, Moving
  <2> QED
    BY <1>7, <2>1, <2>2, <2>3, <2>4, <2>5, <2>6, <2>7, <2>8, <2>9
       DEF Control_task
<1>8. CASE Motor_ISR_task
  <2> DEFINE c == AfterPeriod(cbl)
             slow == c.speed.mot_freq <= MIN_FREQ
  <2>1. c \in Cbl
    BY <1>1, AfterPeriodType
  <2>2. c.speed.mot_freq \in Nat
    BY <2>1 DEF Cbl, Speeds
  <2>3. /\ toie /\ cbl' = IF slow THEN Stopped(c) ELSE c
        /\ toie' = ~slow /\ UNCHANGED <<ctl, job, copy, vtOpen, vt>>
    BY <1>8 DEF Motor_ISR_task, ctask, vt
  \* A cleared speed has no ramp that could raise it again.
  <2>4. cbl.speed.mot_freq = 0 => slow
    <3>1. cbl.speed.mot_freq = 0 => cbl.speed = Rest
      BY <1>1, <1>2, <2>3 DEF Moving
    <3>2. cbl.speed = Rest => c = cbl
      BY DEF AfterPeriod, Rest
    <3> HIDE DEF c
    <3> QED BY <1>1, <3>1, <3>2
  <2>5. ~slow => c.speed.mot_freq > MIN_FREQ
    BY <1>1, <2>2
  <2> HIDE DEF c, slow
  <2>6. CASE slow
    <3>1. ~toie'
      BY <2>3, <2>6, Zenon
    <3> QED BY <1>6, <2>3, <3>1
  <2>7. CASE ~slow
    <3>1. cbl' = c /\ cbl.speed.mot_freq # 0
      BY <2>3, <2>4, <2>7
    <3>2. cbl'.speed.mot_freq > MIN_FREQ
      BY <2>5, <2>7, <3>1
    <3> QED BY <1>2, <2>3, <3>1, <3>2 DEF MovingInv, Moving
  <2> QED BY <2>6, <2>7
<1>9. CASE PORTA_isr \/ PORTB_isr
  BY <1>3, <1>4, <1>9 DEF PORTA_isr, PORTB_isr, pwm
<1>10. CASE Rx_emergency_step
  <2>1. CASE Rx_PWM_stop_toie
    BY <1>6, <2>1 DEF Rx_PWM_stop_toie
  <2>2. CASE Rx_PWM_stop_outputs \/ Rx_Reset_aver_curr
    BY <1>3, <2>2 DEF Rx_PWM_stop_outputs, Rx_Reset_aver_curr, ctask, pwm
  <2>3. CASE Rx_emergency_clear
    <3>1. cbl' = Stopped(cbl) /\ UNCHANGED <<toie, ctl, vt>>
          /\ ctl \in {"wait", "delay"}
      BY <2>3 DEF Rx_emergency_clear, ControlBlocked, ctask, pwm
    <3> QED BY <1>1, <1>3, <3>1, StoppedSpeed
  <2> QED BY <1>10, <2>1, <2>2, <2>3 DEF Rx_emergency_step
<1>11. CASE Measure_task \/ Edges
  BY <1>3, <1>11 DEF Measure_task, Edges, ChainEdge, VfoEdge, ctask, pwm
<1>12. CASE Commands
  <2>1. ASSUME NEW dir \in Dirs, NEW f \in MoveFreqs, NEW t \in Times,
               CAN_Rx_start(dir, f, t)
        PROVE  Goal
    <3>1. cbl'.speed = cbl.speed
      BY <1>1, <2>1 DEF CAN_Rx_start, Cbl
    <3> QED BY <1>3, <1>4, <2>1, <3>1 DEF CAN_Rx_start, pwm
  <2>2. ASSUME NEW t \in Times, CAN_Rx_stop(t)
        PROVE  Goal
    <3>1. cbl'.speed = cbl.speed
      BY <1>1, <2>2 DEF CAN_Rx_stop, Cbl
    <3> QED BY <1>3, <1>4, <2>2, <3>1 DEF CAN_Rx_stop, pwm
  <2>3. CASE CAN_Rx_emergency
    BY <1>3, <2>3 DEF CAN_Rx_emergency, ctask, pwm
  <2>4. ASSUME VT100_snapshot \/ VT100_edit
        PROVE  FALSE
    BY <1>2, <2>4 DEF VT100_snapshot, VT100_edit
  <2>5. ASSUME NEW e, VT100_key(e)
        PROVE  FALSE
    BY <2>5 DEF VT100_key
  <2> QED
    BY <1>12, <2>1, <2>2, <2>3, <2>4, <2>5 DEF Commands
<1>13. CASE UNCHANGED vars
  BY <1>3, <1>13 DEF vars, ctask, pwm
<1> QED
  BY <1>7, <1>8, <1>9, <1>10, <1>11, <1>12, <1>13 DEF Next, System

LEMMA MovingInvariant ==
  ASSUME ~VT100Active
  PROVE  Spec => [](TypeOK /\ SafetyInv /\ MovingInv)
<1>1. Init => MovingInv
  BY DEF Init, MovingInv, Moving
<1>2. TypeOK /\ SafetyInv /\ MovingInv /\ [Next]_vars => MovingInv'
  BY MovingStep
<1> QED BY <1>1, <1>2, SafetyInvariant, PTL DEF Spec

\* Without an operator on the motor screen no step turns a speed that an
\* emergency stop of CAN_Rx_Task has cleared into a running one while the PWM
\* is on: neither an old ramp in mc_cbl nor a copy written back does.
THEOREM ClearedSpeedKept == ASSUME ~VT100Active PROVE Spec => ClearedSpeedStays
<1>1. TypeOK /\ SafetyInv /\ MovingInv /\ [Next]_vars
        => [toie /\ toie' /\ cbl.speed.mot_freq = 0
              => cbl'.speed.mot_freq = 0]_vars
  BY MovingStep
<1> QED BY <1>1, MovingInvariant, PTL DEF Spec, ClearedSpeedStays

-----------------------------------------------------------------------------
(* A bounded speed *)

LEMMA SpeedInit == Init => SpeedInv
<1> SUFFICES ASSUME Init PROVE SpeedInv
  OBVIOUS
<1>1. PICK f \in MoveFreqs, t \in Times : cbl = DefaultCbl(f, t)
  BY DEF Init
<1>2. cbl.speed = Rest /\ Commanded(cbl)
  BY <1>1 DEF DefaultCbl, Commanded
<1> QED BY <1>2, RestModerate DEF Init, SpeedInv

LEMMA SpeedStep ==
  ASSUME 0 \notin Times, TypeOK, MovingInv, SpeedInv, [Next]_vars
  PROVE  SpeedInv'
<1>1. cbl \in Cbl /\ copy \in Cbl /\ job \in Jobs
  BY DEF TypeOK
<1>2. /\ ~vtOpen /\ Moderate(cbl.speed) /\ Commanded(cbl)
      /\ ctl \in {"plan", "set"} => Moderate(copy.speed) /\ Commanded(copy)
      /\ ctl \in {"start", "get", "plan"} =>
           job.target \in MoveFreqs \cup {0} /\ job.time \in Times
      /\ Moving
  BY DEF SpeedInv, MovingInv
\* A step that keeps or clears the speed, and neither begins a call nor goes
\* on with one.
<1>3. ASSUME Commanded(cbl'),
             cbl'.speed = cbl.speed \/ cbl'.speed = Rest,
             \/ UNCHANGED <<ctl, job, copy>>
             \/ ctl' \notin {"start", "get", "plan", "set"}
      PROVE  SpeedInv'
  BY <1>2, <1>3, RestModerate DEF SpeedInv
<1>4. ASSUME NEW bits, MC_set_events(bits)
      PROVE  UNCHANGED <<job, copy>> /\ (ctl' = ctl \/ ctl' = "got")
  BY <1>4 DEF MC_set_events
<1>5. ASSUME WaitForEvents
      PROVE  ctl' \notin {"start", "get", "plan", "set"}
  BY <1>5 DEF WaitForEvents
<1>6. CASE Control_task
  <2>1. CASE Control_clear
    BY <1>2, <1>3, <2>1 DEF Control_clear
  <2>2. ASSUME NEW fail, EmergencyStop(fail),
               ctl' \notin {"start", "get", "plan", "set"}
        PROVE  SpeedInv'
    <3>1. Stopped(cbl) \in Cbl /\ Stopped(cbl).speed = Rest /\ Commanded(Stopped(cbl))
      BY <1>1, <1>2, StoppedType, StoppedSpeed
    <3>2. cbl'.speed = Rest /\ Commanded(cbl')
      BY <2>2, <3>1 DEF EmergencyStop, Cbl, Commanded
    <3> QED BY <1>3, <2>2, <3>2
  <2>3. CASE Dispatch_VFO_FALL
    BY <2>2, <2>3 DEF Dispatch_VFO_FALL
  <2>4. CASE Control_delay_end
    <3>1. cbl'.speed = cbl.speed /\ Commanded(cbl')
      BY <1>1, <1>2, <2>4 DEF Control_delay_end, Cbl, Commanded
    <3> QED BY <1>3, <1>5, <2>4, <3>1 DEF Control_delay_end
  <2>5. CASE Dispatch_PWM_OE_RISE
    BY <1>5, <2>2, <2>5 DEF Dispatch_PWM_OE_RISE
  <2>6. CASE Dispatch_MOTOR_STOP
    <3>1. CASE toie
      <4>1. /\ job'.target = 0 /\ job'.time = cbl.deceler_time[cbl.direction]
            /\ ctl' = "get" /\ UNCHANGED cbl
        BY <2>6, <3>1 DEF Dispatch_MOTOR_STOP
      <4>2. job'.time \in Times
        BY <1>1, <1>2, <4>1 DEF Cbl, Commanded
      <4> QED BY <1>2, <4>1, <4>2 DEF SpeedInv
    <3>2. CASE ~toie
      BY <1>2, <1>3, <1>5, <2>6, <3>2 DEF Dispatch_MOTOR_STOP
    <3> QED BY <3>1, <3>2
  <2>7. ASSUME NEW dir \in Dirs, Dispatch_MOTOR_START(dir)
        PROVE  SpeedInv'
    <3>1. CASE MayStart
      <4>1. /\ job'.target = cbl.move_freq[dir]
            /\ job'.time = cbl.acceler_time[dir]
            /\ ctl' = "start" /\ UNCHANGED cbl
        BY <2>7, <3>1 DEF Dispatch_MOTOR_START
      <4>2. job'.target \in MoveFreqs /\ job'.time \in Times
        BY <1>2, <4>1 DEF Commanded
      <4> QED BY <1>2, <4>1, <4>2 DEF SpeedInv
    <3>2. CASE ~MayStart
      BY <1>2, <1>3, <1>5, <2>7, <3>2 DEF Dispatch_MOTOR_START
    <3> QED BY <3>1, <3>2
  <2>8. CASE PWM_start
    <3> DEFINE sp == [cbl.speed EXCEPT !.mot_freq = START_FREQ,
                                       !.ll_mot_freq = START_FREQ * Q]
    <3>1. cbl'.speed = sp /\ Commanded(cbl')
      BY <1>1, <1>2, <2>8 DEF PWM_start, Cbl, Commanded
    <3>2. cbl.speed \in Speeds
      BY <1>1 DEF Cbl
    <3>3. Moderate(sp)
      BY <1>2, <3>2, StartModerate
    <3> HIDE DEF sp
    <3> QED BY <1>2, <2>8, <3>1, <3>3 DEF PWM_start, SpeedInv
  <2>9. CASE SpeedChange_get
    BY <1>2, <2>9 DEF SpeedChange_get, SpeedInv
  <2>10. CASE SpeedChange_plan
    <3>1. CASE job.target # copy.speed.mot_freq
      <4>1. /\ copy' = Ramped(copy, job) /\ ctl = "plan" /\ ctl' = "set"
            /\ UNCHANGED cbl
        BY <2>10, <3>1 DEF SpeedChange_plan
      <4>2. Moderate(copy'.speed) /\ Commanded(copy')
        BY <1>1, <1>2, <4>1, RampedModerate, RampedCommanded
      <4> QED BY <1>2, <4>1, <4>2 DEF SpeedInv
    <3>2. CASE job.target = copy.speed.mot_freq
      BY <1>2, <1>3, <1>5, <2>10, <3>2 DEF SpeedChange_plan
    <3> QED BY <3>1, <3>2
  <2>11. CASE SpeedChange_set
    BY <1>2, <1>5, <2>11 DEF SpeedChange_set, SpeedInv
  <2> QED
    BY <1>6, <2>1, <2>3, <2>4, <2>5, <2>6, <2>7, <2>8, <2>9, <2>10, <2>11
       DEF Control_task
<1>7. CASE Motor_ISR_task
  <2> DEFINE c == AfterPeriod(cbl)
             slow == c.speed.mot_freq <= MIN_FREQ
  <2>1. c \in Cbl
    BY <1>1, AfterPeriodType
  <2>2. cbl.speed.mot_freq > MIN_FREQ \/ cbl.speed = Rest
    BY <1>2, <1>7 DEF Motor_ISR_task, Moving
  <2>3. (slow \/ Moderate(c.speed)) /\ Commanded(c)
    BY <1>1, <1>2, <2>2, PeriodSpeed
  <2>4. /\ cbl' = IF slow THEN Stopped(c) ELSE c
        /\ UNCHANGED <<ctl, job, copy>>
    BY <1>7 DEF Motor_ISR_task, ctask
  <2> HIDE DEF c
  <2>5. Moderate(cbl'.speed) /\ Commanded(cbl')
    BY <2>1, <2>3, <2>4, StoppedSpeed
  <2> QED BY <1>2, <2>4, <2>5 DEF SpeedInv
<1>8. CASE PORTA_isr \/ PORTB_isr
  BY <1>2, <1>3, <1>4, <1>8 DEF PORTA_isr, PORTB_isr
<1>9. CASE Rx_emergency_step
  <2>1. CASE Rx_PWM_stop_toie \/ Rx_PWM_stop_outputs \/ Rx_Reset_aver_curr
    BY <1>2, <1>3, <2>1
       DEF Rx_PWM_stop_toie, Rx_PWM_stop_outputs, Rx_Reset_aver_curr, ctask
  <2>2. CASE Rx_emergency_clear
    BY <1>1, <1>2, <1>3, <2>2, StoppedSpeed DEF Rx_emergency_clear, ctask
  <2> QED BY <1>9, <2>1, <2>2 DEF Rx_emergency_step
<1>10. CASE Measure_task \/ Edges
  BY <1>2, <1>3, <1>10 DEF Measure_task, Edges, ChainEdge, VfoEdge, ctask
<1>11. CASE Commands
  <2>1. ASSUME NEW dir \in Dirs, NEW f \in MoveFreqs, NEW t \in Times,
               CAN_Rx_start(dir, f, t)
        PROVE  SpeedInv'
    <3>1. cbl'.speed = cbl.speed /\ Commanded(cbl')
      BY <1>1, <1>2, <2>1 DEF CAN_Rx_start, Cbl, Commanded
    <3> QED BY <1>3, <1>4, <2>1, <3>1 DEF CAN_Rx_start
  <2>2. ASSUME NEW t \in Times, CAN_Rx_stop(t)
        PROVE  SpeedInv'
    <3>1. cbl'.speed = cbl.speed /\ Commanded(cbl')
      BY <1>1, <1>2, <2>2 DEF CAN_Rx_stop, Cbl, Commanded
    <3> QED BY <1>3, <1>4, <2>2, <3>1 DEF CAN_Rx_stop
  <2>3. CASE CAN_Rx_emergency
    BY <1>2, <1>3, <2>3 DEF CAN_Rx_emergency, ctask
  <2>4. CASE VT100_snapshot
    BY <1>2, <1>3, <2>4 DEF VT100_snapshot, ctask
  <2>5. ASSUME VT100_edit
        PROVE  FALSE
    BY <1>2, <2>5 DEF VT100_edit
  <2>6. ASSUME NEW e, VT100_key(e)
        PROVE  SpeedInv'
    BY <1>2, <1>3, <1>4, <2>6 DEF VT100_key
  <2> QED
    BY <1>11, <2>1, <2>2, <2>3, <2>4, <2>5, <2>6 DEF Commands
<1>12. CASE UNCHANGED vars
  BY <1>2, <1>3, <1>12 DEF vars, ctask
<1> QED
  BY <1>6, <1>7, <1>8, <1>9, <1>10, <1>11, <1>12 DEF Next, System

\* When every ramp takes time and nobody edits on the motor screen, the speed
\* never rises more than START_FREQ above the highest speed asked for, even
\* when a start runs into the rest of a ramp that MC_init_speed_change wrote
\* after the drive had been switched off.
THEOREM SpeedKept ==
  ASSUME ~VT100Active, 0 \notin Times
  PROVE  Spec => []SpeedBounded
<1>1. Init => SpeedInv
  BY SpeedInit
<1>2. TypeOK /\ MovingInv /\ SpeedInv /\ [Next]_vars => SpeedInv'
  BY SpeedStep
<1>3. SpeedInv => SpeedBounded
  BY DEF SpeedInv, Moderate, SpeedBounded, Top
<1> QED BY <1>1, <1>2, <1>3, MovingInvariant, PTL DEF Spec

=============================================================================
