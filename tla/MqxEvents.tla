------------------------------ MODULE MqxEvents ------------------------------
(***************************************************************************)
(* What the tasks of the firmware share of the MQX kernel: priorities and  *)
(* the ready state (sched.c), one group of light-weight events             *)
(* (lwevent.c), time-outs (_time_notify_kernel, time.c) and the switch of  *)
(* preemption (task.c), as operators that a specification of tasks         *)
(* combines.  Time is abstract: a time-out may come at any moment.  The    *)
(* group has no auto-clear bits, so the order of its queue is not seen.    *)
(***************************************************************************)
EXTENDS Naturals, FiniteSets

CONSTANTS
  Task,         \* the tasks modelled
  Prio,         \* their priorities, 0 is the highest
  Bit           \* the event bits they use

ASSUME TaskAssumption ==
  /\ Prio \in [Task -> Nat]
  /\ \A s, t \in Task : s # t => Prio[s] # Prio[t]

VARIABLES
  value,        \* VALUE of the group: the bits set
  waiting,      \* WAITING_TASKS of the group
  td,           \* descriptors: state, bits (LWEVENT_BITS), timedOut (INFO # 0)
  held          \* tasks that have switched preemption off

kernel == <<value, waiting, td, held>>

TaskDescriptor ==
  [state : {"ready", "event", "delay"}, bits : SUBSET Bit, timedOut : BOOLEAN]

KernelInit ==
  /\ value = {} /\ waiting = {} /\ held = {}
  /\ td = [t \in Task |-> [state |-> "ready", bits |-> {}, timedOut |-> FALSE]]

Ready == {t \in Task : td[t].state = "ready"}

\* The task the processor executes: the ready one of the highest priority,
\* or the one that keeps the processor with preemption switched off.
\* Mutant: switching preemption off has no effect.
Mut_Running(t) == t \in Ready /\ \A s \in Ready : Prio[t] <= Prio[s]

Running(t) ==
  /\ t \in Ready
  /\ IF held \cap Ready = {}
       THEN \A s \in Ready : Prio[t] <= Prio[s]
       ELSE t \in held

Sleeping(t, why) == [td EXCEPT ![t].state = why]

(***************************************************************************)
(* _lwevent_wait_internal with a time-out: the call of task t ends at once *)
(* when bits of the mask are set, and puts the task to sleep otherwise.    *)
(* INFO stays set unless _lwevent_set resets it.                           *)
(***************************************************************************)
WaitSatisfied(t, mask) ==
  /\ value \cap mask # {}
  /\ td' = [td EXCEPT ![t].bits = value \cap mask, ![t].timedOut = FALSE]
  /\ UNCHANGED <<value, waiting, held>>

WaitBlocks(t, mask) ==
  /\ value \cap mask = {}
  /\ td' = [td EXCEPT ![t] = [state |-> "event", bits |-> mask, timedOut |-> TRUE]]
  /\ waiting' = waiting \cup {t}
  /\ UNCHANGED <<value, held>>

(***************************************************************************)
(* _lwevent_set: every waiting task that wants one of the bits now set     *)
(* leaves the queue, is ready and knows which of its bits are set.         *)
(***************************************************************************)
Woken(bits) == {t \in waiting : td[t].bits \cap (value \cup bits) # {}}

Set(bits) ==
  /\ value' = value \cup bits
  /\ waiting' = waiting \ Woken(bits)
  /\ td' = [t \in Task |->
              IF t \in Woken(bits)
                THEN [state |-> "ready", bits |-> td[t].bits \cap value',
                      timedOut |-> FALSE]
                ELSE td[t]]
  /\ UNCHANGED held

(***************************************************************************)
(* _lwevent_get_signalled and _lwevent_clear after a wait of task t: the   *)
(* bits it was told are reset.  What the wait left in the descriptor is    *)
(* not read again.                                                         *)
(***************************************************************************)
Returned(t) == td[t].state = "ready" /\ ~td[t].timedOut

TakeEvents(t) ==
  /\ value' = IF Returned(t) THEN value \ td[t].bits ELSE value
  /\ td' = [td EXCEPT ![t].bits = {}, ![t].timedOut = FALSE]
  /\ UNCHANGED <<waiting, held>>

(***************************************************************************)
(* _time_notify_kernel: the time of a sleeping task is up.  A task that    *)
(* waited for events leaves the queue of the group.                        *)
(***************************************************************************)
\* Mutant: the task is left in the queue of the group.
Mut_TimeUp(t) ==
  /\ td[t].state # "ready"
  /\ td' = [td EXCEPT ![t].state = "ready"]
  /\ UNCHANGED <<value, waiting, held>>

TimeUp(t) ==
  /\ td[t].state # "ready"
  /\ td' = [td EXCEPT ![t].state = "ready"]
  /\ waiting' = waiting \ {t}
  /\ UNCHANGED <<value, held>>

\* _time_delay, _time_delay_ticks
Delay(t) ==
  /\ td' = Sleeping(t, "delay")
  /\ UNCHANGED <<value, waiting, held>>

\* _task_stop_preemption, _task_start_preemption
StopPreemption(t) ==
  /\ held' = held \cup {t}
  /\ UNCHANGED <<value, waiting, td>>

StartPreemption(t) ==
  /\ held' = held \ {t}
  /\ UNCHANGED <<value, waiting, td>>

-----------------------------------------------------------------------------
KernelTypeOK ==
  /\ value \subseteq Bit /\ waiting \subseteq Task /\ held \subseteq Task
  /\ td \in [Task -> TaskDescriptor]

(***************************************************************************)
(* No wait misses its event: a task sleeps on the group exactly while it   *)
(* is in its queue, and then none of the bits it waits for is set; neither *)
(* a bit set on the way to sleep nor a time-out racing a bit leaves a task *)
(* behind (_lwevent_wait_internal, _lwevent_set, _time_notify_kernel).     *)
(***************************************************************************)
NoMissedEvent ==
  \A t \in Task :
    /\ t \in waiting <=> td[t].state = "event"
    /\ t \in waiting => td[t].bits \cap value = {}
=============================================================================
