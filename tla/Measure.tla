------------------------------- MODULE Measure -------------------------------
(***************************************************************************)
(* The measurement of the drive's currents and voltages: the interrupt of  *)
(* the converters fills a buffer of two halves (ADC_control.c), and        *)
(* Measure_task evaluates the half it is told is full (Main.c).  The       *)
(* results go to the monitor, which waits for them (MonitorVT100.c), and   *)
(* to the display, which looks twice a second (Main.c).                    *)
(*                                                                         *)
(* A sample carries the half it belongs to and a result the round that     *)
(* computed it.  The kernel is MqxEvents.                                  *)
(***************************************************************************)
EXTENDS MqxEvents

CONSTANTS
  Measure_task, VT100_task, LCD_task,
  SMPL_ARR1_FULL, SMPL_ARR2_FULL, MEAS_RES_READY,
  Half,         \* TST_SMPLS_ARR_SZ / 2
  Channels,     \* MEAS_RES_ARR_SZ
  Laps,         \* laps of the buffer told apart
  Rounds        \* rounds of Measure_task told apart

Readers == {VT100_task, LCD_task}
Full == {SMPL_ARR1_FULL, SMPL_ARR2_FULL}

ASSUME MeasureAssumption ==
  /\ Half \in Nat \ {0} /\ Channels \in Nat \ {0}
  /\ Laps \in Nat \ {0} /\ Rounds \in Nat \ {0}
  /\ Task = {Measure_task} \cup Readers
  /\ Measure_task \notin Readers /\ VT100_task # LCD_task
  /\ Prio[Measure_task] < Prio[VT100_task] /\ Prio[VT100_task] < Prio[LCD_task]
  /\ Bit = Full \cup {MEAS_RES_READY}
  /\ SMPL_ARR1_FULL # SMPL_ARR2_FULL /\ MEAS_RES_READY \notin Full

VARIABLES
  smpls,        \* for each position the half its sample belongs to
  arr_pos,      \* the position the interrupt fills next
  lap,          \* laps of the buffer, modulo Laps
  pc,
  events,       \* the events Measure_task was told
  n, i,         \* its loop counters
  seen,         \* halves of the samples it has read in this round
  results,      \* meas_results: the round that wrote each element
  round,        \* rounds announced, modulo Rounds
  owner,        \* of meas_mutex
  copy, k,      \* mres of the readers, and elements copied
  late          \* history: a half was full before the last one was evaluated,
                \* and Measure_task has not had to wait since

buffer == <<smpls, arr_pos, lap>>
round_vars == <<n, i, seen>>
readers == <<copy, k>>
vars == <<kernel, buffer, pc, events, round_vars, results, round, owner,
          readers, late>>

Positions == 0..2 * Half - 1
Halves == 0..2 * Laps - 1
Blank == [c \in 1..Channels |-> Rounds]     \* mres before anything is copied

Init ==
  /\ KernelInit
  /\ smpls = [p \in Positions |-> 0] /\ arr_pos = 0 /\ lap = 0
  /\ pc = [t \in Task |-> CASE t = Measure_task -> "lock"
                            [] t = VT100_task -> "menu"
                            [] t = LCD_task -> "stop"]
  /\ events = {} /\ n = 1 /\ i = 0 /\ seen = {}
  /\ results = [c \in 1..Channels |-> 0] /\ round = 0
  /\ owner = "none"
  /\ copy = [t \in Readers |-> Blank] /\ k = [t \in Readers |-> 0]
  /\ late = FALSE

At(t, where) == pc[t] = where /\ Running(t)
Go(t, where) == pc' = [pc EXCEPT ![t] = where]

-----------------------------------------------------------------------------
\* Measure_task has still to take or to evaluate a half it was told of.
Busy ==
  \/ value \cap Full # {}
  \/ pc[Measure_task] = "told" /\ Returned(Measure_task)
  \/ pc[Measure_task] = "read"

\* Mutant: the position is not reset at the end of the buffer.
Mut_NextPos == arr_pos + 1
NextPos == IF arr_pos + 1 = 2 * Half THEN 0 ELSE arr_pos + 1

\* Store a sample of every channel and announce a half that is full.
PDB0_isr ==
  LET next == arr_pos + 1
  IN  /\ smpls' = [smpls EXCEPT ![arr_pos] = 2 * lap + arr_pos \div Half]
      /\ arr_pos' = NextPos
      /\ lap' = IF next = 2 * Half THEN (lap + 1) % Laps ELSE lap
      /\ IF next \in {Half, 2 * Half}
           THEN /\ Set(IF next = Half THEN {SMPL_ARR1_FULL} ELSE {SMPL_ARR2_FULL})
                /\ late' = (late \/ Busy)
           ELSE UNCHANGED <<kernel, late>>
      /\ UNCHANGED <<pc, events, round_vars, results, round, owner, readers>>

-----------------------------------------------------------------------------
(***************************************************************************)
(* MC_get_events is a wait, a return and, when it was successful, the      *)
(* reset of the bits it returns; interrupts and other tasks run between.   *)
(***************************************************************************)
Wait(t, mask) == WaitSatisfied(t, mask) \/ WaitBlocks(t, mask)

After(t, ok, failed) == Go(t, IF Returned(t) THEN ok ELSE failed)

\* _mutex_lock returns an error when the caller has the mutex already, and
\* Measure_task goes on.
\* Mutant: the second lock of the owner waits for the mutex.
Mut_Lock_meas_mutex == owner = "none" /\ owner' = "Measure_task"
Lock_meas_mutex == owner' = "Measure_task"

Measure_lock ==
  /\ At(Measure_task, "lock") /\ Lock_meas_mutex /\ Go(Measure_task, "wait")
  /\ UNCHANGED <<kernel, buffer, events, round_vars, results, round, readers, late>>

Measure_wait ==
  /\ At(Measure_task, "wait") /\ Go(Measure_task, "told")
  /\ \/ WaitSatisfied(Measure_task, Full) /\ UNCHANGED late
     \/ WaitBlocks(Measure_task, Full) /\ late' = FALSE
  /\ UNCHANGED <<buffer, events, round_vars, results, round, owner, readers>>

Measure_told ==
  /\ At(Measure_task, "told") /\ TakeEvents(Measure_task)
  /\ After(Measure_task, "read", "lock")
  /\ events' = IF Returned(Measure_task) THEN td[Measure_task].bits ELSE {}
  /\ UNCHANGED <<buffer, round_vars, results, round, owner, readers, late>>

\* Mutant: the halves are mistaken for each other.
Mut_sindx == IF events = {SMPL_ARR2_FULL} THEN 0 ELSE Half
sindx == IF events = {SMPL_ARR2_FULL} THEN Half ELSE 0

\* The minimum, maximum, average and rms of one channel after the other.
Measure_read ==
  /\ At(Measure_task, "read") /\ i < Half
  /\ seen' = seen \cup {smpls[i + sindx]} /\ i' = i + 1
  /\ UNCHANGED <<kernel, buffer, pc, events, n, results, round, owner, readers, late>>

Measure_store ==
  /\ At(Measure_task, "read") /\ i = Half
  /\ results' = [results EXCEPT ![n] = (round + 1) % Rounds]
  /\ IF n = Channels
       THEN Go(Measure_task, "post") /\ UNCHANGED <<n, i>>
       ELSE n' = n + 1 /\ i' = 0 /\ UNCHANGED pc
  /\ UNCHANGED <<kernel, buffer, events, seen, round, owner, readers, late>>

Measure_post ==
  /\ At(Measure_task, "post") /\ Set({MEAS_RES_READY})
  /\ round' = (round + 1) % Rounds /\ Go(Measure_task, "unlock")
  /\ UNCHANGED <<buffer, events, round_vars, results, owner, readers, late>>

Measure_unlock ==
  /\ At(Measure_task, "unlock") /\ owner' = "none" /\ Go(Measure_task, "lock")
  /\ events' = {} /\ n' = 1 /\ i' = 0 /\ seen' = {}
  /\ UNCHANGED <<kernel, buffer, results, round, readers, late>>

Measure ==
  \/ Measure_lock \/ Measure_wait \/ Measure_told \/ Measure_read \/ Measure_store
  \/ Measure_post \/ Measure_unlock

-----------------------------------------------------------------------------
(***************************************************************************)
(* Get_copy_meas_results: the array is copied with preemption off.         *)
(***************************************************************************)
others == <<buffer, events, round_vars, results, round, owner, late>>

Copy_stop(t) ==
  /\ At(t, "stop") /\ StopPreemption(t) /\ Go(t, "copy")
  /\ UNCHANGED <<others, readers>>

Copy_element(t) ==
  /\ At(t, "copy") /\ k[t] < Channels
  /\ k' = [k EXCEPT ![t] = @ + 1]
  /\ copy' = [copy EXCEPT ![t][k[t] + 1] = results[k[t] + 1]]
  /\ UNCHANGED <<kernel, others, pc>>

Copy_start(t) ==
  /\ At(t, "copy") /\ k[t] = Channels
  /\ StartPreemption(t) /\ Go(t, "show")
  /\ k' = [k EXCEPT ![t] = 0] /\ UNCHANGED <<others, copy>>

Get_copy_meas_results(t) == Copy_stop(t) \/ Copy_element(t) \/ Copy_start(t)

(***************************************************************************)
(* Do_Meas_values_view: key '0' starts the output of a line for every      *)
(* round, and 'R' ends it.  The first wait only resets an old event.       *)
(***************************************************************************)
VT100_idle ==
  /\ At(VT100_task, "menu") /\ Delay(VT100_task)
  /\ UNCHANGED <<others, pc, readers>>

VT100_begin ==
  /\ At(VT100_task, "menu") /\ Go(VT100_task, "first")
  /\ UNCHANGED <<kernel, others, readers>>

VT100_wait ==
  \E from \in {<<"first", "reset">>, <<"loop", "told">>} :
    /\ At(VT100_task, from[1]) /\ Wait(VT100_task, {MEAS_RES_READY})
    /\ Go(VT100_task, from[2])
    /\ UNCHANGED <<others, readers>>

VT100_reset ==
  /\ At(VT100_task, "reset") /\ TakeEvents(VT100_task)
  /\ After(VT100_task, "loop", "loop")
  /\ UNCHANGED <<others, readers>>

VT100_told ==
  /\ At(VT100_task, "told") /\ TakeEvents(VT100_task)
  /\ After(VT100_task, "stop", "key")
  /\ UNCHANGED <<others, readers>>

VT100_print ==
  /\ At(VT100_task, "show") /\ Go(VT100_task, "key")
  /\ UNCHANGED <<kernel, others, readers>>

\* Mutant: the event is reset before every wait.
Mut_VT100_key ==
  /\ At(VT100_task, "key") /\ Go(VT100_task, "loop")
  /\ value' = value \ {MEAS_RES_READY}
  /\ UNCHANGED <<waiting, td, held, others, readers>>

VT100_key ==
  /\ At(VT100_task, "key")
  /\ \/ Go(VT100_task, "loop") /\ UNCHANGED copy
     \/ Go(VT100_task, "menu") /\ copy' = [copy EXCEPT ![VT100_task] = Blank]
  /\ UNCHANGED <<kernel, others, k>>

Do_Meas_values_view ==
  \/ VT100_idle \/ VT100_begin \/ VT100_wait \/ VT100_reset \/ VT100_told
  \/ Get_copy_meas_results(VT100_task) \/ VT100_print \/ VT100_key

\* LCD_task: the display shows what it has copied and sleeps for 500 ms.
LCD_show ==
  /\ At(LCD_task, "show") /\ Delay(LCD_task) /\ Go(LCD_task, "stop")
  /\ copy' = [copy EXCEPT ![LCD_task] = Blank] /\ UNCHANGED <<others, k>>

Display == Get_copy_meas_results(LCD_task) \/ LCD_show

-----------------------------------------------------------------------------
Tick(t) ==
  /\ TimeUp(t)
  /\ UNCHANGED <<others, pc, readers>>

Next ==
  \/ PDB0_isr \/ Measure \/ Do_Meas_values_view \/ Display
  \/ \E t \in Task : Tick(t)

\* Conversions go on, time passes, and a task that may run does.
Fairness ==
  /\ WF_vars(PDB0_isr) /\ WF_vars(Measure)
  /\ SF_vars(Do_Meas_values_view) /\ SF_vars(Display)
  /\ \A t \in Task : WF_vars(Tick(t))

Spec == Init /\ [][Next]_vars /\ Fairness

-----------------------------------------------------------------------------
TypeOK ==
  /\ KernelTypeOK
  /\ smpls \in [Positions -> Halves] /\ arr_pos \in Positions /\ lap \in 0..Laps - 1
  /\ pc \in [Task -> {"lock", "wait", "told", "read", "post", "unlock",
                      "menu", "first", "reset", "loop", "stop", "copy", "show", "key"}]
  /\ events \subseteq Full /\ n \in 1..Channels /\ i \in 0..Half /\ seen \subseteq Halves
  /\ results \in [1..Channels -> 0..Rounds - 1] /\ round \in 0..Rounds - 1
  /\ owner \in {"none", "Measure_task"}
  /\ copy \in [Readers -> [1..Channels -> 0..Rounds]]
  /\ k \in [Readers -> 0..Channels]

(***************************************************************************)
(* The values of a round come from one half of the buffer, although the    *)
(* interrupt goes on writing (Main.c:370-402, ADC_control.c:56-86), unless *)
(* the next half was full too early; and a Measure_task that came late is  *)
(* in step again as soon as it has to wait.                                *)
(***************************************************************************)
OneHalf ==
  pc[Measure_task] = "post" /\ ~late => \E h \in Halves : seen = {h}

(***************************************************************************)
(* A copy is of one round, whatever Measure_task, which may preempt both   *)
(* readers, does meanwhile (Get_copy_meas_results, Main.c:456-461).        *)
(***************************************************************************)
CopiesAreWhole ==
  \A t \in Readers : pc[t] = "show" => \A c \in 1..Channels : copy[t][c] = copy[t][1]

(***************************************************************************)
(* The monitor never sleeps on a round it has not printed: while it waits  *)
(* for the next one, its last line is of the last round announced          *)
(* (MonitorVT100.c:1360-1368; the first line of an output is exempt).      *)
(***************************************************************************)
MonitorUpToDate ==
  (/\ pc[VT100_task] = "told"
   /\ td[VT100_task].state = "event"
   /\ copy[VT100_task] # Blank)
  => copy[VT100_task][1] = round

(***************************************************************************)
(* The measurement never stops for good: neither a time-out with the mutex *)
(* held nor a reader can keep Measure_task from its next round             *)
(* (Main.c:362-428).                                                       *)
(***************************************************************************)
ResultsKeepComing == []<>(pc[Measure_task] = "post")

(***************************************************************************)
(* As long as Measure_task keeps up with the interrupts, the monitor that  *)
(* was told to print prints, or is told to stop (MonitorVT100.c:1361-1376).*)
(***************************************************************************)
MonitorPrints ==
  []<>(td[Measure_task].state = "event")
  => (pc[VT100_task] = "loop" ~> pc[VT100_task] \in {"show", "menu"})
=============================================================================
