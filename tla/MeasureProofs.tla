---------------------------- MODULE MeasureProofs ----------------------------
(***************************************************************************)
(* Proofs about Measure, for any number of channels and samples: types,    *)
(* the events, rounds of one half, whole copies and an up-to-date monitor. *)
(***************************************************************************)
EXTENDS Measure, Integers, TLAPS

-----------------------------------------------------------------------------
\* The half of a position (PDB0_isr writes 2 * lap plus this).
LEMMA HalfOf ==
  ASSUME NEW p \in Positions
  PROVE  p \div Half = IF p < Half THEN 0 ELSE 1
<1> USE MeasureAssumption DEF Positions
<1>1. CASE p < Half
  BY <1>1, Z3
<1>2. CASE ~(p < Half)
  <2>1. p - Half \in 0..Half - 1
    BY <1>2
  <2> QED BY <1>2, <2>1, Z3
<1> QED BY <1>1, <1>2

\* What each operator of the kernel leaves of the right type.
LEMMA SetTyped ==
  ASSUME KernelTypeOK, NEW bits \in SUBSET Bit, Set(bits)
  PROVE  KernelTypeOK'
BY DEF KernelTypeOK, Set, Woken, TaskDescriptor

LEMMA WaitTyped ==
  ASSUME KernelTypeOK, NEW t \in Task, NEW mask \in SUBSET Bit,
         WaitSatisfied(t, mask) \/ WaitBlocks(t, mask)
  PROVE  KernelTypeOK'
<1>1. CASE WaitSatisfied(t, mask)
  BY <1>1 DEF KernelTypeOK, WaitSatisfied, TaskDescriptor
<1>2. CASE WaitBlocks(t, mask)
  BY <1>2 DEF KernelTypeOK, WaitBlocks, TaskDescriptor
<1> QED BY <1>1, <1>2

LEMMA TakeTyped ==
  ASSUME KernelTypeOK, NEW t \in Task, TakeEvents(t)
  PROVE  KernelTypeOK'
BY DEF KernelTypeOK, TakeEvents, TaskDescriptor

LEMMA SleepTyped ==
  ASSUME KernelTypeOK, NEW t \in Task, Delay(t) \/ TimeUp(t)
  PROVE  KernelTypeOK'
BY DEF KernelTypeOK, Delay, TimeUp, Sleeping, TaskDescriptor

LEMMA PreemptionTyped ==
  ASSUME KernelTypeOK, NEW t \in Task, StopPreemption(t) \/ StartPreemption(t)
  PROVE  KernelTypeOK'
BY DEF KernelTypeOK, StopPreemption, StartPreemption

-----------------------------------------------------------------------------
\* The initial state has the right types.
LEMMA InitTyped == Init => TypeOK
BY MeasureAssumption DEF Init, TypeOK, KernelInit, KernelTypeOK, TaskDescriptor,
   Positions, Halves, Blank, Readers

\* A task is told of the bits it waits for and of no others.
BitsAsked ==
  /\ td[Measure_task].bits \subseteq Full
  /\ td[VT100_task].bits \subseteq {MEAS_RES_READY}

\* With the bits a task may be told, types are inductive.
LEMMA StepTyped == TypeOK /\ BitsAsked /\ [Next]_vars => TypeOK'
<1> SUFFICES ASSUME TypeOK, BitsAsked, [Next]_vars PROVE TypeOK'
  OBVIOUS
<1> USE MeasureAssumption DEF TypeOK, Readers, At, Go, kernel, buffer, round_vars, readers, others
<1>m. Measure_task \in Task /\ VT100_task \in Task /\ LCD_task \in Task
  OBVIOUS
<1>f. Full \in SUBSET Bit /\ {MEAS_RES_READY} \in SUBSET Bit
  OBVIOUS
<1>1. CASE PDB0_isr
  <2>1. KernelTypeOK'
    <3>1. CASE UNCHANGED kernel
      BY <3>1 DEF KernelTypeOK
    <3>2. CASE \E bits \in SUBSET Bit : Set(bits)
      BY <3>2, SetTyped
    <3> QED BY <1>1, <3>1, <3>2 DEF PDB0_isr, Full
  <2>2. arr_pos' \in Positions /\ lap' \in 0..Laps - 1
    <3>1. (lap + 1) % Laps \in 0..Laps - 1
      OBVIOUS
    <3>2. arr_pos' = NextPos /\ lap' \in {lap, (lap + 1) % Laps}
      BY <1>1 DEF PDB0_isr
    <3>3. NextPos \in Positions
      BY DEF NextPos, Positions
    <3> QED BY <3>1, <3>2, <3>3
  <2>3. smpls' \in [Positions -> Halves]
    <3>1. arr_pos \div Half \in {0, 1}
      BY HalfOf
    <3>2. 2 * lap + arr_pos \div Half \in Halves
      <4>1. lap \in Int /\ 0 <= lap /\ lap <= Laps - 1
        OBVIOUS
      <4> QED BY <3>1, <4>1 DEF Halves
    <3> QED BY <1>1, <3>2 DEF PDB0_isr
  <2> QED BY <1>1, <2>1, <2>2, <2>3 DEF PDB0_isr
<1>2. CASE Measure_lock
  BY <1>2 DEF Measure_lock, Lock_meas_mutex, KernelTypeOK
<1>3. CASE Measure_wait
  <2>1. KernelTypeOK'
    BY <1>3, <1>m, <1>f, WaitTyped DEF Measure_wait
  <2> QED BY <1>3, <2>1 DEF Measure_wait
<1>4. CASE Measure_told
  <2>1. KernelTypeOK'
    BY <1>4, <1>m, TakeTyped DEF Measure_told
  <2>2. events' \subseteq Full
    BY <1>4 DEF Measure_told, BitsAsked
  <2> QED BY <1>4, <2>1, <2>2 DEF Measure_told, After
<1>5. CASE Measure_read
  <2>1. i + sindx \in Positions
    <3>1. i \in Nat /\ i < Half /\ sindx \in {0, Half}
      BY <1>5 DEF Measure_read, sindx
    <3> QED BY <3>1 DEF Positions
  <2>2. seen' \subseteq Halves
    BY <1>5, <2>1 DEF Measure_read
  <2>3. i \in 0..Half /\ i < Half /\ i' = i + 1
    BY <1>5 DEF Measure_read
  <2>4. i' \in 0..Half
    BY <2>3
  <2>5. UNCHANGED <<kernel, buffer, pc, events, n, results, round, owner, readers>>
    BY <1>5 DEF Measure_read
  <2> QED BY <2>2, <2>4, <2>5 DEF KernelTypeOK
<1>6. CASE Measure_store
  <2>1. (round + 1) % Rounds \in 0..Rounds - 1
    OBVIOUS
  <2>2. n' \in 1..Channels /\ i' \in 0..Half
    <3>1. (n' = n /\ i' = i) \/ (n # Channels /\ n' = n + 1 /\ i' = 0)
      <4>1. CASE n = Channels
        BY <1>6, <4>1 DEF Measure_store
      <4>2. CASE n # Channels
        BY <1>6, <4>2 DEF Measure_store
      <4> QED BY <4>1, <4>2
    <3>2. n \in 1..Channels /\ i \in 0..Half /\ 0 \in 0..Half
      OBVIOUS
    <3>3. n # Channels => n + 1 \in 1..Channels
      BY <3>2
    <3>4. CASE n' = n /\ i' = i
      BY <3>2, <3>4
    <3>5. CASE n # Channels /\ n' = n + 1 /\ i' = 0
      BY <3>2, <3>3, <3>5
    <3> QED BY <3>1, <3>4, <3>5
  <2>3. results' \in [1..Channels -> 0..Rounds - 1]
    BY <1>6, <2>1 DEF Measure_store
  <2>4. pc' = pc \/ pc' = [pc EXCEPT ![Measure_task] = "post"]
    BY <1>6 DEF Measure_store
  <2>5. UNCHANGED <<kernel, buffer, events, seen, round, owner, readers>>
    BY <1>6 DEF Measure_store
  <2> QED BY <2>2, <2>3, <2>4, <2>5 DEF KernelTypeOK
<1>7. CASE Measure_post
  <2>1. KernelTypeOK'
    BY <1>7, <1>f, SetTyped DEF Measure_post
  <2>2. (round + 1) % Rounds \in 0..Rounds - 1
    OBVIOUS
  <2> QED BY <1>7, <2>1, <2>2 DEF Measure_post
<1>8. CASE Measure_unlock
  <2>1. 1 \in 1..Channels /\ 0 \in 0..Half
    OBVIOUS
  <2> QED BY <1>8, <2>1 DEF Measure_unlock, KernelTypeOK
<1>9. ASSUME NEW t \in Readers, Get_copy_meas_results(t) PROVE TypeOK'
  <2>1. CASE Copy_stop(t)
    <3>1. KernelTypeOK'
      BY <2>1, <1>9, PreemptionTyped DEF Copy_stop
    <3> QED BY <2>1, <3>1 DEF Copy_stop
  <2>2. CASE Copy_element(t)
    <3>1. k[t] \in 0..Channels /\ k[t] < Channels
      BY <2>2, <1>9 DEF Copy_element
    <3>2. k[t] + 1 \in 1..Channels /\ results[k[t] + 1] \in 0..Rounds
      <4>1. k[t] + 1 \in 1..Channels
        BY <3>1
      <4>2. results[k[t] + 1] \in 0..Rounds - 1
        BY <4>1
      <4> QED BY <4>1, <4>2
    <3>3. copy' \in [Readers -> [1..Channels -> 0..Rounds]]
      BY <2>2, <1>9, <3>2 DEF Copy_element
    <3>4. k' \in [Readers -> 0..Channels]
      BY <2>2, <1>9, <3>2 DEF Copy_element
    <3> QED BY <2>2, <3>3, <3>4 DEF Copy_element, KernelTypeOK
  <2>3. CASE Copy_start(t)
    <3>1. KernelTypeOK'
      BY <2>3, <1>9, PreemptionTyped DEF Copy_start
    <3> QED BY <2>3, <1>9, <3>1 DEF Copy_start
  <2> QED BY <1>9, <2>1, <2>2, <2>3 DEF Get_copy_meas_results
<1>10. CASE VT100_idle \/ VT100_begin \/ VT100_print
  <2>1. KernelTypeOK'
    <3>1. CASE Delay(VT100_task)
      BY <3>1, <1>m, SleepTyped
    <3> QED BY <1>10, <3>1 DEF VT100_idle, VT100_begin, VT100_print, KernelTypeOK
  <2> QED BY <1>10, <2>1 DEF VT100_idle, VT100_begin, VT100_print
<1>11. CASE VT100_wait
  <2>1. KernelTypeOK'
    BY <1>11, <1>m, <1>f, WaitTyped DEF VT100_wait, Wait
  <2>2. pc' = [pc EXCEPT ![VT100_task] = "reset"] \/ pc' = [pc EXCEPT ![VT100_task] = "told"]
    <3>1. PICK from \in {<<"first", "reset">>, <<"loop", "told">>} :
            pc' = [pc EXCEPT ![VT100_task] = from[2]]
      BY <1>11 DEF VT100_wait
    <3>2. from[2] = "reset" \/ from[2] = "told"
      OBVIOUS
    <3> QED BY <3>1, <3>2
  <2>3. UNCHANGED <<others, readers>>
    BY <1>11 DEF VT100_wait
  <2> QED BY <2>1, <2>2, <2>3
<1>12. CASE VT100_reset \/ VT100_told
  <2>1. KernelTypeOK'
    BY <1>12, <1>m, TakeTyped DEF VT100_reset, VT100_told
  <2> QED BY <1>12, <2>1 DEF VT100_reset, VT100_told, After
<1>13. CASE VT100_key
  <2>1. Blank \in [1..Channels -> 0..Rounds]
    BY DEF Blank
  <2>2. copy' \in [Readers -> [1..Channels -> 0..Rounds]]
    BY <1>13, <2>1 DEF VT100_key
  <2> QED BY <1>13, <2>2 DEF VT100_key, KernelTypeOK
<1>14. CASE LCD_show
  <2>1. KernelTypeOK'
    BY <1>14, <1>m, SleepTyped DEF LCD_show
  <2>2. Blank \in [1..Channels -> 0..Rounds]
    BY DEF Blank
  <2>3. copy' \in [Readers -> [1..Channels -> 0..Rounds]]
    BY <1>14, <2>2 DEF LCD_show
  <2> QED BY <1>14, <2>1, <2>3 DEF LCD_show
<1>15. ASSUME NEW t \in Task, Tick(t) PROVE TypeOK'
  <2>1. KernelTypeOK'
    BY <1>15, SleepTyped DEF Tick
  <2> QED BY <1>15, <2>1 DEF Tick
<1>16. CASE UNCHANGED vars
  BY <1>16 DEF vars, KernelTypeOK
<1> QED BY <1>1, <1>2, <1>3, <1>4, <1>5, <1>6, <1>7, <1>8, <1>9, <1>10, <1>11, <1>12,
        <1>13, <1>14, <1>15, <1>16 DEF Next, Measure, Do_Meas_values_view, Display

(***************************************************************************)
(* The control state of the tasks.  A task is asleep only where its code   *)
(* sleeps; preemption is off exactly while a reader copies.                *)
(***************************************************************************)
Asleep ==
  /\ td[Measure_task].state # "ready" =>
       /\ pc[Measure_task] = "told"
       /\ td[Measure_task].state = "event" /\ td[Measure_task].bits = Full
       /\ td[Measure_task].timedOut
  /\ td[VT100_task].state = "event" =>
       pc[VT100_task] \in {"reset", "told"} /\ td[VT100_task].bits = {MEAS_RES_READY}
  /\ td[VT100_task].state = "delay" => pc[VT100_task] = "menu"
  /\ td[LCD_task].state # "ready" => pc[LCD_task] = "stop" /\ td[LCD_task].state = "delay"

Places ==
  /\ pc[Measure_task] \in {"lock", "wait", "told", "read", "post", "unlock"}
  /\ pc[VT100_task] \in {"menu", "first", "reset", "loop", "told", "stop", "copy", "show", "key"}
  /\ pc[LCD_task] \in {"stop", "copy", "show"}

Held == \A t \in Task : t \in held <=> pc[t] = "copy"

\* A round begins with its counters reset.
Fresh == pc[Measure_task] \in {"lock", "wait", "told"} => seen = {} /\ n = 1 /\ i = 0

\* The results are of the last round announced, or of the one being computed.
Computed ==
  \A c \in 1..Channels :
    results[c] = IF pc[Measure_task] = "post" \/ (pc[Measure_task] = "read" /\ c < n)
                   THEN (round + 1) % Rounds ELSE round

\* Measure_task cannot go on while a reader copies, and what is copied is of
\* the last round announced.
Copying ==
  \A t \in Readers :
    /\ pc[t] = "copy" => /\ pc[Measure_task] = "told"
                         /\ \A c \in 1..k[t] : copy[t][c] = round
    /\ pc[t] # "copy" => k[t] = 0
    /\ pc[t] = "show" => \A c \in 1..Channels : copy[t][c] = copy[t][1]

\* The monitor has the last round, or its event is still set.
Monitored ==
  /\ pc[VT100_task] \in {"menu", "first", "reset"} => copy[VT100_task] = Blank
  /\ pc[VT100_task] \in {"show", "key", "loop", "told"} /\ copy[VT100_task] # Blank
       => copy[VT100_task][1] = round \/ MEAS_RES_READY \in value

\* The half the interrupt is not writing: its first position and its event.
Whole == IF arr_pos < Half THEN Half ELSE 0
WholeEvent == IF arr_pos < Half THEN SMPL_ARR2_FULL ELSE SMPL_ARR1_FULL

\* Its samples are of one lap, and so are those written since.
Filled ==
  /\ \A p \in Whole..Whole + Half - 1 : smpls[p] = smpls[Whole]
  /\ \A p \in Half - Whole..arr_pos - 1 :
       smpls[p] = 2 * lap + (IF arr_pos < Half THEN 0 ELSE 1)

\* In step with the interrupt, Measure_task is told of this half and reads it.
InStep ==
  ~late =>
    /\ value \cap Full \subseteq {WholeEvent}
    /\ pc[Measure_task] = "told" /\ Returned(Measure_task)
         => td[Measure_task].bits = {WholeEvent}
    /\ pc[Measure_task] = "read" =>
         /\ events = {WholeEvent} /\ value \cap Full = {}
         /\ seen \subseteq {smpls[Whole]} /\ (seen = {} => n = 1 /\ i = 0)
    /\ pc[Measure_task] = "post" => \E h \in Halves : seen = {h}

-----------------------------------------------------------------------------
Control == BitsAsked /\ NoMissedEvent /\ Asleep /\ Places /\ Held

LEMMA InitControl == Init => Control
BY MeasureAssumption DEF Init, Control, BitsAsked, NoMissedEvent, Asleep, Places, Held,
   KernelInit, Readers

\* While a reader copies, no task runs that does not.
LEMMA CopyRuns ==
  ASSUME TypeOK, Control, NEW t \in Readers, pc[t] = "copy", NEW s \in Task, Running(s)
  PROVE  pc[s] = "copy"
<1>1. t \in held /\ t \in Ready
  <2>1. t \in Task /\ (t = VT100_task \/ t = LCD_task)
    BY MeasureAssumption DEF Readers
  <2>2. td[t].state \in {"ready", "event", "delay"}
    BY <2>1 DEF TypeOK, KernelTypeOK, TaskDescriptor
  <2>3. td[t].state = "ready"
    BY <2>1, <2>2 DEF Control, Asleep
  <2> QED BY <2>1, <2>3 DEF Control, Held, Ready
<1>2. s \in held
  BY <1>1 DEF Running
<1> QED BY <1>2 DEF Control, Held

\* The two functions that every action changes at some task.
Where ==
  {"lock", "wait", "told", "read", "post", "unlock",
   "menu", "first", "reset", "loop", "stop", "copy", "show", "key"}

LEMMA Functions ==
  ASSUME TypeOK
  PROVE  td \in [Task -> TaskDescriptor] /\ pc \in [Task -> Where]
BY DEF TypeOK, KernelTypeOK, Where

LEMMA ControlStep == TypeOK /\ Control /\ [Next]_vars => Control'
<1> SUFFICES ASSUME TypeOK, Control, [Next]_vars PROVE Control'
  OBVIOUS
<1> USE MeasureAssumption DEF Control, BitsAsked, NoMissedEvent, Asleep, Places, Held,
    At, Go, Running, Ready, Readers, kernel, buffer, round_vars, readers, others
<1>t. td \in [Task -> TaskDescriptor] /\ pc \in [Task -> Where]
  BY Functions
<1>1. CASE PDB0_isr
  BY <1>t, <1>1 DEF PDB0_isr, Set, Woken, Full, TaskDescriptor
<1>2. CASE Measure_lock \/ Measure_read \/ Measure_store \/ Measure_unlock
  BY <1>t, <1>2 DEF Measure_lock, Measure_read, Measure_store, Measure_unlock
<1>3. CASE Measure_wait
  BY <1>t, <1>3 DEF Measure_wait, WaitSatisfied, WaitBlocks, TaskDescriptor
<1>4. CASE Measure_told
  BY <1>t, <1>4 DEF Measure_told, TakeEvents, After, TaskDescriptor
<1>5. CASE Measure_post
  BY <1>t, <1>5 DEF Measure_post, Set, Woken, Full, TaskDescriptor
<1>6. ASSUME NEW t \in Readers, Get_copy_meas_results(t) PROVE Control'
  BY <1>t, <1>6 DEF Get_copy_meas_results, Copy_stop, Copy_element, Copy_start,
     StopPreemption, StartPreemption
<1>7. CASE VT100_begin \/ VT100_print \/ VT100_key
  BY <1>t, <1>7 DEF VT100_begin, VT100_print, VT100_key
<1>8. CASE VT100_wait
  BY <1>t, <1>8 DEF VT100_wait, Wait, WaitSatisfied, WaitBlocks, TaskDescriptor
<1>9. CASE VT100_reset \/ VT100_told
  BY <1>t, <1>9 DEF VT100_reset, VT100_told, TakeEvents, After, TaskDescriptor
<1>10. CASE VT100_idle \/ LCD_show
  BY <1>t, <1>10 DEF VT100_idle, LCD_show, Delay, Sleeping, TaskDescriptor
<1>11. ASSUME NEW t \in Task, Tick(t) PROVE Control'
  BY <1>t, <1>11 DEF Tick, TimeUp, TaskDescriptor
<1>12. CASE UNCHANGED vars
  BY <1>12 DEF vars
<1> QED BY <1>1, <1>2, <1>3, <1>4, <1>5, <1>6, <1>7, <1>8, <1>9, <1>10, <1>11, <1>12
        DEF Next, Measure, Do_Meas_values_view, Display

-----------------------------------------------------------------------------
Passed == Fresh /\ Computed /\ Copying /\ Monitored

LEMMA InitPassed == Init => Passed
BY MeasureAssumption DEF Init, Passed, Fresh, Computed, Copying, Monitored, Readers, Blank

\* A task that may run while a reader copies is not Measure_task.
LEMMA MeasureKeptOut ==
  ASSUME TypeOK, Control, Running(Measure_task), NEW t \in Readers
  PROVE  pc[t] # "copy"
BY CopyRuns, MeasureAssumption DEF Control, Places

LEMMA ComputedStep == TypeOK /\ Control /\ Passed /\ [Next]_vars => Fresh' /\ Computed'
<1> SUFFICES ASSUME TypeOK, Control, Passed, [Next]_vars PROVE Fresh' /\ Computed'
  OBVIOUS
<1> USE MeasureAssumption DEF Passed, Fresh, Computed, At, Go, Readers
<1>t. pc \in [Task -> Where] /\ n \in 1..Channels /\ results \in [1..Channels -> 0..Rounds - 1]
  BY Functions DEF TypeOK
<1>1. CASE Measure_store
  BY <1>t, <1>1 DEF Measure_store
<1>2. CASE Measure_post
  BY <1>t, <1>2 DEF Measure_post
<1>3. CASE Measure_told
  BY <1>t, <1>3 DEF Measure_told, After, round_vars
<1>4. CASE Measure_lock \/ Measure_wait \/ Measure_read \/ Measure_unlock
  BY <1>t, <1>4 DEF Measure_lock, Measure_wait, Measure_read, Measure_unlock, round_vars
<1>5. CASE UNCHANGED <<pc[Measure_task], n, i, seen, results, round>>
  BY <1>5
<1>6. ASSUME NEW t \in Readers, Get_copy_meas_results(t) PROVE UNCHANGED <<pc[Measure_task], n, i, seen, results, round>>
  BY <1>t, <1>6 DEF Get_copy_meas_results, Copy_stop, Copy_element, Copy_start, others, round_vars
<1>7. CASE VT100_idle \/ VT100_begin \/ VT100_wait \/ VT100_reset \/ VT100_told \/ VT100_print \/ VT100_key
  BY <1>t, <1>5, <1>7 DEF VT100_idle, VT100_begin, VT100_wait, VT100_reset, VT100_told, VT100_print,
     VT100_key, After, others, round_vars
<1>8. CASE LCD_show \/ PDB0_isr \/ (\E t \in Task : Tick(t)) \/ UNCHANGED vars
  BY <1>t, <1>5, <1>8 DEF LCD_show, PDB0_isr, Tick, vars, others, round_vars
<1> QED BY <1>1, <1>2, <1>3, <1>4, <1>5, <1>6, <1>7, <1>8
        DEF Next, Measure, Do_Meas_values_view, Display

LEMMA CopyingStep == TypeOK /\ Control /\ Passed /\ [Next]_vars => Copying'
<1> SUFFICES ASSUME TypeOK, Control, Passed, [Next]_vars, NEW t \in Readers
             PROVE  (/\ pc[t] = "copy" => /\ pc[Measure_task] = "told"
                                          /\ \A c \in 1..k[t] : copy[t][c] = round
                     /\ pc[t] # "copy" => k[t] = 0
                     /\ pc[t] = "show" => \A c \in 1..Channels : copy[t][c] = copy[t][1])'
  BY DEF Copying
<1> USE MeasureAssumption DEF Copying, At, Go
<1>t. /\ pc \in [Task -> Where] /\ k \in [Readers -> 0..Channels]
      /\ copy \in [Readers -> [1..Channels -> 0..Rounds]]
      /\ t \in Task /\ Measure_task \in Task /\ t # Measure_task
  BY Functions DEF TypeOK
<1>1. CASE UNCHANGED <<pc[t], k[t], copy[t], pc[Measure_task], round>>
  BY <1>1 DEF Passed
<1>2. CASE Measure
  <2>1. Running(Measure_task)
    BY <1>2 DEF Measure, Measure_lock, Measure_wait, Measure_told, Measure_read, Measure_store,
       Measure_post, Measure_unlock
  <2>2. pc[t] # "copy"
    BY <2>1, MeasureKeptOut
  <2>3. UNCHANGED <<pc[t], k, copy>>
    BY <1>t, <1>2 DEF Measure, Measure_lock, Measure_wait, Measure_told, Measure_read, Measure_store,
       Measure_post, Measure_unlock, readers, After
  <2> QED BY <2>2, <2>3 DEF Passed
<1>3. CASE Copy_stop(t)
  <2>1. pc[Measure_task] = "told"
    <3>1. Running(t) /\ pc[t] # "copy"
      BY <1>3 DEF Copy_stop
    <3>2. held \cap Ready = {}
      BY <3>1, <1>t DEF Running, Control, Held
    <3>3. Measure_task \notin Ready
      BY <3>1, <3>2, <1>t, TaskAssumption DEF Running, Readers
    <3> QED BY <3>3, <1>t DEF Ready, Control, Asleep
  <2>2. pc' = [pc EXCEPT ![t] = "copy"] /\ UNCHANGED <<k, copy, round>>
    BY <1>3 DEF Copy_stop, others, readers
  <2>3. k[t] = 0
    BY <1>3 DEF Copy_stop, Passed
  <2> QED BY <2>1, <2>2, <2>3, <1>t
<1>4. CASE Copy_element(t)
  <2>1. pc[Measure_task] = "told" /\ results[k[t] + 1] = round
    <3>1. pc[Measure_task] = "told"
      BY <1>4 DEF Copy_element, Passed
    <3>2. k[t] + 1 \in 1..Channels
      BY <1>4, <1>t DEF Copy_element
    <3>3. results[k[t] + 1] = round
      BY <3>1, <3>2 DEF Passed, Computed
    <3> QED BY <3>1, <3>3
  <2>2. /\ k' = [k EXCEPT ![t] = k[t] + 1]
        /\ copy' = [copy EXCEPT ![t] = [copy[t] EXCEPT ![k[t] + 1] = round]]
        /\ UNCHANGED <<pc, round>>
    BY <1>4, <2>1 DEF Copy_element, others
  <2>3. pc[t] = "copy" /\ \A c \in 1..k[t] : copy[t][c] = round
    BY <1>4 DEF Copy_element, Passed
  <2>4. ASSUME NEW c \in 1..k[t] + 1 PROVE copy'[t][c] = round
    <3>1. c \in 1..k[t] \/ c = k[t] + 1
      BY <1>t
    <3>2. c \in 1..Channels
      BY <1>t, <1>4 DEF Copy_element
    <3> QED BY <3>1, <3>2, <2>2, <2>3, <1>t
  <2> QED BY <2>1, <2>2, <2>3, <2>4, <1>t
<1>5. CASE Copy_start(t)
  <2>1. \A c \in 1..Channels : copy[t][c] = round
    BY <1>5 DEF Copy_start, Passed
  <2>2. pc' = [pc EXCEPT ![t] = "show"] /\ k' = [k EXCEPT ![t] = 0] /\ UNCHANGED copy
    BY <1>5 DEF Copy_start
  <2> QED BY <2>1, <2>2, <1>t
<1>6. ASSUME NEW s \in Readers, s # t, Get_copy_meas_results(s) PROVE UNCHANGED <<pc[t], k[t], copy[t], pc[Measure_task], round>>
  BY <1>t, <1>6 DEF Get_copy_meas_results, Copy_stop, Copy_element, Copy_start, others, readers, Readers
<1>7. ASSUME VT100_idle \/ VT100_begin \/ VT100_wait \/ VT100_reset \/ VT100_told \/ VT100_print \/ VT100_key
      PROVE  /\ UNCHANGED <<k, round, pc[Measure_task]>> /\ (t # VT100_task => UNCHANGED <<pc[t], copy[t]>>)
             /\ pc[VT100_task] # "copy" /\ pc'[VT100_task] \notin {"copy", "show"}
  BY <1>t, <1>7 DEF VT100_idle, VT100_begin, VT100_wait, VT100_reset, VT100_told, VT100_print,
     VT100_key, After, others, readers, Readers
<1>8. ASSUME LCD_show
      PROVE  /\ UNCHANGED <<k, round, pc[Measure_task]>> /\ (t # LCD_task => UNCHANGED <<pc[t], copy[t]>>)
             /\ pc[LCD_task] # "copy" /\ pc'[LCD_task] \notin {"copy", "show"}
  BY <1>t, <1>8 DEF LCD_show, others, Readers
<1>9. CASE PDB0_isr \/ (\E s \in Task : Tick(s)) \/ UNCHANGED vars
  BY <1>1, <1>9 DEF PDB0_isr, Tick, vars, others, readers
<1>10. CASE t = VT100_task
  <2>1. CASE VT100_idle \/ VT100_begin \/ VT100_wait \/ VT100_reset \/ VT100_told \/ VT100_print \/ VT100_key
    BY <1>7, <1>10, <2>1 DEF Passed
  <2> QED BY <1>1, <1>2, <1>3, <1>4, <1>5, <1>6, <1>8, <1>9, <1>10, <2>1
          DEF Next, Do_Meas_values_view, Display, Get_copy_meas_results, Readers
<1>11. CASE t = LCD_task
  <2>1. CASE LCD_show
    BY <1>8, <1>11, <2>1 DEF Passed
  <2> QED BY <1>1, <1>2, <1>3, <1>4, <1>5, <1>6, <1>7, <1>9, <1>11, <2>1
          DEF Next, Do_Meas_values_view, Display, Get_copy_meas_results, Readers
<1> QED BY <1>10, <1>11 DEF Readers

LEMMA MonitoredStep == TypeOK /\ Control /\ Passed /\ [Next]_vars => Monitored'
<1> SUFFICES ASSUME TypeOK, Control, Passed, [Next]_vars PROVE Monitored'
  OBVIOUS
<1> USE MeasureAssumption DEF Monitored, At, Go
<1>t. /\ pc \in [Task -> Where] /\ copy \in [Readers -> [1..Channels -> 0..Rounds]]
      /\ {Measure_task, VT100_task, LCD_task} \subseteq Task /\ VT100_task \in Readers
      /\ Measure_task # VT100_task /\ Measure_task # LCD_task
  BY Functions DEF TypeOK, Readers
<1>1. CASE UNCHANGED <<pc[VT100_task], copy[VT100_task], round>>
           /\ (MEAS_RES_READY \in value => MEAS_RES_READY \in value')
  BY <1>1 DEF Passed, Blank
<1>2. CASE PDB0_isr
  BY <1>1, <1>2 DEF PDB0_isr, Set, kernel, readers
<1>3. CASE Measure_told
  <2>1. MEAS_RES_READY \notin td[Measure_task].bits
    BY DEF Control, BitsAsked
  <2> QED BY <1>1, <1>3, <1>t, <2>1 DEF Measure_told, TakeEvents, After, readers
<1>4. CASE Measure_post
  <2>1. MEAS_RES_READY \in value'
    BY <1>4 DEF Measure_post, Set
  <2>2. UNCHANGED <<pc[VT100_task], copy>>
    BY <1>4, <1>t DEF Measure_post, readers
  <2> QED BY <2>1, <2>2 DEF Passed, Blank
<1>5. CASE Measure_lock \/ Measure_wait \/ Measure_read \/ Measure_store \/ Measure_unlock
  BY <1>1, <1>5, <1>t DEF Measure_lock, Measure_wait, WaitSatisfied, WaitBlocks, Measure_read,
     Measure_store, Measure_unlock, kernel, readers
<1>6. CASE Copy_stop(VT100_task)
  <2>1. pc'[VT100_task] = "copy"
    BY <1>6, <1>t DEF Copy_stop
  <2> QED BY <2>1
<1>7. CASE Copy_element(VT100_task)
  <2>1. pc'[VT100_task] = "copy"
    BY <1>7, <1>t DEF Copy_element
  <2> QED BY <2>1
<1>8. CASE Copy_start(VT100_task)
  <2>1. copy[VT100_task][1] = round
    <3>1. pc[VT100_task] = "copy" /\ k[VT100_task] = Channels
      BY <1>8 DEF Copy_start
    <3>2. \A c \in 1..k[VT100_task] : copy[VT100_task][c] = round
      BY <3>1, <1>t DEF Passed, Copying
    <3>3. 1 \in 1..Channels
      OBVIOUS
    <3> QED BY <3>1, <3>2, <3>3
  <2>2. UNCHANGED <<copy, round>> /\ pc'[VT100_task] = "show"
    BY <1>8, <1>t DEF Copy_start, others
  <2> QED BY <2>1, <2>2
<1>9. CASE Display
  BY <1>1, <1>9, <1>t DEF Display, Get_copy_meas_results, Copy_stop, Copy_element, Copy_start, LCD_show,
     StopPreemption, StartPreemption, Delay, kernel, others, readers, Readers
<1>10. CASE VT100_idle \/ VT100_begin
  BY <1>10, <1>t DEF VT100_idle, VT100_begin, Delay, kernel, others, readers, Passed, Blank
<1>11. CASE VT100_wait
  <2>1. PICK from \in {<<"first", "reset">>, <<"loop", "told">>} :
          pc[VT100_task] = from[1] /\ pc' = [pc EXCEPT ![VT100_task] = from[2]]
    BY <1>11 DEF VT100_wait
  <2>2. UNCHANGED <<value, copy, round>>
    BY <1>11 DEF VT100_wait, Wait, WaitSatisfied, WaitBlocks, others, readers
  <2>3. CASE from = <<"first", "reset">>
    BY <2>1, <2>2, <2>3, <1>t DEF Passed, Blank
  <2>4. CASE from = <<"loop", "told">>
    BY <2>1, <2>2, <2>4, <1>t DEF Passed, Blank
  <2> QED BY <2>3, <2>4
<1>12. CASE VT100_reset
  BY <1>12, <1>t DEF VT100_reset, After, others, readers, Passed, Blank
<1>13. CASE VT100_told
  BY <1>13, <1>t DEF VT100_told, After, TakeEvents, others, readers, Passed, Blank
<1>14. CASE VT100_print
  BY <1>14, <1>t DEF VT100_print, kernel, others, readers, Passed, Blank
<1>15. CASE VT100_key
  BY <1>15, <1>t DEF VT100_key, kernel, others, Passed, Blank
<1>16. CASE (\E t \in Task : Tick(t)) \/ UNCHANGED vars
  BY <1>1, <1>16 DEF Tick, TimeUp, vars, kernel, others, readers
<1> QED BY <1>2, <1>3, <1>4, <1>5, <1>6, <1>7, <1>8, <1>9, <1>10, <1>11, <1>12, <1>13, <1>14, <1>15, <1>16
        DEF Next, Measure, Do_Meas_values_view, Get_copy_meas_results

-----------------------------------------------------------------------------
Inv == TypeOK /\ Control /\ Passed

LEMMA Invariant == Spec => []Inv
<1>1. Init => Inv
  BY InitTyped, InitControl, InitPassed DEF Inv
<1>2. Inv /\ [Next]_vars => Inv'
  <2> SUFFICES ASSUME Inv, [Next]_vars PROVE Inv'
    OBVIOUS
  <2>1. TypeOK'
    BY StepTyped DEF Inv, Control
  <2>2. Control'
    BY ControlStep DEF Inv
  <2>3. Passed'
    BY ComputedStep, CopyingStep, MonitoredStep DEF Inv, Passed
  <2> QED BY <2>1, <2>2, <2>3 DEF Inv
<1> QED BY <1>1, <1>2, PTL DEF Spec

(***************************************************************************)
(* Every variable keeps its type: the interrupt stays inside the buffer,   *)
(* and the loops of Measure_task and of the copies inside their arrays     *)
(* (ADC_control.c:77-86, Main.c:381-402, 459).                             *)
(***************************************************************************)
THEOREM Typed == Spec => []TypeOK
BY Invariant, PTL DEF Inv

(***************************************************************************)
(* No task sleeps on an event that is set (lwevent.c, time.c).             *)
(***************************************************************************)
THEOREM NoEventMissed == Spec => []NoMissedEvent
<1>1. Inv => NoMissedEvent
  BY DEF Inv, Control
<1> QED BY <1>1, Invariant, PTL

(***************************************************************************)
(* A copy of the results is of one round (Main.c:456-461).                 *)
(***************************************************************************)
THEOREM WholeCopies == Spec => []CopiesAreWhole
<1>1. Inv => CopiesAreWhole
  BY DEF Inv, Passed, Copying, CopiesAreWhole
<1> QED BY <1>1, Invariant, PTL

(***************************************************************************)
(* A monitor that sleeps has printed the last round announced              *)
(* (MonitorVT100.c:1360-1368).                                             *)
(***************************************************************************)
THEOREM UpToDate == Spec => []MonitorUpToDate
<1>1. ASSUME Inv PROVE MonitorUpToDate
  <2>1. td[VT100_task].state = "event" =>
          VT100_task \in waiting /\ MEAS_RES_READY \notin value
    BY <1>1, MeasureAssumption DEF Inv, Control, NoMissedEvent, Asleep, Readers
  <2> QED BY <1>1, <2>1 DEF Inv, Passed, Monitored, MonitorUpToDate
<1> QED BY <1>1, Invariant, PTL

-----------------------------------------------------------------------------
LEMMA FilledStep == TypeOK /\ Filled /\ [Next]_vars => Filled'
<1> SUFFICES ASSUME TypeOK, Filled, [Next]_vars PROVE Filled'
  OBVIOUS
<1>t. /\ smpls \in [Positions -> Halves] /\ arr_pos \in Positions /\ lap \in Nat
      /\ Half \in Nat \ {0} /\ Positions = 0..2 * Half - 1
  BY MeasureAssumption DEF TypeOK, Positions
<1>1. CASE UNCHANGED buffer
  BY <1>1 DEF buffer, Filled, Whole
<1>2. CASE PDB0_isr
  <2> DEFINE s == 2 * lap + (IF arr_pos < Half THEN 0 ELSE 1)
  <2>1. smpls' = [smpls EXCEPT ![arr_pos] = s]
    BY <1>2, <1>t, HalfOf DEF PDB0_isr
  <2>2. /\ arr_pos' = IF arr_pos + 1 = 2 * Half THEN 0 ELSE arr_pos + 1
        /\ arr_pos + 1 # 2 * Half => lap' = lap
    BY <1>2 DEF PDB0_isr, NextPos
  <2>3. \A p \in Half - Whole..arr_pos : smpls'[p] = s
    <3> SUFFICES ASSUME NEW p \in Half - Whole..arr_pos PROVE smpls'[p] = s
      OBVIOUS
    <3>1. p \in Positions /\ (p = arr_pos \/ p \in Half - Whole..arr_pos - 1)
      BY <1>t DEF Whole
    <3> QED BY <3>1, <2>1, <1>t DEF Filled
  <2>4. \A p \in Whole..Whole + Half - 1 : p \in Positions /\ p # arr_pos
    BY <1>t DEF Whole
  <2> HIDE DEF s
  <2>5. CASE arr_pos + 1 \notin {Half, 2 * Half}
    <3>1. arr_pos' = arr_pos + 1 /\ lap' = lap /\ Whole' = Whole
      BY <1>t, <2>2, <2>5 DEF Whole
    <3>2. Whole \in Whole..Whole + Half - 1 /\ arr_pos' - 1 = arr_pos
      BY <1>t, <3>1 DEF Whole
    <3>3. s = 2 * lap' + (IF arr_pos' < Half THEN 0 ELSE 1)
      BY <1>t, <3>1, <2>5 DEF s
    <3>4. \A p \in Whole..Whole + Half - 1 : smpls'[p] = smpls[p]
      BY <2>1, <2>4, <1>t
    <3>5. \A p \in Whole..Whole + Half - 1 : smpls'[p] = smpls'[Whole]
      BY <3>2, <3>4 DEF Filled
    <3> QED BY <2>3, <3>1, <3>2, <3>3, <3>5 DEF Filled
  <2>6. CASE arr_pos + 1 = Half
    <3>1. arr_pos' = Half /\ Whole = Half /\ Whole' = 0
      BY <1>t, <2>2, <2>6 DEF Whole
    <3>2. \A p \in 0..Half - 1 : smpls'[p] = s
      BY <2>3, <2>6, <3>1, <1>t
    <3>3. 0 \in 0..Half - 1 /\ Half - 0..Half - 1 = {}
      BY <1>t
    <3> QED BY <3>1, <3>2, <3>3, <1>t DEF Filled
  <2>7. CASE arr_pos + 1 = 2 * Half
    <3>1. arr_pos' = 0 /\ Whole = 0 /\ Whole' = Half
      BY <1>t, <2>2, <2>7 DEF Whole
    <3>2. \A p \in Half..Half + Half - 1 : smpls'[p] = s
      BY <2>3, <2>7, <3>1, <1>t
    <3>3. Half \in Half..Half + Half - 1 /\ Half - Half..0 - 1 = {}
      BY <1>t
    <3> QED BY <3>1, <3>2, <3>3, <1>t DEF Filled
  <2> QED BY <2>5, <2>6, <2>7
<1>3. CASE Measure
  BY <1>1, <1>3 DEF Measure, Measure_lock, Measure_wait, Measure_told, Measure_read, Measure_store,
     Measure_post, Measure_unlock
<1>4. CASE Do_Meas_values_view \/ Display
  BY <1>1, <1>4 DEF Do_Meas_values_view, VT100_idle, VT100_begin, VT100_wait, VT100_reset, VT100_told,
     VT100_print, VT100_key, Display, LCD_show, Get_copy_meas_results, Copy_stop, Copy_element,
     Copy_start, others
<1>5. CASE (\E t \in Task : Tick(t)) \/ UNCHANGED vars
  BY <1>1, <1>5 DEF Tick, others, vars
<1> QED BY <1>2, <1>3, <1>4, <1>5 DEF Next

LEMMA InStepStep == TypeOK /\ Control /\ Passed /\ Filled /\ InStep /\ [Next]_vars => InStep'
<1> SUFFICES ASSUME TypeOK, Control, Passed, Filled, InStep, [Next]_vars, ~late'
             PROVE  (/\ value \cap Full \subseteq {WholeEvent}
                     /\ pc[Measure_task] = "told" /\ Returned(Measure_task)
                          => td[Measure_task].bits = {WholeEvent}
                     /\ pc[Measure_task] = "read" =>
                          /\ events = {WholeEvent} /\ value \cap Full = {}
                          /\ seen \subseteq {smpls[Whole]} /\ (seen = {} => n = 1 /\ i = 0)
                     /\ pc[Measure_task] = "post" => \E h \in Halves : seen = {h})'
  BY DEF InStep
<1> USE MeasureAssumption DEF InStep, At, Go
<1>t. /\ td \in [Task -> TaskDescriptor] /\ pc \in [Task -> Where]
      /\ {Measure_task, VT100_task, LCD_task} \subseteq Task
      /\ Measure_task # VT100_task /\ Measure_task # LCD_task
      /\ Full = {SMPL_ARR1_FULL, SMPL_ARR2_FULL} /\ WholeEvent \in Full
  BY Functions DEF Readers, Full, WholeEvent
<1>p. /\ smpls \in [Positions -> Halves] /\ arr_pos \in Positions /\ Positions = 0..2 * Half - 1
      /\ Half \in Nat \ {0} /\ i \in 0..Half /\ Whole \in Positions /\ Whole # arr_pos
  BY DEF TypeOK, Positions, Whole
<1>1. CASE UNCHANGED <<smpls, arr_pos, pc[Measure_task], td[Measure_task], events, seen, n, i>>
           /\ value' \cap Full = value \cap Full /\ ~late
  BY <1>1 DEF WholeEvent, Whole, Returned
<1>2. CASE PDB0_isr
  <2>1. CASE arr_pos + 1 \notin {Half, 2 * Half}
    <3>1. UNCHANGED <<kernel, late, pc, events, seen, n, i>> /\ arr_pos' = arr_pos + 1
      BY <1>2, <2>1 DEF PDB0_isr, NextPos, round_vars
    <3>2. Whole' = Whole /\ WholeEvent' = WholeEvent
      BY <1>p, <2>1, <3>1 DEF Whole, WholeEvent
    <3>3. smpls'[Whole] = smpls[Whole]
      BY <1>2, <1>p DEF PDB0_isr
    <3> QED BY <3>1, <3>2, <3>3 DEF kernel, Returned
  <2>2. CASE arr_pos + 1 \in {Half, 2 * Half}
    <3>1. ~Busy /\ ~late
      BY <1>2, <2>2 DEF PDB0_isr
    <3>2. Set({WholeEvent'})
      <4>1. arr_pos + 1 = Half => arr_pos' = Half
        BY <1>2, <1>p DEF PDB0_isr, NextPos
      <4>2. arr_pos + 1 = 2 * Half => arr_pos' = 0
        BY <1>2 DEF PDB0_isr, NextPos
      <4>3. CASE arr_pos + 1 = Half
        <5>1. WholeEvent' = SMPL_ARR1_FULL
          BY <4>1, <4>3, <1>p DEF WholeEvent
        <5> QED BY <5>1, <1>2, <4>3, <1>p DEF PDB0_isr
      <4>4. CASE arr_pos + 1 = 2 * Half
        <5>1. WholeEvent' = SMPL_ARR2_FULL
          BY <4>2, <4>4, <1>p DEF WholeEvent
        <5>2. arr_pos + 1 # Half
          BY <4>4, <1>p
        <5> QED BY <5>1, <5>2, <1>2, <4>4 DEF PDB0_isr
      <4> QED BY <2>2, <4>3, <4>4
    <3>3. value \cap Full = {} /\ value' = value \cup {WholeEvent'} /\ WholeEvent' \in Full
      BY <3>1, <3>2 DEF Busy, Set, WholeEvent, Full
    <3>4. value' \cap Full = {WholeEvent'}
      BY <3>3
    <3>5. UNCHANGED <<pc, events, seen, n, i>> /\ pc[Measure_task] # "read"
      BY <1>2, <3>1 DEF PDB0_isr, round_vars, Busy
    <3>6. pc[Measure_task] = "told" /\ Returned(Measure_task)' => td'[Measure_task].bits = {WholeEvent'}
      <4> DEFINE e == WholeEvent'
      <4>1. CASE Measure_task \in Woken({e})
        <5>1. td[Measure_task].bits = Full
          BY <4>1, <1>t DEF Woken, Control, NoMissedEvent, Asleep
        <5>2. td'[Measure_task].bits = td[Measure_task].bits \cap value'
          BY <3>2, <4>1, <1>t DEF Set
        <5> QED BY <5>1, <5>2, <3>4
      <4>2. CASE Measure_task \notin Woken({e})
        <5>1. td'[Measure_task] = td[Measure_task]
          BY <3>2, <4>2, <1>t DEF Set
        <5> QED BY <5>1, <3>1 DEF Busy, Returned
      <4> QED BY <4>1, <4>2
    <3> QED BY <3>1, <3>4, <3>5, <3>6
  <2> QED BY <2>1, <2>2
<1>3. CASE Measure_lock \/ Measure_unlock
  <2>1. UNCHANGED <<value, arr_pos, late>> /\ pc'[Measure_task] \in {"wait", "lock"}
    BY <1>3, <1>t DEF Measure_lock, Measure_unlock, kernel, buffer
  <2> QED BY <2>1 DEF WholeEvent
<1>4. CASE Measure_wait
  <2>1. UNCHANGED arr_pos /\ pc'[Measure_task] = "told" /\ UNCHANGED value
    BY <1>4, <1>t DEF Measure_wait, WaitSatisfied, WaitBlocks, buffer
  <2>2. CASE WaitSatisfied(Measure_task, Full)
    <3>1. ~late /\ td'[Measure_task].bits = value \cap Full /\ value \cap Full # {}
      BY <1>4, <2>2, <1>t DEF Measure_wait, WaitSatisfied, WaitBlocks, TaskDescriptor
    <3> QED BY <2>1, <3>1 DEF WholeEvent
  <2>3. CASE WaitBlocks(Measure_task, Full)
    <3>1. value \cap Full = {} /\ td'[Measure_task].state = "event"
      BY <2>3, <1>t DEF WaitBlocks
    <3> QED BY <2>1, <3>1 DEF Returned
  <2> QED BY <1>4, <2>2, <2>3 DEF Measure_wait
<1>5. CASE Measure_told
  <2>1. UNCHANGED <<smpls, arr_pos, seen, n, i, late>> /\ seen = {} /\ n = 1 /\ i = 0
    BY <1>5 DEF Measure_told, buffer, round_vars, Passed, Fresh
  <2>2. CASE Returned(Measure_task)
    <3>1. value' = value \ td[Measure_task].bits /\ events' = td[Measure_task].bits
      BY <1>5, <2>2 DEF Measure_told, TakeEvents
    <3>2. pc'[Measure_task] = "read" /\ pc[Measure_task] = "told"
      BY <1>5, <2>2, <1>t DEF Measure_told, After
    <3> QED BY <2>1, <2>2, <3>1, <3>2 DEF WholeEvent, Whole
  <2>3. CASE ~Returned(Measure_task)
    <3>1. value' = value /\ pc'[Measure_task] = "lock"
      BY <1>5, <2>3, <1>t DEF Measure_told, TakeEvents, After
    <3> QED BY <2>1, <3>1 DEF WholeEvent
  <2> QED BY <2>2, <2>3
<1>6. CASE Measure_read
  <2>1. /\ UNCHANGED <<kernel, smpls, arr_pos, events, pc, late>> /\ pc[Measure_task] = "read" /\ i < Half
        /\ seen' = seen \cup {smpls[i + sindx]}
    BY <1>6 DEF Measure_read, buffer
  <2>2. sindx = Whole
    <3>1. events = {WholeEvent}
      BY <2>1
    <3> QED BY <3>1 DEF sindx, WholeEvent, Whole
  <2>3. i + Whole \in Whole..Whole + Half - 1
    BY <1>p, <2>1
  <2>4. smpls[i + Whole] = smpls[Whole]
    BY <2>3 DEF Filled
  <2>5. seen' \subseteq {smpls[Whole]} /\ seen' # {}
    BY <2>1, <2>2, <2>4
  <2> QED BY <2>1, <2>5 DEF kernel, WholeEvent, Whole
<1>7. CASE Measure_store
  <2>1. /\ UNCHANGED <<kernel, smpls, arr_pos, events, seen, late>> /\ pc[Measure_task] = "read" /\ i = Half
        /\ pc'[Measure_task] \in {"read", "post"}
    BY <1>7, <1>t DEF Measure_store, buffer
  <2>2. seen = {smpls[Whole]} /\ smpls[Whole] \in Halves
    BY <2>1, <1>p
  <2> QED BY <2>1, <2>2 DEF kernel, WholeEvent, Whole
<1>8. CASE Measure_post
  <2>1. UNCHANGED <<arr_pos, late>> /\ pc'[Measure_task] = "unlock" /\ value' = value \cup {MEAS_RES_READY}
    BY <1>8, <1>t DEF Measure_post, Set, buffer
  <2> QED BY <2>1 DEF WholeEvent
<1>9. CASE Do_Meas_values_view \/ Display
  <2>1. UNCHANGED <<buffer, events, round_vars, late, pc[Measure_task], td[Measure_task]>>
    BY <1>9, <1>t DEF Do_Meas_values_view, VT100_idle, VT100_begin, VT100_wait, VT100_reset, VT100_told,
     VT100_print, VT100_key, Display, LCD_show, Get_copy_meas_results, Copy_stop, Copy_element,
     Copy_start, others, After, Wait, WaitSatisfied, WaitBlocks, TakeEvents, Delay, Sleeping, kernel,
     StopPreemption, StartPreemption
  <2>2. value' \cap Full = value \cap Full
    BY <1>9, <1>t DEF Do_Meas_values_view, VT100_idle, VT100_begin, VT100_wait, VT100_reset, VT100_told,
     VT100_print, VT100_key, Display, LCD_show, Get_copy_meas_results, Copy_stop, Copy_element,
     Copy_start, Wait, WaitSatisfied, WaitBlocks, TakeEvents, Delay, kernel,
     StopPreemption, StartPreemption, Control, BitsAsked
  <2> QED BY <1>1, <2>1, <2>2 DEF buffer, round_vars
<1>10. ASSUME NEW t \in Task, Tick(t) PROVE InStep'
  <2>1. UNCHANGED <<buffer, events, round_vars, late, pc, value>>
    BY <1>10 DEF Tick, TimeUp, others
  <2>2. CASE t = Measure_task
    <3>1. ~Returned(Measure_task)'
      BY <1>10, <2>2, <1>t DEF Tick, TimeUp, Returned, Control, Asleep
    <3> QED BY <2>1, <3>1 DEF buffer, round_vars, WholeEvent, Whole
  <2>3. CASE t # Measure_task
    <3>1. UNCHANGED td[Measure_task]
      BY <1>10, <2>3, <1>t DEF Tick, TimeUp
    <3> QED BY <1>1, <2>1, <3>1 DEF buffer, round_vars
  <2> QED BY <2>2, <2>3
<1>11. CASE UNCHANGED vars
  BY <1>1, <1>11 DEF vars, kernel, buffer, round_vars
<1> QED BY <1>2, <1>3, <1>4, <1>5, <1>6, <1>7, <1>8, <1>9, <1>10, <1>11 DEF Next, Measure

(***************************************************************************)
(* The values of a round are of one half, unless the next half was full    *)
(* too early (Main.c:370-402, ADC_control.c:56-86).                        *)
(***************************************************************************)
THEOREM RoundsOfOneHalf == Spec => []OneHalf
<1>1. Init => Filled /\ InStep
  BY MeasureAssumption DEF Init, Filled, InStep, Whole, Positions, KernelInit, Returned
<1>2. Inv /\ Filled /\ InStep /\ [Next]_vars => (Filled /\ InStep)'
  BY FilledStep, InStepStep DEF Inv
<1>3. InStep => OneHalf
  BY DEF InStep, OneHalf
<1> QED BY <1>1, <1>2, <1>3, Invariant, PTL DEF Spec

=============================================================================
