--------------------------- MODULE IgbtTemperature ---------------------------
(***************************************************************************)
(* The temperature of the IGBT module (Temperature_control.c): the display *)
(* task reads it, shows it and switches the fan by it (LCD_task, Main.c),  *)
(* and the motor screen of the monitor reads and prints it                 *)
(* (Do_motor_test, MonitorVT100.c).  Both use one I2C driver without a     *)
(* lock, and the monitor, which has the higher priority, may preempt the   *)
(* display anywhere.                                                       *)
(***************************************************************************)
EXTENDS I2cPolled

CONSTANTS LCD_task, VT100_task

ASSUME TemperatureAssumption == Task = {LCD_task, VT100_task} /\ LCD_task # VT100_task

VARIABLES
  temp,         \* the temperature: below 40, between, or above 50
  fan,          \* of Fun_control
  mixed         \* history: the monitor has read in the middle of a reading of
                \* the display

vars == <<i2c, temp, fan, mixed>>

Init == I2cInit /\ temp = "cold" /\ fan = FALSE /\ mixed = FALSE

\* The processor is the monitor's as long as it has something to do.
Runs(t) == t = VT100_task \/ at[VT100_task] = "idle"

-----------------------------------------------------------------------------
(***************************************************************************)
(* TempCtrl_read_IGBT_temperature: address the sensor with an empty write  *)
(* ("hello"), see whether it answers, write the number of the register     *)
(* ("pointer"), ask for a repeated start, read two bytes, stop.            *)
(***************************************************************************)
Begin(t) ==
  /\ at[t] = "idle" /\ Call(t, "hello")
  /\ UNCHANGED <<driver, registers, bus, locals>>

Hello(t) == at[t] = "hello" /\ Transact(t, "W", 0)

\* Mutant: a sensor that does not answer is given up without a stop.
Mut_Check_answer(t) ==
  /\ In(t, "hello", "returned") /\ Flushed
  /\ Flush /\ Call(t, IF rxak THEN "failed" ELSE "pointer")
  /\ UNCHANGED <<registers, bus, locals>>

Check_answer(t) ==
  /\ In(t, "hello", "returned") /\ Flushed
  /\ IF rxak
       THEN Stop /\ Call(t, "failed")
       ELSE Flush /\ Call(t, "pointer") /\ UNCHANGED <<registers, bus>>
  /\ UNCHANGED locals

Pointer(t) == at[t] = "pointer" /\ Transact(t, "W", 1)

Restart(t) ==
  /\ In(t, "pointer", "returned")
  /\ IF i[t] = 1 /\ MayRestart
       THEN state' = "REPEATED_START" /\ Call(t, "request")
       ELSE UNCHANGED state /\ Call(t, "failed")
  /\ UNCHANGED <<OPERATION, RX_REQUEST, registers, bus, locals>>

\* Mutant: a byte more is requested than the buffer takes.
Mut_Request(t) ==
  /\ at[t] = "request" /\ RX_REQUEST' = 3 /\ Call(t, "read")
  /\ UNCHANGED <<state, OPERATION, registers, bus, locals>>

Request(t) ==
  /\ at[t] = "request" /\ RX_REQUEST' = 2 /\ Call(t, "read")
  /\ UNCHANGED <<state, OPERATION, registers, bus, locals>>

Read(t) == at[t] = "read" /\ Transact(t, "R", 2)

Finish(t) ==
  /\ In(t, "read", "returned")
  /\ IF i[t] = 2
       THEN Stop /\ Call(t, "done")
       ELSE Call(t, "failed") /\ UNCHANGED <<driver, registers, bus>>
  /\ UNCHANGED locals

TempCtrl_read_IGBT_temperature(t) ==
  \/ Hello(t) \/ Check_answer(t) \/ Pointer(t) \/ Restart(t) \/ Request(t) \/ Read(t)
  \/ Finish(t)

-----------------------------------------------------------------------------
\* Mutant: the fan runs while the module is cold.
Mut_Control_fan == CASE temp = "hot" -> FALSE [] temp = "cold" -> TRUE [] OTHER -> fan
Control_fan == CASE temp = "hot" -> TRUE [] temp = "cold" -> FALSE [] OTHER -> fan

Finished(t) == at[t] \in {"done", "failed"}

\* LCD_task: control the fan by a good reading, show it, sleep.
LCD_show ==
  /\ Finished(LCD_task) /\ Call(LCD_task, "idle")
  /\ fan' = IF at[LCD_task] = "done" THEN Control_fan ELSE fan
  /\ UNCHANGED <<driver, registers, bus, locals, temp, mixed>>

LCD ==
  /\ Runs(LCD_task)
  /\ \/ /\ Begin(LCD_task) \/ TempCtrl_read_IGBT_temperature(LCD_task)
        /\ UNCHANGED <<temp, fan, mixed>>
     \/ LCD_show

\* Do_motor_test: print the reading and take a key, which may switch the fan.
VT100_print ==
  /\ Finished(VT100_task) /\ Call(VT100_task, "idle")
  /\ fan' \in BOOLEAN
  /\ UNCHANGED <<driver, registers, bus, locals, temp, mixed>>

VT100 ==
  \/ TempCtrl_read_IGBT_temperature(VT100_task) /\ UNCHANGED <<temp, fan, mixed>>
  \/ VT100_print

\* The motor screen is shown, or refreshed after a key or 50 ms without one.
VT100_screen ==
  /\ Begin(VT100_task) /\ UNCHANGED <<temp, fan>>
  /\ mixed' = (mixed \/ ~(at[LCD_task] = "idle" \/ Finished(LCD_task)))

Warm == temp' \in {"cold", "mild", "hot"} /\ UNCHANGED <<i2c, fan, mixed>>

Next == LCD \/ VT100 \/ VT100_screen \/ (Transfer /\ UNCHANGED <<temp, fan, mixed>>) \/ Warm

\* A task that may run does, the display when the monitor waits for a key,
\* and a transfer on the bus ends.
Fairness ==
  /\ SF_vars(LCD) /\ WF_vars(VT100)
  /\ WF_vars(Transfer /\ UNCHANGED <<temp, fan, mixed>>)

Spec == Init /\ [][Next]_vars /\ Fairness

-----------------------------------------------------------------------------
TypeOK ==
  /\ I2cTypeOK
  /\ at \in [Task -> {"idle", "hello", "pointer", "request", "read", "done", "failed"}]
  /\ temp \in {"cold", "mild", "hot"} /\ {fan, mixed} \subseteq BOOLEAN

\* No reading was taken in the middle of another, and a sensor that has
\* answered its address acknowledges the rest of the reading.  It may stay
\* silent when it is addressed, any number of times.
Undisturbed == ~lost /\ ~mixed

(***************************************************************************)
(* A reading that succeeds is two bytes of the sensor, the high one first, *)
(* whatever the other task did to the driver and the bus meanwhile, and    *)
(* undisturbed they are the temperature (Temperature_control.c:83-96).     *)
(***************************************************************************)
ReadingIsRight ==
  \A t \in Task :
    at[t] = "done" \/ (In(t, "read", "returned") /\ i[t] = 2) =>
      buf[t] = <<1, 2>> /\ (Undisturbed => register = "temperature")

(***************************************************************************)
(* Undisturbed, every reading ends: a sensor that is missing for a while   *)
(* is shown as an error and read again when it is back (Main.c:486-490,    *)
(* Temperature_control.c:61-71).                                           *)
(***************************************************************************)
SilenceIsSurvived == []Undisturbed => []<>Finished(LCD_task)

(***************************************************************************)
(* Undisturbed, a hot module gets its fan as long as it can be read        *)
(* (Main.c:492-504), also after the operator has switched it off.          *)
(***************************************************************************)
HotMeansFan ==
  []Undisturbed /\ []<>(at[LCD_task] = "done") /\ <>[](temp = "hot") => []<>fan

(***************************************************************************)
(* Every reading of the display ends, with a temperature or with an error, *)
(* which the display flags: "Флаг ошибки чтения температуры" (Main.c:478). *)
(***************************************************************************)
ReadingEnds == []<>Finished(LCD_task)
=============================================================================
