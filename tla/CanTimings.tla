----------------------------- MODULE CanTimings -----------------------------
(***************************************************************************)
(* Solve_can_timings (CAN_control.c): the prescaler and the number of time *)
(* quanta (TQ) of a bit for a bit rate, and the split of the quanta into   *)
(* the segments of the CTRL1 register.  One step of the loop is one        *)
(* action.  The clock and the bit rate are read and never change.          *)
(***************************************************************************)
EXTENDS Integers

CONSTANTS Clocks, Bitrates

ASSUME RatesAssumption == Clocks \subseteq Nat /\ Bitrates \subseteq Nat \ {0}

CAN_MIN_TQ == 8
CAN_MAX_TQ == 25
CAN_MAX_PROPSEG == 8
CAN_MAX_RJW == 4
CAN_MIN_PSEG2 == 2
MaxPresdiv == 256

VARIABLES
  clk, bitrate, \* the arguments
  pc,           \* "enter", "loop", "fields", and the result: "ok" or "error"
  TQ, best_TQ, lowest_diff,
  ctrl          \* presdiv, propseg, pseg1, pseg2 and rjw

args == <<clk, bitrate>>
vars == <<args, pc, TQ, best_TQ, lowest_diff, ctrl>>

NoFields == [presdiv |-> 0, propseg |-> 0, pseg1 |-> 0, pseg2 |-> 0, rjw |-> 0]

Init ==
  /\ clk \in Clocks /\ bitrate \in Bitrates
  /\ pc = "enter"
  /\ TQ = CAN_MAX_TQ /\ best_TQ = 0 /\ lowest_diff = bitrate
  /\ ctrl = NoFields

TQ_x_Prescaler == clk \div bitrate

Enter ==
  /\ pc = "enter"
  /\ pc' = IF TQ_x_Prescaler < CAN_MIN_TQ - 1 THEN "error" ELSE "loop"
  /\ UNCHANGED <<args, TQ, best_TQ, lowest_diff, ctrl>>

\* The Cortex-M4 divides by zero to zero unless told to trap it.
Quotient(a, b) == IF b = 0 THEN 0 ELSE a \div b

Distance(a, b) == IF a > b THEN a - b ELSE b - a

\* How far from the bit rate the frequency of a prescaler and TQ is.
Diff(presdiv, tq) == Distance(Quotient(clk, presdiv) \div tq, bitrate)

Exact(tq) == TQ_x_Prescaler = tq * (TQ_x_Prescaler \div tq)

\* The prescaler of a TQ fits the register.
Usable(tq) == TQ_x_Prescaler \div tq <= MaxPresdiv

\* An exact match ends the loop.  Mutant: the break is missing.
Mut_Match ==
  /\ best_TQ' = TQ /\ TQ' = TQ - 1
  /\ pc' = IF TQ = CAN_MIN_TQ THEN "fields" ELSE "loop"
  /\ UNCHANGED lowest_diff

Match ==
  /\ best_TQ' = TQ /\ pc' = "fields"
  /\ UNCHANGED <<TQ, lowest_diff>>

\* Otherwise the TQ with the smallest difference so far is remembered.
Consider ==
  /\ IF Usable(TQ) /\ Diff(TQ_x_Prescaler \div TQ, TQ) < lowest_diff
       THEN /\ best_TQ' = TQ
            /\ lowest_diff' = Diff(TQ_x_Prescaler \div TQ, TQ)
       ELSE UNCHANGED <<best_TQ, lowest_diff>>
  /\ TQ' = TQ - 1
  /\ pc' = IF TQ = CAN_MIN_TQ THEN "fields" ELSE "loop"

Try ==
  /\ pc = "loop"
  /\ ctrl' = [ctrl EXCEPT !.presdiv = TQ_x_Prescaler \div TQ]
  /\ IF Usable(TQ) /\ Exact(TQ) THEN Match ELSE Consider
  /\ UNCHANGED args

\* Half of the quanta the longest propagation segment leaves.  Mutant: without
\* the minimum.
Mut_Pseg2(tq) == (tq - CAN_MAX_PROPSEG) \div 2

Pseg2(tq) ==
  LET half == (tq - CAN_MAX_PROPSEG) \div 2 IN
  IF half < CAN_MIN_PSEG2 THEN CAN_MIN_PSEG2 ELSE half

Pseg1(tq) == IF tq = CAN_MIN_TQ THEN 1 ELSE Pseg2(tq)

\* CTRL1 holds each value less one.  Mutant: propseg is not decremented.
Mut_Fields(tq) ==
  [presdiv |-> ctrl.presdiv - 1,
   propseg |-> tq - Pseg1(tq) - Pseg2(tq) - 1,
   pseg1   |-> Pseg1(tq) - 1,
   pseg2   |-> Pseg2(tq) - 1,
   rjw     |-> (IF Pseg1(tq) < CAN_MAX_RJW THEN Pseg1(tq) ELSE CAN_MAX_RJW) - 1]

Fields(tq) ==
  [presdiv |-> ctrl.presdiv - 1,
   propseg |-> tq - Pseg1(tq) - Pseg2(tq) - 1 - 1,
   pseg1   |-> Pseg1(tq) - 1,
   pseg2   |-> Pseg2(tq) - 1,
   rjw     |-> (IF Pseg1(tq) < CAN_MAX_RJW THEN Pseg1(tq) ELSE CAN_MAX_RJW) - 1]

Solve ==
  /\ pc = "fields"
  /\ IF best_TQ >= CAN_MIN_TQ /\ ctrl.presdiv <= MaxPresdiv
       THEN pc' = "ok" /\ ctrl' = Fields(best_TQ)
       ELSE pc' = "error" /\ UNCHANGED ctrl
  /\ UNCHANGED <<args, TQ, best_TQ, lowest_diff>>

Next == Enter \/ Try \/ Solve

Spec == Init /\ [][Next]_vars

TypeOK ==
  /\ clk \in Clocks /\ bitrate \in Bitrates
  /\ pc \in {"enter", "loop", "fields", "ok", "error"}
  /\ TQ \in CAN_MIN_TQ - 1 .. CAN_MAX_TQ
  /\ (pc = "loop" => TQ >= CAN_MIN_TQ)
  /\ best_TQ \in {0} \cup CAN_MIN_TQ .. CAN_MAX_TQ
  /\ lowest_diff \in 0 .. bitrate
  /\ ctrl \in [presdiv : Nat, propseg : Nat, pseg1 : Nat, pseg2 : Nat,
               rjw : Nat]

(***************************************************************************)
(* What the result is for.                                                 *)
(***************************************************************************)

\* The quanta of a bit that the registers encode.
QuantaOf(c) == 1 + (c.propseg + 1) + (c.pseg1 + 1) + (c.pseg2 + 1)

\* A solution fits the fields of CTRL1 (PRESDIV 8 bits, the segments 3, RJW 2),
\* adds up to the chosen number of quanta, and the controller can follow it:
\* no resynchronisation jump is longer than a phase segment.
FieldsFit ==
  pc = "ok" =>
    /\ ctrl.presdiv \in 0 .. 255
    /\ ctrl.propseg \in 0 .. 7 /\ ctrl.pseg1 \in 0 .. 7 /\ ctrl.pseg2 \in 1 .. 7
    /\ ctrl.rjw \in 0 .. 3 /\ ctrl.rjw <= ctrl.pseg1 /\ ctrl.rjw <= ctrl.pseg2
    /\ QuantaOf(ctrl) = best_TQ

\* Where some TQ divides the ratio of clock and bit rate with a prescaler that
\* fits, the solution is exact, and no exact one has a lower prescaler (the
\* comment at CAN_control.c:101).
ExactWhenPossible ==
  LET exact == {tq \in CAN_MIN_TQ .. CAN_MAX_TQ : Usable(tq) /\ Exact(tq)} IN
  (pc \in {"ok", "error"} /\ TQ_x_Prescaler >= CAN_MIN_TQ /\ exact # {}) =>
    /\ pc = "ok"
    /\ (ctrl.presdiv + 1) * QuantaOf(ctrl) = TQ_x_Prescaler
    /\ \A tq \in exact : tq <= QuantaOf(ctrl)

\* A solution has the frequency that is closest to the bit rate: the comment at
\* CAN_control.c:102, "otherwise we pick the TQ and prescaler that generates
\* the closest frequency to the desired frequency".
ClosestFrequency ==
  pc = "ok" =>
    \A tq \in CAN_MIN_TQ .. CAN_MAX_TQ :
      Usable(tq) =>
        Diff(ctrl.presdiv + 1, QuantaOf(ctrl)) <= Diff(TQ_x_Prescaler \div tq, tq)

=============================================================================
