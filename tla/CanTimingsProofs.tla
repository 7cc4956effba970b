-------------------------- MODULE CanTimingsProofs --------------------------
(***************************************************************************)
(* For every clock and bit rate a solution of Solve_can_timings fits the   *)
(* fields of CTRL1, and is exact where an exact one exists.                *)
(*                                                                         *)
(* The segments are bounded by arithmetic on the chosen TQ.  The prescaler *)
(* is the delicate one: it is written as presdiv - 1, and presdiv is 0     *)
(* while TQ exceeds the ratio of clock to bit rate.  Solvable says why a 0 *)
(* never comes with a solution: a ratio of 7 passes the first test, but    *)
(* then every TQ has prescaler 0 and none is chosen.                       *)
(***************************************************************************)
EXTENDS CanTimings, TLAPS

TQs == CAN_MIN_TQ .. CAN_MAX_TQ

Solvable ==
  /\ pc = "enter" => TQ >= CAN_MIN_TQ
  /\ best_TQ = 0 => lowest_diff = bitrate
  /\ pc # "enter" /\ pc # "error" => TQ_x_Prescaler >= CAN_MIN_TQ - 1
  /\ TQ_x_Prescaler = CAN_MIN_TQ - 1 => best_TQ = 0
  /\ pc = "fields" /\ TQ_x_Prescaler >= CAN_MIN_TQ => ctrl.presdiv >= 1

IInv == TypeOK /\ Solvable /\ FieldsFit

\* The ratio of clock to bit rate is a natural number.
LEMMA RatioType ==
  ASSUME NEW c \in Clocks, NEW b \in Bitrates
  PROVE  c \div b \in Nat
<1>1. c \in Nat /\ b \in Nat /\ b > 0
  BY RatesAssumption
<1> QED BY <1>1, SMTT(20)

\* Prescaler of a TQ: the integer quotient, by its defining inequality.
LEMMA QuotientBounds ==
  ASSUME NEW r \in Nat, NEW t \in TQs
  PROVE  /\ r \div t \in Nat
         /\ t * (r \div t) <= r
         /\ r < t * (r \div t) + t
  BY SMTT(20) DEF TQs, CAN_MIN_TQ, CAN_MAX_TQ


\* A quotient is a natural number, also by zero.
LEMMA NaturalQuotient ==
  ASSUME NEW a \in Nat, NEW b \in Nat
  PROVE  Quotient(a, b) \in Nat
<1>1. CASE b = 0
  BY <1>1 DEF Quotient
<1>2. CASE b # 0
  <2>1. a \div b \in Nat
    BY <1>2, SMTT(20)
  <2> QED BY <1>2, <2>1 DEF Quotient
<1> QED BY <1>1, <1>2

\* A difference is a natural number, and with prescaler 0 the whole bit rate,
\* which is never below the smallest difference so far.
LEMMA DiffType ==
  ASSUME TypeOK, NEW p \in Nat, NEW t \in TQs
  PROVE  Diff(p, t) \in Nat /\ (p = 0 => Diff(p, t) = bitrate)
<1>1. clk \in Nat /\ bitrate \in Nat /\ bitrate > 0
  BY RatesAssumption DEF TypeOK
<1>2. t \in Nat /\ t > 0 /\ 0 \div t = 0
  BY SMTT(20) DEF TQs, CAN_MIN_TQ, CAN_MAX_TQ
<1> DEFINE q == Quotient(clk, p)
<1>3. q \in Nat
  BY <1>1, NaturalQuotient
<1>4. q \div t \in Nat
  BY <1>2, <1>3, SMTT(20)
<1>5. p = 0 => q = 0
  BY DEF Quotient
<1>6. Diff(p, t) = Distance(q \div t, bitrate)
  BY DEF Diff
<1> HIDE DEF q
<1>7. Distance(q \div t, bitrate) \in Nat
  BY <1>1, <1>4 DEF Distance
<1>8. p = 0 => Distance(q \div t, bitrate) = bitrate
  BY <1>1, <1>2, <1>5 DEF Distance
<1> QED BY <1>6, <1>7, <1>8

LEMMA InitInv == Init => IInv
BY RatesAssumption DEF Init, IInv, TypeOK, Solvable, FieldsFit, NoFields,
   CAN_MIN_TQ, CAN_MAX_TQ

\* The values of a solution: by arithmetic on each of the 18 numbers of quanta.
LEMMA SolutionFits ==
  ASSUME TypeOK, best_TQ \in TQs, ctrl.presdiv \in 1 .. MaxPresdiv,
         NEW c, c = Fields(best_TQ)
  PROVE  /\ c.presdiv \in 0 .. 255
         /\ c.propseg \in 0 .. 7 /\ c.pseg1 \in 0 .. 7 /\ c.pseg2 \in 1 .. 7
         /\ c.rjw \in 0 .. 3 /\ c.rjw <= c.pseg1 /\ c.rjw <= c.pseg2
         /\ QuantaOf(c) = best_TQ
         /\ c \in [presdiv : Nat, propseg : Nat, pseg1 : Nat, pseg2 : Nat,
                   rjw : Nat]
<1> DEFINE half == (best_TQ - CAN_MAX_PROPSEG) \div 2
<1>1. half \in 0 .. 8 /\ 2 * half <= best_TQ - 8 /\ best_TQ - 8 <= 2 * half + 1
  BY SMTT(20) DEF TQs, CAN_MIN_TQ, CAN_MAX_TQ, CAN_MAX_PROPSEG
<1> DEFINE p2 == Pseg2(best_TQ)
<1>2. /\ p2 \in 2 .. 8
      /\ (half >= 2 => p2 = half) /\ (half < 2 => p2 = 2)
  BY <1>1 DEF Pseg2, CAN_MIN_PSEG2
<1> DEFINE p1 == Pseg1(best_TQ)
<1> HIDE DEF half, p2
<1>3. p1 = IF best_TQ = 8 THEN 1 ELSE p2
  BY DEF Pseg1, p2, CAN_MIN_TQ
<1> DEFINE rjw == IF p1 < 4 THEN p1 ELSE 4
<1>4. c = [presdiv |-> ctrl.presdiv - 1,
           propseg |-> best_TQ - p1 - p2 - 1 - 1,
           pseg1   |-> p1 - 1,
           pseg2   |-> p2 - 1,
           rjw     |-> rjw - 1]
  BY DEF Fields, p2, CAN_MAX_RJW
<1> HIDE DEF p1, rjw
<1>5. best_TQ \in 8 .. 25
  BY DEF TQs, CAN_MIN_TQ, CAN_MAX_TQ
<1>6. p1 \in 1 .. 8 /\ rjw \in 1 .. 4 /\ rjw <= p1 /\ rjw <= p2
  BY <1>2, <1>3 DEF rjw
<1>7. best_TQ - p1 - p2 - 1 \in 1 .. 8
  BY <1>1, <1>2, <1>3, <1>5
<1>8. ctrl.presdiv - 1 \in 0 .. 255
  BY DEF MaxPresdiv
<1> QED BY <1>2, <1>4, <1>5, <1>6, <1>7, <1>8 DEF QuantaOf

\* Every step keeps the invariant.
LEMMA StepInv == IInv /\ [Next]_vars => IInv'
<1> SUFFICES ASSUME IInv, [Next]_vars PROVE IInv'
  OBVIOUS
<1> USE DEF CAN_MIN_TQ, CAN_MAX_TQ
<1>1. CASE UNCHANGED vars
  BY <1>1 DEF IInv, TypeOK, Solvable, FieldsFit, vars, args, TQ_x_Prescaler, QuantaOf
<1>2. CASE Enter
  <2>1. TQ_x_Prescaler \in Nat /\ TQ_x_Prescaler' = TQ_x_Prescaler
    BY <1>2, RatioType DEF Enter, IInv, TypeOK, args, TQ_x_Prescaler
  <2>2. TypeOK'
    BY <1>2 DEF Enter, IInv, TypeOK, Solvable, args
  <2>3. Solvable'
    BY <1>2, <2>1 DEF Enter, IInv, Solvable, args
  <2> QED BY <1>2, <2>2, <2>3 DEF Enter, IInv, FieldsFit
<1>3. CASE Try
  <2> DEFINE r == TQ_x_Prescaler
  <2> DEFINE p == r \div TQ
  <2>1. r \in Nat /\ r >= 7
    BY <1>3, RatioType DEF Try, IInv, TypeOK, Solvable, TQ_x_Prescaler
  <2>2. TQ \in TQs
    BY <1>3 DEF Try, IInv, TypeOK, TQs
  <2>3. p \in Nat /\ TQ * p <= r /\ r < TQ * p + TQ
    BY <2>1, <2>2, QuotientBounds
  <2>4. Diff(p, TQ) \in Nat /\ (p = 0 => Diff(p, TQ) = bitrate)
    BY <2>2, <2>3, DiffType DEF IInv
  <2>5. r = 7 => p = 0
    <3> SUFFICES ASSUME r = 7, p >= 1 PROVE FALSE
      BY <2>3
    <3>1. TQ * p >= TQ
      BY <2>2, <2>3 DEF TQs
    <3> QED BY <2>2, <2>3, <3>1 DEF TQs
  <2>6. (TQ = 8 /\ r >= 8) => p >= 1
    BY <2>1, <2>3
  <2>7. r' = r
    BY <1>3 DEF Try, args, TQ_x_Prescaler
  <2>8. ctrl' = [ctrl EXCEPT !.presdiv = p] /\ UNCHANGED args
    BY <1>3 DEF Try
  <2>9. CASE Usable(TQ) /\ Exact(TQ)
    <3>1. Match
      BY <1>3, <2>9 DEF Try
    <3>2. p >= 1
      <4> SUFFICES ASSUME p = 0 PROVE FALSE
        BY <2>3
      <4>1. TQ * p = 0
        BY <2>2 DEF TQs
      <4> QED BY <2>1, <2>9, <4>1 DEF Exact
    <3>3. r # 7
      BY <2>5, <3>2
    <3> HIDE DEF r, p
    <3>4. TypeOK'
      BY <2>2, <2>3, <2>8, <3>1 DEF IInv, TypeOK, Match, TQs, args
    <3>5. Solvable'
      BY <2>1, <2>2, <2>7, <2>8, <3>1, <3>2, <3>3 DEF IInv, TypeOK, Solvable, Match, TQs, args, r
    <3> QED BY <3>1, <3>4, <3>5 DEF Match, IInv, FieldsFit
  <2>10. CASE ~(Usable(TQ) /\ Exact(TQ))
    <3>1. Consider
      BY <1>3, <2>10 DEF Try
    <3>2. \/ UNCHANGED <<best_TQ, lowest_diff>>
          \/ /\ best_TQ' = TQ /\ lowest_diff' = Diff(p, TQ)
             /\ Diff(p, TQ) < lowest_diff /\ p # 0
      <4>1. \/ UNCHANGED <<best_TQ, lowest_diff>>
            \/ /\ best_TQ' = TQ /\ lowest_diff' = Diff(p, TQ)
               /\ Diff(p, TQ) < lowest_diff
        BY <3>1 DEF Consider
      <4>2. lowest_diff <= bitrate /\ lowest_diff \in Nat /\ bitrate \in Nat
        BY RatesAssumption DEF IInv, TypeOK
      <4> HIDE DEF p
      <4> QED BY <2>4, <4>1, <4>2
    <3>3. TQ' = TQ - 1 /\ pc' = IF TQ = 8 THEN "fields" ELSE "loop"
      BY <3>1 DEF Consider
    <3> HIDE DEF r, p
    <3>4. lowest_diff' \in 0 .. bitrate
      BY <2>4, <3>2, RatesAssumption DEF IInv, TypeOK
    <3>5. TypeOK'
      BY <2>2, <2>3, <2>8, <3>2, <3>3, <3>4 DEF IInv, TypeOK, TQs, args
    <3>6. best_TQ' = 0 => lowest_diff' = bitrate'
      BY <2>2, <2>8, <3>2 DEF IInv, Solvable, TQs, args
    <3>7. r' = 7 => best_TQ' = 0
      BY <2>5, <2>7, <3>2 DEF IInv, Solvable, r
    <3>8. pc' = "fields" /\ r' >= 8 => ctrl'.presdiv >= 1
      BY <2>6, <2>7, <2>8, <3>3 DEF IInv, TypeOK
    <3>9. Solvable'
      <4>1. pc' \in {"fields", "loop"} /\ r' >= 7
        BY <2>1, <2>7, <3>3
      <4> QED BY <3>6, <3>7, <3>8, <4>1 DEF Solvable, r
    <3> QED BY <3>3, <3>5, <3>9 DEF IInv, FieldsFit
  <2> QED BY <2>9, <2>10
<1>4. CASE Solve
  <2>1. pc = "fields" /\ UNCHANGED <<args, TQ, best_TQ, lowest_diff>>
    BY <1>4 DEF Solve
  <2>2. TQ_x_Prescaler' = TQ_x_Prescaler /\ TQ_x_Prescaler \in Nat
    BY <2>1, RatioType DEF args, TQ_x_Prescaler, IInv, TypeOK
  <2>3. CASE best_TQ >= CAN_MIN_TQ /\ ctrl.presdiv <= MaxPresdiv
    <3>1. pc' = "ok" /\ ctrl' = Fields(best_TQ)
      BY <1>4, <2>3 DEF Solve
    <3>2. best_TQ \in TQs
      BY <2>3 DEF IInv, TypeOK, TQs
    <3>3. ctrl.presdiv \in 1 .. MaxPresdiv
      BY <2>1, <2>2, <2>3 DEF IInv, TypeOK, Solvable, MaxPresdiv
    <3>4. FieldsFit' /\ ctrl' \in [presdiv : Nat, propseg : Nat, pseg1 : Nat,
                                   pseg2 : Nat, rjw : Nat]
      BY <2>1, <3>1, <3>2, <3>3, SolutionFits DEF IInv, FieldsFit
    <3>5. TypeOK'
      BY <2>1, <3>1, <3>4 DEF IInv, TypeOK, args
    <3>6. Solvable'
      BY <2>1, <2>2, <3>1 DEF IInv, Solvable, args
    <3> QED BY <3>4, <3>5, <3>6 DEF IInv
  <2>4. CASE ~(best_TQ >= CAN_MIN_TQ /\ ctrl.presdiv <= MaxPresdiv)
    <3>1. pc' = "error" /\ UNCHANGED ctrl
      BY <1>4, <2>4 DEF Solve
    <3> QED BY <2>1, <2>2, <3>1 DEF IInv, TypeOK, Solvable, FieldsFit, args
  <2> QED BY <2>3, <2>4
<1> QED BY <1>1, <1>2, <1>3, <1>4 DEF Next

\* Every solution of Solve_can_timings fits CTRL1 and adds up to its quanta,
\* for every clock and every bit rate.
THEOREM SolutionsFit == Spec => []FieldsFit
<1>1. IInv => FieldsFit
  BY DEF IInv
<1> QED BY InitInv, StepInv, <1>1, PTL DEF Spec

\* The loop and its result keep their types.
THEOREM TimingsTyped == Spec => []TypeOK
<1>1. IInv => TypeOK
  BY DEF IInv
<1> QED BY InitInv, StepInv, <1>1, PTL DEF Spec

-----------------------------------------------------------------------------
(***************************************************************************)
(* The search goes down from the largest TQ, so the first exact match has  *)
(* the largest TQ.  Until the loop ends no TQ above the present one        *)
(* matches; after it the chosen one is that match, or there is none and    *)
(* what was chosen does not matter here.                                   *)
(***************************************************************************)
Matches(t) == Usable(t) /\ Exact(t)

NoMatch == \A t \in TQs : ~Matches(t)

Matched(presdiv) ==
  /\ best_TQ \in TQs /\ Matches(best_TQ)
  /\ presdiv = TQ_x_Prescaler \div best_TQ
  /\ \A t \in TQs : Matches(t) => t <= best_TQ

Searched ==
  /\ pc = "enter" => TQ = CAN_MAX_TQ
  /\ pc = "loop" => \A t \in TQs : t > TQ => ~Matches(t)
  /\ pc = "fields" => Matched(ctrl.presdiv) \/ NoMatch
  /\ pc = "ok" => Matched(ctrl.presdiv + 1) \/ NoMatch
  /\ pc = "error" => TQ_x_Prescaler < CAN_MIN_TQ - 1 \/ NoMatch

\* What matches depends on the arguments alone.
LEMMA MatchesKept ==
  ASSUME UNCHANGED args
  PROVE  /\ TQ_x_Prescaler' = TQ_x_Prescaler
         /\ \A t \in TQs : Matches(t)' <=> Matches(t)
         /\ NoMatch' <=> NoMatch
<1>1. TQ_x_Prescaler' = TQ_x_Prescaler
  BY DEF args, TQ_x_Prescaler
<1>2. \A t \in TQs : Matches(t)' <=> Matches(t)
  BY <1>1 DEF Matches, Usable, Exact
<1> QED BY <1>1, <1>2 DEF NoMatch

LEMMA StepSearched == IInv /\ Searched /\ [Next]_vars => Searched'
<1> SUFFICES ASSUME IInv, Searched, [Next]_vars PROVE Searched'
  OBVIOUS
<1>1. CASE UNCHANGED vars
  <2>1. UNCHANGED <<args, pc, TQ, best_TQ, ctrl>>
    BY <1>1 DEF vars
  <2> QED BY <2>1, MatchesKept DEF Searched, Matched
<1>2. CASE Enter
  <2>1. /\ UNCHANGED <<args, TQ>> /\ TQ = CAN_MAX_TQ
        /\ pc' = IF TQ_x_Prescaler < CAN_MIN_TQ - 1 THEN "error" ELSE "loop"
    BY <1>2 DEF Enter, Searched
  <2>2. \A t \in TQs : ~(t > TQ')
    BY <2>1 DEF TQs, CAN_MIN_TQ, CAN_MAX_TQ
  <2> QED BY <2>1, <2>2, MatchesKept DEF Searched
<1>3. CASE Try
  <2>1. /\ pc = "loop" /\ UNCHANGED args /\ TQ \in TQs
        /\ ctrl'.presdiv = TQ_x_Prescaler \div TQ
    BY <1>3 DEF Try, IInv, TypeOK, TQs
  <2>2. \A t \in TQs : t > TQ => ~Matches(t)
    BY <2>1 DEF Searched
  <2>3. CASE Matches(TQ)
    <3>1. best_TQ' = TQ /\ pc' = "fields"
      BY <1>3, <2>3 DEF Try, Match, Matches
    <3>2. \A t \in TQs : Matches(t) => t <= TQ
      BY <2>1, <2>2 DEF TQs, CAN_MIN_TQ, CAN_MAX_TQ
    <3>3. Matched(ctrl.presdiv)'
      BY <2>1, <2>3, <3>1, <3>2, MatchesKept DEF Matched
    <3> QED BY <3>1, <3>3 DEF Searched
  <2>4. CASE ~Matches(TQ)
    <3>1. TQ' = TQ - 1 /\ pc' = IF TQ = CAN_MIN_TQ THEN "fields" ELSE "loop"
      BY <1>3, <2>4 DEF Try, Consider, Matches
    <3>2. \A t \in TQs : t > TQ' => ~Matches(t)
      BY <2>1, <2>2, <2>4, <3>1 DEF TQs, CAN_MIN_TQ, CAN_MAX_TQ
    <3>3. TQ = CAN_MIN_TQ => NoMatch
      BY <3>1, <3>2 DEF NoMatch, TQs, CAN_MIN_TQ, CAN_MAX_TQ
    <3> QED BY <2>1, <3>1, <3>2, <3>3, MatchesKept DEF Searched
  <2> QED BY <2>3, <2>4
<1>4. CASE Solve
  <2>1. pc = "fields" /\ UNCHANGED <<args, best_TQ>>
    BY <1>4 DEF Solve
  <2>2. Matched(ctrl.presdiv) \/ NoMatch
    BY <2>1 DEF Searched
  <2>3. CASE best_TQ >= CAN_MIN_TQ /\ ctrl.presdiv <= MaxPresdiv
    <3>1. pc' = "ok" /\ ctrl'.presdiv = ctrl.presdiv - 1
      BY <1>4, <2>3 DEF Solve, Fields
    <3>2. ctrl'.presdiv + 1 = ctrl.presdiv
      BY <3>1 DEF IInv, TypeOK
    <3>3. Matched(ctrl.presdiv) => Matched(ctrl.presdiv + 1)'
      BY <2>1, <3>2, MatchesKept DEF Matched
    <3> QED BY <2>1, <2>2, <3>1, <3>3, MatchesKept DEF Searched
  <2>4. CASE ~(best_TQ >= CAN_MIN_TQ /\ ctrl.presdiv <= MaxPresdiv)
    <3>1. pc' = "error"
      BY <1>4, <2>4 DEF Solve
    <3>2. ~Matched(ctrl.presdiv)
      BY <2>4 DEF Matched, Matches, Usable, TQs, CAN_MIN_TQ, CAN_MAX_TQ
    <3> QED BY <2>1, <2>2, <3>1, <3>2, MatchesKept DEF Searched
  <2> QED BY <2>3, <2>4
<1> QED BY <1>1, <1>2, <1>3, <1>4 DEF Next

\* A match, once encoded, is the exact solution with the lowest prescaler.
LEMMA SearchedExact ==
  ASSUME IInv, Searched
  PROVE  ExactWhenPossible
<1> SUFFICES ASSUME pc \in {"ok", "error"}, TQ_x_Prescaler >= CAN_MIN_TQ,
                    NEW x \in TQs, Matches(x)
             PROVE  /\ pc = "ok"
                    /\ (ctrl.presdiv + 1) * QuantaOf(ctrl) = TQ_x_Prescaler
                    /\ \A t \in TQs : Matches(t) => t <= QuantaOf(ctrl)
  BY DEF ExactWhenPossible, Matches, TQs
<1>1. TQ_x_Prescaler \in Nat /\ ~(TQ_x_Prescaler < CAN_MIN_TQ - 1)
  BY RatioType DEF IInv, TypeOK, TQ_x_Prescaler, CAN_MIN_TQ
<1>2. ~NoMatch
  BY DEF NoMatch
<1>3. pc = "ok" /\ Matched(ctrl.presdiv + 1)
  BY <1>1, <1>2 DEF Searched
<1>4. QuantaOf(ctrl) = best_TQ
  BY <1>3 DEF IInv, FieldsFit
<1>5. /\ TQ_x_Prescaler = best_TQ * (ctrl.presdiv + 1)
      /\ best_TQ \in Int /\ ctrl.presdiv + 1 \in Int
  BY <1>3 DEF Matched, Matches, Exact, IInv, TypeOK, TQs
<1>6. best_TQ * (ctrl.presdiv + 1) = (ctrl.presdiv + 1) * best_TQ
  BY <1>5
<1> QED BY <1>3, <1>4, <1>5, <1>6 DEF Matched

\* Where a number of quanta divides the ratio of clock to bit rate, the
\* solution is exact and has the lowest prescaler of the exact ones
\* (CAN_control.c:101), for every clock and every bit rate.
THEOREM SolutionsExact == Spec => []ExactWhenPossible
<1>1. Init => Searched
  BY DEF Init, Searched
<1>2. IInv /\ Searched => ExactWhenPossible
  BY SearchedExact
<1> QED BY InitInv, StepInv, StepSearched, <1>1, <1>2, PTL DEF Spec

=============================================================================
