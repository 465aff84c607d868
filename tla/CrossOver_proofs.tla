--------------------------- MODULE CrossOver_proofs ---------------------------
(***************************************************************************)
(* The crossover's lowpass is never louder than what came in and always    *)
(* fits its word, for every scale, every set of tunings and every input,   *)
(* retuned at any time.  A section's output is a weighted mean of three    *)
(* samples, rounded; the weights add up to one because SetCutoff makes     *)
(* them.                                                                   *)
(***************************************************************************)
EXTENDS CrossOver, TLAPS

\* Multiplying by a natural number keeps the order.
LEMMA TimesMonotone ==
    ASSUME NEW a \in Nat, NEW x \in Int, NEW y \in Int, x <= y
    PROVE  a * x <= a * y
  <1>1. a * (y - x) >= 0 /\ a * (y - x) = a * y - a * x
    OBVIOUS
  <1> QED  BY <1>1

\* Rounding to nearest stays between whole bounds.
LEMMA RoundingBetween ==
    ASSUME NEW x \in Int, NEW unit \in Nat \ {0}, NEW lo \in Int, NEW hi \in Int,
           unit * lo <= x, x <= unit * hi
    PROVE  fixed_round_shift64(x, unit) \in lo .. hi
  <1> DEFINE half == unit \div 2
             q == (x + half) \div unit
  <1>1. half \in Int /\ 0 <= half /\ half < unit
    OBVIOUS
  <1>2. q \in Int /\ unit * q <= x + half /\ x + half < unit * (q + 1)
    BY <1>1
  <1> HIDE DEF half, q
  <1>3. ~ (q + 1 <= lo)
    BY <1>1, <1>2, TimesMonotone
  <1>4. ~ (hi + 1 <= q)
    BY <1>1, <1>2, TimesMonotone
  <1> QED  BY <1>2, <1>3, <1>4 DEF fixed_round_shift64, half, q

\* A section's output lies between its previous output and the two inputs.
LEMMA OnePoleBetween ==
    ASSUME NEW a \in Nat, 2 * a < FIXED_SCALE, FIXED_SCALE \in Nat \ {0},
           NEW lo \in Int, NEW hi \in Int,
           NEW in \in lo .. hi, NEW inPrev \in lo .. hi, NEW outPrev \in lo .. hi
    PROVE  one_pole(a, Feedback(a), in, inPrev, outPrev) \in lo .. hi
  <1> DEFINE b == FIXED_SCALE - 2 * a
             acc == a * (in + inPrev) + b * outPrev
  <1>1. b \in Nat /\ acc \in Int
    OBVIOUS
  <1>2. FIXED_SCALE * lo <= acc
    <2>1. a * (2 * lo) <= a * (in + inPrev)
      BY TimesMonotone
    <2>2. b * lo <= b * outPrev
      BY <1>1, TimesMonotone
    <2>3. a * (2 * lo) + b * lo = FIXED_SCALE * lo
      OBVIOUS
    <2> QED  BY <1>1, <2>1, <2>2, <2>3
  <1>3. acc <= FIXED_SCALE * hi
    <2>1. a * (in + inPrev) <= a * (2 * hi)
      BY TimesMonotone
    <2>2. b * outPrev <= b * hi
      BY <1>1, TimesMonotone
    <2>3. a * (2 * hi) + b * hi = FIXED_SCALE * hi
      OBVIOUS
    <2> QED  BY <1>1, <2>1, <2>2, <2>3
  <1>4. fixed_round_shift64(acc, FIXED_SCALE) \in lo .. hi
    BY <1>1, <1>2, <1>3, RoundingBetween
  <1> QED  BY <1>4 DEF one_pole, Rounded, Feedback

\* Both bounds of the invariant are intervals around zero.
LEMMA MagnitudeInterval ==
    ASSUME NEW x \in Int, NEW m \in Int
    PROVE  Abs(x) <= m <=> x \in (-m) .. m
  BY DEF Abs

LEMMA InitIndInv == Init => IndInv
  BY ScaleAssumption, TuningAssumption
     DEF Init, IndInv, TypeOK, LowpassBounded, Feedback, Abs, fixed_t, INT32_MAX, INT32_MIN

LEMMA NextIndInv == IndInv /\ [Next]_vars => IndInv'
  <1> SUFFICES ASSUME IndInv, [Next]_vars  PROVE IndInv'
    OBVIOUS
  <1> USE ScaleAssumption, TuningAssumption, InputAssumption
  <1>1. CASE Process
    <2> USE <1>1 DEF Process
    <2> DEFINE m == peak'
    <2>1. /\ a0 \in Nat /\ 2 * a0 < FIXED_SCALE /\ FIXED_SCALE \in Nat \ {0}
          /\ b1 = Feedback(a0)
          /\ {input, x1, lp1, lp2} \subseteq fixed_t /\ fixed_t \subseteq Int
          /\ INT32_MIN \in Int /\ INT32_MAX \in Int
      BY DEF IndInv, TypeOK, fixed_t, INT32_MIN, INT32_MAX
    <2>2. /\ m \in 0 .. 2 * FIXED_SCALE /\ Abs(input) <= m /\ peak <= m
      BY <2>1 DEF IndInv, TypeOK, Abs, fixed_t, INT32_MIN, INT32_MAX
    <2>3. {input, x1, lp1, lp2} \subseteq (-m) .. m
      <3>1. /\ Abs(x1) <= peak /\ Abs(lp1) <= peak /\ Abs(lp2) <= peak
            /\ peak \in Int /\ m \in Int /\ peak <= m /\ Abs(input) <= m
            /\ input \in Int /\ x1 \in Int /\ lp1 \in Int /\ lp2 \in Int
        BY <2>1, <2>2 DEF IndInv, TypeOK, LowpassBounded
      <3> HIDE DEF m
      <3>2. \A x \in Int : Abs(x) <= peak => Abs(x) <= m
        BY <3>1 DEF Abs
      <3> QED  BY <3>1, <3>2, MagnitudeInterval
    <2>4. lp1' \in fixed_t
      BY <2>1, OnePoleBetween DEF fixed_t
    <2>5. lp2' \in fixed_t
      BY <2>1, <2>4, OnePoleBetween DEF fixed_t
    <2> HIDE DEF m
    <2>6. /\ input \in (-m) .. m /\ x1 \in (-m) .. m
          /\ lp1 \in (-m) .. m /\ lp2 \in (-m) .. m
          /\ m \in Int /\ -m \in Int
      BY <2>1, <2>2, <2>3
    <2>7. lp1' \in (-m) .. m
      <3>1. one_pole(a0, Feedback(a0), input, x1, lp1) \in (-m) .. m
        BY <2>1, <2>6, OnePoleBetween
      <3> QED  BY <2>1, <3>1
    <2>8. lp2' \in (-m) .. m
      <3>1. one_pole(a0, Feedback(a0), lp1', lp1, lp2) \in (-m) .. m
        BY <2>1, <2>6, <2>7, OnePoleBetween
      <3> QED  BY <2>1, <3>1
    <2>9. LowpassBounded'
      <3>1. m = peak' /\ m \in Int /\ lp1' \in Int /\ lp2' \in Int
        BY <2>1, <2>2, <2>7, <2>8 DEF m
      <3>2. Abs(lp1') <= m /\ Abs(lp2') <= m
        BY <2>7, <2>8, <3>1, MagnitudeInterval
      <3> QED  BY <3>1, <3>2 DEF LowpassBounded, Abs
    <2>10. TypeOK'
      BY <2>1, <2>2, <2>4, <2>5 DEF IndInv, TypeOK, m
    <2>11. Abs(x1') <= peak'
      BY <2>2 DEF m
    <2> QED  BY <2>1, <2>9, <2>10, <2>11 DEF IndInv, Feedback, Abs
  <1>2. CASE \E a \in Tunings : SetCutoff(a)
    BY <1>2 DEF SetCutoff, NewFeedback, Feedback, IndInv, TypeOK, LowpassBounded, Abs
  <1>3. CASE \E x \in Inputs : Play(x)
    BY <1>3 DEF Play, IndInv, TypeOK, LowpassBounded, Abs, Feedback
  <1>4. CASE UNCHANGED vars
    BY <1>4 DEF vars, IndInv, TypeOK, LowpassBounded, Abs, Feedback
  <1> QED  BY <1>1, <1>2, <1>3, <1>4 DEF Next

\* IndInv holds in every reachable state (cross-over.c:24-48).
THEOREM Invariance == Spec => []IndInv
  BY InitIndInv, NextIndInv, PTL DEF Spec

\* The lowpass is never louder than its input was (cross-over.c:24-26).
THEOREM LowpassNeverLouder == Spec => []LowpassBounded
  <1>1. IndInv => LowpassBounded
    BY DEF IndInv
  <1> QED  BY Invariance, <1>1, PTL
===============================================================================
