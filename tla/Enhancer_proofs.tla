---------------------------- MODULE Enhancer_proofs ----------------------------
(***************************************************************************)
(* The decimated bass path stays in its words for every scale, all filter  *)
(* coefficients and every input: the decimator never overflows while it    *)
(* sums up a period, and the interpolation and its smoother never leave    *)
(* their word, even where a sum before them has wrapped.                   *)
(***************************************************************************)
EXTENDS Enhancer, TLAPS

\* What the code's constants and the crossovers' outputs satisfy.
Parameters == /\ INTEGRATOR_UNIT \in Nat \ {0} /\ COEF_SCALE \in Nat \ {0}
              /\ smooth_alpha \in 0 .. FIXED_SCALE
              /\ Highpass \in Coefficients /\ Lowpass \in Coefficients
              /\ Lows \subseteq fixed_t

\* Wrapping and saturating both give a word, and leave a word as it is.
LEMMA Int32Word ==
    ASSUME NEW x \in Int
    PROVE  Int32(x) \in fixed_t /\ Int32(x) \in Int /\ (x \in fixed_t => Int32(x) = x)
  <1> DEFINE w == 4 * FIXED_SCALE
             s == x + 2 * FIXED_SCALE
  <1>1. w \in Nat \ {0} /\ s \in Int
    BY ScaleAssumption
  <1> HIDE DEF w, s
  <1>2. s % w \in 0 .. w - 1 /\ (s \in 0 .. w - 1 => s % w = s)
    BY <1>1
  <1> QED  BY <1>2, ScaleAssumption DEF Int32, fixed_t, INT32_MIN, INT32_MAX, w, s

LEMMA ClampBetween ==
    ASSUME NEW x \in Int, NEW lo \in Int, NEW hi \in Int, lo <= hi
    PROVE  fixed_clamp(x, lo, hi) \in lo .. hi
  BY DEF fixed_clamp

LEMMA SatWord == ASSUME NEW x \in Int  PROVE fixed_sat64(x) \in fixed_t
  BY ClampBetween, ScaleAssumption DEF fixed_sat64, fixed_t, INT32_MIN, INT32_MAX

\* Multiplying by a natural number keeps the order.
LEMMA TimesMonotone ==
    ASSUME NEW a \in Nat, NEW x \in Int, NEW y \in Int, x <= y
    PROVE  a * x <= a * y
  <1>1. a * (y - x) >= 0 /\ a * (y - x) = a * y - a * x
    OBVIOUS
  <1> QED  BY <1>1

\* A quotient lies between whole bounds when the dividend does.
LEMMA QuotientBetween ==
    ASSUME NEW x \in Int, NEW unit \in Nat \ {0}, NEW lo \in Int, NEW hi \in Int,
           unit * lo <= x, x < unit * (hi + 1)
    PROVE  x \div unit \in lo .. hi
  <1> DEFINE q == x \div unit
  <1>1. q \in Int /\ unit * q <= x /\ x < unit * (q + 1)
    OBVIOUS
  <1> HIDE DEF q
  <1>2. ~ (q + 1 <= lo)
    BY <1>1, TimesMonotone
  <1>3. ~ (hi + 1 <= q)
    BY <1>1, TimesMonotone
  <1> QED  BY <1>1, <1>2, <1>3 DEF q

\* A word divided by a positive number is a word.
LEMMA DivWord ==
    ASSUME NEW x \in fixed_t, NEW unit \in Nat \ {0}
    PROVE  x \div unit \in fixed_t
  <1> DEFINE k == unit - 1
  <1>1. /\ INT32_MIN \in Int /\ INT32_MAX \in Int /\ INT32_MIN < 0 /\ INT32_MAX > 0
        /\ x \in Int /\ INT32_MIN <= x /\ x <= INT32_MAX /\ k \in Nat /\ unit = k + 1
    BY ScaleAssumption DEF fixed_t, INT32_MIN, INT32_MAX
  <1> HIDE DEF k
  <1>2. unit * INT32_MIN <= INT32_MIN
    <2>1. k * INT32_MIN <= k * 0
      BY <1>1, TimesMonotone
    <2> QED  BY <1>1, <2>1
  <1>3. INT32_MAX + 1 <= unit * (INT32_MAX + 1)
    <2>1. k * 0 <= k * (INT32_MAX + 1)
      BY <1>1, TimesMonotone
    <2> QED  BY <1>1, <2>1
  <1> QED  BY <1>1, <1>2, <1>3, QuotientBetween DEF fixed_t

\* Rounding to nearest stays between whole bounds.
LEMMA RoundingBetween ==
    ASSUME NEW x \in Int, NEW unit \in Nat \ {0}, NEW lo \in Int, NEW hi \in Int,
           unit * lo <= x, x <= unit * hi
    PROVE  fixed_round_shift64(x, unit) \in lo .. hi
  <1> DEFINE half == unit \div 2
  <1>1. half \in Int /\ 0 <= half /\ half < unit
    OBVIOUS
  <1> HIDE DEF half
  <1>2. x + half \in Int /\ unit * lo <= x + half /\ x + half < unit * (hi + 1)
    BY <1>1
  <1>3. (x + half) \div unit \in lo .. hi
    BY <1>2, QuotientBetween
  <1> QED  BY <1>3 DEF fixed_round_shift64, half

\* A low-pass step towards a target lands between where it was and the target.
LEMMA SmootherBetween ==
    ASSUME NEW from \in Int, NEW target \in Int, NEW alpha \in 0 .. FIXED_SCALE,
           NEW lo \in Int, NEW hi \in Int, from \in lo .. hi, target \in lo .. hi
    PROVE  from + fixed_round_shift64(alpha * (target - from), FIXED_SCALE) \in lo .. hi
  <1> DEFINE d == target - from
             p == alpha * d
             zero == 0
             r == fixed_round_shift64(p, FIXED_SCALE)
  <1>1. /\ FIXED_SCALE \in Nat \ {0} /\ alpha \in Nat /\ FIXED_SCALE - alpha \in Nat
        /\ d \in Int /\ p \in Int /\ zero \in Int
    BY ScaleAssumption
  <1> HIDE DEF d, p, zero
  <1>2. CASE d >= 0
    <2>1. alpha * 0 <= alpha * d /\ d * alpha <= d * FIXED_SCALE
      BY <1>1, <1>2, TimesMonotone
    <2>2. FIXED_SCALE * zero <= p /\ p <= FIXED_SCALE * d
      BY <1>1, <2>1 DEF p, zero
    <2>3. r \in zero .. d
      BY <1>1, <2>2, RoundingBetween
    <2> QED  BY <1>2, <2>3 DEF d, p, zero
  <1>3. CASE d < 0
    <2>1. alpha * d <= alpha * 0 /\ (-d) * alpha <= (-d) * FIXED_SCALE
      BY <1>1, <1>3, TimesMonotone
    <2>2. (-d) * alpha = -p /\ (-d) * FIXED_SCALE = -(FIXED_SCALE * d)
      BY <1>1 DEF p
    <2>3. FIXED_SCALE * d <= p /\ p <= FIXED_SCALE * zero
      BY <1>1, <2>1, <2>2 DEF p, zero
    <2>4. r \in d .. zero
      BY <1>1, <2>3, RoundingBetween
    <2> QED  BY <1>3, <2>4 DEF d, p, zero
  <1> QED  BY <1>1, <1>2, <1>3

\* What one frame adds to the decimator.
LEMMA OneFrame ==
    ASSUME NEW low \in fixed_t
    PROVE  low \div PBE_DECIMATION \in -(FIXED_SCALE \div 2) .. FIXED_SCALE \div 2 - 1
  BY ScaleAssumption DEF fixed_t, INT32_MIN, INT32_MAX, PBE_DECIMATION

LEMMA MonoWord ==
    ASSUME NEW left \in fixed_t, NEW right \in fixed_t
    PROVE  lp_mono(left, right) \in fixed_t
  BY ScaleAssumption DEF lp_mono, fixed_t, INT32_MIN, INT32_MAX

IInv == /\ TypeOK
        /\ decimate_acc \in -phase * (FIXED_SCALE \div 2) .. phase * (FIXED_SCALE \div 2)

\* In a state of the invariant the sum of the frame to come fits its word.
LEMMA SumFits ==
    ASSUME IInv, NEW left \in fixed_t, NEW right \in fixed_t
    PROVE  LET acc == Accumulated(lp_mono(left, right)) IN
           /\ acc \in fixed_t
           /\ acc \in -(phase + 1) * (FIXED_SCALE \div 2) .. (phase + 1) * (FIXED_SCALE \div 2)
  <1> DEFINE h == FIXED_SCALE \div 2
             low == lp_mono(left, right) \div PBE_DECIMATION
  <1>1. h \in Nat /\ FIXED_SCALE = 2 * h
    BY ScaleAssumption
  <1>2. low \in -h .. h - 1
    BY MonoWord, OneFrame
  <1> HIDE DEF h, low
  <1>3. phase \in 0 .. 3 /\ decimate_acc \in -phase * h .. phase * h
    BY DEF IInv, TypeOK, PBE_DECIMATION, h
  <1>4. /\ decimate_acc + low \in -4 * h .. 4 * h - 1
        /\ decimate_acc + low \in -(phase + 1) * h .. (phase + 1) * h
    <2>1. CASE phase = 0  BY <1>1, <1>2, <1>3, <2>1
    <2>2. CASE phase = 1  BY <1>1, <1>2, <1>3, <2>2
    <2>3. CASE phase = 2  BY <1>1, <1>2, <1>3, <2>3
    <2>4. CASE phase = 3  BY <1>1, <1>2, <1>3, <2>4
    <2> QED  BY <1>3, <2>1, <2>2, <2>3, <2>4
  <1> QED  BY <1>1, <1>4 DEF Accumulated, fixed_t, INT32_MIN, INT32_MAX, low, h

\* A biquad section gives a word and whole delays, whatever its coefficients.
LEMMA BiquadWhole ==
    ASSUME Parameters, NEW c \in Coefficients, NEW d \in Delays, NEW x \in Int
    PROVE  Output(c, d, x) \in fixed_t /\ Delayed(c, d, x) \in Delays
  <1> DEFINE acc == c.b0 * x + d.s1
             r == fixed_round_shift64(acc, COEF_SCALE)
  <1>1. /\ c.b0 \in Int /\ c.b1 \in Int /\ c.b2 \in Int /\ c.a1 \in Int /\ c.a2 \in Int
        /\ d.s1 \in Int /\ d.s2 \in Int /\ acc \in Int /\ COEF_SCALE \in Nat \ {0}
    BY DEF Coefficients, Delays, Parameters
  <1>2. r \in Int
    BY <1>1 DEF fixed_round_shift64
  <1>3. Output(c, d, x) \in fixed_t /\ Output(c, d, x) \in Int
    BY <1>2, SatWord, ScaleAssumption DEF Output, fixed_t, INT32_MIN, INT32_MAX
  <1>4. Error(c, d, x) \in Int
    BY <1>1, <1>3 DEF Error
  <1> DEFINE y == Output(c, d, x)
             e == Error(c, d, x)
  <1> HIDE DEF y, e
  <1>5. /\ y \in Int /\ e \in Int
        /\ (c.a1 * e) \div COEF_SCALE \in Int /\ (c.a2 * e) \div COEF_SCALE \in Int
    BY <1>1, <1>3, <1>4 DEF y, e
  <1>6. /\ c.a1 * y \in Int /\ c.a2 * y \in Int /\ c.b1 * x \in Int /\ c.b2 * x \in Int
    BY <1>1, <1>5
  <1>7. Delayed(c, d, x)
        = [s1 |-> c.b1 * x - (c.a1 * y + (c.a1 * e) \div COEF_SCALE) + d.s2,
           s2 |-> c.b2 * x - (c.a2 * y + (c.a2 * e) \div COEF_SCALE)]
    BY DEF Delayed, y, e
  <1>8. /\ c.b1 * x - (c.a1 * y + (c.a1 * e) \div COEF_SCALE) + d.s2 \in Int
        /\ c.b2 * x - (c.a2 * y + (c.a2 * e) \div COEF_SCALE) \in Int
    BY <1>1, <1>5, <1>6
  <1> QED  BY <1>3, <1>7, <1>8 DEF Delays

\* The integrator's ramp is never negative and never leaves its word.
LEMMA IntegratorWord ==
    ASSUME u_prev \in fixed_t, y_prev \in 0 .. INT32_MAX, NEW u \in fixed_t
    PROVE  Integrated(u) \in 0 .. INT32_MAX
  <1>1. /\ INT32_MIN \in Int /\ INT32_MAX \in Int /\ INT32_MIN < 0 /\ INT32_MAX > 0
        /\ u_prev \in Int /\ y_prev \in Int /\ y_prev >= 0 /\ y_prev <= INT32_MAX
    BY ScaleAssumption DEF fixed_t, INT32_MIN, INT32_MAX
  <1>2. \A x \in Int : x >= 0 => fixed_sat64(x) \in 0 .. INT32_MAX
    BY <1>1 DEF fixed_sat64, fixed_clamp
  <1>3. Magnitude(u_prev) \in 0 .. INT32_MAX
    BY <1>1, <1>2 DEF Magnitude
  <1>4. fixed_add_sat(y_prev, Magnitude(u_prev)) \in 0 .. INT32_MAX
    BY <1>1, <1>2, <1>3 DEF fixed_add_sat
  <1> QED  BY <1>1, <1>4 DEF Integrated

LEMMA InitIInv == Parameters /\ Init => IInv
  BY ScaleAssumption
     DEF Init, IInv, TypeOK, PBE_DECIMATION, PBE_FULL_SCALE, Delays, fixed_t,
         INT32_MIN, INT32_MAX

LEMMA NextIInv == Parameters /\ IInv /\ [Next]_vars => IInv'
  <1> SUFFICES ASSUME Parameters, IInv, [Next]_vars  PROVE IInv'
    OBVIOUS
  <1>1. ASSUME NEW left \in Lows, NEW right \in Lows, ProcessFrame(left, right)
        PROVE  IInv'
    <2> DEFINE sum == Accumulated(lp_mono(left, right))
               acc == Int32(sum)
    <2>1. left \in fixed_t /\ right \in fixed_t
      BY DEF Parameters
    <2>2. /\ sum \in fixed_t
          /\ sum \in -(phase + 1) * (FIXED_SCALE \div 2) .. (phase + 1) * (FIXED_SCALE \div 2)
      BY <2>1, SumFits
    <2>3. acc = sum
      BY <2>2, Int32Word DEF fixed_t, INT32_MIN, INT32_MAX
    <2>4. /\ IInv /\ TypeOK /\ fixed_t \subseteq Int /\ FIXED_SCALE \in Nat \ {0}
          /\ FIXED_SCALE \div 2 \in Nat
          /\ INT32_MIN \in Int /\ INT32_MAX \in Int /\ fixed_t = INT32_MIN .. INT32_MAX
      BY ScaleAssumption DEF IInv, fixed_t, INT32_MIN, INT32_MAX
    <2>5. /\ phase \in Int /\ phase + 1 \in Int /\ smooth_state \in Int
          /\ enhance_prev \in Int /\ enhance_cur \in Int /\ Rise \in Int
          /\ PBE_DECIMATION = 4 /\ -PBE_FULL_SCALE \in Int /\ PBE_FULL_SCALE \in Int
          /\ -PBE_FULL_SCALE <= PBE_FULL_SCALE
      BY <2>4 DEF TypeOK, Rise, PBE_DECIMATION, PBE_FULL_SCALE
    <2>6. smooth_state' \in fixed_t
      <3>1. Interp \in fixed_t
        <4>1. Int32(Rise) \in Int
          BY <2>5, Int32Word
        <4>2. Int32(Rise) \div PBE_DECIMATION \in Int
          BY <2>5, <4>1
        <4> DEFINE k == (Int32(Rise) \div PBE_DECIMATION) * (phase + 1)
        <4>3. k \in Int
          BY <2>5, <4>2
        <4> HIDE DEF k
        <4>4. enhance_prev + Int32(k) \in Int
          BY <2>5, <4>3, Int32Word
        <4>5. Int32(enhance_prev + Int32(k)) \in fixed_t
          BY <4>4, Int32Word
        <4> QED  BY <4>5 DEF Interp, k
      <3>2. smooth_alpha \in 0 .. FIXED_SCALE /\ smooth_state \in fixed_t
        BY <2>4 DEF Parameters, TypeOK
      <3>3. Smoothed \in fixed_t
        <4>1. Interp \in Int
          BY <2>4, <3>1
        <4> QED  BY <2>4, <2>5, <3>1, <3>2, <4>1, SmootherBetween DEF Smoothed
      <3> QED  BY <1>1, <3>3 DEF ProcessFrame
    <2>7. CASE phase = PBE_DECIMATION - 1
      <3> DEFINE u == Decimated(acc)
                 y == Integrated(u)
                 high == Output(Highpass, hp, y)
                 out == Output(Lowpass, lp, high)
      <3>1. Decimate(u)
        BY <1>1, <2>7 DEF ProcessFrame
      <3>2. u \in fixed_t
        <4>1. /\ INTEGRATOR_UNIT \in Nat \ {0} /\ INTEGRATOR_UNIT \div 2 \in Int
              /\ acc \in Int
          BY <2>2, <2>3, <2>4 DEF Parameters
        <4>2. Int32(acc + INTEGRATOR_UNIT \div 2) \in fixed_t
          BY <4>1, Int32Word
        <4> QED  BY <4>1, <4>2, DivWord DEF Decimated
      <3>3. y \in 0 .. INT32_MAX /\ y \in Int
        <4>1. u_prev \in fixed_t /\ y_prev \in 0 .. INT32_MAX
          BY <2>4 DEF TypeOK
        <4>2. y \in 0 .. INT32_MAX
          BY <3>2, <4>1, IntegratorWord
        <4> QED  BY <4>2
      <3>4. high \in Int /\ Delayed(Highpass, hp, y) \in Delays
        BY <2>4, <3>3, BiquadWhole DEF TypeOK, Parameters
      <3>5. out \in Int /\ Delayed(Lowpass, lp, high) \in Delays
        BY <2>4, <3>4, BiquadWhole DEF TypeOK, Parameters
      <3>6. fixed_clamp(out, -PBE_FULL_SCALE, PBE_FULL_SCALE)
            \in -PBE_FULL_SCALE .. PBE_FULL_SCALE
        BY <2>5, <3>5, ClampBetween
      <3> HIDE DEF u
      <3>7. TypeOK'
        BY <2>4, <2>6, <3>1, <3>2, <3>3, <3>4, <3>5, <3>6
           DEF Decimate, TypeOK, PBE_DECIMATION, PBE_FULL_SCALE, INT32_MAX, fixed_t, INT32_MIN
      <3>8. phase' = 0 /\ decimate_acc' = 0
        BY <3>1 DEF Decimate
      <3> QED  BY <2>4, <3>7, <3>8 DEF IInv
    <2>8. CASE phase # PBE_DECIMATION - 1
      <3>1. /\ decimate_acc' = acc /\ phase' = phase + 1
            /\ UNCHANGED <<u_prev, y_prev, hp, lp, enhance_prev, enhance_cur>>
        BY <1>1, <2>8 DEF ProcessFrame
      <3>2. TypeOK'
        BY <2>4, <2>6, <2>8, <3>1
           DEF TypeOK, PBE_DECIMATION, PBE_FULL_SCALE, INT32_MAX, fixed_t, INT32_MIN
      <3> QED  BY <2>2, <2>3, <3>1, <3>2 DEF IInv
    <2> QED  BY <2>7, <2>8
  <1>2. CASE UNCHANGED vars
    BY <1>2 DEF vars, IInv, TypeOK, INT32_MAX, INT32_MIN, fixed_t, PBE_DECIMATION,
                PBE_FULL_SCALE
  <1> QED  BY <1>1, <1>2 DEF Next

\* Every part of the path is a word in every reachable state: the smoother and the
\* ramp of the integrator never leave 32 bits (pbe-dsp.c:94-97,
\* full-wave-integrator.c:17).
THEOREM TypeCorrect == Parameters /\ Spec => []TypeOK
  <1>1. SUFFICES ASSUME Parameters  PROVE Spec => []TypeOK
    OBVIOUS
  <1>2. Init => IInv
    BY <1>1, InitIInv
  <1>3. IInv /\ [Next]_vars => IInv'
    BY <1>1, NextIInv
  <1>4. IInv => TypeOK
    BY DEF IInv
  <1> QED  BY <1>2, <1>3, <1>4, PTL DEF Spec

\* The decimator's sum fits its word however hot the input (pbe-dsp.c:85-88).
THEOREM DecimatorNeverOverflows == Parameters /\ Spec => []DecimatorFits
  <1>1. SUFFICES ASSUME Parameters  PROVE Spec => []DecimatorFits
    OBVIOUS
  <1>2. Init => IInv
    BY <1>1, InitIInv
  <1>3. IInv /\ [Next]_vars => IInv'
    BY <1>1, NextIInv
  <1>4. IInv => DecimatorFits
    <2> SUFFICES ASSUME IInv  PROVE DecimatorFits
      OBVIOUS
    <2>1. \A left, right \in Lows : Accumulated(lp_mono(left, right)) \in fixed_t
      BY <1>1, SumFits DEF Parameters
    <2>2. FIXED_SCALE \div 2 \in Nat
      BY ScaleAssumption
    <2> QED  BY <2>1, <2>2 DEF DecimatorFits, IInv, TypeOK, PBE_DECIMATION
  <1> QED  BY <1>2, <1>3, <1>4, PTL DEF Spec

\* What is fed back is the rounding error and nothing else, for every section, delay
\* and sample, as long as the output does not saturate (band-pass.c:48-56): saturation
\* alone breaks RoundingOnly.
THEOREM ErrorUnlessSaturated ==
    ASSUME Parameters, NEW c \in Coefficients, NEW d \in Delays, NEW x \in Int,
           INT32_MIN < Output(c, d, x), Output(c, d, x) < INT32_MAX
    PROVE  2 * Error(c, d, x) <= COEF_SCALE /\ -2 * Error(c, d, x) <= COEF_SCALE
  <1> DEFINE exact == c.b0 * x + d.s1
             half == COEF_SCALE \div 2
             q == (exact + half) \div COEF_SCALE
  <1>1. /\ COEF_SCALE \in Nat \ {0} /\ c.b0 \in Int /\ d.s1 \in Int
        /\ INT32_MIN \in Int /\ INT32_MAX \in Int /\ INT32_MIN < INT32_MAX
    BY ScaleAssumption DEF Parameters, Coefficients, Delays, INT32_MIN, INT32_MAX
  <1>2. exact \in Int /\ half \in Nat /\ 2 * half <= COEF_SCALE /\ COEF_SCALE <= 2 * half + 1
    BY <1>1
  <1>3. /\ Output(c, d, x) = fixed_sat64(q)
        /\ Error(c, d, x) = c.b0 * x + d.s1 - Output(c, d, x) * COEF_SCALE
    BY DEF Output, Error, fixed_round_shift64
  <1> HIDE DEF half
  <1>4. /\ q \in Int /\ COEF_SCALE * q <= exact + half
        /\ exact + half < COEF_SCALE * q + COEF_SCALE
    <2>1. exact + half \in Int
      BY <1>2
    <2> HIDE DEF exact
    <2> QED  BY <1>1, <2>1
  <1> HIDE DEF q
  <1>5. Output(c, d, x) = q
    BY <1>1, <1>3, <1>4 DEF fixed_sat64, fixed_clamp
  <1>6. Error(c, d, x) = exact - COEF_SCALE * q /\ COEF_SCALE * q \in Int
    BY <1>1, <1>2, <1>3, <1>4, <1>5
  <1> HIDE DEF exact
  <1> QED  BY <1>1, <1>2, <1>4, <1>6
===============================================================================
