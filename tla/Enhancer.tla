------------------------------- MODULE Enhancer -------------------------------
(***************************************************************************)
(* The decimated bass path of PbeDsp_ProcessFrame (pbe-dsp/pbe-dsp.c) with *)
(* the full-wave integrator and the band-pass filter it runs: every frame  *)
(* adds to the decimator and interpolates between the last two outputs of  *)
(* the path; every fourth computes the next.  32-bit sums are Int32, which *)
(* wraps as the usual builds do where C leaves overflow undefined.  64-bit *)
(* sums are exact, which they are in the code as long as the error fed     *)
(* back is the rounding error it is meant to be.                           *)
(*                                                                         *)
(* The low bands of the crossovers come in as any sample, by CrossOver; the*)
(* high bands that are mixed in behind leave no state.                     *)
(*                                                                         *)
(* UnitsOnly and Undivided are bugs to put in place of the definitions that*)
(* follow them.                                                            *)
(***************************************************************************)
EXTENDS FixedMath

CONSTANTS INTEGRATOR_UNIT, \* 1 << PBE_INTEGRATOR_SHIFT
          COEF_SCALE,      \* 1 << COEF_FRAC_BITS
          smooth_alpha,    \* the smoother's coefficient
          Highpass, Lowpass, \* the band-pass filter's coefficients
          Lows             \* what the crossovers may put out, per channel

VARIABLES phase, decimate_acc, u_prev, y_prev, hp, lp, enhance_prev, enhance_cur,
          smooth_state

vars == <<phase, decimate_acc, u_prev, y_prev, hp, lp, enhance_prev, enhance_cur,
          smooth_state>>

PBE_DECIMATION == 4
PBE_FULL_SCALE == FIXED_SCALE

Int32(x) == ((x + 2 * FIXED_SCALE) % (4 * FIXED_SCALE)) - 2 * FIXED_SCALE

Coefficients == [b0 : Int, b1 : Int, b2 : Int, a1 : Int, a2 : Int]
Delays == [s1 : Int, s2 : Int]

Init ==
    /\ phase = 0 /\ decimate_acc = 0
    /\ u_prev = 0 /\ y_prev = 0
    /\ hp = [s1 |-> 0, s2 |-> 0] /\ lp = [s1 |-> 0, s2 |-> 0]
    /\ enhance_prev = 0 /\ enhance_cur = 0 /\ smooth_state = 0

\* FullWaveIntegrator_Process: reset on a positive-going zero crossing, else add
\* the magnitude of the previous input.
Magnitude(u) == fixed_sat64(IF u < 0 THEN -u ELSE u)
Integrated(u) == IF u > 0 /\ u_prev <= 0 THEN 0
                 ELSE fixed_add_sat(y_prev, Magnitude(u_prev))

\* biquad_process: the output of a section with coefficients c and delays d, what
\* the output lacks of the exact value, and the delays that both are fed back to.
Output(c, d, x) == fixed_sat64(fixed_round_shift64(c.b0 * x + d.s1, COEF_SCALE))
Error(c, d, x) == c.b0 * x + d.s1 - Output(c, d, x) * COEF_SCALE

\* The mutant UnitsOnly feeds the rounded output back and leaves its error out.
UnitsOnly(c, d, x) ==
    [s1 |-> c.b1 * x - c.a1 * Output(c, d, x) + d.s2,
     s2 |-> c.b2 * x - c.a2 * Output(c, d, x)]

Delayed(c, d, x) ==
    LET back(a) == a * Output(c, d, x) + (a * Error(c, d, x)) \div COEF_SCALE
    IN [s1 |-> c.b1 * x - back(c.a1) + d.s2, s2 |-> c.b2 * x - back(c.a2)]

lp_mono(left, right) == (left + right) \div 2
\* The mutant Undivided adds the frames up and divides later.
Undivided(low) == decimate_acc + low

Accumulated(low) == decimate_acc + low \div PBE_DECIMATION

\* Linear interpolation, then the smoother.
Rise == enhance_cur - enhance_prev
Interp == LET step == Int32(Rise) \div PBE_DECIMATION
          IN Int32(enhance_prev + Int32(step * (phase + 1)))
Smoothed == smooth_state
            + fixed_round_shift64(smooth_alpha * (Interp - smooth_state), FIXED_SCALE)

\* What the decimator hands to the integrator, rounded.
Decimated(acc) == Int32(acc + INTEGRATOR_UNIT \div 2) \div INTEGRATOR_UNIT

Decimate(u) ==
    LET y == Integrated(u)
        high == Output(Highpass, hp, y)
    IN /\ decimate_acc' = 0
       /\ u_prev' = u /\ y_prev' = y
       /\ hp' = Delayed(Highpass, hp, y) /\ lp' = Delayed(Lowpass, lp, high)
       /\ enhance_prev' = enhance_cur
       /\ enhance_cur' = fixed_clamp(Output(Lowpass, lp, high),
                                     -PBE_FULL_SCALE, PBE_FULL_SCALE)
       /\ phase' = 0

ProcessFrame(left, right) ==
    LET acc == Int32(Accumulated(lp_mono(left, right)))
    IN /\ smooth_state' = Smoothed
       /\ IF phase = PBE_DECIMATION - 1
          THEN Decimate(Decimated(acc))
          ELSE /\ decimate_acc' = acc /\ phase' = phase + 1
               /\ UNCHANGED <<u_prev, y_prev, hp, lp, enhance_prev, enhance_cur>>

Next == \E left, right \in Lows : ProcessFrame(left, right)

Spec == Init /\ [][Next]_vars
-------------------------------------------------------------------------------
(* Correctness *)

TypeOK ==
    /\ phase \in 0 .. PBE_DECIMATION - 1
    /\ u_prev \in fixed_t /\ y_prev \in 0 .. INT32_MAX
    /\ hp \in Delays /\ lp \in Delays
    /\ enhance_prev \in -PBE_FULL_SCALE .. PBE_FULL_SCALE
    /\ enhance_cur \in -PBE_FULL_SCALE .. PBE_FULL_SCALE
    /\ smooth_state \in fixed_t

\* "box-car decimation: accumulate lp_mono / PBE_DECIMATION" (pbe-dsp.c:86): the
\* sum of a whole period fits, however hot the input.
DecimatorFits ==
    /\ decimate_acc >= -phase * (FIXED_SCALE \div 2)
    /\ decimate_acc <= phase * (FIXED_SCALE \div 2)
    /\ \A left, right \in Lows : Accumulated(lp_mono(left, right)) \in fixed_t

\* "the rounding error `err` (|err| < 2^27) is fed back through a1/a2 as well"
\* (band-pass.c:48-49): what a section lacks of its exact output is never more than
\* half a unit.
RoundingOnly ==
    \A left, right \in Lows :
        LET y == Integrated(Decimated(Int32(Accumulated(lp_mono(left, right)))))
            lacks == {Error(Highpass, hp, y), Error(Lowpass, lp, Output(Highpass, hp, y))}
        IN phase = PBE_DECIMATION - 1 =>
              \A e \in lacks : 2 * e <= COEF_SCALE /\ -2 * e <= COEF_SCALE

\* After the last sound the enhancement dies away: "without this, poles near z = 1
\* (bass-range cutoffs) produce a dead zone where the decay per sample is under half
\* an LSB and the state locks up" (band-pass.c:50-51).  Both outputs reach zero and
\* stay there, and the smoother, whose rounding does hold it off (pbe-dsp.c:94-96),
\* stays no further away than its own dead zone.
Resting ==
    /\ enhance_prev = 0 /\ enhance_cur = 0
    /\ 2 * smooth_alpha * smooth_state <= FIXED_SCALE
    /\ -2 * smooth_alpha * smooth_state <= FIXED_SCALE
===============================================================================
