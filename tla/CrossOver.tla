------------------------------- MODULE CrossOver -------------------------------
(***************************************************************************)
(* The crossover of one channel, pbe-dsp/cross-over.c: two cascaded one-   *)
(* pole lowpass sections whose rounded output feeds back, retuned while    *)
(* they run.  FIXED_SCALE is 2^30 in the code; the arithmetic is the same  *)
(* at every scale.                                                         *)
(*                                                                         *)
(* The coefficient a0 is computed from the cutoff by a tangent; the model  *)
(* takes any that a cutoff below a quarter of the sample rate can give,    *)
(* which every cutoff of the plugin is.                                    *)
(*                                                                         *)
(* Truncated, OldFeedback and Reversed are bugs to put in place of the     *)
(* definitions that follow them.                                           *)
(***************************************************************************)
EXTENDS FixedMath

CONSTANTS Tunings, \* values of a0 the cutoffs give
          Inputs   \* samples

ASSUME TuningAssumption == Tunings \subseteq {a \in Nat : a > 0 /\ 2 * a < FIXED_SCALE}
ASSUME InputAssumption == Inputs \subseteq fixed_t

VARIABLES a0, b1, \* coefficients
          input,  \* the sample the host is playing
          x1,     \* previous input
          lp1, lp2, \* outputs of the two sections
          peak    \* ghost: the largest magnitude that came in

vars == <<a0, b1, input, x1, lp1, lp2, peak>>

Abs(x) == IF x < 0 THEN -x ELSE x

\* 2*a0 + b1 == 1.
Reversed(a) == 2 * a - FIXED_SCALE
Feedback(a) == FIXED_SCALE - 2 * a

Init == /\ a0 \in Tunings /\ b1 = Feedback(a0)
        /\ input = 0 /\ x1 = 0 /\ lp1 = 0 /\ lp2 = 0 /\ peak = 0

\* CrossOverFilter_SetCutoff
OldFeedback == b1
NewFeedback == Feedback(a0')

SetCutoff(a) ==
    /\ a0' = a
    /\ b1' = NewFeedback
    /\ UNCHANGED <<input, x1, lp1, lp2, peak>>

\* y = a0*(x + x1) + b1*y1, rounded once.
Truncated(acc) == acc \div FIXED_SCALE
Rounded(acc) == fixed_round_shift64(acc, FIXED_SCALE)

one_pole(a, b, in, inPrev, outPrev) == Rounded(a * (in + inPrev) + b * outPrev)

\* CrossOverFilter_Process
Process ==
    /\ x1' = input
    /\ lp1' = one_pole(a0, b1, input, x1, lp1)
    /\ lp2' = one_pole(a0, b1, lp1', lp1, lp2)
    /\ peak' = IF Abs(input) > peak THEN Abs(input) ELSE peak
    /\ UNCHANGED <<a0, b1, input>>

\* The host's next sample is another one.
Play(x) == input' = x /\ UNCHANGED <<a0, b1, x1, lp1, lp2, peak>>

\* What the last call put out: the low band, and the allpass less the low band.
Low == lp2
High == fixed_sat64(2 * lp1 - x1 - lp2)

Next == Process \/ (\E a \in Tunings : SetCutoff(a)) \/ (\E x \in Inputs : Play(x))

Spec == Init /\ [][Next]_vars

\* The host goes on playing.
FairSpec == Spec /\ WF_vars(Process)
-------------------------------------------------------------------------------
(* Correctness *)

TypeOK == /\ a0 \in Tunings /\ b1 \in 1 .. FIXED_SCALE
          /\ input \in fixed_t /\ x1 \in fixed_t /\ lp1 \in fixed_t
          /\ lp2 \in fixed_t
          /\ peak \in 0 .. 2 * FIXED_SCALE

\* "a0, b1 > 0 and 2*a0 + b1 == 1, so |y| <= max|x| and the result always fits"
\* (cross-over.c:24-26): whatever came in, however it was retuned meanwhile, and
\* although each output is rounded before it is fed back, the lowpass is never
\* louder than its input was.
LowpassBounded == Abs(lp1) <= peak /\ Abs(lp2) <= peak

\* LowpassBounded and what it rests on: an output lies between the samples it is
\* made of, which are words and no louder than the peak.
IndInv == /\ TypeOK
          /\ b1 = Feedback(a0)
          /\ Abs(x1) <= peak
          /\ LowpassBounded

given == <<a0, input>>
Steady == <>[][FALSE]_given

\* Rounding in a feedback path may keep a filter oscillating for ever; this one
\* comes to rest when its input does.
NoLimitCycle == Steady => <>[][FALSE]_<<lp1, lp2>>

\* "plain truncation biases toward -inf, and in a feedback path (IIR filters) that
\* bias accumulates into a DC offset" (fixed-math.h:74-75): at rest a constant is
\* in the low band and out of the high one as nearly as two sections that round
\* to nearest allow, on either side.
Rounding == (FIXED_SCALE \div 2) \div a0
Centred == Abs(Low - input) <= Rounding /\ Abs(High) <= Rounding
NoDcOffset == Steady => <>[]Centred
===============================================================================
