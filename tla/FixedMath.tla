------------------------------- MODULE FixedMath -------------------------------
(***************************************************************************)
(* Fixed-point samples, pbe-dsp/fixed-math.h.  A sample is a fixed_t: with *)
(* FIXED_SCALE for 1.0 and one bit of headroom above it, 1 << 30 in 32 bits*)
(* there.  Sums of products are 64 bits wide and are exact here.           *)
(* BelowOnly is a bug to put in place of the definition that follows it.   *)
(***************************************************************************)
EXTENDS Integers

CONSTANT FIXED_SCALE

ASSUME ScaleAssumption == FIXED_SCALE \in Nat \ {0} /\ FIXED_SCALE % 2 = 0

INT32_MAX == 2 * FIXED_SCALE - 1
INT32_MIN == -2 * FIXED_SCALE
fixed_t == INT32_MIN .. INT32_MAX

\* Shift right by the bits of "unit", a power of two, rounding to nearest.
fixed_round_shift64(x, unit) == (x + unit \div 2) \div unit

\* The mutant BelowOnly has no upper limit.
BelowOnly(x, lo, hi) == IF x < lo THEN lo ELSE x

fixed_clamp(x, lo, hi) == CASE x < lo -> lo
                            [] x > hi -> hi
                            [] x \in lo .. hi -> x

fixed_sat64(x) == fixed_clamp(x, INT32_MIN, INT32_MAX)
fixed_add_sat(a, b) == fixed_sat64(a + b)
===============================================================================
