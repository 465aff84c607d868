------------------------------ MODULE MCEnhancer ------------------------------
(***************************************************************************)
(* Instances of Enhancer for TLC.                                          *)
(*                                                                         *)
(* BandPassError: samples of four bits and a sign, bass at full scale, and *)
(* the filters the code computes for a band from 1/16 to 1/4 of the        *)
(* decimated rate with a gain of 8, in eighths.                            *)
(*                                                                         *)
(* EnhancerBurst: a burst of Burst frames of any left and right, then      *)
(* silence for ever.  Samples of seven bits behind the point; filters for a*)
(* band from 1/20 to 1/5 of the decimated rate with a gain of 16, their    *)
(* coefficients of 12 bits behind the point: the poles of the highpass are *)
(* as near to 1, measured in units of a sample, as a bass cutoff puts them,*)
(* and its b1 is -2 * b0 exactly, as it is in the code (band-pass.c:38-40: *)
(* halving and doubling a float are exact, and from 0.5 on a float is a    *)
(* whole number of coefficient units).                                     *)
(***************************************************************************)
EXTENDS Enhancer

CONSTANT Burst \* bound: the frames of the burst, whole periods of the decimator

VARIABLE frames \* played of the burst

FullScale == {-PBE_FULL_SCALE, PBE_FULL_SCALE}
SmallHighpass == [b0 |-> 6, b1 |-> -12, b2 |-> 6, a1 |-> -12, a2 |-> 5]
SmallLowpass == [b0 |-> 19, b1 |-> 37, b2 |-> 19, a1 |-> 0, a2 |-> 1]

BurstLows == {0} \cup FullScale
BassHighpass == [b0 |-> 3279, b1 |-> -6558, b2 |-> 3279, a1 |-> -6394, a2 |-> 2627]
LoudLowpass == [b0 |-> 13538, b1 |-> 27076, b2 |-> 13538, a1 |-> -1514, a2 |-> 802]

BurstInit == Init /\ frames = 0

Sound == frames < Burst /\ Next /\ frames' = frames + 1
Silence == frames = Burst /\ ProcessFrame(0, 0) /\ UNCHANGED frames

BurstNext == Sound \/ Silence
BurstSpec == BurstInit /\ [][BurstNext]_<<vars, frames>> /\ WF_<<vars, frames>>(BurstNext)

\* Once the sound is over the enhancer comes to rest, and stays at rest
\* (band-pass.c:50-51).
RingsOut == <>[]Resting
===============================================================================
