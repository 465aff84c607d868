------------------------------- MODULE MCEditor -------------------------------
(* Instance of Editor for TLC: the gain and harmonics knobs, three positions *)
(* each that include the values whose text is hardest to read back, and a    *)
(* pointer on either knob, at its edge or beside them.                       *)
EXTENDS Editor

GainAndHarmonics == {PARAM_GAIN, PARAM_BANDPASS_HIGH}

\* -23.97 dB is shown as -24.0 dB and 999.7 Hz as 1000 Hz.
SmallScale ==
    [p \in GainAndHarmonics |->
        IF p = PARAM_GAIN
        THEN [pos \in 0 .. 2 |-> <<-2400, -2397, 2400>>[pos + 1]]
        ELSE [pos \in 0 .. 2 |-> <<1000, 9997, 40000>>[pos + 1]]]

SmallPoints == {<<2, 1>>, <<10, 2>>, <<6, 0>>}
OneLine == {-1, 1}
===============================================================================
