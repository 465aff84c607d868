------------------------------ MODULE DspTuning ------------------------------
(***************************************************************************)
(* How the bass enhancer of pbe-dsp/ is tuned.  A filter's coefficients    *)
(* are represented by the inputs of the formula that computes them (cutoff,*)
(* rate and, for the lowpass, gain): two filters have the same coefficients*)
(* if they were designed from the same inputs.  Every setter of pbe-dsp.c, *)
(* cross-over.c and band-pass.c becomes an operator from the tuning before *)
(* to the tuning after.                                                    *)
(***************************************************************************)
EXTENDS Integers

CONSTANT OffDb     \* PBE_GAIN_OFF_DB

PBE_DECIMATION == 4

\* The output gain of the bandpass: muted, 1.0, or the factor computed from
\* the gain in dB and the normalization to the speaker cutoff.
Muted == <<>>
Unity == <<1>>
Factor(db, hz, rate) == <<db, hz, rate>>

-------------------------------------------------------------------------------
(* cross-over.c, band-pass.c *)

CrossOver(hz, rate) == [cutoff |-> hz, rate |-> rate]

Highpass(hz, rate) == [cutoff |-> hz, rate |-> rate]
Lowpass(hz, rate, gain) == [cutoff |-> hz, rate |-> rate, gain |-> gain]

BandPass_Init(low, high, rate) ==
    [sample_rate_hz |-> rate, high_cutoff_hz |-> high, gain |-> Unity,
     hp |-> Highpass(low, rate), lp |-> Lowpass(high, rate, Unity)]

BandPass_SetLowCutoff(bp, low) ==
    [bp EXCEPT !.hp = Highpass(low, bp.sample_rate_hz)]

BandPass_SetHighLoud(bp, high) ==
    [bp EXCEPT !.high_cutoff_hz = high,
               !.lp = Lowpass(high, bp.sample_rate_hz, Unity)]

BandPass_SetHighCutoff(bp, high) ==
    [bp EXCEPT !.high_cutoff_hz = high,
               !.lp = Lowpass(high, bp.sample_rate_hz, bp.gain)]

BandPass_SetGain(bp, gain) ==
    [bp EXCEPT !.gain = gain,
               !.lp = Lowpass(bp.high_cutoff_hz, bp.sample_rate_hz, gain)]

-------------------------------------------------------------------------------
(* pbe-dsp.c *)

PbeDsp_SetGain(dsp, db) ==
    [dsp EXCEPT
        !.gain_db = db,
        !.bandpass = BandPass_SetGain(@,
            IF db <= OffDb THEN Muted
            ELSE Factor(db, dsp.speaker_cutoff_hz,
                        dsp.sample_rate_hz \div PBE_DECIMATION))]

PbeDsp_Init(cutoff, high, db, rate) ==
    PbeDsp_SetGain(
        [crossover_left |-> CrossOver(cutoff, rate),
         crossover_right |-> CrossOver(cutoff, rate),
         bandpass |-> BandPass_Init(cutoff, high, rate \div PBE_DECIMATION),
         smoother |-> rate,
         speaker_cutoff_hz |-> cutoff,
         sample_rate_hz |-> rate,
         gain_db |-> db],
        db)

PbeDsp_SetBandPassHighCutoff(dsp, high) ==
    [dsp EXCEPT !.bandpass = BandPass_SetHighCutoff(@, high)]

RetuneCutoff(dsp, cutoff) ==
    [dsp EXCEPT
        !.speaker_cutoff_hz = cutoff,
        !.crossover_left = CrossOver(cutoff, dsp.sample_rate_hz),
        !.crossover_right = CrossOver(cutoff, dsp.sample_rate_hz),
        !.bandpass = BandPass_SetLowCutoff(@, cutoff)]

\* The normalization depends on the cutoff, so the gain is set again.
PbeDsp_SetSpeakerCutoff(dsp, cutoff) ==
    PbeDsp_SetGain(RetuneCutoff(dsp, cutoff), dsp.gain_db)
===============================================================================
