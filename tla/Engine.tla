-------------------------------- MODULE Engine --------------------------------
(***************************************************************************)
(* pbe-plugin/src/engine.c: the audio engine around the enhancer.  It      *)
(* remembers what it was last asked for, retunes the enhancer in place     *)
(* when that changes, and processes blocks of any length through a scratch *)
(* buffer of max_block frames.                                             *)
(*                                                                         *)
(* Prepare and Release are the main thread's, and the host calls them only *)
(* while it is not processing (engine.h:11, 33); the rest runs on the      *)
(* audio thread.                                                           *)
(*                                                                         *)
(* HighAsAsked, BlockAsAsked and WholeBlock are bugs to put in place of the*)
(* definitions that follow them (as is BandPass_SetHighLoud in DspTuning), *)
(* not parts of the model.                                                 *)
(***************************************************************************)
EXTENDS DspTuning

CONSTANTS Gains,    \* gain_db
          Cutoffs,  \* speaker_cutoff_hz and bandpass_high_hz
          Rates,    \* sample rates
          Blocks,   \* block sizes a host announces, 0 included
          Frames    \* block lengths a host passes to Engine_Process

ASSUME TuningAssumption == /\ Gains \subseteq Int /\ Cutoffs \subseteq Int
                           /\ Rates \subseteq Int /\ OffDb \in Int
ASSUME BlockAssumption == Blocks \subseteq Nat /\ Frames \subseteq Nat

VARIABLES gain_db, speaker_cutoff_hz, bandpass_high_hz, \* as last asked for
          sample_rate_hz,
          max_block,
          scratch,   \* frames the scratch buffer holds, 0 when there is none
          prepared,
          dsp,       \* the enhancer's tuning
          start,     \* Engine_Process: frames done ...
          n_frames   \* ... of this many; 0 between calls

settings == <<gain_db, speaker_cutoff_hz, bandpass_high_hz>>
buffers == <<sample_rate_hz, max_block, scratch, prepared>>
call == <<start, n_frames>>
vars == <<settings, buffers, dsp, call>>

\* clamp_bandpass_high
HighAsAsked(cutoff, high) == high
ClampHigh(cutoff, high) == IF high < cutoff THEN cutoff ELSE high

\* The block size Engine_Prepare settles on.
BlockAsAsked(block) == block
BlockSize(block) == IF block = 0 THEN 1 ELSE block

Idle == n_frames = 0

\* calloc and Engine_Init; the enhancer is all zeros until Engine_Prepare.
Init ==
    /\ gain_db \in Gains /\ speaker_cutoff_hz \in Cutoffs
    /\ bandpass_high_hz \in Cutoffs
    /\ sample_rate_hz = 0 /\ max_block = 0 /\ scratch = 0 /\ prepared = FALSE
    /\ dsp = PbeDsp_Init(0, 0, 0, 0)
    /\ start = 0 /\ n_frames = 0

-------------------------------------------------------------------------------
(* Main thread *)

\* Engine_Prepare with enough memory.
Prepare(rate, block) ==
    /\ Idle
    /\ max_block' = BlockSize(block)
    /\ scratch' = max_block'
    /\ sample_rate_hz' = rate
    /\ dsp' = PbeDsp_Init(speaker_cutoff_hz,
                          ClampHigh(speaker_cutoff_hz, bandpass_high_hz),
                          gain_db, rate)
    /\ prepared' = TRUE
    /\ UNCHANGED <<settings, call>>

\* Engine_Prepare when realloc fails: the old buffer is still there.
PrepareFails ==
    /\ Idle
    /\ prepared' = FALSE
    /\ UNCHANGED <<settings, sample_rate_hz, max_block, scratch, dsp, call>>

\* Engine_Release, when the plugin is destroyed.
Release ==
    /\ Idle
    /\ scratch' = 0 /\ max_block' = 0 /\ prepared' = FALSE
    /\ UNCHANGED <<settings, sample_rate_hz, dsp, call>>

-------------------------------------------------------------------------------
(* Audio thread *)

SetGain(db) ==
    /\ Idle
    /\ db # gain_db
    /\ gain_db' = db
    /\ dsp' = IF prepared THEN PbeDsp_SetGain(dsp, db) ELSE dsp
    /\ UNCHANGED <<speaker_cutoff_hz, bandpass_high_hz, buffers, call>>

\* The band's lower edge moves; its upper edge is kept from crossing it.
SetSpeakerCutoff(hz) ==
    /\ Idle
    /\ hz # speaker_cutoff_hz
    /\ speaker_cutoff_hz' = hz
    /\ dsp' = IF prepared
              THEN PbeDsp_SetBandPassHighCutoff(PbeDsp_SetSpeakerCutoff(dsp, hz),
                                                ClampHigh(hz, bandpass_high_hz))
              ELSE dsp
    /\ UNCHANGED <<gain_db, bandpass_high_hz, buffers, call>>

SetBandpassHigh(hz) ==
    /\ Idle
    /\ hz # bandpass_high_hz
    /\ bandpass_high_hz' = hz
    /\ dsp' = IF prepared
              THEN PbeDsp_SetBandPassHighCutoff(dsp, ClampHigh(speaker_cutoff_hz, hz))
              ELSE dsp
    /\ UNCHANGED <<gain_db, speaker_cutoff_hz, buffers, call>>

\* Engine_Process: an unprepared engine passes the audio through at once.
ProcessBegin(n) ==
    /\ Idle
    /\ prepared
    /\ start' = 0 /\ n_frames' = n
    /\ UNCHANGED <<settings, buffers, dsp>>

\* One turn of its loop: a chunk of at most max_block frames.
WholeBlock == n_frames - start
Chunk == IF n_frames - start > max_block THEN max_block ELSE n_frames - start

ProcessChunk ==
    /\ start < n_frames
    /\ start' = start + max_block
    /\ UNCHANGED <<n_frames, settings, buffers, dsp>>

ProcessEnd ==
    /\ ~Idle /\ start >= n_frames
    /\ start' = 0 /\ n_frames' = 0
    /\ UNCHANGED <<settings, buffers, dsp>>

-------------------------------------------------------------------------------
Configure == \/ \E rate \in Rates, block \in Blocks : Prepare(rate, block)
             \/ PrepareFails
             \/ Release
Adjust == \/ \E db \in Gains : SetGain(db)
          \/ \E hz \in Cutoffs : SetSpeakerCutoff(hz) \/ SetBandpassHigh(hz)
Process == ProcessChunk \/ ProcessEnd

Next == Configure \/ Adjust \/ (\E n \in Frames : ProcessBegin(n)) \/ Process

Spec == Init /\ [][Next]_vars
-------------------------------------------------------------------------------
(* Correctness *)

TypeOK ==
    /\ gain_db \in Gains
    /\ speaker_cutoff_hz \in Cutoffs /\ bandpass_high_hz \in Cutoffs
    /\ sample_rate_hz \in Rates \cup {0}
    /\ max_block \in Nat /\ scratch \in Nat
    /\ prepared \in BOOLEAN
    /\ start \in Nat /\ n_frames \in Nat

\* However the settings were reached, and whatever happened to the engine in
\* between, the enhancer is tuned exactly as one freshly initialised with them:
\* "All retune the DSP in place" (engine.h:38; pbe-dsp-test.c:251-267 tries one
\* setter once).
TunedAsFresh ==
    prepared => dsp = PbeDsp_Init(speaker_cutoff_hz,
                                  ClampHigh(speaker_cutoff_hz, bandpass_high_hz),
                                  gain_db, sample_rate_hz)

\* "The harmonics band is [speaker cutoff, bandpass high]; never let it invert"
\* (engine.c:7): the filters the enhancer runs, not only the settings.
BandNotInverted ==
    prepared => dsp.bandpass.hp.cutoff <= dsp.bandpass.lp.cutoff

\* A chunk of Engine_Process never leaves the scratch buffer, and is never
\* empty (engine.c:96-110): a host may pass more than the block size it
\* announced, and may have announced 0.
ChunkFitsScratch ==
    start < n_frames => Chunk \in 1 .. scratch

IndInv ==
    /\ TypeOK
    /\ TunedAsFresh
    /\ prepared => max_block >= 1 /\ scratch = max_block
    /\ ~Idle => prepared
===============================================================================
