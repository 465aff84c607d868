--------------------------- MODULE AudioPath_proofs ---------------------------
(***************************************************************************)
(* The engine, on its own and as cplug_process drives it: for every host,  *)
(* whatever blocks and automation it passes and whatever the main thread   *)
(* stores between two reads, the engine keeps what it promises on its own. *)
(* What it relies on is that it is only given gains and cutoffs that exist,*)
(* and stretches of no negative length (PathInv).                          *)
(***************************************************************************)
EXTENDS AudioPath, TLAPS

-------------------------------------------------------------------------------
(* Retuning in place: a setter applied to a freshly initialised enhancer   *)
(* gives the enhancer initialised with the new setting.                    *)

\* The records field by field, so that the provers need not look inside EXCEPT.
BandPassRecord(rate, high, gain, hp, lp) ==
    [sample_rate_hz |-> rate, high_cutoff_hz |-> high, gain |-> gain,
     hp |-> hp, lp |-> lp]
DspRecord(left, right, bandpass, smoother, cutoff, rate, db) ==
    [crossover_left |-> left, crossover_right |-> right, bandpass |-> bandpass,
     smoother |-> smoother, speaker_cutoff_hz |-> cutoff,
     sample_rate_hz |-> rate, gain_db |-> db]

GainFactor(db, cutoff, rate) ==
    IF db <= OffDb THEN Muted ELSE Factor(db, cutoff, rate \div PBE_DECIMATION)

\* What PbeDsp_Init leaves behind.
Tuned(cutoff, high, db, rate) ==
    DspRecord(CrossOver(cutoff, rate), CrossOver(cutoff, rate),
              BandPassRecord(rate \div PBE_DECIMATION, high,
                             GainFactor(db, cutoff, rate),
                             Highpass(cutoff, rate \div PBE_DECIMATION),
                             Lowpass(high, rate \div PBE_DECIMATION,
                                     GainFactor(db, cutoff, rate))),
              rate, cutoff, rate, db)

\* band-pass.c:74-89, on a record.
LEMMA BandPassSetters ==
    ASSUME NEW r, NEW h, NEW g, NEW hp, NEW lp, NEW x
    PROVE  /\ BandPass_SetLowCutoff(BandPassRecord(r, h, g, hp, lp), x)
                = BandPassRecord(r, h, g, Highpass(x, r), lp)
           /\ BandPass_SetHighCutoff(BandPassRecord(r, h, g, hp, lp), x)
                = BandPassRecord(r, x, g, hp, Lowpass(x, r, g))
           /\ BandPass_SetGain(BandPassRecord(r, h, g, hp, lp), x)
                = BandPassRecord(r, h, x, hp, Lowpass(h, r, x))
<1> DEFINE bp == BandPassRecord(r, h, g, hp, lp)
<1>1. bp.sample_rate_hz = r /\ bp.high_cutoff_hz = h /\ bp.gain = g
  BY DEF BandPassRecord
<1>2. BandPass_SetLowCutoff(bp, x) = [bp EXCEPT !.hp = Highpass(x, r)]
  BY <1>1 DEF BandPass_SetLowCutoff
<1>3. BandPass_SetHighCutoff(bp, x)
        = [[bp EXCEPT !.high_cutoff_hz = x] EXCEPT !.lp = Lowpass(x, r, g)]
  BY <1>1 DEF BandPass_SetHighCutoff
<1>4. BandPass_SetGain(bp, x)
        = [[bp EXCEPT !.gain = x] EXCEPT !.lp = Lowpass(h, r, x)]
  BY <1>1 DEF BandPass_SetGain
<1>5. /\ [bp EXCEPT !.hp = Highpass(x, r)] = BandPassRecord(r, h, g, Highpass(x, r), lp)
      /\ [bp EXCEPT !.high_cutoff_hz = x] = BandPassRecord(r, x, g, hp, lp)
      /\ [bp EXCEPT !.gain = x] = BandPassRecord(r, h, x, hp, lp)
  BY DEF BandPassRecord
<1>6. /\ [BandPassRecord(r, x, g, hp, lp) EXCEPT !.lp = Lowpass(x, r, g)]
            = BandPassRecord(r, x, g, hp, Lowpass(x, r, g))
      /\ [BandPassRecord(r, h, x, hp, lp) EXCEPT !.lp = Lowpass(h, r, x)]
            = BandPassRecord(r, h, x, hp, Lowpass(h, r, x))
  BY DEF BandPassRecord
<1> QED
  BY <1>2, <1>3, <1>4, <1>5, <1>6

\* pbe-dsp.c:36-66, on a record.
LEMMA DspSetters ==
    ASSUME NEW l, NEW r, NEW bp, NEW s, NEW c, NEW fs, NEW db, NEW x
    PROVE  /\ PbeDsp_SetGain(DspRecord(l, r, bp, s, c, fs, db), x)
                = DspRecord(l, r, BandPass_SetGain(bp, GainFactor(x, c, fs)),
                            s, c, fs, x)
           /\ PbeDsp_SetBandPassHighCutoff(DspRecord(l, r, bp, s, c, fs, db), x)
                = DspRecord(l, r, BandPass_SetHighCutoff(bp, x), s, c, fs, db)
           /\ RetuneCutoff(DspRecord(l, r, bp, s, c, fs, db), x)
                = DspRecord(CrossOver(x, fs), CrossOver(x, fs),
                            BandPass_SetLowCutoff(bp, x), s, x, fs, db)
<1> DEFINE d == DspRecord(l, r, bp, s, c, fs, db)
<1>1. d.bandpass = bp /\ d.speaker_cutoff_hz = c /\ d.sample_rate_hz = fs
  BY DEF DspRecord
<1>2. [d EXCEPT !.gain_db = x].bandpass = bp
  BY DEF DspRecord
<1>3. PbeDsp_SetGain(d, x)
        = [[d EXCEPT !.gain_db = x]
             EXCEPT !.bandpass = BandPass_SetGain(bp, GainFactor(x, c, fs))]
  BY <1>1, <1>2 DEF PbeDsp_SetGain, GainFactor
<1>4. PbeDsp_SetBandPassHighCutoff(d, x)
        = [d EXCEPT !.bandpass = BandPass_SetHighCutoff(bp, x)]
  BY <1>1 DEF PbeDsp_SetBandPassHighCutoff
<1>5. RetuneCutoff(d, x)
        = [[[[d EXCEPT !.speaker_cutoff_hz = x]
                EXCEPT !.crossover_left = CrossOver(x, fs)]
                EXCEPT !.crossover_right = CrossOver(x, fs)]
                EXCEPT !.bandpass = BandPass_SetLowCutoff(bp, x)]
  <2>1. [[[d EXCEPT !.speaker_cutoff_hz = x]
             EXCEPT !.crossover_left = CrossOver(x, fs)]
             EXCEPT !.crossover_right = CrossOver(x, fs)].bandpass = bp
    BY DEF DspRecord
  <2> QED
    BY <1>1, <2>1 DEF RetuneCutoff
<1> DEFINE gained == BandPass_SetGain(bp, GainFactor(x, c, fs))
           highed == BandPass_SetHighCutoff(bp, x)
           lowed == BandPass_SetLowCutoff(bp, x)
<1>6. PbeDsp_SetGain(d, x) = DspRecord(l, r, gained, s, c, fs, x)
  <2>1. [d EXCEPT !.gain_db = x] = DspRecord(l, r, bp, s, c, fs, x)
    BY DEF DspRecord
  <2>2. [DspRecord(l, r, bp, s, c, fs, x) EXCEPT !.bandpass = gained]
          = DspRecord(l, r, gained, s, c, fs, x)
    BY DEF DspRecord
  <2> QED
    BY <1>3, <2>1, <2>2
<1>7. PbeDsp_SetBandPassHighCutoff(d, x) = DspRecord(l, r, highed, s, c, fs, db)
  BY <1>4 DEF DspRecord
<1>8. RetuneCutoff(d, x)
        = DspRecord(CrossOver(x, fs), CrossOver(x, fs), lowed, s, x, fs, db)
  <2>1. [d EXCEPT !.speaker_cutoff_hz = x] = DspRecord(l, r, bp, s, x, fs, db)
    BY DEF DspRecord
  <2>2. [DspRecord(l, r, bp, s, x, fs, db) EXCEPT !.crossover_left = CrossOver(x, fs)]
          = DspRecord(CrossOver(x, fs), r, bp, s, x, fs, db)
    BY DEF DspRecord
  <2>3. [DspRecord(CrossOver(x, fs), r, bp, s, x, fs, db)
            EXCEPT !.crossover_right = CrossOver(x, fs)]
          = DspRecord(CrossOver(x, fs), CrossOver(x, fs), bp, s, x, fs, db)
    BY DEF DspRecord
  <2>4. [DspRecord(CrossOver(x, fs), CrossOver(x, fs), bp, s, x, fs, db)
            EXCEPT !.bandpass = lowed]
          = DspRecord(CrossOver(x, fs), CrossOver(x, fs), lowed, s, x, fs, db)
    BY DEF DspRecord
  <2> QED
    BY <1>5, <2>1, <2>2, <2>3, <2>4
<1> QED
  BY <1>6, <1>7, <1>8

\* PbeDsp_Init, which ends in PbeDsp_SetGain (pbe-dsp.c:10-34).
LEMMA InitTunes ==
    ASSUME NEW cutoff, NEW high, NEW db, NEW rate
    PROVE  PbeDsp_Init(cutoff, high, db, rate) = Tuned(cutoff, high, db, rate)
<1>1. PbeDsp_Init(cutoff, high, db, rate)
        = PbeDsp_SetGain(
            DspRecord(CrossOver(cutoff, rate), CrossOver(cutoff, rate),
              BandPassRecord(rate \div PBE_DECIMATION, high, Unity,
                Highpass(cutoff, rate \div PBE_DECIMATION),
                Lowpass(high, rate \div PBE_DECIMATION, Unity)),
              rate, cutoff, rate, db), db)
  BY DEF PbeDsp_Init, DspRecord, BandPass_Init, BandPassRecord
<1> QED
  BY <1>1, DspSetters, BandPassSetters DEF Tuned

\* pbe-dsp.c:36-52.
LEMMA GainRetunes ==
    ASSUME NEW cutoff, NEW high, NEW old, NEW db, NEW rate
    PROVE  PbeDsp_SetGain(PbeDsp_Init(cutoff, high, old, rate), db)
               = PbeDsp_Init(cutoff, high, db, rate)
  BY InitTunes, DspSetters, BandPassSetters DEF Tuned

\* pbe-dsp.c:54-56.
LEMMA HighRetunes ==
    ASSUME NEW cutoff, NEW old, NEW high, NEW db, NEW rate
    PROVE  PbeDsp_SetBandPassHighCutoff(PbeDsp_Init(cutoff, old, db, rate), high)
               = PbeDsp_Init(cutoff, high, db, rate)
  BY InitTunes, DspSetters, BandPassSetters DEF Tuned

\* pbe-dsp.c:58-66.
LEMMA CutoffRetunes ==
    ASSUME NEW old, NEW cutoff, NEW high, NEW db, NEW rate
    PROVE  PbeDsp_SetSpeakerCutoff(PbeDsp_Init(old, high, db, rate), cutoff)
               = PbeDsp_Init(cutoff, high, db, rate)
<1> DEFINE retuned == RetuneCutoff(PbeDsp_Init(old, high, db, rate), cutoff)
<1>1. PbeDsp_Init(old, high, db, rate).gain_db = db
  BY InitTunes DEF Tuned, DspRecord
<1>2. retuned = DspRecord(CrossOver(cutoff, rate), CrossOver(cutoff, rate),
                  BandPassRecord(rate \div PBE_DECIMATION, high,
                    GainFactor(db, old, rate),
                    Highpass(cutoff, rate \div PBE_DECIMATION),
                    Lowpass(high, rate \div PBE_DECIMATION,
                            GainFactor(db, old, rate))),
                  rate, cutoff, rate, db)
  BY InitTunes, DspSetters, BandPassSetters DEF Tuned
<1>3. PbeDsp_SetGain(retuned, db) = Tuned(cutoff, high, db, rate)
  BY <1>2, DspSetters, BandPassSetters DEF Tuned
<1> QED
  BY <1>1, <1>3, InitTunes DEF PbeDsp_SetSpeakerCutoff

-------------------------------------------------------------------------------
(* The engine on its own, for every set of gains, cutoffs, rates and lengths *)

LEMMA InitInv == Init => IndInv
<1> SUFFICES ASSUME Init PROVE IndInv
  OBVIOUS
<1>1. TypeOK
  BY DEF Init, TypeOK
<1>2. prepared = FALSE /\ Idle
  BY DEF Init, Idle
<1> QED
  BY <1>1, <1>2 DEF IndInv, TunedAsFresh

\* A call of any length, whatever lengths the Frames of Next are.
LEMMA CallInv ==
    ASSUME IndInv,
           \/ Configure
           \/ Adjust
           \/ \E n \in Nat : ProcessBegin(n)
           \/ Process
           \/ UNCHANGED vars
    PROVE  IndInv'
<1> USE BlockAssumption DEF IndInv, TypeOK, TunedAsFresh, Idle
<1>1. ASSUME NEW rate \in Rates, NEW size \in Blocks, Prepare(rate, size)
      PROVE  IndInv'
  BY <1>1 DEF Prepare, BlockSize, settings, call
<1>2. CASE PrepareFails
  BY <1>2 DEF PrepareFails, settings, call
<1>3. CASE Release
  BY <1>3 DEF Release, settings, call
<1>4. ASSUME NEW db \in Gains, SetGain(db) PROVE IndInv'
  BY <1>4, GainRetunes DEF SetGain, buffers, call
<1>5. ASSUME NEW hz \in Cutoffs, SetSpeakerCutoff(hz) PROVE IndInv'
  BY <1>5, CutoffRetunes, HighRetunes DEF SetSpeakerCutoff, buffers, call
<1>6. ASSUME NEW hz \in Cutoffs, SetBandpassHigh(hz) PROVE IndInv'
  BY <1>6, HighRetunes DEF SetBandpassHigh, buffers, call
<1>7. ASSUME NEW n \in Nat, ProcessBegin(n) PROVE IndInv'
  BY <1>7 DEF ProcessBegin, settings, buffers
<1>8. CASE ProcessChunk
  BY <1>8 DEF ProcessChunk, settings, buffers
<1>9. CASE ProcessEnd
  BY <1>9 DEF ProcessEnd, settings, buffers
<1>10. CASE UNCHANGED vars
  BY <1>10 DEF vars, settings, buffers, call
<1> QED
  BY <1>1, <1>2, <1>3, <1>4, <1>5, <1>6, <1>7, <1>8, <1>9, <1>10
     DEF Configure, Adjust, Process

LEMMA NextInv == IndInv /\ [Next]_vars => IndInv'
  BY CallInv, BlockAssumption DEF Next

THEOREM Invariance == Spec => []IndInv
  BY InitInv, NextInv, PTL DEF Spec

\* The enhancer's tuning depends on the current settings and sample rate only,
\* never on the history of calls (engine.c:20-62, pbe-dsp.c:36-66).
THEOREM HistoryIndependence == Spec => []TunedAsFresh
<1>1. IndInv => TunedAsFresh
  BY DEF IndInv
<1> QED
  BY <1>1, Invariance, PTL

\* The filters of the harmonics band never invert (engine.c:7-10).
THEOREM BandStaysUpright == Spec => []BandNotInverted
<1>1. ASSUME NEW c \in Int, NEW h \in Int, NEW db, NEW rate
      PROVE  /\ Tuned(c, h, db, rate).bandpass.hp.cutoff = c
             /\ Tuned(c, h, db, rate).bandpass.lp.cutoff = h
  BY DEF Tuned, DspRecord, BandPassRecord, Highpass, Lowpass
<1>2. IndInv => BandNotInverted
  <2> SUFFICES ASSUME IndInv, prepared
               PROVE  dsp.bandpass.hp.cutoff <= dsp.bandpass.lp.cutoff
    BY DEF BandNotInverted
  <2> DEFINE high == ClampHigh(speaker_cutoff_hz, bandpass_high_hz)
  <2>1. speaker_cutoff_hz \in Int /\ high \in Int /\ speaker_cutoff_hz <= high
    BY TuningAssumption DEF IndInv, TypeOK, ClampHigh
  <2>2. dsp = Tuned(speaker_cutoff_hz, high, gain_db, sample_rate_hz)
    BY InitTunes DEF IndInv, TunedAsFresh
  <2> HIDE DEF high
  <2> QED
    BY <2>1, <2>2, <1>1
<1> QED
  BY <1>2, Invariance, PTL

\* Engine_Process stays inside the scratch buffer for every block length
\* (engine.c:96-110).
THEOREM ScratchSuffices == Spec => []ChunkFitsScratch
<1>1. IndInv => ChunkFitsScratch
  BY DEF IndInv, TypeOK, ChunkFitsScratch, Chunk, Idle
<1> QED
  BY <1>1, Invariance, PTL

-------------------------------------------------------------------------------
(* The engine in the plugin *)

ValuesOK ==
    /\ DOMAIN values = Params
    /\ \A p \in Params : values[p] \in Plain(p)

DueOK ==
    /\ due \in Seq(Events)
    /\ \A i \in DOMAIN due : due[i].value \in Plain(due[i].param)

\* From where apply_params begins to where the engine returns.
InStretch == audio \in {"gain", "cutoff", "high", "process", "chunks"}

FramesOK ==
    /\ frame \in Nat /\ plan.n \in Nat
    /\ InStretch => end \in Nat /\ frame <= end

PathInv == ValuesOK /\ DueOK /\ FramesOK

-------------------------------------------------------------------------------
LEMMA GainDbIsGain == ASSUME NEW g \in Plain("gain")  PROVE GainDb(g) \in Gains
  BY OffAssumption DEF GainDb, Plain

LEMMA InitPathInv == PathInit => PathInv /\ IndInv
  <1> SUFFICES ASSUME PathInit  PROVE PathInv /\ IndInv
    OBVIOUS
  <1>1. IndInv
    BY InitInv DEF PathInit
  <1>2. speaker_cutoff_hz \in Cutoffs /\ bandpass_high_hz \in Cutoffs
    BY DEF PathInit, Init
  <1>3. ValuesOK
    BY <1>2 DEF PathInit, ValuesOK, Params, Plain
  <1>4. DueOK /\ FramesOK
    BY DEF PathInit, DueOK, FramesOK, InStretch, NoPlan
  <1> QED  BY <1>1, <1>3, <1>4 DEF PathInv

\* A value stored by any thread (plugin.c:118-124, 157, 189).
LEMMA StoreOK ==
    ASSUME ValuesOK, NEW p \in Params, NEW v \in Plain(p),
           values' = [values EXCEPT ![p] = v]
    PROVE  ValuesOK'
  BY DEF ValuesOK, Plain

\* An event dequeued.
LEMMA TailOK == ASSUME DueOK, due # <<>>, due' = Tail(due)  PROVE DueOK'
  <1>1. /\ Tail(due) \in Seq(Events) /\ DOMAIN Tail(due) = 1 .. Len(due) - 1
        /\ DOMAIN due = 1 .. Len(due) /\ Len(due) \in Nat
        /\ \A i \in 1 .. Len(due) - 1 : Tail(due)[i] = due[i + 1]
    BY DEF DueOK
  <1>2. \A i \in 1 .. Len(due) - 1 : i + 1 \in DOMAIN due
    BY <1>1
  <1> QED  BY <1>1, <1>2 DEF DueOK

\* The threads that store.
LEMMA StoresPathInv ==
    ASSUME PathInv, NEW p \in Params, NEW v \in Plain(p),
           MainStore(p, v) \/ DrainStore(p, v)
    PROVE  PathInv' /\ UNCHANGED vars
  <1>1. CASE MainStore(p, v)
    BY <1>1, StoreOK
       DEF MainStore, PathInv, DueOK, FramesOK, InStretch, engine, vars
  <1>2. CASE DrainStore(p, v)
    BY <1>2, StoreOK
       DEF DrainStore, PathInv, DueOK, FramesOK, InStretch, engine, block, vars
  <1> QED  BY <1>1, <1>2

\* The host's calls between blocks, and the next block.
LEMMA HostPathInv ==
    ASSUME PathInv,
           \/ SetSampleRateAndBlockSize \/ DestroyPlugin \/ Destroyed
           \/ \E p \in HostPlans : BlockBegin(p)
    PROVE  PathInv' /\ (Configure \/ UNCHANGED vars)
  <1>1. CASE SetSampleRateAndBlockSize
    BY <1>1 DEF SetSampleRateAndBlockSize, Configure, PathInv, ValuesOK, DueOK, FramesOK,
                InStretch, block
  <1>2. CASE DestroyPlugin
    BY <1>2 DEF DestroyPlugin, Configure, PathInv, ValuesOK, DueOK, FramesOK, InStretch, block
  <1>3. CASE Destroyed
    BY <1>3 DEF Destroyed, PathInv, ValuesOK, DueOK, FramesOK, InStretch, pathVars, block,
                engine, vars
  <1>4. ASSUME NEW p \in HostPlans, BlockBegin(p)
        PROVE  PathInv' /\ UNCHANGED vars
    <2>1. DueOK'
      BY <1>4, PlanAssumption DEF BlockBegin, DueOK
    <2>2. FramesOK'
      BY <1>4, PlanAssumption DEF BlockBegin, PathInv, FramesOK, InStretch
    <2> QED  BY <1>4, <2>1, <2>2 DEF BlockBegin, PathInv, ValuesOK, engine, vars
  <1> QED  BY <1>1, <1>2, <1>3, <1>4

\* The drain's end, automation, the stretches and the block's end.
LEMMA LoopPathInv ==
    ASSUME PathInv, DrainEnd \/ Automation \/ AudioBegin \/ BlockEnd
    PROVE  PathInv' /\ UNCHANGED vars
  <1>1. CASE DrainEnd
    BY <1>1 DEF DrainEnd, PathInv, ValuesOK, DueOK, FramesOK, InStretch, engine, vars
  <1>2. CASE Automation
    <2>1. due # <<>> /\ due' = Tail(due)
      BY <1>2 DEF Automation, ParamDue
    <2>2. Head(due) = due[1] /\ 1 \in DOMAIN due /\ Head(due) \in Events
      BY <2>1 DEF PathInv, DueOK
    <2>3. Head(due).param \in Params /\ Head(due).value \in Plain(Head(due).param)
      BY <2>2 DEF PathInv, DueOK, Events
    <2>4. ValuesOK'
      BY <1>2, <2>3, StoreOK DEF Automation, PathInv
    <2>5. DueOK'
      BY <2>1, TailOK DEF PathInv
    <2> QED  BY <1>2, <2>4, <2>5
             DEF Automation, PathInv, FramesOK, InStretch, engine, vars
  <1>3. CASE AudioBegin
    <2>1. StretchEnd \in Nat /\ frame <= StretchEnd
      <3>1. CASE due = <<>>
        BY <1>3, <3>1 DEF AudioBegin, StretchEnd, PathInv, FramesOK
      <3>2. CASE due # <<>>
        <4>1. Head(due) \in Events
          BY <3>2 DEF PathInv, DueOK
        <4>2. Head(due).time \in Nat /\ ~(Head(due).time <= frame)
          BY <1>3, <3>2, <4>1 DEF AudioBegin, ParamDue, Events
        <4> QED  BY <3>2, <4>2 DEF StretchEnd, PathInv, FramesOK
      <3> QED  BY <3>1, <3>2
    <2> QED  BY <1>3, <2>1
             DEF AudioBegin, PathInv, ValuesOK, DueOK, FramesOK, InStretch, engine, vars
  <1>4. CASE BlockEnd
    BY <1>4 DEF BlockEnd, NoPlan, PathInv, ValuesOK, DueOK, FramesOK, InStretch, engine, vars
  <1> QED  BY <1>1, <1>2, <1>3, <1>4

\* apply_params (plugin.c:171-174).
LEMMA ApplyPathInv ==
    ASSUME PathInv, ApplyGain \/ ApplyCutoff \/ ApplyHigh
    PROVE  PathInv' /\ (Adjust \/ UNCHANGED vars)
  <1>1. /\ GainDb(values.gain) \in Gains /\ values.cutoff \in Cutoffs
        /\ values.high \in Cutoffs
    BY GainDbIsGain DEF PathInv, ValuesOK, Params, Plain
  <1>2. PathInv'
    BY DEF ApplyGain, ApplyCutoff, ApplyHigh, Apply, PathInv, ValuesOK, DueOK, FramesOK,
           InStretch, block
  <1>3. Adjust \/ UNCHANGED vars
    BY <1>1 DEF ApplyGain, ApplyCutoff, ApplyHigh, Apply, Adjust, engine, vars
  <1> QED  BY <1>2, <1>3

\* The calls into Engine_Process (plugin.c:193-200).
LEMMA EnginePathInv ==
    ASSUME PathInv, Passthrough \/ EngineBegin \/ EngineChunk \/ EngineReturn
    PROVE  /\ PathInv'
           /\ \/ \E n \in Nat : ProcessBegin(n)
              \/ Process
              \/ UNCHANGED vars
  <1>1. CASE Passthrough
    BY <1>1 DEF Passthrough, PathInv, ValuesOK, DueOK, FramesOK, InStretch, engine, vars
  <1>2. CASE EngineBegin
    <2>1. end - frame \in Nat
      BY <1>2 DEF EngineBegin, PathInv, FramesOK, InStretch
    <2> QED  BY <1>2, <2>1
             DEF EngineBegin, PathInv, ValuesOK, DueOK, FramesOK, InStretch, block
  <1>3. CASE EngineChunk
    BY <1>3 DEF EngineChunk, Process, PathInv, ValuesOK, DueOK, FramesOK, InStretch
  <1>4. CASE EngineReturn
    BY <1>4 DEF EngineReturn, Process, PathInv, ValuesOK, DueOK, FramesOK, InStretch
  <1> QED  BY <1>1, <1>2, <1>3, <1>4

-------------------------------------------------------------------------------
\* Every step of the plugin that touches the engine is a call the engine may get.
LEMMA PathStep == PathInv /\ IndInv /\ [PathNext]_pathVars => PathInv' /\ IndInv'
  <1> SUFFICES ASSUME PathInv, IndInv, [PathNext]_pathVars  PROVE PathInv' /\ IndInv'
    OBVIOUS
  <1>1. ASSUME NEW p \in Params, NEW v \in Plain(p), MainStore(p, v) \/ DrainStore(p, v)
        PROVE  PathInv' /\ IndInv'
    BY <1>1, StoresPathInv, CallInv
  <1>2. CASE \/ SetSampleRateAndBlockSize \/ DestroyPlugin \/ Destroyed
             \/ \E p \in HostPlans : BlockBegin(p)
    BY <1>2, HostPathInv, CallInv
  <1>3. CASE DrainEnd \/ Automation \/ AudioBegin \/ BlockEnd
    BY <1>3, LoopPathInv, CallInv
  <1>4. CASE ApplyGain \/ ApplyCutoff \/ ApplyHigh
    BY <1>4, ApplyPathInv, CallInv
  <1>5. CASE Passthrough \/ EngineBegin \/ EngineChunk \/ EngineReturn
    BY <1>5, EnginePathInv, CallInv
  <1>6. CASE UNCHANGED pathVars
    <2>1. UNCHANGED vars
      BY <1>6 DEF pathVars, engine, vars
    <2>2. PathInv'
      BY <1>6 DEF pathVars, block, PathInv, ValuesOK, DueOK, FramesOK, InStretch
    <2> QED  BY <2>1, <2>2, CallInv
  <1> QED  BY <1>1, <1>2, <1>3, <1>4, <1>5, <1>6 DEF PathNext, AudioStep

\* The engine's inductive invariant survives the plugin: every gain, cutoff and length
\* cplug_process makes up is one the engine may be given (plugin.c:171-203).
THEOREM PathInvariance == PathSpec => []IndInv
  <1>1. PathSpec => [](PathInv /\ IndInv)
    BY InitPathInv, PathStep, PTL DEF PathSpec
  <1> QED  BY <1>1, PTL

\* Whatever presets and automation do, between whichever reads, the enhancer is tuned
\* as one freshly initialised with what the engine was last told (plugin.c:171-174,
\* engine.c:34-62).
THEOREM PathTunes == PathSpec => []TunedAsFresh
  <1>1. IndInv => TunedAsFresh
    BY DEF IndInv
  <1> QED  BY <1>1, PathInvariance, PTL

\* Every stretch between two events fits the scratch buffer chunk by chunk, for every
\* host and every automation (plugin.c:193-200, engine.c:96-110).
THEOREM PathFitsScratch == PathSpec => []ChunkFitsScratch
  <1>1. IndInv => ChunkFitsScratch
    BY DEF IndInv, TypeOK, ChunkFitsScratch, Chunk, Idle
  <1> QED  BY <1>1, PathInvariance, PTL

-------------------------------------------------------------------------------
(* The frames of a block *)

\* In the engine's loop the frames heard are those the finished chunks covered; the
\* last chunk may leave start beyond the stretch (engine.c:96-110).
Covered == IF start < n_frames THEN start ELSE n_frames

Counted ==
    /\ \E S : heard \in Seq(S)
    /\ \A i \in DOMAIN due : due[i].time <= plan.n
    /\ frame <= plan.n
    /\ audio \in {"idle", "drain", "destroyed"} => frame = 0
    /\ InStretch => frame < end /\ end <= plan.n
    /\ audio # "chunks" => Idle /\ Len(heard) = frame
    /\ audio = "chunks" => n_frames = end - frame /\ Len(heard) = frame + Covered

FrameInv == PathInv /\ IndInv /\ Counted

LEMMA HearCounts ==
    ASSUME NEW S, heard \in Seq(S), NEW n \in Nat, NEW how, Hear(n, how)
    PROVE  (\E T : heard' \in Seq(T)) /\ Len(heard') = Len(heard) + n
  <1> DEFINE more == [i \in 1 .. n |-> how]
             T == S \cup {how}
  <1>1. more \in Seq(T) /\ Len(more) = n
    OBVIOUS
  <1>2. heard \in Seq(T)
    OBVIOUS
  <1> HIDE DEF more, T
  <1>3. heard \o more \in Seq(T) /\ Len(heard \o more) = Len(heard) + Len(more)
    BY <1>1, <1>2
  <1> QED  BY <1>1, <1>3 DEF Hear, more

LEMMA InitCounted == PathInit => Counted
  BY DEF PathInit, Init, Counted, Idle, NoPlan, InStretch

\* What is neither a block's loop nor the engine's leaves the count alone.
LEMMA OutsideCounted ==
    ASSUME FrameInv,
           \/ \E p \in Params : \E v \in Plain(p) : MainStore(p, v) \/ DrainStore(p, v)
           \/ SetSampleRateAndBlockSize \/ DestroyPlugin \/ Destroyed
           \/ ApplyGain \/ ApplyCutoff \/ ApplyHigh
           \/ UNCHANGED pathVars
    PROVE  Counted'
  <1> USE DEF FrameInv, Counted, InStretch, Idle, Covered, call
  <1>1. ASSUME NEW p \in Params, NEW v \in Plain(p), MainStore(p, v) \/ DrainStore(p, v)
        PROVE  Counted'
    BY <1>1 DEF MainStore, DrainStore, engine, block
  <1>2. CASE SetSampleRateAndBlockSize
    BY <1>2 DEF SetSampleRateAndBlockSize, Prepare, PrepareFails, block
  <1>3. CASE DestroyPlugin
    BY <1>3 DEF DestroyPlugin, Release, block
  <1>4. CASE ApplyGain
    BY <1>4 DEF ApplyGain, Apply, SetGain, engine, block
  <1>5. CASE ApplyCutoff
    BY <1>5 DEF ApplyCutoff, Apply, SetSpeakerCutoff, engine, block
  <1>6. CASE ApplyHigh
    BY <1>6 DEF ApplyHigh, Apply, SetBandpassHigh, engine, block
  <1>7. CASE Destroyed \/ UNCHANGED pathVars
    BY <1>7 DEF Destroyed, pathVars, engine, block
  <1> QED  BY <1>1, <1>2, <1>3, <1>4, <1>5, <1>6, <1>7

\* The loop over the host's events (plugin.c:184-203).
LEMMA LoopCounted ==
    ASSUME FrameInv,
           \/ \E p \in HostPlans : BlockBegin(p)
           \/ DrainEnd \/ Automation \/ AudioBegin \/ BlockEnd
    PROVE  Counted'
  <1> USE DEF FrameInv, Counted, InStretch, Idle, Covered, call
  <1>1. ASSUME NEW p \in HostPlans, BlockBegin(p)  PROVE Counted'
    <2>1. \A i \in DOMAIN p.events : p.events[i].time <= p.n
      <3>1. ASSUME NEW i \in DOMAIN p.events  PROVE p.events[i].time <= p.n
        <4>1. p.n \in Nat /\ p.events[i] \in Events
          BY PlanAssumption
        <4>2. p.events[i].time \in Nat
          BY <4>1 DEF Events
        <4>3. /\ p.n > 0 => p.events[i].time < p.n
              /\ p.n = 0 => p.events[i].time = 0
          BY PlanAssumption
        <4> QED  BY <4>1, <4>2, <4>3
      <3> QED  BY <3>1
    <2>2. p.n \in Nat
      BY PlanAssumption
    <2> QED  BY <1>1, <2>1, <2>2 DEF BlockBegin, engine
  <1>2. CASE DrainEnd
    BY <1>2 DEF DrainEnd, engine
  <1>3. CASE Automation
    <2>1. due # <<>> /\ due' = Tail(due)
      BY <1>3 DEF Automation, ParamDue
    <2>2. /\ DOMAIN Tail(due) = 1 .. Len(due) - 1 /\ DOMAIN due = 1 .. Len(due)
          /\ Len(due) \in Nat /\ \A i \in 1 .. Len(due) - 1 : Tail(due)[i] = due[i + 1]
      BY <2>1 DEF PathInv, DueOK
    <2>3. \A i \in 1 .. Len(due) - 1 : i + 1 \in DOMAIN due
      BY <2>2
    <2>4. \A i \in DOMAIN due' : due'[i].time <= plan.n
      BY <2>1, <2>2, <2>3
    <2> QED  BY <1>3, <2>4 DEF Automation, engine
  <1>4. CASE AudioBegin
    <2>1. frame < StretchEnd /\ StretchEnd <= plan.n
      <3>1. CASE due = <<>>
        BY <1>4, <3>1 DEF AudioBegin, StretchEnd, PathInv, FramesOK
      <3>2. CASE due # <<>>
        <4>1. Head(due) = due[1] /\ 1 \in DOMAIN due /\ Head(due) \in Events
          BY <3>2 DEF PathInv, DueOK
        <4>2. Head(due).time \in Nat /\ ~(Head(due).time <= frame)
          BY <1>4, <3>2, <4>1 DEF AudioBegin, ParamDue, Events
        <4> QED  BY <3>2, <4>1, <4>2 DEF StretchEnd, PathInv, FramesOK
      <3> QED  BY <3>1, <3>2
    <2> QED  BY <1>4, <2>1 DEF AudioBegin, ApplyFirst, engine
  <1>5. CASE BlockEnd
    <2>1. due = <<>>
      <3>1. SUFFICES ASSUME due # <<>>  PROVE FALSE
        OBVIOUS
      <3>2. Head(due) = due[1] /\ 1 \in DOMAIN due
        BY <3>1 DEF PathInv, DueOK
      <3> QED  BY <1>5, <3>1, <3>2 DEF BlockEnd, ParamDue
    <2>2. heard' = <<>> /\ Len(<<>>) = 0 /\ <<>> \in Seq({})
      BY <1>5 DEF BlockEnd
    <2> QED  BY <1>5, <2>1, <2>2 DEF BlockEnd, NoPlan, engine
  <1> QED  BY <1>1, <1>2, <1>3, <1>4, <1>5

\* Engine_Process, chunk by chunk.
LEMMA EngineCounted ==
    ASSUME FrameInv, Passthrough \/ EngineBegin \/ EngineChunk \/ EngineReturn
    PROVE  Counted'
  <1>1. PICK S : heard \in Seq(S)
    BY DEF FrameInv, Counted
  <1>2. /\ frame \in Nat /\ plan.n \in Nat /\ Len(heard) \in Nat
        /\ InStretch => end \in Nat /\ frame < end /\ end <= plan.n
        /\ start \in Nat /\ n_frames \in Nat /\ max_block \in Nat
    BY <1>1 DEF FrameInv, PathInv, FramesOK, IndInv, TypeOK, Counted
  <1>3. CASE Passthrough
    <2>1. end - frame \in Nat /\ InStretch
      BY <1>2, <1>3 DEF Passthrough, InStretch
    <2>2. (\E T : heard' \in Seq(T)) /\ Len(heard') = Len(heard) + (end - frame)
      BY <1>1, <1>3, <2>1, HearCounts DEF Passthrough
    <2> QED  BY <1>2, <1>3, <2>1, <2>2
             DEF Passthrough, FrameInv, Counted, InStretch, Idle, engine, call
  <1>4. CASE EngineBegin
    <2>1. end - frame \in Nat /\ end - frame > 0 /\ InStretch
      BY <1>2, <1>4 DEF EngineBegin, InStretch
    <2> QED  BY <1>2, <1>4, <2>1
             DEF EngineBegin, ProcessBegin, FrameInv, Counted, InStretch, Idle, Covered,
                 block
  <1>5. CASE EngineChunk
    <2>1. Chunk \in Nat /\ start < n_frames /\ start' = start + max_block
      BY <1>2, <1>5 DEF EngineChunk, ProcessChunk, Chunk
    <2>2. (\E T : heard' \in Seq(T)) /\ Len(heard') = Len(heard) + Chunk
      BY <1>1, <1>5, <2>1, HearCounts DEF EngineChunk
    <2>3. Covered' = Covered + Chunk /\ n_frames' = n_frames
      BY <1>2, <1>5, <2>1 DEF EngineChunk, ProcessChunk, Covered, Chunk
    <2>4. Covered \in Nat /\ Len(heard) = frame + Covered
      BY <1>2, <1>5 DEF EngineChunk, FrameInv, Counted, Covered
    <2>5. Len(heard') = frame' + Covered'
      BY <1>2, <1>5, <2>1, <2>2, <2>3, <2>4 DEF EngineChunk
    <2> QED  BY <1>2, <1>5, <2>2, <2>3, <2>5
             DEF EngineChunk, FrameInv, Counted, InStretch
  <1>6. CASE EngineReturn
    <2>1. Len(heard) = end /\ InStretch
      BY <1>2, <1>6 DEF EngineReturn, ProcessEnd, FrameInv, Counted, Covered, InStretch
    <2> QED  BY <1>1, <1>2, <1>6, <2>1
             DEF EngineReturn, ProcessEnd, FrameInv, Counted, InStretch, Idle
  <1> QED  BY <1>3, <1>4, <1>5, <1>6

LEMMA FrameStep == FrameInv /\ [PathNext]_pathVars => FrameInv'
  <1> SUFFICES ASSUME FrameInv, [PathNext]_pathVars  PROVE FrameInv'
    OBVIOUS
  <1>1. PathInv' /\ IndInv'
    BY PathStep DEF FrameInv
  <1>2. Counted'
    BY OutsideCounted, LoopCounted, EngineCounted DEF PathNext, AudioStep
  <1> QED  BY <1>1, <1>2 DEF FrameInv

LEMMA FramesCounted == FrameInv => FramesOnce
  <1> SUFFICES ASSUME FrameInv  PROVE Len(heard) <= plan.n
    BY DEF FrameInv, Counted, FramesOnce
  <1>1. CASE audio # "chunks"
    BY <1>1 DEF FrameInv, Counted
  <1>2. CASE audio = "chunks"
    BY <1>2 DEF FrameInv, Counted, Covered, InStretch, PathInv, FramesOK, IndInv, TypeOK
  <1> QED  BY <1>1, <1>2

\* cplug_process and the engine's loop together process every frame of a block once,
\* for every block, every automation and every block size (plugin.c:184-203,
\* engine.c:96-110).
THEOREM EveryFrameOnce == PathSpec => []FramesOnce
  <1>1. PathInit => FrameInv
    BY InitPathInv, InitCounted DEF FrameInv
  <1> QED  BY <1>1, FrameStep, FramesCounted, PTL DEF PathSpec

-------------------------------------------------------------------------------
(* What is heard at a frame *)

\* The events of the block dequeued so far are its first, those to come are what is
\* left in due; a stretch begins when no more are due and ends where the next one is.
Taken == Len(plan.events) - Len(due)
InLoop == audio = "events" \/ InStretch

EventsInv ==
    /\ plan \in HostPlans \cup {NoPlan}
    /\ Taken \in Nat
    /\ \A i \in DOMAIN due : due[i] = plan.events[Taken + i]
    /\ audio = "drain" => Taken = 0
    /\ InLoop => \A i \in 1 .. Taken : plan.events[i].time <= frame
    /\ InStretch => \A i \in Taken + 1 .. Len(plan.events) : end <= plan.events[i].time

\* A value the main thread kept out of is what the events dequeued made it ...
Current(p) == After(p, 1 .. Taken)
ValuesInv == InLoop => \A p \in Params \ touched : values[p] = Current(p)

\* ... and so is what apply_params has passed to the engine, once it has.
Applied ==
    /\ audio \in {"cutoff", "high", "process", "chunks"} /\ "gain" \notin touched
          => gain_db = GainDb(Current("gain"))
    /\ audio \in {"high", "process", "chunks"} /\ "cutoff" \notin touched
          => speaker_cutoff_hz = Current("cutoff")
    /\ audio \in {"process", "chunks"} /\ "high" \notin touched
          => bandpass_high_hz = Current("high")

HeardInv ==
    \A f \in 0 .. Len(heard) - 1 : heard[f + 1] # Bypass => Accurate(heard[f + 1], f)

AutomationInv == EventsInv /\ ValuesInv /\ Applied /\ HeardInv

LEMMA MaxIs ==
    ASSUME NEW S \in SUBSET Int, NEW m \in S, \A x \in S : x <= m
    PROVE  Max(S) = m
  <1>1. Max(S) \in S /\ \A x \in S : Max(S) >= x
    BY DEF Max
  <1>2. Max(S) \in Int /\ m \in Int /\ Max(S) <= m /\ m <= Max(S)
    BY <1>1
  <1> QED  BY <1>2

LEMMA PlanOK ==
    ASSUME plan \in HostPlans \cup {NoPlan}
    PROVE  /\ plan.events \in Seq(Events) /\ plan.n \in Nat
           /\ \A i, j \in DOMAIN plan.events :
                 j <= i => plan.events[j].time <= plan.events[i].time
           /\ \A i \in DOMAIN plan.events : plan.events[i].time \in Nat
  <1>1. CASE plan = NoPlan
    BY <1>1 DEF NoPlan
  <1>2. CASE plan \in HostPlans
    <2>1. plan.events \in Seq(Events) /\ plan.n \in Nat
      BY <1>2, PlanAssumption
    <2>2. ASSUME NEW i \in DOMAIN plan.events, NEW j \in DOMAIN plan.events, j <= i
          PROVE  plan.events[j].time <= plan.events[i].time
      <3>1. j \in 1 .. i
        BY <2>1, <2>2
      <3> QED  BY <1>2, <3>1, PlanAssumption
    <2>3. ASSUME NEW i \in DOMAIN plan.events  PROVE plan.events[i].time \in Nat
      <3>1. plan.events[i] \in Events
        BY <2>1
      <3> QED  BY <3>1 DEF Events
    <2> QED  BY <2>1, <2>2, <2>3
  <1> QED  BY <1>1, <1>2

\* Where the block's events are: those in due are its last.
LEMMA DueIsRest ==
    ASSUME PathInv, EventsInv
    PROVE  /\ Len(due) \in Nat /\ Len(plan.events) \in Nat /\ Taken \in Nat
           /\ Len(plan.events) = Taken + Len(due)
           /\ DOMAIN due = 1 .. Len(due) /\ DOMAIN plan.events = 1 .. Len(plan.events)
  BY PlanOK DEF PathInv, DueOK, EventsInv, Taken

\* Until the stretch ends the events up to a frame are those dequeued.
LEMMA StretchAutomated ==
    ASSUME PathInv, EventsInv, InStretch, NEW f \in Nat, frame <= f, f < end, NEW p
    PROVE  Automated(p, f) = Current(p)
  <1>1. /\ frame \in Nat /\ end \in Nat
        /\ \A i \in DOMAIN plan.events : plan.events[i].time \in Nat
    BY PlanOK DEF PathInv, FramesOK, EventsInv
  <1>2. {i \in DOMAIN plan.events : plan.events[i].time <= f} = 1 .. Taken
    <2>1. ASSUME NEW i \in 1 .. Taken
          PROVE  i \in DOMAIN plan.events /\ plan.events[i].time <= f
      <3>1. i \in DOMAIN plan.events
        BY DueIsRest
      <3>2. plan.events[i].time <= frame
        BY DEF EventsInv, InLoop
      <3> QED  BY <1>1, <3>1, <3>2
    <2>2. ASSUME NEW i \in DOMAIN plan.events, plan.events[i].time <= f
          PROVE  i \in 1 .. Taken
      <3>1. SUFFICES ASSUME i \in Taken + 1 .. Len(plan.events)  PROVE FALSE
        BY DueIsRest
      <3>2. end <= plan.events[i].time
        BY <3>1 DEF EventsInv
      <3> QED  BY <1>1, <2>2, <3>2
    <2> QED  BY <2>1, <2>2
  <1> QED  BY <1>2 DEF Automated, Current

\* One more event dequeued.
LEMMA OneMore ==
    ASSUME NEW k \in Nat, NEW p
    PROVE  After(p, 1 .. k + 1)
             = IF plan.events[k + 1].param = p THEN plan.events[k + 1].value
               ELSE After(p, 1 .. k)
  <1> DEFINE changes(n) == {i \in 1 .. n : plan.events[i].param = p}
  <1>1. CASE plan.events[k + 1].param = p
    <2>1. /\ k + 1 \in changes(k + 1) /\ \A i \in changes(k + 1) : i <= k + 1
          /\ changes(k + 1) \in SUBSET Int
      BY <1>1
    <2>2. After(p, 1 .. k + 1) = IF changes(k + 1) = {} THEN base[p]
                                ELSE plan.events[Max(changes(k + 1))].value
      BY DEF After
    <2> HIDE DEF changes
    <2>3. Max(changes(k + 1)) = k + 1 /\ changes(k + 1) # {}
      BY <2>1, MaxIs
    <2> QED  BY <1>1, <2>2, <2>3
  <1>2. CASE plan.events[k + 1].param # p
    <2>1. changes(k + 1) = changes(k)
      BY <1>2
    <2> QED  BY <1>2, <2>1 DEF After
  <1> QED  BY <1>1, <1>2

\* What automation gave depends on the block and what it began with only.
LEMMA SameAfter ==
    ASSUME UNCHANGED <<plan, base>>, NEW p, NEW S
    PROVE  After(p, S)' = After(p, S)
  <1>1. {i \in S : plan'.events[i].param = p} = {i \in S : plan.events[i].param = p}
    OBVIOUS
  <1> QED  BY <1>1 DEF After

LEMMA SameCurrent ==
    ASSUME UNCHANGED <<plan, base, due>>, NEW p
    PROVE  Current(p)' = Current(p)
  <1>1. Taken' = Taken
    BY DEF Taken
  <1>2. {i \in 1 .. Taken' : plan'.events[i].param = p}
          = {i \in 1 .. Taken : plan.events[i].param = p}
    BY <1>1
  <1> QED  BY <1>2 DEF Current, After

LEMMA SameAutomated ==
    ASSUME UNCHANGED <<plan, base>>, NEW p, NEW f
    PROVE  Automated(p, f)' = Automated(p, f)
  <1> DEFINE S == {i \in DOMAIN plan.events : plan.events[i].time <= f}
  <1>1. {i \in DOMAIN plan'.events : plan'.events[i].time <= f} = S
    OBVIOUS
  <1>2. {i \in S : plan'.events[i].param = p} = {i \in S : plan.events[i].param = p}
    OBVIOUS
  <1> HIDE DEF S
  <1> QED  BY <1>1, <1>2 DEF Automated, After, S

LEMMA SameHeard ==
    ASSUME HeardInv, UNCHANGED <<plan, base, heard>>, touched \subseteq touched'
    PROVE  HeardInv'
  <1>1. ASSUME NEW f \in 0 .. Len(heard) - 1, heard[f + 1] # Bypass
        PROVE  Accurate(heard[f + 1], f)'
    BY <1>1, SameAutomated DEF HeardInv, Accurate
  <1> QED  BY <1>1 DEF HeardInv, Bypass

LEMMA InitAutomation == PathInit => AutomationInv
  BY DEF PathInit, NoPlan, AutomationInv, EventsInv, Taken, ValuesInv, Applied, HeardInv,
         InLoop, InStretch

PathAll == FrameInv /\ AutomationInv

LEMMA OutsideBlock ==
    ASSUME FrameInv, audio \in {"idle", "drain", "destroyed"}
    PROVE  Len(heard) = 0 /\ ~ InLoop
  BY DEF FrameInv, Counted, InLoop, InStretch

\* The threads that store.
LEMMA StoresAutomation ==
    ASSUME PathAll, NEW p \in Params, NEW v \in Plain(p), MainStore(p, v) \/ DrainStore(p, v)
    PROVE  AutomationInv'
  <1> USE DEF PathAll, AutomationInv
  <1>1. CASE MainStore(p, v)
    <2>1. /\ UNCHANGED <<settings, audio, plan, due, frame, end, base, heard>>
          /\ values' = [values EXCEPT ![p] = v]
          /\ touched' = IF audio = "idle" THEN touched ELSE touched \cup {p}
      BY <1>1 DEF MainStore, engine
    <2>2. EventsInv'
      BY <2>1 DEF EventsInv, InLoop, InStretch, Taken
    <2>3. CASE audio = "idle"
      <3>1. Len(heard') = 0
        BY <2>1, <2>3, OutsideBlock
      <3>2. HeardInv'
        BY <3>1 DEF HeardInv
      <3> QED  BY <2>1, <2>2, <2>3, <3>2 DEF ValuesInv, Applied, InLoop, InStretch
    <2>4. CASE audio # "idle"
      <3>1. ValuesInv'
        BY <2>1, <2>4, SameCurrent DEF ValuesInv, InLoop, InStretch, FrameInv, PathInv, ValuesOK
      <3>2. Applied'
        BY <2>1, <2>4, SameCurrent DEF Applied, settings
      <3>3. HeardInv'
        BY <2>1, <2>4, SameHeard
      <3> QED  BY <2>2, <3>1, <3>2, <3>3
    <2> QED  BY <2>3, <2>4
  <1>2. CASE DrainStore(p, v)
    <2>1. audio = "drain" /\ audio' = "drain" /\ UNCHANGED block
      BY <1>2 DEF DrainStore
    <2> QED  BY <2>1, SameHeard
             DEF block, EventsInv, ValuesInv, Applied, InLoop, InStretch, Taken
  <1> QED  BY <1>1, <1>2

\* The host's calls between blocks, and the next block.
LEMMA HostAutomation ==
    ASSUME PathAll,
           \/ SetSampleRateAndBlockSize \/ DestroyPlugin \/ Destroyed
           \/ \E p \in HostPlans : BlockBegin(p)
           \/ UNCHANGED pathVars
    PROVE  AutomationInv'
  <1> USE DEF PathAll, AutomationInv
  <1>1. CASE SetSampleRateAndBlockSize \/ DestroyPlugin
    <2>1. /\ audio = "idle" /\ audio' \in {"idle", "destroyed"} /\ UNCHANGED block
      BY <1>1 DEF SetSampleRateAndBlockSize, DestroyPlugin
    <2> QED  BY <2>1, SameHeard
             DEF block, EventsInv, ValuesInv, Applied, InLoop, InStretch, Taken
  <1>2. CASE Destroyed \/ UNCHANGED pathVars
    <2>1. UNCHANGED <<settings, values, audio, plan, due, frame, end, base, touched, heard>>
      BY <1>2 DEF Destroyed, pathVars, engine, block
    <2>2. EventsInv'
      BY <2>1 DEF EventsInv, InLoop, InStretch, Taken
    <2>3. ValuesInv'
      BY <2>1, SameCurrent DEF ValuesInv, InLoop, InStretch
    <2>4. Applied'
      BY <2>1, SameCurrent DEF Applied, settings
    <2> QED  BY <2>1, <2>2, <2>3, <2>4, SameHeard
  <1>3. ASSUME NEW p \in HostPlans, BlockBegin(p)  PROVE AutomationInv'
    <2>1. /\ plan' = p /\ due' = p.events /\ audio' = "drain" /\ heard' = heard
          /\ audio = "idle"
      BY <1>3 DEF BlockBegin
    <2>2. p.events \in Seq(Events) /\ Len(p.events) \in Nat
      BY PlanAssumption
    <2>3. Taken' = 0
      BY <2>1, <2>2 DEF Taken
    <2>4. ~ InLoop' /\ ~ InStretch' /\ Len(heard') = 0
      BY <2>1, OutsideBlock DEF InLoop, InStretch
    <2>5. EventsInv'
      BY <2>1, <2>2, <2>3, <2>4 DEF EventsInv
    <2> QED  BY <2>1, <2>4, <2>5 DEF ValuesInv, Applied, HeardInv
  <1> QED  BY <1>1, <1>2, <1>3

\* The loop over the host's events (plugin.c:184-203).
LEMMA LoopAutomation ==
    ASSUME PathAll, DrainEnd \/ Automation \/ AudioBegin \/ BlockEnd
    PROVE  AutomationInv'
  <1> USE DEF PathAll, AutomationInv
  <1>1. CASE DrainEnd
    <2>1. /\ audio = "drain" /\ audio' = "events" /\ base' = values /\ touched' = {}
          /\ UNCHANGED <<values, plan, due, frame, end, heard>>
      BY <1>1 DEF DrainEnd
    <2>2. Taken = 0 /\ Taken' = 0 /\ ~ InStretch'
      BY <2>1 DEF EventsInv, Taken, InStretch
    <2>3. EventsInv'
      BY <2>1, <2>2 DEF EventsInv
    <2>4. ValuesInv'
      <3>1. ASSUME NEW p  PROVE Current(p)' = values'[p]
        <4>1. {i \in 1 .. Taken' : plan.events[i].param = p} = {}
          BY <2>2
        <4> QED  BY <2>1, <4>1 DEF Current, After
      <3> QED  BY <3>1 DEF ValuesInv
    <2>5. HeardInv'
      BY <2>1, OutsideBlock DEF HeardInv
    <2> QED  BY <2>1, <2>3, <2>4, <2>5 DEF Applied
  <1>2. CASE Automation
    <2> DEFINE e == plan.events[Taken + 1]
    <2>1. /\ audio = "events" /\ due # <<>> /\ Head(due).time <= frame
          /\ values' = [values EXCEPT ![Head(due).param] = Head(due).value]
          /\ due' = Tail(due)
          /\ UNCHANGED <<audio, plan, frame, end, base, touched, heard>>
      BY <1>2 DEF Automation, ParamDue
    <2>2. /\ Len(due) \in Nat \ {0} /\ DOMAIN due = 1 .. Len(due) /\ Head(due) = due[1]
          /\ Len(Tail(due)) = Len(due) - 1 /\ DOMAIN Tail(due) = 1 .. Len(due) - 1
          /\ \A i \in 1 .. Len(due) - 1 : Tail(due)[i] = due[i + 1]
      BY <2>1 DEF FrameInv, PathInv, DueOK
    <2>3. Head(due) = e /\ Taken \in Nat
      BY <2>2 DEF EventsInv
    <2>4. Taken' = Taken + 1
      BY <2>1, <2>2, DueIsRest DEF FrameInv, Taken
    <2>5. EventsInv'
      <3>1. \A i \in DOMAIN due' : due'[i] = plan'.events[Taken' + i]
        <4>1. SUFFICES ASSUME NEW i \in 1 .. Len(due) - 1
                       PROVE  due[i + 1] = plan.events[Taken + 1 + i]
          BY <2>1, <2>2, <2>4
        <4>2. i + 1 \in DOMAIN due /\ Taken + (i + 1) = Taken + 1 + i
          BY <2>2, <2>3
        <4> QED  BY <4>2 DEF EventsInv
      <3>2. \A i \in 1 .. Taken' : plan'.events[i].time <= frame'
        <4>1. ASSUME NEW i \in 1 .. Taken + 1  PROVE plan.events[i].time <= frame
          <5>1. CASE i = Taken + 1
            BY <2>1, <2>3, <5>1
          <5>2. CASE i \in 1 .. Taken
            BY <2>1, <5>2 DEF EventsInv, InLoop
          <5> QED  BY <2>3, <5>1, <5>2
        <4> QED  BY <2>1, <2>4, <4>1
      <3> QED  BY <2>1, <2>3, <2>4, <3>1, <3>2 DEF EventsInv, InStretch
    <2>6. ValuesInv'
      <3>1. ASSUME NEW p \in Params \ touched  PROVE values'[p] = Current(p)'
        <4>1. Current(p)' = After(p, 1 .. Taken + 1)
          BY <2>1, <2>4 DEF Current, After
        <4>2. Current(p)' = IF e.param = p THEN e.value ELSE Current(p)
          BY <2>3, <4>1, OneMore DEF Current
        <4>3. values'[p] = IF e.param = p THEN e.value ELSE values[p]
          BY <2>1, <2>3 DEF FrameInv, PathInv, ValuesOK
        <4>4. values[p] = Current(p)
          BY <2>1 DEF ValuesInv, InLoop
        <4> QED  BY <4>2, <4>3, <4>4
      <3> QED  BY <2>1, <3>1 DEF ValuesInv
    <2>7. Applied'
      BY <2>1 DEF Applied
    <2>8. HeardInv'
      BY <2>1, SameHeard
    <2> QED  BY <2>5, <2>6, <2>7, <2>8
  <1>3. CASE AudioBegin
    <2>1. /\ audio = "events" /\ audio' = "gain" /\ end' = StretchEnd
          /\ UNCHANGED <<values, plan, due, frame, base, touched, heard>>
      BY <1>3 DEF AudioBegin, ApplyFirst
    <2>2. \A i \in Taken + 1 .. Len(plan.events) : StretchEnd <= plan.events[i].time
      <3>1. SUFFICES ASSUME NEW i \in Taken + 1 .. Len(plan.events)
                     PROVE  StretchEnd <= plan.events[i].time
        OBVIOUS
      <3>2. /\ Taken + 1 \in DOMAIN plan.events /\ i \in DOMAIN plan.events
            /\ Taken + 1 <= i /\ 1 \in DOMAIN due /\ due # <<>>
        BY DueIsRest DEF FrameInv
      <3>3. due[1] = plan.events[Taken + 1]
        BY <3>2 DEF EventsInv
      <3>4. StretchEnd = plan.events[Taken + 1].time
        BY <3>2, <3>3 DEF StretchEnd, FrameInv, PathInv, DueOK
      <3> QED  BY <3>2, <3>4, PlanOK DEF EventsInv
    <2>3. EventsInv'
      BY <2>1, <2>2 DEF EventsInv, Taken, InLoop
    <2>4. ValuesInv'
      BY <2>1, SameCurrent DEF ValuesInv, InLoop
    <2>5. HeardInv'
      BY <2>1, SameHeard
    <2> QED  BY <2>1, <2>3, <2>4, <2>5 DEF Applied
  <1>4. CASE BlockEnd
    <2>1. /\ audio = "events" /\ ~ ParamDue /\ frame = plan.n
          /\ audio' = "idle" /\ plan' = NoPlan /\ heard' = <<>> /\ due' = due
      BY <1>4 DEF BlockEnd
    <2>2. due = <<>>
      <3>1. SUFFICES ASSUME due # <<>>  PROVE FALSE
        OBVIOUS
      <3>2. Head(due) = due[1] /\ 1 \in DOMAIN due
        BY <3>1 DEF FrameInv, PathInv, DueOK
      <3> QED  BY <2>1, <3>1, <3>2 DEF ParamDue, FrameInv, Counted
    <2>3. Len(NoPlan.events) = 0 /\ Len(due) = 0 /\ Len(<<>>) = 0 /\ DOMAIN due = {}
      BY <2>2 DEF NoPlan
    <2>4. Taken' = 0
      BY <2>1, <2>3 DEF Taken
    <2>5. EventsInv'
      BY <2>1, <2>2, <2>3, <2>4 DEF EventsInv, InLoop, InStretch
    <2> QED  BY <2>1, <2>3, <2>5 DEF ValuesInv, Applied, HeardInv, InLoop, InStretch
  <1> QED  BY <1>1, <1>2, <1>3, <1>4

\* apply_params (plugin.c:171-174): a value read is one the events made, unless the
\* main thread has stored it since.
LEMMA ApplyAutomation ==
    ASSUME PathAll, ApplyGain \/ ApplyCutoff \/ ApplyHigh
    PROVE  AutomationInv'
  <1> USE DEF PathAll, AutomationInv
  <1>1. /\ InStretch /\ InStretch' /\ UNCHANGED <<values, plan, due, frame, end, base, touched, heard>>
    BY DEF ApplyGain, ApplyCutoff, ApplyHigh, Apply, InStretch, block
  <1>2. EventsInv'
    BY <1>1 DEF EventsInv, InLoop, InStretch, Taken
  <1>3. ValuesInv'
    BY <1>1, SameCurrent DEF ValuesInv, InLoop
  <1>4. HeardInv'
    BY <1>1, SameHeard
  <1>5. /\ "gain" \notin touched => values.gain = Current("gain")
        /\ "cutoff" \notin touched => values.cutoff = Current("cutoff")
        /\ "high" \notin touched => values.high = Current("high")
    BY <1>1 DEF ValuesInv, InLoop, Params
  <1>6. Applied'
    <2>1. CASE ApplyGain
      <3>1. audio' = "cutoff" /\ gain_db' = GainDb(values.gain)
        BY <2>1 DEF ApplyGain, Apply, SetGain, engine, settings
      <3> QED  BY <1>1, <1>5, <3>1, SameCurrent DEF Applied
    <2>2. CASE ApplyCutoff
      <3>1. /\ audio = "cutoff" /\ audio' = "high" /\ speaker_cutoff_hz' = values.cutoff
            /\ gain_db' = gain_db
        BY <2>2 DEF ApplyCutoff, Apply, SetSpeakerCutoff, engine, settings
      <3> QED  BY <1>1, <1>5, <3>1, SameCurrent DEF Applied
    <2>3. CASE ApplyHigh
      <3>1. /\ audio = "high" /\ audio' = "process" /\ bandpass_high_hz' = values.high
            /\ UNCHANGED <<gain_db, speaker_cutoff_hz>>
        BY <2>3 DEF ApplyHigh, Apply, SetBandpassHigh, engine, settings
      <3> QED  BY <1>1, <1>5, <3>1, SameCurrent DEF Applied
    <2> QED  BY <2>1, <2>2, <2>3
  <1> QED  BY <1>2, <1>3, <1>4, <1>6

LEMMA HearAppends ==
    ASSUME NEW S, heard \in Seq(S), NEW n \in Nat, NEW how, Hear(n, how)
    PROVE  /\ Len(heard') = Len(heard) + n /\ Len(heard) \in Nat
           /\ \A i \in 1 .. Len(heard) : heard'[i] = heard[i]
           /\ \A i \in Len(heard) + 1 .. Len(heard) + n : heard'[i] = how
  <1> DEFINE more == [i \in 1 .. n |-> how]
             T == S \cup {how}
  <1>1. /\ more \in Seq(T) /\ Len(more) = n /\ heard \in Seq(T)
        /\ \A i \in 1 .. n : more[i] = how
    OBVIOUS
  <1>2. heard' = heard \o more
    BY DEF Hear
  <1> HIDE DEF more, T
  <1> QED  BY <1>1, <1>2

\* Frames heard at once are accurate together with those before.
LEMMA HearAccurate ==
    ASSUME HeardInv, UNCHANGED <<plan, base, touched>>,
           NEW S, heard \in Seq(S), NEW n \in Nat, NEW how, Hear(n, how),
           \A f \in Len(heard) .. Len(heard) + n - 1 :
               how # Bypass => Accurate(how, f)
    PROVE  HeardInv'
  <1>1. ASSUME NEW f \in 0 .. Len(heard) + n - 1, heard'[f + 1] # Bypass
        PROVE  Accurate(heard[f + 1], f)'
    <2>1. /\ Len(heard) \in Nat /\ f + 1 \in 1 .. Len(heard) + n
          /\ f < Len(heard) => heard'[f + 1] = heard[f + 1]
          /\ f >= Len(heard) => heard'[f + 1] = how
      BY HearAppends
    <2>2. PICK x : x = heard'[f + 1]
      OBVIOUS
    <2>3. Accurate(x, f)
      <3>1. CASE f < Len(heard)
        BY <1>1, <2>1, <2>2, <3>1 DEF HeardInv
      <3>2. CASE f >= Len(heard)
        <4>1. f \in Len(heard) .. Len(heard) + n - 1 /\ x = how /\ how # Bypass
          BY <1>1, <2>1, <2>2, <3>2
        <4> QED  BY <4>1
      <3> QED  BY <2>1, <3>1, <3>2
    <2> QED  BY <2>2, <2>3, SameAutomated DEF Accurate
  <1> QED  BY <1>1, HearAppends DEF HeardInv, Bypass

\* The engine runs with what it was last told.
LEMMA TuningIsSettings ==
    ASSUME IndInv, prepared
    PROVE  Tuning = [gain |-> gain_db, cutoff |-> speaker_cutoff_hz,
                     high |-> ClampHigh(speaker_cutoff_hz, bandpass_high_hz)]
  <1> DEFINE high == ClampHigh(speaker_cutoff_hz, bandpass_high_hz)
  <1>1. dsp = Tuned(speaker_cutoff_hz, high, gain_db, sample_rate_hz)
    BY InitTunes DEF IndInv, TunedAsFresh
  <1>2. ASSUME NEW c, NEW h, NEW db, NEW rate
        PROVE  /\ Tuned(c, h, db, rate).gain_db = db
               /\ Tuned(c, h, db, rate).speaker_cutoff_hz = c
               /\ Tuned(c, h, db, rate).bandpass.high_cutoff_hz = h
    BY DEF Tuned, DspRecord, BandPassRecord
  <1> HIDE DEF high
  <1>3. /\ dsp.gain_db = gain_db /\ dsp.speaker_cutoff_hz = speaker_cutoff_hz
        /\ dsp.bandpass.high_cutoff_hz = high
    BY <1>1, <1>2
  <1> QED  BY <1>3 DEF Tuning, high

\* So what it runs with is right for the whole stretch.
LEMMA TuningAccurate ==
    ASSUME PathAll, audio = "chunks", prepared, NEW f \in Nat, frame <= f, f < end
    PROVE  Accurate(Tuning, f)
  <1>1. \A p : Automated(p, f) = Current(p)
    BY StretchAutomated DEF PathAll, FrameInv, AutomationInv, InStretch
  <1>2. /\ Tuning.gain = gain_db /\ Tuning.cutoff = speaker_cutoff_hz
        /\ Tuning.high = ClampHigh(speaker_cutoff_hz, bandpass_high_hz)
    BY TuningIsSettings DEF PathAll, FrameInv
  <1>3. /\ "gain" \notin touched => gain_db = GainDb(Current("gain"))
        /\ "cutoff" \notin touched => speaker_cutoff_hz = Current("cutoff")
        /\ "high" \notin touched => bandpass_high_hz = Current("high")
    BY DEF PathAll, AutomationInv, Applied
  <1> QED  BY <1>1, <1>2, <1>3 DEF Accurate

\* The calls into Engine_Process (plugin.c:193-200).
LEMMA EngineAutomation ==
    ASSUME PathAll, Passthrough \/ EngineBegin \/ EngineChunk \/ EngineReturn
    PROVE  AutomationInv'
  <1> USE DEF PathAll, AutomationInv
  <1>1. PICK S : heard \in Seq(S)
    BY DEF FrameInv, Counted
  <1>2. /\ frame \in Nat /\ end \in Nat /\ frame < end /\ Len(heard) \in Nat
        /\ start \in Nat /\ n_frames \in Nat /\ max_block \in Nat /\ InStretch
        /\ UNCHANGED <<settings, values, plan, due, end, base, touched>>
    BY <1>1 DEF Passthrough, EngineBegin, EngineChunk, EngineReturn, FrameInv, PathInv,
                FramesOK, IndInv, TypeOK, Counted, InStretch, engine, block,
                ProcessBegin, ProcessChunk, ProcessEnd
  <1>3. /\ \A i \in 1 .. Taken : plan.events[i].time \in Nat /\ plan.events[i].time <= frame
        /\ \A i \in 1 .. Taken : plan.events[i].time <= end
    <2>1. ASSUME NEW i \in 1 .. Taken
          PROVE  plan.events[i].time \in Nat /\ plan.events[i].time <= frame
      BY <1>2, DueIsRest, PlanOK DEF FrameInv, EventsInv, InLoop
    <2> QED  BY <1>2, <2>1
  <1>4. ValuesInv'
    BY <1>2, SameCurrent DEF ValuesInv, InLoop
  <1>5. CASE Passthrough
    <2>1. audio' = "events" /\ frame' = end /\ end - frame \in Nat /\ Hear(end - frame, Bypass)
      BY <1>2, <1>5 DEF Passthrough
    <2>2. EventsInv'
      BY <1>2, <1>3, <2>1 DEF EventsInv, Taken, InStretch
    <2>3. HeardInv'
      BY <1>1, <1>2, <2>1, HearAccurate
    <2> QED  BY <1>4, <2>1, <2>2, <2>3 DEF Applied
  <1>6. CASE EngineBegin
    <2>1. audio = "process" /\ audio' = "chunks" /\ UNCHANGED <<frame, heard>>
      BY <1>6 DEF EngineBegin, block
    <2>2. EventsInv'
      BY <1>2, <2>1 DEF EventsInv, Taken, InLoop, InStretch
    <2>3. Applied'
      BY <1>2, <2>1, SameCurrent DEF Applied, settings
    <2>4. HeardInv'
      BY <1>2, <2>1, SameHeard
    <2> QED  BY <1>4, <2>2, <2>3, <2>4
  <1>7. CASE EngineChunk
    <2>1. /\ audio = "chunks" /\ audio' = "chunks" /\ frame' = frame /\ Hear(Chunk, Tuning)
          /\ start < n_frames
      BY <1>7 DEF EngineChunk, ProcessChunk
    <2>2. EventsInv'
      BY <1>2, <2>1 DEF EventsInv, Taken, InLoop, InStretch
    <2>3. Applied'
      BY <1>2, <2>1, SameCurrent DEF Applied, settings
    <2>4. /\ prepared /\ Chunk \in Nat /\ Len(heard) >= frame
          /\ Len(heard) + Chunk <= end
      <3>1. prepared
        BY <1>2, <2>1 DEF FrameInv, IndInv, Idle
      <3>2. n_frames = end - frame /\ Len(heard) = frame + start
        BY <1>2, <2>1 DEF FrameInv, Counted, Covered
      <3> QED  BY <1>2, <2>1, <3>1, <3>2 DEF Chunk
    <2>5. ASSUME NEW f \in Len(heard) .. Len(heard) + Chunk - 1  PROVE Accurate(Tuning, f)
      <3>1. f \in Nat /\ frame <= f /\ f < end
        BY <1>2, <2>4
      <3> QED  BY <2>1, <2>4, <3>1, TuningAccurate
    <2>6. HeardInv'
      BY <1>1, <1>2, <2>1, <2>4, <2>5, HearAccurate
    <2> QED  BY <1>4, <2>2, <2>3, <2>6
  <1>8. CASE EngineReturn
    <2>1. audio' = "events" /\ frame' = end /\ heard' = heard
      BY <1>8 DEF EngineReturn
    <2>2. EventsInv'
      BY <1>2, <1>3, <2>1 DEF EventsInv, Taken, InStretch
    <2>3. HeardInv'
      BY <1>2, <2>1, SameHeard
    <2> QED  BY <1>4, <2>1, <2>2, <2>3 DEF Applied
  <1> QED  BY <1>5, <1>6, <1>7, <1>8

\* An automation event is heard from its own frame on, neither earlier nor later, for
\* every block, every automation and every block size, on each parameter the main
\* thread keeps out of (plugin.c:171-203).
THEOREM AutomationOnTime == PathSpec => []SampleAccurate
  <1>1. PathInit => PathAll
    BY InitPathInv, InitCounted, InitAutomation DEF PathAll, FrameInv
  <1>2. PathAll /\ [PathNext]_pathVars => PathAll'
    <2> SUFFICES ASSUME PathAll, [PathNext]_pathVars  PROVE PathAll'
      OBVIOUS
    <2>1. FrameInv'
      BY FrameStep DEF PathAll
    <2>2. AutomationInv'
      BY StoresAutomation, HostAutomation, LoopAutomation, ApplyAutomation,
         EngineAutomation DEF PathNext, AudioStep
    <2> QED  BY <2>1, <2>2 DEF PathAll
  <1>3. PathAll => SampleAccurate
    BY FramesCounted DEF PathAll, AutomationInv, HeardInv, SampleAccurate
  <1> QED  BY <1>1, <1>2, <1>3, PTL DEF PathSpec
===============================================================================
