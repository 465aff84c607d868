------------------------------- MODULE AudioPath -------------------------------
(***************************************************************************)
(* cplug_process and the engine it drives: plugin.c composed with Engine,  *)
(* whose actions are taken as they are.  In each call the audio thread     *)
(* stores the GUI's edits, then takes the host's events one at a time,     *)
(* storing automation and processing the audio between, a chunk of the     *)
(* engine's buffer at a time; before each stretch of audio it reads the    *)
(* parameter values one by one and passes them to the engine               *)
(* (apply_params), while the main thread may be storing a preset's values  *)
(* one by one.                                                             *)
(*                                                                         *)
(* The plugin wrapper is external: dequeueEvent yields the parameter events*)
(* that are due at the current frame, then a stretch of audio up to the    *)
(* next event or the end of the block.                                     *)
(*                                                                         *)
(* OnceABlock and ForgetsHigh are bugs to put in place of the definitions  *)
(* that follow them.                                                       *)
(***************************************************************************)
EXTENDS Engine, Sequences, SequencesExt

CONSTANTS Off,      \* least value of the gain parameter, which reads "Off"
          HostPlans \* the blocks a host may pass, with their automation

VARIABLES
    values,  \* plugin.c:22
    audio,   \* audio thread: where in cplug_process it is
    plan,    \* the host's block: its length and its events
    due,     \* events not yet dequeued
    frame,   \* cplug_process' frame
    end,     \* end of the stretch being processed
    base,    \* ghost: the values when the host's events began
    touched, \* ghost: parameters the main thread stored during this block
    heard    \* ghost: for each frame processed, the tuning it was processed with

engine == <<settings, buffers, dsp, call>>
block == <<plan, due, frame, end, base, touched, heard>>
pathVars == <<engine, values, audio, block>>

Params == {"gain", "cutoff", "high"}
Plain(p) == IF p = "gain" THEN {v \in Gains : v >= Off} ELSE Cutoffs
Events == [time : Nat, param : Params, value : Int]

ASSUME OffAssumption == Off \in Int /\ OffDb \in Gains

ASSUME PlanAssumption ==
    \A p \in HostPlans :
        /\ p.n \in Nat /\ p.events \in Seq(Events)
        /\ \A i \in DOMAIN p.events :
              /\ p.events[i].value \in Plain(p.events[i].param)
              /\ p.n > 0 => p.events[i].time < p.n
              /\ p.n = 0 => p.events[i].time = 0
              /\ \A j \in 1 .. i : p.events[j].time <= p.events[i].time

\* Param_GainDb
GainDb(plain) == IF plain <= Off THEN OffDb ELSE plain

NoPlan == [n |-> 0, events |-> <<>>]

\* cplug_createPlugin
PathInit ==
    /\ Init
    /\ \E gain \in Plain("gain") :
          /\ gain_db = GainDb(gain)
          /\ values = [gain |-> gain, cutoff |-> speaker_cutoff_hz,
                       high |-> bandpass_high_hz]
    /\ audio = "idle" /\ plan = NoPlan /\ due = <<>>
    /\ frame = 0 /\ end = 0
    /\ base = <<>> /\ touched = {} /\ heard = <<>>

-------------------------------------------------------------------------------
(* Main thread *)

\* One value of a state being loaded, or a controller edit.
MainStore(p, v) ==
    /\ audio # "destroyed"
    /\ values[p] # v
    /\ values' = [values EXCEPT ![p] = v]
    /\ touched' = IF audio = "idle" THEN touched ELSE touched \cup {p}
    /\ UNCHANGED <<engine, audio, plan, due, frame, end, base, heard>>

\* cplug_setSampleRateAndBlockSize, while the host is not processing.
SetSampleRateAndBlockSize ==
    /\ audio = "idle"
    /\ (\E rate \in Rates, n \in Blocks : Prepare(rate, n)) \/ PrepareFails
    /\ UNCHANGED <<values, audio, block>>

DestroyPlugin ==
    /\ audio = "idle"
    /\ Release
    /\ audio' = "destroyed"
    /\ UNCHANGED <<values, block>>

Destroyed == audio = "destroyed" /\ UNCHANGED pathVars

-------------------------------------------------------------------------------
(* Audio thread: cplug_process *)

BlockBegin(p) ==
    /\ audio = "idle"
    /\ audio' = "drain"
    /\ plan' = p /\ due' = p.events
    /\ UNCHANGED <<engine, values, frame, end, base, touched, heard>>

\* drain_gui_queue
DrainStore(p, v) ==
    /\ audio = "drain"
    /\ values[p] # v
    /\ values' = [values EXCEPT ![p] = v]
    /\ UNCHANGED <<engine, audio, block>>

DrainEnd ==
    /\ audio = "drain"
    /\ audio' = "events"
    /\ base' = values /\ touched' = {}
    /\ UNCHANGED <<engine, values, plan, due, frame, end, heard>>

\* dequeueEvent: a parameter change that is due ...
ParamDue == due # <<>> /\ Head(due).time <= frame

Automation ==
    /\ audio = "events" /\ ParamDue
    /\ values' = [values EXCEPT ![Head(due).param] = Head(due).value]
    /\ due' = Tail(due)
    /\ UNCHANGED <<engine, audio, plan, frame, end, base, touched, heard>>

\* ... or audio up to the next event ...
StretchEnd == IF due = <<>> THEN plan.n ELSE Head(due).time

OnceABlock == IF frame = 0 THEN "gain" ELSE "process"
ApplyFirst == "gain"

AudioBegin ==
    /\ audio = "events" /\ ~ParamDue /\ frame < plan.n
    /\ end' = StretchEnd
    /\ audio' = ApplyFirst
    /\ UNCHANGED <<engine, values, plan, due, frame, base, touched, heard>>

\* ... or nothing more.
BlockEnd ==
    /\ audio = "events" /\ ~ParamDue /\ frame = plan.n
    /\ audio' = "idle"
    /\ plan' = NoPlan /\ frame' = 0 /\ end' = 0
    /\ base' = <<>> /\ touched' = {} /\ heard' = <<>>
    /\ UNCHANGED <<engine, values, due>>

\* apply_params reads one value and passes it to the engine, which ignores a
\* value it already has, and goes on.
Apply(from, set, same, to) ==
    /\ audio = from
    /\ set \/ (same /\ UNCHANGED engine)
    /\ audio' = to
    /\ UNCHANGED <<values, block>>

ApplyGain == Apply("gain", SetGain(GainDb(values.gain)),
                   gain_db = GainDb(values.gain), "cutoff")

ApplyCutoff == Apply("cutoff", SetSpeakerCutoff(values.cutoff),
                     speaker_cutoff_hz = values.cutoff, "high")

ForgetsHigh == audio = "high" /\ audio' = "process" /\ UNCHANGED <<engine, values, block>>
ApplyHigh == Apply("high", SetBandpassHigh(values.high),
                   bandpass_high_hz = values.high, "process")

Bypass == <<>>
Tuning == [gain |-> dsp.gain_db, cutoff |-> dsp.speaker_cutoff_hz,
           high |-> dsp.bandpass.high_cutoff_hz]
Hear(n, how) == heard' = heard \o [i \in 1 .. n |-> how]

\* Engine_Process on frames frame .. end - 1: unprepared, it passes them through ...
Passthrough ==
    /\ audio = "process" /\ ~prepared
    /\ Hear(end - frame, Bypass)
    /\ frame' = end
    /\ audio' = "events"
    /\ UNCHANGED <<engine, values, plan, due, end, base, touched>>

\* ... else it takes them chunk by chunk.
EngineBegin ==
    /\ audio = "process"
    /\ ProcessBegin(end - frame)
    /\ audio' = "chunks"
    /\ UNCHANGED <<values, block>>

EngineChunk ==
    /\ audio = "chunks"
    /\ ProcessChunk
    /\ Hear(Chunk, Tuning)
    /\ UNCHANGED <<values, audio, plan, due, frame, end, base, touched>>

EngineReturn ==
    /\ audio = "chunks"
    /\ ProcessEnd
    /\ frame' = end
    /\ audio' = "events"
    /\ UNCHANGED <<values, plan, due, end, base, touched, heard>>

-------------------------------------------------------------------------------
AudioStep == DrainEnd \/ Automation \/ AudioBegin \/ BlockEnd
             \/ ApplyGain \/ ApplyCutoff \/ ApplyHigh
             \/ Passthrough \/ EngineBegin \/ EngineChunk \/ EngineReturn

PathNext == \/ \E p \in Params : \E v \in Plain(p) : MainStore(p, v) \/ DrainStore(p, v)
            \/ SetSampleRateAndBlockSize
            \/ DestroyPlugin \/ Destroyed
            \/ \E p \in HostPlans : BlockBegin(p)
            \/ AudioStep

PathSpec == PathInit /\ [][PathNext]_pathVars

\* A call to cplug_process runs to its end, and the host of a running transport
\* goes on passing blocks that hold audio.
FairPathSpec ==
    /\ PathSpec
    /\ WF_pathVars(AudioStep)
    /\ SF_pathVars(\E p \in HostPlans : p.n > 0 /\ BlockBegin(p))
-------------------------------------------------------------------------------
(* Correctness *)

\* The value parameter p has after the events of the block at the positions S.
After(p, S) ==
    LET changes == {i \in S : plan.events[i].param = p}
    IN IF changes = {} THEN base[p] ELSE plan.events[Max(changes)].value

\* The value automation alone gives p at frame f of the block.
Automated(p, f) == After(p, {i \in DOMAIN plan.events : plan.events[i].time <= f})

\* No frame is skipped or processed twice, however automation cuts the block into
\* stretches and the engine the stretches into chunks.
FramesOnce ==
    /\ audio # "chunks" => Len(heard) = frame
    /\ Len(heard) <= plan.n

\* The tuning frame f was processed with is what automation gave at that frame, as
\* far as the main thread kept out of it.
Accurate(how, f) ==
    /\ "gain" \notin touched => how.gain = GainDb(Automated("gain", f))
    /\ "cutoff" \notin touched => how.cutoff = Automated("cutoff", f)
    /\ {"cutoff", "high"} \cap touched = {} =>
          how.high = ClampHigh(Automated("cutoff", f), Automated("high", f))

\* "Sample-accurate loop: parameter events land between audio sub-blocks."
\* (plugin.c:184): an automation event is heard from its own frame on, neither
\* earlier nor later, on every parameter the main thread keeps out of, and on
\* frames each processed once.
SampleAccurate ==
    /\ FramesOnce
    /\ \A f \in 0 .. Len(heard) - 1 :
          heard[f + 1] # Bypass => Accurate(heard[f + 1], f)

Followed == /\ gain_db = GainDb(values.gain)
            /\ speaker_cutoff_hz = values.cutoff
            /\ bandpass_high_hz = values.high

\* A block that caught a preset half stored is an episode: once the parameters
\* rest, the engine of a plugin that lives on comes to run with all of them, for
\* good.
EngineFollows ==
    <>[][UNCHANGED values]_values => <>[](Followed \/ audio = "destroyed")
===============================================================================
