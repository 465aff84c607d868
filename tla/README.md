# PhantomBass: models, checks and proofs

PhantomBass is an audio plugin (VST3, AUv2, CLAP) that replaces bass a small
speaker cannot play by harmonics the ear hears as that bass.  This directory
holds TLA+ models of it, the TLC configurations that check them on small
instances, and TLAPS proofs of their main invariants for every instance.  Paths
below are relative to the repository; `plugin.c` and its neighbours are in
`pbe-plugin/src/`, the signal processing is in `pbe-dsp/`.

## 1. The system

| component | code | state | operations |
|---|---|---|---|
| parameter queue | `param-queue.h` | ring of 256 events, atomic `head` and `tail` | `Push` (GUI thread), `Pop` (audio thread) |
| plugin parameters, host calls | `plugin.c` | `values[]`, `gui_dirty_mask`, `gui_queue`, the engine | controller edits, state save and load, `cplug_process`, `send_gui_event`, gestures |
| editor and knobs | `gui/editor.c`, `gui/knob.c` | knob values, `dragging`, the active and the hovered knob, the last click, one dirty flag | mouse down, move, up, leave, double click, scroll, tick, resynchronise, paint |
| window and GUI thread | `gui/window-pugl.c` | world, view, canvas, thread, wishes of the host | create, set parent, show, scale, destroy; the thread's loop; Pugl events |
| parameter scales and text | `params.c` | none | clamp, normalise, denormalise, format, parse |
| saved state | `plugin.c:213-264` | the host's stream | save, load |
| audio engine | `engine.c` | settings, rate, block size, scratch buffer, the enhancer | prepare, release, three setters, process |
| enhancer | `pbe-dsp.c`, `band-pass.c`, `cross-over.c`, `full-wave-integrator.c`, `fixed-math.h` | filter coefficients and delays, decimator, interpolator, smoother | init, three setters, process a frame |
| canvas, fonts, GL loader | `gui/canvas*`, `gui/gl-loader*` | a NanoVG context | drawing |
| tools, tests, build | `tools/`, `tests/`, `scripts/`, CMake | - | - |

**How they meet.** Three threads share the plugin: the host's main thread, its
audio thread, and the GUI thread, which on macOS and Windows is the main thread.

- The host changes a parameter by a controller edit or a preset (main thread) or
  by automation (audio thread): `set_value` stores the value, then sets the
  parameter's bit in the dirty mask.
- The editor's tick, on the GUI thread, takes the whole mask and re-reads the
  knobs in it, except one that is being dragged.
- A knob sends BEGIN, UPDATE and END through the queue; the audio thread drains
  it at the top of each block, stores the values *without* setting the bit (the
  knob shows them already) and forwards the events to the host.  A VST3 host is
  told directly on the main thread instead, and the queue carries the values only.
- After the drain, `cplug_process` alternates between parameter events and
  sub-blocks of audio and pushes all three values into the engine before each.
- The engine cuts sub-blocks to its scratch buffer and retunes the enhancer.

**What makes it hard.** Lock-free sharing of the ring (which thread believes what
about the other's index); two routes for one value that can overtake each other
(mask and queue); gestures that must stay well-formed whatever the mouse, the
view and a full queue do; the end of a GUI thread whose objects the main thread
frees; setters whose coefficients depend on each other's inputs; blocks larger
than announced; streams that return less than was asked; feedback filters in
fixed point, where rounding and saturation feed back; a single dirty flag that three
places clear; hosts that refuse events.

**What correctness means, per component.**
Queue: a bounded FIFO channel; no slot touched by both threads.
Knobs: each agrees with its parameter or a change is on the way.
Gestures: per parameter `BEGIN (UPDATE)* END`.
Host: it ends up knowing every value the plugin has.
Editor: the picture catches up; hover and drag belong to one knob; a fine drag is fine.
Texts: a text typed back gives the value it was shown for.
Window: nothing outlives its owner; waiting ends; wishes are carried out.
State: a load applies the whole entries that arrived and nothing else.
Block: an event is heard from its own frame on.
Engine: tuning depends on the settings, not on how they were reached.
Enhancer: every sum fits its word; rounding does not accumulate; silence in, silence out.

## 2. Modules

| module | models | checked by |
|---|---|---|
| `EventChannel` | abstract specification: a bounded FIFO with a refusing push | refined by `ParamQueue` |
| `ParamQueue` | `param-queue.h`, one shared access per step | run `queue` |
| `PluginParams` | `plugin.c` values, mask and drain, composed with editor, knobs, three kinds of host and the queue as a channel | runs `knob_sync`, `drag_echo`, `cut_gesture` (instance `MCPluginParams`) |
| `ParamText` | `params.c`: table, clamping, scales, texts; the conversions by id of `plugin.c` | through `Editor` |
| `Editor` | `gui/editor.c`, `gui/knob.c` and their events from `window-pugl.c`: several knobs, hover, drag, wheel, repaint | run `editor` (`MCEditor`) |
| `GuiWindow` | `window-pugl.c`, both builds | runs `window`, `window_scale` |
| `DspTuning` | coefficient setters of the enhancer, as operators: a coefficient is the record of what it was computed from | through `Engine` |
| `Engine` | `engine.c` | through `AudioPath` |
| `AudioPath` | `cplug_process` and its event loop composed with `Engine`, whose actions it takes as they are (`EXTENDS Engine`) | run `audio_path` (`MCAudioPath`) |
| `StateChunk` | save and load | run `state_chunk` (`MCStateChunk`) |
| `FixedMath` | `fixed-math.h` at any scale | through the next two |
| `CrossOver` | one channel's crossover | run `crossover` (`MCCrossOver`) |
| `Enhancer` | the decimated bass path of `PbeDsp_ProcessFrame` | runs `enhancer`, `band_pass_error` (`MCEnhancer`) |
| `ParamQueue_proofs`, `PluginParams_proofs`, `Editor_proofs`, `GuiWindow_proofs`, `AudioPath_proofs` (and of `Engine`), `StateChunk_proofs`, `CrossOver_proofs`, `Enhancer_proofs` | theorems | TLAPS |

Definitions keep the source's names.  Operators such as `FullForgotten`, `NoJoin`
or `Truncated` are plausible bugs to be put in place of the definition after
them; each property of a passing run is violated by one of them (`PROJECT.json`,
`mutants`).  They are not part of any model.

**Grain of atomicity.** In `ParamQueue` each load and store of an index is a step,
and copying an event is two (begin and end), so a copy can be caught half-way;
the atomic indices order the rest.  `PluginParams` takes the queue as the
channel `ParamQueue` is proved to implement, and makes each access to `values`
and the mask a step: store, mark, exchange of the mask, re-read of each knob,
send.  `GuiWindow` makes each statement of the GUI thread a step, and each host
call up to the point where it waits.  `AudioPath` interleaves preset stores
between the three reads of `apply_params`, and takes the engine's chunks one by one.
`Editor`, `StateChunk`, `CrossOver` and `Enhancer` run on one thread: a step is a
window event with all that the code does for it, a call, a loop iteration or a sample.

**Abstractions.** In `PluginParams` a plain value is an integer and a knob has one
position per plain value: float rounding and the shape of the scales are left out,
clamping is not.  `ParamText` has the table's own ranges, in hundredths of a dB and
tenths of a Hz, and any rising scale `Scale` from a knob's positions to plain values
in place of the linear and logarithmic formulas; a text is the number it shows, in
units of its last digit, and whether it says `k` or `Off`.  In `Editor` lengths are whole
numbers, and values found by a tick and the place of the pointer are any input.
Lengths in `StateChunk` are bytes, contents are entries; NaN is a value of
its own.  Filter coefficients are records in `DspTuning` and integers in `CrossOver`
and `Enhancer`, where 1.0 is `FIXED_SCALE`, any even number for 2^30.  64-bit
sums are exact; 32-bit sums wrap (`Int32`) as the usual builds do where C leaves
it open.  `heard`, `base` and `touched` in `AudioPath`, `peak` in `CrossOver`, `steady`,
`misfit` and `cut` in `Editor`, `cut` and `before` in `StateChunk`, `doubt`, `broken` and `astray` in `PluginParams` are
ghosts that only properties read; `open` and `known` are the host's own view.

## 3. Runs

| run | question | result |
|---|---|---|
| `queue` | Is the ring a bounded FIFO channel, without races or torn events, and is every call answered? | holds |
| `knob_sync` | Do knobs, plugin and host agree under automation, edits, presets and every mouse handler on three threads and three kinds of host? | holds, up to named doors |
| `editor` | Is any repaint lost, is hover or drag left on the wrong knob, do gestures of two knobs get mixed up, do texts read back, is a fine drag fine? | holds |
| `window` | Does anything outlive a detach, does a detach hang, are visibility wishes honoured, on both builds and with failures? | holds |
| `audio_path` | Is automation heard from its frame on and every frame processed once, do chunks fit, is the enhancer tuned as a fresh one whatever the order of setters, prepare, failed prepare and release, and does the engine end with the values after a preset? | holds |
| `state_chunk` | Does a load apply exactly the whole entries that arrived, however the stream portions them? | holds |
| `crossover` | Is the lowpass never louder than its input when retuned, and does it come to rest where it should? | holds |
| `enhancer` | Does the enhancement die away after the last sound, in spite of rounding in its feedback, and does the decimator keep within its word? | holds |
| `drag_echo` | "A knob being dragged already shows the newest value" (`editor.c:63`) | violated |
| `cut_gesture` | "BeginGesture, any number of Set..., EndGesture" (`plugin.h:20`) | violated |
| `window_scale` | "Only honoured at view creation for now" (`window-pugl.c:295`) | violated |
| `band_pass_error` | "the rounding error `err` (\|err\| < 2^27) is fed back" (`band-pass.c:48`) | violated |

### The three doors of `KnobsCoherent`

A knob of an open view shows the value the plugin has or is about to have, unless
a change is still on its way.  The ghost `doubt` marks the only exceptions:

1. an UPDATE refused by the full queue, whose result nobody looks at (`plugin.c:304`);
2. a change taken from the mask while its knob was dragged with no edit in flight
   (`editor.c:65`);
3. a re-read while an edit was in flight (`editor.c:66`): the knob jumps back to the
   old value and the drain, which sets no bit, does not bring it forward again.

That there is no fourth is what `knob_sync` shows.  Likewise `GesturesWellFormed`
excuses a parameter (`broken`) once the full queue has swallowed a gesture's end,
the host has refused one or the view was closed during one, and nothing else.
`HostKnows` excuses (`astray`) a parameter whose value the host set while an edit was
told and not yet stored, or stored and not yet told: then the two writes cross, and the
code does not say which should win (`plugin.c:158`); an edit the host was told of at once
and the full queue refused; and an edit the host refused after it was stored
(`plugin.c:165`, whose result is ignored).

### The door of `FineIsFine`

`knob.h:31-32` says that `fine` slows the drag down for precise adjustment.
`Knob_DragTo` reckons from the press, at the fineness of the present move: press
Shift after turning a knob some way and the next move throws it most of the way
back; turn the wheel during a drag and the next move undoes it.  `FineIsFine` claims
its bound for drags that have been fine from their press on with nothing in between
(`steady`), and holds for those; the others are a divergence the property names and
leaves out.

### The four violations

- **Drag and automation** (`DraggedShowsNewest`).  Press a knob and do not move it;
  automation changes its parameter; the tick takes the bit and skips the knob.
  After release the knob shows the old value until something else changes it.
- **A view closed during a drag** (`GesturesNest`).  `detach` takes the view away; no
  release arrives, so END is never sent, and the editor keeps the active knob.
  The next press sends BEGIN inside the open gesture.
- **Scale changed while the view is open** (`ScaleFromCreation`).  `paint` and
  `on_event` read the scale each time, while the window keeps its size.
- **Error feedback in a saturated band-pass** (`RoundingOnly`).  When the sum of a
  section exceeds the largest sample, the output saturates, and `err` is the
  excess rather than the rounding error.  With the real word lengths `a1 * err`
  can then overflow 64 bits (line 56), which the model does not go into: its
  64-bit sums are exact.

### Bounds, and why they are enough

- `queue`: four slots, two events.  Three events fill it, so full, empty, wrap and
  the unused slot all occur; two events tell repetition and reordering apart.
- `knob_sync`: one parameter of two values (right or wrong), an out-of-range host value
  (0) that must be clamped, a preset of one entry, queue capacity 1, so that refusal is
  frequent and every event can be the one in flight; three hosts: a VST3 host told
  directly, and CLAP hosts that may refuse events on either kind of platform.
  Parameters interact only through the mask, the queue and the active knob; two
  knobs and their gestures are the subject of `editor`.
- `drag_echo`, `cut_gesture`: capacity 3, so that the full queue cannot be the reason.
- `editor`: two knobs that differ in unit and in their text for the minimum, three positions
  each, chosen for the texts that are hardest to read back (-23.97 dB is shown as
  -24.0 dB, 999.7 Hz as 1000 Hz); a pointer on either knob or beside both; a drag distance of
  one pixel for the range and two when fine, so that one move crosses it; `Cuts` = 1
  drag may lose its view.  Both builds.  The proofs drop all these bounds.
- `window`: two parents (reparenting), two scales, five outcomes of creation.
- `audio_path`: a block of three frames with changes at frame 0 and, two of them on one
  parameter, at frame 2, an engine that prepared for one or two frames, so that stretches
  are longer than, as long as and shorter than its buffer; a block without events, which
  a running transport mostly passes and without which `EngineFollows` would hold
  vacuously, for then automation never rests; and an event in an empty block.
- `state_chunk`: writes cut inside the header and inside an entry, portions of one and
  five bytes, and six foreign chunks: older, newer, repeated and
  out-of-range values, longer than the buffer, announcing too many, not a chunk.
- `crossover`: 16 units to 1.0, tunings at both ends of the range and between, inputs at
  both ends, silence and one no tuning divides.  Rounding is far coarser here than
  in the code, so limit cycles and offsets would show.
- `enhancer`: 128 units to 1.0 and 12 fractional bits, the coefficients the formulas give
  for 1/20 to 1/5 of the decimated rate at a gain of 16; three periods of any sound at full
  scale or none on both channels, then silence for ever.  The highpass's `b1` is exactly
  -2 `b0`, as it is in the code; its poles are as near to 1, in units of a sample, as a
  bass cutoff puts them, so that without the error feedback the state locks up (the
  mutant `UnitsOnly`).
- `band_pass_error`: eight units to 1.0 and the coefficients the formulas give for a
  band from 1/16 to 1/4 of the decimated rate at a gain of 8, in eighths.  The run
  shows that saturation is reached and what is fed back then, not how often.

### Fairness

Weak fairness of a thread's own steps says that a call once begun runs on; of the
tick in `PluginParams`, that the view's timer goes on (`window-pugl.c:80`); of the audio
thread, that the host goes on processing, which it does while the plugin is active;
of the GUI thread, that it is scheduled and `puglUpdate` returns after its time
limit; of `Process` in `CrossOver` and of a frame in `MCEnhancer`, that the host goes on
playing; of `Expose` in `Editor`, that the window system exposes what was obscured.
`AudioPath` adds
strong fairness for blocks that hold audio: a host that for ever passes
empty blocks applies nothing.  Nothing is assumed of the user, of automation, of presets
or of the host's calls to the view: properties that need them to stop say so
(`KnobsSettle`, `EngineFollows`, `NoLimitCycle`, `VisibilityFollows`, `RingsOut`).
`CHECK_DEADLOCK` is on everywhere.

## 4. Proofs

All theorems hold for every value of the constants under the assumptions stated in
the modules (`SizeAssumption` and the like), which TLC evaluates in the runs.

- **ParamQueue** (`ParamQueue_proofs`).  `IndInv` adds to the types: each thread's copy of
  its own index is right; what it has concluded from its copy of the other's
  index stays true until it acts (the ring can only get emptier for the producer and
  fuller for the consumer); and every slot between tail and head holds a whole event.
  Race freedom and whole events follow, and step by step the refinement of
  `EventChannel` with `Size - 1` places; the mapping makes an accepted push take effect
  when `head` is published, a refusal and an empty pop when the other's index is loaded.
- **PluginParams** (`PluginParams_proofs`), for every set of parameters, every range, every
  capacity and every kind of host.  What is on its way from a knob to the host is one
  sequence of events in three places: what a handler has still to send (`outbox`), the
  queue, and the event the audio thread holds (`hand`).  Each invariant follows it there.
  For `GesturesWellFormed`, `Path` says that hearing all of it takes the host's gesture from
  where it is to where the knob is; a send that drops an end breaks exactly that path, and
  there the ghost `broken` is set.  For `HostKnows`, `Newest` is the value the last edit on
  its way carries: a host told directly knows it already, another learns it when
  it is forwarded (`Knows`).  For `KnobsCoherent`, a knob shows the newest edit on its way,
  else the value, unless its bit is in the mask or in the tick's hands (`Coherent`,
  `EditInv`).  `MarkedInv` and `OneHandler` say what a send may put on the queue and that no
  handler begins before the last has sent everything; without them none is inductive.
  `TypeOK` has in it that every value stored anywhere was clamped.
- **Engine** (first part of `AudioPath_proofs`).  `TunedAsFresh` is inductive together with
  "the scratch buffer has the block's size, at least one frame, while prepared": every
  setter leaves each coefficient computed from the inputs a fresh `PbeDsp_Init` would
  use.  Band order and chunk bounds follow.
- **AudioPath** (`AudioPath_proofs`).  The composition theorem: `PathInv` says that the
  values are always ones the parameters allow, that every event still due carries such a
  value, and that a stretch never ends before it begins; hence every call the plugin
  makes is one the engine's own theorems allow, and its invariant holds in the plugin,
  whatever host, automation and preset.  `FrameInv` adds the count of frames (in the
  chunk loop those the finished chunks covered, `Covered`), and with it `EveryFrameOnce`: no
  frame is skipped or processed twice.  `AutomationOnTime` is `SampleAccurate` whole: what is
  left in `due` is the end of the block's events, those taken from it are no later than the
  frame and the others no earlier than the stretch's end (`EventsInv`), so that within a
  stretch the events taken are those of each of its frames; the values are what they made
  them (`ValuesInv`), the engine has been told so as far as `apply_params` has come
  (`Applied`), and by `TunedAsFresh` it runs with what it was told.
- **StateChunk** (`StateChunk_proofs`), for every table of ids, every chunk a host may hand over
  and every portioning.  After `i` entries each value is what the last of its entries
  among them says, or what it was before (`AfterEntries`); the loop stops at the
  first entry that is not announced, not whole or beyond the buffer, so at its end these are
  all that arrived (`LoadsWholeEntries`).  A saved chunk has one entry for each parameter and
  ids are distinct, whence `RoundTrip`.
- **Editor** (`Editor_proofs`).  `OneDrag` and `GesturesPaired` are not inductive alone:
  nothing says that the host's open gesture is the active knob's (`DragIsGesture`)
  nor that a button is down while a drag goes on (`ButtonHeld`), and `HoverHonest` needs
  that no pointer is over a view that is gone (`Gone`).  `TypeOK` carries that every
  turn of a knob leaves it within its range.  For texts, that a rising scale sends a
  plain value back to its position (`NormaliseBack`, by counting the positions passed)
  and that rounding and clamping lose at most half a digit.  For the fine drag,
  `SteadyInv` says that the knob is where its press and the pointer put it, and
  clamping brings no two positions further apart (`ClampContracts`).
- **GuiWindow** (`GuiWindow_proofs`).  `ThreadIsOwned` and `WindowIsOwned` say who answers for
  the thread and the window at each stage; without them `NothingOutlivesDetach` is
  not inductive, since nothing else ties `stop`, `thread_started` and the thread's place
  together.
- **CrossOver** (`CrossOver_proofs`).  An output is a weighted mean of three samples, because
  `SetCutoff` makes the weights add up to one; rounding a mean stays between whole
  bounds (`RoundingBetween`).  Hence `|y| <= max |x|` although the output is rounded, fed
  back and retuned.
- **Enhancer** (`Enhancer_proofs`), for constants that satisfy `Parameters`.  The decimator's sum
  after k frames is at most k/2 of full scale, so a period of four fits; the
  smoother stays between its state and its target; integrator, interpolation and
  clamps stay in their words, even where a sum before them has wrapped.
  `ErrorUnlessSaturated` is the other half of the violation in `band_pass_error`: while the
  output does not saturate, what is fed back is at most half a unit, for all
  coefficients, delays and samples.

Every invariant and every action property of a passing run is stated by a theorem.
Only model-checked: liveness (`ChannelLive`, `KnobsSettle`, `PictureFollows`, `DetachReturns`,
`VisibilityFollows`, `EngineFollows`, `LoadReturns`, `NoLimitCycle`, `NoDcOffset`, `RingsOut`), for
fairness and `ENABLED` are beyond the prover's temporal backend.  So is induction over data
structures: that is why `AudioPath` and `StateChunk` say "the last entry of p" by the greatest
position and not by a recursion over the sequence, and why `PlanAssumption` compares all
positions and not neighbours.  `RECURSIVE` is not used.

## 5. Not modelled

- **Canvas, fonts, OpenGL loader**: output only; the plugin reads nothing back.
- **Tools** (`tools/*.c`), **tests, packaging**: hosts in miniature that load the built plugin,
  play or render through it or draw the editor once, and scripts; they keep no state the
  plugin reads.  They were read for what they expect of it.
- **Platform and build configuration**: compile-time constants; the atomicity of the
  OR into the mask is assumed.
- **Names and busses** in `plugin.c`: constant answers.
- **Scale formulas** of `params.c` (linear and logarithmic) are any rising scale; NaN, which
  clamping by comparison lets through, is only in `StateChunk`.
- **Coefficient formulas** (tangents, cosines, powers), and sample conversion.
- **Retuning of a running band-pass** in `Enhancer`: its coefficients are constants there.
  `CrossOver` is retuned at any time, and `Engine` and `DspTuning` say from which inputs.
- **Mix and column selection** of the enhancer: keep no state.
- **The host** is external: it makes the view's calls one after another, and may refuse events.

## 6. Plan

Done, in this order: the queue and its proof; parameters and knobs; engine and tuning
with proof; window with proof; the block loop; saved state; crossover and enhancer with
proofs; the editor with texts and its proof; hosts that refuse events; the composition
of block loop and engine with its proof; the enhancer's ringing out; the proofs about
parameters, gestures and the host, about saved state, and about automation.  Left:

1. **The decimator's rounding** (`pbe-dsp.c:102`): an input held at the top of its word
   overflows when the rounding is added, where `engine.c:65-66` keeps headroom so that a hot
   input cannot wrap.
2. **`Coefficients`**: the formulas over integer bands; a lowpass coefficient above the
   range of Q4.28 wraps (`band-pass.c:8`), where `band-pass.h:8` says magnitudes reach 2.
3. **Runs for two divergences** the models already show: "Inverse of Param_Format"
   (`params.h:52`) for texts rounded away from their value, and fine drags that jump
   (`knob.h:31-32`).
