-------------------------------- MODULE Editor --------------------------------
(***************************************************************************)
(* The plugin's editor on the thread that pumps its window: gui/editor.c,  *)
(* gui/knob.c and the events gui/window-pugl.c feeds them.  One step is    *)
(* one event and everything the code does for it, down to asking for a     *)
(* repaint.  Several knobs, a pointer, its button and two modifiers; where *)
(* the pointer is and what the plugin's values are is any input.  How      *)
(* values and gestures reach the plugin is PluginParams' subject.          *)
(*                                                                         *)
(* A knob's value is a position, lengths are whole numbers, and KNOB_DRAG_ *)
(* PIXELS and the like are small enough for a drag to cross the range.     *)
(* host_thread is PBE_GUI_ON_HOST_THREAD: there a timer event ticks the    *)
(* editor, else the GUI thread's loop does.                                *)
(*                                                                         *)
(* NeverFine, HoverQuiet, PaintLost, EndForgotten, HoverAsWas and EveryStep*)
(* are bugs to put in place of the definitions that follow them.           *)
(***************************************************************************)
EXTENDS ParamText

CONSTANTS KNOB_DRAG_PIXELS, \* full range per this many pixels
          KNOB_STEP_LINES,  \* full range per this many wheel clicks
          KNOB_FINE_FACTOR,
          Slot, CenterY, Radius, \* the row of knobs; Radius reaches past the track
          Points,           \* where the pointer may be, as <<x, y>>
          Lines,            \* what one scroll event may report
          Cuts,             \* bound on the knobs whose drag may lose its view
          None

FineTicks(range) == Top \div (range * KNOB_FINE_FACTOR)

ASSUME EditorAssumption ==
    /\ {KNOB_DRAG_PIXELS, KNOB_STEP_LINES, KNOB_FINE_FACTOR} \subseteq Nat \ {0}
    /\ \A range \in {KNOB_DRAG_PIXELS, KNOB_STEP_LINES} :
          Top = FineTicks(range) * range * KNOB_FINE_FACTOR
    /\ {Slot, CenterY, Radius} \subseteq Nat
    /\ Points \subseteq Nat \X Nat /\ Lines \subseteq Int \ {0}
    /\ Cuts \in Nat
    /\ None \notin Params /\ None \notin Points

VARIABLES
    host_thread,
    attached,        \* the editor's view is realized
    value,           \* Knob.value
    dragging,        \* the knobs with Knob.dragging set
    drag_start,      \* y and value at Knob_DragBegin, of the active knob
    active, hovered, \* Editor.active, Editor.hovered
    last_click_knob,
    recent,          \* the last click is less than DOUBLE_CLICK_SECONDS ago
    dirty,           \* Editor.dirty
    exposed,         \* the view has been obscured and not yet exposed
    at, pressed,     \* the pointer's last motion; the primary button is down
    fine,            \* Shift or Ctrl is held
    stale,           \* knobs that look otherwise than last painted
    open,            \* the host's view: parameters inside a gesture
    steady,          \* ghost: the drag has been nothing but moves, all as fine
    misfit,          \* ghost: parameters the host heard of out of turn
    cut              \* ghost: parameters whose drag lost its view

drag == <<dragging, drag_start, active>>
knobs == <<value, drag, hovered, steady>>
clicks == <<last_click_knob, recent>>
pointer == <<at, pressed, fine>>
told == <<open, misfit>>
vars == <<host_thread, attached, knobs, clicks, dirty, exposed, pointer, stale,
          told, cut>>

NoDrag == [y |-> 0, value |-> 0]

-------------------------------------------------------------------------------
(* knob.c *)

Center(p) == <<Slot * (2 * p + 1), CenterY>>
Knob_Hit(p, pt) ==
    LET dx == pt[1] - Center(p)[1]
        dy == pt[2] - Center(p)[2]
    IN dx * dx + dy * dy <= Radius * Radius

NeverFine(range) == Top \div range
Ticks(range) == IF fine THEN FineTicks(range) ELSE Top \div range

Knob_SetValue(p, normalised) == value' = [value EXCEPT ![p] = clamp01(normalised)]

Knob_DragBegin(p, y) ==
    /\ dragging' = dragging \cup {p}
    /\ drag_start' = [y |-> y, value |-> value[p]]

\* What Knob_DragTo and Knob_Step set a knob to.
Knob_DragTo(y) == drag_start.value + (drag_start.y - y) * Ticks(KNOB_DRAG_PIXELS)
Knob_Step(p, lines) == value[p] + lines * Ticks(KNOB_STEP_LINES)

\* What Knob_Paint shows of a knob: arc, pointer and text by its value, the edge
\* lit or not.
Look(p) == <<value[p], p = hovered \/ p \in dragging>>

-------------------------------------------------------------------------------
(* editor.c *)

\* knob_at: the first that the point hits.
knob_at(pt) ==
    LET hits == {p \in Params : Knob_Hit(p, pt)}
    IN IF hits = {} THEN None ELSE CHOOSE p \in hits : \A q \in hits : p <= q

\* set_hovered: hover, and whether it makes the editor dirty.
HoverQuiet(p) == FALSE
HoverDirties(p) == p # hovered

\* The events a handler has the plugin pass to the host, and what it makes of
\* them: a value or an end outside a gesture, a begin inside one is a misfit.
Begins(p) == open' = open \cup {p} /\ misfit' = misfit \cup ({p} \cap open)
Updates(p) == open' = open /\ misfit' = misfit \cup ({p} \ open)
Ends(p) == open' = open \ {p} /\ misfit' = misfit \cup ({p} \ open)
WholeGesture(p) == open' = open \ {p} /\ misfit' = misfit \cup ({p} \cap open)

\* on_event's end: what the handler left dirty is obscured.  A knob whose look
\* changes is stale until the next paint.
PaintLost(d) == dirty' = FALSE /\ exposed' = (d \/ dirty)
Obscures(d) == dirty' = FALSE /\ exposed' = (exposed \/ d \/ dirty)
Aged == stale' = stale \cup {p \in Params : Look(p)' # Look(p)}

OnEvent(d) == attached /\ Obscures(d) /\ Aged /\ UNCHANGED <<host_thread, attached>>

\* An event at the pointer carries its position.
Here(pt) == at \in {pt, None}

\* Editor_MouseDown on a knob: begin to drag it ...
MouseDown(pt) ==
    /\ ~pressed /\ Here(pt)
    /\ LET p == knob_at(pt)
       IN /\ p # None
          /\ ~(p = last_click_knob /\ recent)
          /\ last_click_knob' = p /\ recent' = TRUE
          /\ active' = p
          /\ Knob_DragBegin(p, pt[2])
          /\ steady' = TRUE
          /\ Begins(p)
    /\ pressed' = TRUE
    /\ UNCHANGED <<value, hovered, at, fine, cut>>
    /\ OnEvent(TRUE)

\* ... or, soon after the last click on it, reset it.
DoubleClick(pt) ==
    /\ ~pressed /\ Here(pt)
    /\ LET p == knob_at(pt)
       IN /\ p # None
          /\ p = last_click_knob /\ recent
          /\ Knob_SetValue(p, Param_Normalise(p, Param_Info[p].def))
          /\ WholeGesture(p)
    /\ pressed' = TRUE
    /\ steady' = FALSE
    /\ UNCHANGED <<drag, hovered, clicks, at, fine, cut>>
    /\ OnEvent(TRUE)

\* A press beside the knobs.
MouseDownBeside(pt) ==
    /\ ~pressed /\ Here(pt)
    /\ knob_at(pt) = None
    /\ pressed' = TRUE
    /\ UNCHANGED <<knobs, clicks, at, fine, told, cut>>
    /\ OnEvent(FALSE)

\* Editor_MouseUp, wherever the pointer was dragged to.
EndForgotten == dragging
Released == dragging \ {active}

HoverAsWas(pt) == hovered
HoverReleased(pt) == knob_at(pt)

MouseUp(pt) ==
    /\ pressed /\ Here(pt) /\ active # None
    /\ pressed' = FALSE /\ at' = pt
    /\ dragging' = Released
    /\ Ends(active)
    /\ active' = None /\ drag_start' = NoDrag /\ steady' = FALSE
    /\ hovered' = HoverReleased(pt)
    /\ UNCHANGED <<value, clicks, fine, cut>>
    /\ OnEvent(TRUE)

MouseUpIdle ==
    /\ pressed /\ active = None
    /\ pressed' = FALSE
    /\ UNCHANGED <<knobs, clicks, at, fine, told, cut>>
    /\ OnEvent(FALSE)

\* Editor_MouseMove: turn the active knob ...
Drag(pt) ==
    /\ active # None
    /\ at' = pt
    /\ IF active \in dragging THEN Knob_SetValue(active, Knob_DragTo(pt[2]))
       ELSE UNCHANGED value
    /\ IF value' # value THEN Updates(active) ELSE UNCHANGED told
    /\ UNCHANGED <<drag, hovered, steady, clicks, pressed, fine, cut>>
    /\ OnEvent(value' # value)

\* ... or find the knob under the pointer.
Hover(pt) ==
    /\ active = None
    /\ at' = pt
    /\ hovered' = knob_at(pt)
    /\ UNCHANGED <<value, drag, steady, clicks, pressed, fine, told, cut>>
    /\ OnEvent(HoverDirties(knob_at(pt)))

\* Editor_MouseLeave.
HoverLeft == IF active = None THEN None ELSE hovered

MouseLeave ==
    /\ at # None
    /\ at' = None
    /\ hovered' = HoverLeft
    /\ UNCHANGED <<value, drag, steady, clicks, pressed, fine, told, cut>>
    /\ OnEvent(HoverDirties(HoverLeft))

\* Editor_Scroll: a gesture of its own unless it comes during the knob's drag.
EveryStep(p) == WholeGesture(p)
StepTold(p) == IF active = p THEN Updates(p) ELSE WholeGesture(p)

Scroll(pt, lines) ==
    /\ Here(pt)
    /\ LET p == IF active # None THEN active ELSE knob_at(pt)
       IN /\ p # None
          /\ Knob_SetValue(p, Knob_Step(p, lines))
          /\ value' # value
          /\ StepTold(p)
    /\ steady' = FALSE
    /\ UNCHANGED <<drag, hovered, clicks, pointer, cut>>
    /\ OnEvent(TRUE)

\* Editor_Tick, given the values it finds of the knobs marked and not dragged.
\* By the timer, in on_event; or by the GUI thread's loop, which obscures the view
\* of a dirty editor and leaves it dirty.
Refreshed(read) == [p \in Params |-> IF p \in DOMAIN read THEN read[p] ELSE value[p]]

Tick(read) ==
    /\ attached
    /\ value' = Refreshed(read)
    /\ LET due == dirty \/ value' # value
       IN IF host_thread THEN Obscures(due)
          ELSE dirty' = due /\ exposed' = (exposed \/ due)
    /\ UNCHANGED <<host_thread, attached, drag, hovered, steady, clicks, pointer,
                   told, cut>>
    /\ Aged

\* EXPOSE: Editor_Paint, of a view that has its canvas and its size (GuiWindow
\* has those that have not).
Expose ==
    /\ attached /\ exposed
    /\ exposed' = FALSE /\ dirty' = FALSE
    /\ stale' = {}
    /\ UNCHANGED <<host_thread, attached, knobs, clicks, pointer, told, cut>>

\* A modifier key is pressed or released.
Modifier ==
    /\ attached
    /\ fine' = ~fine
    /\ steady' = FALSE
    /\ UNCHANGED <<host_thread, attached, value, drag, hovered, clicks, dirty,
                   exposed, at, pressed, stale, told, cut>>

\* The clock passes DOUBLE_CLICK_SECONDS.
ClickExpires ==
    /\ recent /\ recent' = FALSE
    /\ UNCHANGED <<host_thread, attached, knobs, last_click_knob, dirty, exposed,
                   pointer, stale, told, cut>>

-------------------------------------------------------------------------------
(* The view comes and goes; the editor outlives it *)

\* REALIZE: Editor_SyncFromPlugin, whatever is being dragged.
Attach(read) ==
    /\ ~attached
    /\ attached' = TRUE
    /\ value' = read
    /\ dirty' = FALSE /\ exposed' = TRUE /\ stale' = Params
    /\ steady' = FALSE
    /\ UNCHANGED <<host_thread, drag, hovered, clicks, pointer, told, cut>>

\* UNREALIZE: the button and the pointer are lost on the view.
Detach ==
    /\ attached
    /\ Cardinality(cut \cup ({active} \ {None})) <= Cuts
    /\ attached' = FALSE /\ exposed' = FALSE /\ stale' = {}
    /\ pressed' = FALSE /\ at' = None
    /\ cut' = cut \cup ({active} \ {None})
    /\ UNCHANGED <<host_thread, knobs, clicks, fine, dirty, told>>

\* Editor_Destroy and Editor_Create: layout, Knob_Init of every knob,
\* Editor_SyncFromPlugin.
Recreate(read) ==
    /\ ~attached
    /\ value' = read /\ dragging' = {} /\ drag_start' = NoDrag
    /\ active' = None /\ hovered' = None /\ steady' = FALSE
    /\ last_click_knob' = None /\ recent' = FALSE
    /\ dirty' = TRUE
    /\ UNCHANGED <<host_thread, attached, exposed, pointer, stale, told, cut>>

-------------------------------------------------------------------------------
\* Editor_Create of a new plugin.
Init ==
    /\ host_thread \in BOOLEAN
    /\ value = [p \in Params |-> Param_Normalise(p, Param_Info[p].def)]
    /\ dragging = {} /\ drag_start = NoDrag
    /\ active = None /\ hovered = None /\ steady = FALSE
    /\ last_click_knob = None /\ recent = FALSE
    /\ dirty = TRUE
    /\ attached = FALSE /\ exposed = FALSE /\ at = None /\ pressed = FALSE /\ fine = FALSE
    /\ stale = {} /\ open = {} /\ misfit = {} /\ cut = {}

Reads == [Params -> Positions]

UserAct == \/ \E pt \in Points :
                 \/ MouseDown(pt) \/ DoubleClick(pt) \/ MouseDownBeside(pt)
                 \/ MouseUp(pt) \/ Drag(pt) \/ Hover(pt)
                 \/ \E lines \in Lines : Scroll(pt, lines)
           \/ MouseUpIdle \/ MouseLeave \/ Modifier \/ ClickExpires
HostAct == \/ \E read \in Reads : Attach(read) \/ Recreate(read)
           \/ Detach
Poll == \E marked \in SUBSET Params :
            \E read \in [marked \ dragging -> Positions] : Tick(read)

Next == UserAct \/ HostAct \/ Poll \/ Expose

Spec == Init /\ [][Next]_vars

\* The window system exposes what was obscured, sooner or later.
FairSpec == Spec /\ WF_vars(Expose)
-------------------------------------------------------------------------------
(* Correctness *)

Option(S) == S \cup {None}

TypeOK ==
    /\ host_thread \in BOOLEAN /\ attached \in BOOLEAN
    /\ value \in [Params -> Positions]
    /\ dragging \subseteq Params
    /\ drag_start \in [y : Nat, value : Positions]
    /\ active \in Option(Params) /\ hovered \in Option(Params)
    /\ last_click_knob \in Option(Params) /\ recent \in BOOLEAN
    /\ dirty \in BOOLEAN /\ exposed \in BOOLEAN
    /\ at \in Option(Points) /\ pressed \in BOOLEAN /\ fine \in BOOLEAN
    /\ steady \in BOOLEAN
    /\ stale \subseteq Params /\ open \subseteq Params
    /\ misfit \subseteq Params /\ cut \subseteq Params

\* The window never shows a knob as it no longer is without a repaint on its way:
\* no handler, tick or paint loses the editor's one dirty flag between the three
\* places that clear it (editor.c:73-77, 94; window-pugl.c:80-82, 104-106, 134).
RepaintOwed == attached /\ stale # {} => exposed

\* Without a drag exactly the knob under the pointer is lit, wherever a drag or
\* the pointer's leaving ended; until an editor whose view was taken away sees
\* the pointer again (editor.c:104-110, 150, 159, 163).
HoverHonest ==
    active = None /\ at # None => hovered = knob_at(at)

\* Only the active knob takes the pointer and shuts the host out, unless a view
\* was taken away in the middle of its drag: then another knob may be pressed and
\* the first is deaf until it is dragged again (editor.c:65, 138-139, 145-148).
OneDrag == dragging \ cut = {active} \ ({None} \cup cut)

\* The host hears well-formed gestures of every knob, however clicks, drags and
\* wheel follow each other, for as long as no drag lost its view
\* (editor.c:129-135, 138-140, 146-147, 171-174).
GesturesPaired == misfit \subseteq cut

\* A text typed back into the host gives the value shown, to half its last digit,
\* on every scale and across the change to kHz (params.c:85-97, 107-117;
\* plugin.c:126-149).
TypedBack ==
    \A p \in Params :
        LET id == cplug_getParameterID(p)
            plain == cplug_denormaliseParameterValue(id, value[p])
            text == cplug_parameterValueToString(id, plain)
            back == cplug_parameterStringToValue(id, text)
        IN /\ 2 * Abs(back - plain) <= Digit(text)
           /\ cplug_normaliseParameterValue(id, plain) = value[p]

\* The window catches up with the knobs again and again while it is there.
PictureFollows == []<>(attached => stale = {})

\* "`fine` slows the drag down for precise adjustment." (knob.h:31-32): a move
\* with Shift or Ctrl held turns the knob by no more than its share of the pixels
\* moved.  Only of a drag that has been fine from its press on, with no wheel or
\* double click in it: knob.c:53 reckons from the press at the present fineness,
\* so after those the next move makes the knob jump.
FineIsFine ==
    [][\A pt \in Points :
          fine /\ steady /\ at # None /\ Drag(pt) =>
              Abs(value'[active] - value[active])
                <= Abs(pt[2] - at[2]) * FineTicks(KNOB_DRAG_PIXELS)]_vars
===============================================================================
