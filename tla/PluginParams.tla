----------------------------- MODULE PluginParams -----------------------------
(***************************************************************************)
(* The parameters of the plugin and the knobs that show them: plugin.c     *)
(* (values, gui_dirty_mask, gui_queue) composed with gui/editor.c and      *)
(* gui/knob.c.  Three threads meet here:                                   *)
(*   - the host's main thread: state load, controller edits, view calls;   *)
(*   - the audio thread: drains the GUI's queue, then host automation;     *)
(*   - the GUI thread, which on macOS and Windows is the main thread.      *)
(* A step is one access to something another thread can touch.  The queue  *)
(* is the bounded FIFO that ParamQueue implements: a push is accepted or   *)
(* refused in one step, a pop takes effect in one step.                    *)
(*                                                                         *)
(* Plain values are the integers Lo .. Hi and a knob has one position per  *)
(* plain value, numbered from 0: the rounding of the float conversions and *)
(* the shape of the scales are abstracted, clamping is not.                *)
(*                                                                         *)
(* ClampAbove, PositionsFromOne, MarkNot, ToldIsEnough and EveryStep are   *)
(* bugs to put in place of the definitions that follow them, not parts of  *)
(* the model.                                                              *)
(***************************************************************************)
EXTENDS Integers, Sequences

CONSTANTS
    Params,          \* ParamIndex: an interval of integers, in tick order
    Lo, Hi, Default, \* ParamInfo min, max and def
    HostValues,      \* plain values a host may send, clamped or not
    Chunks,          \* saved states a host may load: sequences of entries
    Capacity,        \* events the queue can hold
    Hosts,           \* the kinds of host and platform the plugin may run in
    None

ASSUME ParamsAssumption == Params \subseteq Int /\ None \notin Params
ASSUME RangeAssumption == /\ Lo \in Int /\ Hi \in Int /\ Default \in Lo .. Hi
                          /\ HostValues \subseteq Int
ASSUME ChunkAssumption == Chunks \subseteq Seq(Params \X HostValues)
ASSUME CapacityAssumption == Capacity \in Nat \ {0}
\* gui_on_host_thread is PBE_GUI_ON_HOST_THREAD; direct, a VST3 host told by
\* sendParamEvent; refuses, one whose enqueueEvent may fail.
ASSUME HostsAssumption ==
    /\ Hosts \subseteq [gui_on_host_thread : BOOLEAN, direct : BOOLEAN,
                        refuses : BOOLEAN]
    /\ \A h \in Hosts : h.direct => h.gui_on_host_thread

VARIABLES
    values,      \* plugin.c:22, the authoritative plain values
    dirty,       \* plugin.c:25, gui_dirty_mask as a set
    queue,       \* plugin.c:27, GUI events not yet popped
    hand,        \* audio thread: the event popped and not yet dealt with
    audio,       \* audio thread: "idle", "drain", "store", "forward", "events"
    told,        \* audio thread: parameter stored and not yet marked dirty
    chunk,       \* main thread: entries still to be stored
    noted,       \* main thread: parameter stored and not yet marked dirty
    view,        \* "closed", "created" (no window) or "attached"
    knob,        \* Knob.value, as a position
    dragging,    \* the knobs with Knob.dragging set
    active,      \* Editor.active
    pressed,     \* the primary button is down over the view
    lastClick,   \* Editor.last_click_knob
    refresh,     \* GUI thread: knobs still to be re-read by this tick or sync
    outbox,      \* GUI thread: events this handler has still to send
    doubt,       \* ghost: knobs that may have missed a change (see below)
    host,        \* the kind of host, chosen once
    open,        \* the host's view: parameters inside a gesture
    known,       \* the host's view: the values it last set or was told
    broken,      \* ghost: parameters one of whose gestures was cut short
    astray       \* ghost: parameters the host may be wrong about (see below)

audioVars == <<hand, audio, told>>
mainVars == <<chunk, noted>>
editorVars == <<view, knob, dragging, active, pressed, lastClick>>
guiVars == <<editorVars, refresh, outbox>>
hostView == <<host, open, known, broken, astray>>
vars == <<values, dirty, queue, audioVars, mainVars, guiVars, doubt, hostView>>

-------------------------------------------------------------------------------
(* params.c: conversions *)

ClampAbove(v) == IF v > Hi THEN Hi ELSE v
Clamp(v) == IF v < Lo THEN Lo ELSE IF v > Hi THEN Hi ELSE v
PositionsFromOne(v) == Clamp(v) - Lo + 1
Normalise(v) == Clamp(v) - Lo
Denormalise(pos) == Clamp(Lo + pos)

Positions == 0 .. Hi - Lo

-------------------------------------------------------------------------------
(* Events on the queue.  Only an UPDATE's value is ever used. *)

Event(type, p, v) == [type |-> type, param |-> p, val |-> v, forward |-> TRUE]
Gesture(type, p) == Event(type, p, Lo)
Update(p, pos) == Event("UPDATE", p, Denormalise(pos))
ParamEvent == [type : {"BEGIN", "UPDATE", "END"}, param : Params, val : Lo .. Hi,
               forward : BOOLEAN]

ASSUME NoneAssumption == None \notin ParamEvent

GuiOnHostThread == host.gui_on_host_thread
DirectHost == host.direct

IsUpdate(ev, p) == ev # None /\ ev.type = "UPDATE" /\ ev.param = p
Holds(s, p) == \E i \in DOMAIN s : IsUpdate(s[i], p)
InHand(p) == audio = "store" /\ IsUpdate(hand, p)
Pending(p) == InHand(p) \/ Holds(queue, p)
Unsent(p) == Holds(outbox, p)

\* An edit of p the host has been told of and the plugin has not stored, or the
\* other way round: a value the host sets now is crossed by it.
Crossing(p) == \/ DirectHost /\ (Pending(p) \/ \E i \in DOMAIN outbox :
                                     IsUpdate(outbox[i], p) /\ ~outbox[i].forward)
               \/ audio = "forward" /\ IsUpdate(hand, p)

\* set_value with notify_gui: the bit of p is or-ed into the mask.
MarkNot(p) == dirty' = dirty
Mark(p) == dirty' = dirty \cup {p}

\* Editor_Scroll: a wheel click is its own gesture unless a drag is in progress.
EveryStep(p) == TRUE
OwnGesture(p) == active # p

Excuse(ghost, p, cond) == IF cond THEN ghost \cup {p} ELSE ghost \ {p}

\* What a host that sets p to v knows.
Sets(p, v) == /\ known' = [known EXCEPT ![p] = Clamp(v)]
              /\ astray' = Excuse(astray, p, Crossing(p))
              /\ UNCHANGED <<host, open, broken>>

\* What the host knows after being told of ev, and of its gestures.
Learns(ev) == IF ev.type = "UPDATE" THEN [known EXCEPT ![ev.param] = ev.val]
              ELSE known
Hears(ev) == CASE ev.type = "BEGIN"  -> open \cup {ev.param}
               [] ev.type = "END"    -> open \ {ev.param}
               [] ev.type = "UPDATE" -> open

MainIdle == chunk = <<>> /\ noted = None
GuiIdle == refresh = {} /\ outbox = <<>>

\* The calls the host's main thread makes do not overlap, and on macOS and
\* Windows the GUI's handlers run on that thread too.
MainFree == /\ MainIdle
            /\ GuiOnHostThread \/ view = "created" => GuiIdle
GuiFree == /\ view = "attached" /\ GuiIdle
           /\ GuiOnHostThread => MainIdle

-------------------------------------------------------------------------------
(* Host's main thread: plugin.c *)

\* cplug_setParameterValue: a controller edit.
SetParameter(p, v) ==
    /\ MainFree
    /\ chunk' = <<<<p, v>>>>
    /\ UNCHANGED <<values, dirty, queue, audioVars, noted, guiVars, doubt, hostView>>

\* cplug_loadState, once the stream is read: the entries that name a known
\* parameter and hold a number, in order.
LoadState(c) ==
    /\ MainFree
    /\ chunk' = c
    /\ UNCHANGED <<values, dirty, queue, audioVars, noted, guiVars, doubt, hostView>>

\* set_value, notify_gui = true: store ...
MainStore ==
    /\ chunk # <<>> /\ noted = None
    /\ values' = [values EXCEPT ![Head(chunk)[1]] = Clamp(Head(chunk)[2])]
    /\ noted' = Head(chunk)[1]
    /\ chunk' = Tail(chunk)
    /\ Sets(Head(chunk)[1], Head(chunk)[2])
    /\ UNCHANGED <<dirty, queue, audioVars, guiVars, doubt>>

\* ... then mark dirty.
MainNotify ==
    /\ noted # None
    /\ Mark(noted)
    /\ noted' = None
    /\ UNCHANGED <<values, queue, audioVars, chunk, guiVars, doubt, hostView>>

-------------------------------------------------------------------------------
(* Audio thread: cplug_process *)

ProcessBegin ==
    /\ audio = "idle"
    /\ audio' = "drain"
    /\ UNCHANGED <<values, dirty, queue, hand, told, mainVars, guiVars, doubt, hostView>>

\* drain_gui_queue: pop ...
DrainPop ==
    /\ audio = "drain" /\ queue # <<>>
    /\ hand' = Head(queue)
    /\ queue' = Tail(queue)
    /\ audio' = IF Head(queue).type = "UPDATE" THEN "store" ELSE "forward"
    /\ UNCHANGED <<values, dirty, told, mainVars, guiVars, doubt, hostView>>

\* ... store an UPDATE without marking it dirty ...
DrainStore ==
    /\ audio = "store"
    /\ values' = [values EXCEPT ![hand.param] = Clamp(hand.val)]
    /\ audio' = IF hand.forward THEN "forward" ELSE "drain"
    /\ hand' = IF hand.forward THEN hand ELSE None
    /\ astray' = IF hand.forward THEN astray \ {hand.param} ELSE astray
    /\ UNCHANGED <<dirty, queue, told, mainVars, guiVars, doubt, host, open,
                   known, broken>>

\* ... and forward the event to the host, unless the host was told on the UI
\* thread.  A host that has no room refuses it: the result is not looked at.
Forward ==
    /\ audio = "forward"
    /\ \E accepted \in {TRUE, ~host.refuses} :
          /\ open' = IF accepted THEN Hears(hand) ELSE open
          /\ known' = IF accepted THEN Learns(hand) ELSE known
          /\ astray' = IF ~accepted /\ hand.type = "UPDATE"
                       THEN astray \cup {hand.param} ELSE astray
          /\ broken' = IF ~accepted /\ hand.type # "UPDATE"
                       THEN broken \cup {hand.param} ELSE broken
    /\ hand' = None
    /\ audio' = "drain"
    /\ UNCHANGED <<values, dirty, queue, told, mainVars, guiVars, doubt, host>>

DrainEnd ==
    /\ audio = "drain" /\ queue = <<>>
    /\ audio' = "events"
    /\ UNCHANGED <<values, dirty, queue, hand, told, mainVars, guiVars, doubt, hostView>>

\* Host automation between two sub-blocks: cplug_setParameterValue.
AutomationStore(p, v) ==
    /\ audio = "events" /\ told = None
    /\ values' = [values EXCEPT ![p] = Clamp(v)]
    /\ told' = p
    /\ Sets(p, v)
    /\ UNCHANGED <<dirty, queue, hand, audio, mainVars, guiVars, doubt>>

AutomationNotify ==
    /\ told # None
    /\ Mark(told)
    /\ told' = None
    /\ UNCHANGED <<values, queue, hand, audio, mainVars, guiVars, doubt, hostView>>

ProcessEnd ==
    /\ audio = "events" /\ told = None
    /\ audio' = "idle"
    /\ UNCHANGED <<values, dirty, queue, hand, told, mainVars, guiVars, doubt, hostView>>

-------------------------------------------------------------------------------
(* GUI thread: the editor's handlers.  A handler changes the editor at once *)
(* and leaves what it sends in outbox; TellHost and Push are what           *)
(* send_gui_event does with each event.                                     *)

\* A VST3 host on this thread is told first, and then only an UPDATE is queued,
\* for the audio thread to store and not to forward.
ToldIsEnough(ev) == FALSE
StillQueued(ev) == ev.type = "UPDATE"

TellHost ==
    /\ outbox # <<>> /\ DirectHost /\ Head(outbox).forward
    /\ LET ev == Head(outbox)
       IN /\ open' = Hears(ev)
          /\ known' = Learns(ev)
          /\ astray' = IF ev.type = "UPDATE" THEN astray \ {ev.param} ELSE astray
          /\ outbox' = IF StillQueued(ev)
                       THEN <<[ev EXCEPT !.forward = FALSE]>> \o Tail(outbox)
                       ELSE Tail(outbox)
    /\ UNCHANGED <<values, dirty, queue, audioVars, mainVars, editorVars, refresh,
                   doubt, host, broken>>

\* The result of ParamQueue_Push is not looked at.
Push ==
    /\ outbox # <<>> /\ (DirectHost => ~Head(outbox).forward)
    /\ LET ev == Head(outbox)
           room == Len(queue) < Capacity
       IN /\ queue' = IF room THEN Append(queue, ev) ELSE queue
          /\ doubt' = IF ev.type = "UPDATE"
                      THEN [doubt EXCEPT ![ev.param] = ~room] ELSE doubt
          /\ astray' = IF ~room /\ ~ev.forward THEN astray \cup {ev.param}
                       ELSE astray
          /\ broken' = IF ~room /\ ev.type # "UPDATE"
                       THEN broken \cup {ev.param} ELSE broken
    /\ outbox' = Tail(outbox)
    /\ UNCHANGED <<values, dirty, audioVars, mainVars, editorVars, refresh, host,
                   open, known>>

\* Editor_MouseDown, single click.
MouseDown(p) ==
    /\ GuiFree /\ ~pressed
    /\ pressed' = TRUE
    /\ lastClick' = p
    /\ active' = p
    /\ dragging' = dragging \cup {p}
    /\ outbox' = <<Gesture("BEGIN", p)>>
    /\ UNCHANGED <<values, dirty, queue, audioVars, mainVars, view, knob,
                   refresh, doubt, hostView>>

\* Editor_MouseDown within DOUBLE_CLICK_SECONDS of the last one on the same
\* knob: reset to the default, a gesture of its own.
DoubleClick(p) ==
    /\ GuiFree /\ ~pressed /\ lastClick = p
    /\ pressed' = TRUE
    /\ knob' = [knob EXCEPT ![p] = Normalise(Default)]
    /\ outbox' = <<Gesture("BEGIN", p), Update(p, knob'[p]), Gesture("END", p)>>
    /\ UNCHANGED <<values, dirty, queue, audioVars, mainVars, view, dragging,
                   active, lastClick, refresh, doubt, hostView>>

\* Editor_MouseUp.
MouseUp ==
    /\ GuiFree /\ pressed
    /\ pressed' = FALSE
    /\ active' = None
    /\ dragging' = dragging \ {active}
    /\ outbox' = IF active = None THEN <<>> ELSE <<Gesture("END", active)>>
    /\ UNCHANGED <<values, dirty, queue, audioVars, mainVars, view, knob,
                   lastClick, refresh, doubt, hostView>>

\* Editor_MouseMove with a knob active: Knob_DragTo moves it anywhere, and a
\* change is sent.
MouseMove(pos) ==
    /\ GuiFree /\ active # None
    /\ active \in dragging
    /\ knob[active] # pos
    /\ knob' = [knob EXCEPT ![active] = pos]
    /\ outbox' = <<Update(active, pos)>>
    /\ UNCHANGED <<values, dirty, queue, audioVars, mainVars, view, dragging,
                   active, pressed, lastClick, refresh, doubt, hostView>>

\* Editor_Scroll: the active knob if there is one, else the one under the
\* pointer; a gesture of its own unless a drag is in progress.
Scroll(p, pos) ==
    /\ GuiFree
    /\ active \in {p, None}
    /\ knob[p] # pos
    /\ knob' = [knob EXCEPT ![p] = pos]
    /\ outbox' = IF OwnGesture(p)
                 THEN <<Gesture("BEGIN", p), Update(p, pos), Gesture("END", p)>>
                 ELSE <<Update(p, pos)>>
    /\ UNCHANGED <<values, dirty, queue, audioVars, mainVars, view, dragging,
                   active, pressed, lastClick, refresh, doubt, hostView>>

\* Editor_Tick: take the mask; knobs being dragged are left alone.
Tick ==
    /\ GuiFree
    /\ dirty' = {}
    /\ refresh' = dirty \ dragging
    /\ doubt' = [p \in Params |->
                    doubt[p] \/ (p \in dirty \cap dragging /\ ~Pending(p))]
    /\ UNCHANGED <<values, queue, audioVars, mainVars, editorVars, outbox, hostView>>

\* One turn of the loop in Editor_Tick or Editor_SyncFromPlugin: read the
\* value and turn the knob to it.
Reread(p) ==
    /\ p \in refresh /\ \A q \in refresh : p <= q
    /\ knob' = [knob EXCEPT ![p] = Normalise(values[p])]
    /\ refresh' = refresh \ {p}
    /\ doubt' = [doubt EXCEPT ![p] = Pending(p)]
    /\ UNCHANGED <<values, dirty, queue, audioVars, mainVars, view, dragging,
                   active, pressed, lastClick, outbox, hostView>>

-------------------------------------------------------------------------------
(* Opening and closing the view: window-pugl.c, editor.c *)

\* cplug_createGUI: Editor_Create, which ends in Editor_SyncFromPlugin.
CreateGUI ==
    /\ view = "closed" /\ MainIdle
    /\ view' = "created"
    /\ knob' = [p \in Params |-> Normalise(Default)]
    /\ dragging' = {} /\ active' = None /\ lastClick' = None /\ pressed' = FALSE
    /\ refresh' = Params
    /\ UNCHANGED <<values, dirty, queue, audioVars, mainVars, outbox, doubt, hostView>>

\* cplug_setParent with a parent: the view is realized, which syncs the editor.
Attach ==
    /\ view = "created" /\ MainIdle /\ GuiIdle
    /\ view' = "attached"
    /\ refresh' = Params
    /\ UNCHANGED <<values, dirty, queue, audioVars, mainVars, knob, dragging,
                   active, pressed, lastClick, outbox, doubt, hostView>>

\* cplug_setParent(NULL): the view goes, wherever the pointer is; the editor
\* stays as it is.
Detach ==
    /\ view = "attached" /\ MainIdle /\ GuiIdle
    /\ view' = "created"
    /\ pressed' = FALSE
    /\ broken' = broken \cup ({active} \ {None})
    /\ UNCHANGED <<values, dirty, queue, audioVars, mainVars, knob, dragging,
                   active, lastClick, refresh, outbox,
                   doubt, host, open, known, astray>>

\* cplug_destroyGUI.
DestroyGUI ==
    /\ view # "closed" /\ MainIdle /\ GuiIdle
    /\ view' = "closed"
    /\ knob' = [p \in Params |-> Normalise(Default)]
    /\ dragging' = {} /\ active' = None /\ lastClick' = None /\ pressed' = FALSE
    /\ broken' = broken \cup ({active} \ {None})
    /\ UNCHANGED <<values, dirty, queue, audioVars, mainVars, refresh, outbox,
                   doubt, host, open, known, astray>>

-------------------------------------------------------------------------------

\* cplug_createPlugin.
Init ==
    /\ values = [p \in Params |-> Default]
    /\ dirty = {} /\ queue = <<>>
    /\ hand = None /\ audio = "idle" /\ told = None
    /\ chunk = <<>> /\ noted = None
    /\ view = "closed"
    /\ knob = [p \in Params |-> Normalise(Default)]
    /\ dragging = {} /\ active = None /\ pressed = FALSE /\ lastClick = None
    /\ refresh = {} /\ outbox = <<>>
    /\ doubt = [p \in Params |-> FALSE]
    /\ host \in Hosts
    /\ open = {} /\ known = values
    /\ broken = {} /\ astray = {}

MainStep == MainStore \/ MainNotify
AudioStep == ProcessBegin \/ DrainPop \/ DrainStore \/ Forward \/ DrainEnd
             \/ AutomationNotify \/ ProcessEnd
Send == TellHost \/ Push
GuiStep == Send \/ Tick \/ \E p \in Params : Reread(p)

\* What the host and the user decide to do.
HostAct == \/ \E p \in Params, v \in HostValues :
                 SetParameter(p, v) \/ AutomationStore(p, v)
           \/ \E c \in Chunks : LoadState(c)
           \/ CreateGUI \/ Attach \/ Detach \/ DestroyGUI
UserAct == \/ \E p \in Params : MouseDown(p) \/ DoubleClick(p)
           \/ MouseUp
           \/ \E pos \in Positions : MouseMove(pos)
           \/ \E p \in Params, pos \in Positions : Scroll(p, pos)

Next == MainStep \/ AudioStep \/ GuiStep \/ HostAct \/ UserAct

Spec == Init /\ [][Next]_vars

\* The host keeps processing audio, calls that have begun run to their end and
\* the view's timer keeps ticking.
FairSpec == /\ Spec
            /\ WF_vars(MainStep)
            /\ WF_vars(AudioStep)
            /\ WF_vars(Send) /\ WF_vars(Tick)
            /\ WF_vars(\E p \in Params : Reread(p))
-------------------------------------------------------------------------------
(* Correctness *)

Option(S) == S \cup {None}

TypeOK ==
    /\ values \in [Params -> Lo .. Hi]
    /\ dirty \subseteq Params
    /\ queue \in Seq(ParamEvent) /\ Len(queue) <= Capacity
    /\ hand \in Option(ParamEvent)
    /\ audio \in {"idle", "drain", "store", "forward", "events"}
    /\ hand # None <=> audio \in {"store", "forward"}
    /\ audio = "store" => hand.type = "UPDATE"
    /\ told \in Option(Params) /\ (told # None => audio = "events")
    /\ chunk \in Seq(Params \X HostValues)
    /\ noted \in Option(Params)
    /\ view \in {"closed", "created", "attached"}
    /\ knob \in [Params -> Positions]
    /\ dragging \subseteq Params
    /\ active \in Option(Params) /\ lastClick \in Option(Params)
    /\ pressed \in BOOLEAN
    /\ refresh \subseteq Params
    /\ outbox \in Seq(ParamEvent)
    /\ doubt \in [Params -> BOOLEAN]
    /\ host \in Hosts
    /\ open \subseteq Params /\ known \in [Params -> Lo .. Hi]
    /\ broken \subseteq Params /\ astray \subseteq Params

\* A change of p by the host is on its way to p's knob: stored and about to be
\* marked, marked, or being re-read.
Due(p) == p \in dirty \cup refresh \/ told = p \/ noted = p

\* The newest edit of p among the events of s sets it to v.
LastIs(s, p, v) == \E i \in DOMAIN s :
                      /\ IsUpdate(s[i], p) /\ s[i].val = v
                      /\ \A j \in DOMAIN s : j > i => ~IsUpdate(s[j], p)

\* The value p will have once the audio thread has drained the queue, if an edit
\* of p is in flight: that of the newest UPDATE.
Newest(p, v) == \/ LastIs(queue, p, v)
                \/ InHand(p) /\ hand.val = v /\ ~Holds(queue, p)

\* A knob of an open view shows the value the plugin has or is about to have,
\* unless a change is still on its way to it.  doubt names the only ways out:
\* an UPDATE the full queue refused (plugin.c:304); a change taken from the mask
\* while its knob was dragged with no edit in flight (editor.c:65); a re-read
\* while an edit was in flight (editor.c:66, 55).
KnobsCoherent ==
    view = "attached" =>
        \A p \in Params : ~doubt[p] /\ ~Unsent(p) =>
            /\ \A v \in Lo .. Hi : p \notin refresh /\ Newest(p, v) => knob[p] = Normalise(v)
            /\ ~Pending(p) /\ ~Due(p) => knob[p] = Normalise(values[p])

\* Once the host and the user leave the parameters alone and the view stays
\* open, every knob comes to rest on its parameter's value, unless it fell in
\* doubt on the way: no notification is lost between the mask and the queue.
KnobsSettle ==
    (<>[](view = "attached") /\ <>[][~(HostAct \/ UserAct)]_vars) =>
        \A p \in Params : <>[](doubt[p] \/ knob[p] = Normalise(values[p]))

\* What the host is told next: by the GUI itself if it is told on this thread,
\* else by the audio thread.
ToldNext == CASE audio = "forward" -> hand
              [] DirectHost /\ outbox # <<>> /\ Head(outbox).forward -> Head(outbox)
              [] OTHER -> None

\* What the host is told next continues the gesture it is in: a BEGIN opens
\* one, values and END come within it.
ContinuesGesture == \/ ToldNext = None
                    \/ (ToldNext.type = "BEGIN") # (ToldNext.param \in open)

\* Whatever the editor goes through (drags, double clicks, scrolling during a
\* drag, closing and reopening), the host is told of well-formed gestures on
\* every parameter, until the full queue swallows an end of one or the view goes
\* away in the middle of one, or the host refuses one of its ends
\* (editor.c:117-175, plugin.c:286-305).
GesturesWellFormed ==
    ToldNext # None => ToldNext.param \in broken \/ ContinuesGesture

\* Whatever crosses on the way between the three threads, the host ends up
\* knowing each parameter as the plugin has it.  astray names the only ways out:
\* a value the host set while an edit was told and not stored, or stored and not
\* told (plugin.c:158, 165, 300-304); an edit told and refused by the full queue
\* (plugin.c:304); an edit stored and refused by the host (plugin.c:165).
HostKnows ==
    \A p \in Params \ astray :
        ~Pending(p) /\ ~Crossing(p) => known[p] = values[p]

\* "A knob interaction: BeginGesture, any number of Set..., EndGesture."
\* (plugin.h:20): the same, whatever happens to the view.
GesturesNest == ContinuesGesture

\* "A knob being dragged already shows the newest value" (editor.c:63): a change
\* the tick passes over is one the knob is ahead of.
DraggedShowsNewest ==
    [][Tick => \A p \in dirty \cap dragging :
                 Pending(p) \/ knob[p] = Normalise(values[p])]_vars

===============================================================================
