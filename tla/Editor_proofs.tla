---------------------------- MODULE Editor_proofs -----------------------------
(***************************************************************************)
(* Proofs about Editor, for any number of knobs, wherever they lie and     *)
(* whatever their scales, drag and wheel distances are.                    *)
(*                                                                         *)
(* The button and the gesture end together unless the view goes away       *)
(* between (ButtonHeld), and no pointer is over a view that is not there   *)
(* (Gone): with these the editor's properties are inductive.  A drag that  *)
(* has been fine all along has its knob where the pointer says (SteadyInv),*)
(* and a scale that only rises lets a value find its position, and a text  *)
(* its value, again.                                                       *)
(***************************************************************************)
EXTENDS Editor, FiniteSetTheorems, TLAPS

\* A drag that kept its view is one whose button is down.
ButtonHeld == active \in cut \cup {None} \/ pressed

\* Exactly the knob being dragged is inside a gesture, as the host sees it.
DragIsGesture == open \ cut = {active} \ ({None} \cup cut)

\* A view taken away takes the pointer and the button with it.
Gone == ~attached => at = None /\ ~pressed

DragInv == OneDrag /\ GesturesPaired /\ DragIsGesture /\ ButtonHeld
IInv == DragInv /\ Gone /\ HoverHonest /\ RepaintOwed

\* What the steps of the drag turn on.
dragView == <<dragging, active, pressed, open, misfit, cut>>

-------------------------------------------------------------------------------
(* The drag and its gesture *)

\* Nothing the drag turns on changes: the wheel of no knob, hovering, ticks,
\* paints, modifiers and the clock.
LEMMA DragStutters == DragInv /\ UNCHANGED dragView => DragInv'
  BY DEF DragInv, OneDrag, GesturesPaired, DragIsGesture, ButtonHeld, dragView

\* A press finds no drag with its view still going on, so that no gesture is open.
LEMMA PressIsFirst ==
    ASSUME DragInv, ~pressed
    PROVE  open \subseteq cut /\ dragging \subseteq cut /\ active \in cut \cup {None}
  BY DEF DragInv, OneDrag, DragIsGesture, ButtonHeld

\* Editor_MouseDown, both clicks (editor.c:117-142).
LEMMA PressInv ==
    ASSUME NEW pt, DragInv, MouseDown(pt) \/ DoubleClick(pt) \/ MouseDownBeside(pt)
    PROVE  DragInv'
  <1>1. ~pressed
    BY DEF MouseDown, DoubleClick, MouseDownBeside
  <1>2. open \subseteq cut /\ dragging \subseteq cut /\ active \in cut \cup {None}
    BY <1>1, PressIsFirst
  <1>3. misfit \subseteq cut
    BY DEF DragInv, GesturesPaired
  <1>4. CASE MouseDown(pt)
    <2> DEFINE p == knob_at(pt)
    <2>1. /\ p # None /\ active' = p /\ dragging' = dragging \cup {p}
          /\ open' = open \cup {p} /\ misfit' = misfit \cup ({p} \cap open)
          /\ pressed' = TRUE /\ cut' = cut
      BY <1>4 DEF MouseDown, Begins, Knob_DragBegin
    <2> HIDE DEF p
    <2> QED  BY <1>2, <1>3, <2>1
             DEF DragInv, OneDrag, GesturesPaired, DragIsGesture, ButtonHeld
  <1>5. CASE DoubleClick(pt)
    <2> DEFINE p == knob_at(pt)
    <2>1. /\ active' = active /\ dragging' = dragging
          /\ open' = open \ {p} /\ misfit' = misfit \cup ({p} \cap open)
          /\ pressed' = TRUE /\ cut' = cut
      BY <1>5 DEF DoubleClick, WholeGesture, drag
    <2> HIDE DEF p
    <2> QED  BY <1>2, <1>3, <2>1
             DEF DragInv, OneDrag, GesturesPaired, DragIsGesture, ButtonHeld
  <1>6. CASE MouseDownBeside(pt)
    <2>1. /\ active' = active /\ dragging' = dragging /\ open' = open
          /\ misfit' = misfit /\ pressed' = TRUE /\ cut' = cut
      BY <1>6 DEF MouseDownBeside, knobs, drag, told
    <2> QED  BY <1>2, <1>3, <2>1
             DEF DragInv, OneDrag, GesturesPaired, DragIsGesture, ButtonHeld
  <1> QED  BY <1>4, <1>5, <1>6

\* Editor_MouseUp (editor.c:144-151).
LEMMA ReleaseInv ==
    ASSUME DragInv, MouseUpIdle \/ \E pt \in Points : MouseUp(pt)
    PROVE  DragInv'
  <1>1. CASE MouseUpIdle
    <2>1. /\ active = None /\ active' = active /\ dragging' = dragging
          /\ open' = open /\ misfit' = misfit /\ cut' = cut
      BY <1>1 DEF MouseUpIdle, knobs, drag, told
    <2> QED  BY <2>1 DEF DragInv, OneDrag, GesturesPaired, DragIsGesture, ButtonHeld
  <1>2. ASSUME NEW pt \in Points, MouseUp(pt)
        PROVE  DragInv'
    <2>1. /\ active # None /\ active' = None
          /\ dragging' = dragging \ {active} /\ open' = open \ {active}
          /\ misfit' = misfit \cup ({active} \ open) /\ cut' = cut
      BY <1>2 DEF MouseUp, Released, Ends
    <2> QED  BY <2>1 DEF DragInv, OneDrag, GesturesPaired, DragIsGesture, ButtonHeld
  <1> QED  BY <1>1, <1>2

\* Editor_MouseMove with a knob active, and Editor_Scroll (editor.c:153-158,
\* 166-175).
LEMMA TurnInv ==
    ASSUME NEW pt, DragInv, Drag(pt) \/ \E lines \in Lines : Scroll(pt, lines)
    PROVE  DragInv'
  <1>1. CASE Drag(pt)
    <2>1. /\ active # None /\ active' = active /\ dragging' = dragging
          /\ pressed' = pressed /\ cut' = cut /\ open' = open
          /\ misfit' = misfit \/ misfit' = misfit \cup ({active} \ open)
      BY <1>1 DEF Drag, Updates, drag, told
    <2> QED  BY <2>1 DEF DragInv, OneDrag, GesturesPaired, DragIsGesture, ButtonHeld
  <1>2. ASSUME NEW lines \in Lines, Scroll(pt, lines)
        PROVE  DragInv'
    <2> DEFINE p == IF active # None THEN active ELSE knob_at(pt)
    <2>1. /\ p # None /\ active' = active /\ dragging' = dragging
          /\ pressed' = pressed /\ cut' = cut
          /\ IF active = p THEN open' = open /\ misfit' = misfit \cup ({p} \ open)
             ELSE open' = open \ {p} /\ misfit' = misfit \cup ({p} \cap open)
      BY <1>2 DEF Scroll, StepTold, Updates, WholeGesture, drag, pointer
    <2>2. active \in {p, None}
      OBVIOUS
    <2> HIDE DEF p
    <2>3. CASE active = p
      BY <2>1, <2>3 DEF DragInv, OneDrag, GesturesPaired, DragIsGesture, ButtonHeld
    <2>4. CASE active # p
      <3>1. active = None
        BY <2>2, <2>4
      <3>2. open \subseteq cut
        BY <3>1 DEF DragInv, DragIsGesture
      <3> QED  BY <2>1, <2>4, <3>1, <3>2
               DEF DragInv, OneDrag, GesturesPaired, DragIsGesture, ButtonHeld
    <2> QED  BY <2>3, <2>4
  <1> QED  BY <1>1, <1>2

\* The view goes away, and the editor after it (window-pugl.c:246-253,
\* editor.c:33-46).
LEMMA AwayInv ==
    ASSUME DragInv, Gone, Detach \/ \E read \in Reads : Recreate(read)
    PROVE  DragInv'
  <1>1. CASE Detach
    <2>1. /\ active' = active /\ dragging' = dragging /\ open' = open
          /\ misfit' = misfit /\ cut' = cut \cup ({active} \ {None})
      BY <1>1 DEF Detach, knobs, drag, told
    <2> QED  BY <2>1 DEF DragInv, OneDrag, GesturesPaired, DragIsGesture, ButtonHeld
  <1>2. ASSUME NEW read \in Reads, Recreate(read)
        PROVE  DragInv'
    <2>1. /\ ~attached /\ active' = None /\ dragging' = {} /\ open' = open
          /\ misfit' = misfit /\ cut' = cut
      BY <1>2 DEF Recreate, told
    <2>2. open \subseteq cut
      BY <2>1, PressIsFirst DEF Gone
    <2> QED  BY <2>1, <2>2 DEF DragInv, OneDrag, GesturesPaired, DragIsGesture, ButtonHeld
  <1> QED  BY <1>1, <1>2

LEMMA DragStep == DragInv /\ Gone /\ [Next]_vars => DragInv'
  <1> SUFFICES ASSUME DragInv, Gone, [Next]_vars  PROVE DragInv'
    OBVIOUS
  <1>1. ASSUME NEW pt \in Points,
               MouseDown(pt) \/ DoubleClick(pt) \/ MouseDownBeside(pt)
        PROVE  DragInv'
    BY <1>1, PressInv
  <1>2. CASE MouseUpIdle \/ \E pt \in Points : MouseUp(pt)
    BY <1>2, ReleaseInv
  <1>3. ASSUME NEW pt \in Points, Drag(pt) \/ \E lines \in Lines : Scroll(pt, lines)
        PROVE  DragInv'
    BY <1>3, TurnInv
  <1>4. ASSUME NEW pt \in Points, Hover(pt)  PROVE DragInv'
    BY <1>4, DragStutters DEF Hover, drag, told, dragView
  <1>5. CASE MouseLeave
    BY <1>5, DragStutters DEF MouseLeave, drag, told, dragView
  <1>6. CASE Modifier
    BY <1>6, DragStutters DEF Modifier, drag, told, dragView
  <1>7. CASE ClickExpires
    BY <1>7, DragStutters DEF ClickExpires, knobs, drag, pointer, told, dragView
  <1>8. ASSUME NEW read \in Reads, Attach(read)  PROVE DragInv'
    BY <1>8, DragStutters DEF Attach, drag, pointer, told, dragView
  <1>9. CASE Detach \/ \E read \in Reads : Recreate(read)
    BY <1>9, AwayInv
  <1>10. ASSUME NEW read, Tick(read)  PROVE DragInv'
    BY <1>10, DragStutters DEF Tick, drag, pointer, told, dragView
  <1>11. CASE Expose
    BY <1>11, DragStutters DEF Expose, knobs, drag, pointer, told, dragView
  <1>12. CASE UNCHANGED vars
    BY <1>12, DragStutters DEF vars, knobs, drag, pointer, told, dragView
  <1> QED
    BY <1>1, <1>2, <1>3, <1>4, <1>5, <1>6, <1>7, <1>8, <1>9, <1>10, <1>11, <1>12
       DEF Next, UserAct, HostAct, Poll

-------------------------------------------------------------------------------
(* The pointer and the lit knob *)

\* Every event comes to a view that is there, and leaves it there.
LEMMA EventsAttached == ASSUME NEW d, OnEvent(d)  PROVE attached /\ attached'
  BY DEF OnEvent

LEMMA HoverStep == Gone /\ HoverHonest /\ [Next]_vars => Gone' /\ HoverHonest'
  <1> SUFFICES ASSUME Gone, HoverHonest, [Next]_vars  PROVE Gone' /\ HoverHonest'
    OBVIOUS
  <1> USE DEF Gone, HoverHonest
  <1>1. ASSUME NEW pt \in Points, MouseDown(pt)  PROVE Gone' /\ HoverHonest'
    <2>1. active' = knob_at(pt) /\ knob_at(pt) # None /\ attached'
      BY <1>1, EventsAttached DEF MouseDown
    <2> QED  BY <2>1
  <1>2. ASSUME NEW pt \in Points, DoubleClick(pt)  PROVE Gone' /\ HoverHonest'
    <2>1. attached' /\ active' = active /\ hovered' = hovered /\ at' = at
      BY <1>2, EventsAttached DEF DoubleClick, drag
    <2> QED  BY <2>1
  <1>3. ASSUME NEW pt \in Points, MouseDownBeside(pt)  PROVE Gone' /\ HoverHonest'
    <2>1. attached' /\ active' = active /\ hovered' = hovered /\ at' = at
      BY <1>3, EventsAttached DEF MouseDownBeside, knobs, drag
    <2> QED  BY <2>1
  <1>4. ASSUME NEW pt \in Points, MouseUp(pt)  PROVE Gone' /\ HoverHonest'
    <2>1. attached' /\ hovered' = knob_at(pt) /\ at' = pt
      BY <1>4, EventsAttached DEF MouseUp, HoverReleased
    <2> QED  BY <2>1
  <1>5. CASE MouseUpIdle
    <2>1. attached' /\ active' = active /\ hovered' = hovered /\ at' = at
      BY <1>5, EventsAttached DEF MouseUpIdle, knobs, drag
    <2> QED  BY <2>1
  <1>6. ASSUME NEW pt \in Points, Drag(pt)  PROVE Gone' /\ HoverHonest'
    <2>1. attached' /\ active' = active /\ active # None
      BY <1>6, EventsAttached DEF Drag, drag
    <2> QED  BY <2>1
  <1>7. ASSUME NEW pt \in Points, Hover(pt)  PROVE Gone' /\ HoverHonest'
    <2>1. attached' /\ hovered' = knob_at(pt) /\ at' = pt
      BY <1>7, EventsAttached DEF Hover
    <2> QED  BY <2>1
  <1>8. CASE MouseLeave
    <2>1. attached' /\ at' = None
      BY <1>8, EventsAttached DEF MouseLeave
    <2> QED  BY <2>1
  <1>9. ASSUME NEW pt \in Points, NEW lines \in Lines, Scroll(pt, lines)
        PROVE  Gone' /\ HoverHonest'
    <2>1. attached' /\ active' = active /\ hovered' = hovered /\ at' = at
      BY <1>9, EventsAttached DEF Scroll, drag, pointer
    <2> QED  BY <2>1
  <1>10. CASE Modifier
    BY <1>10 DEF Modifier, drag
  <1>11. CASE ClickExpires
    BY <1>11 DEF ClickExpires, knobs, drag, pointer
  <1>12. ASSUME NEW read \in Reads, Attach(read)  PROVE Gone' /\ HoverHonest'
    BY <1>12 DEF Attach, drag, pointer
  <1>13. ASSUME NEW read \in Reads, Recreate(read)  PROVE Gone' /\ HoverHonest'
    BY <1>13 DEF Recreate, pointer
  <1>14. CASE Detach
    BY <1>14 DEF Detach
  <1>15. ASSUME NEW read, Tick(read)  PROVE Gone' /\ HoverHonest'
    BY <1>15 DEF Tick, drag, pointer
  <1>16. CASE Expose
    BY <1>16 DEF Expose, knobs, drag, pointer
  <1>17. CASE UNCHANGED vars
    BY <1>17 DEF vars, knobs, drag, pointer
  <1> QED
    BY <1>1, <1>2, <1>3, <1>4, <1>5, <1>6, <1>7, <1>8, <1>9, <1>10, <1>11, <1>12,
       <1>13, <1>14, <1>15, <1>16, <1>17
       DEF Next, UserAct, HostAct, Poll

-------------------------------------------------------------------------------
(* The picture *)

\* No knob ages while its value, the lit knob and the drags stay as they are.
LEMMA SameLook ==
    ASSUME Aged, value' = value, hovered' = hovered, dragging' = dragging
    PROVE  stale' = stale
  <1>1. ASSUME NEW p \in Params  PROVE Look(p)' = Look(p)
    BY DEF Look
  <1> QED  BY <1>1 DEF Aged

\* on_event asks for a repaint of whatever its handler changed and said so.
LEMMA EventRepaints ==
    ASSUME NEW d \in BOOLEAN, RepaintOwed, OnEvent(d),
           d \/ (value' = value /\ hovered' = hovered /\ dragging' = dragging)
    PROVE  RepaintOwed'
  <1>1. attached /\ attached' /\ Aged /\ exposed' = (exposed \/ d \/ dirty)
    BY DEF OnEvent, Obscures
  <1>2. CASE d
    BY <1>1, <1>2 DEF RepaintOwed
  <1>3. CASE value' = value /\ hovered' = hovered /\ dragging' = dragging
    <2>1. stale' = stale
      BY <1>1, <1>3, SameLook
    <2> QED  BY <1>1, <2>1 DEF RepaintOwed
  <1> QED  BY <1>2, <1>3

LEMMA RepaintStep == RepaintOwed /\ [Next]_vars => RepaintOwed'
  <1> SUFFICES ASSUME RepaintOwed, [Next]_vars  PROVE RepaintOwed'
    OBVIOUS
  <1>1. ASSUME NEW pt \in Points,
               \/ MouseDown(pt) \/ DoubleClick(pt) \/ MouseUp(pt)
               \/ \E lines \in Lines : Scroll(pt, lines)
        PROVE  RepaintOwed'
    <2>1. OnEvent(TRUE)
      BY <1>1 DEF MouseDown, DoubleClick, MouseUp, Scroll
    <2> QED  BY <2>1, EventRepaints
  <1>2. ASSUME NEW pt \in Points, MouseDownBeside(pt)  PROVE RepaintOwed'
    <2>1. OnEvent(FALSE) /\ value' = value /\ hovered' = hovered /\ dragging' = dragging
      BY <1>2 DEF MouseDownBeside, knobs, drag
    <2> QED  BY <2>1, EventRepaints
  <1>3. CASE MouseUpIdle
    <2>1. OnEvent(FALSE) /\ value' = value /\ hovered' = hovered /\ dragging' = dragging
      BY <1>3 DEF MouseUpIdle, knobs, drag
    <2> QED  BY <2>1, EventRepaints
  <1>4. ASSUME NEW pt \in Points, Drag(pt)  PROVE RepaintOwed'
    <2>1. OnEvent(value' # value) /\ hovered' = hovered /\ dragging' = dragging
      BY <1>4 DEF Drag, drag
    <2>2. (value' # value) \in BOOLEAN
      OBVIOUS
    <2> QED  BY <2>1, <2>2, EventRepaints
  <1>5. ASSUME NEW pt \in Points, Hover(pt)  PROVE RepaintOwed'
    <2> DEFINE d == HoverDirties(knob_at(pt))
    <2>1. OnEvent(d) /\ value' = value /\ dragging' = dragging /\ hovered' = knob_at(pt)
      BY <1>5 DEF Hover, drag
    <2>2. d \in BOOLEAN /\ (d \/ hovered' = hovered)
      BY <2>1 DEF HoverDirties
    <2> QED  BY <2>1, <2>2, EventRepaints
  <1>6. CASE MouseLeave
    <2> DEFINE d == HoverDirties(HoverLeft)
    <2>1. OnEvent(d) /\ value' = value /\ dragging' = dragging /\ hovered' = HoverLeft
      BY <1>6 DEF MouseLeave, drag
    <2>2. d \in BOOLEAN /\ (d \/ hovered' = hovered)
      BY <2>1 DEF HoverDirties
    <2> QED  BY <2>1, <2>2, EventRepaints
  <1>7. ASSUME NEW read, Tick(read)  PROVE RepaintOwed'
    <2>1. /\ attached' = attached /\ Aged /\ hovered' = hovered /\ dragging' = dragging
          /\ \/ exposed' = (exposed \/ (dirty \/ value' # value))
             \/ exposed' = (exposed \/ (dirty \/ value' # value) \/ dirty)
      BY <1>7 DEF Tick, Obscures, drag
    <2>2. CASE value' = value
      <3>1. stale' = stale
        BY <2>1, <2>2, SameLook
      <3> QED  BY <2>1, <3>1 DEF RepaintOwed
    <2>3. CASE value' # value
      BY <2>1, <2>3 DEF RepaintOwed
    <2> QED  BY <2>2, <2>3
  <1>8. CASE Modifier
    BY <1>8 DEF Modifier, RepaintOwed
  <1>9. CASE ClickExpires
    BY <1>9 DEF ClickExpires, RepaintOwed
  <1>10. ASSUME NEW read \in Reads, Attach(read)  PROVE RepaintOwed'
    BY <1>10 DEF Attach, RepaintOwed
  <1>11. ASSUME NEW read \in Reads, Recreate(read)  PROVE RepaintOwed'
    BY <1>11 DEF Recreate, RepaintOwed
  <1>12. CASE Detach
    BY <1>12 DEF Detach, RepaintOwed
  <1>13. CASE Expose
    BY <1>13 DEF Expose, RepaintOwed
  <1>14. CASE UNCHANGED vars
    BY <1>14 DEF vars, RepaintOwed
  <1> QED
    BY <1>1, <1>2, <1>3, <1>4, <1>5, <1>6, <1>7, <1>8, <1>9, <1>10, <1>11, <1>12,
       <1>13, <1>14
       DEF Next, UserAct, HostAct, Poll

-------------------------------------------------------------------------------
(* Conversions and texts: params.c *)

LEMMA InfoType ==
    /\ \A p \in Params : /\ Param_Info[p].min \in Int /\ Param_Info[p].max \in Int
                         /\ Param_Info[p].def \in Int
                         /\ Param_Info[p].min <= Param_Info[p].def
                         /\ Param_Info[p].def <= Param_Info[p].max
    /\ \A p, q \in Params : Param_Info[p].id = Param_Info[q].id => p = q
  BY ScaleAssumption DEF Param_Info, PARAM_GAIN, PARAM_SPEAKER_CUTOFF,
       PARAM_BANDPASS_HIGH, PARAM_COUNT

\* knob.c:18, params.c:65.
LEMMA Clamp01Position == ASSUME NEW x \in Int  PROVE clamp01(x) \in Positions
  BY ScaleAssumption DEF clamp01, Positions

\* A scale stays between its ends.
LEMMA ScaleWithin ==
    ASSUME NEW p \in Params, NEW pos \in Positions
    PROVE  /\ Scale[p][pos] \in Param_Info[p].min .. Param_Info[p].max
           /\ Param_Clamp(p, Scale[p][pos]) = Scale[p][pos]
           /\ (pos = 0) <=> (Scale[p][pos] <= Param_Info[p].min)
  <1>1. /\ Top \in Nat \ {0} /\ Positions = 0 .. Top /\ Scale[p][pos] \in Int
        /\ Scale[p][0] = Param_Info[p].min /\ Scale[p][Top] = Param_Info[p].max
        /\ \A i, j \in Positions : i < j => Scale[p][i] < Scale[p][j]
    BY ScaleAssumption DEF Positions
  <1>2. Param_Info[p].min \in Int /\ Param_Info[p].max \in Int
    BY InfoType
  <1>3. pos = 0 \/ Scale[p][0] < Scale[p][pos]
    BY <1>1
  <1>4. pos = Top \/ Scale[p][pos] < Scale[p][Top]
    BY <1>1
  <1> QED  BY <1>1, <1>2, <1>3, <1>4 DEF Param_Clamp

LEMMA NormalisePosition ==
    ASSUME NEW p \in Params, NEW plain
    PROVE  Param_Normalise(p, plain) \in Positions
  <1> DEFINE passed == {pos \in 1 .. Top : Scale[p][pos] <= Param_Clamp(p, plain)}
  <1>1. IsFiniteSet(1 .. Top) /\ Cardinality(1 .. Top) = Top
    BY FS_Interval, ScaleAssumption
  <1>2. IsFiniteSet(passed) /\ Cardinality(passed) <= Top /\ Cardinality(passed) \in Nat
    BY <1>1, FS_Subset, FS_CardinalityType
  <1> QED  BY <1>2, ScaleAssumption DEF Param_Normalise, Positions

\* A plain value taken from the scale finds its position again (params.c:67-83).
LEMMA NormaliseBack ==
    ASSUME NEW p \in Params, NEW pos \in Positions
    PROVE  Param_Normalise(p, Scale[p][pos]) = pos
  <1>1. /\ Top \in Nat \ {0} /\ Positions = 0 .. Top
        /\ \A i \in Positions : Scale[p][i] \in Int
        /\ \A i, j \in Positions : i < j => Scale[p][i] < Scale[p][j]
    BY ScaleAssumption DEF Positions
  <1>2. {i \in 1 .. Top : Scale[p][i] <= Param_Clamp(p, Scale[p][pos])} = 1 .. pos
    <2>1. ASSUME NEW i \in 1 .. Top
          PROVE  Scale[p][i] <= Scale[p][pos] <=> i <= pos
      BY <1>1
    <2> QED  BY <1>1, <2>1, ScaleWithin
  <1>3. Cardinality(1 .. pos) = pos
    BY <1>1, FS_Interval
  <1> QED  BY <1>2, <1>3 DEF Param_Normalise

\* printf and strtod, there and back.
LEMMA RoundedBack ==
    ASSUME NEW x \in Int, NEW digit \in {10, 100}
    PROVE  /\ Rounded(x, digit) * digit \in Int
           /\ 2 * Abs(Rounded(x, digit) * digit - x) <= digit
  <1>1. CASE digit = 10
    BY <1>1 DEF Rounded, Abs
  <1>2. CASE digit = 100
    BY <1>2 DEF Rounded, Abs
  <1> QED  BY <1>1, <1>2

\* Clamping brings a number no further from a value within the limits.
LEMMA ClampNears ==
    ASSUME NEW p \in Params, NEW x \in Int,
           NEW plain \in Param_Info[p].min .. Param_Info[p].max
    PROVE  /\ Param_Clamp(p, x) \in Int
           /\ Abs(Param_Clamp(p, x) - plain) <= Abs(x - plain)
  BY InfoType DEF Param_Clamp, Abs

\* Param_Parse after Param_Format (params.c:85-117).
LEMMA ParsesBack ==
    ASSUME NEW p \in Params, NEW plain \in Param_Info[p].min .. Param_Info[p].max
    PROVE  2 * Abs(Param_Parse(p, Param_Format(p, plain)) - plain)
             <= Digit(Param_Format(p, plain))
  <1> DEFINE info == Param_Info[p]
             text == Param_Format(p, plain)
  <1>1. /\ info.min \in Int /\ plain \in Int /\ Param_Clamp(p, plain) = plain
    BY InfoType DEF Param_Clamp
  <1>3. CASE info.min_text /\ plain <= info.min
    <2>1. text = Off
      BY <1>1, <1>3 DEF Param_Format
    <2>3. plain = info.min
      BY <1>1, <1>3
    <2>2. Param_Parse(p, text) = info.min
      BY <1>3, <2>1 DEF Param_Parse, Off
    <2> QED  BY <1>1, <2>1, <2>2, <2>3 DEF Digit, Off, Abs
  <1>4. ASSUME NEW kilo \in BOOLEAN,
               text = Text(Rounded(plain, IF kilo THEN 100 ELSE 10), kilo)
        PROVE  2 * Abs(Param_Parse(p, text) - plain) <= Digit(text)
    <2> DEFINE digit == IF kilo THEN 100 ELSE 10
               back == Rounded(plain, digit) * digit
    <2>1. digit \in {10, 100}
      OBVIOUS
    <2>2. Digit(text) = digit /\ Param_Parse(p, text) = Param_Clamp(p, back)
      BY <1>4 DEF Digit, Text, Param_Parse, ReadNumber
    <2> HIDE DEF digit, text
    <2>3. back \in Int /\ 2 * Abs(back - plain) <= digit
      BY <1>1, <2>1, RoundedBack
    <2> HIDE DEF back
    <2>4. /\ Param_Clamp(p, back) \in Int
          /\ Abs(Param_Clamp(p, back) - plain) <= Abs(back - plain)
      BY <2>3, ClampNears
    <2>5. /\ Abs(Param_Clamp(p, back) - plain) \in Int /\ Abs(back - plain) \in Int
          /\ digit \in Int
      BY <1>1, <2>1, <2>3, <2>4 DEF Abs
    <2> QED  BY <2>2, <2>3, <2>4, <2>5
  <1>5. CASE ~(info.min_text /\ plain <= info.min)
    <2>1. CASE p # PARAM_GAIN /\ plain >= 10000
      <3>1. text = Text(Rounded(plain, 100), TRUE)
        BY <1>1, <1>5, <2>1 DEF Param_Format, Text
      <3> QED  BY <3>1, <1>4
    <2>2. CASE ~(p # PARAM_GAIN /\ plain >= 10000)
      <3>1. text = Text(Rounded(plain, 10), FALSE)
        BY <1>1, <1>5, <2>2 DEF Param_Format, Text
      <3> QED  BY <3>1, <1>4
    <2> QED  BY <2>1, <2>2
  <1> QED  BY <1>3, <1>5

-------------------------------------------------------------------------------
(* Types *)

\* A set of parameters with a member has a least one.
LEMMA FirstOf ==
    ASSUME NEW S \in SUBSET Params, S # {}
    PROVE  (CHOOSE p \in S : \A q \in S : p <= q) \in S
  <1>1. S \subseteq 0 .. 2
    BY ScaleAssumption DEF PARAM_COUNT
  <1>2. \E p \in S : \A q \in S : p <= q
    <2>1. CASE 0 \in S
      BY <1>1, <2>1
    <2>2. CASE 0 \notin S /\ 1 \in S
      BY <1>1, <2>2
    <2>3. CASE 0 \notin S /\ 1 \notin S
      <3>1. \A q \in S : q = 2
        BY <1>1, <2>3
      <3> QED  BY <3>1, S # {}
    <2> QED  BY <2>1, <2>2, <2>3
  <1> QED  BY <1>2

LEMMA KnobAtType == ASSUME NEW pt  PROVE knob_at(pt) \in Option(Params)
  <1> DEFINE hits == {p \in Params : Knob_Hit(p, pt)}
  <1>1. CASE hits = {}
    BY <1>1 DEF knob_at, Option
  <1>2. CASE hits # {}
    BY <1>2, FirstOf DEF knob_at, Option
  <1> QED  BY <1>1, <1>2

LEMMA TicksType ==
    ASSUME NEW range \in {KNOB_DRAG_PIXELS, KNOB_STEP_LINES}
    PROVE  Ticks(range) \in Int
  <1>1. /\ Top \in Nat /\ range \in Nat \ {0} /\ KNOB_FINE_FACTOR \in Nat \ {0}
    BY ScaleAssumption, EditorAssumption
  <1>2. range * KNOB_FINE_FACTOR \in Nat \ {0}
    BY <1>1
  <1>3. Top \div range \in Int
    BY <1>1
  <1>4. Top \div (range * KNOB_FINE_FACTOR) \in Int
    BY <1>1, <1>2
  <1> QED  BY <1>3, <1>4 DEF Ticks, FineTicks

LEMMA SetValueType ==
    ASSUME TypeOK, NEW p \in Params, NEW x \in Int, Knob_SetValue(p, x)
    PROVE  value' \in [Params -> Positions]
  BY Clamp01Position DEF TypeOK, Knob_SetValue

LEMMA DragToType ==
    ASSUME TypeOK, NEW pt \in Points
    PROVE  Knob_DragTo(pt[2]) \in Int
  <1>1. /\ drag_start.y \in Int /\ drag_start.value \in Int /\ pt[2] \in Int
    BY EditorAssumption DEF TypeOK, Positions
  <1>2. (drag_start.y - pt[2]) \in Int /\ Ticks(KNOB_DRAG_PIXELS) \in Int
    BY <1>1, TicksType
  <1>3. (drag_start.y - pt[2]) * Ticks(KNOB_DRAG_PIXELS) \in Int
    BY <1>2
  <1> QED  BY <1>1, <1>3 DEF Knob_DragTo

LEMMA StepType ==
    ASSUME TypeOK, NEW p \in Params, NEW lines \in Lines
    PROVE  Knob_Step(p, lines) \in Int
  <1>1. value[p] \in Int /\ lines \in Int /\ Ticks(KNOB_STEP_LINES) \in Int
    BY EditorAssumption, TicksType DEF TypeOK, Positions
  <1>2. lines * Ticks(KNOB_STEP_LINES) \in Int
    BY <1>1
  <1> QED  BY <1>1, <1>2 DEF Knob_Step

\* A knob's default is a position.
LEMMA DefaultType ==
    ASSUME NEW p \in Params
    PROVE  Param_Normalise(p, Param_Info[p].def) \in Positions
  BY NormalisePosition

LEMMA OnEventType ==
    ASSUME TypeOK, NEW d \in BOOLEAN, OnEvent(d)
    PROVE  /\ dirty' \in BOOLEAN /\ exposed' \in BOOLEAN /\ stale' \subseteq Params
           /\ host_thread' \in BOOLEAN /\ attached' \in BOOLEAN
  BY DEF TypeOK, OnEvent, Obscures, Aged

\* The presses.
LEMMA PressType ==
    ASSUME TypeOK, NEW pt \in Points,
           MouseDown(pt) \/ DoubleClick(pt) \/ MouseDownBeside(pt)
    PROVE  TypeOK'
  <1>1. CASE MouseDown(pt)
    <2>1. PICK p \in Params : knob_at(pt) = p
      BY <1>1, KnobAtType DEF MouseDown, Option
    <2>2. pt[2] \in Nat
      BY EditorAssumption
    <2>3. /\ dragging' \subseteq Params /\ drag_start' \in [y : Nat, value : Positions]
          /\ open' \subseteq Params /\ misfit' \subseteq Params
          /\ active' \in Params /\ last_click_knob' \in Params
      BY <1>1, <2>1, <2>2 DEF MouseDown, Knob_DragBegin, Begins, TypeOK
    <2> QED  BY <1>1, <2>3, OnEventType DEF MouseDown, TypeOK, Option
  <1>2. CASE DoubleClick(pt)
    <2>1. PICK p \in Params : knob_at(pt) = p
      BY <1>2, KnobAtType DEF DoubleClick, Option
    <2>2. Param_Normalise(p, Param_Info[p].def) \in Int
      BY DefaultType, ScaleAssumption DEF Positions
    <2>3. value' \in [Params -> Positions]
      BY <1>2, <2>1, <2>2, SetValueType DEF DoubleClick
    <2>4. open' \subseteq Params /\ misfit' \subseteq Params
      BY <1>2, <2>1 DEF DoubleClick, WholeGesture, TypeOK
    <2> QED  BY <1>2, <2>3, <2>4, OnEventType
             DEF DoubleClick, TypeOK, drag, clicks
  <1>3. CASE MouseDownBeside(pt)
    BY <1>3, OnEventType DEF MouseDownBeside, TypeOK, knobs, drag, clicks, told
  <1> QED  BY <1>1, <1>2, <1>3

\* The release that ends a drag.
LEMMA ReleaseType ==
    ASSUME TypeOK, NEW pt \in Points, MouseUp(pt)
    PROVE  TypeOK'
  <1>1. hovered' \in Option(Params)
    BY KnobAtType DEF MouseUp, HoverReleased
  <1>2. drag_start' \in [y : Nat, value : Positions]
    BY ScaleAssumption DEF MouseUp, NoDrag, Positions
  <1>3. dragging' \subseteq Params /\ open' \subseteq Params /\ misfit' \subseteq Params
    BY DEF MouseUp, Released, Ends, TypeOK, Option
  <1> QED  BY <1>1, <1>2, <1>3, OnEventType DEF MouseUp, TypeOK, Option, clicks

\* Moves with and without a drag.
LEMMA MoveType ==
    ASSUME TypeOK, NEW pt \in Points, Drag(pt) \/ Hover(pt)
    PROVE  TypeOK'
  <1>1. CASE Drag(pt)
    <2>1. active \in Params
      BY <1>1 DEF Drag, TypeOK, Option
    <2>2. value' \in [Params -> Positions]
      BY <1>1, <2>1, DragToType, SetValueType DEF Drag, TypeOK
    <2>3. open' \subseteq Params /\ misfit' \subseteq Params
      BY <1>1, <2>1 DEF Drag, Updates, told, TypeOK
    <2>4. (value' # value) \in BOOLEAN
      OBVIOUS
    <2> QED  BY <1>1, <2>2, <2>3, <2>4, OnEventType DEF Drag, TypeOK, Option, drag, clicks
  <1>2. CASE Hover(pt)
    <2>1. hovered' \in Option(Params) /\ HoverDirties(knob_at(pt)) \in BOOLEAN
      BY <1>2, KnobAtType DEF Hover, HoverDirties
    <2> QED  BY <1>2, <2>1, OnEventType DEF Hover, TypeOK, Option, drag, clicks, told
  <1> QED  BY <1>1, <1>2

\* The wheel.
LEMMA ScrollType ==
    ASSUME TypeOK, NEW pt \in Points, NEW lines \in Lines, Scroll(pt, lines)
    PROVE  TypeOK'
  <1>1. PICK p \in Params : p = IF active # None THEN active ELSE knob_at(pt)
    BY KnobAtType DEF Scroll, TypeOK, Option
  <1>2. value' \in [Params -> Positions]
    BY <1>1, StepType, SetValueType DEF Scroll
  <1>3. open' \subseteq Params /\ misfit' \subseteq Params
    BY <1>1 DEF Scroll, StepTold, Updates, WholeGesture, TypeOK
  <1> QED  BY <1>2, <1>3, OnEventType DEF Scroll, TypeOK, drag, clicks, pointer

\* The pointer's leaving, the button without a drag, keys and the clock.
LEMMA QuietType ==
    ASSUME TypeOK, MouseLeave \/ MouseUpIdle \/ Modifier \/ ClickExpires
    PROVE  TypeOK'
  <1>1. CASE MouseLeave
    <2>1. hovered' \in Option(Params) /\ HoverDirties(HoverLeft) \in BOOLEAN
      BY <1>1 DEF MouseLeave, HoverLeft, HoverDirties, TypeOK, Option
    <2> QED  BY <1>1, <2>1, OnEventType DEF MouseLeave, TypeOK, Option, drag, clicks, told
  <1>2. CASE Modifier
    BY <1>2 DEF Modifier, TypeOK, drag, clicks, told
  <1>3. CASE ClickExpires
    BY <1>3 DEF ClickExpires, TypeOK, knobs, drag, pointer, told
  <1>4. CASE MouseUpIdle
    BY <1>4, OnEventType DEF MouseUpIdle, TypeOK, knobs, drag, clicks, told
  <1> QED  BY <1>1, <1>2, <1>3, <1>4

\* The view's coming and going, ticks and paints.
LEMMA ViewType ==
    ASSUME TypeOK, HostAct \/ Poll \/ Expose
    PROVE  TypeOK'
  <1>1. ASSUME NEW read \in Reads, Attach(read)  PROVE TypeOK'
    BY <1>1 DEF Attach, Reads, TypeOK, drag, clicks, pointer, told
  <1>2. ASSUME NEW read \in Reads, Recreate(read)  PROVE TypeOK'
    <2>1. drag_start' \in [y : Nat, value : Positions]
      BY <1>2, ScaleAssumption DEF Recreate, NoDrag, Positions
    <2> QED  BY <1>2, <2>1 DEF Recreate, Reads, TypeOK, Option, pointer, told
  <1>3. CASE Detach
    BY <1>3 DEF Detach, TypeOK, Option, knobs, drag, clicks, told
  <1>4. ASSUME NEW marked \in SUBSET Params, NEW read \in [marked \ dragging -> Positions],
               Tick(read)
        PROVE  TypeOK'
    <2>1. value' \in [Params -> Positions]
      BY <1>4 DEF Tick, Refreshed, TypeOK
    <2>2. dirty' \in BOOLEAN /\ exposed' \in BOOLEAN
      BY <1>4 DEF Tick, Obscures, TypeOK
    <2>3. stale' \subseteq Params
      BY <1>4 DEF Tick, Aged, TypeOK
    <2> QED  BY <1>4, <2>1, <2>2, <2>3 DEF Tick, TypeOK, drag, clicks, pointer, told
  <1>5. CASE Expose
    BY <1>5 DEF Expose, TypeOK, knobs, drag, clicks, pointer, told
  <1> QED  BY <1>1, <1>2, <1>3, <1>4, <1>5 DEF HostAct, Poll

LEMMA TypeStep == TypeOK /\ [Next]_vars => TypeOK'
  <1> SUFFICES ASSUME TypeOK, [Next]_vars  PROVE TypeOK'
    OBVIOUS
  <1>1. CASE UserAct
    BY <1>1, PressType, ReleaseType, MoveType, ScrollType, QuietType DEF UserAct
  <1>2. CASE HostAct \/ Poll \/ Expose
    BY <1>2, ViewType
  <1>3. CASE UNCHANGED vars
    BY <1>3 DEF vars, TypeOK, knobs, drag, clicks, pointer, told
  <1> QED  BY <1>1, <1>2, <1>3 DEF Next

LEMMA InitType == Init => TypeOK
  <1> SUFFICES ASSUME Init  PROVE TypeOK
    OBVIOUS
  <1>1. value \in [Params -> Positions]
    BY DefaultType DEF Init
  <1>2. drag_start \in [y : Nat, value : Positions]
    BY ScaleAssumption DEF Init, NoDrag, Positions
  <1> QED  BY <1>1, <1>2 DEF Init, TypeOK, Option

-------------------------------------------------------------------------------
(* The fine drag *)

\* A drag is reckoned from its press, so one that has been fine all along has its
\* knob where the pointer says.
FineAt(pt) ==
    clamp01(drag_start.value + (drag_start.y - pt[2]) * FineTicks(KNOB_DRAG_PIXELS))

SteadyInv ==
    /\ active \in dragging \cup {None}
    /\ steady /\ fine /\ active # None /\ at # None => value[active] = FineAt(at)

LEMMA FineTicksType == FineTicks(KNOB_DRAG_PIXELS) \in Nat
  <1>1. /\ Top \in Nat /\ KNOB_DRAG_PIXELS \in Nat \ {0} /\ KNOB_FINE_FACTOR \in Nat \ {0}
    BY ScaleAssumption, EditorAssumption
  <1>2. KNOB_DRAG_PIXELS * KNOB_FINE_FACTOR \in Nat \ {0}
    BY <1>1
  <1> QED  BY <1>1, <1>2 DEF FineTicks

\* Clamping brings no two positions further apart.
LEMMA ClampContracts ==
    ASSUME NEW x \in Int, NEW y \in Int
    PROVE  Abs(clamp01(x) - clamp01(y)) <= Abs(x - y)
  BY ScaleAssumption DEF clamp01, Abs

\* Two moves of one drag differ by their distance.
LEMMA MovesApart ==
    ASSUME NEW s \in Int, NEW y \in Int, NEW d \in Int, NEW e \in Int, NEW ticks \in Nat
    PROVE  Abs((s + (y - d) * ticks) - (s + (y - e) * ticks)) <= Abs(d - e) * ticks
  <1>1. (y - d) * ticks = y * ticks - d * ticks /\ (y - e) * ticks = y * ticks - e * ticks
    OBVIOUS
  <1>2. (d - e) * ticks = d * ticks - e * ticks /\ (e - d) * ticks = e * ticks - d * ticks
    OBVIOUS
  <1>3. y * ticks \in Int /\ d * ticks \in Int /\ e * ticks \in Int
    OBVIOUS
  <1>4. CASE d >= e
    <2>1. (d - e) * ticks >= 0
      BY <1>4
    <2>2. Abs(d - e) = d - e
      BY <1>4 DEF Abs
    <2> QED  BY <1>1, <1>2, <1>3, <2>1, <2>2 DEF Abs
  <1>5. CASE e > d
    <2>1. (e - d) * ticks >= 0
      BY <1>5
    <2>2. Abs(d - e) = e - d
      BY <1>5 DEF Abs
    <2> QED  BY <1>1, <1>2, <1>3, <2>1, <2>2 DEF Abs
  <1> QED  BY <1>4, <1>5

\* A move of a knob that is being dragged, finely.
LEMMA FineMove ==
    ASSUME TypeOK, active \in dragging, fine, NEW pt \in Points, Drag(pt)
    PROVE  active \in Params /\ value'[active] = FineAt(pt)
  <1>1. active \in Params
    BY DEF TypeOK
  <1>2. Knob_DragTo(pt[2])
          = drag_start.value + (drag_start.y - pt[2]) * FineTicks(KNOB_DRAG_PIXELS)
    BY DEF Knob_DragTo, Ticks
  <1>3. value' = [value EXCEPT ![active] = clamp01(Knob_DragTo(pt[2]))]
    BY DEF Drag, Knob_SetValue
  <1> QED  BY <1>1, <1>2, <1>3 DEF FineAt, TypeOK

LEMMA SteadyStep == TypeOK /\ SteadyInv /\ [Next]_vars => SteadyInv'
  <1> SUFFICES ASSUME TypeOK, SteadyInv, [Next]_vars  PROVE SteadyInv'
    OBVIOUS
  <1>1. ASSUME NEW pt \in Points, MouseDown(pt)  PROVE SteadyInv'
    <2>1. PICK p \in Params : knob_at(pt) = p
      BY <1>1, KnobAtType DEF MouseDown, Option
    <2>2. /\ active' = p /\ dragging' = dragging \cup {p} /\ value' = value
          /\ drag_start' = [y |-> pt[2], value |-> value[p]]
          /\ at' = at /\ at \in {pt, None}
      BY <1>1, <2>1 DEF MouseDown, Knob_DragBegin, Here
    <2>3. pt[2] \in Int /\ value[p] \in Positions
      BY EditorAssumption DEF TypeOK
    <2>4. (pt[2] - pt[2]) * FineTicks(KNOB_DRAG_PIXELS) = 0
      BY <2>3, FineTicksType
    <2>5. clamp01(value[p] + 0) = value[p]
      BY <2>3, ScaleAssumption DEF clamp01, Positions
    <2> QED  BY <2>2, <2>4, <2>5 DEF SteadyInv, FineAt, FineTicks, clamp01
  <1>2. ASSUME NEW pt \in Points, Drag(pt)  PROVE SteadyInv'
    <2>1. /\ active # None /\ active' = active /\ dragging' = dragging /\ fine' = fine
          /\ drag_start' = drag_start /\ at' = pt
      BY <1>2 DEF Drag, drag
    <2>2. fine => value'[active] = FineAt(pt)
      BY <1>2, <2>1, FineMove DEF SteadyInv
    <2> QED  BY <2>1, <2>2 DEF SteadyInv, FineAt, clamp01, FineTicks
  <1>3. ASSUME NEW marked \in SUBSET Params, NEW read \in [marked \ dragging -> Positions],
               Tick(read)
        PROVE  SteadyInv'
    <2>1. active # None => active \in Params /\ active \notin DOMAIN read
      BY DEF SteadyInv, TypeOK
    <2>2. active # None => value'[active] = value[active]
      BY <1>3, <2>1 DEF Tick, Refreshed
    <2> QED  BY <1>3, <2>2 DEF Tick, SteadyInv, FineAt, clamp01, FineTicks, drag, pointer
  <1>4. ASSUME NEW pt \in Points, MouseDownBeside(pt) \/ DoubleClick(pt)  PROVE SteadyInv'
    <2>1. CASE MouseDownBeside(pt)
      BY <2>1 DEF MouseDownBeside, SteadyInv, FineAt, clamp01, FineTicks, knobs, drag
    <2>2. CASE DoubleClick(pt)
      BY <2>2 DEF DoubleClick, SteadyInv, drag
    <2> QED  BY <1>4, <2>1, <2>2
  <1>5. ASSUME NEW pt \in Points, MouseUp(pt) \/ Hover(pt)  PROVE SteadyInv'
    <2>1. CASE MouseUp(pt)
      BY <2>1 DEF MouseUp, SteadyInv
    <2>2. CASE Hover(pt)
      BY <2>2 DEF Hover, SteadyInv, drag
    <2> QED  BY <1>5, <2>1, <2>2
  <1>6. ASSUME NEW pt \in Points, NEW lines \in Lines, Scroll(pt, lines)  PROVE SteadyInv'
    BY <1>6 DEF Scroll, SteadyInv, drag
  <1>7. CASE MouseUpIdle \/ MouseLeave \/ Modifier \/ ClickExpires \/ Detach \/ Expose
    <2>1. CASE MouseUpIdle
      BY <2>1 DEF MouseUpIdle, SteadyInv, knobs, drag
    <2>2. CASE MouseLeave
      BY <2>2 DEF MouseLeave, SteadyInv, drag
    <2>3. CASE Modifier
      BY <2>3 DEF Modifier, SteadyInv, drag
    <2>4. CASE Detach
      BY <2>4 DEF Detach, SteadyInv, knobs, drag
    <2>5. CASE ClickExpires \/ Expose
      BY <2>5 DEF ClickExpires, Expose, SteadyInv, FineAt, clamp01, FineTicks, knobs, drag,
                  pointer
    <2> QED  BY <1>7, <2>1, <2>2, <2>3, <2>4, <2>5
  <1>8. ASSUME NEW read \in Reads, Attach(read) \/ Recreate(read)  PROVE SteadyInv'
    BY <1>8 DEF Attach, Recreate, SteadyInv, drag
  <1>9. CASE UNCHANGED vars
    BY <1>9 DEF vars, SteadyInv, FineAt, clamp01, FineTicks, knobs, drag, pointer
  <1> QED  BY <1>1, <1>2, <1>3, <1>4, <1>6, <1>7, <1>8, <1>9, <1>5
           DEF Next, UserAct, HostAct, Poll

-------------------------------------------------------------------------------
LEMMA InitIInv == Init => IInv
  BY DEF Init, IInv, DragInv, OneDrag, GesturesPaired, DragIsGesture, ButtonHeld,
         Gone, HoverHonest, RepaintOwed

\* The inductive invariant of the editor, for all knobs, scales and distances.
THEOREM Invariance == Spec => []IInv
  <1>1. IInv /\ [Next]_vars => IInv'
    BY DragStep, HoverStep, RepaintStep DEF IInv
  <1> QED  BY <1>1, InitIInv, PTL DEF Spec

\* Only the active knob shuts the host out, unless a view was taken away in the
\* middle of its drag (editor.c:65, 138-139, 145-148).
THEOREM OneDragOnly == Spec => []OneDrag
  <1>1. IInv => OneDrag
    BY DEF IInv, DragInv
  <1> QED  BY <1>1, Invariance, PTL

\* The host hears well-formed gestures of every knob whose drag never lost its view
\* (editor.c:129-135, 138-140, 146-147, 171-174).
THEOREM GesturesArePaired == Spec => []GesturesPaired
  <1>1. IInv => GesturesPaired
    BY DEF IInv, DragInv
  <1> QED  BY <1>1, Invariance, PTL

\* Without a drag exactly the knob under the pointer is lit (editor.c:104-110, 150,
\* 159, 163).
THEOREM HonestHover == Spec => []HoverHonest
  <1>1. IInv => HoverHonest
    BY DEF IInv
  <1> QED  BY <1>1, Invariance, PTL

\* A window that shows a knob as it no longer is has its repaint coming
\* (editor.c:73-77, 94; window-pugl.c:80-82, 134).
THEOREM RepaintsOwed == Spec => []RepaintOwed
  <1>1. IInv => RepaintOwed
    BY DEF IInv
  <1> QED  BY <1>1, Invariance, PTL

\* Every variable of the editor keeps its type: above all, every drag, wheel step and
\* host's value leaves a knob within its range (knob.c:18, 53, 60; editor.c:66).
THEOREM TypeCorrect == Spec => []TypeOK
  BY InitType, TypeStep, PTL DEF Spec

\* A text the host shows and the user types back gives the value shown, to half its
\* last digit, on every scale (params.c:85-117, plugin.c:126-149).
THEOREM TextsComeBack == Spec => []TypedBack
  <1>1. TypeOK => TypedBack
    <2> SUFFICES ASSUME TypeOK, NEW p \in Params
                 PROVE  LET id == cplug_getParameterID(p)
                            plain == cplug_denormaliseParameterValue(id, value[p])
                            text == cplug_parameterValueToString(id, plain)
                            back == cplug_parameterStringToValue(id, text)
                        IN /\ 2 * Abs(back - plain) <= Digit(text)
                           /\ cplug_normaliseParameterValue(id, plain) = value[p]
      BY DEF TypedBack
    <2> DEFINE id == cplug_getParameterID(p)
    <2>1. Param_IndexFromId(id) = p /\ ~(p < 0)
      BY InfoType, ScaleAssumption DEF Param_IndexFromId, cplug_getParameterID
    <2>2. value[p] \in Positions
      BY DEF TypeOK
    <2>3. clamp01(value[p]) = value[p]
      BY <2>2, ScaleAssumption DEF clamp01, Positions
    <2>4. Param_Denormalise(p, value[p]) = Scale[p][value[p]]
      BY <2>2, <2>3, ScaleWithin DEF Param_Denormalise
    <2> DEFINE plain == cplug_denormaliseParameterValue(id, value[p])
    <2>5. plain = Scale[p][value[p]] /\ plain \in Param_Info[p].min .. Param_Info[p].max
      BY <2>1, <2>2, <2>4, ScaleWithin DEF cplug_denormaliseParameterValue
    <2>6. cplug_normaliseParameterValue(id, plain) = value[p]
      BY <2>1, <2>2, <2>5, NormaliseBack DEF cplug_normaliseParameterValue
    <2> DEFINE text == cplug_parameterValueToString(id, plain)
    <2>7. text = Param_Format(p, plain)
      BY <2>1 DEF cplug_parameterValueToString
    <2>8. cplug_parameterStringToValue(id, text) = Param_Parse(p, text)
      BY <2>1 DEF cplug_parameterStringToValue
    <2> HIDE DEF id, plain
    <2>9. 2 * Abs(Param_Parse(p, text) - plain) <= Digit(text)
      BY <2>5, <2>7, ParsesBack
    <2> QED  BY <2>6, <2>8, <2>9 DEF id, plain
  <1> QED  BY <1>1, TypeCorrect, PTL
\* A drag that is fine from its press on turns the knob by no more than its share of
\* the pixels moved (knob.h:31-32, knob.c:48-54).
THEOREM FineDragIsFine == Spec => FineIsFine
  <1> DEFINE Gently == \A pt \in Points :
          fine /\ steady /\ at # None /\ Drag(pt) =>
              Abs(value'[active] - value[active])
                <= Abs(pt[2] - at[2]) * FineTicks(KNOB_DRAG_PIXELS)
  <1>1. Init => SteadyInv
    BY DEF Init, SteadyInv
  <1>2. TypeOK /\ SteadyInv => Gently
    <2> SUFFICES ASSUME TypeOK, SteadyInv, NEW pt \in Points, fine, steady, at # None, Drag(pt)
                 PROVE  Abs(value'[active] - value[active])
                          <= Abs(pt[2] - at[2]) * FineTicks(KNOB_DRAG_PIXELS)
      OBVIOUS
    <2>1. active \in dragging /\ value[active] = FineAt(at)
      BY DEF Drag, SteadyInv
    <2>2. value'[active] = FineAt(pt)
      BY <2>1, FineMove
    <2>3. pt[2] \in Int /\ at[2] \in Int
      BY EditorAssumption DEF TypeOK, Option
    <2>4. drag_start.value \in Int /\ drag_start.y \in Int
      BY DEF TypeOK, Positions
    <2> DEFINE ticks == FineTicks(KNOB_DRAG_PIXELS)
               there == drag_start.value + (drag_start.y - pt[2]) * ticks
               here == drag_start.value + (drag_start.y - at[2]) * ticks
    <2>5. ticks \in Nat
      BY FineTicksType
    <2>6. Abs(there - here) <= Abs(pt[2] - at[2]) * ticks
      BY <2>3, <2>4, <2>5, MovesApart
    <2>7. there \in Int /\ here \in Int
      BY <2>3, <2>4, <2>5
    <2>8. Abs(clamp01(there) - clamp01(here)) <= Abs(there - here)
      BY <2>7, ClampContracts
    <2>9. /\ clamp01(there) \in Int /\ clamp01(here) \in Int
          /\ value'[active] = clamp01(there) /\ value[active] = clamp01(here)
      BY <2>1, <2>2, <2>7, Clamp01Position DEF FineAt, Positions
    <2>10. Abs(pt[2] - at[2]) \in Int /\ Abs(there - here) \in Int
           /\ Abs(clamp01(there) - clamp01(here)) \in Int
      BY <2>3, <2>7, <2>9 DEF Abs
    <2>11. Abs(pt[2] - at[2]) * ticks \in Int
      BY <2>5, <2>10
    <2> HIDE DEF ticks, there, here
    <2>12. Abs(clamp01(there) - clamp01(here)) <= Abs(pt[2] - at[2]) * ticks
      BY <2>6, <2>8, <2>10, <2>11
    <2> QED  BY <2>9, <2>12 DEF ticks
  <1> HIDE DEF Gently
  <1>3. Spec => [](TypeOK /\ SteadyInv)
    BY <1>1, InitType, TypeStep, SteadyStep, PTL DEF Spec
  <1>4. Spec => [][Gently]_vars
    BY <1>2, <1>3, PTL DEF Spec
  <1> QED  BY <1>4 DEF FineIsFine, Gently
===============================================================================
