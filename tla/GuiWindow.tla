------------------------------- MODULE GuiWindow -------------------------------
(***************************************************************************)
(* The plugin's window, pbe-plugin/src/gui/window-pugl.c: a child window   *)
(* in a parent the host supplies.  On Linux a GUI thread creates it, pumps *)
(* its events and destroys it, and the host's main thread starts that      *)
(* thread, tells it to stop and joins it; on macOS and Windows all of this *)
(* happens on the main thread.  host_thread says which build this is       *)
(* (PBE_GUI_ON_HOST_THREAD) and never changes.                             *)
(*                                                                         *)
(* The two threads share stop and want_visible, which are atomic, and the  *)
(* scale, which is not but is read whole.  The window system is external:  *)
(* creating a window may fail at each of its stages, and events arrive in  *)
(* any order.  What the editor does with them is PluginParams' subject.    *)
(*                                                                         *)
(* StaleFlag, NoJoin, StillStopped, ShownOnce and StopForgotten are bugs   *)
(* to put in place of the definitions that follow them.                    *)
(***************************************************************************)
EXTENDS Naturals

CONSTANTS Parents, \* native windows a host may embed the view in
          Scales,  \* content scale factors: 1 and what the host reports
          None     \* no parent, no picture

ASSUME WindowAssumption == /\ Scales \subseteq Nat \ {0} /\ 1 \in Scales
                           /\ None \notin Parents

VARIABLES
    host_thread,    \* PBE_GUI_ON_HOST_THREAD
    gui,            \* the Gui exists (cplug_createGUI ... cplug_destroyGUI)
    main,           \* main thread: "idle", "join" or "detached"
    call,           \* the call it is in: "destroyGUI", or setParent's new parent
    parent, scale, want_visible, is_visible,            \* fields of Gui
    thread_started, stop,
    gpc,            \* GUI thread; "none" when there is none
    world, view, canvas, \* these exist
    mapped,         \* the window is on the screen
    made,           \* the scale the view was created with
    sized,          \* view_width and view_height are known
    painted,        \* the scale the picture in the window was painted with
    failed          \* the window system refused the view

shared == <<gui, parent, scale, want_visible>>
thread == <<thread_started, stop, gpc>>
window == <<world, view, canvas, mapped, is_visible, made, sized, painted, failed>>
vars == <<host_thread, main, call, shared, thread, window>>

NoWindow == /\ world = FALSE /\ view = FALSE /\ canvas = FALSE /\ mapped = FALSE
            /\ is_visible = FALSE /\ sized = FALSE /\ painted = None

Init ==
    /\ host_thread \in BOOLEAN
    /\ gui = FALSE /\ main = "idle" /\ call = None
    /\ parent = None /\ scale = 1 /\ want_visible = FALSE
    /\ thread_started = FALSE /\ stop = FALSE /\ gpc = "none"
    /\ NoWindow /\ made = 1 /\ failed = FALSE

-------------------------------------------------------------------------------
(* What both builds do to the window *)

\* create_view: how far it got.  Only a realized view may have a canvas.
Outcomes == {"no world", "no view", "not realized", "no canvas", "complete"}
Realized(how) == how \in {"no canvas", "complete"}

create_view(how) ==
    /\ world' = (how # "no world")
    /\ view' = (how \notin {"no world", "no view"})
    /\ canvas' = (how = "complete")
    /\ made' = scale
    /\ failed' = ~Realized(how)
    /\ UNCHANGED <<sized, painted>>

StaleFlag == is_visible
Hidden == FALSE

destroy_view ==
    /\ world' = FALSE /\ view' = FALSE /\ canvas' = FALSE /\ mapped' = FALSE
    /\ is_visible' = Hidden
    /\ sized' = FALSE /\ painted' = None
    /\ UNCHANGED <<made, failed>>

\* apply_visibility, given what is wanted: puglShow or puglHide on a change.
ShownOnce(want) == IF is_visible THEN mapped ELSE want
Shown(want) == IF want # is_visible THEN want ELSE mapped
apply_visibility(want) == mapped' = Shown(want) /\ is_visible' = want

\* on_event: CONFIGURE.
Configured == /\ sized' = TRUE
              /\ UNCHANGED <<world, view, canvas, mapped, is_visible, made, painted,
                             failed>>

\* on_event: EXPOSE, paint; a window that is not on the screen is not exposed.
Painted == /\ mapped /\ canvas /\ sized
           /\ painted' = scale
           /\ UNCHANGED <<world, view, canvas, mapped, is_visible, made, sized, failed>>

-------------------------------------------------------------------------------
(* The host's main thread *)

MainReady == gui /\ main = "idle"

CreateGUI ==
    /\ ~gui /\ main = "idle"
    /\ gui' = TRUE /\ parent' = None /\ scale' = 1 /\ want_visible' = FALSE
    /\ stop' = FALSE
    /\ UNCHANGED <<host_thread, main, call, thread_started, gpc, window>>

\* The first half of cplug_setParent and cplug_destroyGUI is detach: destroy the
\* view, or tell the GUI thread to and wait.
Detach(then) ==
    /\ MainReady
    /\ call' = then
    /\ IF thread_started
       THEN stop' = TRUE /\ main' = "join" /\ UNCHANGED window
       ELSE /\ main' = "detached" /\ UNCHANGED stop
            /\ IF host_thread THEN destroy_view ELSE UNCHANGED window
    /\ UNCHANGED <<host_thread, shared, thread_started, gpc>>

\* stop_thread, once pthread_join returns.
NoJoin == TRUE
Exited == gpc = "exited"

Join ==
    /\ main = "join" /\ Exited
    /\ main' = "detached"
    /\ thread_started' = FALSE /\ gpc' = "none"
    /\ UNCHANGED <<host_thread, call, shared, stop, window>>

\* The second half of cplug_setParent.  With a new parent it attaches: creates
\* the view and shows it if that is wanted ...
AttachView(how) ==
    /\ main = "detached" /\ call \in Parents /\ host_thread
    /\ main' = "idle" /\ call' = None /\ parent' = call
    /\ IF Realized(how)
       THEN create_view(how) /\ apply_visibility(want_visible)
       ELSE /\ failed' = TRUE
            /\ UNCHANGED <<world, view, canvas, mapped, is_visible, made, sized, painted>>
    /\ UNCHANGED <<host_thread, gui, scale, want_visible, thread>>

\* ... or starts the GUI thread, if the system lets it.
StillStopped == stop
Started == FALSE

StartThread(ok) ==
    /\ main = "detached" /\ call \in Parents /\ ~host_thread
    /\ main' = "idle" /\ call' = None /\ parent' = call
    /\ stop' = Started
    /\ thread_started' = ok
    /\ gpc' = IF ok THEN "create" ELSE "none"
    /\ UNCHANGED <<host_thread, gui, scale, want_visible, window>>

\* cplug_setParent(NULL) is done.
StayDetached ==
    /\ main = "detached" /\ call = None
    /\ main' = "idle" /\ parent' = None
    /\ UNCHANGED <<host_thread, call, gui, scale, want_visible, thread, window>>

\* cplug_destroyGUI frees the editor and the Gui.
FreeGUI ==
    /\ main = "detached" /\ call = "destroyGUI"
    /\ main' = "idle" /\ call' = None /\ gui' = FALSE
    /\ UNCHANGED <<host_thread, parent, scale, want_visible, thread, window>>

SetVisible(visible) ==
    /\ MainReady
    /\ want_visible' = visible
    /\ IF host_thread /\ view THEN apply_visibility(visible)
                              ELSE UNCHANGED <<mapped, is_visible>>
    /\ UNCHANGED <<host_thread, main, call, gui, parent, scale, thread, world, view,
                   canvas, made, sized, painted, failed>>

SetScaleFactor(s) ==
    /\ MainReady
    /\ scale' = s
    /\ UNCHANGED <<host_thread, main, call, gui, parent, want_visible, thread, window>>

\* On macOS and Windows the main thread's own loop delivers the view's events.
HostEvent ==
    /\ MainReady /\ host_thread /\ view
    /\ Configured \/ Painted
    /\ UNCHANGED <<host_thread, main, call, shared, thread>>

-------------------------------------------------------------------------------
(* The GUI thread: gui_thread_main *)

Step(from, to) == /\ gpc = from /\ gpc' = to
                  /\ UNCHANGED <<host_thread, main, call, shared, thread_started, stop>>

ThreadCreate(how) ==
    /\ Step("create", IF Realized(how) THEN "loop" ELSE "destroy")
    /\ create_view(how) /\ UNCHANGED <<mapped, is_visible>>

StopForgotten == FALSE
StopSeen == stop

ThreadGoesOn == Step("loop", "visibility") /\ ~StopSeen /\ UNCHANGED window
ThreadStops == Step("loop", "destroy") /\ StopSeen /\ UNCHANGED window

ThreadVisibility ==
    /\ Step("visibility", "update")
    /\ apply_visibility(want_visible)
    /\ UNCHANGED <<world, view, canvas, made, sized, painted, failed>>

\* puglUpdate delivers events until its time is up.
ThreadEvent == Step("update", "update") /\ (Configured \/ Painted)
ThreadUpdated == Step("update", "tick") /\ UNCHANGED window
ThreadTick == Step("tick", "loop") /\ UNCHANGED window

ThreadDestroy == Step("destroy", "exited") /\ destroy_view

-------------------------------------------------------------------------------
MainStep == \/ Join \/ StayDetached \/ FreeGUI
            \/ \E how \in Outcomes : AttachView(how)
            \/ \E ok \in BOOLEAN : StartThread(ok)
ThreadStep == \/ \E how \in Outcomes : ThreadCreate(how)
              \/ ThreadGoesOn \/ ThreadStops \/ ThreadVisibility
              \/ ThreadUpdated \/ ThreadTick \/ ThreadDestroy
HostAct == \/ CreateGUI
           \/ \E then \in Parents \cup {None, "destroyGUI"} : Detach(then)
           \/ \E visible \in BOOLEAN : SetVisible(visible)
           \/ \E s \in Scales : SetScaleFactor(s)
WindowEvent == HostEvent \/ ThreadEvent

Next == MainStep \/ ThreadStep \/ HostAct \/ WindowEvent

Spec == Init /\ [][Next]_vars

\* A call the host has made runs on, and the GUI thread is scheduled;
\* puglUpdate returns because it is given a time limit.
FairSpec == Spec /\ WF_vars(MainStep) /\ WF_vars(ThreadStep)
-------------------------------------------------------------------------------
(* Correctness *)

Stages == {"create", "loop", "visibility", "update", "tick", "destroy"}

TypeOK ==
    /\ host_thread \in BOOLEAN /\ gui \in BOOLEAN
    /\ main \in {"idle", "join", "detached"}
    /\ call \in Parents \cup {None, "destroyGUI"}
    /\ parent \in Parents \cup {None} /\ scale \in Scales
    /\ want_visible \in BOOLEAN /\ is_visible \in BOOLEAN
    /\ thread_started \in BOOLEAN /\ stop \in BOOLEAN
    /\ gpc \in Stages \cup {"none", "exited"}
    /\ world \in BOOLEAN /\ view \in BOOLEAN /\ canvas \in BOOLEAN
    /\ mapped \in BOOLEAN /\ sized \in BOOLEAN
    /\ made \in Scales /\ painted \in Scales \cup {None}
    /\ failed \in BOOLEAN

\* The handlers may run: the view exists on the GUI thread or, between the host's
\* calls, on the main thread.
Pumping == IF host_thread THEN view ELSE gpc \in Stages

\* Neither the view nor the GUI thread outlives a detach, so nothing touches the
\* editor, the canvas or the Gui once cplug_destroyGUI frees them, nor the old
\* parent once cplug_setParent returns (window-pugl.c:225-230, 246-253, 270-283).
NothingOutlivesDetach ==
    main = "detached" \/ ~gui => ~Pumping /\ gpc = "none" /\ NoWindow

\* What the code believes about the window's visibility is so: a view made anew
\* in another parent is shown again (window-pugl.c:193-203, 189).
VisibilityHonest == is_visible = mapped

\* A view that was attached stays until it is detached: a stop meant for an
\* earlier thread does not reach this one (window-pugl.c:221).
StaysAttached ==
    gui /\ main = "idle" /\ parent # None /\ ~failed =>
        IF host_thread THEN view ELSE gpc \notin {"destroy", "exited"}

\* The main thread knows of the GUI thread there is, and has told it to stop only
\* if it is waiting for it.
ThreadIsOwned ==
    /\ gpc # "none" <=> thread_started
    /\ main = "join" => gui /\ thread_started /\ stop
    /\ main = "detached" => gui
    /\ ~gui => main = "idle"
    /\ main = "idle" /\ thread_started => ~stop
    /\ host_thread => ~thread_started

\* There is a window only where someone will destroy it.
WindowIsOwned ==
    /\ host_thread /\ ~view => NoWindow
    /\ ~host_thread /\ gpc \in {"none", "exited"} => NoWindow
    /\ gpc = "create" => ~is_visible /\ ~mapped
    /\ gpc \in {"loop", "visibility", "update", "tick"} => view /\ ~failed

\* All of it, which every step preserves: who may touch the window, and who
\* answers for its end, at each stage of attaching and detaching it.
IndInv == /\ TypeOK
          /\ ThreadIsOwned
          /\ WindowIsOwned
          /\ NothingOutlivesDetach
          /\ VisibilityHonest
          /\ StaysAttached

\* The main thread is not left waiting in stop_thread, which the host's UI would
\* freeze with.
DetachReturns == main = "join" ~> main # "join"

\* The host's last wish is carried out, on whatever thread, whether it came
\* before the view or after (window-pugl.c:285-291, 195).
VisibilityFollows ==
    \A wish \in BOOLEAN :
        <>[](view /\ main = "idle" /\ want_visible = wish) => <>[](mapped = wish)

\* The scale is "Only honoured at view creation for now (the editor is
\* fixed-size)." (window-pugl.c:295): no picture is painted with another.
ScaleFromCreation == painted # None => painted = made
===============================================================================
