---------------------------- MODULE GuiWindow_proofs ----------------------------
(***************************************************************************)
(* Proofs about GuiWindow, for any parents and any scale factors, in both  *)
(* builds.  IndInv needs no strengthening: it says for every stage of the  *)
(* two threads who owns the window, and each action is looked at once.     *)
(***************************************************************************)
EXTENDS GuiWindow, TLAPS

LEMMA Initially == Init => IndInv
BY WindowAssumption
   DEF Init, NoWindow, IndInv, TypeOK, ThreadIsOwned, WindowIsOwned, NothingOutlivesDetach,
       VisibilityHonest, StaysAttached, Pumping, Stages

-------------------------------------------------------------------------------
(* One lemma per action *)

LEMMA CreateGUIStep ==
    ASSUME IndInv, CreateGUI
    PROVE  IndInv'
BY WindowAssumption
   DEF CreateGUI, shared, window, NoWindow,
       IndInv, TypeOK, ThreadIsOwned, WindowIsOwned, NothingOutlivesDetach,
       VisibilityHonest, StaysAttached, Pumping, Stages

LEMMA DetachStep ==
    ASSUME NEW then \in Parents \cup {None, "destroyGUI"}, IndInv, Detach(then)
    PROVE  IndInv'
<1> USE DEF IndInv, TypeOK, ThreadIsOwned, WindowIsOwned, NothingOutlivesDetach,
       VisibilityHonest, StaysAttached, Pumping, Stages
<1>1. CASE thread_started
  BY <1>1, WindowAssumption DEF Detach, MainReady, shared, window, NoWindow
<1>2. CASE ~thread_started /\ host_thread
  BY <1>2, WindowAssumption DEF Detach, MainReady, shared, destroy_view, Hidden, NoWindow
<1>3. CASE ~thread_started /\ ~host_thread
  BY <1>3, WindowAssumption DEF Detach, MainReady, shared, window, NoWindow
<1> QED BY <1>1, <1>2, <1>3 DEF TypeOK

LEMMA JoinStep ==
    ASSUME IndInv, Join
    PROVE  IndInv'
BY WindowAssumption
   DEF Join, Exited, shared, window, NoWindow,
       IndInv, TypeOK, ThreadIsOwned, WindowIsOwned, NothingOutlivesDetach,
       VisibilityHonest, StaysAttached, Pumping, Stages

LEMMA AttachViewStep ==
    ASSUME NEW how \in Outcomes, IndInv, AttachView(how)
    PROVE  IndInv'
BY WindowAssumption
   DEF AttachView, thread, create_view, apply_visibility, Shown, Realized,
       Outcomes, NoWindow,
       IndInv, TypeOK, ThreadIsOwned, WindowIsOwned, NothingOutlivesDetach,
       VisibilityHonest, StaysAttached, Pumping, Stages

LEMMA StartThreadStep ==
    ASSUME NEW ok \in BOOLEAN, IndInv, StartThread(ok)
    PROVE  IndInv'
BY WindowAssumption
   DEF StartThread, Started, window, NoWindow,
       IndInv, TypeOK, ThreadIsOwned, WindowIsOwned, NothingOutlivesDetach,
       VisibilityHonest, StaysAttached, Pumping, Stages

LEMMA StayDetachedStep ==
    ASSUME IndInv, StayDetached
    PROVE  IndInv'
BY WindowAssumption
   DEF StayDetached, thread, window, NoWindow,
       IndInv, TypeOK, ThreadIsOwned, WindowIsOwned, NothingOutlivesDetach,
       VisibilityHonest, StaysAttached, Pumping, Stages

LEMMA FreeGUIStep ==
    ASSUME IndInv, FreeGUI
    PROVE  IndInv'
BY WindowAssumption
   DEF FreeGUI, thread, window, NoWindow,
       IndInv, TypeOK, ThreadIsOwned, WindowIsOwned, NothingOutlivesDetach,
       VisibilityHonest, StaysAttached, Pumping, Stages

LEMMA SetVisibleStep ==
    ASSUME NEW visible \in BOOLEAN, IndInv, SetVisible(visible)
    PROVE  IndInv'
BY WindowAssumption
   DEF SetVisible, MainReady, thread, apply_visibility, Shown, NoWindow,
       IndInv, TypeOK, ThreadIsOwned, WindowIsOwned, NothingOutlivesDetach,
       VisibilityHonest, StaysAttached, Pumping, Stages

LEMMA SetScaleFactorStep ==
    ASSUME NEW s \in Scales, IndInv, SetScaleFactor(s)
    PROVE  IndInv'
BY WindowAssumption
   DEF SetScaleFactor, MainReady, thread, window, NoWindow,
       IndInv, TypeOK, ThreadIsOwned, WindowIsOwned, NothingOutlivesDetach,
       VisibilityHonest, StaysAttached, Pumping, Stages

LEMMA HostEventStep ==
    ASSUME IndInv, HostEvent
    PROVE  IndInv'
BY WindowAssumption
   DEF HostEvent, MainReady, Configured, Painted, shared, thread, NoWindow,
       IndInv, TypeOK, ThreadIsOwned, WindowIsOwned, NothingOutlivesDetach,
       VisibilityHonest, StaysAttached, Pumping, Stages

LEMMA ThreadCreateStep ==
    ASSUME NEW how \in Outcomes, IndInv, ThreadCreate(how)
    PROVE  IndInv'
BY WindowAssumption
   DEF ThreadCreate, Step, shared, create_view, Realized, Outcomes, NoWindow,
       IndInv, TypeOK, ThreadIsOwned, WindowIsOwned, NothingOutlivesDetach,
       VisibilityHonest, StaysAttached, Pumping, Stages

LEMMA ThreadGoesOnStep ==
    ASSUME IndInv, ThreadGoesOn
    PROVE  IndInv'
BY WindowAssumption
   DEF ThreadGoesOn, Step, StopSeen, shared, window, NoWindow,
       IndInv, TypeOK, ThreadIsOwned, WindowIsOwned, NothingOutlivesDetach,
       VisibilityHonest, StaysAttached, Pumping, Stages

LEMMA ThreadStopsStep ==
    ASSUME IndInv, ThreadStops
    PROVE  IndInv'
BY WindowAssumption
   DEF ThreadStops, Step, StopSeen, shared, window, NoWindow,
       IndInv, TypeOK, ThreadIsOwned, WindowIsOwned, NothingOutlivesDetach,
       VisibilityHonest, StaysAttached, Pumping, Stages

LEMMA ThreadVisibilityStep ==
    ASSUME IndInv, ThreadVisibility
    PROVE  IndInv'
BY WindowAssumption
   DEF ThreadVisibility, Step, shared, apply_visibility, Shown, NoWindow,
       IndInv, TypeOK, ThreadIsOwned, WindowIsOwned, NothingOutlivesDetach,
       VisibilityHonest, StaysAttached, Pumping, Stages

LEMMA ThreadEventStep ==
    ASSUME IndInv, ThreadEvent
    PROVE  IndInv'
<1> USE DEF IndInv, TypeOK, ThreadIsOwned, WindowIsOwned, NothingOutlivesDetach,
       VisibilityHonest, StaysAttached, Pumping, Stages
<1>1. CASE Configured
  BY <1>1, WindowAssumption DEF ThreadEvent, Step, shared, Configured, NoWindow
<1>2. CASE Painted
  BY <1>2, WindowAssumption DEF ThreadEvent, Step, shared, Painted, NoWindow
<1> QED BY <1>1, <1>2 DEF ThreadEvent

LEMMA ThreadUpdatedStep ==
    ASSUME IndInv, ThreadUpdated
    PROVE  IndInv'
BY WindowAssumption
   DEF ThreadUpdated, Step, shared, window, NoWindow,
       IndInv, TypeOK, ThreadIsOwned, WindowIsOwned, NothingOutlivesDetach,
       VisibilityHonest, StaysAttached, Pumping, Stages

LEMMA ThreadTickStep ==
    ASSUME IndInv, ThreadTick
    PROVE  IndInv'
BY WindowAssumption
   DEF ThreadTick, Step, shared, window, NoWindow,
       IndInv, TypeOK, ThreadIsOwned, WindowIsOwned, NothingOutlivesDetach,
       VisibilityHonest, StaysAttached, Pumping, Stages

LEMMA ThreadDestroyStep ==
    ASSUME IndInv, ThreadDestroy
    PROVE  IndInv'
BY WindowAssumption
   DEF ThreadDestroy, Step, shared, destroy_view, Hidden, NoWindow,
       IndInv, TypeOK, ThreadIsOwned, WindowIsOwned, NothingOutlivesDetach,
       VisibilityHonest, StaysAttached, Pumping, Stages

-------------------------------------------------------------------------------
(* The invariant, and what it is for *)

\* Whatever the host calls and however far the window system gets, who owns the
\* window and the GUI thread is settled at every step of window-pugl.c.
THEOREM Invariance == Spec => []IndInv
<1>1. IndInv /\ [Next]_vars => IndInv'
  <2> SUFFICES ASSUME IndInv, [Next]_vars PROVE IndInv'
    OBVIOUS
  <2>1. CASE MainStep
    BY <2>1, JoinStep, StayDetachedStep, FreeGUIStep, AttachViewStep, StartThreadStep
       DEF MainStep
  <2>2. CASE ThreadStep
    BY <2>2, ThreadCreateStep, ThreadGoesOnStep, ThreadStopsStep, ThreadVisibilityStep,
       ThreadUpdatedStep, ThreadTickStep, ThreadDestroyStep
       DEF ThreadStep
  <2>3. CASE HostAct
    BY <2>3, CreateGUIStep, DetachStep, SetVisibleStep, SetScaleFactorStep DEF HostAct
  <2>4. CASE WindowEvent
    BY <2>4, HostEventStep, ThreadEventStep DEF WindowEvent
  <2>5. CASE UNCHANGED vars
    BY <2>5 DEF vars, shared, thread, window, NoWindow,
       IndInv, TypeOK, ThreadIsOwned, WindowIsOwned, NothingOutlivesDetach,
       VisibilityHonest, StaysAttached, Pumping, Stages
  <2> QED BY <2>1, <2>2, <2>3, <2>4, <2>5 DEF Next
<1> QED BY <1>1, Initially, PTL DEF Spec

\* Nothing of the view or its thread is left when the host's call goes on to free
\* the Gui or embed the view elsewhere.
THEOREM CleanDetach == Spec => []NothingOutlivesDetach
<1>1. IndInv => NothingOutlivesDetach
  BY DEF IndInv
<1> QED BY <1>1, Invariance, PTL

\* The visibility flag is never left over from an earlier view.
THEOREM HonestFlag == Spec => []VisibilityHonest
<1>1. IndInv => VisibilityHonest
  BY DEF IndInv
<1> QED BY <1>1, Invariance, PTL

\* A thread that was started goes on until it is asked to stop.
THEOREM StayingAttached == Spec => []StaysAttached
<1>1. IndInv => StaysAttached
  BY DEF IndInv
<1> QED BY <1>1, Invariance, PTL
================================================================================
