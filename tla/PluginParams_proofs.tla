-------------------------- MODULE PluginParams_proofs --------------------------
(***************************************************************************)
(* Proofs about PluginParams, for every set of parameters, every range,    *)
(* every queue and every kind of host.                                     *)
(*                                                                         *)
(* What is on its way from the knobs to the host is a sequence of events   *)
(* in three places (outbox, queue, hand), and each invariant follows it    *)
(* through them: where the host's gesture will be once it has heard them   *)
(* (Path), what value the newest of them carries (Newest), and which of    *)
(* them the host has heard already (Marked).                               *)
(***************************************************************************)
EXTENDS PluginParams, SequenceTheorems, TLAPS

\* What send_gui_event puts on the queue: for a host told directly only values,
\* marked as told; for the others everything, to be forwarded.
Marked(ev) == ev.forward = ~DirectHost /\ (ev.type # "UPDATE" => ev.forward)

MarkedInv ==
    /\ hand # None => Marked(hand)
    /\ \A i \in DOMAIN queue : Marked(queue[i])
    /\ \A i \in DOMAIN outbox :
          /\ outbox[i].type # "UPDATE" \/ ~DirectHost \/ i > 1 => outbox[i].forward
    /\ audio = "forward" => hand.forward

\* A handler sends all it has to before the next one begins, and a view that is
\* not there sends nothing.
OneHandler ==
    /\ refresh = {} \/ outbox = <<>>
    /\ view = "closed" => GuiIdle /\ active = None

BaseInv == TypeOK /\ MarkedInv /\ OneHandler

\* Where a gesture may be.
Places == {"within", "without"}
Within(yes) == IF yes THEN "within" ELSE "without"

\* One event of p's gesture: BEGIN opens it, values and END come within it.
Hearing(from, ev, p, to) ==
    IF ev.param # p \/ ~ev.forward THEN to = from
    ELSE /\ from = Within(ev.type # "BEGIN")
         /\ to = Within(ev.type # "END")

\* Hearing s takes p's gesture from one place to another: path says where it is
\* after each event.
Path(s, p, from, to) ==
    \E path \in [0 .. Len(s) -> Places] :
        /\ path[0] = from /\ path[Len(s)] = to
        /\ \A i \in 1 .. Len(s) : Hearing(path[i - 1], s[i], p, path[i])

\* Once everything that is on its way has been heard, the host's gesture is
\* where the knob is: in a drag or not.  A host told directly hears the outbox.
Heard(p) ==
    IF DirectHost THEN Path(outbox, p, Within(p \in open), Within(active = p))
    ELSE \E a, b \in Places :
            /\ IF hand = None THEN a = Within(p \in open)
                              ELSE Hearing(Within(p \in open), hand, p, a)
            /\ Path(queue, p, a, b)
            /\ Path(outbox, p, b, Within(active = p))

\* It is so for every parameter whose gestures have arrived so far; a drag of one
\* of those still has its button down.
GestureInv ==
    /\ active \in broken \cup {None} \/ pressed
    /\ \A p \in Params \ broken : Heard(p)

\* The edit the host was told of, and not yet queued.
HeadTold(p) == outbox # <<>> /\ IsUpdate(outbox[1], p) /\ ~outbox[1].forward

\* The edit stored, and about to be forwarded.
Forwarding(p) == audio = "forward" /\ IsUpdate(hand, p)

\* A host told directly knows the newest edit it was told of, even while the
\* plugin has not stored it ...
KnowsTold(p) ==
    IF HeadTold(p) THEN known[p] = outbox[1].val
    ELSE /\ \A v \in Lo .. Hi : Newest(p, v) => known[p] = v
         /\ ~Pending(p) => known[p] = values[p]

\* ... and another is about to hear what the plugin has stored.
KnowsStored(p) ==
    IF Forwarding(p) THEN values[p] = hand.val
    ELSE ~Pending(p) => known[p] = values[p]

Knows(p) == IF DirectHost THEN KnowsTold(p) ELSE KnowsStored(p)

HostInv == \A p \in Params \ astray : Knows(p)

\* A knob shows the edit it has still to send.
EditInv == \A i \in DOMAIN outbox :
              outbox[i].type = "UPDATE" =>
                  knob[outbox[i].param] = Normalise(outbox[i].val)

CoherentInv == EditInv /\ KnobsCoherent

\* What KnobsCoherent says of each knob of an open view.
Coherent(p) ==
    ~doubt[p] /\ ~Unsent(p) =>
        /\ \A v \in Lo .. Hi : p \notin refresh /\ Newest(p, v) => knob[p] = Normalise(v)
        /\ ~Pending(p) /\ ~Due(p) => knob[p] = Normalise(values[p])

-------------------------------------------------------------------------------
(* Sequences of events *)

\* A sequence with its first element changed, as TellHost changes the outbox.
LEMMA Refronted ==
    ASSUME NEW S, NEW s \in Seq(S), s # <<>>, NEW e \in S
    PROVE  LET t == <<e>> \o Tail(s)
           IN /\ t \in Seq(S) /\ t # <<>> /\ Len(t) = Len(s)
              /\ t[1] = e /\ \A i \in 2 .. Len(s) : t[i] = s[i]
  <1>1. /\ Tail(s) \in Seq(S) /\ Len(Tail(s)) = Len(s) - 1 /\ Len(s) \in Nat \ {0}
        /\ \A i \in 1 .. Len(Tail(s)) : Tail(s)[i] = s[i + 1]
    BY HeadTailProperties, EmptySeq
  <1>2. <<e>> \in Seq(S) /\ Len(<<e>>) = 1 /\ <<e>>[1] = e
    OBVIOUS
  <1> DEFINE t == <<e>> \o Tail(s)
  <1>3. /\ t \in Seq(S) /\ Len(t) = 1 + Len(Tail(s))
        /\ \A i \in 1 .. 1 + Len(Tail(s)) :
              t[i] = IF i <= 1 THEN <<e>>[i] ELSE Tail(s)[i - 1]
    BY <1>1, <1>2, ConcatProperties
  <1> HIDE DEF t
  <1>4. Len(t) = Len(s) /\ t[1] = e /\ \A i \in 2 .. Len(s) : t[i] = s[i]
    BY <1>1, <1>2, <1>3
  <1>5. t # <<>>
    BY <1>1, <1>4, EmptySeq
  <1> QED  BY <1>3, <1>4, <1>5 DEF t

LEMMA HeadIsFirst ==
    ASSUME NEW S, NEW s \in Seq(S), s # <<>>
    PROVE  Head(s) = s[1] /\ 1 \in DOMAIN s /\ Len(s) \in Nat \ {0}
  BY EmptySeq

LEMMA FirstEvent ==
    ASSUME NEW s \in Seq(ParamEvent), s # <<>>
    PROVE  /\ Head(s) \in ParamEvent /\ Tail(s) \in Seq(ParamEvent)
           /\ Len(Tail(s)) = Len(s) - 1 /\ Len(s) \in Nat \ {0}
           /\ \A i \in 1 .. Len(Tail(s)) : Tail(s)[i] = s[i + 1]
           /\ Head(s) = s[1] /\ DOMAIN s = 1 .. Len(s)
           /\ DOMAIN Tail(s) = 1 .. Len(Tail(s))
           /\ Head(s).param \in Params /\ Head(s).val \in Lo .. Hi
           /\ Head(s).type \in {"BEGIN", "UPDATE", "END"} /\ Head(s).forward \in BOOLEAN
  <1>1. /\ Head(s) \in ParamEvent /\ Tail(s) \in Seq(ParamEvent)
        /\ Len(Tail(s)) = Len(s) - 1 /\ Len(s) \in Nat \ {0}
        /\ \A i \in 1 .. Len(Tail(s)) : Tail(s)[i] = s[i + 1]
        /\ Head(s) = s[1]
    BY HeadTailProperties, HeadIsFirst
  <1> QED  BY <1>1, LenProperties DEF ParamEvent

LEMMA WithinPlaces == ASSUME NEW yes  PROVE Within(yes) \in Places
  BY DEF Within, Places

LEMMA PathEmpty == ASSUME NEW p, NEW a \in Places  PROVE Path(<<>>, p, a, a)
  <1> DEFINE path == [i \in 0 .. 0 |-> a]
  <1>1. path \in [0 .. Len(<<>>) -> Places] /\ path[0] = a /\ path[Len(<<>>)] = a
    OBVIOUS
  <1>2. \A i \in 1 .. Len(<<>>) : Hearing(path[i - 1], <<>>[i], p, path[i])
    OBVIOUS
  <1> QED  BY <1>1, <1>2 DEF Path

LEMMA PathOfNone ==
    ASSUME NEW p, NEW a, NEW b, Path(<<>>, p, a, b)
    PROVE  a = b
  BY DEF Path

\* The first event, then the others.
LEMMA PathHead ==
    ASSUME NEW S, NEW s \in Seq(S), s # <<>>, NEW p, NEW a, NEW b, Path(s, p, a, b)
    PROVE  \E c \in Places : Hearing(a, Head(s), p, c) /\ Path(Tail(s), p, c, b)
  <1>1. PICK path \in [0 .. Len(s) -> Places] :
            /\ path[0] = a /\ path[Len(s)] = b
            /\ \A i \in 1 .. Len(s) : Hearing(path[i - 1], s[i], p, path[i])
    BY DEF Path
  <1>2. /\ Tail(s) \in Seq(S) /\ Len(Tail(s)) = Len(s) - 1 /\ Len(s) \in Nat \ {0}
        /\ \A i \in 1 .. Len(Tail(s)) : Tail(s)[i] = s[i + 1]
        /\ Head(s) = s[1]
    BY HeadTailProperties, HeadIsFirst
  <1> DEFINE rest == [i \in 0 .. Len(s) - 1 |-> path[i + 1]]
  <1>3. rest \in [0 .. Len(Tail(s)) -> Places] /\ rest[0] = path[1]
        /\ rest[Len(Tail(s))] = b
    BY <1>1, <1>2
  <1>4. ASSUME NEW i \in 1 .. Len(Tail(s))
        PROVE  Hearing(rest[i - 1], Tail(s)[i], p, rest[i])
    <2>1. rest[i - 1] = path[i] /\ rest[i] = path[i + 1] /\ i + 1 \in 1 .. Len(s)
      BY <1>2
    <2>2. Hearing(path[(i + 1) - 1], s[i + 1], p, path[i + 1]) /\ (i + 1) - 1 = i
      BY <1>1, <2>1
    <2>3. Tail(s)[i] = s[i + 1]
      BY <1>2
    <2> QED  BY <2>1, <2>2, <2>3
  <1>5. Path(Tail(s), p, path[1], b)
    <2> HIDE DEF rest
    <2> QED  BY <1>3, <1>4 DEF Path
  <1>6. path[1] \in Places /\ Hearing(a, Head(s), p, path[1])
    <2>1. 1 \in 1 .. Len(s) /\ 1 - 1 = 0
      BY <1>2
    <2>2. Hearing(path[1 - 1], s[1], p, path[1])
      BY <1>1, <2>1
    <2> QED  BY <1>1, <1>2, <2>1, <2>2
  <1> QED  BY <1>5, <1>6

\* One more event at the end ...
LEMMA PathAppend ==
    ASSUME NEW S, NEW s \in Seq(S), NEW e \in S, NEW p, NEW a, NEW b \in Places,
           NEW c \in Places, Path(s, p, a, b), Hearing(b, e, p, c)
    PROVE  Path(Append(s, e), p, a, c)
  <1>1. PICK path \in [0 .. Len(s) -> Places] :
            /\ path[0] = a /\ path[Len(s)] = b
            /\ \A i \in 1 .. Len(s) : Hearing(path[i - 1], s[i], p, path[i])
    BY DEF Path
  <1> DEFINE t == Append(s, e)
             long == [i \in 0 .. Len(s) + 1 |-> IF i <= Len(s) THEN path[i] ELSE c]
  <1>2. /\ Len(s) \in Nat /\ Len(t) = Len(s) + 1 /\ t[Len(s) + 1] = e
        /\ \A i \in 1 .. Len(s) : t[i] = s[i]
    BY AppendProperties, LenProperties
  <1>3. long \in [0 .. Len(t) -> Places] /\ long[0] = a /\ long[Len(t)] = c
    BY <1>1, <1>2
  <1>4. ASSUME NEW i \in 1 .. Len(t)
        PROVE  Hearing(long[i - 1], t[i], p, long[i])
    <2>1. CASE i \in 1 .. Len(s)
      <3>1. long[i - 1] = path[i - 1] /\ long[i] = path[i]
        BY <1>2, <2>1
      <3>2. Hearing(path[i - 1], s[i], p, path[i]) /\ t[i] = s[i]
        BY <1>1, <1>2, <2>1
      <3> QED  BY <3>1, <3>2
    <2>2. CASE i = Len(s) + 1
      <3>1. long[i - 1] = b /\ long[i] = c /\ t[i] = e
        BY <1>1, <1>2, <2>2
      <3> QED  BY <3>1
    <2> QED  BY <1>2, <2>1, <2>2
  <1> HIDE DEF long
  <1> QED  BY <1>3, <1>4 DEF Path

\* ... or in front of the others.
LEMMA PathCons ==
    ASSUME NEW S, NEW s \in Seq(S), NEW e, NEW p, NEW a \in Places,
           NEW b, NEW c, Hearing(a, e, p, c), Path(s, p, c, b),
           NEW t \in Seq(S), Len(t) = Len(s) + 1, t[1] = e,
           \A i \in 1 .. Len(s) : t[i + 1] = s[i]
    PROVE  Path(t, p, a, b)
  <1>1. PICK path \in [0 .. Len(s) -> Places] :
            /\ path[0] = c /\ path[Len(s)] = b
            /\ \A i \in 1 .. Len(s) : Hearing(path[i - 1], s[i], p, path[i])
    BY DEF Path
  <1> DEFINE long == [i \in 0 .. Len(s) + 1 |-> IF i = 0 THEN a ELSE path[i - 1]]
  <1>2. Len(s) \in Nat
    BY LenProperties
  <1>3. long \in [0 .. Len(t) -> Places] /\ long[0] = a /\ long[Len(t)] = b
    BY <1>1, <1>2
  <1>4. ASSUME NEW i \in 1 .. Len(t)
        PROVE  Hearing(long[i - 1], t[i], p, long[i])
    <2>1. CASE i = 1
      <3>1. long[i - 1] = a /\ long[i] = c /\ t[i] = e
        BY <1>1, <1>2, <2>1
      <3> QED  BY <3>1
    <2>2. CASE i # 1
      <3>1. /\ i - 1 \in 1 .. Len(s)
            /\ long[i - 1] = path[(i - 1) - 1] /\ long[i] = path[i - 1]
            /\ t[i] = s[i - 1]
        <4>1. i - 1 \in 1 .. Len(s) /\ t[(i - 1) + 1] = s[i - 1] /\ (i - 1) + 1 = i
          BY <1>2, <2>2
        <4> QED  BY <1>2, <2>2, <4>1
      <3>2. Hearing(path[(i - 1) - 1], s[i - 1], p, path[i - 1])
        BY <1>1, <3>1
      <3> QED  BY <3>1, <3>2
    <2> QED  BY <2>1, <2>2
  <1> HIDE DEF long
  <1> QED  BY <1>3, <1>4 DEF Path

-------------------------------------------------------------------------------
(* Types, marks and one handler at a time *)

LEMMA ClampInRange == ASSUME NEW v \in Int  PROVE Clamp(v) \in Lo .. Hi
  BY RangeAssumption DEF Clamp

LEMMA NormaliseInRange == ASSUME NEW v \in Int  PROVE Normalise(v) \in Positions
  BY RangeAssumption DEF Normalise, Clamp, Positions

LEMMA EventType ==
    ASSUME NEW p \in Params, NEW pos \in Int
    PROVE  /\ Gesture("BEGIN", p) \in ParamEvent
           /\ Update(p, pos) \in ParamEvent
           /\ Gesture("END", p) \in ParamEvent
  <1>1. Denormalise(pos) \in Lo .. Hi /\ Lo \in Lo .. Hi
    BY RangeAssumption DEF Denormalise, Clamp
  <1> QED  BY <1>1 DEF Gesture, Update, Event, ParamEvent

LEMMA InitBase == Init => BaseInv
  <1> SUFFICES ASSUME Init  PROVE BaseInv
    OBVIOUS
  <1>1. Default \in Lo .. Hi /\ Normalise(Default) \in Positions /\ None \notin Params
    BY RangeAssumption, ParamsAssumption, NormaliseInRange
  <1>2. /\ queue \in Seq(ParamEvent) /\ Len(queue) <= Capacity
        /\ chunk \in Seq(Params \X HostValues) /\ outbox \in Seq(ParamEvent)
    BY EmptySeq, CapacityAssumption DEF Init
  <1>3. /\ values \in [Params -> Lo .. Hi] /\ knob \in [Params -> Positions]
        /\ doubt \in [Params -> BOOLEAN] /\ known \in [Params -> Lo .. Hi]
    BY <1>1 DEF Init
  <1>4. TypeOK
    BY <1>2, <1>3 DEF Init, TypeOK, Option
  <1> QED  BY <1>4 DEF Init, BaseInv, MarkedInv, OneHandler, GuiIdle

\* What the marks and the handler turn on.
LEMMA BaseStutters ==
    ASSUME BaseInv, TypeOK',
           UNCHANGED <<hand, audio, queue, outbox, refresh, view, active, host>>
    PROVE  BaseInv'
  BY DEF BaseInv, MarkedInv, Marked, DirectHost, OneHandler, GuiIdle

\* Main thread and host: plugin.c:30-33, 118-124, 243-264.
LEMMA MainBase ==
    ASSUME BaseInv,
           \/ MainStep
           \/ \E p \in Params, v \in HostValues : SetParameter(p, v)
           \/ \E c \in Chunks : LoadState(c)
    PROVE  BaseInv'
  <1> USE DEF BaseInv
  <1>1. ASSUME NEW p \in Params, NEW v \in HostValues, SetParameter(p, v)
        PROVE  BaseInv'
    BY <1>1 DEF SetParameter, TypeOK, MarkedInv, Marked, DirectHost, OneHandler,
                GuiIdle, audioVars, guiVars, editorVars, hostView
  <1>2. ASSUME NEW c \in Chunks, LoadState(c)
        PROVE  BaseInv'
    BY <1>2, ChunkAssumption
       DEF LoadState, TypeOK, MarkedInv, Marked, DirectHost, OneHandler,
           GuiIdle, audioVars, guiVars, editorVars, hostView
  <1>3. CASE MainStore
    <2> DEFINE e == Head(chunk)
    <2>1. e \in Params \X HostValues /\ Tail(chunk) \in Seq(Params \X HostValues)
      BY <1>3, HeadTailProperties DEF MainStore, TypeOK
    <2>2. e[1] \in Params /\ e[2] \in Int /\ Clamp(e[2]) \in Lo .. Hi
      BY <2>1, RangeAssumption, ClampInRange
    <2>3. TypeOK'
      BY <1>3, <2>1, <2>2
         DEF MainStore, Sets, Excuse, TypeOK, Option, audioVars, guiVars, editorVars
    <2>4. UNCHANGED <<hand, audio, queue, outbox, refresh, view, active, host>>
      BY <1>3 DEF MainStore, Sets, audioVars, guiVars, editorVars
    <2> QED  BY <2>3, <2>4, BaseStutters
  <1>4. CASE MainNotify
    BY <1>4 DEF MainNotify, Mark, TypeOK, Option, MarkedInv, Marked, DirectHost,
                OneHandler, GuiIdle, audioVars, guiVars, editorVars, hostView
  <1> QED  BY <1>1, <1>2, <1>3, <1>4 DEF MainStep

\* Audio thread: plugin.c:153-191.
LEMMA AudioBase ==
    ASSUME BaseInv,
           AudioStep \/ \E p \in Params, v \in HostValues : AutomationStore(p, v)
    PROVE  BaseInv'
  <1> USE DEF BaseInv
  <1>1. CASE ProcessBegin \/ DrainEnd \/ ProcessEnd
    BY <1>1 DEF ProcessBegin, DrainEnd, ProcessEnd, TypeOK, MarkedInv, Marked, DirectHost,
                OneHandler, GuiIdle, mainVars, guiVars, editorVars, hostView
  <1>2. CASE DrainPop
    <2>1. /\ Head(queue) \in ParamEvent /\ Tail(queue) \in Seq(ParamEvent)
          /\ Len(Tail(queue)) = Len(queue) - 1 /\ Len(queue) \in Nat \ {0}
          /\ \A i \in 1 .. Len(Tail(queue)) : Tail(queue)[i] = queue[i + 1]
          /\ Head(queue) = queue[1] /\ 1 \in DOMAIN queue
      BY <1>2, HeadTailProperties, HeadIsFirst DEF DrainPop, TypeOK
    <2>2. Head(queue) # None /\ Marked(Head(queue))
      BY <2>1, NoneAssumption DEF MarkedInv
    <2>3. TypeOK'
      BY <1>2, <2>1, <2>2, CapacityAssumption
         DEF DrainPop, TypeOK, Option, mainVars, guiVars, editorVars, hostView
    <2>4. \A i \in DOMAIN queue' : Marked(queue'[i])
      <3>1. DOMAIN queue' = 1 .. Len(queue') /\ DOMAIN queue = 1 .. Len(queue)
        BY <2>3 DEF TypeOK
      <3> QED  BY <1>2, <2>1, <3>1 DEF DrainPop, MarkedInv
    <2>5. audio' = "forward" => hand'.forward
      BY <1>2, <2>2 DEF DrainPop, Marked
    <2>6. MarkedInv'
      BY <1>2, <2>2, <2>4, <2>5
         DEF DrainPop, MarkedInv, Marked, DirectHost, guiVars, editorVars, hostView
    <2> QED  BY <1>2, <2>3, <2>6 DEF DrainPop, OneHandler, GuiIdle, guiVars, editorVars
  <1>3. CASE DrainStore
    <2>1. hand \in ParamEvent /\ hand.param \in Params /\ hand.val \in Int
      BY <1>3, RangeAssumption DEF DrainStore, TypeOK, Option, ParamEvent
    <2>2. TypeOK'
      BY <1>3, <2>1, ClampInRange
         DEF DrainStore, TypeOK, Option, mainVars, guiVars, editorVars
    <2> QED  BY <1>3, <2>2
             DEF DrainStore, MarkedInv, Marked, DirectHost, OneHandler, GuiIdle,
                 mainVars, guiVars, editorVars
  <1>4. CASE Forward
    <2>1. hand \in ParamEvent /\ hand.param \in Params /\ hand.val \in Lo .. Hi
          /\ hand.type \in {"BEGIN", "UPDATE", "END"}
      BY <1>4 DEF Forward, TypeOK, Option, ParamEvent
    <2>2. Hears(hand) \subseteq Params /\ Learns(hand) \in [Params -> Lo .. Hi]
      BY <2>1 DEF Hears, Learns, TypeOK
    <2>3. open' \subseteq Params /\ known' \in [Params -> Lo .. Hi]
          /\ broken' \subseteq Params /\ astray' \subseteq Params
      BY <1>4, <2>1, <2>2 DEF Forward, TypeOK
    <2>4. TypeOK'
      BY <1>4, <2>3 DEF Forward, TypeOK, Option, mainVars, guiVars, editorVars
    <2> QED  BY <1>4, <2>4
             DEF Forward, MarkedInv, Marked, DirectHost, OneHandler, GuiIdle,
                 mainVars, guiVars, editorVars
  <1>5. CASE AutomationNotify
    BY <1>5 DEF AutomationNotify, Mark, TypeOK, Option, MarkedInv, Marked, DirectHost,
                OneHandler, GuiIdle, mainVars, guiVars, editorVars, hostView
  <1>6. ASSUME NEW p \in Params, NEW v \in HostValues, AutomationStore(p, v)
        PROVE  BaseInv'
    <2>1. Clamp(v) \in Lo .. Hi
      BY ClampInRange, RangeAssumption
    <2>2. TypeOK'
      BY <1>6, <2>1
         DEF AutomationStore, Sets, Excuse, TypeOK, Option, mainVars, guiVars, editorVars
    <2> QED  BY <1>6, <2>2
             DEF AutomationStore, Sets, MarkedInv, Marked, DirectHost, OneHandler,
                 GuiIdle, mainVars, guiVars, editorVars
  <1> QED  BY <1>1, <1>2, <1>3, <1>4, <1>5, <1>6 DEF AudioStep

\* A handler that sends events of its own knob, all to be forwarded.
LEMMA HandlerBase ==
    ASSUME BaseInv, TypeOK', GuiFree,
           UNCHANGED <<hand, audio, queue, refresh, view, host>>,
           \A i \in DOMAIN outbox' : outbox'[i].forward
    PROVE  BaseInv'
  BY DEF BaseInv, MarkedInv, Marked, DirectHost, OneHandler, GuiIdle, GuiFree

\* The editor's handlers: editor.c:57-69, 117-175.
LEMMA EditorBase ==
    ASSUME BaseInv, UserAct \/ Tick \/ \E p \in Params : Reread(p)
    PROVE  BaseInv'
  <1> USE DEF BaseInv
  <1> DEFINE rest == <<values, dirty, queue, hand, audio, told, chunk, noted, view,
                       refresh, doubt, host, open, known, broken, astray>>
  <1>1. ASSUME NEW p \in Params, MouseDown(p)
        PROVE  BaseInv'
    <2>1. /\ UNCHANGED rest /\ knob' = knob /\ GuiFree
          /\ dragging' = dragging \cup {p} /\ active' = p /\ lastClick' = p
          /\ pressed' = TRUE /\ outbox' = <<Gesture("BEGIN", p)>>
      BY <1>1 DEF MouseDown, audioVars, mainVars, hostView
    <2>2. Gesture("BEGIN", p) \in ParamEvent
      BY EventType, RangeAssumption
    <2>3. TypeOK'
      BY <2>1, <2>2 DEF TypeOK, Option
    <2>4. \A i \in DOMAIN outbox' : outbox'[i].forward
      BY <2>1 DEF Gesture, Event
    <2> QED  BY <2>1, <2>3, <2>4, HandlerBase
  <1>2. ASSUME NEW p \in Params, DoubleClick(p)
        PROVE  BaseInv'
    <2>1. /\ UNCHANGED rest /\ GuiFree
          /\ dragging' = dragging /\ active' = active /\ lastClick' = lastClick
          /\ pressed' = TRUE /\ knob' = [knob EXCEPT ![p] = Normalise(Default)]
          /\ outbox' = <<Gesture("BEGIN", p), Update(p, knob'[p]), Gesture("END", p)>>
      BY <1>2 DEF DoubleClick, audioVars, mainVars, hostView
    <2>2. Normalise(Default) \in Positions /\ Normalise(Default) \in Int
      BY NormaliseInRange, RangeAssumption DEF Positions
    <2>3. knob'[p] = Normalise(Default) /\ knob' \in [Params -> Positions]
      BY <2>1, <2>2 DEF TypeOK
    <2>4. /\ Gesture("BEGIN", p) \in ParamEvent /\ Update(p, knob'[p]) \in ParamEvent
          /\ Gesture("END", p) \in ParamEvent
      BY <2>2, <2>3, EventType
    <2>5. outbox' \in Seq(ParamEvent)
      BY <2>1, <2>4
    <2>6. TypeOK'
      BY <2>1, <2>3, <2>5 DEF TypeOK
    <2>7. \A i \in DOMAIN outbox' : outbox'[i].forward
      BY <2>1 DEF Gesture, Update, Event
    <2> QED  BY <2>1, <2>6, <2>7, HandlerBase
  <1>3. CASE MouseUp
    <2>1. /\ UNCHANGED rest /\ knob' = knob /\ GuiFree
          /\ dragging' = dragging \ {active} /\ active' = None /\ lastClick' = lastClick
          /\ pressed' = FALSE
          /\ outbox' = IF active = None THEN <<>> ELSE <<Gesture("END", active)>>
      BY <1>3 DEF MouseUp, audioVars, mainVars, hostView
    <2>2. active # None => Gesture("END", active) \in ParamEvent
      BY EventType, RangeAssumption DEF TypeOK, Option
    <2>3. outbox' \in Seq(ParamEvent)
      BY <2>1, <2>2
    <2>4. TypeOK'
      BY <2>1, <2>3 DEF TypeOK, Option
    <2>5. \A i \in DOMAIN outbox' : outbox'[i].forward
      BY <2>1 DEF Gesture, Event
    <2> QED  BY <2>1, <2>4, <2>5, HandlerBase
  <1>4. ASSUME NEW pos \in Positions, MouseMove(pos)
        PROVE  BaseInv'
    <2>1. /\ UNCHANGED rest /\ GuiFree /\ active # None
          /\ dragging' = dragging /\ active' = active /\ lastClick' = lastClick
          /\ pressed' = pressed /\ knob' = [knob EXCEPT ![active] = pos]
          /\ outbox' = <<Update(active, pos)>>
      BY <1>4 DEF MouseMove, audioVars, mainVars, hostView
    <2>2. active \in Params /\ Update(active, pos) \in ParamEvent
      BY <2>1, EventType, RangeAssumption DEF TypeOK, Option, Positions
    <2>3. outbox' \in Seq(ParamEvent) /\ knob' \in [Params -> Positions]
      BY <2>1, <2>2 DEF TypeOK
    <2>4. TypeOK'
      BY <2>1, <2>3 DEF TypeOK
    <2>5. \A i \in DOMAIN outbox' : outbox'[i].forward
      BY <2>1 DEF Update, Event
    <2> QED  BY <2>1, <2>4, <2>5, HandlerBase
  <1>5. ASSUME NEW p \in Params, NEW pos \in Positions, Scroll(p, pos)
        PROVE  BaseInv'
    <2>1. /\ UNCHANGED rest /\ GuiFree
          /\ dragging' = dragging /\ active' = active /\ lastClick' = lastClick
          /\ pressed' = pressed /\ knob' = [knob EXCEPT ![p] = pos]
          /\ outbox' = IF OwnGesture(p)
                       THEN <<Gesture("BEGIN", p), Update(p, pos), Gesture("END", p)>>
                       ELSE <<Update(p, pos)>>
      BY <1>5 DEF Scroll, audioVars, mainVars, hostView
    <2>2. /\ Gesture("BEGIN", p) \in ParamEvent /\ Update(p, pos) \in ParamEvent
          /\ Gesture("END", p) \in ParamEvent
      BY EventType, RangeAssumption DEF Positions
    <2>3. outbox' \in Seq(ParamEvent) /\ knob' \in [Params -> Positions]
      BY <2>1, <2>2 DEF TypeOK
    <2>4. TypeOK'
      BY <2>1, <2>3 DEF TypeOK
    <2>5. \A i \in DOMAIN outbox' : outbox'[i].forward
      BY <2>1 DEF Gesture, Update, Event
    <2> QED  BY <2>1, <2>4, <2>5, HandlerBase
  <1>6. CASE Tick
    <2>1. /\ dirty' = {} /\ refresh' = dirty \ dragging /\ GuiIdle
          /\ UNCHANGED <<values, queue, hand, audio, told, chunk, noted, view, knob,
                         dragging, active, pressed, lastClick, outbox, host, open,
                         known, broken, astray>>
      BY <1>6 DEF Tick, GuiFree, audioVars, mainVars, editorVars, hostView
    <2>2. doubt' \in [Params -> BOOLEAN]
      BY <1>6, Zenon DEF Tick, TypeOK, Pending, InHand
    <2>3. TypeOK'
      BY <2>1, <2>2 DEF TypeOK
    <2>4. view # "closed"
      BY <1>6 DEF Tick, GuiFree
    <2> QED  BY <2>1, <2>3, <2>4
             DEF MarkedInv, Marked, DirectHost, OneHandler, GuiIdle
  <1>7. ASSUME NEW p \in Params, Reread(p)
        PROVE  BaseInv'
    <2>1. /\ knob' = [knob EXCEPT ![p] = Normalise(values[p])]
          /\ refresh' = refresh \ {p}
          /\ doubt' = [doubt EXCEPT ![p] = Pending(p)]
          /\ UNCHANGED <<values, dirty, queue, hand, audio, told, chunk, noted, view,
                         dragging, active, pressed, lastClick, outbox, host, open,
                         known, broken, astray>>
      BY <1>7 DEF Reread, audioVars, mainVars, hostView
    <2>2. Normalise(values[p]) \in Positions
      BY NormaliseInRange, RangeAssumption DEF TypeOK
    <2>3. Pending(p) \in BOOLEAN
      BY DEF Pending, InHand
    <2>4. TypeOK'
      BY <2>1, <2>2, <2>3 DEF TypeOK
    <2> QED  BY <2>1, <2>4 DEF MarkedInv, Marked, DirectHost, OneHandler, GuiIdle
  <1> QED  BY <1>1, <1>2, <1>3, <1>4, <1>5, <1>6, <1>7 DEF UserAct

\* send_gui_event: plugin.c:286-305.
LEMMA SendBase == ASSUME BaseInv, Send  PROVE BaseInv'
  <1> USE DEF BaseInv
  <1> DEFINE ev == Head(outbox)
  <1>1. outbox # <<>> /\ outbox \in Seq(ParamEvent)
    BY DEF Send, TellHost, Push, TypeOK
  <1>2. /\ ev \in ParamEvent /\ Tail(outbox) \in Seq(ParamEvent)
        /\ Len(Tail(outbox)) = Len(outbox) - 1 /\ Len(outbox) \in Nat \ {0}
        /\ \A i \in 1 .. Len(Tail(outbox)) : Tail(outbox)[i] = outbox[i + 1]
        /\ ev = outbox[1] /\ DOMAIN outbox = 1 .. Len(outbox)
        /\ DOMAIN Tail(outbox) = 1 .. Len(Tail(outbox))
        /\ ev.param \in Params /\ ev.val \in Lo .. Hi
        /\ ev.type \in {"BEGIN", "UPDATE", "END"} /\ ev.forward \in BOOLEAN
    BY <1>1, FirstEvent
  <1>3. \A i \in DOMAIN Tail(outbox) : Tail(outbox)[i].forward
    BY <1>2 DEF MarkedInv
  <1>4. view # "closed" /\ refresh = {}
    BY <1>1 DEF OneHandler, GuiIdle
  <1>5. CASE TellHost
    <2>1. /\ DirectHost /\ ev.forward
          /\ open' = Hears(ev) /\ known' = Learns(ev)
          /\ astray' = IF ev.type = "UPDATE" THEN astray \ {ev.param} ELSE astray
          /\ outbox' = IF ev.type = "UPDATE"
                       THEN <<[ev EXCEPT !.forward = FALSE]>> \o Tail(outbox)
                       ELSE Tail(outbox)
          /\ UNCHANGED <<values, dirty, queue, hand, audio, told, chunk, noted, view,
                         knob, dragging, active, pressed, lastClick, refresh, doubt,
                         host, broken>>
      BY <1>5 DEF TellHost, StillQueued, audioVars, mainVars, editorVars
    <2>2. open' \subseteq Params /\ known' \in [Params -> Lo .. Hi] /\ astray' \subseteq Params
      BY <1>2, <2>1 DEF Hears, Learns, TypeOK
    <2>3. [ev EXCEPT !.forward = FALSE] \in ParamEvent
      BY <1>2 DEF ParamEvent
    <2>4. /\ outbox' \in Seq(ParamEvent)
          /\ \A i \in DOMAIN outbox' :
                outbox'[i].type # "UPDATE" \/ i > 1 => outbox'[i].forward
      <3>1. CASE ev.type # "UPDATE"
        BY <1>2, <1>3, <2>1, <3>1
      <3>2. CASE ev.type = "UPDATE"
        <4> DEFINE e == [ev EXCEPT !.forward = FALSE]
        <4>1. /\ outbox' \in Seq(ParamEvent) /\ Len(outbox') = Len(outbox)
              /\ outbox'[1] = e /\ \A i \in 2 .. Len(outbox) : outbox'[i] = outbox[i]
          BY <1>2, <2>1, <2>3, <3>2, <1>1, Refronted
        <4>2. e.type = "UPDATE"
          BY <1>2, <3>2 DEF ParamEvent
        <4>3. DOMAIN outbox' = 1 .. Len(outbox)
          BY <4>1, LenProperties
        <4>4. \A i \in 2 .. Len(outbox) : outbox'[i].forward
          BY <1>2, <4>1 DEF MarkedInv
        <4> HIDE DEF e
        <4> QED  BY <1>2, <4>1, <4>2, <4>3, <4>4
      <3> QED  BY <3>1, <3>2
    <2>5. TypeOK'
      BY <2>1, <2>2, <2>4 DEF TypeOK
    <2> QED  BY <1>4, <2>1, <2>4, <2>5 DEF MarkedInv, Marked, DirectHost, OneHandler, GuiIdle
  <1>6. CASE Push
    <2> DEFINE room == Len(queue) < Capacity
    <2>1. /\ DirectHost => ~ev.forward
          /\ queue' = IF room THEN Append(queue, ev) ELSE queue
          /\ doubt' = IF ev.type = "UPDATE" THEN [doubt EXCEPT ![ev.param] = ~room] ELSE doubt
          /\ astray' \in {astray, astray \cup {ev.param}}
          /\ broken' \in {broken, broken \cup {ev.param}}
          /\ outbox' = Tail(outbox)
          /\ UNCHANGED <<values, dirty, hand, audio, told, chunk, noted, view, knob,
                         dragging, active, pressed, lastClick, refresh, host, open, known>>
      BY <1>6 DEF Push, audioVars, mainVars, editorVars
    <2>2. Marked(ev)
      BY <1>2, <2>1 DEF MarkedInv, Marked
    <2>3. /\ queue' \in Seq(ParamEvent) /\ Len(queue') <= Capacity
          /\ \A i \in DOMAIN queue' : Marked(queue'[i])
      <3>1. CASE room
        <4>1. /\ queue' \in Seq(ParamEvent) /\ Len(queue') = Len(queue) + 1
              /\ Len(queue) \in Nat /\ queue'[Len(queue) + 1] = ev
              /\ \A i \in 1 .. Len(queue) : queue'[i] = queue[i]
              /\ DOMAIN queue = 1 .. Len(queue) /\ DOMAIN queue' = 1 .. Len(queue')
          BY <1>2, <2>1, <3>1, AppendProperties, LenProperties DEF TypeOK
        <4> QED  BY <2>2, <3>1, <4>1, CapacityAssumption DEF MarkedInv
      <3>2. CASE ~room
        BY <2>1, <3>2 DEF TypeOK, MarkedInv
      <3> QED  BY <3>1, <3>2
    <2>4. doubt' \in [Params -> BOOLEAN]
      BY <1>2, <2>1, Zenon DEF TypeOK
    <2>5. TypeOK'
      BY <1>2, <2>1, <2>3, <2>4 DEF TypeOK
    <2>6. (\A i \in DOMAIN queue : Marked(queue[i]))'
      BY <2>1, <2>3 DEF Marked, DirectHost
    <2> QED  BY <1>3, <1>4, <2>1, <2>5, <2>6
             DEF MarkedInv, Marked, DirectHost, OneHandler, GuiIdle
  <1> QED  BY <1>5, <1>6 DEF Send

\* The view comes and goes: window-pugl.c, editor.c:33-46.
LEMMA ViewBase ==
    ASSUME BaseInv, CreateGUI \/ Attach \/ Detach \/ DestroyGUI
    PROVE  BaseInv'
  <1> USE DEF BaseInv
  <1>1. Normalise(Default) \in Positions
    BY NormaliseInRange, RangeAssumption
  <1>2. TypeOK'
    <2>1. CASE CreateGUI
      BY <1>1, <2>1 DEF CreateGUI, TypeOK, Option, audioVars, mainVars, hostView
    <2>2. CASE Attach
      BY <2>2 DEF Attach, TypeOK, Option, audioVars, mainVars, hostView
    <2>3. CASE Detach
      BY <2>3 DEF Detach, TypeOK, Option, audioVars, mainVars
    <2>4. CASE DestroyGUI
      BY <1>1, <2>4 DEF DestroyGUI, TypeOK, Option, audioVars, mainVars
    <2> QED  BY <2>1, <2>2, <2>3, <2>4
  <1>3. outbox = <<>> /\ UNCHANGED <<queue, hand, audio, host, outbox>>
    BY DEF CreateGUI, Attach, Detach, DestroyGUI, OneHandler, GuiIdle, audioVars, hostView
  <1>4. OneHandler'
    BY <1>3 DEF CreateGUI, Attach, Detach, DestroyGUI, OneHandler, GuiIdle
  <1> QED  BY <1>2, <1>3, <1>4 DEF MarkedInv, Marked, DirectHost

LEMMA BaseNext == BaseInv /\ [Next]_vars => BaseInv'
  <1> SUFFICES ASSUME BaseInv, [Next]_vars  PROVE BaseInv'
    OBVIOUS
  <1>1. CASE UNCHANGED vars
    <2>1. TypeOK'
      BY <1>1 DEF BaseInv, TypeOK, vars, audioVars, mainVars, guiVars, editorVars, hostView
    <2> QED  BY <1>1, <2>1, BaseStutters
             DEF vars, audioVars, mainVars, guiVars, editorVars, hostView
  <1> QED  BY <1>1, MainBase, AudioBase, EditorBase, SendBase, ViewBase
           DEF Next, GuiStep, HostAct

\* Every variable keeps its type.
THEOREM TypeCorrect == Spec => []TypeOK
  <1>1. Spec => []BaseInv
    BY InitBase, BaseNext, PTL DEF Spec
  <1>2. BaseInv => TypeOK
    BY DEF BaseInv
  <1> QED  BY <1>1, <1>2, PTL

-------------------------------------------------------------------------------
(* Gestures *)

LEMMA PathOne ==
    ASSUME NEW e, NEW p, NEW a \in Places, NEW b \in Places, Hearing(a, e, p, b)
    PROVE  Path(<<e>>, p, a, b)
  <1>1. Path(<<>>, p, b, b)
    BY PathEmpty
  <1>2. /\ <<>> \in Seq({e}) /\ <<e>> \in Seq({e}) /\ Len(<<e>>) = Len(<<>>) + 1
        /\ <<e>>[1] = e /\ \A i \in 1 .. Len(<<>>) : <<e>>[i + 1] = <<>>[i]
    OBVIOUS
  <1> QED  BY <1>1, <1>2, PathCons

\* A whole gesture of p leaves every parameter where it was.
LEMMA PathOfGesture ==
    ASSUME NEW p \in Params, NEW pos \in Int, NEW q \in Params, NEW a \in Places,
           q = p => a = "without"
    PROVE  Path(<<Gesture("BEGIN", p), Update(p, pos), Gesture("END", p)>>, q, a, a)
  <1> DEFINE s == <<Gesture("BEGIN", p), Update(p, pos), Gesture("END", p)>>
             mid == IF q = p THEN "within" ELSE a
             path == [i \in 0 .. 3 |-> IF i \in {1, 2} THEN mid ELSE a]
  <1>1. path \in [0 .. Len(s) -> Places] /\ path[0] = a /\ path[Len(s)] = a
    BY DEF Places
  <1>2. /\ Hearing(a, Gesture("BEGIN", p), q, mid)
        /\ Hearing(mid, Update(p, pos), q, mid)
        /\ Hearing(mid, Gesture("END", p), q, a)
    BY DEF Hearing, Gesture, Update, Event, Within
  <1>3. ASSUME NEW i \in 1 .. Len(s)
        PROVE  Hearing(path[i - 1], s[i], q, path[i])
    <2>1. i = 1 \/ i = 2 \/ i = 3
      OBVIOUS
    <2> HIDE DEF mid
    <2> QED  BY <1>2, <2>1
  <1> HIDE DEF path
  <1> QED  BY <1>1, <1>3 DEF Path

\* What the gestures turn on.
LEMMA GestureStutters ==
    ASSUME GestureInv, UNCHANGED <<host, outbox, open, active, broken, pressed>>,
           DirectHost \/ UNCHANGED <<hand, queue>>
    PROVE  GestureInv'
  <1>1. ASSUME NEW p \in Params \ broken  PROVE Heard(p)'
    <2>1. Heard(p)
      BY DEF GestureInv
    <2> QED  BY <2>1 DEF Heard, DirectHost
  <1> QED  BY <1>1 DEF GestureInv

\* A handler's events take p's gesture from where the knob was to where it is.
LEMMA HandlerGesture ==
    ASSUME BaseInv, NEW p \in Params, Heard(p), outbox = <<>>,
           UNCHANGED <<host, hand, queue, open>>,
           Path(outbox', p, Within(active = p), Within(active' = p))
    PROVE  Heard(p)'
  <1>1. CASE DirectHost
    <2>1. Within(p \in open) = Within(active = p)
      BY <1>1, PathOfNone DEF Heard
    <2> QED  BY <1>1, <2>1 DEF Heard, DirectHost
  <1>2. CASE ~DirectHost
    <2>1. PICK a \in Places, b \in Places :
            /\ IF hand = None THEN a = Within(p \in open)
                              ELSE Hearing(Within(p \in open), hand, p, a)
            /\ Path(queue, p, a, b)
            /\ Path(outbox, p, b, Within(active = p))
      BY <1>2 DEF Heard
    <2>2. b = Within(active = p)
      BY <2>1, PathOfNone
    <2> QED  BY <1>2, <2>1, <2>2 DEF Heard, DirectHost
  <1> QED  BY <1>1, <1>2

\* The mouse and the view: editor.c:117-175, window-pugl.c.
LEMMA EditorGesture ==
    ASSUME BaseInv, GestureInv, UserAct \/ CreateGUI \/ Detach \/ DestroyGUI
    PROVE  GestureInv'
  <1>1. outbox = <<>> /\ UNCHANGED <<host, hand, queue, open>>
    BY DEF UserAct, MouseDown, DoubleClick, MouseUp, MouseMove, Scroll, CreateGUI, Detach,
           DestroyGUI, GuiFree, GuiIdle, BaseInv, OneHandler, audioVars, hostView
  <1> DEFINE Followed == /\ active' \in broken' \cup {None} \/ pressed'
                         /\ broken \subseteq broken'
                         /\ \A q \in Params \ broken' :
                               Path(outbox', q, Within(active = q), Within(active' = q))
  <1>2. SUFFICES Followed
    <2>1. ASSUME NEW p \in Params \ broken'  PROVE Heard(p)'
      <3>1. Heard(p)
        BY <1>2 DEF GestureInv
      <3> QED  BY <1>1, <1>2, <3>1, HandlerGesture
    <2> QED  BY <1>2, <2>1 DEF GestureInv
  <1>3. ASSUME NEW p, ~pressed, p \in Params \ broken  PROVE active # p
    BY <1>3, ParamsAssumption DEF GestureInv
  <1>4. active \in broken \cup {None} \/ pressed
    BY DEF GestureInv
  <1>5. ASSUME NEW p \in Params, MouseDown(p)
        PROVE  Followed
    <2>1. /\ ~pressed /\ pressed' /\ active' = p /\ broken' = broken
          /\ outbox' = <<Gesture("BEGIN", p)>>
      BY <1>5 DEF MouseDown, hostView
    <2>2. ASSUME NEW q \in Params \ broken
          PROVE  Hearing(Within(active = q), Gesture("BEGIN", p), q, Within(active' = q))
      BY <1>3, <2>1 DEF Hearing, Gesture, Event, Within
    <2> QED  BY <2>1, <2>2, PathOne, WithinPlaces
  <1>6. ASSUME NEW p \in Params, DoubleClick(p)
        PROVE  Followed
    <2>1. /\ ~pressed /\ pressed' /\ active' = active /\ broken' = broken
          /\ knob' = [knob EXCEPT ![p] = Normalise(Default)]
          /\ outbox' = <<Gesture("BEGIN", p), Update(p, knob'[p]), Gesture("END", p)>>
      BY <1>6 DEF DoubleClick, hostView
    <2>2. knob'[p] \in Int
      BY <2>1, NormaliseInRange, RangeAssumption DEF BaseInv, TypeOK, Positions
    <2>3. ASSUME NEW q \in Params \ broken
          PROVE  Path(outbox', q, Within(active = q), Within(active' = q))
      <3>1. q = p => Within(active = q) = "without"
        BY <1>3, <2>1 DEF Within
      <3> QED  BY <2>1, <2>2, <3>1, PathOfGesture, WithinPlaces
    <2> QED  BY <2>1, <2>3
  <1>7. ASSUME MouseUp
        PROVE  Followed
    <2>1. /\ active' = None /\ broken' = broken
          /\ outbox' = IF active = None THEN <<>> ELSE <<Gesture("END", active)>>
      BY <1>7 DEF MouseUp, hostView
    <2>2. ASSUME NEW q \in Params \ broken
          PROVE  Path(outbox', q, Within(active = q), Within(active' = q))
      <3>1. q # None
        BY ParamsAssumption
      <3>2. CASE active = None
        <4>1. Within(active = q) = Within(active' = q) /\ outbox' = <<>>
          BY <2>1, <3>2 DEF Within
        <4> QED  BY <4>1, PathEmpty, WithinPlaces
      <3>3. CASE active # None
        <4>1. Hearing(Within(active = q), Gesture("END", active), q, Within(active' = q))
          BY <2>1, <3>1, <3>3 DEF Hearing, Gesture, Event, Within
        <4> QED  BY <2>1, <3>3, <4>1, PathOne, WithinPlaces
      <3> QED  BY <3>2, <3>3
    <2> QED  BY <2>1, <2>2
  <1>8. ASSUME NEW pos \in Positions, MouseMove(pos)
        PROVE  Followed
    <2>1. /\ active' = active /\ broken' = broken /\ pressed' = pressed
          /\ outbox' = <<Update(active, pos)>>
      BY <1>8 DEF MouseMove, hostView
    <2>2. ASSUME NEW q \in Params
          PROVE  Hearing(Within(active = q), Update(active, pos), q, Within(active' = q))
      BY <2>1 DEF Hearing, Update, Event, Within
    <2> QED  BY <1>4, <2>1, <2>2, PathOne, WithinPlaces
  <1>9. ASSUME NEW p \in Params, NEW pos \in Positions, Scroll(p, pos)
        PROVE  Followed
    <2>1. /\ active' = active /\ broken' = broken /\ pressed' = pressed
          /\ active \in {p, None}
          /\ outbox' = IF active # p
                       THEN <<Gesture("BEGIN", p), Update(p, pos), Gesture("END", p)>>
                       ELSE <<Update(p, pos)>>
      BY <1>9 DEF Scroll, OwnGesture, hostView
    <2>2. ASSUME NEW q \in Params
          PROVE  Path(outbox', q, Within(active = q), Within(active' = q))
      <3>1. CASE active = p
        <4>1. Hearing(Within(active = q), Update(p, pos), q, Within(active' = q))
          BY <2>1, <3>1 DEF Hearing, Update, Event, Within
        <4> QED  BY <2>1, <3>1, <4>1, PathOne, WithinPlaces
      <3>2. CASE active # p
        <4>1. /\ Within(active = q) = Within(active' = q) /\ pos \in Int
              /\ q = p => Within(active = q) = "without"
          BY <2>1, <3>2, RangeAssumption DEF Within, Positions
        <4> QED  BY <2>1, <3>2, <4>1, PathOfGesture, WithinPlaces
      <3> QED  BY <3>1, <3>2
    <2> QED  BY <1>4, <2>1, <2>2
  <1>10. ASSUME CreateGUI \/ Detach \/ DestroyGUI
         PROVE  Followed
    <2>1. /\ outbox' = <<>> /\ broken \subseteq broken'
          /\ active' \in broken' \cup {None}
          /\ active' = active \/ (active' = None /\ active \in broken' \cup {None})
      BY <1>1, <1>10 DEF CreateGUI, Detach, DestroyGUI, BaseInv, OneHandler, hostView
    <2>2. ASSUME NEW q \in Params \ broken'
          PROVE  Path(outbox', q, Within(active = q), Within(active' = q))
      <3>1. Within(active = q) = Within(active' = q)
        BY <2>1, ParamsAssumption DEF Within
      <3> QED  BY <2>1, <3>1, PathEmpty, WithinPlaces
    <2> QED  BY <2>1, <2>2
  <1> QED  BY <1>5, <1>6, <1>7, <1>8, <1>9, <1>10 DEF UserAct

\* send_gui_event, which tells a host on the spot or queues for the audio thread
\* (plugin.c:286-305).
LEMMA SendGesture == ASSUME BaseInv, GestureInv, Send  PROVE GestureInv'
  <1> DEFINE ev == Head(outbox)
  <1>a. outbox # <<>> /\ outbox \in Seq(ParamEvent)
    BY DEF Send, TellHost, Push, BaseInv, TypeOK
  <1>1. /\ outbox # <<>> /\ outbox \in Seq(ParamEvent)
        /\ ev \in ParamEvent /\ Tail(outbox) \in Seq(ParamEvent)
        /\ Len(Tail(outbox)) = Len(outbox) - 1 /\ Len(outbox) \in Nat \ {0}
        /\ \A i \in 1 .. Len(Tail(outbox)) : Tail(outbox)[i] = outbox[i + 1]
        /\ ev.param \in Params /\ ev.type \in {"BEGIN", "UPDATE", "END"}
        /\ ev.forward \in BOOLEAN
    BY <1>a, FirstEvent
  <1>2. UNCHANGED <<host, hand, active, pressed>>
    BY DEF Send, TellHost, Push, audioVars, editorVars
  <1>3. CASE TellHost
    <2>1. /\ DirectHost /\ ev.forward /\ broken' = broken /\ open' = Hears(ev)
          /\ outbox' = IF ev.type = "UPDATE"
                       THEN <<[ev EXCEPT !.forward = FALSE]>> \o Tail(outbox)
                       ELSE Tail(outbox)
      BY <1>3 DEF TellHost, StillQueued
    <2>2. ASSUME NEW p \in Params \ broken  PROVE Heard(p)'
      <3>1. PICK c \in Places : /\ Hearing(Within(p \in open), ev, p, c)
                                /\ Path(Tail(outbox), p, c, Within(active = p))
        BY <1>1, <2>1, PathHead, WithinPlaces DEF GestureInv, Heard
      <3>2. c = Within(p \in open')
        BY <1>1, <2>1, <3>1 DEF Hearing, Hears, Within
      <3>3. Path(outbox', p, c, Within(active = p))
        <4>1. CASE ev.type # "UPDATE"
          BY <2>1, <3>1, <4>1
        <4>2. CASE ev.type = "UPDATE"
          <5> DEFINE e == [ev EXCEPT !.forward = FALSE]
          <5>1. e \in ParamEvent /\ ~e.forward
            BY <1>1 DEF ParamEvent
          <5>2. Hearing(c, e, p, c)
            BY <5>1 DEF Hearing
          <5>3. /\ outbox' \in Seq(ParamEvent) /\ Len(outbox') = Len(outbox)
                /\ outbox'[1] = e /\ \A i \in 2 .. Len(outbox) : outbox'[i] = outbox[i]
            BY <1>1, <2>1, <4>2, <5>1, Refronted
          <5>4. /\ Len(outbox') = Len(Tail(outbox)) + 1
                /\ \A i \in 1 .. Len(Tail(outbox)) : outbox'[i + 1] = Tail(outbox)[i]
            BY <1>1, <5>3
          <5> HIDE DEF e
          <5> QED  BY <1>1, <3>1, <5>2, <5>3, <5>4, PathCons, WithinPlaces
        <4> QED  BY <4>1, <4>2
      <3> QED  BY <1>2, <2>1, <3>2, <3>3 DEF Heard, DirectHost
    <2> QED  BY <1>2, <2>1, <2>2 DEF GestureInv
  <1>4. CASE Push
    <2> DEFINE room == Len(queue) < Capacity
    <2>1. /\ DirectHost => ~ev.forward
          /\ queue' = IF room THEN Append(queue, ev) ELSE queue
          /\ broken' = IF ~room /\ ev.type # "UPDATE" THEN broken \cup {ev.param} ELSE broken
          /\ outbox' = Tail(outbox) /\ open' = open
      BY <1>4 DEF Push
    <2>2. ASSUME NEW p \in Params \ broken'  PROVE Heard(p)'
      <3>1. Heard(p)
        BY <2>1, <2>2 DEF GestureInv
      <3>2. CASE DirectHost
        <4>1. PICK c \in Places : /\ Hearing(Within(p \in open), ev, p, c)
                                  /\ Path(Tail(outbox), p, c, Within(active = p))
          BY <1>1, <3>1, <3>2, PathHead, WithinPlaces DEF Heard
        <4>2. c = Within(p \in open)
          BY <2>1, <3>2, <4>1 DEF Hearing
        <4> QED  BY <1>2, <2>1, <3>2, <4>1, <4>2 DEF Heard, DirectHost
      <3>3. CASE ~DirectHost
        <4>1. PICK a \in Places, b \in Places :
                /\ IF hand = None THEN a = Within(p \in open)
                                  ELSE Hearing(Within(p \in open), hand, p, a)
                /\ Path(queue, p, a, b)
                /\ Path(outbox, p, b, Within(active = p))
          BY <3>1, <3>3 DEF Heard
        <4>2. PICK c \in Places : /\ Hearing(b, ev, p, c)
                                  /\ Path(Tail(outbox), p, c, Within(active = p))
          BY <1>1, <4>1, PathHead, WithinPlaces
        <4>3. Path(queue', p, a, c)
          <5>1. CASE room
            BY <1>1, <2>1, <4>1, <4>2, <5>1, PathAppend DEF BaseInv, TypeOK
          <5>2. CASE ~room
            \* A value refused leaves the gesture as it was; an end of p's was not.
            <6>1. ev.param = p => ev.type = "UPDATE"
              BY <2>1, <2>2, <5>2
            <6>2. c = b
              BY <4>2, <6>1 DEF Hearing, Within
            <6> QED  BY <2>1, <4>1, <5>2, <6>2
          <5> QED  BY <5>1, <5>2
        <4> QED  BY <1>2, <2>1, <3>3, <4>1, <4>2, <4>3 DEF Heard, DirectHost
      <3> QED  BY <3>2, <3>3
    <2> QED  BY <1>2, <2>1, <2>2 DEF GestureInv
  <1> QED  BY <1>3, <1>4 DEF Send

\* The audio thread takes an event from the queue and hands it to the host
\* (plugin.c:155-167).
LEMMA DrainGesture ==
    ASSUME BaseInv, GestureInv, DrainPop \/ Forward
    PROVE  GestureInv'
  <1>1. UNCHANGED <<host, outbox, active, pressed>>
    BY DEF DrainPop, Forward, guiVars, editorVars, hostView
  <1>2. CASE DrainPop
    <2>1. /\ queue # <<>> /\ queue \in Seq(ParamEvent) /\ hand = None
          /\ Head(queue) \in ParamEvent /\ Head(queue) # None
          /\ hand' = Head(queue) /\ queue' = Tail(queue)
          /\ UNCHANGED <<open, broken>>
      BY <1>2, HeadTailProperties, NoneAssumption DEF DrainPop, BaseInv, TypeOK, hostView
    <2>2. ASSUME NEW p \in Params \ broken, ~DirectHost  PROVE Heard(p)'
      <3>1. PICK b \in Places : /\ Path(queue, p, Within(p \in open), b)
                                /\ Path(outbox, p, b, Within(active = p))
        BY <2>1, <2>2 DEF GestureInv, Heard
      <3>2. PICK c \in Places : /\ Hearing(Within(p \in open), Head(queue), p, c)
                                /\ Path(Tail(queue), p, c, b)
        BY <2>1, <3>1, PathHead, WithinPlaces
      <3> QED  BY <1>1, <2>1, <2>2, <3>1, <3>2 DEF Heard, DirectHost
    <2>3. ASSUME NEW p \in Params \ broken, DirectHost  PROVE Heard(p)'
      BY <1>1, <2>1, <2>3 DEF GestureInv, Heard, DirectHost
    <2> QED  BY <1>1, <2>1, <2>2, <2>3 DEF GestureInv
  <1>3. CASE Forward
    <2>1. PICK accepted \in BOOLEAN :
            /\ open' = IF accepted THEN Hears(hand) ELSE open
            /\ broken' = IF ~accepted /\ hand.type # "UPDATE"
                         THEN broken \cup {hand.param} ELSE broken
      BY <1>3 DEF Forward
    <2>2. /\ hand # None /\ hand.forward /\ hand' = None /\ queue' = queue
          /\ hand.type \in {"BEGIN", "UPDATE", "END"} /\ ~DirectHost
      BY <1>3 DEF Forward, BaseInv, TypeOK, MarkedInv, Marked, Option, ParamEvent
    <2>3. ASSUME NEW p \in Params \ broken'  PROVE Heard(p)'
      <3>1. p \in Params \ broken
        BY <2>1, <2>3
      <3>2. PICK a \in Places, b \in Places :
              /\ Hearing(Within(p \in open), hand, p, a)
              /\ Path(queue, p, a, b)
              /\ Path(outbox, p, b, Within(active = p))
        BY <2>2, <3>1 DEF GestureInv, Heard
      <3>3. a = Within(p \in open')
        <4>1. CASE accepted
          BY <2>1, <2>2, <3>2, <4>1 DEF Hearing, Hears, Within
        <4>2. CASE ~accepted
          BY <2>1, <2>2, <2>3, <3>2, <4>2 DEF Hearing, Within
        <4> QED  BY <4>1, <4>2
      <3> QED  BY <1>1, <2>2, <3>2, <3>3 DEF Heard, DirectHost
    <2>4. broken \subseteq broken'
      BY <2>1
    <2> QED  BY <1>1, <2>3, <2>4 DEF GestureInv
  <1> QED  BY <1>2, <1>3

LEMMA InitGesture == Init => GestureInv
  <1> SUFFICES ASSUME Init  PROVE GestureInv
    OBVIOUS
  <1>1. ASSUME NEW p \in Params  PROVE Heard(p)
    <2>1. Within(p \in open) = "without" /\ Within(active = p) = "without"
      BY ParamsAssumption DEF Init, Within
    <2>2. Path(<<>>, p, "without", "without")
      BY PathEmpty DEF Places
    <2> QED  BY <2>1, <2>2 DEF Init, Heard, Places
  <1> QED  BY <1>1 DEF Init, GestureInv

LEMMA GestureNext == BaseInv /\ GestureInv /\ [Next]_vars => GestureInv'
  <1> SUFFICES ASSUME BaseInv, GestureInv, [Next]_vars  PROVE GestureInv'
    OBVIOUS
  <1>1. CASE \/ MainStep \/ Attach \/ Tick \/ \E p \in Params : Reread(p)
             \/ ProcessBegin \/ DrainEnd \/ ProcessEnd \/ AutomationNotify
             \/ UNCHANGED vars
    <2>1. UNCHANGED <<host, outbox, open, active, broken, pressed, hand, queue>>
      BY <1>1 DEF MainStep, MainStore, MainNotify, Sets, Attach, Tick, Reread, ProcessBegin,
                  DrainEnd, ProcessEnd, AutomationNotify, vars, audioVars, mainVars,
                  guiVars, editorVars, hostView
    <2> QED  BY <2>1, GestureStutters
  <1>2. ASSUME NEW p \in Params, NEW v \in HostValues,
               SetParameter(p, v) \/ AutomationStore(p, v)
        PROVE  GestureInv'
    <2>1. UNCHANGED <<host, outbox, open, active, broken, pressed, hand, queue>>
      BY <1>2 DEF SetParameter, AutomationStore, Sets, audioVars, guiVars, editorVars, hostView
    <2> QED  BY <2>1, GestureStutters
  <1>3. ASSUME NEW c \in Chunks, LoadState(c)
        PROVE  GestureInv'
    <2>1. UNCHANGED <<host, outbox, open, active, broken, pressed, hand, queue>>
      BY <1>3 DEF LoadState, audioVars, guiVars, editorVars, hostView
    <2> QED  BY <2>1, GestureStutters
  <1>4. CASE DrainStore
    <2>1. /\ UNCHANGED <<host, outbox, open, active, broken, pressed, queue>>
          /\ hand' = IF hand.forward THEN hand ELSE None
      BY <1>4 DEF DrainStore, guiVars, editorVars
    <2>2. DirectHost \/ hand.forward
      BY <1>4 DEF DrainStore, BaseInv, TypeOK, MarkedInv, Marked
    <2> QED  BY <2>1, <2>2, GestureStutters
  <1> QED  BY <1>1, <1>2, <1>3, <1>4, EditorGesture, SendGesture, DrainGesture
           DEF Next, AudioStep, GuiStep, HostAct

LEMMA GestureInvariance == Spec => [](BaseInv /\ GestureInv)
  BY InitBase, BaseNext, InitGesture, GestureNext, PTL DEF Spec

\* Whatever the mouse, the view and a full queue do, and whichever events the
\* host refuses, it is told of well-formed gestures of every parameter none of
\* whose gestures was cut short (editor.c:117-175, plugin.c:286-305).
THEOREM HostHearsGestures == Spec => []GesturesWellFormed
  <1>1. BaseInv /\ GestureInv => GesturesWellFormed
    <2> SUFFICES ASSUME BaseInv, GestureInv, ToldNext # None, ToldNext.param \notin broken
                 PROVE  ContinuesGesture
      BY DEF GesturesWellFormed
    <2> DEFINE p == ToldNext.param
    <2>1. CASE audio = "forward"
      <3>1. /\ ToldNext = hand /\ hand # None /\ hand.forward /\ ~DirectHost /\ p \in Params
        BY <2>1 DEF ToldNext, BaseInv, TypeOK, MarkedInv, Marked, Option, ParamEvent
      <3>2. \E a \in Places : Hearing(Within(p \in open), hand, p, a)
        BY <3>1 DEF GestureInv, Heard
      <3> QED  BY <3>1, <3>2 DEF ContinuesGesture, Hearing, Within
    <2>2. CASE audio # "forward"
      <3>1. DirectHost /\ outbox # <<>> /\ ToldNext = Head(outbox) /\ Head(outbox).forward
        BY <2>2 DEF ToldNext
      <3>2. outbox \in Seq(ParamEvent)
        BY DEF BaseInv, TypeOK
      <3>3. p \in Params
        BY <3>1, <3>2, FirstEvent
      <3>4. \E c \in Places : Hearing(Within(p \in open), Head(outbox), p, c)
        BY <3>1, <3>2, <3>3, PathHead DEF GestureInv, Heard
      <3> QED  BY <3>1, <3>4 DEF ContinuesGesture, Hearing, Within
    <2> QED  BY <2>1, <2>2
  <1> QED  BY <1>1, GestureInvariance, PTL

-------------------------------------------------------------------------------
(* Edits in flight *)

LEMMA EventIsSome == ASSUME NEW e \in ParamEvent  PROVE e # None
  BY NoneAssumption

LEMMA HoldsAppend ==
    ASSUME NEW s \in Seq(ParamEvent), NEW e \in ParamEvent, NEW p
    PROVE  Holds(Append(s, e), p) <=> Holds(s, p) \/ IsUpdate(e, p)
  <1>1. /\ Len(s) \in Nat /\ DOMAIN s = 1 .. Len(s)
        /\ DOMAIN Append(s, e) = 1 .. Len(s) + 1
        /\ \A i \in 1 .. Len(s) : Append(s, e)[i] = s[i]
        /\ Append(s, e)[Len(s) + 1] = e
    BY AppendProperties, LenProperties
  <1>2. \A i \in 1 .. Len(s) + 1 : i \in 1 .. Len(s) \/ i = Len(s) + 1
    BY <1>1
  <1> QED  BY <1>1, <1>2 DEF Holds

LEMMA LastAppend ==
    ASSUME NEW s \in Seq(ParamEvent), NEW e \in ParamEvent, NEW p, NEW v
    PROVE  LastIs(Append(s, e), p, v) <=>
               IF IsUpdate(e, p) THEN e.val = v ELSE LastIs(s, p, v)
  <1>1. /\ Len(s) \in Nat /\ DOMAIN s = 1 .. Len(s)
        /\ DOMAIN Append(s, e) = 1 .. Len(s) + 1
        /\ \A i \in 1 .. Len(s) : Append(s, e)[i] = s[i]
        /\ Append(s, e)[Len(s) + 1] = e
    BY AppendProperties, LenProperties
  <1>2. CASE IsUpdate(e, p)
    BY <1>1, <1>2 DEF LastIs
  <1>3. CASE ~IsUpdate(e, p)
    BY <1>1, <1>3 DEF LastIs
  <1> QED  BY <1>2, <1>3

\* The positions of a sequence and of its tail.
LEMMA TailPlaces ==
    ASSUME NEW s \in Seq(ParamEvent), s # <<>>
    PROVE  /\ \A i \in DOMAIN s : i \in Int /\ (i # 1 => i - 1 \in DOMAIN Tail(s) /\ Tail(s)[i - 1] = s[i])
           /\ \A i \in DOMAIN Tail(s) : i \in Int /\ i > 0 /\ i + 1 \in DOMAIN s /\ s[i + 1] = Tail(s)[i]
           /\ 1 \in DOMAIN s /\ Head(s) = s[1]
  <1>1. /\ Len(s) \in Nat \ {0} /\ DOMAIN s = 1 .. Len(s) /\ Head(s) = s[1]
        /\ DOMAIN Tail(s) = 1 .. Len(s) - 1
        /\ \A i \in 1 .. Len(s) - 1 : Tail(s)[i] = s[i + 1]
    BY FirstEvent
  <1>2. ASSUME NEW i \in DOMAIN s, i # 1
        PROVE  i - 1 \in DOMAIN Tail(s) /\ Tail(s)[i - 1] = s[i]
    <2>1. i - 1 \in 1 .. Len(s) - 1 /\ (i - 1) + 1 = i
      BY <1>1, <1>2
    <2> QED  BY <1>1, <2>1
  <1> QED  BY <1>1, <1>2

LEMMA HoldsTail ==
    ASSUME NEW s \in Seq(ParamEvent), s # <<>>, NEW p
    PROVE  Holds(s, p) <=> IsUpdate(Head(s), p) \/ Holds(Tail(s), p)
  <1>1. ASSUME Holds(s, p), ~IsUpdate(Head(s), p)  PROVE Holds(Tail(s), p)
    <2>1. PICK i \in DOMAIN s : IsUpdate(s[i], p)
      BY <1>1 DEF Holds
    <2> QED  BY <1>1, <2>1, TailPlaces DEF Holds
  <1>2. ASSUME Holds(Tail(s), p)  PROVE Holds(s, p)
    <2>1. PICK i \in DOMAIN Tail(s) : IsUpdate(Tail(s)[i], p)
      BY <1>2 DEF Holds
    <2> QED  BY <2>1, TailPlaces DEF Holds
  <1>3. IsUpdate(Head(s), p) => Holds(s, p)
    BY TailPlaces DEF Holds
  <1> QED  BY <1>1, <1>2, <1>3

LEMMA LastTail ==
    ASSUME NEW s \in Seq(ParamEvent), s # <<>>, NEW p, NEW v
    PROVE  LastIs(s, p, v) <=>
               \/ LastIs(Tail(s), p, v)
               \/ IsUpdate(Head(s), p) /\ Head(s).val = v /\ ~Holds(Tail(s), p)
  <1>1. ASSUME NEW i \in DOMAIN s, IsUpdate(s[i], p), s[i].val = v,
               \A j \in DOMAIN s : j > i => ~IsUpdate(s[j], p)
        PROVE  \/ LastIs(Tail(s), p, v)
               \/ IsUpdate(Head(s), p) /\ Head(s).val = v /\ ~Holds(Tail(s), p)
    <2>1. CASE i = 1
      <3>1. ASSUME NEW j \in DOMAIN Tail(s)  PROVE ~IsUpdate(Tail(s)[j], p)
        <4>1. j + 1 \in DOMAIN s /\ j + 1 > 1 /\ s[j + 1] = Tail(s)[j]
          BY TailPlaces
        <4> QED  BY <1>1, <2>1, <4>1
      <3> QED  BY <1>1, <2>1, <3>1, TailPlaces DEF Holds
    <2>2. CASE i # 1
      <3>1. i - 1 \in DOMAIN Tail(s) /\ Tail(s)[i - 1] = s[i]
        BY <2>2, TailPlaces
      <3>2. ASSUME NEW j \in DOMAIN Tail(s), j > i - 1  PROVE ~IsUpdate(Tail(s)[j], p)
        <4>1. j + 1 \in DOMAIN s /\ j + 1 > i /\ s[j + 1] = Tail(s)[j]
          BY <3>2, TailPlaces
        <4> QED  BY <1>1, <4>1
      <3> QED  BY <1>1, <3>1, <3>2 DEF LastIs
    <2> QED  BY <2>1, <2>2
  <1>2. ASSUME NEW i \in DOMAIN Tail(s), IsUpdate(Tail(s)[i], p), Tail(s)[i].val = v,
               \A j \in DOMAIN Tail(s) : j > i => ~IsUpdate(Tail(s)[j], p)
        PROVE  LastIs(s, p, v)
    <2>1. i + 1 \in DOMAIN s /\ s[i + 1] = Tail(s)[i]
      BY TailPlaces
    <2>2. ASSUME NEW j \in DOMAIN s, j > i + 1  PROVE ~IsUpdate(s[j], p)
      <3>1. i \in Int /\ i > 0 /\ j \in Int
        BY TailPlaces
      <3>2. j - 1 > i /\ j # 1
        BY <2>2, <3>1
      <3> QED  BY <1>2, <3>2, TailPlaces
    <2> QED  BY <1>2, <2>1, <2>2 DEF LastIs
  <1>3. ASSUME IsUpdate(Head(s), p), Head(s).val = v, ~Holds(Tail(s), p)
        PROVE  LastIs(s, p, v)
    <2>1. ASSUME NEW j \in DOMAIN s, j > 1  PROVE ~IsUpdate(s[j], p)
      <3>1. j - 1 \in DOMAIN Tail(s) /\ Tail(s)[j - 1] = s[j]
        BY <2>1, TailPlaces
      <3> QED  BY <1>3, <3>1 DEF Holds
    <2> QED  BY <1>3, <2>1, TailPlaces DEF LastIs
  <1>4. LastIs(s, p, v) => \/ LastIs(Tail(s), p, v)
                           \/ IsUpdate(Head(s), p) /\ Head(s).val = v /\ ~Holds(Tail(s), p)
    BY <1>1 DEF LastIs
  <1>5. LastIs(Tail(s), p, v) => LastIs(s, p, v)
    BY <1>2 DEF LastIs
  <1> QED  BY <1>3, <1>4, <1>5

LEMMA LastIsHeld ==
    ASSUME NEW s, NEW p, NEW v, LastIs(s, p, v)
    PROVE  Holds(s, p)
  BY DEF LastIs, Holds

\* A pop moves an edit from the queue to the hand, which changes nothing.
LEMMA PopKeeps ==
    ASSUME BaseInv, DrainPop, NEW p
    PROVE  /\ Pending(p)' <=> Pending(p)
           /\ \A v : Newest(p, v)' <=> Newest(p, v)
  <1>1. /\ queue \in Seq(ParamEvent) /\ queue # <<>> /\ audio # "store"
        /\ hand' = Head(queue) /\ queue' = Tail(queue) /\ Head(queue) \in ParamEvent
        /\ audio' = IF Head(queue).type = "UPDATE" THEN "store" ELSE "forward"
    BY FirstEvent DEF DrainPop, BaseInv, TypeOK
  <1>2. InHand(p)' <=> IsUpdate(Head(queue), p)
    BY <1>1 DEF InHand, IsUpdate
  <1>3. ~InHand(p)
    BY <1>1 DEF InHand
  <1>4. Pending(p)' <=> Pending(p)
    BY <1>1, <1>2, <1>3, HoldsTail DEF Pending
  <1>5. ASSUME NEW v  PROVE Newest(p, v)' <=> Newest(p, v)
    BY <1>1, <1>2, <1>3, LastTail DEF Newest
  <1> QED  BY <1>4, <1>5

\* An edit pushed becomes the newest of its parameter.
LEMMA PushKeeps ==
    ASSUME BaseInv, NEW ev \in ParamEvent, NEW p,
           queue' = Append(queue, ev), UNCHANGED <<hand, audio>>
    PROVE  /\ Pending(p)' <=> Pending(p) \/ IsUpdate(ev, p)
           /\ \A v : Newest(p, v)' <=>
                 IF IsUpdate(ev, p) THEN ev.val = v ELSE Newest(p, v)
  <1>1. queue \in Seq(ParamEvent) /\ (InHand(p)' <=> InHand(p))
    BY DEF BaseInv, TypeOK, InHand
  <1>2. Pending(p)' <=> Pending(p) \/ IsUpdate(ev, p)
    BY <1>1, HoldsAppend DEF Pending
  <1>3. ASSUME NEW v
        PROVE  Newest(p, v)' <=> IF IsUpdate(ev, p) THEN ev.val = v ELSE Newest(p, v)
    <2>1. /\ LastIs(queue', p, v) <=> IF IsUpdate(ev, p) THEN ev.val = v ELSE LastIs(queue, p, v)
          /\ Holds(queue', p) <=> Holds(queue, p) \/ IsUpdate(ev, p)
      BY <1>1, LastAppend, HoldsAppend
    <2>2. CASE IsUpdate(ev, p)
      BY <2>1, <2>2 DEF Newest
    <2>3. CASE ~IsUpdate(ev, p)
      BY <1>1, <2>1, <2>3 DEF Newest
    <2> QED  BY <2>2, <2>3
  <1> QED  BY <1>2, <1>3

\* Storing the edit in hand takes it out of flight.
LEMMA StoreKeeps ==
    ASSUME BaseInv, DrainStore, NEW p \in Params
    PROVE  /\ Pending(p)' <=> Holds(queue, p)
           /\ \A v : Newest(p, v)' => Newest(p, v)
           /\ hand.param # p => /\ Pending(p)' <=> Pending(p)
                                /\ \A v : Newest(p, v)' <=> Newest(p, v)
           /\ hand.param = p /\ ~Pending(p)' => Newest(p, hand.val)
           /\ hand.val \in Lo .. Hi /\ hand.param \in Params
           /\ values' = [values EXCEPT ![hand.param] = hand.val]
  <1>1. /\ audio = "store" /\ hand # None /\ hand \in ParamEvent /\ hand.type = "UPDATE"
        /\ queue' = queue
    BY DEF DrainStore, BaseInv, TypeOK, Option
  <1>2. /\ hand.val \in Lo .. Hi /\ hand.param \in Params /\ hand.forward \in BOOLEAN
    BY <1>1 DEF ParamEvent
  <1>3. Clamp(hand.val) = hand.val
    BY <1>2, RangeAssumption DEF Clamp
  <1>4. values' = [values EXCEPT ![hand.param] = hand.val]
    BY <1>3 DEF DrainStore
  <1>5. audio' # "store"
    BY DEF DrainStore
  <1>6. ~InHand(p)' /\ (InHand(p) <=> hand.param = p)
    BY <1>1, <1>5 DEF InHand, IsUpdate
  <1>7. Pending(p)' <=> Holds(queue, p)
    BY <1>1, <1>6 DEF Pending
  <1>8. Pending(p) <=> hand.param = p \/ Holds(queue, p)
    BY <1>6 DEF Pending
  <1>9. ASSUME NEW v
        PROVE  /\ Newest(p, v)' <=> LastIs(queue, p, v)
               /\ Newest(p, v) <=> \/ LastIs(queue, p, v)
                                   \/ hand.param = p /\ hand.val = v /\ ~Holds(queue, p)
    <2>1. LastIs(queue', p, v) <=> LastIs(queue, p, v)
      BY <1>1
    <2>2. Newest(p, v)' <=> LastIs(queue, p, v)
      BY <1>6, <2>1 DEF Newest
    <2>3. Newest(p, v) <=> \/ LastIs(queue, p, v)
                           \/ hand.param = p /\ hand.val = v /\ ~Holds(queue, p)
      BY <1>6 DEF Newest
    <2> QED  BY <2>2, <2>3
  <1>10. \A v : Newest(p, v)' => Newest(p, v)
    BY <1>9
  <1>11. ASSUME hand.param # p
         PROVE  (Pending(p)' <=> Pending(p)) /\ \A v : Newest(p, v)' <=> Newest(p, v)
    BY <1>7, <1>8, <1>9, <1>11
  <1>12. hand.param = p /\ ~Pending(p)' => Newest(p, hand.val)
    BY <1>7, <1>9
  <1> QED  BY <1>2, <1>4, <1>7, <1>10, <1>11, <1>12

-------------------------------------------------------------------------------
(* What the host knows *)

LEMMA NewestIsPending == ASSUME NEW p, NEW v, Newest(p, v)  PROVE Pending(p)
  BY LastIsHeld DEF Newest, Pending

\* A host told directly is never told by the audio thread.
LEMMA NotBoth == BaseInv /\ DirectHost => \A p : ~Forwarding(p)
  BY DEF BaseInv, TypeOK, MarkedInv, Marked, Forwarding

\* Only the first event of the outbox may be one the host was told of.
LEMMA NextUntold ==
    ASSUME BaseInv, outbox # <<>>, outbox' = Tail(outbox), NEW p
    PROVE  ~HeadTold(p)'
  <1>1. outbox \in Seq(ParamEvent)
    BY DEF BaseInv, TypeOK
  <1>2. ASSUME Tail(outbox) # <<>>  PROVE Tail(outbox)[1].forward
    <2>1. 1 \in DOMAIN Tail(outbox)
      BY <1>1, <1>2, FirstEvent, HeadIsFirst
    <2>2. 1 + 1 \in DOMAIN outbox /\ outbox[1 + 1] = Tail(outbox)[1]
      BY <1>1, <2>1, TailPlaces
    <2> QED  BY <2>2 DEF BaseInv, MarkedInv
  <1> QED  BY <1>2 DEF HeadTold

\* What is known of p as long as no edit of p moves.
LEMMA HostKept ==
    ASSUME NEW p, Knows(p), host' = host,
           known'[p] = known[p], values'[p] = values[p],
           Pending(p) => Pending(p)',
           DirectHost => /\ HeadTold(p)' <=> HeadTold(p)
                         /\ HeadTold(p) => outbox'[1] = outbox[1]
                         /\ \A v \in Lo .. Hi : Newest(p, v)' => Newest(p, v),
           ~DirectHost => /\ Forwarding(p)' <=> Forwarding(p)
                          /\ Forwarding(p) => hand' = hand
    PROVE  Knows(p)'
  <1>1. CASE DirectHost
    BY <1>1 DEF Knows, KnowsTold, DirectHost
  <1>2. CASE ~DirectHost
    BY <1>2 DEF Knows, KnowsStored, DirectHost
  <1> QED  BY <1>1, <1>2

LEMMA HostStutters ==
    ASSUME HostInv, UNCHANGED <<values, queue, hand, audio, outbox, host, known, astray>>
    PROVE  HostInv'
  BY DEF HostInv, Knows, KnowsTold, KnowsStored, DirectHost, HeadTold, Forwarding,
         Pending, InHand, Newest

\* A block begins and ends with nothing in the audio thread's hand.
LEMMA BlockHost ==
    ASSUME BaseInv, HostInv, ProcessBegin \/ DrainEnd \/ ProcessEnd
    PROVE  HostInv'
  <1>1. /\ UNCHANGED <<values, queue, hand, outbox, host, known, astray>>
        /\ audio \notin {"store", "forward"} /\ audio' \notin {"store", "forward"}
    BY DEF ProcessBegin, DrainEnd, ProcessEnd, guiVars, hostView
  <1>2. ASSUME NEW p \in Params \ astray  PROVE Knows(p)'
    <2>1. /\ Pending(p)' <=> Pending(p)
          /\ HeadTold(p)' <=> HeadTold(p)
          /\ ~Forwarding(p) /\ ~Forwarding(p)'
      BY <1>1 DEF Pending, InHand, HeadTold, Forwarding
    <2>2. ASSUME NEW v  PROVE Newest(p, v)' => Newest(p, v)
      BY <1>1 DEF Newest, InHand
    <2>3. Knows(p)
      BY DEF HostInv
    <2> QED  BY <1>1, <2>1, <2>2, <2>3, HostKept
  <1> QED  BY <1>1, <1>2 DEF HostInv

\* A value stored by the host, and known to it, is crossed by whatever edit of p
\* is on its way (plugin.c:30-33).
LEMMA StoreHost ==
    ASSUME BaseInv, HostInv, NEW p \in Params, NEW v \in Int,
           values' = [values EXCEPT ![p] = Clamp(v)], Sets(p, v),
           UNCHANGED <<queue, hand, audio, outbox>>
    PROVE  HostInv'
  <1>1. /\ known' = [known EXCEPT ![p] = Clamp(v)] /\ host' = host
        /\ astray' = IF Crossing(p) THEN astray \cup {p} ELSE astray \ {p}
        /\ known \in [Params -> Lo .. Hi] /\ values \in [Params -> Lo .. Hi]
    BY DEF Sets, Excuse, BaseInv, TypeOK
  <1>2. ASSUME NEW q \in Params \ astray'  PROVE Knows(q)'
    <2>1. CASE q # p
      <3>1. Knows(q) /\ known'[q] = known[q] /\ values'[q] = values[q]
        BY <1>1, <1>2, <2>1 DEF HostInv
      <3>2. /\ Pending(q)' <=> Pending(q)
            /\ HeadTold(q)' <=> HeadTold(q)
            /\ Forwarding(q)' <=> Forwarding(q)
        BY DEF Pending, InHand, HeadTold, Forwarding
      <3>3. ASSUME NEW w  PROVE Newest(q, w)' => Newest(q, w)
        BY DEF Newest, InHand
      <3> QED  BY <1>1, <3>1, <3>2, <3>3, HostKept
    <2>2. CASE q = p
      <3>1. ~Crossing(p) /\ known'[p] = values'[p]
        BY <1>1, <1>2, <2>2
      <3>2. CASE DirectHost
        <4>1. ~Pending(p) /\ ~Pending(p)'
          BY <3>1, <3>2 DEF Crossing, Pending, InHand
        <4>2. ~HeadTold(p)'
          <5>1. outbox # <<>> => 1 \in DOMAIN outbox
            BY HeadIsFirst DEF BaseInv, TypeOK
          <5> QED  BY <3>1, <3>2, <5>1 DEF Crossing, HeadTold
        <4>3. \A w : ~Newest(p, w)
          BY <4>1, NewestIsPending
        <4>4. ASSUME NEW w  PROVE Newest(p, w)' => Newest(p, w)
          BY DEF Newest, InHand
        <4> QED  BY <1>1, <2>2, <3>1, <3>2, <4>2, <4>3, <4>4 DEF Knows, KnowsTold, DirectHost
      <3>3. CASE ~DirectHost
        <4>1. ~Forwarding(p)'
          BY <3>1 DEF Crossing, Forwarding
        <4> QED  BY <1>1, <2>2, <3>1, <3>3, <4>1 DEF Knows, KnowsStored, DirectHost
      <3> QED  BY <3>2, <3>3
    <2> QED  BY <2>1, <2>2
  <1> QED  BY <1>2 DEF HostInv

\* The audio thread's part: plugin.c:153-167.
LEMMA DrainHost ==
    ASSUME BaseInv, HostInv, DrainPop \/ DrainStore \/ Forward
    PROVE  HostInv'
  <1>1. CASE DrainPop
    <2>1. /\ UNCHANGED <<values, outbox, host, known, astray>>
          /\ queue # <<>> /\ queue \in Seq(ParamEvent)
          /\ audio = "drain" /\ hand' = Head(queue)
          /\ audio' = IF Head(queue).type = "UPDATE" THEN "store" ELSE "forward"
      BY <1>1 DEF DrainPop, guiVars, hostView, BaseInv, TypeOK
    <2>2. ASSUME NEW p \in Params \ astray  PROVE Knows(p)'
      <3>1. Knows(p) /\ (Pending(p)' <=> Pending(p)) /\ \A v : Newest(p, v)' <=> Newest(p, v)
        BY <1>1, PopKeeps DEF HostInv
      <3>2. HeadTold(p)' <=> HeadTold(p)
        BY <2>1 DEF HeadTold
      <3>3. ~Forwarding(p) /\ ~Forwarding(p)'
        BY <2>1 DEF Forwarding, IsUpdate
      <3> QED  BY <2>1, <3>1, <3>2, <3>3, HostKept
    <2> QED  BY <2>1, <2>2 DEF HostInv
  <1>2. CASE DrainStore
    <2>0. PICK u \in Params : u = hand.param
      BY <1>2 DEF DrainStore, BaseInv, TypeOK, Option, ParamEvent
    <2>1. /\ UNCHANGED <<outbox, host, known>>
          /\ audio = "store" /\ hand # None /\ hand.type = "UPDATE"
          /\ audio' = IF hand.forward THEN "forward" ELSE "drain"
          /\ hand' = IF hand.forward THEN hand ELSE None
          /\ astray' = IF hand.forward THEN astray \ {u} ELSE astray
          /\ hand.forward = ~DirectHost
      BY <1>2, <2>0 DEF DrainStore, guiVars, BaseInv, TypeOK, MarkedInv, Marked
    <2>2. /\ values' = [values EXCEPT ![u] = hand.val] /\ hand.val \in Lo .. Hi
          /\ values \in [Params -> Lo .. Hi]
      BY <1>2, <2>0, StoreKeeps DEF BaseInv, TypeOK
    <2>3. ASSUME NEW p \in Params \ astray', p # u  PROVE Knows(p)'
      <3>1. Knows(p) /\ values'[p] = values[p]
        BY <2>1, <2>2, <2>3 DEF HostInv
      <3>2. (Pending(p)' <=> Pending(p)) /\ \A v : Newest(p, v)' <=> Newest(p, v)
        BY <1>2, <2>0, <2>3, StoreKeeps
      <3>3. HeadTold(p)' <=> HeadTold(p)
        BY <2>1 DEF HeadTold
      <3>4. ~Forwarding(p) /\ ~Forwarding(p)'
        BY <2>0, <2>1, <2>3 DEF Forwarding, IsUpdate
      <3> QED  BY <2>1, <3>1, <3>2, <3>3, <3>4, HostKept
    <2>4. ASSUME u \notin astray'  PROVE Knows(u)'
      <3>1. values'[u] = hand.val
        BY <2>2
      <3>2. CASE DirectHost
        <4>1. KnowsTold(u)
          BY <2>1, <2>4, <3>2 DEF HostInv, Knows
        <4>2. HeadTold(u)' <=> HeadTold(u)
          BY <2>1 DEF HeadTold
        <4>3. /\ \A v : Newest(u, v)' => Newest(u, v)
              /\ ~Pending(u)' => Newest(u, hand.val)
          BY <1>2, <2>0, StoreKeeps
        <4> QED  BY <2>1, <2>2, <3>1, <3>2, <4>1, <4>2, <4>3 DEF Knows, KnowsTold, DirectHost
      <3>3. CASE ~DirectHost
        <4>1. hand' = hand /\ audio' = "forward"
          BY <2>1, <3>3
        <4>2. Forwarding(u)'
          BY <2>0, <2>1, <4>1 DEF Forwarding, IsUpdate
        <4> QED  BY <2>1, <3>1, <3>3, <4>1, <4>2 DEF Knows, KnowsStored, DirectHost
      <3> QED  BY <3>2, <3>3
    <2> QED  BY <2>3, <2>4 DEF HostInv
  <1>3. CASE Forward
    <2>1. PICK accepted \in BOOLEAN :
            /\ known' = IF accepted THEN Learns(hand) ELSE known
            /\ astray' = IF ~accepted /\ hand.type = "UPDATE"
                         THEN astray \cup {hand.param} ELSE astray
      BY <1>3 DEF Forward
    <2>2. /\ UNCHANGED <<values, queue, outbox, host>> /\ hand' = None
          /\ audio = "forward" /\ audio' = "drain"
          /\ hand # None /\ hand.forward /\ ~DirectHost /\ hand.param \in Params
          /\ known \in [Params -> Lo .. Hi]
      BY <1>3 DEF Forward, guiVars, BaseInv, TypeOK, MarkedInv, Marked, Option, ParamEvent
    <2>3. ASSUME NEW p \in Params \ astray'  PROVE Knows(p)'
      <3>1. Knows(p) /\ ~Forwarding(p)' /\ (Pending(p)' <=> Pending(p))
        BY <2>1, <2>2, <2>3 DEF HostInv, Forwarding, Pending, InHand
      <3>2. CASE IsUpdate(hand, p)
        <4>1. values[p] = hand.val
          BY <2>2, <3>1, <3>2 DEF Knows, KnowsStored, Forwarding
        <4>2. hand.param = p /\ hand.type = "UPDATE"
          BY <3>2 DEF IsUpdate
        <4>3. accepted
          BY <2>1, <2>3, <4>2
        <4>4. known'[p] = hand.val
          BY <2>1, <2>2, <4>2, <4>3 DEF Learns
        <4> QED  BY <2>2, <3>1, <4>1, <4>4 DEF Knows, KnowsStored, DirectHost
      <3>3. CASE ~IsUpdate(hand, p)
        <4>1. known'[p] = known[p]
          BY <2>1, <2>2, <3>3 DEF Learns, IsUpdate
        <4>2. ~Forwarding(p)
          BY <3>3 DEF Forwarding
        <4> QED  BY <2>2, <3>1, <4>1, <4>2, HostKept
      <3> QED  BY <3>2, <3>3
    <2> QED  BY <2>3 DEF HostInv
  <1> QED  BY <1>1, <1>2, <1>3

\* send_gui_event: plugin.c:286-305.
LEMMA SendHost ==
    ASSUME BaseInv, HostInv, Send
    PROVE  HostInv'
  <1>1. /\ outbox # <<>> /\ outbox \in Seq(ParamEvent) /\ queue \in Seq(ParamEvent)
        /\ known \in [Params -> Lo .. Hi]
        /\ UNCHANGED <<values, hand, audio, host>>
    BY DEF Send, TellHost, Push, BaseInv, TypeOK, audioVars
  <1>2. PICK ev \in ParamEvent : ev = Head(outbox) /\ ev = outbox[1] /\ ev # None
    BY <1>1, FirstEvent, EventIsSome
  <1>3. ev.param \in Params /\ ev.type \in {"BEGIN", "UPDATE", "END"} /\ ev.forward \in BOOLEAN
    BY DEF ParamEvent
  <1>4. ASSUME NEW p  PROVE HeadTold(p) <=> IsUpdate(ev, p) /\ ~ev.forward
    BY <1>1, <1>2 DEF HeadTold
  <1>5. ASSUME NEW p  PROVE Forwarding(p)' <=> Forwarding(p)
    BY <1>1 DEF Forwarding
  <1>6. CASE TellHost
    <2>1. /\ DirectHost /\ ev.forward /\ queue' = queue
          /\ known' = IF ev.type = "UPDATE" THEN [known EXCEPT ![ev.param] = ev.val] ELSE known
          /\ astray' = IF ev.type = "UPDATE" THEN astray \ {ev.param} ELSE astray
          /\ outbox' = IF ev.type = "UPDATE"
                       THEN <<[ev EXCEPT !.forward = FALSE]>> \o Tail(outbox)
                       ELSE Tail(outbox)
      BY <1>2, <1>6 DEF TellHost, Learns, StillQueued
    <2>2. ASSUME NEW p \in Params \ astray', ~IsUpdate(ev, p)  PROVE Knows(p)'
      <3>1. Knows(p) /\ known'[p] = known[p]
        BY <1>1, <1>2, <2>1, <2>2 DEF HostInv, IsUpdate
      <3>2. ~HeadTold(p)
        BY <1>4, <2>2
      <3>3. ~HeadTold(p)'
        <4>1. CASE ev.type = "UPDATE"
          <5> DEFINE e == [ev EXCEPT !.forward = FALSE]
          <5>1. e \in ParamEvent /\ e.param = ev.param /\ e.type = ev.type
            BY DEF ParamEvent
          <5>2. outbox'[1] = e
            BY <1>1, <2>1, <4>1, <5>1, Refronted
          <5>3. ~IsUpdate(e, p)
            BY <1>2, <2>2, <5>1 DEF IsUpdate
          <5> HIDE DEF e
          <5> QED  BY <5>2, <5>3 DEF HeadTold
        <4>2. CASE ev.type # "UPDATE"
          BY <1>1, <2>1, <4>2, NextUntold
        <4> QED  BY <4>1, <4>2
      <3>4. Pending(p)' <=> Pending(p)
        BY <1>1, <2>1 DEF Pending, InHand
      <3>5. ASSUME NEW v  PROVE Newest(p, v)' => Newest(p, v)
        BY <1>1, <2>1 DEF Newest, InHand
      <3> QED  BY <1>1, <1>5, <2>1, <3>1, <3>2, <3>3, <3>4, <3>5, HostKept
    <2>3. ASSUME NEW p \in Params, IsUpdate(ev, p)  PROVE Knows(p)'
      <3> DEFINE e == [ev EXCEPT !.forward = FALSE]
      <3>1. ev.type = "UPDATE" /\ ev.param = p
        BY <2>3 DEF IsUpdate
      <3>2. e \in ParamEvent /\ e.val = ev.val /\ ~e.forward /\ e.type = "UPDATE" /\ e.param = p
        BY <3>1 DEF ParamEvent
      <3>3. outbox' # <<>> /\ outbox'[1] = e
        BY <1>1, <2>1, <3>1, <3>2, Refronted
      <3>4. e # None
        BY <3>2, EventIsSome
      <3> HIDE DEF e
      <3>5. HeadTold(p)'
        BY <3>2, <3>3, <3>4 DEF HeadTold, IsUpdate
      <3>6. known'[p] = ev.val
        BY <1>1, <2>1, <2>3, <3>1
      <3> QED  BY <1>1, <2>1, <3>2, <3>3, <3>5, <3>6 DEF Knows, KnowsTold, DirectHost
    <2> QED  BY <2>2, <2>3 DEF HostInv
  <1>7. CASE Push
    <2> DEFINE room == Len(queue) < Capacity
    <2>1. /\ ev.forward = ~DirectHost /\ (DirectHost => ev.type = "UPDATE")
          /\ queue' = IF room THEN Append(queue, ev) ELSE queue
          /\ astray' = IF ~room /\ ~ev.forward THEN astray \cup {ev.param} ELSE astray
          /\ outbox' = Tail(outbox) /\ known' = known
      <3>1. 1 \in DOMAIN outbox
        BY <1>1, HeadIsFirst
      <3>2. /\ DirectHost => ~ev.forward
            /\ ev.type # "UPDATE" \/ ~DirectHost => ev.forward
        BY <1>2, <1>7, <3>1 DEF Push, BaseInv, MarkedInv
      <3> QED  BY <1>2, <1>3, <1>7, <3>2 DEF Push
    <2>2. ASSUME NEW p \in Params \ astray'  PROVE Knows(p)'
      <3>1. Knows(p)
        BY <2>1, <2>2 DEF HostInv
      <3>2. CASE room
        <4>1. /\ Pending(p)' <=> Pending(p) \/ IsUpdate(ev, p)
              /\ \A v : Newest(p, v)' <=> IF IsUpdate(ev, p) THEN ev.val = v ELSE Newest(p, v)
          BY <1>1, <2>1, <3>2, PushKeeps
        <4>2. ~HeadTold(p)'
          BY <1>1, <2>1, NextUntold
        <4>3. CASE ~DirectHost \/ ~IsUpdate(ev, p)
          BY <1>1, <1>4, <1>5, <2>1, <3>1, <4>1, <4>2, <4>3, HostKept
        <4>4. CASE DirectHost /\ IsUpdate(ev, p)
          <5>1. known[p] = ev.val
            BY <1>2, <1>4, <2>1, <3>1, <4>4 DEF Knows, KnowsTold
          <5> QED  BY <1>1, <2>1, <4>1, <4>2, <4>4, <5>1 DEF Knows, KnowsTold, DirectHost
        <4> QED  BY <4>3, <4>4
      <3>3. CASE ~room
        <4>1. Pending(p)' <=> Pending(p)
          BY <1>1, <2>1, <3>3 DEF Pending, InHand
        <4>2. ASSUME NEW v  PROVE Newest(p, v)' => Newest(p, v)
          BY <1>1, <2>1, <3>3 DEF Newest, InHand
        <4>3. DirectHost => ~HeadTold(p) /\ ~HeadTold(p)'
          <5>1. ~HeadTold(p)'
            BY <1>1, <2>1, NextUntold
          <5>2. DirectHost => ev.param # p
            BY <2>1, <2>2, <3>3
          <5> QED  BY <1>4, <5>1, <5>2 DEF IsUpdate
        <4> QED  BY <1>1, <1>5, <2>1, <3>1, <4>1, <4>2, <4>3, HostKept
      <3> QED  BY <3>2, <3>3
    <2> QED  BY <2>2 DEF HostInv
  <1> QED  BY <1>6, <1>7 DEF Send

\* The editor's handlers fill the outbox with events the host is yet to be told
\* of: editor.c:99-197.
LEMMA EditorHost ==
    ASSUME BaseInv, HostInv, UserAct
    PROVE  HostInv'
  <1>1. /\ outbox = <<>>
        /\ UNCHANGED <<values, queue, hand, audio, host, known, astray>>
    BY DEF UserAct, MouseDown, DoubleClick, MouseUp, MouseMove, Scroll, GuiFree, GuiIdle,
           audioVars, hostView
  <1>2. outbox' # <<>> => outbox'[1].forward
    BY DEF UserAct, MouseDown, DoubleClick, MouseUp, MouseMove, Scroll, Gesture, Update, Event
  <1>3. ASSUME NEW p \in Params \ astray  PROVE Knows(p)'
    <2>1. /\ Pending(p)' <=> Pending(p)
          /\ Forwarding(p)' <=> Forwarding(p)
      BY <1>1 DEF Pending, InHand, Forwarding
    <2>2. ASSUME NEW v  PROVE Newest(p, v)' => Newest(p, v)
      BY <1>1 DEF Newest, InHand
    <2>3. ~HeadTold(p) /\ ~HeadTold(p)'
      BY <1>1, <1>2 DEF HeadTold
    <2>4. Knows(p)
      BY DEF HostInv
    <2> QED  BY <1>1, <2>1, <2>2, <2>3, <2>4, HostKept
  <1> QED  BY <1>1, <1>3 DEF HostInv

LEMMA InitHost == Init => HostInv
  <1> SUFFICES ASSUME Init  PROVE HostInv
    OBVIOUS
  <1>1. ASSUME NEW p  PROVE ~HeadTold(p) /\ ~Forwarding(p) /\ ~Pending(p)
    BY DEF Init, HeadTold, Forwarding, Pending, InHand, Holds
  <1>2. ASSUME NEW p, NEW v  PROVE ~Newest(p, v)
    BY <1>1, NewestIsPending
  <1>3. ASSUME NEW p \in Params  PROVE Knows(p)
    <2>1. known[p] = values[p]
      BY DEF Init
    <2> QED  BY <1>1, <1>2, <2>1 DEF Knows, KnowsTold, KnowsStored
  <1> QED  BY <1>3 DEF HostInv

LEMMA HostNext == BaseInv /\ HostInv /\ [Next]_vars => HostInv'
  <1> SUFFICES ASSUME BaseInv, HostInv, [Next]_vars  PROVE HostInv'
    OBVIOUS
  <1>1. CASE \/ MainNotify \/ AutomationNotify \/ Tick \/ \E p \in Params : Reread(p)
             \/ \E p \in Params, v \in HostValues : SetParameter(p, v)
             \/ \E c \in Chunks : LoadState(c)
             \/ CreateGUI \/ Attach \/ Detach \/ DestroyGUI \/ UNCHANGED vars
    <2>1. UNCHANGED <<values, queue, hand, audio, outbox, host, known, astray>>
      BY <1>1 DEF MainNotify, AutomationNotify, Tick, Reread, SetParameter, LoadState, CreateGUI,
                  Attach, Detach, DestroyGUI, vars, audioVars, mainVars, guiVars,
                  editorVars, hostView
    <2> QED  BY <2>1, HostStutters
  <1>2. CASE MainStore
    <2>1. Head(chunk) \in Params \X HostValues
      BY <1>2, HeadTailProperties DEF MainStore, BaseInv, TypeOK
    <2>2. PICK p \in Params, v \in Int : p = Head(chunk)[1] /\ v = Head(chunk)[2]
      BY <2>1, RangeAssumption
    <2>3. /\ values' = [values EXCEPT ![p] = Clamp(v)] /\ Sets(p, v)
          /\ UNCHANGED <<queue, hand, audio, outbox>>
      BY <1>2, <2>2 DEF MainStore, audioVars, guiVars
    <2> QED  BY <2>3, StoreHost
  <1>3. ASSUME NEW p \in Params, NEW v \in HostValues, AutomationStore(p, v)
        PROVE  HostInv'
    BY <1>3, RangeAssumption, StoreHost DEF AutomationStore, guiVars
  <1> QED  BY <1>1, <1>2, <1>3, BlockHost, DrainHost, SendHost, EditorHost
           DEF Next, MainStep, AudioStep, GuiStep, HostAct

\* Whatever crosses on the way between the three threads, the host knows every
\* parameter as the plugin has it, unless one of the three ways to lead it astray
\* was taken (plugin.c:158, 165, 300-304).
THEOREM HostInStep == Spec => []HostKnows
  <1>1. BaseInv /\ HostInv => HostKnows
    <2> SUFFICES ASSUME BaseInv, HostInv, NEW p \in Params \ astray, ~Pending(p), ~Crossing(p)
                 PROVE  known[p] = values[p]
      BY DEF HostKnows
    <2>1. ~Forwarding(p)
      BY DEF Crossing, Forwarding
    <2>2. Knows(p)
      BY DEF HostInv
    <2>3. DirectHost => ~HeadTold(p)
      <3>1. outbox # <<>> => 1 \in DOMAIN outbox
        BY HeadIsFirst DEF BaseInv, TypeOK
      <3> QED  BY <3>1 DEF Crossing, HeadTold
    <2> QED  BY <2>1, <2>2, <2>3 DEF Knows, KnowsTold, KnowsStored
  <1>2. Spec => [](BaseInv /\ HostInv)
    BY InitBase, BaseNext, InitHost, HostNext, PTL DEF Spec
  <1> QED  BY <1>1, <1>2, PTL

-------------------------------------------------------------------------------
(* What the knobs show *)

\* p's knob stays right as long as nothing is done to it and nothing is lost.
LEMMA KnobKept ==
    ASSUME NEW p, Coherent(p), knob'[p] = knob[p],
           doubt[p] => doubt'[p], Unsent(p) => Unsent(p)',
           p \in refresh => p \in refresh',
           \A v \in Lo .. Hi : Newest(p, v)' => Newest(p, v),
           Pending(p) \/ Due(p) => Pending(p)' \/ Due(p)',
           Pending(p)' \/ Due(p)' \/ values'[p] = values[p]
    PROVE  Coherent(p)'
  BY DEF Coherent

LEMMA NoEditUnsent ==
    ASSUME outbox = <<>>
    PROVE  EditInv /\ \A p : ~Unsent(p)
  BY DEF EditInv, Unsent, Holds

\* Nothing the knobs depend on moves.
LEMMA CoherentStutters ==
    ASSUME CoherentInv, UNCHANGED <<values, queue, outbox, refresh, doubt, knob, view>>,
           audio = "store" <=> audio' = "store", audio = "store" => hand' = hand,
           \A p \in Params : Due(p) => Due(p)'
    PROVE  CoherentInv'
  <1>1. EditInv'
    BY DEF CoherentInv, EditInv
  <1>2. ASSUME NEW p \in Params, Coherent(p)  PROVE Coherent(p)'
    <2>1. (Pending(p)' <=> Pending(p)) /\ (Unsent(p)' <=> Unsent(p))
      BY DEF Pending, InHand, Unsent
    <2>2. ASSUME NEW v  PROVE Newest(p, v)' => Newest(p, v)
      BY DEF Newest, InHand
    <2> QED  BY <1>2, <2>1, <2>2, KnobKept
  <1>3. KnobsCoherent'
    BY <1>2 DEF CoherentInv, KnobsCoherent, Coherent
  <1> QED  BY <1>1, <1>3 DEF CoherentInv

\* A value the host sets is about to be marked.
LEMMA StoreCoherent ==
    ASSUME BaseInv, CoherentInv, NEW p \in Params, NEW v,
           values' = [values EXCEPT ![p] = v], told' = p \/ noted' = p,
           \A q \in Params : Due(q) => Due(q)',
           UNCHANGED <<queue, hand, audio, outbox, refresh, doubt, knob, view>>
    PROVE  CoherentInv'
  <1>1. EditInv'
    BY DEF CoherentInv, EditInv
  <1>2. ASSUME NEW q \in Params, Coherent(q)  PROVE Coherent(q)'
    <2>1. (Pending(q)' <=> Pending(q)) /\ (Unsent(q)' <=> Unsent(q))
      BY DEF Pending, InHand, Unsent
    <2>2. ASSUME NEW w  PROVE Newest(q, w)' => Newest(q, w)
      BY DEF Newest, InHand
    <2>3. Due(q)' \/ values'[q] = values[q]
      BY DEF Due, BaseInv, TypeOK
    <2> QED  BY <1>2, <2>1, <2>2, <2>3, KnobKept
  <1>3. KnobsCoherent'
    BY <1>2 DEF CoherentInv, KnobsCoherent, Coherent
  <1> QED  BY <1>1, <1>3 DEF CoherentInv

\* The audio thread takes an edit and stores it without marking it: the knob
\* shows it already (plugin.c:153-160).
LEMMA DrainCoherent ==
    ASSUME BaseInv, CoherentInv, DrainPop \/ DrainStore
    PROVE  CoherentInv'
  <1>1. UNCHANGED <<outbox, refresh, doubt, knob, view, dirty, told, noted>>
    BY DEF DrainPop, DrainStore, guiVars, editorVars, mainVars, BaseInv, TypeOK
  <1>2. EditInv'
    BY <1>1 DEF CoherentInv, EditInv
  <1>3. ASSUME NEW p \in Params  PROVE (Due(p)' <=> Due(p)) /\ (Unsent(p)' <=> Unsent(p))
    BY <1>1 DEF Due, Unsent
  <1>4. ASSUME DrainPop, NEW p \in Params, Coherent(p)  PROVE Coherent(p)'
    <2>1. (Pending(p)' <=> Pending(p)) /\ \A v : Newest(p, v)' <=> Newest(p, v)
      BY <1>4, PopKeeps
    <2>2. values' = values
      BY <1>4 DEF DrainPop
    <2> QED  BY <1>1, <1>3, <1>4, <2>1, <2>2, KnobKept
  <1>5. ASSUME DrainStore, NEW p \in Params, Coherent(p)  PROVE Coherent(p)'
    <2>1. PICK u \in Params : u = hand.param
      BY <1>5 DEF DrainStore, BaseInv, TypeOK, Option, ParamEvent
    <2>2. /\ values' = [values EXCEPT ![u] = hand.val] /\ hand.val \in Lo .. Hi
          /\ values \in [Params -> Lo .. Hi]
      BY <1>5, <2>1, StoreKeeps DEF BaseInv, TypeOK
    <2>3. CASE p # u
      <3>1. (Pending(p)' <=> Pending(p)) /\ \A v : Newest(p, v)' <=> Newest(p, v)
        BY <1>5, <2>1, <2>3, StoreKeeps
      <3>2. values'[p] = values[p]
        BY <2>2, <2>3
      <3> QED  BY <1>1, <1>3, <1>5, <3>1, <3>2, KnobKept
    <2>4. CASE p = u
      <3>1. /\ \A v : Newest(p, v)' => Newest(p, v)
            /\ ~Pending(p)' => Newest(p, hand.val)
        BY <1>5, <2>1, <2>4, StoreKeeps
      <3>2. values'[p] = hand.val
        BY <2>2, <2>4
      <3>3. ASSUME ~doubt[p], ~Unsent(p), ~Pending(p)', ~Due(p)
            PROVE  knob[p] = Normalise(hand.val)
        BY <1>5, <2>2, <3>1, <3>3 DEF Coherent, Due
      <3> QED  BY <1>1, <1>3, <1>5, <3>1, <3>2, <3>3 DEF Coherent
    <2> QED  BY <2>3, <2>4
  <1>6. KnobsCoherent'
    BY <1>1, <1>4, <1>5 DEF CoherentInv, KnobsCoherent, Coherent
  <1> QED  BY <1>2, <1>6 DEF CoherentInv

\* An edit told to the host keeps its value; one pushed is the newest, one
\* refused leaves the knob in doubt (plugin.c:286-305).
LEMMA SendCoherent ==
    ASSUME BaseInv, CoherentInv, Send
    PROVE  CoherentInv'
  <1>1. /\ outbox # <<>> /\ outbox \in Seq(ParamEvent) /\ queue \in Seq(ParamEvent)
        /\ doubt \in [Params -> BOOLEAN]
        /\ UNCHANGED <<values, hand, audio, refresh, knob, view, dirty, told, noted>>
    BY DEF Send, TellHost, Push, BaseInv, TypeOK, audioVars, mainVars, editorVars
  <1>2. PICK ev \in ParamEvent : ev = Head(outbox) /\ ev = outbox[1] /\ ev # None
    BY <1>1, FirstEvent, EventIsSome
  <1>3. /\ ev.param \in Params /\ ev.type \in {"BEGIN", "UPDATE", "END"}
        /\ Tail(outbox) \in Seq(ParamEvent) /\ 1 \in DOMAIN outbox
    BY <1>1, FirstEvent, HeadIsFirst DEF ParamEvent
  <1>4. ASSUME NEW p  PROVE Due(p)' <=> Due(p)
    BY <1>1 DEF Due
  <1>5. ASSUME outbox' = Tail(outbox)  PROVE EditInv'
    <2>1. \A i \in DOMAIN Tail(outbox) : i + 1 \in DOMAIN outbox /\ outbox[i + 1] = Tail(outbox)[i]
      BY <1>1, TailPlaces
    <2> QED  BY <1>1, <1>5, <2>1 DEF CoherentInv, EditInv
  <1>6. CASE TellHost
    <2>1. /\ queue' = queue /\ doubt' = doubt
          /\ outbox' = IF ev.type = "UPDATE"
                       THEN <<[ev EXCEPT !.forward = FALSE]>> \o Tail(outbox)
                       ELSE Tail(outbox)
      BY <1>2, <1>6 DEF TellHost, StillQueued
    <2> DEFINE e == [ev EXCEPT !.forward = FALSE]
    <2>2. /\ e \in ParamEvent /\ e.val = ev.val /\ e.type = ev.type /\ e.param = ev.param
          /\ e # None
      BY EventIsSome DEF ParamEvent
    <2>3. ASSUME ev.type = "UPDATE"
          PROVE  /\ outbox' \in Seq(ParamEvent) /\ outbox' # <<>> /\ Len(outbox') = Len(outbox)
                 /\ outbox'[1] = e /\ \A i \in 2 .. Len(outbox) : outbox'[i] = outbox[i]
      BY <1>1, <2>1, <2>2, <2>3, Refronted
    <2> HIDE DEF e
    <2>4. ASSUME ev.type = "UPDATE"
          PROVE  \A i \in DOMAIN outbox' : /\ i \in DOMAIN outbox
                                           /\ outbox'[i].type = outbox[i].type
                                           /\ outbox'[i].param = outbox[i].param
                                           /\ outbox'[i].val = outbox[i].val
      <3>1. DOMAIN outbox' = DOMAIN outbox /\ DOMAIN outbox = 1 .. Len(outbox)
        BY <1>1, <2>3, <2>4, LenProperties
      <3>2. \A i \in 1 .. Len(outbox) : i = 1 \/ i \in 2 .. Len(outbox)
        BY <1>1, LenProperties
      <3> QED  BY <1>2, <2>2, <2>3, <2>4, <3>1, <3>2
    <2>5. EditInv'
      <3>1. CASE ev.type = "UPDATE"
        BY <1>1, <2>4, <3>1 DEF CoherentInv, EditInv
      <3> QED  BY <1>5, <2>1, <3>1
    <2>6. ASSUME NEW p \in Params, Coherent(p)  PROVE Coherent(p)'
      <3>1. Unsent(p) => Unsent(p)'
        <4>1. CASE ev.type = "UPDATE"
          <5>1. DOMAIN outbox' = DOMAIN outbox /\ DOMAIN outbox = 1 .. Len(outbox)
            BY <1>1, <2>3, <4>1, LenProperties
          <5>2. \A i \in DOMAIN outbox : IsUpdate(outbox[i], p) => IsUpdate(outbox'[i], p)
            <6>1. \A i \in DOMAIN outbox : i = 1 \/ i \in 2 .. Len(outbox)
              BY <1>1, <5>1, LenProperties
            <6>2. IsUpdate(outbox[1], p) => IsUpdate(outbox'[1], p)
              BY <1>2, <2>2, <2>3, <4>1 DEF IsUpdate
            <6> QED  BY <2>3, <4>1, <6>1, <6>2
          <5> QED  BY <5>1, <5>2 DEF Unsent, Holds
        <4>2. CASE ev.type # "UPDATE"
          <5>1. ~IsUpdate(ev, p)
            BY <4>2 DEF IsUpdate
          <5> QED  BY <1>1, <1>2, <2>1, <4>2, <5>1, HoldsTail DEF Unsent
        <4> QED  BY <4>1, <4>2
      <3>2. Pending(p)' <=> Pending(p)
        BY <1>1, <2>1 DEF Pending, InHand
      <3>3. ASSUME NEW v  PROVE Newest(p, v)' => Newest(p, v)
        BY <1>1, <2>1 DEF Newest, InHand
      <3> QED  BY <1>1, <1>4, <2>1, <2>6, <3>1, <3>2, <3>3, KnobKept
    <2>7. KnobsCoherent'
      BY <1>1, <2>6 DEF CoherentInv, KnobsCoherent, Coherent
    <2> QED  BY <2>5, <2>7 DEF CoherentInv
  <1>7. CASE Push
    <2> DEFINE room == Len(queue) < Capacity
    <2>1. /\ queue' = IF room THEN Append(queue, ev) ELSE queue
          /\ doubt' = IF ev.type = "UPDATE" THEN [doubt EXCEPT ![ev.param] = ~room] ELSE doubt
          /\ outbox' = Tail(outbox)
      BY <1>2, <1>7 DEF Push
    <2>2. ASSUME NEW p \in Params, Coherent(p)  PROVE Coherent(p)'
      <3>1. CASE ~IsUpdate(ev, p)
        <4>1. doubt'[p] = doubt[p]
          BY <1>1, <1>2, <2>1, <3>1 DEF IsUpdate
        <4>2. Unsent(p) => Unsent(p)'
          BY <1>1, <1>2, <2>1, <3>1, HoldsTail DEF Unsent
        <4>3. (Pending(p)' <=> Pending(p)) /\ \A v : Newest(p, v)' => Newest(p, v)
          <5>1. CASE room
            BY <1>1, <2>1, <3>1, <5>1, PushKeeps
          <5>2. CASE ~room
            <6>1. Pending(p)' <=> Pending(p)
              BY <1>1, <2>1, <5>2 DEF Pending, InHand
            <6>2. ASSUME NEW v  PROVE Newest(p, v)' => Newest(p, v)
              BY <1>1, <2>1, <5>2 DEF Newest, InHand
            <6> QED  BY <6>1, <6>2
          <5> QED  BY <5>1, <5>2
        <4> QED  BY <1>1, <1>4, <2>2, <4>1, <4>2, <4>3, KnobKept
      <3>2. CASE IsUpdate(ev, p)
        <4>1. ev.type = "UPDATE" /\ ev.param = p
          BY <3>2 DEF IsUpdate
        <4>2. CASE ~room
          <5>1. doubt'[p]
            BY <1>1, <2>1, <4>1, <4>2
          <5> QED  BY <5>1 DEF Coherent
        <4>3. CASE room
          <5>1. /\ Pending(p)'
                /\ \A v : Newest(p, v)' <=> ev.val = v
            BY <1>1, <2>1, <3>2, <4>3, PushKeeps
          <5>2. knob'[p] = Normalise(ev.val)
            BY <1>1, <1>2, <1>3, <4>1 DEF CoherentInv, EditInv
          <5> QED  BY <5>1, <5>2 DEF Coherent
        <4> QED  BY <4>2, <4>3
      <3> QED  BY <3>1, <3>2
    <2>3. KnobsCoherent'
      BY <1>1, <2>2 DEF CoherentInv, KnobsCoherent, Coherent
    <2> QED  BY <1>5, <2>1, <2>3 DEF CoherentInv
  <1> QED  BY <1>6, <1>7 DEF Send

LEMMA PositionIsKept == ASSUME NEW pos \in Positions  PROVE Normalise(Denormalise(pos)) = pos
  BY RangeAssumption DEF Positions, Normalise, Denormalise, Clamp

\* A handler that turns p's knob has p's edit to send (editor.c:131-197).
LEMMA EditCoherent ==
    ASSUME BaseInv, CoherentInv, NEW p \in Params, NEW pos \in Positions,
           outbox = <<>>, knob' = [knob EXCEPT ![p] = pos],
           outbox' \in {<<Update(p, pos)>>,
                        <<Gesture("BEGIN", p), Update(p, pos), Gesture("END", p)>>},
           UNCHANGED <<values, dirty, queue, hand, audio, told, noted, refresh, doubt, view>>
    PROVE  CoherentInv'
  <1>1. /\ Update(p, pos).type = "UPDATE" /\ Update(p, pos).param = p
        /\ Normalise(Update(p, pos).val) = pos /\ Update(p, pos) # None
        /\ Gesture("BEGIN", p).type # "UPDATE" /\ Gesture("END", p).type # "UPDATE"
    <2>1. pos \in Int /\ Update(p, pos) \in ParamEvent
      BY EventType, RangeAssumption DEF Positions
    <2>2. Update(p, pos) # None
      BY <2>1, EventIsSome
    <2>3. Normalise(Update(p, pos).val) = pos
      BY PositionIsKept DEF Update, Event
    <2> QED  BY <2>2, <2>3 DEF Update, Event, Gesture
  <1>2. knob'[p] = pos /\ \A q \in Params \ {p} : knob'[q] = knob[q]
    BY DEF BaseInv, TypeOK
  <1>3. EditInv'
    <2>1. CASE outbox' = <<Update(p, pos)>>
      BY <1>1, <1>2, <2>1 DEF EditInv
    <2>2. CASE outbox' = <<Gesture("BEGIN", p), Update(p, pos), Gesture("END", p)>>
      BY <1>1, <1>2, <2>2 DEF EditInv
    <2> QED  BY <2>1, <2>2
  <1>4. Unsent(p)'
    <2>1. IsUpdate(Update(p, pos), p)
      BY <1>1 DEF IsUpdate
    <2>2. CASE outbox' = <<Update(p, pos)>>
      BY <2>1, <2>2 DEF Unsent, Holds
    <2>3. CASE outbox' = <<Gesture("BEGIN", p), Update(p, pos), Gesture("END", p)>>
      <3>1. 2 \in DOMAIN outbox' /\ outbox'[2] = Update(p, pos)
        BY <2>3
      <3> QED  BY <2>1, <3>1 DEF Unsent, Holds
    <2> QED  BY <2>2, <2>3
  <1>5. ASSUME NEW q \in Params, q # p, Coherent(q)  PROVE Coherent(q)'
    <2>1. (Pending(q)' <=> Pending(q)) /\ (Due(q)' <=> Due(q)) /\ ~Unsent(q)
      BY NoEditUnsent DEF Pending, InHand, Due
    <2>2. ASSUME NEW v  PROVE Newest(q, v)' => Newest(q, v)
      BY DEF Newest, InHand
    <2> QED  BY <1>2, <1>5, <2>1, <2>2, KnobKept
  <1>6. Coherent(p)'
    BY <1>4 DEF Coherent
  <1>7. KnobsCoherent'
    BY <1>5, <1>6 DEF CoherentInv, KnobsCoherent, Coherent
  <1> QED  BY <1>3, <1>7 DEF CoherentInv

\* The editor's handlers: editor.c:99-197.
LEMMA EditorCoherent ==
    ASSUME BaseInv, CoherentInv, UserAct
    PROVE  CoherentInv'
  <1>1. /\ outbox = <<>>
        /\ UNCHANGED <<values, dirty, queue, hand, audio, told, noted, refresh, doubt, view>>
    BY DEF UserAct, MouseDown, DoubleClick, MouseUp, MouseMove, Scroll, GuiFree, GuiIdle,
           audioVars, mainVars
  <1>2. ASSUME knob' = knob, \A i \in DOMAIN outbox' : outbox'[i].type # "UPDATE"
        PROVE  CoherentInv'
    <2>1. EditInv'
      BY <1>2 DEF EditInv
    <2>2. ASSUME NEW p \in Params, Coherent(p)  PROVE Coherent(p)'
      <3>1. (Pending(p)' <=> Pending(p)) /\ (Due(p)' <=> Due(p)) /\ ~Unsent(p)
        BY <1>1, NoEditUnsent DEF Pending, InHand, Due
      <3>2. ASSUME NEW v  PROVE Newest(p, v)' => Newest(p, v)
        BY <1>1 DEF Newest, InHand
      <3> QED  BY <1>1, <1>2, <2>2, <3>1, <3>2, KnobKept
    <2>3. KnobsCoherent'
      BY <1>1, <2>2 DEF CoherentInv, KnobsCoherent, Coherent
    <2> QED  BY <2>1, <2>3 DEF CoherentInv
  <1>3. ASSUME NEW p \in Params, MouseDown(p)  PROVE CoherentInv'
    <2>1. outbox' = <<Gesture("BEGIN", p)>> /\ Gesture("BEGIN", p).type # "UPDATE" /\ knob' = knob
      BY <1>3 DEF MouseDown, Gesture, Event
    <2> QED  BY <1>2, <2>1
  <1>4. CASE MouseUp
    <2>1. /\ outbox' = IF active = None THEN <<>> ELSE <<Gesture("END", active)>>
          /\ Gesture("END", active).type # "UPDATE" /\ knob' = knob
      BY <1>4 DEF MouseUp, Gesture, Event
    <2> QED  BY <1>2, <2>1
  <1>5. ASSUME NEW p \in Params, DoubleClick(p)  PROVE CoherentInv'
    <2>1. PICK pos \in Positions : pos = Normalise(Default)
      BY RangeAssumption, NormaliseInRange
    <2>2. knob' = [knob EXCEPT ![p] = pos] /\ knob'[p] = pos
      BY <1>5, <2>1 DEF DoubleClick, BaseInv, TypeOK
    <2>3. outbox' = <<Gesture("BEGIN", p), Update(p, pos), Gesture("END", p)>>
      BY <1>5, <2>2 DEF DoubleClick
    <2> QED  BY <1>1, <2>2, <2>3, EditCoherent
  <1>6. ASSUME NEW pos \in Positions, MouseMove(pos)  PROVE CoherentInv'
    <2>1. PICK p \in Params : p = active
      BY <1>6 DEF MouseMove, BaseInv, TypeOK, Option
    <2>2. knob' = [knob EXCEPT ![p] = pos] /\ outbox' = <<Update(p, pos)>>
      BY <1>6, <2>1 DEF MouseMove
    <2> QED  BY <1>1, <2>2, EditCoherent
  <1>7. ASSUME NEW p \in Params, NEW pos \in Positions, Scroll(p, pos)  PROVE CoherentInv'
    <2>1. /\ knob' = [knob EXCEPT ![p] = pos]
          /\ outbox' \in {<<Update(p, pos)>>,
                          <<Gesture("BEGIN", p), Update(p, pos), Gesture("END", p)>>}
      BY <1>7 DEF Scroll
    <2> QED  BY <1>1, <2>1, EditCoherent
  <1> QED  BY <1>3, <1>4, <1>5, <1>6, <1>7 DEF UserAct

\* The tick re-reads what was marked, but for the knobs being dragged: those are
\* in doubt unless an edit of theirs is on its way (editor.c:59-68).
LEMMA TickCoherent ==
    ASSUME BaseInv, CoherentInv, Tick
    PROVE  CoherentInv'
  <1>1. /\ refresh = {} /\ outbox = <<>> /\ dirty' = {} /\ refresh' = dirty \ dragging
        /\ doubt' = [p \in Params |->
                        doubt[p] \/ (p \in dirty \cap dragging /\ ~Pending(p))]
        /\ UNCHANGED <<values, queue, hand, audio, told, noted, outbox, knob, view>>
    BY DEF Tick, GuiFree, GuiIdle, audioVars, mainVars, editorVars
  <1>2. ASSUME NEW p \in Params, Coherent(p)  PROVE Coherent(p)'
    <2>1. (Pending(p)' <=> Pending(p)) /\ (Unsent(p)' <=> Unsent(p))
      BY <1>1 DEF Pending, InHand, Unsent
    <2>2. ASSUME NEW v  PROVE Newest(p, v)' => Newest(p, v)
      BY <1>1 DEF Newest, InHand
    <2>3. doubt'[p] <=> doubt[p] \/ (p \in dirty \cap dragging /\ ~Pending(p))
      BY <1>1
    <2>4. CASE doubt'[p]
      BY <2>4 DEF Coherent
    <2>5. CASE ~doubt'[p]
      <3>1. ~Pending(p) /\ ~Due(p)' => ~Due(p)
        BY <1>1, <2>3, <2>5 DEF Due
      <3> QED  BY <1>1, <1>2, <2>1, <2>2, <2>3, <2>5, <3>1, KnobKept
    <2> QED  BY <2>4, <2>5
  <1>3. KnobsCoherent'
    BY <1>1, <1>2 DEF CoherentInv, KnobsCoherent, Coherent
  <1> QED  BY <1>1, <1>3 DEF CoherentInv, EditInv

\* A knob re-read shows the value, or is in doubt if an edit was on its way
\* (editor.c:46-57, 66).
LEMMA RereadCoherent ==
    ASSUME BaseInv, CoherentInv, NEW q \in Params, Reread(q)
    PROVE  CoherentInv'
  <1>1. /\ outbox = <<>> /\ refresh' = refresh \ {q}
        /\ knob' = [knob EXCEPT ![q] = Normalise(values[q])]
        /\ doubt' = [doubt EXCEPT ![q] = Pending(q)]
        /\ knob \in [Params -> Positions] /\ doubt \in [Params -> BOOLEAN]
        /\ UNCHANGED <<values, dirty, queue, hand, audio, told, noted, outbox, view>>
    BY DEF Reread, BaseInv, TypeOK, OneHandler, audioVars, mainVars
  <1>2. ASSUME NEW p \in Params
        PROVE  (Pending(p)' <=> Pending(p)) /\ \A v : Newest(p, v)' <=> Newest(p, v)
    <2>1. Pending(p)' <=> Pending(p)
      BY <1>1 DEF Pending, InHand
    <2>2. ASSUME NEW v  PROVE Newest(p, v)' <=> Newest(p, v)
      BY <1>1 DEF Newest, InHand
    <2> QED  BY <2>1, <2>2
  <1>3. ASSUME NEW p \in Params, p # q, Coherent(p)  PROVE Coherent(p)'
    <2>1. (Due(p)' <=> Due(p)) /\ (Unsent(p)' <=> Unsent(p))
      BY <1>1, <1>3 DEF Due, Unsent
    <2>2. knob'[p] = knob[p] /\ doubt'[p] = doubt[p] /\ (p \in refresh => p \in refresh')
      BY <1>1, <1>3
    <2> QED  BY <1>1, <1>2, <1>3, <2>1, <2>2, KnobKept
  <1>4. Coherent(q)'
    <2>1. CASE Pending(q)
      <3>1. doubt'[q]
        BY <1>1, <2>1
      <3> QED  BY <3>1 DEF Coherent
    <2>2. CASE ~Pending(q)
      <3>1. \A v : ~Newest(q, v)
        BY <2>2, NewestIsPending
      <3>2. knob'[q] = Normalise(values'[q])
        BY <1>1
      <3> QED  BY <1>2, <3>1, <3>2 DEF Coherent
    <2> QED  BY <2>1, <2>2
  <1>5. KnobsCoherent'
    BY <1>1, <1>3, <1>4 DEF CoherentInv, KnobsCoherent, Coherent
  <1> QED  BY <1>1, <1>5 DEF CoherentInv, EditInv

\* A view that opens re-reads everything: window-pugl.c, editor.c:46-57.
LEMMA ViewCoherent ==
    ASSUME BaseInv, CreateGUI \/ Attach \/ Detach \/ DestroyGUI
    PROVE  CoherentInv'
  <1>1. /\ outbox' = <<>>
        /\ view' = "attached" => refresh' = Params
    BY DEF CreateGUI, Attach, Detach, DestroyGUI, GuiIdle, BaseInv, OneHandler
  <1>2. ASSUME refresh' = Params, NEW p \in Params  PROVE Coherent(p)'
    BY <1>2 DEF Coherent, Due
  <1>3. KnobsCoherent'
    BY <1>1, <1>2 DEF KnobsCoherent, Coherent
  <1> QED  BY <1>1, <1>3 DEF CoherentInv, EditInv

LEMMA CoherentNext == BaseInv /\ CoherentInv /\ [Next]_vars => CoherentInv'
  <1> SUFFICES ASSUME BaseInv, CoherentInv, [Next]_vars  PROVE CoherentInv'
    OBVIOUS
  <1>1. ASSUME UNCHANGED <<values, queue, outbox, refresh, doubt, knob, view>>,
               audio = "store" <=> audio' = "store", audio = "store" => hand' = hand,
               dirty \cup {told, noted} \subseteq dirty' \cup {told', noted', None}
        PROVE  CoherentInv'
    <2>1. \A p \in Params : Due(p) => Due(p)'
      BY <1>1, ParamsAssumption DEF Due
    <2> QED  BY <1>1, <2>1, CoherentStutters
  <1>2. CASE \/ MainNotify \/ AutomationNotify \/ ProcessBegin \/ DrainEnd \/ ProcessEnd
             \/ \E p \in Params, v \in HostValues : SetParameter(p, v)
             \/ \E c \in Chunks : LoadState(c)
             \/ UNCHANGED vars
    BY <1>1, <1>2 DEF MainNotify, AutomationNotify, Mark, ProcessBegin, DrainEnd, ProcessEnd,
                      SetParameter, LoadState, vars, audioVars, mainVars, guiVars, editorVars
  <1>3. CASE Forward
    BY <1>1, <1>3 DEF Forward, mainVars, guiVars, editorVars
  <1>4. ASSUME NEW p \in Params, NEW v, values' = [values EXCEPT ![p] = v],
               \/ told' = p /\ told = None /\ noted' = noted
               \/ noted' = p /\ noted = None /\ told' = told,
               UNCHANGED <<queue, hand, audio, outbox, refresh, doubt, knob, view, dirty>>
        PROVE  CoherentInv'
    <2>1. \A q \in Params : Due(q) => Due(q)'
      BY <1>4, ParamsAssumption DEF Due
    <2> QED  BY <1>4, <2>1, StoreCoherent
  <1>5. CASE MainStore
    <2>1. Head(chunk) \in Params \X HostValues
      BY <1>5, HeadTailProperties DEF MainStore, BaseInv, TypeOK
    <2>2. PICK p \in Params, v \in Int : p = Head(chunk)[1] /\ v = Clamp(Head(chunk)[2])
      <3>1. Head(chunk)[1] \in Params /\ Head(chunk)[2] \in Int
        BY <2>1, RangeAssumption
      <3>2. Clamp(Head(chunk)[2]) \in Int
        BY <3>1, ClampInRange, RangeAssumption
      <3> QED  BY <3>1, <3>2
    <2> QED  BY <1>4, <1>5, <2>2 DEF MainStore, audioVars, guiVars, editorVars
  <1>6. ASSUME NEW p \in Params, NEW v \in HostValues, AutomationStore(p, v)
        PROVE  CoherentInv'
    <2>1. PICK w : w = Clamp(v)
      OBVIOUS
    <2>2. /\ values' = [values EXCEPT ![p] = w]
          /\ told' = p /\ told = None /\ noted' = noted
          /\ UNCHANGED <<queue, hand, audio, outbox, refresh, doubt, knob, view, dirty>>
      BY <1>6, <2>1 DEF AutomationStore, mainVars, guiVars, editorVars
    <2> QED  BY <1>4, <2>2
  <1> QED  BY <1>2, <1>3, <1>5, <1>6, DrainCoherent, SendCoherent, EditorCoherent, TickCoherent,
              RereadCoherent, ViewCoherent
           DEF Next, MainStep, AudioStep, GuiStep, HostAct

\* A knob of an open view shows the value the plugin has or is about to have,
\* whatever the three threads do, unless one of the three ways to leave it in
\* doubt was taken (plugin.c:304, editor.c:65, 66).
THEOREM KnobsInStep == Spec => []KnobsCoherent
  <1>1. Init => CoherentInv
    BY DEF Init, CoherentInv, EditInv, KnobsCoherent
  <1>2. Spec => [](BaseInv /\ CoherentInv)
    BY <1>1, InitBase, BaseNext, CoherentNext, PTL DEF Spec
  <1> QED  BY <1>2, PTL DEF CoherentInv
===============================================================================
