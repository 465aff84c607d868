------------------------------ MODULE ParamQueue ------------------------------
(***************************************************************************)
(* The lock-free ring of pbe-plugin/src/param-queue.h, one step per shared *)
(* memory access.  The GUI thread is the only caller of Push (plugin.c:304)*)
(* and the audio thread the only caller of Pop (plugin.c:155).             *)
(*                                                                         *)
(* head and tail are sequentially consistent atomics (the cplug_atomic     *)
(* functions).  A slot is a plain struct: copying into it takes two steps  *)
(* and it holds Torn in between; copying out of it takes two steps and     *)
(* yields Torn unless the slot was whole and unchanged throughout.         *)
(*                                                                         *)
(* WrapLate, FullForgotten and PopStuck are not part of the model: each is *)
(* the bug its name says, to put in place of the definition that follows   *)
(* it and see which property notices.                                      *)
(***************************************************************************)
EXTENDS Naturals

CONSTANTS Size,   \* PARAM_QUEUE_SIZE
          Events, \* values of a ParamEvent
          None,   \* no event
          Torn    \* a half-written ParamEvent

\* param-queue.h:17 asks for a power of two, which is what makes "& MASK" a
\* wrap-around; the model wraps explicitly and needs only two slots.
ASSUME SizeAssumption == Size \in Nat /\ Size >= 2
ASSUME EventAssumption == None \notin Events /\ Torn \notin Events /\ None # Torn

VARIABLES items, head, tail,   \* the shared ring
          ppc, pev, phead,     \* GUI thread inside Push: pc, *ev, local head
          cpc, chead, ctail,   \* audio thread inside Pop: pc, local head, tail
          cev,                 \* the caller's event being copied into
          got                  \* outcome of the last Pop: an event, or None

ring == <<items, head, tail>>
producer == <<ppc, pev, phead>>
consumer == <<cpc, chead, ctail, cev, got>>
vars == <<ring, producer, consumer>>

Slots == 0 .. Size - 1

\* (i) & PARAM_QUEUE_MASK for 0 <= i <= Size.
WrapLate(i) == IF i > Size THEN 0 ELSE i
Wrap(i) == IF i = Size THEN 0 ELSE i

\* ParamQueue_Init.  The slots are zeroed by calloc: no event is in them.
Init == /\ items = [i \in Slots |-> None]
        /\ head = 0 /\ tail = 0
        /\ ppc = "idle" /\ pev = None /\ phead = 0
        /\ cpc = "idle" /\ chead = 0 /\ ctail = 0 /\ cev = None
        /\ got = None

-------------------------------------------------------------------------------
(* ParamQueue_Push, on the GUI thread *)

PushCall(e) == /\ ppc = "idle"                      \* line 33: load head
               /\ ppc' = "loaded" /\ pev' = e /\ phead' = head
               /\ UNCHANGED <<ring, consumer>>

FullForgotten == FALSE
Full == Wrap(phead + 1) = tail                      \* lines 34-35: load tail

PushFull == /\ ppc = "loaded" /\ Full               \* return false
            /\ ppc' = "idle"
            /\ UNCHANGED <<ring, pev, phead, consumer>>

PushRoom == /\ ppc = "loaded" /\ ~Full
            /\ ppc' = "write"
            /\ UNCHANGED <<ring, pev, phead, consumer>>

WriteBegin == /\ ppc = "write"                      \* line 36
              /\ items' = [items EXCEPT ![phead] = Torn]
              /\ ppc' = "writing"
              /\ UNCHANGED <<head, tail, pev, phead, consumer>>

WriteEnd == /\ ppc = "writing"
            /\ items' = [items EXCEPT ![phead] = pev]
            /\ ppc' = "publish"
            /\ UNCHANGED <<head, tail, pev, phead, consumer>>

PushPublish == /\ ppc = "publish"                   \* line 37
               /\ head' = Wrap(phead + 1)
               /\ ppc' = "idle"
               /\ UNCHANGED <<items, tail, pev, phead, consumer>>

-------------------------------------------------------------------------------
(* ParamQueue_Pop, on the audio thread *)

PopCall == /\ cpc = "idle"                          \* line 43: load head
           /\ cpc' = "loaded" /\ chead' = head
           /\ UNCHANGED <<ring, producer, ctail, cev, got>>

PopEmpty == /\ cpc = "loaded" /\ tail = chead       \* lines 44-45
            /\ cpc' = "idle" /\ ctail' = tail /\ got' = None
            /\ UNCHANGED <<ring, producer, chead, cev>>

PopSome == /\ cpc = "loaded" /\ tail # chead
           /\ cpc' = "read" /\ ctail' = tail
           /\ UNCHANGED <<ring, producer, chead, cev, got>>

ReadBegin == /\ cpc = "read"                        \* line 46
             /\ cev' = items[ctail]
             /\ cpc' = "reading"
             /\ UNCHANGED <<ring, producer, chead, ctail, got>>

ReadEnd == /\ cpc = "reading"
           /\ cev' = IF items[ctail] = cev THEN cev ELSE Torn
           /\ cpc' = "advance"
           /\ UNCHANGED <<ring, producer, chead, ctail, got>>

PopStuck == /\ cpc = "advance"
            /\ cpc' = "idle" /\ got' = cev
            /\ UNCHANGED <<ring, producer, chead, ctail, cev>>

PopAdvance == /\ cpc = "advance"                    \* line 47
              /\ tail' = Wrap(ctail + 1)
              /\ cpc' = "idle" /\ got' = cev
              /\ UNCHANGED <<items, head, producer, chead, ctail, cev>>

-------------------------------------------------------------------------------
PushStep == PushFull \/ PushRoom \/ WriteBegin \/ WriteEnd \/ PushPublish
PopStep == PopCall \/ PopEmpty \/ PopSome \/ ReadBegin \/ ReadEnd \/ PopAdvance

Next == (\E e \in Events : PushCall(e)) \/ PushStep \/ PopStep

Spec == Init /\ [][Next]_vars

\* A Push that was entered runs to its end, and the audio thread keeps
\* calling Pop (drain_gui_queue at the top of every cplug_process).
FairSpec == Spec /\ WF_vars(PushStep) /\ WF_vars(PopStep)

-------------------------------------------------------------------------------
(* Correctness *)

TypeOK ==
    /\ items \in [Slots -> Events \cup {None, Torn}]
    /\ head \in Slots /\ tail \in Slots
    /\ ppc \in {"idle", "loaded", "write", "writing", "publish"}
    /\ pev \in Events \cup {None} /\ phead \in Slots
    /\ ppc # "idle" => pev \in Events
    /\ cpc \in {"idle", "loaded", "read", "reading", "advance"}
    /\ chead \in Slots /\ ctail \in Slots
    /\ cev \in Events \cup {None, Torn}
    /\ got \in Events \cup {None, Torn}

\* The two threads are never inside the same slot: the producer writes it only
\* before publishing it and the consumer reads it only while it is published,
\* although each decides on a copy of the other's index that may be out of date
\* (param-queue.h:33-36 and 43-46).
NoSlotRace ==
    ~(ppc = "writing" /\ cpc = "reading" /\ phead = ctail)

\* Pop never hands the audio thread a half-written event or one that was never
\* pushed (param-queue.h:46).
NoTornEvent == got # Torn /\ (cpc = "advance" => cev \in Events)

\* Slots between tail and head, in ring order: published and not yet consumed.
Published(i) == IF tail <= head THEN tail <= i /\ i < head
                                ELSE tail <= i \/ i < head

\* Whatever each thread believes about the other's index stays safe to act on
\* until it does.
IndicesAgree ==
    /\ ppc # "idle" => phead = head
    /\ ppc \in {"write", "writing", "publish"} => Wrap(head + 1) # tail
    /\ (cpc = "loaded" /\ chead # tail) => head # tail
    /\ cpc \in {"read", "reading", "advance"} => ctail = tail /\ head # tail

SlotsWhole ==
    /\ \A i \in Slots : Published(i) => items[i] \in Events
    /\ ppc = "publish" => items[head] = pev
    /\ cpc \in {"reading", "advance"} => cev = items[tail]
    /\ got \in Events \cup {None}

IndInv == TypeOK /\ IndicesAgree /\ SlotsWhole

-------------------------------------------------------------------------------
(* The ring implements EventChannel with one slot less than its size.  An  *)
(* event is accepted when head is published, taken when tail is, refused   *)
(* when the producer loads tail; a Pop that finds nothing takes effect     *)
(* when it loads head, not when it returns.                                *)

Count == IF tail <= head THEN head - tail ELSE (head + Size) - tail
SlotAt(k) == IF tail + k <= Size THEN tail + k - 1 ELSE tail + k - 1 - Size

Queued == [k \in 1 .. Count |-> items[SlotAt(k)]]
Offered == IF ppc = "idle" THEN None ELSE pev
Received == IF cpc = "loaded" /\ chead = tail THEN None ELSE got

Channel == INSTANCE EventChannel WITH
    Capacity <- Size - 1, chan <- Queued, offer <- Offered, got <- Received

\* Events reach the audio thread in the order they were pushed, each once;
\* Push reports "full" and Pop "empty" only when that is so (param-queue.h:8-9,
\* 31, 41).
ImplementsChannel == Channel!Spec

\* Lock-freedom as the plugin needs it: a Push is answered whatever the audio
\* thread does and a published event is eventually popped.
ChannelLive == Channel!Live
===============================================================================
