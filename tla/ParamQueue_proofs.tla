--------------------------- MODULE ParamQueue_proofs ---------------------------
(* Proofs about ParamQueue for every ring size of at least two slots. *)
EXTENDS ParamQueue, SequenceTheorems, TLAPS

USE SizeAssumption, EventAssumption

-------------------------------------------------------------------------------
(* The inductive invariant *)

\* Advancing an index keeps it inside the ring (param-queue.h:37, 47).
LEMMA WrapInSlots == ASSUME NEW i \in Slots PROVE Wrap(i + 1) \in Slots
  BY DEF Slots, Wrap

LEMMA InitInv == Init => IndInv
  BY DEF Init, IndInv, TypeOK, IndicesAgree, SlotsWhole, Slots, Published

\* No step of either thread breaks the types.
LEMMA NextType == TypeOK /\ [Next]_vars => TypeOK'
<1> SUFFICES ASSUME TypeOK, [Next]_vars PROVE TypeOK'
  OBVIOUS
<1>1. ASSUME NEW e \in Events, PushCall(e) PROVE TypeOK'
  BY <1>1 DEF TypeOK, PushCall, ring, consumer
<1>2. CASE PushFull
  BY <1>2 DEF TypeOK, PushFull, ring, consumer
<1>3. CASE PushRoom
  BY <1>3 DEF TypeOK, PushRoom, ring, consumer
<1>4. CASE WriteBegin
  BY <1>4 DEF TypeOK, WriteBegin, consumer
<1>5. CASE WriteEnd
  BY <1>5 DEF TypeOK, WriteEnd, consumer
<1>6. CASE PushPublish
  BY <1>6, WrapInSlots DEF TypeOK, PushPublish, consumer
<1>7. CASE PopCall
  BY <1>7 DEF TypeOK, PopCall, ring, producer
<1>8. CASE PopEmpty
  BY <1>8 DEF TypeOK, PopEmpty, ring, producer
<1>9. CASE PopSome
  BY <1>9 DEF TypeOK, PopSome, ring, producer
<1>10. CASE ReadBegin
  BY <1>10 DEF TypeOK, ReadBegin, ring, producer
<1>11. CASE ReadEnd
  BY <1>11 DEF TypeOK, ReadEnd, ring, producer
<1>12. CASE PopAdvance
  BY <1>12, WrapInSlots DEF TypeOK, PopAdvance, producer
<1>13. CASE UNCHANGED vars
  BY <1>13 DEF TypeOK, vars, ring, producer, consumer
<1> QED
  BY <1>1, <1>2, <1>3, <1>4, <1>5, <1>6, <1>7, <1>8, <1>9, <1>10, <1>11,
     <1>12, <1>13 DEF Next, PushStep, PopStep

\* What each thread believes about the indices survives a step of the other.
LEMMA NextIndices == IndInv /\ [Next]_vars => IndicesAgree'
<1> SUFFICES ASSUME IndInv, [Next]_vars PROVE IndicesAgree'
  OBVIOUS
<1> USE DEF IndInv, TypeOK, IndicesAgree, Slots
<1>1. ASSUME NEW e \in Events, PushCall(e) PROVE IndicesAgree'
  BY <1>1 DEF PushCall, ring, consumer
<1>2. CASE PushFull
  BY <1>2 DEF PushFull, ring, consumer
<1>3. CASE PushRoom
  BY <1>3 DEF PushRoom, Full, ring, consumer
<1>4. CASE WriteBegin
  BY <1>4 DEF WriteBegin, consumer
<1>5. CASE WriteEnd
  BY <1>5 DEF WriteEnd, consumer
<1>6. CASE PushPublish
  BY <1>6 DEF PushPublish, consumer, Wrap
<1>7. CASE PopCall
  BY <1>7 DEF PopCall, ring, producer
<1>8. CASE PopEmpty
  BY <1>8 DEF PopEmpty, ring, producer
<1>9. CASE PopSome
  BY <1>9 DEF PopSome, ring, producer
<1>10. CASE ReadBegin
  BY <1>10 DEF ReadBegin, ring, producer
<1>11. CASE ReadEnd
  BY <1>11 DEF ReadEnd, ring, producer
<1>12. CASE PopAdvance
  BY <1>12 DEF PopAdvance, producer, Wrap
<1>13. CASE UNCHANGED vars
  BY <1>13 DEF vars, ring, producer, consumer
<1> QED
  BY <1>1, <1>2, <1>3, <1>4, <1>5, <1>6, <1>7, <1>8, <1>9, <1>10, <1>11,
     <1>12, <1>13 DEF Next, PushStep, PopStep

\* Published slots stay whole, and the copies in flight stay equal to them.
LEMMA NextSlots == IndInv /\ [Next]_vars => SlotsWhole'
<1> SUFFICES ASSUME IndInv, [Next]_vars PROVE SlotsWhole'
  OBVIOUS
<1> USE DEF IndInv, TypeOK, IndicesAgree, SlotsWhole, Slots, Published
<1>1. ASSUME NEW e \in Events, PushCall(e) PROVE SlotsWhole'
  BY <1>1 DEF PushCall, ring, consumer
<1>2. CASE PushFull
  BY <1>2 DEF PushFull, ring, consumer
<1>3. CASE PushRoom
  BY <1>3 DEF PushRoom, ring, consumer
<1>4. CASE WriteBegin
  BY <1>4 DEF WriteBegin, consumer
<1>5. CASE WriteEnd
  BY <1>5 DEF WriteEnd, consumer
<1>6. CASE PushPublish
  BY <1>6 DEF PushPublish, consumer, Wrap
<1>7. CASE PopCall
  BY <1>7 DEF PopCall, ring, producer
<1>8. CASE PopEmpty
  BY <1>8 DEF PopEmpty, ring, producer
<1>9. CASE PopSome
  BY <1>9 DEF PopSome, ring, producer
<1>10. CASE ReadBegin
  BY <1>10 DEF ReadBegin, ring, producer
<1>11. CASE ReadEnd
  BY <1>11 DEF ReadEnd, ring, producer
<1>12. CASE PopAdvance
  BY <1>12 DEF PopAdvance, producer, Wrap
<1>13. CASE UNCHANGED vars
  BY <1>13 DEF vars, ring, producer, consumer
<1> QED
  BY <1>1, <1>2, <1>3, <1>4, <1>5, <1>6, <1>7, <1>8, <1>9, <1>10, <1>11,
     <1>12, <1>13 DEF Next, PushStep, PopStep

\* The whole invariant holds in every reachable state, for every ring size.
THEOREM Invariance == Spec => []IndInv
<1>1. IndInv /\ [Next]_vars => IndInv'
  BY NextType, NextIndices, NextSlots DEF IndInv
<1> QED
  BY <1>1, InitInv, PTL DEF Spec

-------------------------------------------------------------------------------
(* Safety of the ring *)

\* The type invariant of ParamQueue.
THEOREM TypeCorrect == Spec => []TypeOK
<1>1. IndInv => TypeOK
  BY DEF IndInv
<1> QED
  BY <1>1, Invariance, PTL

\* GUI and audio thread never touch the same slot at the same time
\* (param-queue.h:36 against 46).
THEOREM RaceFree == Spec => []NoSlotRace
<1>1. IndInv => NoSlotRace
  BY DEF IndInv, TypeOK, IndicesAgree, NoSlotRace, Wrap, Slots
<1> QED
  BY <1>1, Invariance, PTL

\* Every event Pop delivers is one that Push was given, never a torn one.
THEOREM WholeEvents == Spec => []NoTornEvent
<1>1. IndInv => NoTornEvent
  BY DEF IndInv, TypeOK, IndicesAgree, SlotsWhole, NoTornEvent, Published, Slots
<1> QED
  BY <1>1, Invariance, PTL

-------------------------------------------------------------------------------
(* The ring implements the bounded FIFO channel *)

\* Two intervals from 1 are equal only if their ends are.
LEMMA IntervalEnd ==
    ASSUME NEW a \in Nat, NEW b \in Nat, 1 .. a = 1 .. b PROVE a = b
  <1>1. a > 0 => a \in 1 .. b
    OBVIOUS
  <1>2. b > 0 => b \in 1 .. a
    OBVIOUS
  <1> QED
    BY <1>1, <1>2

QueuedOK == /\ Count \in 0 .. Size - 1
            /\ \A k \in 1 .. Count : SlotAt(k) \in Slots /\ Published(SlotAt(k))
            /\ Queued \in Seq(Events)
            /\ Len(Queued) = Count

\* The published slots, oldest first, are a sequence of events with a slot to
\* spare.
LEMMA QueuedIsSeq == IndInv => QueuedOK
<1> SUFFICES ASSUME IndInv PROVE QueuedOK
  OBVIOUS
<1>1. Count \in 0 .. Size - 1
  BY DEF IndInv, TypeOK, Slots, Count
<1>2. \A k \in 1 .. Count : SlotAt(k) \in Slots /\ Published(SlotAt(k))
  BY DEF IndInv, TypeOK, Slots, Count, SlotAt, Published
<1>3. Queued \in [1 .. Count -> Events]
  BY <1>2 DEF Queued, IndInv, SlotsWhole
<1>4. Queued \in Seq(Events)
  BY <1>1, <1>3, SeqDef
<1>5. Len(Queued) = Count
  <2>1. Len(Queued) \in Nat /\ DOMAIN Queued = 1 .. Len(Queued)
    BY <1>4, LenProperties
  <2>2. DOMAIN Queued = 1 .. Count
    BY DEF Queued
  <2> QED
    <3>1. 1 .. Len(Queued) = 1 .. Count
      BY <2>1, <2>2
    <3>2. Count \in Nat
      BY <1>1
    <3> QED
      BY <2>1, <3>1, <3>2, IntervalEnd
<1> QED
  BY <1>1, <1>2, <1>4, <1>5 DEF QueuedOK

\* A step that moves neither index and leaves the published slots alone does
\* not touch the channel.
LEMMA QueuedSame ==
    ASSUME IndInv, head' = head, tail' = tail,
           \A i \in Slots : Published(i) => items'[i] = items[i]
    PROVE  Queued' = Queued
<1>1. Count' = Count /\ \A k \in 1 .. Count : SlotAt(k)' = SlotAt(k)
  BY DEF Count, SlotAt
<1>2. \A k \in 1 .. Count : items'[SlotAt(k)] = items[SlotAt(k)]
  BY QueuedIsSeq DEF QueuedOK
<1> QED
  BY <1>1, <1>2 DEF Queued, Count, SlotAt

\* Publishing head appends the pushed event.
LEMMA PublishAppends ==
    ASSUME IndInv, IndInv', PushPublish
    PROVE  /\ Len(Queued) < Size - 1
           /\ Queued' = Append(Queued, pev)
<1>a. QueuedOK /\ QueuedOK'
  BY QueuedIsSeq, PTL
<1> USE DEF IndInv, TypeOK, IndicesAgree, SlotsWhole, Slots, PushPublish
<1>1. Count' = Count + 1
  BY DEF Count, Wrap
<1>2. \A k \in 1 .. Count : SlotAt(k)' = SlotAt(k)
  BY DEF SlotAt
<1>3. SlotAt(Count)' = head
  BY DEF SlotAt, Count, Wrap
<1>4. /\ Queued \in Seq(Events) /\ Len(Queued) = Count
      /\ Count \in 0 .. Size - 1
  BY QueuedIsSeq DEF QueuedOK
<1>5. Queued' \in Seq(Events) /\ Len(Queued') = Count' /\ Count' \in 0 .. Size - 1
  BY <1>a DEF QueuedOK
<1>6. pev \in Events
  OBVIOUS
<1>7. /\ \A k \in 1 .. Count : Queued'[k] = Queued[k]
      /\ Queued'[Count + 1] = pev
  <2>1. \A k \in 1 .. Count + 1 : Queued'[k] = items'[SlotAt(k)']
    BY <1>1 DEF Queued
  <2>2. items'[SlotAt(Count)'] = pev
    BY <1>3
  <2> QED
    BY <2>1, <2>2, <1>1, <1>2, <1>4 DEF Queued
<1>8. /\ Append(Queued, pev) \in Seq(Events)
      /\ Len(Append(Queued, pev)) = Count + 1
      /\ \A k \in 1 .. Count : Append(Queued, pev)[k] = Queued[k]
      /\ Append(Queued, pev)[Count + 1] = pev
  BY <1>4, <1>6, AppendProperties
<1>9. \A k \in 1 .. Len(Queued') : Queued'[k] = Append(Queued, pev)[k]
  BY <1>1, <1>4, <1>5, <1>7, <1>8
<1>10. Queued' = Append(Queued, pev)
  BY <1>1, <1>5, <1>8, <1>9, SeqEqual
<1> QED
  BY <1>1, <1>4, <1>5, <1>10

\* Advancing tail removes the oldest event, the one the consumer copied.
LEMMA AdvanceTakes ==
    ASSUME IndInv, IndInv', PopAdvance
    PROVE  /\ Queued # <<>>
           /\ cev = Head(Queued)
           /\ Queued' = Tail(Queued)
<1>a. QueuedOK /\ QueuedOK'
  BY QueuedIsSeq, PTL
<1> USE DEF IndInv, TypeOK, IndicesAgree, SlotsWhole, Slots, PopAdvance
<1>1. Count' = Count - 1 /\ Count >= 1
  BY DEF Count, Wrap
<1>2. \A k \in 1 .. Count - 1 : SlotAt(k)' = SlotAt(k + 1)
  BY <1>1 DEF SlotAt, Wrap, Count
<1>3. SlotAt(1) = tail
  BY DEF SlotAt
<1>4. /\ Queued \in Seq(Events) /\ Len(Queued) = Count
      /\ Count \in 0 .. Size - 1
  BY QueuedIsSeq DEF QueuedOK
<1>5. Queued' \in Seq(Events) /\ Len(Queued') = Count'
  BY <1>a DEF QueuedOK
<1>6. Queued # <<>>
  BY <1>1, <1>4, EmptySeq
<1>7. Queued[1] = items[tail]
  BY <1>1, <1>3, <1>4 DEF Queued
<1>8. cev = Head(Queued)
  BY <1>4, <1>6, <1>7
<1>9. \A k \in 1 .. Count - 1 : Queued'[k] = Queued[k + 1]
  BY <1>1, <1>2, <1>4 DEF Queued
<1>10. /\ Tail(Queued) \in Seq(Events)
       /\ Len(Tail(Queued)) = Count - 1
       /\ \A k \in 1 .. Len(Tail(Queued)) : Tail(Queued)[k] = Queued[k + 1]
  BY <1>4, <1>6, HeadTailProperties
<1>11. Queued' = Tail(Queued)
  BY <1>1, <1>5, <1>9, <1>10, SeqEqual
<1> QED
  BY <1>6, <1>8, <1>11

-------------------------------------------------------------------------------

LEMMA InitChannel == Init => Channel!Init
<1> SUFFICES ASSUME Init PROVE Channel!Init
  OBVIOUS
<1>1. Count = 0
  BY DEF Init, Count
<1>2. Queued = <<>>
  BY <1>1 DEF Queued
<1> QED
  BY <1>2 DEF Init, Channel!Init, Offered, Received

\* Every step of the ring is a step of the channel or leaves it unchanged.
LEMMA NextChannel ==
    ASSUME IndInv, IndInv', [Next]_vars
    PROVE  [Channel!Next]_(Channel!vars)
<1> USE DEF Offered, Received
<1>1. ASSUME NEW e \in Events, PushCall(e) PROVE Channel!Offer(e)
  <2>1. Queued' = Queued
    BY <1>1, QueuedSame DEF PushCall, ring
  <2> QED
    BY <1>1, <2>1 DEF PushCall, Channel!Offer, ring, consumer
<1>2. CASE PushFull
  <2>1. Queued' = Queued
    BY <1>2, QueuedSame DEF PushFull, ring
  <2>2. Len(Queued) = Size - 1
    <3>1. Count = Size - 1
      BY <1>2 DEF PushFull, Full, Wrap, Count, IndInv, TypeOK, IndicesAgree,
                  Slots
    <3> QED
      BY <3>1, QueuedIsSeq DEF QueuedOK
  <2>3. Channel!Refuse
    BY <1>2, <2>1, <2>2 DEF PushFull, Channel!Refuse, IndInv, TypeOK, ring,
                            consumer
  <2> QED
    BY <2>3 DEF Channel!Next
<1>3. CASE PushRoom
  <2>1. Queued' = Queued
    BY <1>3, QueuedSame DEF PushRoom, ring
  <2> QED
    BY <1>3, <2>1 DEF PushRoom, Channel!vars, ring, consumer
<1>4. CASE WriteBegin
  <2>1. Queued' = Queued
    BY <1>4, QueuedSame DEF WriteBegin, IndInv, TypeOK, IndicesAgree,
                            Published, Slots
  <2> QED
    BY <1>4, <2>1 DEF WriteBegin, Channel!vars, consumer
<1>5. CASE WriteEnd
  <2>1. Queued' = Queued
    BY <1>5, QueuedSame DEF WriteEnd, IndInv, TypeOK, IndicesAgree,
                            Published, Slots
  <2> QED
    BY <1>5, <2>1 DEF WriteEnd, Channel!vars, consumer
<1>6. CASE PushPublish
  <2>1. Channel!Accept
    BY <1>6, PublishAppends DEF PushPublish, Channel!Accept, IndInv, TypeOK,
                                IndicesAgree, consumer
  <2> QED
    BY <2>1 DEF Channel!Next
<1>7. CASE PopCall
  <2>1. Queued' = Queued
    BY <1>7, QueuedSame DEF PopCall, ring
  <2>2. CASE head = tail
    <3>1. Queued = <<>>
      BY <2>2, QueuedIsSeq, EmptySeq DEF QueuedOK, Count, IndInv, TypeOK, Slots
    <3>2. Channel!TakeNone
      BY <1>7, <2>1, <2>2, <3>1 DEF PopCall, Channel!TakeNone, ring, producer
    <3> QED
      BY <3>2 DEF Channel!Next
  <2>3. CASE head # tail
    BY <1>7, <2>1, <2>3 DEF PopCall, Channel!vars, ring, producer
  <2> QED
    BY <2>2, <2>3
<1>8. CASE PopEmpty
  <2>1. Queued' = Queued
    BY <1>8, QueuedSame DEF PopEmpty, ring
  <2> QED
    BY <1>8, <2>1 DEF PopEmpty, Channel!vars, ring, producer
<1>9. CASE PopSome
  <2>1. Queued' = Queued
    BY <1>9, QueuedSame DEF PopSome, ring
  <2> QED
    BY <1>9, <2>1 DEF PopSome, Channel!vars, ring, producer
<1>10. CASE ReadBegin
  <2>1. Queued' = Queued
    BY <1>10, QueuedSame DEF ReadBegin, ring
  <2> QED
    BY <1>10, <2>1 DEF ReadBegin, Channel!vars, ring, producer
<1>11. CASE ReadEnd
  <2>1. Queued' = Queued
    BY <1>11, QueuedSame DEF ReadEnd, ring
  <2> QED
    BY <1>11, <2>1 DEF ReadEnd, Channel!vars, ring, producer
<1>12. CASE PopAdvance
  <2>1. Channel!Take
    BY <1>12, AdvanceTakes DEF PopAdvance, Channel!Take, producer
  <2> QED
    BY <2>1 DEF Channel!Next
<1>13. CASE UNCHANGED vars
  <2>1. Queued' = Queued
    BY <1>13, QueuedSame DEF vars, ring
  <2> QED
    BY <1>13, <2>1 DEF vars, Channel!vars, ring, producer, consumer
<1> QED
  BY <1>1, <1>2, <1>3, <1>4, <1>5, <1>6, <1>7, <1>8, <1>9, <1>10, <1>11,
     <1>12, <1>13 DEF Next, PushStep, PopStep, Channel!Next

\* ParamQueue implements EventChannel: events arrive once and in order, Push
\* fails only on a full ring and Pop only on an empty one (param-queue.h:31, 41).
THEOREM Refinement == Spec => ImplementsChannel
<1>1. IndInv /\ IndInv' /\ [Next]_vars => [Channel!Next]_(Channel!vars)
  BY NextChannel
<1> QED
  BY <1>1, InitChannel, Invariance, PTL DEF Spec, ImplementsChannel, Channel!Spec

===============================================================================
