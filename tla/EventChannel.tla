----------------------------- MODULE EventChannel -----------------------------
(***************************************************************************)
(* What ParamQueue promises the rest of the plugin: a bounded FIFO channel *)
(* of parameter events between one sender and one receiver.  An offer is   *)
(* refused only when the channel is full (param-queue.h:31, "event         *)
(* dropped"), a take comes back empty-handed only when the channel is      *)
(* empty, and what is taken is what was accepted, in that order.  A take   *)
(* in progress holds on to the event at the front; nobody waits for the    *)
(* other side.                                                             *)
(***************************************************************************)
EXTENDS Naturals, Sequences

CONSTANTS Capacity, \* events the channel can hold
          Events,   \* the parameter events
          None      \* no event

VARIABLES chan,     \* accepted and not yet taken, oldest first
          offer,    \* the event being offered, or None
          got       \* outcome of the last take: an event, or None

vars == <<chan, offer, got>>

Init == chan = <<>> /\ offer = None /\ got = None

Offer(e) == offer = None /\ offer' = e /\ UNCHANGED <<chan, got>>

Accept == /\ offer # None
          /\ Len(chan) < Capacity
          /\ chan' = Append(chan, offer)
          /\ offer' = None
          /\ UNCHANGED got

Refuse == /\ offer # None
          /\ Len(chan) = Capacity
          /\ offer' = None
          /\ UNCHANGED <<chan, got>>

Take == /\ chan # <<>>
        /\ got' = Head(chan)
        /\ chan' = Tail(chan)
        /\ UNCHANGED offer

TakeNone == chan = <<>> /\ got' = None /\ UNCHANGED <<chan, offer>>

Next == (\E e \in Events : Offer(e)) \/ Accept \/ Refuse \/ Take \/ TakeNone

Spec == Init /\ [][Next]_vars

\* Neither side is ever held up by the other: an offer is answered, and a
\* non-empty channel is taken from.
Live == WF_vars(Accept \/ Refuse) /\ WF_vars(Take)
===============================================================================
