---------------------------- MODULE BoundedQueue ----------------------------
(* What the buffers of bilib promise: a first-in first-out queue of bounded *)
(* length.  One step is one clock edge, which may put an item, get one, or  *)
(* do both.                                                                 *)
EXTENDS Sequences, Naturals

CONSTANTS
    Item,       \* the items the queue can hold
    Capacity,   \* how many of them at most
    NoItem      \* nothing has been delivered yet

VARIABLES
    queue,      \* the items put and not yet got
    delivered   \* the item the last get returned

vars == <<queue, delivered>>

Init == queue = <<>> /\ delivered = NoItem

Put(d) ==
    /\ Len(queue) < Capacity
    /\ queue' = Append(queue, d)
    /\ UNCHANGED delivered

Get ==
    /\ queue # <<>>
    /\ delivered' = Head(queue)
    /\ queue' = Tail(queue)

PutGet(d) ==
    /\ queue # <<>>
    /\ Len(queue) < Capacity
    /\ delivered' = Head(queue)
    /\ queue' = Append(Tail(queue), d)

(* A reset empties the queue; what was delivered stays delivered.          *)
Clear ==
    /\ queue' = <<>>
    /\ UNCHANGED delivered

Next == (\E d \in Item : Put(d) \/ PutGet(d)) \/ Get \/ Clear

Spec == Init /\ [][Next]_vars
=============================================================================
