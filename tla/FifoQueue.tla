------------------------------ MODULE FifoQueue ------------------------------
(***************************************************************************)
(* What a single-producer single-consumer queue promises its two users,    *)
(* with no slots, no indices and no intermediate steps: elements leave in  *)
(* the order in which they entered, each at most once, none is invented,   *)
(* and never more than Bound of them wait.  The ring buffers of the system *)
(* are shown to implement this module.                                     *)
(***************************************************************************)
EXTENDS Integers, Sequences

CONSTANTS
    Items,  \* what can be sent
    None,   \* "nothing was delivered yet"
    Bound   \* how many elements can wait

VARIABLES
    queue,      \* the elements waiting, oldest first
    delivered   \* the element handed to the consumer by its last receive

vars == <<queue, delivered>>

Init == queue = << >> /\ delivered = None

\* The producer's Push succeeds.
Send(item) ==
    /\ Len(queue) < Bound
    /\ queue' = Append(queue, item)
    /\ UNCHANGED delivered

\* The consumer takes the oldest element.
Receive ==
    /\ queue # << >>
    /\ delivered' = Head(queue)
    /\ queue' = Tail(queue)

\* The consumer drops the oldest elements without looking at them.
Discard(count) ==
    /\ queue' = SubSeq(queue, count + 1, Len(queue))
    /\ UNCHANGED delivered

Next ==
    \/ \E item \in Items : Send(item)
    \/ Receive
    \/ \E count \in 1 .. Len(queue) : Discard(count)

Spec == Init /\ [][Next]_vars
=============================================================================
