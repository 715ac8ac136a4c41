--------------------------- MODULE ThreadSafeQueue ---------------------------
(***************************************************************************)
(* A queue that several threads share (ThreadSafeQueue.h): what one pushes *)
(* another pops, in order, each value once.  Each operation is one step.   *)
(*                                                                         *)
(* FastSubscriber keeps a queue, a mutex and a condition variable of its   *)
(* own and shows in its module that they amount to this, with one more     *)
(* operation that empties the queue.                                       *)
(***************************************************************************)
EXTENDS Sequences

CONSTANT Value

VARIABLES queue,   \* values pushed and not popped yet
          popped   \* values popped, in order

Init == queue = <<>> /\ popped = <<>>

Push(v) ==
    /\ queue' = Append(queue, v)
    /\ UNCHANGED popped

\* TryPop of an empty queue has no effect and is no step.
TryPop ==
    /\ queue # <<>>
    /\ popped' = Append(popped, Head(queue))
    /\ queue' = Tail(queue)

Clear ==
    /\ queue' = <<>>
    /\ UNCHANGED popped

Next == (\E v \in Value : Push(v)) \/ TryPop \/ Clear

Spec == Init /\ [][Next]_<<queue, popped>>
==============================================================================
