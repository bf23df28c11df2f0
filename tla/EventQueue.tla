----------------------------- MODULE EventQueue -----------------------------
(***************************************************************************)
(* What the handlers need of a disruptor ring and its worker pool: a       *)
(* published event is taken by one worker, in no particular order, and is  *)
(* in that worker's hands until its onEvent returns or throws.  ClientCall *)
(* and ServerDispatch are built on these operators; WorkerPool is the ring *)
(* itself and is shown to implement EventDispatch, the specification made  *)
(* of them.                                                                *)
(***************************************************************************)
CONSTANTS Worker, Event, NoEvent

VARIABLES
    pending,  \* published events no worker has taken
    busy      \* busy[w]: the event in the onEvent of worker w, or NoEvent

QueueTypeOK ==
    /\ pending \subseteq Event
    /\ busy \in [Worker -> Event \cup {NoEvent}]

QueueInit ==
    /\ pending = {}
    /\ busy = [w \in Worker |-> NoEvent]

(* MessageProducer.onData returns.                                         *)
Publish(e) ==
    /\ pending' = pending \cup {e}
    /\ UNCHANGED busy

(* Mutant: an event stays available after a worker has taken it.           *)
MutTake(w, e) ==
    /\ busy[w] = NoEvent
    /\ e \in pending
    /\ busy' = [busy EXCEPT ![w] = e]
    /\ UNCHANGED pending

(* A worker calls onEvent(e).                                              *)
Take(w, e) ==
    /\ busy[w] = NoEvent
    /\ e \in pending
    /\ pending' = pending \ {e}
    /\ busy' = [busy EXCEPT ![w] = e]

(* onEvent returns, or throws and EventExceptionHandler ignores it.        *)
Finish(w) ==
    /\ busy[w] # NoEvent
    /\ busy' = [busy EXCEPT ![w] = NoEvent]
    /\ UNCHANGED pending
=============================================================================
