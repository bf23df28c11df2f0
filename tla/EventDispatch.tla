--------------------------- MODULE EventDispatch ---------------------------
(***************************************************************************)
(* The abstract specification of RingBufferWorkerPoolFactory: every event  *)
(* is published once, and is handled at most once, by one worker, after it *)
(* was published.                                                          *)
(***************************************************************************)
EXTENDS EventQueue

VARIABLE published  \* every event published so far

dispatchVars == <<pending, busy, published>>

DispatchInit ==
    /\ QueueInit
    /\ published = {}

DispatchNext ==
    \/ \E e \in Event \ published :
          Publish(e) /\ published' = published \cup {e}
    \/ \E w \in Worker, e \in Event : Take(w, e) /\ UNCHANGED published
    \/ \E w \in Worker : Finish(w) /\ UNCHANGED published

DispatchSpec == DispatchInit /\ [][DispatchNext]_dispatchVars
=============================================================================
