---------------------------- MODULE RingFactory ----------------------------
(***************************************************************************)
(* RingBufferWorkerPoolFactory over its life: the fields of one instance,  *)
(* the rings and worker pools that initAndStart makes, call after call,    *)
(* and the MessageProducer that the static map keeps.  Each statement is a *)
(* step, for nothing is locked; one that reads two fields reads them       *)
(* together, which only builds that overlap could tell.  A ring is here    *)
(* the sequence of its published events; WorkerPool shows how one ring     *)
(* works inside.                                                           *)
(***************************************************************************)
EXTENDS Naturals, Sequences

CONSTANTS
    Event,     \* what is published, at most once each
    MaxRings   \* bound: calls of initAndStart

Ring == 1 .. MaxRings
Pool == 1 .. MaxRings

VARIABLES
    rings,            \* calls of initAndStart begun
    ringBuffer,       \* the fields; 0 is null
    sequenceBarrier,  \* the ring whose cursor the barrier watches
    workerPool,
    pools,            \* pools[p]: the ring and the barrier pool p was made with
    gating,           \* gating[r]: pools whose sequences gate ring r
    started,          \* pools that have been started
    position,         \* position[p]: the last sequence pool p has claimed
    log,              \* log[r]: the events published in ring r
    producers,        \* producers.get(producerId): the ring of the producer
    handled           \* handled[e]: times onEvent was called for e

ringVars == <<rings, ringBuffer, sequenceBarrier, workerPool, pools, gating,
              started, position, log, producers, handled>>

RingTypeOK ==
    /\ rings \in 0 .. MaxRings
    /\ {ringBuffer, sequenceBarrier, workerPool, producers} \subseteq 0 .. rings
    /\ pools \in [Pool -> [ring : 0 .. rings, barrier : 0 .. rings]]
    /\ gating \in [Ring -> SUBSET Pool]
    /\ started \subseteq 1 .. rings
    /\ position \in [Pool -> Nat]
    /\ log \in [Ring -> Seq(Event)]
    /\ handled \in [Event -> Nat]

RingInit ==
    /\ rings = 0
    /\ ringBuffer = 0
    /\ sequenceBarrier = 0
    /\ workerPool = 0
    /\ pools = [p \in Pool |-> [ring |-> 0, barrier |-> 0]]
    /\ gating = [r \in Ring |-> {}]
    /\ started = {}
    /\ position = [p \in Pool |-> 0]
    /\ log = [r \in Ring |-> <<>>]
    /\ producers = 0
    /\ handled = [e \in Event |-> 0]

-----------------------------------------------------------------------------
(* initAndStart.  The ring and the pool of one call have its number n.     *)

(* Mutant: the ring is made once and kept.                                 *)
MutCreateRing(n) ==
    /\ rings < MaxRings
    /\ n = rings + 1
    /\ rings' = n
    /\ ringBuffer' = IF ringBuffer = 0 THEN n ELSE ringBuffer
    /\ UNCHANGED <<sequenceBarrier, workerPool, pools, gating, started,
                   position, log, producers, handled>>

CreateRing(n) ==
    /\ rings < MaxRings
    /\ n = rings + 1
    /\ rings' = n
    /\ ringBuffer' = n
    /\ UNCHANGED <<sequenceBarrier, workerPool, pools, gating, started,
                   position, log, producers, handled>>

NewBarrier ==
    /\ sequenceBarrier' = ringBuffer
    /\ UNCHANGED <<rings, ringBuffer, workerPool, pools, gating, started,
                   position, log, producers, handled>>

(* Mutant: the pool is made once and kept, as a lazy field would be.       *)
MutNewPool(n) ==
    /\ workerPool' = IF workerPool = 0 THEN n ELSE workerPool
    /\ pools' = IF workerPool = 0
                THEN [pools EXCEPT ![n] = [ring |-> ringBuffer,
                                           barrier |-> sequenceBarrier]]
                ELSE pools
    /\ UNCHANGED <<rings, ringBuffer, sequenceBarrier, gating, started,
                   position, log, producers, handled>>

NewPool(n) ==
    /\ workerPool' = n
    /\ pools' = [pools EXCEPT ![n] = [ring |-> ringBuffer,
                                      barrier |-> sequenceBarrier]]
    /\ UNCHANGED <<rings, ringBuffer, sequenceBarrier, gating, started,
                   position, log, producers, handled>>

(* Mutant: the ring does not wait for the new pool.                        *)
MutAddGatingSequences == UNCHANGED ringVars

AddGatingSequences ==
    /\ gating' = [gating EXCEPT ![ringBuffer] = @ \cup {workerPool}]
    /\ UNCHANGED <<rings, ringBuffer, sequenceBarrier, workerPool, pools,
                   started, position, log, producers, handled>>

(* WorkerPool.start: its sequences are set to the cursor of its ring.      *)
Start ==
    /\ workerPool \notin started
    /\ started' = started \cup {workerPool}
    /\ position' = [position EXCEPT
                      ![workerPool] = Len(log[pools[workerPool].ring])]
    /\ UNCHANGED <<rings, ringBuffer, sequenceBarrier, workerPool, pools,
                   gating, log, producers, handled>>

(* It throws: "WorkerPool has already been started".                       *)
StartFails == workerPool \in started /\ UNCHANGED ringVars

-----------------------------------------------------------------------------
(* getMessageProducer and onData.                                          *)

(* producers.put(producerId, messageProducer)                              *)
PutProducer(r) ==
    /\ producers' = r
    /\ UNCHANGED <<rings, ringBuffer, sequenceBarrier, workerPool, pools,
                   gating, started, position, log, handled>>

(* MessageProducer.onData, of a producer for ring r.                       *)
OnData(r, e) ==
    /\ log' = [log EXCEPT ![r] = Append(@, e)]
    /\ UNCHANGED <<rings, ringBuffer, sequenceBarrier, workerPool, pools,
                   gating, started, position, producers, handled>>

(* A processor of pool p goes on by one sequence when its barrier lets it. *)
(* The slot may be one that nothing was published in: onEvent throws then, *)
(* and the exception is ignored.                                           *)
Process(p) ==
    /\ p \in started
    /\ position[p] < Len(log[pools[p].barrier])
    /\ position' = [position EXCEPT ![p] = @ + 1]
    /\ LET events == log[pools[p].ring]
           n == position[p] + 1
       IN handled' = IF n <= Len(events)
                     THEN [handled EXCEPT ![events[n]] = @ + 1] ELSE handled
    /\ UNCHANGED <<rings, ringBuffer, sequenceBarrier, workerPool, pools,
                   gating, started, log, producers>>
=============================================================================
