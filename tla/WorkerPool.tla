----------------------------- MODULE WorkerPool -----------------------------
(***************************************************************************)
(* The ring RingBufferWorkerPoolFactory.initAndStart builds and the threads *)
(* around it: MessageProducer.onData on the netty threads, and the         *)
(* WorkProcessors of the disruptor's WorkerPool.  One WorkProcessor is     *)
(* made per consumer, and all of them gate the ring; but they are started  *)
(* on an executor of availableProcessors() threads, so only the processors *)
(* in Running ever run.                                                    *)
(*                                                                         *)
(* The disruptor (3.4.2, ProducerType.MULTI) is modelled by its atomic     *)
(* steps: next() claims a sequence, publish() marks it available, and a    *)
(* worker reads workSequence, claims by compare-and-set, waits for its     *)
(* sequence, handles the event in its slot.                                *)
(***************************************************************************)
EXTENDS Integers, FiniteSets, FiniteSetsExt

CONSTANTS
    Producer,    \* netty event loop threads
    Worker,      \* WorkProcessors, the 64 consumers of initAndStart
    Running,     \* those an executor thread runs
    BufferSize,  \* slots of the ring
    MaxEvents,   \* bound: calls of onData by each producer
    NoEvent

ASSUME WorkerPoolAssumption ==
    /\ Running \subseteq Worker
    /\ BufferSize \in Nat \ {0}
    /\ MaxEvents \in Nat

Event == Producer \X (1 .. MaxEvents)

ASSUME NoEventAssumption == NoEvent \notin Event

VARIABLES
    cursor,          \* the last sequence a producer has claimed
    slots,           \* slots[i]: the data in the TranslatorDataWrapper of slot i
    availableBuffer, \* availableBuffer[i]: round of the last publication in i
    ppc,             \* where each producer is in onData
    pseq,            \* pseq[p]: the sequence next() gave it
    count,           \* count[p]: onData calls it has begun
    workSequence,    \* the last sequence a worker has claimed
    sequence,        \* sequence[w]: what the producers see of worker w
    wpc,             \* where each worker is in WorkProcessor.run
    nextSequence     \* nextSequence[w]: the sequence it works on

producerVars == <<cursor, slots, availableBuffer, ppc, pseq, count>>
workerVars == <<workSequence, sequence, wpc, nextSequence>>
vars == <<cursor, slots, availableBuffer, ppc, pseq, count,
          workSequence, sequence, wpc, nextSequence>>

Sequences == Nat \cup {-1}
Index == 0 .. (BufferSize - 1)

(* The type of every variable.                                             *)
TypeOK ==
    /\ cursor \in Sequences
    /\ slots \in [Index -> Event \cup {NoEvent}]
    /\ availableBuffer \in [Index -> Sequences]
    /\ ppc \in [Producer -> {"idle", "next", "write", "publish"}]
    /\ pseq \in [Producer -> Sequences]
    /\ count \in [Producer -> 0 .. MaxEvents]
    /\ workSequence \in Sequences
    /\ sequence \in [Worker -> Sequences]
    /\ wpc \in [Worker -> {"read", "claim", "wait", "handle"}]
    /\ nextSequence \in [Worker -> Sequences]

Init ==
    /\ cursor = -1
    /\ slots = [i \in Index |-> NoEvent]
    /\ availableBuffer = [i \in Index |-> -1]
    /\ ppc = [p \in Producer |-> "idle"]
    /\ pseq = [p \in Producer |-> -1]
    /\ count = [p \in Producer |-> 0]
    /\ workSequence = -1
    /\ sequence = [w \in Worker |-> -1]
    /\ wpc = [w \in Worker |-> "read"]
    /\ nextSequence = [w \in Worker |-> -1]

IsAvailable(n) == availableBuffer[n % BufferSize] = n \div BufferSize

(* Mutant: addGatingSequences gets workSequence only.                      *)
MutGatingSequences == {workSequence}

(* workerPool.getWorkerSequences(): every processor's, running or not.     *)
GatingSequences == {sequence[w] : w \in Worker} \cup {workSequence}

-----------------------------------------------------------------------------
(* MessageProducer.onData                                                  *)

OnData(p) ==
    /\ ppc[p] = "idle"
    /\ count[p] < MaxEvents
    /\ count' = [count EXCEPT ![p] = @ + 1]
    /\ ppc' = [ppc EXCEPT ![p] = "next"]
    /\ UNCHANGED <<cursor, slots, availableBuffer, pseq, workerVars>>

(* ringBuffer.next() returns when no gating sequence is a whole ring       *)
(* behind; until then the thread parks and looks again.                    *)
NextSequence(p) ==
    /\ ppc[p] = "next"
    /\ cursor + 1 - BufferSize <= Min(GatingSequences \cup {cursor})
    /\ cursor' = cursor + 1
    /\ pseq' = [pseq EXCEPT ![p] = cursor + 1]
    /\ ppc' = [ppc EXCEPT ![p] = "write"]
    /\ UNCHANGED <<slots, availableBuffer, count, workerVars>>

(* setData and setCtx on the slot's wrapper.                               *)
Write(p) ==
    /\ ppc[p] = "write"
    /\ slots' = [slots EXCEPT ![pseq[p] % BufferSize] = <<p, count[p]>>]
    /\ ppc' = [ppc EXCEPT ![p] = "publish"]
    /\ UNCHANGED <<cursor, availableBuffer, pseq, count, workerVars>>

PublishSequence(p) ==
    /\ ppc[p] = "publish"
    /\ availableBuffer' = [availableBuffer EXCEPT
          ![pseq[p] % BufferSize] = pseq[p] \div BufferSize]
    /\ ppc' = [ppc EXCEPT ![p] = "idle"]
    /\ UNCHANGED <<cursor, slots, pseq, count, workerVars>>

-----------------------------------------------------------------------------
(* WorkProcessor.run                                                       *)

(* sequence.set(nextSequence - 1), before the compare-and-set.             *)
ReadWork(w) ==
    /\ wpc[w] = "read"
    /\ nextSequence' = [nextSequence EXCEPT ![w] = workSequence + 1]
    /\ sequence' = [sequence EXCEPT ![w] = workSequence]
    /\ wpc' = [wpc EXCEPT ![w] = "claim"]
    /\ UNCHANGED <<workSequence, producerVars>>

(* Mutant: the claim does not notice that another worker was faster.       *)
MutClaimWork(w) ==
    /\ wpc[w] = "claim"
    /\ workSequence' = nextSequence[w]
    /\ wpc' = [wpc EXCEPT ![w] = "wait"]
    /\ UNCHANGED <<sequence, nextSequence, producerVars>>

ClaimWork(w) ==
    /\ wpc[w] = "claim"
    /\ IF workSequence = nextSequence[w] - 1
       THEN /\ workSequence' = nextSequence[w]
            /\ wpc' = [wpc EXCEPT ![w] = "wait"]
       ELSE /\ wpc' = [wpc EXCEPT ![w] = "read"]
            /\ UNCHANGED workSequence
    /\ UNCHANGED <<sequence, nextSequence, producerVars>>

(* waitFor(nextSequence) returns and onEvent is called: only the worker's  *)
(* own sequence has to be published.                                       *)
Handle(w) ==
    /\ wpc[w] = "wait"
    /\ nextSequence[w] <= cursor
    /\ IsAvailable(nextSequence[w])
    /\ wpc' = [wpc EXCEPT ![w] = "handle"]
    /\ UNCHANGED <<workSequence, sequence, nextSequence, producerVars>>

(* Mutant: the exception handler rethrows, which ends the worker.          *)
MutHandled(w) ==
    /\ wpc[w] = "handle"
    /\ wpc' = [wpc EXCEPT ![w] = "dead"]
    /\ UNCHANGED <<workSequence, sequence, nextSequence, producerVars>>

(* onEvent returns, or throws into EventExceptionHandler.                  *)
Handled(w) ==
    /\ wpc[w] = "handle"
    /\ wpc' = [wpc EXCEPT ![w] = "read"]
    /\ UNCHANGED <<workSequence, sequence, nextSequence, producerVars>>

-----------------------------------------------------------------------------
ProducerStep(p) == NextSequence(p) \/ Write(p) \/ PublishSequence(p)

WorkerStep(w) == ReadWork(w) \/ ClaimWork(w) \/ Handle(w) \/ Handled(w)

Next ==
    \/ \E p \in Producer : OnData(p) \/ ProducerStep(p)
    \/ \E w \in Running : WorkerStep(w)

Spec == Init /\ [][Next]_vars

(* Threads that can run do, and handlers return; no message has to come.   *)
(* A compare-and-set fails only when another worker's has succeeded.       *)
FairSpec ==
    /\ Spec
    /\ \A p \in Producer : WF_vars(ProducerStep(p))
    /\ \A w \in Running : WF_vars(WorkerStep(w))

-----------------------------------------------------------------------------
(* Properties.                                                             *)

(* A producer never writes a slot whose event a worker is handling or has  *)
(* yet to handle: the wrapper objects are reused, and onEvent reads its    *)
(* wrapper while the netty threads go on publishing.                       *)
SlotNotReused ==
    \A p \in Producer : ppc[p] \in {"write", "publish"} =>
        /\ workSequence >= pseq[p] - BufferSize
        /\ \A w \in Worker : wpc[w] \in {"wait", "handle"} =>
              nextSequence[w] # pseq[p] - BufferSize

Untaken ==
    {n \in 0 .. cursor :
        /\ IsAvailable(n)
        /\ \/ n > workSequence
           \/ \E w \in Worker : wpc[w] = "wait" /\ nextSequence[w] = n}

(* What EventDispatch sees of the ring: the published events nobody has    *)
(* taken, the event in each worker's onEvent, and the calls of onData that *)
(* have returned.                                                          *)
Pending == {slots[n % BufferSize] : n \in Untaken}

Busy == [w \in Worker |->
            IF wpc[w] = "handle" THEN slots[nextSequence[w] % BufferSize]
                                 ELSE NoEvent]

Published ==
    {e \in Event : e[2] <= count[e[1]] - IF ppc[e[1]] = "idle" THEN 0 ELSE 1}

Abstract == INSTANCE EventDispatch WITH
    pending <- Pending, busy <- Busy, published <- Published

(* Every event is handled at most once, by one worker, after it was        *)
(* published and with the data it was published with.                      *)
ImplementsDispatch == Abstract!DispatchSpec

(* Every published event is handled in the end, in whatever order the      *)
(* workers claimed and the producers published.                            *)
EveryEventHandled ==
    \A n \in 0 .. (Cardinality(Producer) * MaxEvents - 1) :
        cursor >= n ~>
            /\ workSequence >= n
            /\ \A w \in Worker :
                  nextSequence[w] = n => wpc[w] \in {"read", "claim"}

(* onData returns: events are handed over to the disruptor and the netty   *)
(* thread goes back to its channels.                                       *)
OnDataReturns ==
    \A p \in Producer : ppc[p] = "next" ~> ppc[p] = "idle"
=============================================================================
