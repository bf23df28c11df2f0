-------------------------- MODULE WorkerPoolProofs --------------------------
(***************************************************************************)
(* Theorems about WorkerPool, for any number of producers and processors,  *)
(* any of which may never run, and any size of the ring.                   *)
(***************************************************************************)
EXTENDS WorkerPool, WellFoundedInduction, TLAPS

-----------------------------------------------------------------------------
(* The ring waits for the slowest of its gating sequences: Min is one of   *)
(* them, and none is below it.                                             *)
LEMMA MinIsLeast ==
  ASSUME NEW S \in SUBSET Sequences, S # {}
  PROVE  Min(S) \in S /\ \A x \in S : Min(S) <= x
<1> DEFINE T == {x + 1 : x \in S}
           R == OpToRel(<, Nat)
<1>1. T \subseteq Nat /\ T # {}
  <2>1. \A x \in S : x + 1 \in Nat
    BY DEF Sequences
  <2>2. PICK x \in S : TRUE
    OBVIOUS
  <2>3. x + 1 \in T
    OBVIOUS
  <2> QED
    BY <2>1, <2>3
<1>2. IsWellFoundedOn(R, Nat)
  BY NatLessThanWellFounded
<1>3. PICK x \in T : \A y \in T : ~ (<<y, x>> \in R)
  <2> HIDE DEF T, R
  <2> QED
    BY <1>1, <1>2, WFMin
<1>4. PICK a \in S : x = a + 1
  OBVIOUS
<1>5. ASSUME NEW b \in S PROVE a <= b
  <2>1. b + 1 \in T /\ b + 1 \in Nat /\ x \in Nat
    BY <1>1
  <2>2. ~ (b + 1 < x)
    BY <1>3, <2>1 DEF OpToRel
  <2> QED
    BY <1>4, <2>2 DEF Sequences
<1>6. \E m \in S : \A y \in S : m <= y
  BY <1>5
<1> QED
  BY <1>6 DEF Min

(* A slot and a round of the ring.                                         *)
LEMMA SlotOf ==
  ASSUME NEW n \in Nat
  PROVE  n % BufferSize \in Index /\ n \div BufferSize \in Sequences
  BY WorkerPoolAssumption DEF Index, Sequences

-----------------------------------------------------------------------------
(* What a producer has in hand.                                            *)
ProducerInv ==
    \A p \in Producer :
        /\ ppc[p] # "idle" => count[p] >= 1
        /\ ppc[p] \in {"write", "publish"} => pseq[p] \in Nat

(* Every gating sequence is less than a ring behind each producer that may *)
(* write: what next() has waited for stays true, for a processor never     *)
(* goes back, and shows its sequence before it claims.                     *)
GatingInv ==
    /\ \A w \in Worker :
          /\ sequence[w] <= workSequence
          /\ wpc[w] # "read" => nextSequence[w] = sequence[w] + 1
    /\ \A p \in Producer : ppc[p] \in {"write", "publish"} =>
          /\ pseq[p] - BufferSize <= workSequence
          /\ \A w \in Worker : pseq[p] - BufferSize <= sequence[w]

IInv == TypeOK /\ ProducerInv /\ GatingInv

LEMMA InvInit == Init => IInv
  BY WorkerPoolAssumption
     DEF Init, IInv, TypeOK, ProducerInv, GatingInv, Sequences, Index

LEMMA InvNext == IInv /\ [Next]_vars => IInv'
<1> SUFFICES ASSUME IInv, [Next]_vars PROVE IInv'
  OBVIOUS
<1> USE WorkerPoolAssumption DEF IInv, producerVars, workerVars
<1>1. ASSUME NEW p \in Producer, OnData(p) PROVE IInv'
  <2> USE <1>1 DEF OnData
  <2>1. TypeOK'
    BY DEF TypeOK
  <2>2. ProducerInv'
    BY DEF TypeOK, ProducerInv
  <2>3. GatingInv'
    BY DEF TypeOK, GatingInv
  <2> QED
    BY <2>1, <2>2, <2>3
<1>2. ASSUME NEW p \in Producer, NextSequence(p) PROVE IInv'
  <2> USE <1>2 DEF NextSequence
  <2> DEFINE S == GatingSequences \cup {cursor}
  <2>1. S \in SUBSET Sequences /\ S # {}
    BY DEF TypeOK, GatingSequences
  <2>2. Min(S) \in Sequences /\ \A x \in S : Min(S) <= x
    <3> HIDE DEF S
    <3> QED
      BY <2>1, MinIsLeast
  <2>3. \A x \in S : cursor + 1 - BufferSize <= x
    <3>1. \A x \in S : x \in Int
      BY <2>1 DEF Sequences
    <3>2. cursor + 1 - BufferSize <= Min(S) /\ cursor \in Int
      BY DEF TypeOK, Sequences
    <3> HIDE DEF S
    <3> QED
      BY <2>2, <3>1, <3>2 DEF Sequences
  <2>4. /\ cursor + 1 - BufferSize <= workSequence
        /\ \A w \in Worker : cursor + 1 - BufferSize <= sequence[w]
    BY <2>3 DEF GatingSequences
  <2>5. cursor + 1 \in Nat
    BY DEF TypeOK, Sequences
  <2>6. TypeOK'
    BY <2>5 DEF TypeOK, Sequences
  <2>7. ProducerInv'
    BY <2>5 DEF TypeOK, ProducerInv
  <2>8. GatingInv'
    <3>1. /\ pseq' = [pseq EXCEPT ![p] = cursor + 1]
          /\ ppc' = [ppc EXCEPT ![p] = "write"]
          /\ workSequence' = workSequence /\ sequence' = sequence
          /\ wpc' = wpc /\ nextSequence' = nextSequence
      OBVIOUS
    <3>2. \A w \in Worker :
             /\ sequence'[w] <= workSequence'
             /\ wpc'[w] # "read" => nextSequence'[w] = sequence'[w] + 1
      BY <3>1 DEF GatingInv
    <3>3. ASSUME NEW q \in Producer, ppc'[q] \in {"write", "publish"}
          PROVE  /\ pseq'[q] - BufferSize <= workSequence'
                 /\ \A w \in Worker : pseq'[q] - BufferSize <= sequence'[w]
      <4>1. CASE q = p
        <5>1. pseq'[q] = cursor + 1
          BY <3>1, <4>1 DEF TypeOK
        <5>2. sequence' = sequence /\ workSequence' = workSequence
          BY <3>1
        <5> DEFINE n == pseq'[q]
        <5>3. n = cursor + 1
          BY <5>1
        <5>4. /\ n - BufferSize <= workSequence
              /\ \A w \in Worker : n - BufferSize <= sequence[w]
          <6>1. /\ cursor \in Int /\ workSequence \in Int
                /\ sequence \in [Worker -> Int]
            BY DEF TypeOK, Sequences
          <6> HIDE <1>2 DEF NextSequence, IInv, S, n
          <6>2. n \in Int
            BY <5>3, <6>1
          <6> QED
            BY <2>4, <5>3, <6>1, <6>2
        <5> QED
          BY <5>2, <5>4, Zenon
      <4>2. CASE q # p
        <5>1. pseq'[q] = pseq[q] /\ ppc'[q] = ppc[q]
          BY <3>1, <4>2 DEF TypeOK
        <5> QED
          BY <3>1, <3>3, <5>1 DEF GatingInv
      <4> QED
        BY <4>1, <4>2
    <3> QED
      BY <3>2, <3>3 DEF GatingInv
  <2> QED
    BY <2>6, <2>7, <2>8
<1>3. ASSUME NEW p \in Producer, Write(p) PROVE IInv'
  <2> USE <1>3 DEF Write
  <2>1. pseq[p] % BufferSize \in Index
    BY SlotOf DEF ProducerInv
  <2>2. <<p, count[p]>> \in Event
    BY DEF TypeOK, ProducerInv, Event
  <2>3. TypeOK'
    BY <2>1, <2>2 DEF TypeOK
  <2>4. ProducerInv'
    BY DEF TypeOK, ProducerInv
  <2>5. GatingInv'
    BY DEF TypeOK, GatingInv
  <2> QED
    BY <2>3, <2>4, <2>5
<1>4. ASSUME NEW p \in Producer, PublishSequence(p) PROVE IInv'
  <2> USE <1>4 DEF PublishSequence
  <2>1. /\ pseq[p] % BufferSize \in Index
        /\ pseq[p] \div BufferSize \in Sequences
    BY SlotOf DEF ProducerInv
  <2>2. TypeOK'
    BY <2>1 DEF TypeOK
  <2>3. ProducerInv'
    BY DEF TypeOK, ProducerInv
  <2>4. GatingInv'
    BY DEF TypeOK, GatingInv
  <2> QED
    BY <2>2, <2>3, <2>4
<1>5. ASSUME NEW w \in Worker, ReadWork(w) PROVE IInv'
  <2> USE <1>5 DEF ReadWork
  <2>1. TypeOK'
    BY DEF TypeOK, Sequences
  <2>2. ProducerInv'
    BY DEF ProducerInv
  <2>3. GatingInv'
    BY DEF TypeOK, GatingInv, Sequences
  <2> QED
    BY <2>1, <2>2, <2>3
<1>6. ASSUME NEW w \in Worker, ClaimWork(w) PROVE IInv'
  <2> USE <1>6 DEF ClaimWork
  <2>1. TypeOK'
    BY DEF TypeOK
  <2>2. ProducerInv'
    BY DEF ProducerInv
  <2>3. workSequence \in Int /\ workSequence' \in Int /\ workSequence <= workSequence'
    BY DEF TypeOK, Sequences
  <2>4. GatingInv'
    BY <2>3 DEF TypeOK, GatingInv, Sequences
  <2> QED
    BY <2>1, <2>2, <2>4
<1>7. ASSUME NEW w \in Worker, Handle(w) \/ Handled(w) PROVE IInv'
  <2> USE <1>7 DEF Handle, Handled
  <2>1. TypeOK'
    BY DEF TypeOK
  <2>2. ProducerInv'
    BY DEF ProducerInv
  <2>3. GatingInv'
    BY DEF TypeOK, GatingInv
  <2> QED
    BY <2>1, <2>2, <2>3
<1>8. ASSUME UNCHANGED vars PROVE IInv'
  BY <1>8 DEF vars, TypeOK, ProducerInv, GatingInv
<1> QED
  BY <1>1, <1>2, <1>3, <1>4, <1>5, <1>6, <1>7, <1>8
     DEF Next, ProducerStep, WorkerStep

LEMMA Invariant == Spec => []IInv
  BY InvInit, InvNext, PTL DEF Spec

-----------------------------------------------------------------------------
(* Every variable of the ring keeps its type.                              *)
THEOREM RingTypeCorrect == Spec => []TypeOK
<1>1. IInv => TypeOK
  BY DEF IInv
<1> QED
  BY <1>1, Invariant, PTL

(* No producer writes a slot that a processor works on or has yet to read, *)
(* whether the processor runs or not.                                      *)
THEOREM SlotsAreSafe == Spec => []SlotNotReused
<1>1. ASSUME IInv, NEW p \in Producer, ppc[p] \in {"write", "publish"}
      PROVE  /\ workSequence >= pseq[p] - BufferSize
             /\ \A w \in Worker : wpc[w] \in {"wait", "handle"} =>
                   nextSequence[w] # pseq[p] - BufferSize
  <2>1. /\ workSequence \in Int /\ pseq[p] - BufferSize \in Int
        /\ \A w \in Worker : sequence[w] \in Int
    BY <1>1, WorkerPoolAssumption DEF IInv, TypeOK, Sequences
  <2>2. /\ pseq[p] - BufferSize <= workSequence
        /\ \A w \in Worker :
              /\ pseq[p] - BufferSize <= sequence[w]
              /\ wpc[w] # "read" => nextSequence[w] = sequence[w] + 1
    BY <1>1 DEF IInv, GatingInv
  <2> QED
    BY <2>1, <2>2
<1>2. IInv => SlotNotReused
  BY <1>1 DEF SlotNotReused
<1> QED
  BY <1>2, Invariant, PTL

-----------------------------------------------------------------------------
(* The ring implements EventDispatch.                                      *)

(* A sequence is its round and its slot.                                   *)
LEMMA RoundAndSlot ==
  ASSUME NEW n \in Nat
  PROVE  /\ n \div BufferSize \in Nat
         /\ n % BufferSize \in Nat
         /\ n = (BufferSize * (n \div BufferSize)) + (n % BufferSize)
  BY WorkerPoolAssumption

LEMMA RoundsApart ==
  ASSUME NEW a \in Nat, NEW b \in Nat, a < b
  PROVE  (BufferSize * a) + BufferSize <= BufferSize * b
  BY WorkerPoolAssumption

(* Two sequences of one slot are a ring apart, and never of one round.     *)
LEMMA SameSlot ==
  ASSUME NEW m \in Nat, NEW n \in Nat, m < n,
         m % BufferSize = n % BufferSize
  PROVE  /\ m + BufferSize <= n
         /\ m \div BufferSize # n \div BufferSize
<1> DEFINE a == m \div BufferSize
           b == n \div BufferSize
           r == m % BufferSize
<1>1. /\ a \in Nat /\ b \in Nat /\ r \in Nat /\ BufferSize \in Nat
      /\ m = (BufferSize * a) + r
      /\ n = (BufferSize * b) + r
  BY RoundAndSlot, WorkerPoolAssumption
<1>2. /\ a < b => (BufferSize * a) + BufferSize <= BufferSize * b
      /\ b < a => (BufferSize * b) + BufferSize <= BufferSize * a
  BY <1>1, RoundsApart
<1> HIDE DEF a, b, r
<1>3. BufferSize * a \in Nat /\ BufferSize * b \in Nat
  BY <1>1
<1>4. a # b
  BY <1>1, <1>3
<1>5. ~ (b < a)
  BY <1>1, <1>2, <1>3
<1>6. (BufferSize * a) + BufferSize <= BufferSize * b
  BY <1>1, <1>2, <1>4, <1>5
<1> QED
  BY <1>1, <1>3, <1>4, <1>6 DEF a, b

Writing(p) == ppc[p] \in {"write", "publish"}

(* The sequences of the producers that write are different, of the last    *)
(* round, and not yet available; nothing is available before it is claimed. *)
ClaimInv ==
    /\ \A p \in Producer : Writing(p) =>
          /\ pseq[p] <= cursor
          /\ cursor < pseq[p] + BufferSize
          /\ ~ IsAvailable(pseq[p])
    /\ \A p, q \in Producer :
          Writing(p) /\ Writing(q) /\ pseq[p] = pseq[q] => p = q
    /\ \A n \in Nat : IsAvailable(n) => n <= cursor

Working(w) == wpc[w] \in {"wait", "handle"}

Unpublished(n) == n > cursor \/ \E p \in Producer : Writing(p) /\ pseq[p] = n

(* A sequence is worked on by one worker, who handles it only when it is   *)
(* published; one that is claimed before it is published has a worker that *)
(* waits for it.                                                           *)
WorkInv ==
    /\ \A w \in Worker : Working(w) => nextSequence[w] <= workSequence
    /\ \A w, v \in Worker :
          Working(w) /\ Working(v) /\ nextSequence[w] = nextSequence[v] => w = v
    /\ \A w \in Worker : wpc[w] = "handle" => ~ Unpublished(nextSequence[w])
    /\ \A n \in Nat : n <= workSequence /\ Unpublished(n) =>
          \E w \in Worker : wpc[w] = "wait" /\ nextSequence[w] = n

(* The slots hold different events, of calls that have written theirs; a   *)
(* published slot and one in a handler's hands hold an event.              *)
SlotInv ==
    /\ \A p \in Producer : ppc[p] = "publish" =>
          slots[pseq[p] % BufferSize] = <<p, count[p]>>
    /\ \A i, j \in Index : slots[i] # NoEvent /\ slots[i] = slots[j] => i = j
    /\ \A i \in Index, p \in Producer, k \in 1 .. MaxEvents :
          slots[i] = <<p, k>> =>
              /\ k <= count[p]
              /\ ppc[p] \in {"next", "write"} => k < count[p]
    /\ \A i \in Index : availableBuffer[i] # -1 => slots[i] # NoEvent
    /\ \A w \in Worker : wpc[w] = "handle" =>
          slots[nextSequence[w] % BufferSize] # NoEvent

RingInv == IInv /\ ClaimInv /\ WorkInv /\ SlotInv

(* What the variables range over, as integers.                             *)
LEMMA RingTypes ==
  ASSUME IInv
  PROVE  /\ BufferSize \in Nat /\ BufferSize >= 1
         /\ cursor \in Int /\ cursor >= -1
         /\ workSequence \in Int /\ workSequence >= -1
         /\ \A p \in Producer : pseq[p] \in Int /\ (Writing(p) => pseq[p] \in Nat)
         /\ \A w \in Worker : /\ sequence[w] \in Int /\ nextSequence[w] \in Int
                              /\ sequence[w] >= -1
                              /\ wpc[w] # "read" => nextSequence[w] \in Nat
<1>1. /\ BufferSize \in Nat /\ BufferSize >= 1
      /\ cursor \in Int /\ cursor >= -1
      /\ workSequence \in Int /\ workSequence >= -1
  BY WorkerPoolAssumption DEF IInv, TypeOK, Sequences
<1>2. ASSUME NEW p \in Producer
      PROVE  pseq[p] \in Int /\ (Writing(p) => pseq[p] \in Nat)
  BY DEF IInv, TypeOK, ProducerInv, Writing, Sequences
<1>3. ASSUME NEW w \in Worker
      PROVE  /\ sequence[w] \in Int /\ nextSequence[w] \in Int
             /\ sequence[w] >= -1
             /\ wpc[w] # "read" => nextSequence[w] \in Nat
  <2>1. sequence[w] \in Sequences /\ nextSequence[w] \in Sequences
    BY DEF IInv, TypeOK
  <2>2. wpc[w] # "read" => nextSequence[w] = sequence[w] + 1
    BY DEF IInv, GatingInv
  <2> QED
    BY <2>1, <2>2 DEF Sequences
<1> QED
  BY <1>1, <1>2, <1>3

(* What else was or will be in the slot a producer writes: no later        *)
(* sequence is claimed, and every earlier one was handled.                 *)
LEMMA SlotIsFree ==
  ASSUME IInv, ClaimInv, NEW p \in Producer, Writing(p),
         NEW n \in Nat, n % BufferSize = pseq[p] % BufferSize
  PROVE  /\ n <= cursor => n <= pseq[p]
         /\ n < pseq[p] => /\ n <= workSequence
                           /\ \A w \in Worker : Working(w) => nextSequence[w] # n
<1> DEFINE m == pseq[p]
<1>1. /\ m \in Nat /\ m <= cursor /\ cursor < m + BufferSize
      /\ BufferSize \in Nat /\ cursor \in Int /\ workSequence \in Int
  BY RingTypes DEF ClaimInv
<1>2. /\ m - BufferSize <= workSequence
      /\ \A w \in Worker : /\ m - BufferSize <= sequence[w]
                           /\ Working(w) => nextSequence[w] = sequence[w] + 1
  BY DEF IInv, GatingInv, Writing, Working
<1>3. \A w \in Worker : sequence[w] \in Int /\ nextSequence[w] \in Int
  BY RingTypes
<1> HIDE DEF m
<1>4. n % BufferSize = m % BufferSize
  BY DEF m
<1>5. n <= cursor => n <= m
  <2>1. m < n => m + BufferSize <= n
    BY <1>1, <1>4, SameSlot, Zenon
  <2> QED
    BY <1>1, <2>1
<1>6. n < m => n <= m - BufferSize
  <2>1. n < m => n + BufferSize <= m
    BY <1>1, <1>4, SameSlot, Zenon
  <2> QED
    BY <1>1, <2>1
<1>7. n < m => n <= workSequence
  BY <1>1, <1>2, <1>6
<1>8. ASSUME n < m, NEW w \in Worker, Working(w) PROVE nextSequence[w] # n
  BY <1>1, <1>2, <1>3, <1>6, <1>8
<1> QED
  BY <1>5, <1>7, <1>8 DEF m

LEMMA RingInit == Init => ClaimInv /\ WorkInv /\ SlotInv
<1> SUFFICES ASSUME Init PROVE ClaimInv /\ WorkInv /\ SlotInv
  OBVIOUS
<1> USE DEF Init
<1>1. ASSUME NEW n \in Nat PROVE ~ IsAvailable(n)
  BY SlotOf, RoundAndSlot DEF IsAvailable
<1>2. ClaimInv
  BY <1>1 DEF ClaimInv, Writing
<1>3. WorkInv
  BY DEF WorkInv, Working
<1>4. ASSUME NEW i \in Index, NEW p \in Producer, NEW k \in 1 .. MaxEvents
      PROVE  slots[i] # <<p, k>>
  BY NoEventAssumption DEF Event
<1>5. SlotInv
  BY <1>4 DEF SlotInv
<1> QED
  BY <1>2, <1>3, <1>5

(* The steps of the producers keep the invariant of the ring.              *)
LEMMA OnDataRing ==
  ASSUME RingInv, NEW p \in Producer, OnData(p)
  PROVE  ClaimInv' /\ WorkInv' /\ SlotInv'
<1> USE DEF OnData, producerVars, workerVars
<1>1. /\ ppc' = [ppc EXCEPT ![p] = "next"] /\ ppc[p] = "idle"
      /\ count' = [count EXCEPT ![p] = count[p] + 1]
      /\ ppc \in [Producer -> {"idle", "next", "write", "publish"}]
      /\ count \in [Producer -> 0 .. MaxEvents]
      /\ UNCHANGED <<cursor, slots, availableBuffer, pseq>>
      /\ UNCHANGED <<workSequence, sequence, wpc, nextSequence>>
  BY DEF RingInv, IInv, TypeOK
<1>2. \A q \in Producer : /\ Writing(q)' <=> Writing(q)
                          /\ (ppc[q] = "publish")' <=> ppc[q] = "publish"
                          /\ (Writing(q) => count'[q] = count[q])
  BY <1>1 DEF Writing
<1>3. ClaimInv'
  BY <1>1, <1>2 DEF RingInv, ClaimInv, IsAvailable
<1>4. WorkInv'
  BY <1>1, <1>2 DEF RingInv, WorkInv, Working, Unpublished
<1>5. SlotInv'
  <2>1. ASSUME NEW q \in Producer, ppc'[q] = "publish"
        PROVE  slots'[pseq'[q] % BufferSize] = <<q, count'[q]>>
    BY <1>1, <1>2, <2>1 DEF RingInv, SlotInv, Writing
  <2>2. ASSUME NEW i \in Index, NEW q \in Producer, NEW k \in 1 .. MaxEvents,
               slots'[i] = <<q, k>>
        PROVE  /\ k <= count'[q]
               /\ ppc'[q] \in {"next", "write"} => k < count'[q]
    <3>1. /\ k <= count[q] /\ count[q] \in Int
          /\ ppc[q] \in {"next", "write"} => k < count[q]
      BY <1>1, <2>2 DEF RingInv, SlotInv
    <3>2. CASE q = p
      BY <1>1, <3>1, <3>2
    <3>3. CASE q # p
      BY <1>1, <3>1, <3>3
    <3> QED
      BY <3>2, <3>3
  <2>3. /\ \A i, j \in Index : slots'[i] # NoEvent /\ slots'[i] = slots'[j] => i = j
        /\ \A i \in Index : availableBuffer'[i] # -1 => slots'[i] # NoEvent
        /\ \A w \in Worker : wpc'[w] = "handle" =>
              slots'[nextSequence'[w] % BufferSize] # NoEvent
    BY <1>1 DEF RingInv, SlotInv
  <2> QED
    BY <2>1, <2>2, <2>3 DEF SlotInv
<1> QED
  BY <1>3, <1>4, <1>5

LEMMA NextSequenceRing ==
  ASSUME RingInv, NEW p \in Producer, NextSequence(p)
  PROVE  ClaimInv' /\ WorkInv' /\ SlotInv'
<1> DEFINE m == cursor + 1
<1>1. /\ ppc' = [ppc EXCEPT ![p] = "write"] /\ ppc[p] = "next"
      /\ pseq' = [pseq EXCEPT ![p] = m] /\ cursor' = m
      /\ ppc \in [Producer -> {"idle", "next", "write", "publish"}]
      /\ pseq \in [Producer -> Sequences]
      /\ UNCHANGED <<slots, availableBuffer, count>>
      /\ UNCHANGED <<workSequence, sequence, wpc, nextSequence>>
  BY DEF RingInv, IInv, TypeOK, NextSequence, workerVars
<1>2. IInv /\ IInv' /\ ClaimInv /\ WorkInv /\ SlotInv
  <2>1. [Next]_vars
    BY DEF Next, ProducerStep
  <2> QED
    BY <2>1, InvNext DEF RingInv
<1>3. /\ cursor \in Int /\ m \in Nat /\ cursor = m - 1 /\ m # cursor
      /\ BufferSize \in Nat /\ BufferSize >= 1 /\ workSequence \in Int
  BY <1>2, RingTypes
<1> HIDE DEF m
<1>4. \A n \in Nat : IsAvailable(n)' <=> IsAvailable(n)
  BY <1>1 DEF IsAvailable
<1>5. \A q \in Producer \ {p} : /\ Writing(q)' <=> Writing(q)
                                /\ pseq'[q] = pseq[q] /\ ppc'[q] = ppc[q]
  BY <1>1 DEF Writing
<1>6. pseq'[p] = m /\ ppc'[p] = "write" /\ ~ Writing(p)
  BY <1>1 DEF Writing
<1>7. ASSUME NEW q \in Producer \ {p}, Writing(q)
      PROVE  /\ pseq[q] \in Nat /\ pseq[q] < m /\ m < pseq[q] + BufferSize
             /\ ~ IsAvailable(pseq[q])
  <2>1. /\ pseq[q] \in Nat /\ pseq[q] <= cursor /\ cursor < pseq[q] + BufferSize
        /\ ~ IsAvailable(pseq[q])
    BY <1>2, <1>7, RingTypes DEF ClaimInv
  <2>2. m - BufferSize <= workSequence
    BY <1>1, <1>2, <1>6 DEF IInv, GatingInv
  <2>3. ASSUME NEW w \in Worker, wpc[w] = "wait"
        PROVE  /\ nextSequence[w] \in Int
               /\ m - BufferSize < nextSequence[w]
    <3>1. m - BufferSize <= sequence[w] /\ nextSequence[w] = sequence[w] + 1
      BY <1>1, <1>2, <1>6, <2>3 DEF IInv, GatingInv
    <3>2. sequence[w] \in Int
      BY <1>2, RingTypes
    <3> QED
      BY <1>3, <3>1, <3>2
  <2>4. pseq[q] # m - BufferSize
    <3>1. ASSUME pseq[q] = m - BufferSize PROVE FALSE
      <4>1. pseq[q] <= workSequence /\ Unpublished(pseq[q])
        BY <1>7, <2>2, <3>1 DEF Unpublished
      <4>2. PICK w \in Worker : wpc[w] = "wait" /\ nextSequence[w] = pseq[q]
        BY <1>2, <2>1, <4>1 DEF WorkInv
      <4> QED
        BY <1>3, <2>1, <2>3, <3>1, <4>2
    <3> QED
      BY <3>1
  <2> QED
    BY <1>3, <2>1, <2>4
<1>8. \A n \in Nat : IsAvailable(n) => n <= cursor
  BY <1>2 DEF ClaimInv
<1>9. ClaimInv'
  <2>1. ASSUME NEW q \in Producer, Writing(q)'
        PROVE  pseq'[q] <= cursor' /\ cursor' < pseq'[q] + BufferSize
               /\ ~ IsAvailable(pseq[q])'
    <3>1. CASE q = p
      <4>1. ~ IsAvailable(m)
        BY <1>3, <1>8
      <4>2. ~ IsAvailable(pseq[q])'
        BY <1>1, <1>6, <3>1, <4>1 DEF IsAvailable
      <4> QED
        BY <1>1, <1>3, <1>6, <3>1, <4>2
    <3>2. CASE q # p
      <4>1. ~ IsAvailable(pseq[q])'
        BY <1>1, <1>5, <1>7, <2>1, <3>2 DEF IsAvailable
      <4> QED
        BY <1>1, <1>3, <1>5, <1>7, <2>1, <3>2, <4>1
    <3> QED
      BY <3>1, <3>2
  <2>2. \A q, r \in Producer :
           Writing(q)' /\ Writing(r)' /\ pseq'[q] = pseq'[r] => q = r
    <3>1. \A q \in Producer \ {p} : Writing(q) => pseq[q] # m
      BY <1>3, <1>7
    <3>2. \A q, r \in Producer :
             Writing(q) /\ Writing(r) /\ pseq[q] = pseq[r] => q = r
      BY <1>2 DEF ClaimInv
    <3> QED
      BY <1>5, <1>6, <3>1, <3>2
  <2>3. ASSUME NEW n \in Nat, IsAvailable(n)' PROVE n <= cursor'
    BY <1>1, <1>3, <1>4, <1>8, <2>3
  <2> QED
    BY <2>1, <2>2, <2>3 DEF ClaimInv
<1>10. ASSUME NEW n \in Nat PROVE Unpublished(n)' <=> Unpublished(n)
  <2>1. n > cursor <=> (n > cursor' \/ n = m)
    BY <1>1, <1>3
  <2>2. (\E q \in Producer : Writing(q)' /\ pseq'[q] = n)
          <=> (n = m \/ \E q \in Producer : Writing(q) /\ pseq[q] = n)
    <3>1. Writing(p)'
      BY <1>6 DEF Writing
    <3> QED
      BY <1>5, <1>6, <3>1
  <2> QED
    BY <2>1, <2>2 DEF Unpublished
<1>11. WorkInv'
  <2>1. \A w \in Worker : Working(w)' <=> Working(w)
    BY <1>1 DEF Working
  <2>2. ASSUME NEW w \in Worker, wpc'[w] = "handle"
        PROVE  ~ Unpublished(nextSequence[w])'
    <3>1. nextSequence[w] \in Nat /\ ~ Unpublished(nextSequence[w])
      BY <1>1, <1>2, <2>2, RingTypes DEF WorkInv
    <3>2. ASSUME NEW n \in Nat, n = nextSequence[w], ~ Unpublished(n)'
          PROVE  ~ Unpublished(nextSequence[w])'
      BY <1>1, <3>2 DEF Unpublished
    <3> QED
      BY <1>10, <3>1, <3>2
  <2>3. ASSUME NEW n \in Nat, n <= workSequence', Unpublished(n)'
        PROVE  \E w \in Worker : wpc'[w] = "wait" /\ nextSequence'[w] = n
    BY <1>1, <1>2, <1>10, <2>3 DEF WorkInv
  <2> QED
    BY <1>1, <1>2, <2>1, <2>2, <2>3 DEF WorkInv
<1>12. SlotInv'
  <2>1. \A q \in Producer : /\ ppc'[q] = "publish" => q # p
                            /\ ppc'[q] \in {"next", "write"} =>
                                  ppc[q] \in {"next", "write"}
    BY <1>1
  <2>2. \A q \in Producer : ppc'[q] = "publish" =>
          slots[pseq'[q] % BufferSize] = <<q, count[q]>>
    BY <1>2, <1>5, <2>1 DEF SlotInv
  <2> QED
    BY <1>1, <1>2, <2>1, <2>2 DEF SlotInv
<1> QED
  BY <1>9, <1>11, <1>12

LEMMA WriteRing ==
  ASSUME RingInv, NEW p \in Producer, Write(p)
  PROVE  ClaimInv' /\ WorkInv' /\ SlotInv'
<1> DEFINE m == pseq[p]
           e == <<p, count[p]>>
<1>1. /\ ppc' = [ppc EXCEPT ![p] = "publish"] /\ ppc[p] = "write"
      /\ slots' = [slots EXCEPT ![m % BufferSize] = e]
      /\ ppc \in [Producer -> {"idle", "next", "write", "publish"}]
      /\ slots \in [Index -> Event \cup {NoEvent}]
      /\ UNCHANGED <<cursor, availableBuffer, pseq, count>>
      /\ UNCHANGED <<workSequence, sequence, wpc, nextSequence>>
  BY DEF RingInv, IInv, TypeOK, Write, workerVars
<1>2. IInv /\ ClaimInv /\ WorkInv /\ SlotInv
  BY DEF RingInv
<1>3. Writing(p) /\ m \in Nat /\ m % BufferSize \in Index
  BY <1>1, <1>2, RingTypes, SlotOf DEF Writing
<1>4. \A q \in Producer : /\ Writing(q)' <=> Writing(q)
                          /\ q # p => ppc'[q] = ppc[q]
  BY <1>1 DEF Writing
<1>5. ClaimInv'
  BY <1>1, <1>2, <1>4 DEF ClaimInv, IsAvailable
<1>6. WorkInv'
  BY <1>1, <1>2, <1>4 DEF WorkInv, Working, Unpublished
<1>7. count[p] \in 1 .. MaxEvents /\ e \in Event /\ e # NoEvent
  BY <1>1, <1>2, NoEventAssumption DEF IInv, TypeOK, ProducerInv, Event
<1>8. \A i \in Index : slots'[i] = IF i = m % BufferSize THEN e ELSE slots[i]
  BY <1>1, <1>3
<1>9. SlotInv'
  <2>1. ASSUME NEW q \in Producer, ppc'[q] = "publish"
        PROVE  slots'[pseq'[q] % BufferSize] = <<q, count'[q]>>
    <3>1. CASE q = p
      BY <1>1, <1>3, <1>8, <3>1
    <3>2. CASE q # p
      <4>1. Writing(q) /\ ppc[q] = "publish" /\ pseq[q] \in Nat
        BY <1>2, <1>4, <2>1, <3>2, RingTypes DEF Writing
      <4>2. pseq[q] # m
        BY <1>2, <1>3, <3>2, <4>1 DEF ClaimInv
      <4>3. /\ pseq[q] <= cursor /\ m <= cursor
        BY <1>2, <1>3, <4>1 DEF ClaimInv
      <4>4. pseq[q] % BufferSize # m % BufferSize
        <5>1. ASSUME pseq[q] % BufferSize = m % BufferSize PROVE FALSE
          <6>1. pseq[q] <= m
            BY <1>2, <1>3, <4>1, <4>3, <5>1, SlotIsFree, Zenon
          <6>2. m <= pseq[q]
            BY <1>2, <1>3, <4>1, <4>3, <5>1, SlotIsFree, Zenon
          <6> QED
            BY <1>3, <4>1, <4>2, <6>1, <6>2
        <5> QED
          BY <5>1
      <4>5. pseq[q] % BufferSize \in Index
        BY <4>1, SlotOf
      <4>6. slots[pseq[q] % BufferSize] = <<q, count[q]>>
        BY <1>2, <4>1 DEF SlotInv
      <4> QED
        BY <1>1, <1>8, <4>4, <4>5, <4>6
    <3> QED
      BY <3>1, <3>2
  <2>2. \A i \in Index : slots[i] # e
    <3>1. count[p] \in Int /\ ~ (count[p] < count[p])
      BY <1>7
    <3> QED
      BY <1>1, <1>2, <1>7, <3>1 DEF SlotInv
  <2>3. \A i, j \in Index : slots'[i] # NoEvent /\ slots'[i] = slots'[j] => i = j
    BY <1>2, <1>7, <1>8, <2>2 DEF SlotInv
  <2>4. ASSUME NEW i \in Index, NEW q \in Producer, NEW k \in 1 .. MaxEvents,
               slots'[i] = <<q, k>>
        PROVE  /\ k <= count'[q]
               /\ ppc'[q] \in {"next", "write"} => k < count'[q]
    <3>1. CASE i = m % BufferSize
      <4>1. q = p /\ k = count[p]
        BY <1>8, <2>4, <3>1
      <4> QED
        BY <1>1, <1>7, <4>1
    <3>2. CASE i # m % BufferSize
      <4>1. /\ k <= count[q]
            /\ ppc[q] \in {"next", "write"} => k < count[q]
        BY <1>2, <1>8, <2>4, <3>2 DEF SlotInv
      <4>2. ppc'[q] \in {"next", "write"} => ppc[q] \in {"next", "write"}
        BY <1>1
      <4> QED
        BY <1>1, <4>1, <4>2
    <3> QED
      BY <3>1, <3>2
  <2>5. \A i \in Index : availableBuffer'[i] # -1 => slots'[i] # NoEvent
    BY <1>1, <1>2, <1>7, <1>8 DEF SlotInv
  <2>6. ASSUME NEW w \in Worker, wpc'[w] = "handle"
        PROVE  slots'[nextSequence'[w] % BufferSize] # NoEvent
    <3>1. nextSequence[w] % BufferSize \in Index
      BY <1>1, <1>2, <2>6, RingTypes, SlotOf
    <3>2. slots[nextSequence[w] % BufferSize] # NoEvent
      BY <1>1, <1>2, <2>6 DEF SlotInv
    <3> QED
      BY <1>1, <1>7, <1>8, <3>1, <3>2
  <2> QED
    BY <2>1, <2>3, <2>4, <2>5, <2>6 DEF SlotInv
<1> QED
  BY <1>5, <1>6, <1>9

(* Publishing makes one sequence available, the one the producer writes.   *)
LEMMA PublishedAvailable ==
  ASSUME RingInv, NEW p \in Producer, PublishSequence(p), NEW n \in Nat
  PROVE  /\ n = pseq[p] => IsAvailable(n)'
         /\ n # pseq[p] /\ IsAvailable(n)' => IsAvailable(n)
         /\ n # pseq[p] /\ IsAvailable(n) /\ ~ IsAvailable(n)' =>
               n % BufferSize = pseq[p] % BufferSize
<1> DEFINE m == pseq[p]
<1>1. m \in Nat
  BY RingTypes DEF RingInv, PublishSequence, Writing
<1>2. /\ availableBuffer \in [Index -> Sequences]
      /\ availableBuffer' = [availableBuffer EXCEPT
            ![m % BufferSize] = m \div BufferSize]
  BY DEF RingInv, IInv, TypeOK, PublishSequence
<1> HIDE DEF m
<1>3. n % BufferSize \in Index /\ m % BufferSize \in Index
  BY <1>1, SlotOf
<1>4. CASE n % BufferSize # m % BufferSize
  <2>1. availableBuffer'[n % BufferSize] = availableBuffer[n % BufferSize]
    BY <1>2, <1>3, <1>4
  <2> QED
    BY <1>4, <2>1 DEF IsAvailable, m
<1>5. CASE n % BufferSize = m % BufferSize
  <2>1. availableBuffer'[n % BufferSize] = m \div BufferSize
    BY <1>2, <1>3, <1>5
  <2>2. IsAvailable(n)' <=> m \div BufferSize = n \div BufferSize
    BY <2>1 DEF IsAvailable
  <2>3. n # m => m \div BufferSize # n \div BufferSize
    <3>1. n < m => m \div BufferSize # n \div BufferSize
      BY <1>1, <1>5, SameSlot
    <3>2. m < n => m \div BufferSize # n \div BufferSize
      BY <1>1, <1>5, SameSlot
    <3> QED
      BY <1>1, <3>1, <3>2
  <2> QED
    BY <1>5, <2>2, <2>3 DEF m
<1> QED
  BY <1>4, <1>5

LEMMA PublishRing ==
  ASSUME RingInv, NEW p \in Producer, PublishSequence(p)
  PROVE  ClaimInv' /\ WorkInv' /\ SlotInv'
<1> DEFINE m == pseq[p]
<1>1. /\ ppc' = [ppc EXCEPT ![p] = "idle"] /\ ppc[p] = "publish"
      /\ availableBuffer' = [availableBuffer EXCEPT
            ![m % BufferSize] = m \div BufferSize]
      /\ ppc \in [Producer -> {"idle", "next", "write", "publish"}]
      /\ availableBuffer \in [Index -> Sequences]
      /\ UNCHANGED <<cursor, slots, pseq, count>>
      /\ UNCHANGED <<workSequence, sequence, wpc, nextSequence>>
  BY DEF RingInv, IInv, TypeOK, PublishSequence, workerVars
<1>2. IInv /\ ClaimInv /\ WorkInv /\ SlotInv
  BY DEF RingInv
<1>3. Writing(p) /\ m \in Nat /\ m % BufferSize \in Index
  BY <1>1, <1>2, RingTypes, SlotOf DEF Writing
<1>4. \A q \in Producer : /\ Writing(q)' <=> Writing(q) /\ q # p
                          /\ q # p => ppc'[q] = ppc[q]
                          /\ ppc'[q] # "idle" => q # p
  BY <1>1 DEF Writing
<1>5. ClaimInv'
  <2>1. ASSUME NEW q \in Producer, Writing(q)'
        PROVE  /\ pseq'[q] <= cursor' /\ cursor' < pseq'[q] + BufferSize
               /\ ~ IsAvailable(pseq[q])'
    <3>1. /\ Writing(q) /\ q # p /\ pseq[q] \in Nat
          /\ pseq[q] <= cursor /\ cursor < pseq[q] + BufferSize
          /\ ~ IsAvailable(pseq[q]) /\ pseq[q] # m
      BY <1>2, <1>3, <1>4, <2>1, RingTypes DEF ClaimInv
    <3>2. ASSUME NEW n \in Nat, n = pseq[q] PROVE ~ IsAvailable(n)'
      <4>1. ~ IsAvailable(n) /\ n # m
        BY <3>1, <3>2
      <4> QED
        BY <4>1, PublishedAvailable
    <3>3. ~ IsAvailable(pseq[q])'
      <4>1. PICK n \in Nat : n = pseq[q]
        BY <3>1
      <4>2. ~ IsAvailable(n)'
        BY <3>2, <4>1
      <4> QED
        BY <1>1, <4>1, <4>2 DEF IsAvailable
    <3> QED
      BY <1>1, <3>1, <3>3
  <2>2. \A q, r \in Producer :
           Writing(q)' /\ Writing(r)' /\ pseq'[q] = pseq'[r] => q = r
    BY <1>1, <1>2, <1>4 DEF ClaimInv
  <2>3. ASSUME NEW n \in Nat, IsAvailable(n)' PROVE n <= cursor'
    <3>1. m <= cursor
      BY <1>2, <1>3 DEF ClaimInv
    <3>2. n # m => n <= cursor
      BY <1>2, <2>3, PublishedAvailable DEF ClaimInv
    <3> QED
      BY <1>1, <3>1, <3>2
  <2> QED
    BY <2>1, <2>2, <2>3 DEF ClaimInv
<1>6. WorkInv'
  <2>1. \A w \in Worker : Working(w)' <=> Working(w)
    BY <1>1 DEF Working
  <2>2. ASSUME NEW n \in Int, Unpublished(n)' PROVE Unpublished(n)
    BY <1>1, <1>4, <2>2 DEF Unpublished
  <2>3. ASSUME NEW w \in Worker, wpc'[w] = "handle"
        PROVE  ~ Unpublished(nextSequence[w])'
    <3>1. ~ Unpublished(nextSequence[w])
      BY <1>1, <1>2, <2>3 DEF WorkInv
    <3> QED
      BY <1>1, <1>4, <3>1 DEF Unpublished
  <2> QED
    BY <1>1, <1>2, <2>1, <2>2, <2>3 DEF WorkInv
<1>7. SlotInv'
  <2>1. slots[m % BufferSize] # NoEvent
    <3>1. slots[m % BufferSize] = <<p, count[p]>>
      BY <1>1, <1>2 DEF SlotInv
    <3>2. <<p, count[p]>> \in Event
      BY <1>1, <1>2 DEF IInv, TypeOK, ProducerInv, Event
    <3> QED
      BY <3>1, <3>2, NoEventAssumption
  <2>2. \A i \in Index : i # m % BufferSize => availableBuffer'[i] = availableBuffer[i]
    BY <1>1
  <2>3. \A i \in Index : availableBuffer'[i] # -1 => slots'[i] # NoEvent
    BY <1>1, <1>2, <2>1, <2>2 DEF SlotInv
  <2>4. \A q \in Producer : ppc'[q] = "publish" =>
           slots'[pseq'[q] % BufferSize] = <<q, count'[q]>>
    BY <1>1, <1>2, <1>4 DEF SlotInv
  <2>5. \A q \in Producer : ppc'[q] \in {"next", "write"} => ppc[q] \in {"next", "write"}
    BY <1>1
  <2> QED
    BY <1>1, <1>2, <2>3, <2>4, <2>5 DEF SlotInv
<1> QED
  BY <1>5, <1>6, <1>7

(* So do the steps of the workers, which leave the producers' side alone.  *)
LEMMA WorkerKeepsClaims ==
  ASSUME RingInv, UNCHANGED producerVars
  PROVE  /\ ClaimInv'
         /\ \A n \in Int : Unpublished(n)' <=> Unpublished(n)
<1>1. UNCHANGED <<cursor, slots, availableBuffer, ppc, pseq, count>>
  BY DEF producerVars
<1>2. ClaimInv'
  BY <1>1 DEF RingInv, ClaimInv, IsAvailable, Writing
<1>3. \A n \in Int : Unpublished(n)' <=> Unpublished(n)
  BY <1>1 DEF Unpublished, Writing
<1> QED
  BY <1>2, <1>3

LEMMA ReadWorkRing ==
  ASSUME RingInv, NEW w \in Worker, ReadWork(w)
  PROVE  ClaimInv' /\ WorkInv' /\ SlotInv'
<1>1. /\ wpc[w] = "read" /\ wpc' = [wpc EXCEPT ![w] = "claim"]
      /\ nextSequence' = [nextSequence EXCEPT ![w] = workSequence + 1]
      /\ wpc \in [Worker -> {"read", "claim", "wait", "handle"}]
      /\ nextSequence \in [Worker -> Sequences]
      /\ workSequence' = workSequence
      /\ UNCHANGED <<cursor, slots, availableBuffer, ppc, pseq, count>>
  BY DEF RingInv, IInv, TypeOK, ReadWork, producerVars
<1>2. IInv /\ ClaimInv /\ WorkInv /\ SlotInv
  BY DEF RingInv
<1>3. /\ ClaimInv'
      /\ \A n \in Int : Unpublished(n)' <=> Unpublished(n)
  BY WorkerKeepsClaims DEF ReadWork
<1>4. \A v \in Worker : /\ Working(v)' <=> Working(v)
                        /\ Working(v) => v # w /\ nextSequence'[v] = nextSequence[v]
                        /\ (wpc'[v] = "handle") <=> (wpc[v] = "handle")
                        /\ (wpc'[v] = "wait") <=> (wpc[v] = "wait")
  BY <1>1 DEF Working
<1>5. ASSUME NEW v \in Worker, wpc'[v] = "handle"
      PROVE  ~ Unpublished(nextSequence[v])' /\ nextSequence'[v] = nextSequence[v]
  <2>1. ~ Unpublished(nextSequence[v]) /\ nextSequence'[v] = nextSequence[v]
    BY <1>2, <1>4, <1>5 DEF WorkInv, Working
  <2> QED
    BY <1>1, <2>1 DEF Unpublished, Writing
<1>6. WorkInv'
  <2>1. \A v \in Worker : wpc'[v] = "wait" => nextSequence'[v] = nextSequence[v]
    BY <1>4 DEF Working
  <2>2. ASSUME NEW n \in Nat, n <= workSequence', Unpublished(n)'
        PROVE  \E v \in Worker : wpc'[v] = "wait" /\ nextSequence'[v] = n
    BY <1>1, <1>2, <1>3, <1>4, <2>1, <2>2 DEF WorkInv
  <2>3. \A v \in Worker : wpc'[v] = "handle" => ~ Unpublished(nextSequence[v])'
    BY <1>5
  <2>4. \A v, u \in Worker :
           Working(v)' /\ Working(u)' /\ nextSequence'[v] = nextSequence'[u] => v = u
    BY <1>2, <1>4 DEF WorkInv
  <2>5. \A v \in Worker : Working(v)' => nextSequence'[v] <= workSequence'
    BY <1>1, <1>2, <1>4 DEF WorkInv
  <2> QED
    BY <2>2, <2>3, <2>4, <2>5 DEF WorkInv
<1>7. SlotInv'
  BY <1>1, <1>2, <1>4, <1>5 DEF SlotInv
<1> QED
  BY <1>3, <1>6, <1>7

LEMMA ClaimWorkRing ==
  ASSUME RingInv, NEW w \in Worker, ClaimWork(w)
  PROVE  ClaimInv' /\ WorkInv' /\ SlotInv'
<1>1. /\ wpc[w] = "claim"
      /\ \/ /\ nextSequence[w] = workSequence + 1
            /\ workSequence' = workSequence + 1
            /\ wpc' = [wpc EXCEPT ![w] = "wait"]
         \/ /\ workSequence' = workSequence
            /\ wpc' = [wpc EXCEPT ![w] = "read"]
      /\ wpc \in [Worker -> {"read", "claim", "wait", "handle"}]
      /\ nextSequence' = nextSequence
      /\ UNCHANGED <<cursor, slots, availableBuffer, ppc, pseq, count>>
  <2>1. workSequence \in Int /\ nextSequence[w] \in Int
    BY RingTypes DEF RingInv
  <2> QED
    BY <2>1 DEF RingInv, IInv, TypeOK, ClaimWork, producerVars
<1>2. IInv /\ ClaimInv /\ WorkInv /\ SlotInv
  BY DEF RingInv
<1>3. /\ ClaimInv'
      /\ \A n \in Int : Unpublished(n)' <=> Unpublished(n)
  BY WorkerKeepsClaims DEF ClaimWork
<1>4. /\ workSequence \in Int
      /\ \A v \in Worker : nextSequence[v] \in Int
  BY <1>2, RingTypes
<1>5. \A v \in Worker : /\ v # w => wpc'[v] = wpc[v]
                        /\ (wpc'[v] = "handle") <=> (wpc[v] = "handle")
                        /\ (wpc[v] = "wait") => (wpc'[v] = "wait")
                        /\ Working(v) => v # w
  BY <1>1 DEF Working
<1>6. ASSUME NEW v \in Worker, wpc'[v] = "handle"
      PROVE  ~ Unpublished(nextSequence[v])'
  <2>1. ~ Unpublished(nextSequence[v])
    BY <1>2, <1>5, <1>6 DEF WorkInv
  <2> QED
    BY <1>1, <2>1 DEF Unpublished, Writing
<1>7. SlotInv'
  BY <1>1, <1>2, <1>5 DEF SlotInv
<1>8. CASE wpc' = [wpc EXCEPT ![w] = "read"] /\ workSequence' = workSequence
  <2>1. \A v \in Worker : Working(v)' => Working(v)
    BY <1>1, <1>8 DEF Working
  <2>2. ASSUME NEW n \in Nat, n <= workSequence', Unpublished(n)'
        PROVE  \E v \in Worker : wpc'[v] = "wait" /\ nextSequence'[v] = n
    BY <1>1, <1>2, <1>3, <1>5, <1>8, <2>2 DEF WorkInv
  <2>3. WorkInv'
    BY <1>1, <1>2, <1>6, <1>8, <2>1, <2>2 DEF WorkInv
  <2> QED
    BY <1>3, <1>7, <2>3
<1>9. CASE /\ nextSequence[w] = workSequence + 1
           /\ workSequence' = workSequence + 1
           /\ wpc' = [wpc EXCEPT ![w] = "wait"]
  <2>1. \A v \in Worker : Working(v)' <=> Working(v) \/ v = w
    BY <1>1, <1>9 DEF Working
  <2>2. \A v \in Worker : Working(v) => nextSequence[v] <= workSequence
    BY <1>2 DEF WorkInv
  <2>3. \A v \in Worker : Working(v)' => nextSequence'[v] <= workSequence'
    BY <1>1, <1>4, <1>9, <2>1, <2>2
  <2>4. \A v \in Worker : Working(v) => nextSequence[v] # nextSequence[w]
    BY <1>4, <1>9, <2>2
  <2>5. \A v, u \in Worker :
           Working(v) /\ Working(u) /\ nextSequence[v] = nextSequence[u] => v = u
    BY <1>2 DEF WorkInv
  <2>6. \A v, u \in Worker :
           Working(v)' /\ Working(u)' /\ nextSequence'[v] = nextSequence'[u] => v = u
    BY <1>1, <2>1, <2>4, <2>5
  <2>7. ASSUME NEW n \in Nat, n <= workSequence', Unpublished(n)'
        PROVE  \E v \in Worker : wpc'[v] = "wait" /\ nextSequence'[v] = n
    <3>1. CASE n = workSequence + 1
      BY <1>1, <1>9, <3>1
    <3>2. CASE n # workSequence + 1
      <4>1. n <= workSequence /\ Unpublished(n)
        BY <1>3, <1>4, <1>9, <2>7, <3>2
      <4> QED
        BY <1>1, <1>2, <1>5, <4>1 DEF WorkInv
    <3> QED
      BY <3>1, <3>2
  <2>8. WorkInv'
    BY <1>6, <2>3, <2>6, <2>7 DEF WorkInv
  <2> QED
    BY <1>3, <1>7, <2>8
<1> QED
  BY <1>1, <1>8, <1>9

LEMMA HandleRing ==
  ASSUME RingInv, NEW w \in Worker, Handle(w)
  PROVE  /\ ClaimInv' /\ WorkInv' /\ SlotInv'
         /\ slots[nextSequence[w] % BufferSize] # NoEvent
<1> DEFINE m == nextSequence[w]
<1>1. /\ wpc[w] = "wait" /\ wpc' = [wpc EXCEPT ![w] = "handle"]
      /\ wpc \in [Worker -> {"read", "claim", "wait", "handle"}]
      /\ m <= cursor /\ IsAvailable(m)
      /\ nextSequence' = nextSequence /\ workSequence' = workSequence
      /\ UNCHANGED <<cursor, slots, availableBuffer, ppc, pseq, count>>
  BY DEF RingInv, IInv, TypeOK, Handle, producerVars
<1>2. IInv /\ ClaimInv /\ WorkInv /\ SlotInv
  BY DEF RingInv
<1>3. /\ ClaimInv'
      /\ \A n \in Int : Unpublished(n)' <=> Unpublished(n)
  BY WorkerKeepsClaims DEF Handle
<1>4. m \in Nat /\ cursor \in Int /\ m % BufferSize \in Index
  BY <1>1, <1>2, RingTypes, SlotOf
<1>5. ~ Unpublished(m)
  <2>1. \A p \in Producer : Writing(p) => ~ IsAvailable(pseq[p])
    BY <1>2 DEF ClaimInv
  <2>2. ASSUME NEW p \in Producer, Writing(p), pseq[p] = m PROVE FALSE
    <3>1. ~ IsAvailable(pseq[p])
      BY <2>1, <2>2
    <3> QED
      BY <1>1, <2>2, <3>1, Zenon
  <2>3. ~ (m > cursor)
    BY <1>1, <1>4
  <2> HIDE DEF m
  <2> QED
    BY <2>2, <2>3 DEF Unpublished
<1>6. slots[m % BufferSize] # NoEvent
  <2>1. availableBuffer[m % BufferSize] = m \div BufferSize
    BY <1>1 DEF IsAvailable
  <2>2. m \div BufferSize \in Nat
    BY <1>4, RoundAndSlot
  <2>3. availableBuffer[m % BufferSize] # -1
    <3> HIDE DEF m
    <3> QED
      BY <2>1, <2>2
  <2> QED
    BY <1>2, <1>4, <2>3 DEF SlotInv
<1>7. \A v \in Worker : /\ Working(v)' <=> Working(v)
                        /\ wpc'[v] = "handle" => v = w \/ wpc[v] = "handle"
                        /\ wpc[v] = "wait" /\ v # w => wpc'[v] = "wait"
  BY <1>1 DEF Working
<1>8. ASSUME NEW v \in Worker, wpc'[v] = "handle"
      PROVE  ~ Unpublished(nextSequence[v])'
  <2>1. ~ Unpublished(nextSequence[v])
    BY <1>2, <1>5, <1>7, <1>8 DEF WorkInv
  <2> QED
    BY <1>1, <2>1 DEF Unpublished, Writing
<1>9. ASSUME NEW n \in Nat, n <= workSequence', Unpublished(n)'
      PROVE  \E v \in Worker : wpc'[v] = "wait" /\ nextSequence'[v] = n
  <2>1. PICK v \in Worker : wpc[v] = "wait" /\ nextSequence[v] = n
    BY <1>1, <1>2, <1>3, <1>9 DEF WorkInv
  <2>2. Unpublished(n)
    BY <1>3, <1>9
  <2>3. v # w
    BY <1>5, <2>1, <2>2
  <2> QED
    BY <1>1, <1>7, <2>1, <2>3
<1>10. WorkInv'
  BY <1>1, <1>2, <1>7, <1>8, <1>9 DEF WorkInv
<1>11. SlotInv'
  BY <1>1, <1>2, <1>6, <1>7 DEF SlotInv
<1> QED
  BY <1>3, <1>6, <1>10, <1>11

LEMMA HandledRing ==
  ASSUME RingInv, NEW w \in Worker, Handled(w)
  PROVE  ClaimInv' /\ WorkInv' /\ SlotInv'
<1>1. /\ wpc[w] = "handle" /\ wpc' = [wpc EXCEPT ![w] = "read"]
      /\ wpc \in [Worker -> {"read", "claim", "wait", "handle"}]
      /\ nextSequence' = nextSequence /\ workSequence' = workSequence
      /\ UNCHANGED <<cursor, slots, availableBuffer, ppc, pseq, count>>
  BY DEF RingInv, IInv, TypeOK, Handled, producerVars
<1>2. IInv /\ ClaimInv /\ WorkInv /\ SlotInv
  BY DEF RingInv
<1>3. /\ ClaimInv'
      /\ \A n \in Int : Unpublished(n)' <=> Unpublished(n)
  BY WorkerKeepsClaims DEF Handled
<1>4. \A v \in Worker : /\ Working(v)' => Working(v)
                        /\ wpc'[v] = "handle" => wpc[v] = "handle"
                        /\ wpc[v] = "wait" => wpc'[v] = "wait"
  BY <1>1 DEF Working
<1>5. ASSUME NEW v \in Worker, wpc'[v] = "handle"
      PROVE  ~ Unpublished(nextSequence[v])'
  <2>1. ~ Unpublished(nextSequence[v])
    BY <1>2, <1>4, <1>5 DEF WorkInv
  <2> QED
    BY <1>1, <2>1 DEF Unpublished, Writing
<1>6. ASSUME NEW n \in Nat, n <= workSequence', Unpublished(n)'
      PROVE  \E v \in Worker : wpc'[v] = "wait" /\ nextSequence'[v] = n
  BY <1>1, <1>2, <1>3, <1>4, <1>6 DEF WorkInv
<1>7. WorkInv'
  BY <1>1, <1>2, <1>4, <1>5, <1>6 DEF WorkInv
<1>8. SlotInv'
  BY <1>1, <1>2, <1>4 DEF SlotInv
<1> QED
  BY <1>3, <1>7, <1>8

LEMMA RingNext == RingInv /\ [Next]_vars => RingInv'
<1> SUFFICES ASSUME RingInv, [Next]_vars PROVE RingInv'
  OBVIOUS
<1>1. IInv'
  BY InvNext DEF RingInv
<1>2. ASSUME NEW p \in Producer, OnData(p) \/ ProducerStep(p)
      PROVE  ClaimInv' /\ WorkInv' /\ SlotInv'
  BY <1>2, OnDataRing, NextSequenceRing, WriteRing, PublishRing DEF ProducerStep
<1>3. ASSUME NEW w \in Running, WorkerStep(w)
      PROVE  ClaimInv' /\ WorkInv' /\ SlotInv'
  <2>1. w \in Worker
    BY WorkerPoolAssumption
  <2> QED
    BY <1>3, <2>1, ReadWorkRing, ClaimWorkRing, HandleRing, HandledRing
       DEF WorkerStep
<1>4. ASSUME UNCHANGED vars PROVE ClaimInv' /\ WorkInv' /\ SlotInv'
  <2>1. UNCHANGED <<cursor, slots, availableBuffer, ppc, pseq, count>>
    BY <1>4 DEF vars
  <2>2. UNCHANGED <<workSequence, wpc, nextSequence>>
    BY <1>4 DEF vars
  <2>3. ClaimInv'
    BY <2>1, WorkerKeepsClaims DEF producerVars
  <2>4. WorkInv'
    BY <2>1, <2>2 DEF RingInv, WorkInv, Working, Unpublished, Writing
  <2>5. SlotInv'
    BY <2>1, <2>2 DEF RingInv, SlotInv
  <2> QED
    BY <2>3, <2>4, <2>5
<1> QED
  BY <1>1, <1>2, <1>3, <1>4 DEF Next, RingInv

LEMMA RingInvariant == Spec => []RingInv
<1>1. Init => RingInv
  BY InvInit, RingInit DEF RingInv
<1> QED
  BY <1>1, RingNext, PTL DEF Spec

(* The sequences nobody has taken, whatever the cursor.                    *)
LEMMA UntakenIs ==
  ASSUME RingInv
  PROVE  \A n : n \in Untaken <=>
            /\ n \in Nat
            /\ IsAvailable(n)
            /\ \/ n > workSequence
               \/ \E w \in Worker : wpc[w] = "wait" /\ nextSequence[w] = n
<1>1. cursor \in Int /\ \A n \in Nat : IsAvailable(n) => n <= cursor
  BY RingTypes DEF RingInv, ClaimInv
<1>2. \A n : n \in 0 .. cursor <=> n \in Nat /\ n <= cursor
  BY <1>1
<1> QED
  BY <1>1, <1>2 DEF Untaken

(* A step that leaves the three views alone is a stutter.                  *)
LEMMA SameViews ==
  ASSUME Pending' = Pending, Busy' = Busy, Published' = Published
  PROVE  UNCHANGED Abstract!dispatchVars
  BY DEF Abstract!dispatchVars

LEMMA OnDataStutters ==
  ASSUME RingInv, NEW p \in Producer, OnData(p)
  PROVE  UNCHANGED Abstract!dispatchVars
<1>1. /\ ppc' = [ppc EXCEPT ![p] = "next"] /\ ppc[p] = "idle"
      /\ count' = [count EXCEPT ![p] = count[p] + 1]
      /\ ppc \in [Producer -> {"idle", "next", "write", "publish"}]
      /\ count \in [Producer -> 0 .. MaxEvents]
      /\ UNCHANGED <<cursor, slots, availableBuffer, pseq>>
      /\ UNCHANGED <<workSequence, sequence, wpc, nextSequence>>
  BY DEF RingInv, IInv, TypeOK, OnData, workerVars
<1>2. Pending' = Pending
  BY <1>1 DEF Pending, Untaken, IsAvailable
<1>3. Busy' = Busy
  BY <1>1 DEF Busy
<1>4. \A q \in Producer :
         count'[q] - (IF ppc'[q] = "idle" THEN 0 ELSE 1)
            = count[q] - (IF ppc[q] = "idle" THEN 0 ELSE 1)
  BY <1>1
<1>5. Published' = Published
  BY <1>4 DEF Published, Event
<1> QED
  BY <1>2, <1>3, <1>5, SameViews

LEMMA NextSequenceStutters ==
  ASSUME RingInv, NEW p \in Producer, NextSequence(p)
  PROVE  UNCHANGED Abstract!dispatchVars
<1>1. /\ ppc' = [ppc EXCEPT ![p] = "write"] /\ ppc[p] = "next"
      /\ ppc \in [Producer -> {"idle", "next", "write", "publish"}]
      /\ UNCHANGED <<slots, availableBuffer, count>>
      /\ UNCHANGED <<workSequence, sequence, wpc, nextSequence>>
  BY DEF RingInv, IInv, TypeOK, NextSequence, workerVars
<1>2. /\ cursor \in Int /\ cursor' = cursor + 1
      /\ \A n \in Nat : IsAvailable(n) => n <= cursor
  BY RingTypes DEF RingInv, ClaimInv, NextSequence
<1>3. \A n \in Nat : IsAvailable(n)' <=> IsAvailable(n)
  BY <1>1 DEF IsAvailable
<1>4. \A n : n \in 0 .. cursor' /\ IsAvailable(n)' <=>
             n \in 0 .. cursor /\ IsAvailable(n)
  BY <1>2, <1>3
<1>5. Untaken' = Untaken
  BY <1>1, <1>4 DEF Untaken
<1>6. Pending' = Pending
  BY <1>1, <1>5 DEF Pending
<1>7. Busy' = Busy
  BY <1>1 DEF Busy
<1>8. Published' = Published
  BY <1>1 DEF Published, Event
<1> QED
  BY <1>6, <1>7, <1>8, SameViews

(* What is written over is no longer pending and in nobody's hands.        *)
LEMMA WriteStutters ==
  ASSUME RingInv, NEW p \in Producer, Write(p)
  PROVE  UNCHANGED Abstract!dispatchVars
<1> DEFINE m == pseq[p]
<1>1. /\ ppc' = [ppc EXCEPT ![p] = "publish"] /\ ppc[p] = "write"
      /\ slots' = [slots EXCEPT ![m % BufferSize] = <<p, count[p]>>]
      /\ ppc \in [Producer -> {"idle", "next", "write", "publish"}]
      /\ slots \in [Index -> Event \cup {NoEvent}]
      /\ UNCHANGED <<cursor, availableBuffer, pseq, count>>
      /\ UNCHANGED <<workSequence, sequence, wpc, nextSequence>>
  BY DEF RingInv, IInv, TypeOK, Write, workerVars
<1>2. IInv /\ ClaimInv /\ WorkInv
  BY DEF RingInv
<1>3. Writing(p) /\ m \in Nat /\ cursor \in Int /\ workSequence \in Int
  BY <1>1, <1>2, RingTypes DEF Writing
<1>4. \A n \in Nat : n % BufferSize # m % BufferSize =>
         slots'[n % BufferSize] = slots[n % BufferSize]
  BY <1>1, SlotOf
<1>5. ~ IsAvailable(m) /\ m <= cursor
  BY <1>2, <1>3 DEF ClaimInv
<1>6. ASSUME NEW n \in Untaken PROVE n % BufferSize # m % BufferSize
  <2>1. /\ n \in Nat /\ IsAvailable(n)
        /\ \/ n > workSequence
           \/ \E w \in Worker : wpc[w] = "wait" /\ nextSequence[w] = n
    BY UntakenIs
  <2>2. n <= cursor /\ n # m
    BY <1>2, <1>5, <2>1 DEF ClaimInv
  <2>3. ASSUME n % BufferSize = m % BufferSize PROVE FALSE
    <3>1. n <= m
      BY <1>2, <1>3, <2>1, <2>2, <2>3, SlotIsFree, Zenon
    <3>2. n < m => /\ n <= workSequence
                   /\ \A w \in Worker : Working(w) => nextSequence[w] # n
      BY <1>2, <1>3, <2>1, <2>3, SlotIsFree, Zenon
    <3> HIDE DEF m
    <3>3. n < m
      BY <1>3, <2>1, <2>2, <3>1
    <3> QED
      BY <1>3, <2>1, <3>2, <3>3 DEF Working
  <2> QED
    BY <2>3
<1>7. ASSUME NEW w \in Worker, wpc[w] = "handle"
      PROVE  nextSequence[w] % BufferSize # m % BufferSize
  <2> DEFINE n == nextSequence[w]
  <2>1. n \in Nat /\ ~ Unpublished(n)
    BY <1>2, <1>7, RingTypes DEF WorkInv
  <2>2. n # m /\ n <= cursor
    BY <1>3, <2>1 DEF Unpublished
  <2>3. ASSUME n % BufferSize = m % BufferSize PROVE FALSE
    <3>1. n <= m
      BY <1>2, <1>3, <2>1, <2>2, <2>3, SlotIsFree, Zenon
    <3>2. n < m => \A v \in Worker : Working(v) => nextSequence[v] # n
      BY <1>2, <1>3, <2>1, <2>3, SlotIsFree, Zenon
    <3>3. ~ (n < m)
      BY <1>7, <3>2 DEF Working
    <3> HIDE DEF m, n
    <3> QED
      BY <1>3, <2>1, <2>2, <3>1, <3>3
  <2> QED
    BY <2>3
<1>8. Pending' = Pending
  <2>1. Untaken' = Untaken
    BY <1>1 DEF Untaken, IsAvailable
  <2>2. \A n \in Untaken : slots'[n % BufferSize] = slots[n % BufferSize]
    BY <1>4, <1>6, UntakenIs
  <2> QED
    BY <2>1, <2>2 DEF Pending
<1>9. Busy' = Busy
  <2>1. \A w \in Worker : wpc[w] = "handle" =>
           slots'[nextSequence[w] % BufferSize] = slots[nextSequence[w] % BufferSize]
    BY <1>2, <1>4, <1>7, RingTypes
  <2> QED
    BY <1>1, <2>1 DEF Busy
<1>10. Published' = Published
  BY <1>1 DEF Published, Event
<1> QED
  BY <1>8, <1>9, <1>10, SameViews

(* onData returns: its event is pending, and was not published before.     *)
LEMMA PublishPublishes ==
  ASSUME RingInv, NEW p \in Producer, PublishSequence(p)
  PROVE  Abstract!DispatchNext
<1> DEFINE m == pseq[p]
           e == <<p, count[p]>>
<1>1. /\ ppc' = [ppc EXCEPT ![p] = "idle"] /\ ppc[p] = "publish"
      /\ ppc \in [Producer -> {"idle", "next", "write", "publish"}]
      /\ count \in [Producer -> 0 .. MaxEvents]
      /\ UNCHANGED <<cursor, slots, pseq, count>>
      /\ UNCHANGED <<workSequence, sequence, wpc, nextSequence>>
  BY DEF RingInv, IInv, TypeOK, PublishSequence, workerVars
<1>2. IInv /\ ClaimInv /\ WorkInv /\ SlotInv
  BY DEF RingInv
<1>3. /\ Writing(p) /\ m \in Nat /\ m <= cursor /\ cursor \in Int
      /\ workSequence \in Int
  BY <1>1, <1>2, RingTypes DEF Writing, ClaimInv
<1>4. slots[m % BufferSize] = e
  BY <1>1, <1>2 DEF SlotInv
<1>5. /\ count[p] \in 1 .. MaxEvents /\ e \in Event
      /\ e[1] = p /\ e[2] = count[p]
  BY <1>1, <1>2 DEF IInv, TypeOK, ProducerInv, Event
<1>6. m > workSequence \/ \E w \in Worker : wpc[w] = "wait" /\ nextSequence[w] = m
  <2>1. Unpublished(m)
    BY <1>3 DEF Unpublished
  <2>2. m <= workSequence => \E w \in Worker : wpc[w] = "wait" /\ nextSequence[w] = m
    BY <1>2, <1>3, <2>1 DEF WorkInv
  <2> QED
    BY <1>3, <2>2
<1>7. ASSUME NEW n \in Untaken PROVE n \in Nat /\ n # m /\ IsAvailable(n)'
  <2>1. /\ n \in Nat /\ IsAvailable(n) /\ n <= cursor
        /\ \/ n > workSequence
           \/ \E w \in Worker : wpc[w] = "wait" /\ nextSequence[w] = n
    BY <1>2, UntakenIs DEF ClaimInv
  <2>2. n # m
    BY <1>2, <1>3, <2>1 DEF ClaimInv
  <2>3. ASSUME ~ IsAvailable(n)' PROVE FALSE
    <3>1. n % BufferSize = m % BufferSize
      BY <2>1, <2>2, <2>3, PublishedAvailable
    <3>2. n <= m
      BY <1>2, <1>3, <2>1, <3>1, SlotIsFree, Zenon
    <3>3. n < m => /\ n <= workSequence
                   /\ \A w \in Worker : Working(w) => nextSequence[w] # n
      BY <1>2, <1>3, <2>1, <3>1, SlotIsFree, Zenon
    <3> HIDE DEF m
    <3>4. n < m
      BY <1>3, <2>1, <2>2, <3>2
    <3> QED
      BY <1>3, <2>1, <3>3, <3>4 DEF Working
  <2> QED
    BY <2>1, <2>2, <2>3
<1>8. \A n \in Nat : /\ n = m => IsAvailable(n)'
                     /\ n # m /\ IsAvailable(n)' => IsAvailable(n)
  BY PublishedAvailable
<1>9. Untaken' = Untaken \cup {m}
  <2>1. m \in Untaken'
    BY <1>1, <1>3, <1>6, <1>8 DEF Untaken
  <2>2. \A n \in Untaken : n \in Untaken'
    BY <1>1, <1>7 DEF Untaken
  <2>3. \A n \in Untaken' : n \in Untaken \/ n = m
    BY <1>1, <1>3, <1>8 DEF Untaken
  <2> HIDE DEF m
  <2> QED
    BY <2>1, <2>2, <2>3
<1>10. Pending' = Pending \cup {e}
  BY <1>1, <1>4, <1>9 DEF Pending
<1>11. Busy' = Busy
  BY <1>1 DEF Busy
<1>12. e \in Event \ Published
  BY <1>1, <1>5 DEF Published
<1>13. Published' = Published \cup {e}
  <2> DEFINE done(q) == count[q] - IF ppc[q] = "idle" THEN 0 ELSE 1
  <2>1. \A q \in Producer :
           count'[q] - (IF ppc'[q] = "idle" THEN 0 ELSE 1)
              = IF q = p THEN count[p] ELSE done(q)
    BY <1>1
  <2>2. done(p) = count[p] - 1
    BY <1>1
  <2>3. ASSUME NEW f \in Event
        PROVE  f \in Published' <=> f \in Published \/ f = e
    <3>1. f = <<f[1], f[2]>> /\ f[1] \in Producer /\ f[2] \in 1 .. MaxEvents
      BY DEF Event
    <3>2. f \in Published' <=> f[2] <= IF f[1] = p THEN count[p] ELSE done(f[1])
      BY <2>1, <3>1 DEF Published
    <3>3. f \in Published <=> f[2] <= done(f[1])
      BY DEF Published
    <3>4. CASE f[1] = p
      <4>1. f = e <=> f[2] = count[p]
        BY <3>1, <3>4
      <4> HIDE DEF e, done
      <4> QED
        BY <1>5, <2>2, <3>1, <3>2, <3>3, <3>4, <4>1
    <3>5. CASE f[1] # p
      <4>1. f # e
        BY <1>5, <3>5
      <4> QED
        BY <3>2, <3>3, <3>5, <4>1
    <3> QED
      BY <3>4, <3>5
  <2>4. Published' \subseteq Event /\ Published \subseteq Event
    BY DEF Published
  <2> HIDE DEF e
  <2> QED
    BY <1>5, <2>3, <2>4
<1>14. Abstract!Publish(e)
  BY <1>10, <1>11 DEF Abstract!Publish
<1> QED
  BY <1>12, <1>13, <1>14 DEF Abstract!DispatchNext

LEMMA ReadWorkStutters ==
  ASSUME RingInv, NEW w \in Worker, ReadWork(w)
  PROVE  UNCHANGED Abstract!dispatchVars
<1>1. /\ wpc[w] = "read" /\ wpc' = [wpc EXCEPT ![w] = "claim"]
      /\ nextSequence' = [nextSequence EXCEPT ![w] = workSequence + 1]
      /\ wpc \in [Worker -> {"read", "claim", "wait", "handle"}]
      /\ nextSequence \in [Worker -> Sequences]
      /\ workSequence' = workSequence
      /\ UNCHANGED <<cursor, slots, availableBuffer, ppc, pseq, count>>
  BY DEF RingInv, IInv, TypeOK, ReadWork, producerVars
<1>2. \A v \in Worker : /\ wpc[v] = "wait" <=> wpc'[v] = "wait"
                        /\ wpc[v] = "handle" <=> wpc'[v] = "handle"
                        /\ Working(v) => nextSequence'[v] = nextSequence[v]
  BY <1>1 DEF Working
<1>3. \A n : (\E v \in Worker : wpc'[v] = "wait" /\ nextSequence'[v] = n)
                <=> \E v \in Worker : wpc[v] = "wait" /\ nextSequence[v] = n
  BY <1>2 DEF Working
<1>4. \A n : IsAvailable(n)' <=> IsAvailable(n)
  BY <1>1 DEF IsAvailable
<1>5. Untaken' = Untaken
  BY <1>1, <1>3, <1>4 DEF Untaken
<1>6. Pending' = Pending
  BY <1>1, <1>5 DEF Pending
<1>7. Busy' = Busy
  BY <1>1, <1>2 DEF Busy, Working
<1>8. Published' = Published
  BY <1>1 DEF Published
<1> QED
  BY <1>6, <1>7, <1>8, SameViews

(* A claim passes a sequence from those no worker has claimed to one that  *)
(* its worker waits for.                                                   *)
LEMMA ClaimWorkStutters ==
  ASSUME RingInv, NEW w \in Worker, ClaimWork(w)
  PROVE  UNCHANGED Abstract!dispatchVars
<1>1. /\ wpc[w] = "claim"
      /\ \/ /\ nextSequence[w] = workSequence + 1
            /\ workSequence' = workSequence + 1
            /\ wpc' = [wpc EXCEPT ![w] = "wait"]
         \/ /\ workSequence' = workSequence
            /\ wpc' = [wpc EXCEPT ![w] = "read"]
      /\ wpc \in [Worker -> {"read", "claim", "wait", "handle"}]
      /\ nextSequence' = nextSequence
      /\ UNCHANGED <<cursor, slots, availableBuffer, ppc, pseq, count>>
  <2>1. workSequence \in Int /\ nextSequence[w] \in Int
    BY RingTypes DEF RingInv
  <2> QED
    BY <2>1 DEF RingInv, IInv, TypeOK, ClaimWork, producerVars
<1>2. workSequence \in Int
  BY RingTypes DEF RingInv
<1>3. \A v \in Worker : wpc[v] = "handle" <=> wpc'[v] = "handle"
  BY <1>1
<1>4. ASSUME NEW n \in Nat
      PROVE  (n > workSequence'
                \/ \E v \in Worker : wpc'[v] = "wait" /\ nextSequence'[v] = n)
             <=> (n > workSequence
                    \/ \E v \in Worker : wpc[v] = "wait" /\ nextSequence[v] = n)
  <2>1. CASE workSequence' = workSequence /\ wpc' = [wpc EXCEPT ![w] = "read"]
    <3>1. \A v \in Worker : wpc[v] = "wait" <=> wpc'[v] = "wait"
      BY <1>1, <2>1
    <3> QED
      BY <1>1, <2>1, <3>1
  <2>2. CASE /\ nextSequence[w] = workSequence + 1
             /\ workSequence' = workSequence + 1
             /\ wpc' = [wpc EXCEPT ![w] = "wait"]
    <3>1. \A v \in Worker : wpc'[v] = "wait" <=> wpc[v] = "wait" \/ v = w
      BY <1>1, <2>2
    <3>2. (\E v \in Worker : wpc'[v] = "wait" /\ nextSequence'[v] = n)
             <=> \/ n = workSequence + 1
                 \/ \E v \in Worker : wpc[v] = "wait" /\ nextSequence[v] = n
      BY <1>1, <2>2, <3>1
    <3> QED
      BY <1>2, <2>2, <3>2
  <2> QED
    BY <1>1, <2>1, <2>2
<1>5. \A n : IsAvailable(n)' <=> IsAvailable(n)
  BY <1>1 DEF IsAvailable
<1>6. \A n \in 0 .. cursor : n \in Nat
  BY RingTypes DEF RingInv
<1>7. Untaken' = Untaken
  BY <1>1, <1>4, <1>5, <1>6 DEF Untaken
<1>8. Pending' = Pending
  BY <1>1, <1>7 DEF Pending
<1>9. Busy' = Busy
  BY <1>1, <1>3 DEF Busy
<1>10. Published' = Published
  BY <1>1 DEF Published
<1> QED
  BY <1>8, <1>9, <1>10, SameViews

(* onEvent is called with a pending event, and no slot that is still to be *)
(* taken holds the same.                                                   *)
LEMMA HandleTakes ==
  ASSUME RingInv, NEW w \in Worker, Handle(w)
  PROVE  Abstract!DispatchNext
<1> DEFINE m == nextSequence[w]
           e == slots[m % BufferSize]
<1>1. /\ wpc[w] = "wait" /\ wpc' = [wpc EXCEPT ![w] = "handle"]
      /\ wpc \in [Worker -> {"read", "claim", "wait", "handle"}]
      /\ slots \in [Index -> Event \cup {NoEvent}]
      /\ m <= cursor /\ IsAvailable(m)
      /\ nextSequence' = nextSequence /\ workSequence' = workSequence
      /\ UNCHANGED <<cursor, slots, availableBuffer, ppc, pseq, count>>
  BY DEF RingInv, IInv, TypeOK, Handle, producerVars
<1>2. IInv /\ ClaimInv /\ WorkInv /\ SlotInv
  BY DEF RingInv
<1>3. /\ m \in Nat /\ workSequence \in Int /\ m <= workSequence
      /\ m % BufferSize \in Index
  BY <1>1, <1>2, RingTypes, SlotOf DEF WorkInv, Working
<1>4. e # NoEvent /\ e \in Event
  BY <1>1, <1>3, HandleRing
<1>5. m \in Untaken
  BY <1>1, <1>3, UntakenIs
<1>6. \A v \in Worker : wpc[v] = "wait" /\ nextSequence[v] = m => v = w
  BY <1>1, <1>2 DEF WorkInv, Working
<1>7. \A v \in Worker : wpc'[v] = "wait" <=> wpc[v] = "wait" /\ v # w
  BY <1>1
<1>8. \A n : IsAvailable(n)' <=> IsAvailable(n)
  BY <1>1 DEF IsAvailable
<1>9. Untaken' = Untaken \ {m}
  <2>1. ~ (m > workSequence)
    BY <1>3
  <2> HIDE DEF m
  <2>2. nextSequence[w] = m
    BY DEF m
  <2>3. \A n : (\E v \in Worker : wpc'[v] = "wait" /\ nextSequence'[v] = n)
                  <=> n # m /\ \E v \in Worker : wpc[v] = "wait" /\ nextSequence[v] = n
    BY <1>1, <1>6, <1>7, <2>2
  <2> QED
    BY <1>1, <1>8, <2>1, <2>3 DEF Untaken
<1>10. \A n \in Untaken : slots[n % BufferSize] = e => n = m
  <2>1. ASSUME NEW n \in Untaken, slots[n % BufferSize] = e PROVE n = m
    <3>1. n \in Nat /\ IsAvailable(n) /\ n % BufferSize \in Index
      BY UntakenIs, SlotOf
    <3>2. n % BufferSize = m % BufferSize
      BY <1>2, <1>3, <1>4, <2>1, <3>1 DEF SlotInv
    <3>3. n \div BufferSize = m \div BufferSize
      BY <1>1, <3>1, <3>2 DEF IsAvailable
    <3>4. ~ (n < m) /\ ~ (m < n)
      BY <1>3, <3>1, <3>2, <3>3, SameSlot, Zenon
    <3> HIDE DEF m
    <3> QED
      BY <1>3, <3>1, <3>4
  <2> QED
    BY <2>1
<1>11. Pending' = Pending \ {e} /\ e \in Pending
  BY <1>1, <1>5, <1>9, <1>10 DEF Pending
<1>12. Busy[w] = NoEvent /\ Busy' = [Busy EXCEPT ![w] = e]
  BY <1>1 DEF Busy
<1>13. Published' = Published
  BY <1>1 DEF Published
<1>14. Abstract!Take(w, e)
  BY <1>11, <1>12 DEF Abstract!Take
<1> QED
  BY <1>4, <1>13, <1>14 DEF Abstract!DispatchNext

LEMMA HandledFinishes ==
  ASSUME RingInv, NEW w \in Worker, Handled(w)
  PROVE  Abstract!DispatchNext
<1>1. /\ wpc[w] = "handle" /\ wpc' = [wpc EXCEPT ![w] = "read"]
      /\ wpc \in [Worker -> {"read", "claim", "wait", "handle"}]
      /\ nextSequence' = nextSequence /\ workSequence' = workSequence
      /\ UNCHANGED <<cursor, slots, availableBuffer, ppc, pseq, count>>
  BY DEF RingInv, IInv, TypeOK, Handled, producerVars
<1>2. Busy[w] # NoEvent
  BY <1>1 DEF RingInv, SlotInv, Busy
<1>3. Busy' = [Busy EXCEPT ![w] = NoEvent]
  BY <1>1 DEF Busy
<1>4. \A v \in Worker : wpc'[v] = "wait" <=> wpc[v] = "wait"
  BY <1>1
<1>5. Pending' = Pending
  BY <1>1, <1>4 DEF Pending, Untaken, IsAvailable
<1>6. Published' = Published
  BY <1>1 DEF Published
<1>7. Abstract!Finish(w)
  BY <1>2, <1>3, <1>5 DEF Abstract!Finish
<1> QED
  BY <1>6, <1>7 DEF Abstract!DispatchNext

(* Every event is handled at most once, by one worker, after it was        *)
(* published and with the data it was published with: the ring is an       *)
(* EventDispatch, for any number of producers, of workers, running or not, *)
(* and of slots.                                                           *)
THEOREM RingDispatches == Spec => ImplementsDispatch
<1>1. Init => Abstract!DispatchInit
  <2> SUFFICES ASSUME Init PROVE Abstract!DispatchInit
    OBVIOUS
  <2>1. cursor = -1 /\ \A n : n \notin 0 .. cursor
    BY DEF Init
  <2>2. Pending = {}
    BY <2>1 DEF Pending, Untaken
  <2>3. Busy = [w \in Worker |-> NoEvent]
    BY DEF Init, Busy
  <2>4. Published = {}
    BY DEF Init, Published, Event
  <2> QED
    BY <2>2, <2>3, <2>4 DEF Abstract!DispatchInit, Abstract!QueueInit
<1>2. RingInv /\ [Next]_vars => [Abstract!DispatchNext]_(Abstract!dispatchVars)
  <2> SUFFICES ASSUME RingInv, [Next]_vars
               PROVE  [Abstract!DispatchNext]_(Abstract!dispatchVars)
    OBVIOUS
  <2>1. ASSUME NEW p \in Producer, OnData(p) \/ ProducerStep(p)
        PROVE  [Abstract!DispatchNext]_(Abstract!dispatchVars)
    BY <2>1, OnDataStutters, NextSequenceStutters, WriteStutters,
       PublishPublishes DEF ProducerStep
  <2>2. ASSUME NEW w \in Running, WorkerStep(w)
        PROVE  [Abstract!DispatchNext]_(Abstract!dispatchVars)
    <3>1. w \in Worker
      BY WorkerPoolAssumption
    <3> QED
      BY <2>2, <3>1, ReadWorkStutters, ClaimWorkStutters, HandleTakes,
         HandledFinishes DEF WorkerStep
  <2>3. ASSUME UNCHANGED vars
        PROVE  UNCHANGED Abstract!dispatchVars
    <3>1. Pending' = Pending /\ Busy' = Busy /\ Published' = Published
      BY <2>3 DEF vars, Pending, Untaken, IsAvailable, Busy, Published
    <3> QED
      BY <3>1, SameViews
  <2> QED
    BY <2>1, <2>2, <2>3 DEF Next
<1> QED
  BY <1>1, <1>2, RingInvariant, PTL
     DEF Spec, ImplementsDispatch, Abstract!DispatchSpec
=============================================================================
