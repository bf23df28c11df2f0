-------------------------- MODULE ClientCallProofs --------------------------
(***************************************************************************)
(* Theorems about ClientCall, for any number of threads, workers, channels *)
(* and calls, and any faults.                                              *)
(***************************************************************************)
EXTENDS ClientCall, FiniteSetTheorems, SequenceTheorems, TLAPS

-----------------------------------------------------------------------------
(* The pool's operators keep its type.                                     *)
LEMMA LendFirstType ==
  ASSUME PoolTypeOK, NEW s \in Slot, LendFirst(s) PROVE PoolTypeOK'
<1>1. Tail(idle) \in Seq(Slot)
  BY HeadTailProperties DEF PoolTypeOK, LendFirst
<1> QED
  BY <1>1 DEF PoolTypeOK, LendFirst

LEMMA StartCreateType ==
  ASSUME PoolTypeOK, NEW s \in Slot, StartCreate(s) PROVE PoolTypeOK'
  BY DEF PoolTypeOK, StartCreate

LEMMA CreatedType ==
  ASSUME PoolTypeOK, NEW s \in Slot, NEW c \in {"none", "up"}, Created(s, c)
  PROVE  PoolTypeOK'
  BY DEF PoolTypeOK, Created

LEMMA RefusedType ==
  ASSUME PoolTypeOK, NEW s \in Slot, Refused(s) PROVE PoolTypeOK'
  BY DEF PoolTypeOK, Refused

LEMMA ReturnObjectType ==
  ASSUME PoolTypeOK, NEW s \in Slot, ReturnObject(s) PROVE PoolTypeOK'
<1>1. <<s>> \o idle \in Seq(Slot)
  BY ConcatProperties DEF PoolTypeOK
<1> QED
  BY <1>1 DEF PoolTypeOK, ReturnObject

LEMMA BreakType ==
  ASSUME PoolTypeOK, NEW s \in Slot, Break(s) PROVE PoolTypeOK'
  BY DEF PoolTypeOK, Break

-----------------------------------------------------------------------------
(* A call that has begun has an id, and between borrowObject and           *)
(* returnObject a channel: what the type of a request depends on.          *)
CallOK ==
    \A t \in Thread :
        /\ pc[t] # "idle" => req[t] \in RequestId
        /\ pc[t] \in {"connect", "register", "send", "await", "return"} =>
              chan[t] \in Slot

TInv == TypeOK /\ CallOK

LEMMA TypeInit == Init => TInv
<1> SUFFICES ASSUME Init PROVE TInv
  OBVIOUS
<1>1. PoolTypeOK
  BY DEF Init, PoolInit, PoolTypeOK
<1>2. QueueTypeOK
  BY DEF Init, QueueInit, QueueTypeOK
<1> QED
  BY <1>1, <1>2, ClientAssumption DEF Init, TInv, TypeOK, CallOK, Location

LEMMA TypeNext == TInv /\ [Next]_vars => TInv'
<1> SUFFICES ASSUME TInv, [Next]_vars PROVE TInv'
  OBVIOUS
<1> USE ClientAssumption
    DEF TInv, TypeOK, CallOK, QueueTypeOK, Location, RequestId, Goto,
        poolVars, callVars, mapVars, netVars, ringVars
<1>1. ASSUME NEW t \in Thread, Invoke(t) PROVE TInv'
  BY <1>1 DEF Invoke, PoolTypeOK, NextRequestId
<1>2. ASSUME NEW t \in Thread, PollIdle(t) PROVE TInv'
  <2>1. PoolTypeOK'
    BY <1>2, LendFirstType DEF PollIdle, LendFirst, PoolTypeOK
  <2>2. CASE idle = <<>>
    BY <1>2, <2>1, <2>2 DEF PollIdle, LendFirst
  <2>3. CASE idle # <<>>
    BY <1>2, <2>1, <2>3 DEF PollIdle
  <2> QED
    BY <2>2, <2>3
<1>3. ASSUME NEW t \in Thread, Create(t) PROVE TInv'
  <2>1. PoolTypeOK'
    BY <1>3, StartCreateType DEF Create, StartCreate, PoolTypeOK
  <2> QED
    BY <1>3, <2>1 DEF Create
<1>4. ASSUME NEW t \in Thread, Connect(t) PROVE TInv'
  <2>1. PoolTypeOK'
    BY <1>4, CreatedType DEF Connect, Created, PoolTypeOK
  <2> QED
    BY <1>4, <2>1 DEF Connect
<1>5. ASSUME NEW t \in Thread, ConnectRefused(t) PROVE TInv'
  <2>1. PoolTypeOK'
    BY <1>5, RefusedType DEF ConnectRefused, Refused, PoolTypeOK
  <2> QED
    BY <1>5, <2>1 DEF ConnectRefused
<1>6. ASSUME NEW t \in Thread, ConnectInterrupted(t) PROVE TInv'
  <2>1. PoolTypeOK'
    BY <1>6, CreatedType DEF ConnectInterrupted, Created, PoolTypeOK
  <2> QED
    BY <1>6, <2>1 DEF ConnectInterrupted
<1>7. ASSUME NEW t \in Thread, TakeIdle(t) PROVE TInv'
  <2>1. PoolTypeOK'
    BY <1>7, LendFirstType DEF TakeIdle, LendFirst, PoolTypeOK
  <2> QED
    BY <1>7, <2>1 DEF TakeIdle
<1>8. ASSUME NEW t \in Thread, TakeInterrupted(t) PROVE TInv'
  BY <1>8 DEF TakeInterrupted, PoolTypeOK
<1>9. ASSUME NEW t \in Thread, Register(t) PROVE TInv'
  BY <1>9 DEF Register, PoolTypeOK
<1>10. ASSUME NEW t \in Thread, Send(t) PROVE TInv'
  BY <1>10 DEF Send, PoolTypeOK, Message
<1>11. ASSUME NEW t \in Thread, Receive(t) PROVE TInv'
  BY <1>11 DEF Receive, PoolTypeOK
<1>12. ASSUME NEW t \in Thread, GiveUp(t) PROVE TInv'
  BY <1>12 DEF GiveUp, PoolTypeOK
<1>13. ASSUME NEW t \in Thread, GiveBack(t) PROVE TInv'
  <2>1. PoolTypeOK'
    BY <1>13, ReturnObjectType DEF GiveBack, ReturnObject, PoolTypeOK
  <2> QED
    BY <1>13, <2>1 DEF GiveBack
<1>14. ASSUME NEW t \in Thread, Remove(t) PROVE TInv'
  BY <1>14 DEF Remove, PoolTypeOK
<1>15. ASSUME NEW m \in Message, Serve(m) PROVE TInv'
  BY <1>15 DEF Serve, PoolTypeOK
<1>16. ASSUME NEW m \in Message, ChannelRead0(m) PROVE TInv'
  BY <1>16 DEF ChannelRead0, Publish, PoolTypeOK
<1>17. ASSUME NEW s \in Slot, Disconnect(s) PROVE TInv'
  <2>1. PoolTypeOK'
    BY <1>17, BreakType DEF Disconnect
  <2> QED
    BY <1>17, <2>1 DEF Disconnect
<1>18. ASSUME NEW w \in Worker, NEW m \in Message, OnEvent(w, m) PROVE TInv'
  BY <1>18 DEF OnEvent, Take, PoolTypeOK
<1>19. ASSUME NEW w \in Worker, LookUp(w) PROVE TInv'
  BY <1>19 DEF LookUp, PoolTypeOK
<1>20. ASSUME NEW w \in Worker, Drop(w) PROVE TInv'
  BY <1>20 DEF Drop, Finish, PoolTypeOK
<1>21. ASSUME NEW w \in Worker, Put(w) PROVE TInv'
  BY <1>21 DEF Put, Finish, Message, PoolTypeOK
<1>22. ASSUME UNCHANGED vars PROVE TInv'
  BY <1>22 DEF vars, PoolTypeOK
<1> QED
  BY <1>1, <1>2, <1>3, <1>4, <1>5, <1>6, <1>7, <1>8, <1>9, <1>10, <1>11, <1>12, <1>13, <1>14, <1>15, <1>16, <1>17, <1>18, <1>19, <1>20, <1>21, <1>22
     DEF Next, CallStep, WorkerStep, Environment, Quiescent

(* Every variable keeps its type.                                          *)
THEOREM ClientTypeCorrect == Spec => []TypeOK
<1>1. Spec => []TInv
  BY TypeInit, TypeNext, PTL DEF Spec
<1> QED
  BY <1>1, PTL DEF TInv

-----------------------------------------------------------------------------
(* The messages of a call, each with the place it is in: on the wire, in   *)
(* the ring, in a worker's hands, in the queue of a call.                  *)
Places ==
    {<<"request", 0, m>> : m \in requests}
    \cup {<<"response", 0, m>> : m \in responses}
    \cup {<<"ring", 0, m>> : m \in pending}
    \cup {<<"worker", w, busy[w]>> : w \in {v \in Worker : busy[v] # NoEvent}}
    \cup UNION {{<<"queue", i, m>> : m \in queue[i]} : i \in RequestId}

(* No call has two messages, or one message in two places.                 *)
AtMostOne(P) == \A x, y \in P : x[3].id = y[3].id => x = y

(* Ids are given out in increasing order, to one thread each.              *)
IdInv ==
    /\ \A t \in Thread : req[t] <= atomicLong
    /\ \A t, u \in Thread : t # u /\ req[t] # 0 => req[t] # req[u]

Unsent == {"borrow", "create", "connect", "take", "register", "send"}

(* A message belongs to the thread that has its id, which has sent it.     *)
MessageInv ==
    \A x \in Places :
        /\ x[3].id <= atomicLong
        /\ \A t \in Thread :
              req[t] = x[3].id => t = x[3].by /\ pc[t] \notin Unsent

(* A queue has the responses of its own call.                              *)
QueueInv == \A i \in RequestId : \A m \in queue[i] : m.id = i

FoundInv == \A w \in found : busy[w] # NoEvent

IInv ==
    /\ TInv
    /\ IdInv
    /\ AtMostOne(Places)
    /\ MessageInv
    /\ QueueInv
    /\ FoundInv
    /\ OwnResponse
    /\ NoOrphanEntry

LEMMA Move ==
  ASSUME NEW P, NEW Q, NEW x \in P, NEW y, Q \subseteq (P \ {x}) \cup {y},
         y[3].id = x[3].id, AtMostOne(P)
  PROVE  AtMostOne(Q)
  BY DEF AtMostOne

(* A step that gives out no id, puts no thread before its send and makes   *)
(* no new message keeps IdInv and MessageInv.                              *)
LEMMA Passive ==
  ASSUME IdInv, MessageInv, UNCHANGED <<req, atomicLong>>,
         \A t \in Thread : pc'[t] \in Unsent => pc[t] \in Unsent,
         \A x \in Places' : \E y \in Places : y[3] = x[3]
  PROVE  IdInv' /\ MessageInv'
<1>1. IdInv'
  BY DEF IdInv
<1>2. ASSUME NEW x \in Places'
      PROVE  /\ x[3].id <= atomicLong'
             /\ \A t \in Thread :
                   req'[t] = x[3].id => t = x[3].by /\ pc'[t] \notin Unsent
  <2>1. PICK y \in Places : y[3] = x[3]
    OBVIOUS
  <2> QED
    BY <2>1 DEF MessageInv
<1> QED
  BY <1>1, <1>2 DEF MessageInv

Registered == {"send", "await", "return", "remove"}

(* The steps that touch no message, no id and no entry of responseMap.     *)
LEMMA Quiet ==
  ASSUME IInv, TInv',
         UNCHANGED <<req, answer, atomicLong, responseMap, queue, requests,
                     responses, pending, busy>>,
         \A w \in found' : busy[w] # NoEvent,
         \A t \in Thread : pc'[t] \in Unsent => pc[t] \in Unsent,
         \A t \in Thread : pc'[t] \in Registered <=> pc[t] \in Registered
  PROVE  IInv'
<1>1. Places' = Places
  BY DEF Places
<1>2. IdInv' /\ MessageInv'
  BY <1>1, Passive DEF IInv
<1>3. AtMostOne(Places)'
  BY <1>1 DEF IInv, AtMostOne
<1>4. QueueInv' /\ FoundInv' /\ OwnResponse'
  BY DEF IInv, QueueInv, FoundInv, OwnResponse
<1>5. NoOrphanEntry'
  BY DEF IInv, NoOrphanEntry, Registered
<1> QED
  BY <1>2, <1>3, <1>4, <1>5 DEF IInv

LEMMA InvInit == Init => IInv
<1> SUFFICES ASSUME Init PROVE IInv
  OBVIOUS
<1>1. Places = {}
  BY DEF Init, QueueInit, Places
<1>2. responseMap = {} /\ \A t \in Thread : pc[t] = "idle"
  BY DEF Init
<1>3. NoOrphanEntry
  BY <1>2 DEF NoOrphanEntry
<1> QED
  BY <1>1, <1>3, TypeInit
     DEF Init, IInv, IdInv, AtMostOne, MessageInv, QueueInv, FoundInv,
         OwnResponse

LEMMA InvNext == IInv /\ [Next]_vars => IInv'
<1> SUFFICES ASSUME IInv, [Next]_vars PROVE IInv'
  OBVIOUS
<1>0. TInv /\ TInv'
  BY TypeNext DEF IInv
<1>1. ASSUME NEW t \in Thread, Invoke(t) PROVE IInv'
  <2>1. Places' = Places
    BY <1>1 DEF Invoke, Places, mapVars, netVars, ringVars
  <2>2. AtMostOne(Places)'
    BY <2>1 DEF IInv, AtMostOne
  <2>3. \A u \in Thread : req[u] \in Nat /\ req[u] <= atomicLong
    BY <1>0, ClientAssumption DEF IInv, IdInv, TInv, TypeOK, RequestId
  <2>4. atomicLong \in Nat /\ atomicLong' = atomicLong + 1
    BY <1>0, <1>1, ClientAssumption
       DEF Invoke, NextRequestId, TInv, TypeOK, RequestId
  <2>5. req' = [req EXCEPT ![t] = atomicLong + 1]
    BY <1>1 DEF Invoke, NextRequestId
  <2>6. IdInv'
    BY <1>0, <2>3, <2>4, <2>5 DEF IInv, IdInv, TInv, TypeOK
  <2>7. \A x \in Places : x[3].id \in Nat
    BY <1>0, ClientAssumption
       DEF Places, TInv, TypeOK, QueueTypeOK, Message, RequestId
  <2>8. MessageInv'
    BY <1>0, <1>1, <2>1, <2>4, <2>5, <2>7
       DEF Invoke, Goto, IInv, MessageInv, TInv, TypeOK
  <2>9. QueueInv' /\ FoundInv' /\ OwnResponse'
    BY <1>0, <1>1, <2>5
       DEF Invoke, mapVars, ringVars, IInv, QueueInv, FoundInv, OwnResponse,
           TInv, TypeOK
  <2>10. NoOrphanEntry'
    BY <1>0, <1>1, <2>5
       DEF Invoke, Goto, mapVars, IInv, NoOrphanEntry, TInv, TypeOK
  <2> QED
    BY <1>0, <2>2, <2>6, <2>8, <2>9, <2>10 DEF IInv
<1>2. ASSUME NEW t \in Thread, PollIdle(t) PROVE IInv'
  BY <1>0, <1>2, Quiet
     DEF PollIdle, Goto, Unsent, Registered, IInv, FoundInv, TInv, TypeOK,
         Location, mapVars, netVars, ringVars
<1>3. ASSUME NEW t \in Thread, Create(t) PROVE IInv'
  BY <1>0, <1>3, Quiet
     DEF Create, Goto, Unsent, Registered, IInv, FoundInv, TInv, TypeOK,
         Location, mapVars, netVars, ringVars
<1>4. ASSUME NEW t \in Thread, Connect(t) PROVE IInv'
  BY <1>0, <1>4, Quiet
     DEF Connect, Goto, Unsent, Registered, IInv, FoundInv, TInv, TypeOK,
         Location, mapVars, netVars, ringVars
<1>5. ASSUME NEW t \in Thread, ConnectRefused(t) PROVE IInv'
  BY <1>0, <1>5, Quiet
     DEF ConnectRefused, Goto, Unsent, Registered, IInv, FoundInv, TInv, TypeOK,
         Location, mapVars, netVars, ringVars
<1>6. ASSUME NEW t \in Thread, ConnectInterrupted(t) PROVE IInv'
  BY <1>0, <1>6, Quiet
     DEF ConnectInterrupted, Goto, Unsent, Registered, IInv, FoundInv, TInv, TypeOK,
         Location, mapVars, netVars, ringVars
<1>7. ASSUME NEW t \in Thread, TakeIdle(t) PROVE IInv'
  BY <1>0, <1>7, Quiet
     DEF TakeIdle, Goto, Unsent, Registered, IInv, FoundInv, TInv, TypeOK,
         Location, mapVars, netVars, ringVars
<1>8. ASSUME NEW t \in Thread, TakeInterrupted(t) PROVE IInv'
  BY <1>0, <1>8, Quiet
     DEF TakeInterrupted, Goto, Unsent, Registered, IInv, FoundInv, TInv, TypeOK,
         Location, mapVars, netVars, ringVars
<1>9. ASSUME NEW t \in Thread, GiveUp(t) PROVE IInv'
  BY <1>0, <1>9, Quiet
     DEF GiveUp, Goto, Unsent, Registered, IInv, FoundInv, TInv, TypeOK,
         Location, mapVars, netVars, ringVars
<1>10. ASSUME NEW t \in Thread, GiveBack(t) PROVE IInv'
  BY <1>0, <1>10, Quiet
     DEF GiveBack, Goto, Unsent, Registered, IInv, FoundInv, TInv, TypeOK,
         Location, mapVars, netVars, ringVars
<1>11. ASSUME NEW s \in Slot, Disconnect(s) PROVE IInv'
  BY <1>0, <1>11, Quiet
     DEF Disconnect, IInv, FoundInv, callVars, mapVars, netVars, ringVars
<1>12. ASSUME NEW w \in Worker, LookUp(w) PROVE IInv'
  BY <1>0, <1>12, Quiet
     DEF LookUp, IInv, FoundInv, callVars, mapVars, netVars
<1>13. ASSUME UNCHANGED vars PROVE IInv'
  BY <1>0, <1>13, Quiet DEF IInv, FoundInv, vars
<1>14. ASSUME NEW t \in Thread, Register(t) PROVE IInv'
  <2>1. Places' \subseteq Places
    BY <1>0, <1>14
       DEF Register, Places, netVars, ringVars, TInv, TypeOK
  <2>2. AtMostOne(Places)'
    BY <2>1 DEF IInv, AtMostOne
  <2>3. IdInv' /\ MessageInv'
    BY <1>0, <1>14, <2>1, Passive
       DEF Register, Goto, Unsent, IInv, TInv, TypeOK
  <2>4. QueueInv' /\ FoundInv' /\ OwnResponse'
    BY <1>0, <1>14
       DEF Register, ringVars, IInv, QueueInv, FoundInv, OwnResponse, TInv,
           TypeOK
  <2>5. NoOrphanEntry'
    BY <1>0, <1>14
       DEF Register, Goto, IInv, NoOrphanEntry, TInv, TypeOK
  <2> QED
    BY <1>0, <2>2, <2>3, <2>4, <2>5 DEF IInv
<1>15. ASSUME NEW t \in Thread, Send(t) PROVE IInv'
  <2> DEFINE m == [id |-> req[t], by |-> t, on |-> chan[t]]
             new == <<"request", 0, m>>
  <2>1. Places' \subseteq Places \cup {new}
    BY <1>15 DEF Send, Places, mapVars, ringVars
  <2>2. /\ pc[t] = "send" /\ pc' = [pc EXCEPT ![t] = "await"]
        /\ UNCHANGED <<req, answer, atomicLong, responseMap, queue, found,
                       busy>>
    BY <1>15 DEF Send, Goto, mapVars, ringVars
  <2>3. new[3].id = req[t] /\ new[3].by = t
    OBVIOUS
  <2>4. \A x \in Places : x[3].id # req[t]
    BY <2>2 DEF IInv, MessageInv, Unsent
  <2>5. AtMostOne(Places)'
    BY <2>1, <2>3, <2>4 DEF IInv, AtMostOne
  <2>6. IdInv'
    BY <2>2 DEF IInv, IdInv
  <2>7. req[t] # 0
    BY <1>0, <2>2 DEF TInv, CallOK, RequestId
  <2>8. ASSUME NEW x \in Places'
        PROVE  /\ x[3].id <= atomicLong'
               /\ \A u \in Thread :
                     req'[u] = x[3].id => u = x[3].by /\ pc'[u] \notin Unsent
    <3>1. CASE x = new
      BY <1>0, <2>2, <2>3, <2>7, <3>1
         DEF IInv, IdInv, Unsent, TInv, TypeOK
    <3>2. CASE x \in Places
      BY <1>0, <2>2, <3>2 DEF IInv, MessageInv, Unsent, TInv, TypeOK
    <3> QED
      BY <2>1, <3>1, <3>2
  <2>9. MessageInv'
    BY <2>8 DEF MessageInv
  <2>10. QueueInv' /\ FoundInv' /\ OwnResponse'
    BY <2>2 DEF IInv, QueueInv, FoundInv, OwnResponse
  <2>11. NoOrphanEntry'
    BY <1>0, <2>2 DEF IInv, NoOrphanEntry, TInv, TypeOK
  <2> QED
    BY <1>0, <2>5, <2>6, <2>9, <2>10, <2>11 DEF IInv
<1>16. ASSUME NEW t \in Thread, Receive(t) PROVE IInv'
  <2>1. Places' \subseteq Places
    BY <1>0, <1>16
       DEF Receive, Places, netVars, ringVars, TInv, TypeOK
  <2>2. AtMostOne(Places)'
    BY <2>1 DEF IInv, AtMostOne
  <2>3. IdInv' /\ MessageInv'
    BY <1>0, <1>16, <2>1, Passive
       DEF Receive, Goto, Unsent, IInv, TInv, TypeOK
  <2>4. QueueInv' /\ FoundInv'
    BY <1>0, <1>16
       DEF Receive, ringVars, IInv, QueueInv, FoundInv, TInv, TypeOK
  <2>5. PICK m \in queue[req[t]] : answer' = [answer EXCEPT ![t] = m]
    BY <1>16 DEF Receive
  <2>6. req[t] \in RequestId
    BY <1>0, <1>16 DEF Receive, TInv, CallOK
  <2>7. m.id = req[t]
    BY <2>6 DEF IInv, QueueInv
  <2>8. <<"queue", req[t], m>> \in Places
    BY <2>6 DEF Places
  <2>9. m.by = t
    BY <2>7, <2>8 DEF IInv, MessageInv
  <2>10. OwnResponse'
    BY <1>0, <1>16, <2>5, <2>7, <2>9
       DEF Receive, IInv, OwnResponse, TInv, TypeOK
  <2>11. NoOrphanEntry'
    BY <1>0, <1>16 DEF Receive, Goto, IInv, NoOrphanEntry, TInv, TypeOK
  <2> QED
    BY <1>0, <2>2, <2>3, <2>4, <2>10, <2>11 DEF IInv
<1>17. ASSUME NEW t \in Thread, Remove(t) PROVE IInv'
  <2>1. Places' = Places
    BY <1>17 DEF Remove, Places, netVars, ringVars
  <2>2. AtMostOne(Places)'
    BY <2>1 DEF IInv, AtMostOne
  <2>3. IdInv' /\ MessageInv'
    BY <1>0, <1>17, <2>1, Passive
       DEF Remove, Goto, Unsent, IInv, TInv, TypeOK
  <2>4. QueueInv' /\ FoundInv' /\ OwnResponse'
    BY <1>17 DEF Remove, ringVars, IInv, QueueInv, FoundInv, OwnResponse
  <2>5. \A u \in Thread : u # t => req[u] # req[t]
    BY <1>0, <1>17 DEF Remove, IInv, IdInv, TInv, CallOK, RequestId
  <2>6. NoOrphanEntry'
    BY <1>0, <1>17, <2>5
       DEF Remove, Goto, IInv, NoOrphanEntry, TInv, TypeOK
  <2> QED
    BY <1>0, <2>2, <2>3, <2>4, <2>6 DEF IInv
<1>18. ASSUME NEW m \in Message, Serve(m) PROVE IInv'
  <2> DEFINE x == <<"request", 0, m>>
             y == <<"response", 0, m>>
  <2>1. x \in Places /\ y[3] = x[3]
    BY <1>0, <1>18 DEF Serve, Places
  <2>2. Places' \subseteq (Places \ {x}) \cup {y}
    BY <1>0, <1>18
       DEF Serve, Places, mapVars, netVars, ringVars, TInv, TypeOK, QueueTypeOK
  <2>3. AtMostOne(Places)'
    BY <2>1, <2>2, Move DEF IInv
  <2>4. IdInv' /\ MessageInv'
    BY <1>18, <2>1, <2>2, Passive DEF Serve, callVars, IInv
  <2>5. QueueInv' /\ FoundInv' /\ OwnResponse' /\ NoOrphanEntry'
    BY <1>0, <1>18
       DEF Serve, callVars, mapVars, ringVars, IInv, QueueInv, FoundInv,
           OwnResponse, NoOrphanEntry, TInv, TypeOK, QueueTypeOK
  <2> QED
    BY <1>0, <2>3, <2>4, <2>5 DEF IInv
<1>19. ASSUME NEW m \in Message, ChannelRead0(m) PROVE IInv'
  <2> DEFINE x == <<"response", 0, m>>
             y == <<"ring", 0, m>>
  <2>1. x \in Places /\ y[3] = x[3]
    BY <1>0, <1>19 DEF ChannelRead0, Publish, Places
  <2>2. Places' \subseteq (Places \ {x}) \cup {y}
    BY <1>0, <1>19
       DEF ChannelRead0, Publish, Places, mapVars, netVars, ringVars, TInv, TypeOK, QueueTypeOK
  <2>3. AtMostOne(Places)'
    BY <2>1, <2>2, Move DEF IInv
  <2>4. IdInv' /\ MessageInv'
    BY <1>19, <2>1, <2>2, Passive DEF ChannelRead0, Publish, callVars, IInv
  <2>5. QueueInv' /\ FoundInv' /\ OwnResponse' /\ NoOrphanEntry'
    BY <1>0, <1>19
       DEF ChannelRead0, Publish, callVars, mapVars, ringVars, IInv, QueueInv, FoundInv,
           OwnResponse, NoOrphanEntry, TInv, TypeOK, QueueTypeOK
  <2> QED
    BY <1>0, <2>3, <2>4, <2>5 DEF IInv
<1>20. ASSUME NEW w \in Worker, NEW m \in Message, OnEvent(w, m) PROVE IInv'
  <2> DEFINE x == <<"ring", 0, m>>
             y == <<"worker", w, m>>
  <2>1. x \in Places /\ y[3] = x[3]
    BY <1>0, <1>20 DEF OnEvent, Take, Places
  <2>2. Places' \subseteq (Places \ {x}) \cup {y}
    BY <1>0, <1>20
       DEF OnEvent, Take, Places, mapVars, netVars, ringVars, TInv, TypeOK, QueueTypeOK
  <2>3. AtMostOne(Places)'
    BY <2>1, <2>2, Move DEF IInv
  <2>4. IdInv' /\ MessageInv'
    BY <1>20, <2>1, <2>2, Passive DEF OnEvent, Take, callVars, IInv
  <2>5. QueueInv' /\ FoundInv' /\ OwnResponse' /\ NoOrphanEntry'
    BY <1>0, <1>20
       DEF OnEvent, Take, callVars, mapVars, ringVars, IInv, QueueInv, FoundInv,
           OwnResponse, NoOrphanEntry, TInv, TypeOK, QueueTypeOK
  <2> QED
    BY <1>0, <2>3, <2>4, <2>5 DEF IInv
<1>21. ASSUME NEW w \in Worker, Drop(w) PROVE IInv'
  <2>1. Places' \subseteq Places
    BY <1>0, <1>21
       DEF Drop, Finish, Places, mapVars, netVars, TInv, TypeOK, QueueTypeOK
  <2>2. AtMostOne(Places)'
    BY <2>1 DEF IInv, AtMostOne
  <2>3. IdInv' /\ MessageInv'
    BY <1>21, <2>1, Passive DEF Drop, callVars, IInv
  <2>4. QueueInv' /\ FoundInv' /\ OwnResponse' /\ NoOrphanEntry'
    BY <1>0, <1>21
       DEF Drop, Finish, callVars, mapVars, IInv, QueueInv, FoundInv,
           OwnResponse, NoOrphanEntry, TInv, TypeOK, QueueTypeOK
  <2> QED
    BY <1>0, <2>2, <2>3, <2>4 DEF IInv
<1>22. ASSUME NEW w \in Worker, Put(w) PROVE IInv'
  <2> DEFINE x == <<"worker", w, busy[w]>>
             y == <<"queue", busy[w].id, busy[w]>>
  <2>1. x \in Places /\ y[3] = x[3]
    BY <1>0, <1>22 DEF Put, Finish, Places
  <2>2. Places' \subseteq (Places \ {x}) \cup {y}
    BY <1>0, <1>22
       DEF Put, Finish, Places, mapVars, netVars, ringVars, TInv, TypeOK, QueueTypeOK
  <2>3. AtMostOne(Places)'
    BY <2>1, <2>2, Move DEF IInv
  <2>4. IdInv' /\ MessageInv'
    BY <1>22, <2>1, <2>2, Passive DEF Put, Finish, callVars, IInv
  <2>5. QueueInv' /\ FoundInv' /\ OwnResponse' /\ NoOrphanEntry'
    BY <1>0, <1>22
       DEF Put, Finish, callVars, mapVars, ringVars, IInv, QueueInv, FoundInv,
           OwnResponse, NoOrphanEntry, TInv, TypeOK, QueueTypeOK
  <2> QED
    BY <1>0, <2>3, <2>4, <2>5 DEF IInv
<1> QED
  BY <1>1, <1>2, <1>3, <1>4, <1>5, <1>6, <1>7, <1>8, <1>9, <1>10, <1>11, <1>12, <1>13, <1>14, <1>15, <1>16, <1>17, <1>18, <1>19, <1>20, <1>21, <1>22
     DEF Next, CallStep, WorkerStep, Environment, Quiescent

LEMMA Invariant == Spec => []IInv
  BY InvInit, InvNext, PTL DEF Spec

-----------------------------------------------------------------------------
(* No call returns the response to another call.                           *)
THEOREM ResponsesAreOwn == Spec => []OwnResponse
<1>1. IInv => OwnResponse
  BY DEF IInv
<1> QED
  BY <1>1, Invariant, PTL

(* No worker ever waits in put.  A response in the queue and one in the    *)
(* worker's hands would be two messages of one call.                       *)
THEOREM PutsNeverBlock == Spec => []PutNeverBlocks
<1>1. ASSUME IInv, NEW w \in found PROVE queue[busy[w].id] = {}
  <2> DEFINE i == busy[w].id
  <2>1. busy[w] # NoEvent /\ w \in Worker /\ busy[w] \in Message
    BY <1>1 DEF IInv, FoundInv, TInv, TypeOK, QueueTypeOK
  <2>2. i \in RequestId /\ <<"worker", w, busy[w]>> \in Places
    BY <2>1 DEF Message, Places
  <2>3. ASSUME NEW m \in queue[i] PROVE FALSE
    <3>1. m.id = i /\ <<"queue", i, m>> \in Places
      BY <1>1, <2>2, <2>3 DEF IInv, QueueInv, Places
    <3>2. <<"queue", i, m>> = <<"worker", w, busy[w]>>
      BY <1>1, <2>2, <3>1 DEF IInv, AtMostOne
    <3> QED
      BY <3>2
  <2> QED
    BY <2>3
<1>2. IInv => PutNeverBlocks
  BY <1>1 DEF PutNeverBlocks
<1> QED
  BY <1>2, Invariant, PTL

(* responseMap has an entry for every call that can be answered, and no    *)
(* other.                                                                  *)
THEOREM EntriesAreLive == Spec => []NoOrphanEntry
<1>1. IInv => NoOrphanEntry
  BY DEF IInv
<1> QED
  BY <1>1, Invariant, PTL

(* No response is dropped while its caller waits for it: such a caller has *)
(* an entry, so the worker finds its queue.                                *)
THEOREM ResponsesReachWaiters == Spec => NoResponseDropped
<1>1. IInv => [\A w \in Worker, t \in Thread :
                  Drop(w) /\ pc[t] \in {"send", "await"}
                     => req[t] # busy[w].id]_vars
  BY DEF IInv, NoOrphanEntry, Drop
<1> QED
  BY <1>1, Invariant, PTL DEF NoResponseDropped

-----------------------------------------------------------------------------
(* The pool is conserved.                                                  *)

(* The deque as a set without repetition.                                  *)
Listed(q, s) == \E i \in 1 .. Len(q) : q[i] = s

Distinct(q) == \A i, j \in 1 .. Len(q) : q[i] = q[j] => i = j

LEMMA TailListed ==
  ASSUME NEW S, NEW q \in Seq(S), q # <<>>, Distinct(q)
  PROVE  /\ Distinct(Tail(q))
         /\ \A s : Listed(Tail(q), s) <=> Listed(q, s) /\ s # Head(q)
<1>1. /\ Tail(q) \in Seq(S) /\ Len(q) \in Nat /\ Len(q) >= 1
      /\ Len(Tail(q)) = Len(q) - 1
      /\ \A i \in 1 .. Len(Tail(q)) : Tail(q)[i] = q[i + 1]
  BY HeadTailProperties, EmptySeq, LenProperties
<1>2. Head(q) = q[1]
  OBVIOUS
<1> DEFINE r == Tail(q)
           n == Len(q)
<1>3. /\ n \in Nat /\ n >= 1 /\ Len(r) = n - 1
      /\ \A i \in 1 .. (n - 1) : r[i] = q[i + 1]
      /\ \A i, j \in 1 .. n : q[i] = q[j] => i = j
  BY <1>1 DEF Distinct
<1> HIDE DEF r, n
<1>4. Distinct(r)
  BY <1>3 DEF Distinct
<1>5. ASSUME NEW s PROVE Listed(r, s) <=> Listed(q, s) /\ s # q[1]
  <2>1. ASSUME NEW i \in 1 .. (n - 1), r[i] = s
        PROVE  Listed(q, s) /\ s # q[1]
    <3>1. i + 1 \in 1 .. n /\ i + 1 # 1 /\ 1 \in 1 .. n /\ q[i + 1] = s
      BY <1>3, <2>1
    <3> QED
      BY <1>3, <3>1 DEF Listed, n
  <2>2. ASSUME NEW i \in 1 .. n, q[i] = s, s # q[1]
        PROVE  Listed(r, s)
    <3>1. i # 1 /\ i - 1 \in 1 .. (n - 1) /\ (i - 1) + 1 = i
      BY <1>3, <2>2
    <3>2. r[i - 1] = s
      BY <1>3, <2>2, <3>1
    <3> QED
      BY <1>3, <3>1, <3>2 DEF Listed
  <2> QED
    BY <1>3, <2>1, <2>2 DEF Listed, n
<1> QED
  BY <1>2, <1>4, <1>5 DEF r

LEMMA PushListed ==
  ASSUME NEW S, NEW q \in Seq(S), NEW s \in S, Distinct(q), ~ Listed(q, s)
  PROVE  /\ Distinct(<<s>> \o q)
         /\ \A u : Listed(<<s>> \o q, u) <=> Listed(q, u) \/ u = s
<1> DEFINE r == <<s>> \o q
           n == Len(q)
<1>1. /\ n \in Nat /\ Len(r) = n + 1 /\ r[1] = s
      /\ \A i \in 2 .. (n + 1) : r[i] = q[i - 1]
  <2>1. <<s>> \in Seq(S) /\ Len(<<s>>) = 1 /\ <<s>>[1] = s /\ n \in Nat
    BY LenProperties
  <2>2. /\ Len(r) = 1 + n
        /\ \A i \in 1 .. 1 + n : r[i] = IF i <= 1 THEN <<s>>[i] ELSE q[i - 1]
    BY <2>1, ConcatProperties
  <2> HIDE DEF r, n
  <2> QED
    BY <2>1, <2>2
<1>2. /\ \A i, j \in 1 .. n : q[i] = q[j] => i = j
      /\ \A i \in 1 .. n : q[i] # s
  BY DEF Distinct, Listed
<1> HIDE DEF r
<1>3. Distinct(r)
  <2>1. ASSUME NEW i \in 1 .. (n + 1), NEW j \in 1 .. (n + 1), r[i] = r[j]
        PROVE  i = j
    <3> HIDE DEF n
    <3>1. \A k \in 1 .. (n + 1) : k # 1 => k - 1 \in 1 .. n /\ r[k] = q[k - 1]
      BY <1>1
    <3>2. i = 1 <=> j = 1
      BY <1>1, <1>2, <2>1, <3>1
    <3>3. i # 1 => i - 1 = j - 1
      BY <1>2, <2>1, <3>1, <3>2
    <3> QED
      BY <1>1, <3>2, <3>3
  <2> QED
    BY <1>1, <2>1 DEF Distinct
<1>4. ASSUME NEW u PROVE Listed(r, u) <=> Listed(q, u) \/ u = s
  <2>1. ASSUME NEW i \in 1 .. (n + 1), r[i] = u PROVE Listed(q, u) \/ u = s
    <3>1. i # 1 => i - 1 \in 1 .. n /\ q[i - 1] = u
      BY <1>1, <2>1
    <3> QED
      BY <1>1, <2>1, <3>1 DEF Listed
  <2>2. ASSUME NEW i \in 1 .. n, q[i] = u PROVE Listed(r, u)
    <3>1. i + 1 \in 2 .. (n + 1) /\ (i + 1) - 1 = i /\ i + 1 \in 1 .. Len(r)
      BY <1>1
    <3>2. r[i + 1] = u
      BY <1>1, <2>2, <3>1
    <3> QED
      BY <3>1, <3>2 DEF Listed
  <2>3. Listed(r, s)
    <3>1. 1 \in 1 .. Len(r)
      BY <1>1
    <3> QED
      BY <1>1, <3>1 DEF Listed
  <2> QED
    BY <1>1, <2>1, <2>2, <2>3 DEF Listed
<1> QED
  BY <1>3, <1>4 DEF r

(* As many channels are idle as the deque is long.                         *)
LEMMA ListedCount ==
  ASSUME NEW S, NEW q \in Seq(S), Distinct(q)
  PROVE  Cardinality({s \in S : Listed(q, s)}) = Len(q)
<1> DEFINE T == {s \in S : Listed(q, s)}
           f == [i \in 1 .. Len(q) |-> q[i]]
<1>1. Len(q) \in Nat /\ \A i \in 1 .. Len(q) : q[i] \in S
  BY LenProperties, ElementOfSeq
<1>2. f \in [1 .. Len(q) -> T]
  BY <1>1 DEF Listed
<1>3. \A i, j \in 1 .. Len(q) : f[i] = f[j] => i = j
  BY DEF Distinct
<1>4. \A s \in T : \E i \in 1 .. Len(q) : f[i] = s
  BY DEF Listed
<1>5. f \in Bijection(1 .. Len(q), T)
  <2> HIDE DEF f, T
  <2>1. f \in Injection(1 .. Len(q), T)
    BY <1>2, <1>3 DEF Injection, IsInjective
  <2>2. f \in Surjection(1 .. Len(q), T)
    BY <1>2, <1>4, Zenon DEF Surjection
  <2> QED
    BY <2>1, <2>2, Zenon DEF Bijection
<1>6. ExistsBijection(1 .. Len(q), T)
  BY <1>5 DEF ExistsBijection
<1>7. IsFiniteSet(1 .. Len(q)) /\ Cardinality(1 .. Len(q)) = Len(q)
  BY <1>1, FS_Interval
<1> HIDE DEF T
<1>8. Cardinality(T) = Len(q)
  BY <1>6, <1>7, FS_Bijection
<1> QED
  BY <1>8 DEF T

-----------------------------------------------------------------------------
Lending == {"register", "send", "await", "return"}

(* A call has a channel from the start of its creation, or from its loan,  *)
(* to its return; no other call has it, and no channel that is being       *)
(* created or lent is forgotten.                                           *)
HolderInv ==
    /\ \A t \in Thread :
          /\ chan[t] \in Slot => pc[t] \in Lending \cup {"connect"}
          /\ pc[t] = "connect" => slotState[chan[t]] = "creating"
          /\ pc[t] \in Lending =>
                slotState[chan[t]] = "allocated" /\ link[chan[t]] # "none"
    /\ \A t, u \in Thread : chan[t] \in Slot /\ chan[t] = chan[u] => t = u
    /\ \A s \in Slot :
          \/ slotState[s] = "creating"
          \/ slotState[s] = "allocated" /\ link[s] # "none"
          => \E t \in Thread : chan[t] = s

(* The deque holds the idle channels, once each; none is a null channel.   *)
DequeInv ==
    /\ Distinct(idle)
    /\ \A s \in Slot : slotState[s] = "idle" <=> Listed(idle, s)
    /\ \A s \in Slot : slotState[s] = "idle" => link[s] # "none"

PoolInv == TInv /\ HolderInv /\ DequeInv

LEMMA PoolInvInit == Init => PoolInv
<1> SUFFICES ASSUME Init PROVE PoolInv
  OBVIOUS
<1>1. HolderInv
  BY ClientAssumption DEF Init, PoolInit, HolderInv, Lending
<1>2. Len(idle) = 0 /\ idle = <<>>
  BY DEF Init, PoolInit
<1>3. DequeInv
  BY <1>2 DEF Init, PoolInit, DequeInv, Distinct, Listed
<1> QED
  BY <1>1, <1>3, TypeInit DEF PoolInv

(* The steps that neither borrow nor return.                               *)
LEMMA PoolQuiet ==
  ASSUME PoolInv, UNCHANGED <<chan, slotState, idle>>,
         \A t \in Thread : /\ pc'[t] \in Lending <=> pc[t] \in Lending
                           /\ pc'[t] = "connect" <=> pc[t] = "connect",
         \A s \in Slot : link'[s] = "none" <=> link[s] = "none"
  PROVE  HolderInv' /\ DequeInv'
<1>1. HolderInv'
  <2>1. \A t \in Thread : pc[t] \in Lending => chan[t] \in Slot
    BY DEF PoolInv, TInv, CallOK, Lending
  <2> QED
    BY <2>1 DEF PoolInv, HolderInv
<1>2. DequeInv'
  BY DEF PoolInv, DequeInv
<1> QED
  BY <1>1, <1>2

(* pollFirst and takeFirst lend the first idle channel.                    *)
LEMMA LendPool ==
  ASSUME PoolInv, NEW t \in Thread, pc[t] \in {"borrow", "take"},
         NEW s \in Slot, LendFirst(s), chan' = [chan EXCEPT ![t] = s],
         Goto(t, "register")
  PROVE  HolderInv' /\ DequeInv'
<1> DEFINE r == Tail(idle)
<1>1. /\ idle # <<>> /\ s = Head(idle) /\ idle' = r /\ link' = link
      /\ slotState' = [slotState EXCEPT ![s] = "allocated"]
      /\ pc' = [pc EXCEPT ![t] = "register"]
  BY DEF LendFirst, Goto
<1>2. /\ idle \in Seq(Slot)
      /\ slotState \in [Slot -> {"absent", "creating", "idle", "allocated"}]
      /\ pc \in [Thread -> Location] /\ chan \in [Thread -> Slot \cup {NoSlot}]
  BY DEF PoolInv, TInv, TypeOK, PoolTypeOK
<1>3. Distinct(idle)
  BY DEF PoolInv, DequeInv
<1>4. /\ Distinct(r)
      /\ \A u : Listed(r, u) <=> Listed(idle, u) /\ u # s
  BY <1>1, <1>2, <1>3, TailListed
<1>5. slotState[s] = "idle" /\ link[s] # "none"
  <2>1. /\ Len(idle) \in Nat /\ Len(idle) >= 1 /\ s = idle[1]
    BY <1>1, <1>2, LenProperties, EmptySeq
  <2>2. Listed(idle, s)
    BY <2>1 DEF Listed
  <2> QED
    BY <2>2 DEF PoolInv, DequeInv
<1>6. \A u \in Thread : chan[u] # s
  BY <1>5 DEF PoolInv, HolderInv, Lending
<1>7. chan[t] \notin Slot
  BY DEF PoolInv, HolderInv, Lending
<1>8. HolderInv'
  <2>1. ASSUME NEW u \in Thread
        PROVE  /\ chan'[u] \in Slot => pc'[u] \in Lending \cup {"connect"}
               /\ pc'[u] = "connect" => slotState'[chan'[u]] = "creating"
               /\ pc'[u] \in Lending =>
                     slotState'[chan'[u]] = "allocated" /\ link'[chan'[u]] # "none"
    <3>1. CASE u = t
      BY <1>1, <1>2, <1>5, <3>1 DEF Lending
    <3>2. CASE u # t
      <4>1. chan'[u] = chan[u] /\ pc'[u] = pc[u] /\ chan[u] # s
        BY <1>1, <1>2, <1>6, <3>2
      <4>2. pc[u] \in Lending \cup {"connect"} => chan[u] \in Slot
        BY DEF PoolInv, TInv, CallOK, Lending
      <4>3. chan[u] \in Slot => slotState'[chan[u]] = slotState[chan[u]]
        BY <1>1, <1>2, <4>1
      <4> QED
        BY <1>1, <4>1, <4>2, <4>3 DEF PoolInv, HolderInv
    <3> QED
      BY <3>1, <3>2
  <2>2. \A u, v \in Thread : chan'[u] \in Slot /\ chan'[u] = chan'[v] => u = v
    BY <1>2, <1>6 DEF PoolInv, HolderInv
  <2>3. \A u \in Slot :
          \/ slotState'[u] = "creating"
          \/ slotState'[u] = "allocated" /\ link'[u] # "none"
          => \E v \in Thread : chan'[v] = u
    <3>1. \A v \in Thread : v # t => chan'[v] = chan[v]
      BY <1>2
    <3>2. chan'[t] = s
      BY <1>2
    <3>3. \A u \in Slot : u # s => slotState'[u] = slotState[u]
      BY <1>1, <1>2
    <3> QED
      BY <1>1, <1>7, <3>1, <3>2, <3>3 DEF PoolInv, HolderInv
  <2> QED
    BY <2>1, <2>2, <2>3 DEF HolderInv
<1>9. DequeInv'
  <2>1. \A u \in Slot : slotState'[u] = IF u = s THEN "allocated" ELSE slotState[u]
    BY <1>1, <1>2
  <2> HIDE DEF r
  <2>2. Distinct(idle') /\ \A u : Listed(idle', u) <=> Listed(idle, u) /\ u # s
    BY <1>1, <1>4
  <2> QED
    BY <1>1, <2>1, <2>2 DEF PoolInv, DequeInv
<1> QED
  BY <1>8, <1>9

(* returnObject puts the channel of the call back in the deque.            *)
LEMMA GiveBackPool ==
  ASSUME PoolInv, NEW t \in Thread, GiveBack(t)
  PROVE  HolderInv' /\ DequeInv'
<1> DEFINE s == chan[t]
           r == <<s>> \o idle
<1>1. /\ pc[t] = "return" /\ slotState[s] = "allocated"
      /\ idle' = r /\ link' = link
      /\ slotState' = [slotState EXCEPT ![s] = "idle"]
      /\ pc' = [pc EXCEPT ![t] = "remove"]
      /\ chan' = [chan EXCEPT ![t] = NoSlot]
  BY DEF GiveBack, ReturnObject, Goto
<1>2. /\ idle \in Seq(Slot)
      /\ slotState \in [Slot -> {"absent", "creating", "idle", "allocated"}]
      /\ pc \in [Thread -> Location] /\ chan \in [Thread -> Slot \cup {NoSlot}]
  BY DEF PoolInv, TInv, TypeOK, PoolTypeOK
<1>3. s \in Slot /\ link[s] # "none"
  BY <1>1 DEF PoolInv, TInv, CallOK, HolderInv, Lending
<1>4. Distinct(idle) /\ ~ Listed(idle, s)
  BY <1>1, <1>3 DEF PoolInv, DequeInv
<1>5. /\ Distinct(r)
      /\ \A u : Listed(r, u) <=> Listed(idle, u) \/ u = s
  <2> HIDE DEF s
  <2> QED
    BY <1>2, <1>3, <1>4, PushListed
<1>6. \A u \in Slot : slotState'[u] = IF u = s THEN "idle" ELSE slotState[u]
  BY <1>1, <1>2
<1>7. \A u \in Thread : u # t => /\ chan'[u] = chan[u] /\ pc'[u] = pc[u]
                                 /\ chan[u] # s
  BY <1>1, <1>2, <1>3 DEF PoolInv, HolderInv
<1>8. pc'[t] = "remove" /\ chan'[t] = NoSlot /\ NoSlot \notin Slot
  BY <1>1, <1>2, ClientAssumption
<1> HIDE DEF s, r
<1>9. HolderInv'
  <2>1. ASSUME NEW u \in Thread
        PROVE  /\ chan'[u] \in Slot => pc'[u] \in Lending \cup {"connect"}
               /\ pc'[u] = "connect" => slotState'[chan'[u]] = "creating"
               /\ pc'[u] \in Lending =>
                     slotState'[chan'[u]] = "allocated" /\ link'[chan'[u]] # "none"
    <3>1. CASE u = t
      BY <1>8, <3>1 DEF Lending
    <3>2. CASE u # t
      <4>1. chan'[u] = chan[u] /\ pc'[u] = pc[u] /\ chan[u] # s
        BY <1>7, <3>2
      <4>2. pc[u] \in Lending \cup {"connect"} => chan[u] \in Slot
        BY DEF PoolInv, TInv, CallOK, Lending
      <4>3. chan[u] \in Slot => slotState'[chan[u]] = slotState[chan[u]]
        BY <1>6, <4>1
      <4> QED
        BY <1>1, <4>1, <4>2, <4>3 DEF PoolInv, HolderInv
    <3> QED
      BY <3>1, <3>2
  <2>2. \A u, v \in Thread : chan'[u] \in Slot /\ chan'[u] = chan'[v] => u = v
    BY <1>7, <1>8 DEF PoolInv, HolderInv
  <2>3. ASSUME NEW u \in Slot,
               \/ slotState'[u] = "creating"
               \/ slotState'[u] = "allocated" /\ link'[u] # "none"
        PROVE  \E v \in Thread : chan'[v] = u
    <3>1. u # s /\ slotState'[u] = slotState[u]
      BY <1>6, <2>3
    <3>2. PICK v \in Thread : chan[v] = u
      BY <1>1, <2>3, <3>1 DEF PoolInv, HolderInv
    <3>3. v # t
      BY <3>1, <3>2 DEF s
    <3> QED
      BY <1>7, <3>2, <3>3
  <2> QED
    BY <2>1, <2>2, <2>3 DEF HolderInv
<1>10. DequeInv'
  <2>1. Distinct(idle') /\ \A u : Listed(idle', u) <=> Listed(idle, u) \/ u = s
    BY <1>1, <1>5
  <2> QED
    BY <1>1, <1>3, <1>6, <2>1 DEF PoolInv, DequeInv
<1> QED
  BY <1>9, <1>10

(* create, from the reservation of a slot to its end: what the caller and  *)
(* the slot become, everyone else unaffected.                              *)
CreateStep(t, s, state, channel, c, l) ==
    /\ slotState[s] \in {"absent", "creating"}
    /\ chan[t] = s \/ (chan[t] \notin Slot /\ slotState[s] = "absent")
    /\ slotState' = [slotState EXCEPT ![s] = state]
    /\ link' = [link EXCEPT ![s] = channel]
    /\ chan' = [chan EXCEPT ![t] = c]
    /\ pc' = [pc EXCEPT ![t] = l]
    /\ idle' = idle
    /\ \/ c = s /\ state = "creating" /\ l = "connect"
       \/ c = s /\ state = "allocated" /\ channel # "none" /\ l = "register"
       \/ c = NoSlot /\ state = "absent" /\ l = "idle"
       \/ c = NoSlot /\ state = "allocated" /\ channel = "none" /\ l = "idle"

LEMMA CreatePool ==
  ASSUME PoolInv, NEW t \in Thread, NEW s \in Slot,
         NEW st, NEW ch, NEW c, NEW l, CreateStep(t, s, st, ch, c, l)
  PROVE  HolderInv' /\ DequeInv'
<1> USE DEF CreateStep
<1>1. /\ slotState \in [Slot -> {"absent", "creating", "idle", "allocated"}]
      /\ link \in [Slot -> {"none", "up", "down"}]
      /\ pc \in [Thread -> Location] /\ chan \in [Thread -> Slot \cup {NoSlot}]
      /\ NoSlot \notin Slot
  BY ClientAssumption DEF PoolInv, TInv, TypeOK, PoolTypeOK
<1>2. \A u \in Slot : /\ slotState'[u] = IF u = s THEN st ELSE slotState[u]
                      /\ link'[u] = IF u = s THEN ch ELSE link[u]
  BY <1>1
<1>3. ASSUME NEW u \in Thread, u # t
      PROVE  chan'[u] = chan[u] /\ pc'[u] = pc[u] /\ chan[u] # s
  <2>1. chan[u] = s => slotState[s] = "creating"
    BY DEF PoolInv, HolderInv, Lending
  <2> QED
    BY <1>1, <1>3, <2>1 DEF PoolInv, HolderInv
<1>4. pc'[t] = l /\ chan'[t] = c
  BY <1>1
<1>5. HolderInv'
  <2>1. ASSUME NEW u \in Thread
        PROVE  /\ chan'[u] \in Slot => pc'[u] \in Lending \cup {"connect"}
               /\ pc'[u] = "connect" => slotState'[chan'[u]] = "creating"
               /\ pc'[u] \in Lending =>
                     slotState'[chan'[u]] = "allocated" /\ link'[chan'[u]] # "none"
    <3>1. CASE u = t
      BY <1>1, <1>2, <1>4, <3>1 DEF Lending
    <3>2. CASE u # t
      <4>1. pc[u] \in Lending \cup {"connect"} => chan[u] \in Slot
        BY DEF PoolInv, TInv, CallOK, Lending
      <4>2. chan[u] \in Slot => /\ slotState'[chan[u]] = slotState[chan[u]]
                                /\ link'[chan[u]] = link[chan[u]]
        BY <1>2, <1>3, <3>2
      <4> QED
        BY <1>3, <3>2, <4>1, <4>2 DEF PoolInv, HolderInv
    <3> QED
      BY <3>1, <3>2
  <2>2. \A u, v \in Thread : chan'[u] \in Slot /\ chan'[u] = chan'[v] => u = v
    BY <1>1, <1>3, <1>4 DEF PoolInv, HolderInv
  <2>3. ASSUME NEW u \in Slot,
               \/ slotState'[u] = "creating"
               \/ slotState'[u] = "allocated" /\ link'[u] # "none"
        PROVE  \E v \in Thread : chan'[v] = u
    <3>1. CASE u = s
      BY <1>2, <1>4, <2>3, <3>1
    <3>2. CASE u # s
      <4>1. PICK v \in Thread : chan[v] = u
        BY <1>2, <2>3, <3>2 DEF PoolInv, HolderInv
      <4>2. v # t
        BY <3>2, <4>1
      <4> QED
        BY <1>3, <4>1, <4>2
    <3> QED
      BY <3>1, <3>2
  <2> QED
    BY <2>1, <2>2, <2>3 DEF HolderInv
<1>6. DequeInv'
  <2>1. slotState[s] # "idle" /\ st # "idle"
    OBVIOUS
  <2> QED
    BY <1>2, <2>1 DEF PoolInv, DequeInv
<1> QED
  BY <1>5, <1>6

LEMMA PoolInvNext == PoolInv /\ [Next]_vars => PoolInv'
<1> SUFFICES ASSUME PoolInv, [Next]_vars PROVE HolderInv' /\ DequeInv'
  BY TypeNext DEF PoolInv
<1>0. /\ pc \in [Thread -> Location]
      /\ link \in [Slot -> {"none", "up", "down"}]
      /\ slotState \in [Slot -> {"absent", "creating", "idle", "allocated"}]
  BY DEF PoolInv, TInv, TypeOK, PoolTypeOK
<1>1. ASSUME NEW t \in Thread,
             \/ Invoke(t) \/ TakeInterrupted(t) \/ Register(t) \/ Send(t)
             \/ Receive(t) \/ GiveUp(t) \/ Remove(t)
      PROVE  HolderInv' /\ DequeInv'
  <2>1. /\ UNCHANGED <<chan, slotState, link, idle>>
        /\ \E l \in Location :
              /\ pc' = [pc EXCEPT ![t] = l] /\ l # "connect" /\ pc[t] # "connect"
              /\ l \in Lending <=> pc[t] \in Lending
    BY <1>1
       DEF Invoke, TakeInterrupted, Register, Send, Receive, GiveUp, Remove,
           Goto, Lending, Location, poolVars
  <2>2. \A u \in Thread : /\ pc'[u] \in Lending <=> pc[u] \in Lending
                          /\ pc'[u] = "connect" <=> pc[u] = "connect"
    BY <1>0, <2>1
  <2> QED
    BY <2>1, <2>2, PoolQuiet
<1>2. ASSUME NEW t \in Thread, PollIdle(t) \/ TakeIdle(t)
      PROVE  HolderInv' /\ DequeInv'
  <2>1. CASE pc[t] = "borrow" /\ idle = <<>> /\ Goto(t, "create")
             /\ UNCHANGED <<slotState, link, idle, chan>>
    <3>1. \A u \in Thread : /\ pc'[u] \in Lending <=> pc[u] \in Lending
                            /\ pc'[u] = "connect" <=> pc[u] = "connect"
      BY <1>0, <2>1 DEF Goto, Lending
    <3> QED
      BY <2>1, <3>1, PoolQuiet
  <2>2. CASE \E s \in Slot : /\ pc[t] \in {"borrow", "take"} /\ LendFirst(s)
                             /\ chan' = [chan EXCEPT ![t] = s]
                             /\ Goto(t, "register")
    BY <2>2, LendPool
  <2> QED
    BY <1>2, <2>1, <2>2 DEF PollIdle, TakeIdle, poolVars
<1>3. ASSUME NEW t \in Thread, Create(t) PROVE HolderInv' /\ DequeInv'
  <2>1. CASE \E s \in Slot : /\ StartCreate(s)
                             /\ chan' = [chan EXCEPT ![t] = s]
                             /\ Goto(t, "connect")
    <3>1. PICK s \in Slot : /\ StartCreate(s)
                            /\ chan' = [chan EXCEPT ![t] = s]
                            /\ Goto(t, "connect")
      BY <2>1
    <3>2. /\ slotState[s] = "absent" /\ idle' = idle
          /\ slotState' = [slotState EXCEPT ![s] = "creating"]
          /\ link' = [link EXCEPT ![s] = link[s]]
          /\ pc' = [pc EXCEPT ![t] = "connect"]
      BY <1>0, <3>1 DEF StartCreate, Goto
    <3>3. chan[t] \notin Slot
      BY <1>3 DEF Create, PoolInv, HolderInv, Lending
    <3>4. CreateStep(t, s, "creating", link[s], s, "connect")
      BY <3>1, <3>2, <3>3 DEF CreateStep
    <3> QED
      BY <3>4, CreatePool, Zenon
  <2>2. CASE Goto(t, "take") /\ UNCHANGED <<slotState, link, idle, chan>>
    <3>1. \A u \in Thread : /\ pc'[u] \in Lending <=> pc[u] \in Lending
                            /\ pc'[u] = "connect" <=> pc[u] = "connect"
      BY <1>0, <1>3, <2>2 DEF Create, Goto, Lending
    <3> QED
      BY <2>2, <3>1, PoolQuiet
  <2> QED
    BY <1>3, <2>1, <2>2 DEF Create, poolVars
<1>4. ASSUME NEW t \in Thread,
             Connect(t) \/ ConnectRefused(t) \/ ConnectInterrupted(t)
      PROVE  HolderInv' /\ DequeInv'
  <2> DEFINE s == chan[t]
  <2>1. s \in Slot /\ slotState[s] = "creating"
    BY <1>4 DEF Connect, ConnectRefused, ConnectInterrupted, PoolInv, TInv,
                CallOK, HolderInv
  <2>2. idle' = idle
    BY <1>4 DEF Connect, ConnectRefused, ConnectInterrupted, Created, Refused
  <2>3. CASE Connect(t)
    <3>1. /\ slotState' = [slotState EXCEPT ![s] = "allocated"]
          /\ link' = [link EXCEPT ![s] = "up"]
          /\ chan' = [chan EXCEPT ![t] = s]
          /\ pc' = [pc EXCEPT ![t] = "register"]
      BY <2>3 DEF Connect, Created, Goto, PoolInv, TInv, TypeOK
    <3> HIDE DEF s
    <3>2. chan[t] = s
      BY DEF s
    <3>3. CreateStep(t, s, "allocated", "up", s, "register")
      BY <2>1, <2>2, <3>1, <3>2 DEF CreateStep
    <3> QED
      BY <2>1, <3>3, CreatePool, Zenon
  <2>4. CASE ConnectRefused(t)
    <3>1. /\ slotState' = [slotState EXCEPT ![s] = "absent"]
          /\ link' = [link EXCEPT ![s] = link[s]]
          /\ chan' = [chan EXCEPT ![t] = NoSlot]
          /\ pc' = [pc EXCEPT ![t] = "idle"]
      BY <1>0, <2>4 DEF ConnectRefused, Refused, Goto
    <3> HIDE DEF s
    <3>2. chan[t] = s
      BY DEF s
    <3>3. CreateStep(t, s, "absent", link[s], NoSlot, "idle")
      BY <2>1, <2>2, <3>1, <3>2 DEF CreateStep
    <3> QED
      BY <2>1, <3>3, CreatePool, Zenon
  <2>5. CASE ConnectInterrupted(t)
    <3>1. /\ slotState' = [slotState EXCEPT ![s] = "allocated"]
          /\ link' = [link EXCEPT ![s] = "none"]
          /\ chan' = [chan EXCEPT ![t] = NoSlot]
          /\ pc' = [pc EXCEPT ![t] = "idle"]
      BY <2>5 DEF ConnectInterrupted, Created, Goto
    <3> HIDE DEF s
    <3>2. chan[t] = s
      BY DEF s
    <3>3. CreateStep(t, s, "allocated", "none", NoSlot, "idle")
      BY <2>1, <2>2, <3>1, <3>2 DEF CreateStep
    <3> QED
      BY <2>1, <3>3, CreatePool, Zenon
  <2> QED
    BY <1>4, <2>3, <2>4, <2>5
<1>5. ASSUME NEW s \in Slot, Disconnect(s) PROVE HolderInv' /\ DequeInv'
  <2>1. /\ UNCHANGED <<chan, slotState, idle, pc>>
        /\ link[s] = "up" /\ link' = [link EXCEPT ![s] = "down"]
    BY <1>5 DEF Disconnect, Break, callVars
  <2>2. \A u \in Slot : link'[u] = "none" <=> link[u] = "none"
    BY <1>0, <2>1
  <2> QED
    BY <2>1, <2>2, PoolQuiet
<1>6. ASSUME UNCHANGED <<slotState, link, idle, pc, chan>>
      PROVE  HolderInv' /\ DequeInv'
  BY <1>6, PoolQuiet
<1>7. ASSUME NEW m \in Message, Serve(m) \/ ChannelRead0(m)
      PROVE  HolderInv' /\ DequeInv'
  BY <1>6, <1>7 DEF Serve, ChannelRead0, poolVars, callVars
<1>8. ASSUME NEW w \in Worker, WorkerStep(w)
      PROVE  HolderInv' /\ DequeInv'
  BY <1>6, <1>8
     DEF WorkerStep, OnEvent, LookUp, Drop, Put, poolVars, callVars
<1>9. ASSUME Quiescent \/ UNCHANGED vars PROVE HolderInv' /\ DequeInv'
  BY <1>6, <1>9 DEF Quiescent, vars
<1> QED
  BY <1>1, <1>2, <1>3, <1>4, <1>5, <1>7, <1>8, <1>9, GiveBackPool
     DEF Next, CallStep, Environment

(* A channel that is lent or being created is in the hands of exactly one  *)
(* call, a null channel and an idle one in nobody's, and the deque is as   *)
(* long as there are idle channels.                                        *)
THEOREM PoolIsConserved == Spec => []PoolConserved
<1>1. Spec => []PoolInv
  BY PoolInvInit, PoolInvNext, PTL DEF Spec
<1>2. ASSUME PoolInv, NEW s \in Slot
      PROVE  Cardinality({t \in Thread : chan[t] = s}) =
                IF \/ slotState[s] = "allocated" /\ link[s] # "none"
                   \/ slotState[s] = "creating" THEN 1 ELSE 0
  <2> DEFINE H == {t \in Thread : chan[t] = s}
  <2>1. CASE \/ slotState[s] = "allocated" /\ link[s] # "none"
             \/ slotState[s] = "creating"
    <3>1. PICK t \in Thread : chan[t] = s
      BY <1>2, <2>1 DEF PoolInv, HolderInv
    <3>2. H = {t}
      BY <1>2, <3>1 DEF PoolInv, HolderInv
    <3> HIDE DEF H
    <3>3. Cardinality(H) = 1
      BY <3>2, FS_Singleton
    <3> QED
      BY <2>1, <3>3 DEF H
  <2>2. CASE ~ (\/ slotState[s] = "allocated" /\ link[s] # "none"
                \/ slotState[s] = "creating")
    <3>1. H = {}
      BY <1>2, <2>2 DEF PoolInv, HolderInv
    <3> HIDE DEF H
    <3>2. Cardinality(H) = 0
      BY <3>1, FS_EmptySet
    <3> QED
      BY <2>2, <3>2 DEF H
  <2> QED
    BY <2>1, <2>2
<1>3. ASSUME PoolInv
      PROVE  Len(idle) = Cardinality({s \in Slot : slotState[s] = "idle"})
  <2>1. Distinct(idle) /\ idle \in Seq(Slot)
    BY <1>3 DEF PoolInv, DequeInv, TInv, TypeOK, PoolTypeOK
  <2>2. {s \in Slot : slotState[s] = "idle"} = {s \in Slot : Listed(idle, s)}
    BY <1>3 DEF PoolInv, DequeInv
  <2> QED
    BY <2>1, <2>2, ListedCount
<1>4. PoolInv => PoolConserved
  BY <1>2, <1>3 DEF PoolConserved
<1> QED
  BY <1>1, <1>4, PTL
=============================================================================
