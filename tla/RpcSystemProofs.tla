-------------------------- MODULE RpcSystemProofs --------------------------
(***************************************************************************)
(* RpcSystem, for any number of threads, workers, channels and calls, any  *)
(* services and any faults: it keeps to what ClientCall assumes of the     *)
(* server, so what ClientCallProofs shows holds of the system; every step  *)
(* of the server in it is one of ServerDispatch; and the stubs keep the    *)
(* promise of RemoteCall, under the two conditions stated there.           *)
(***************************************************************************)
EXTENDS RpcSystem, ClientCallProofs

-----------------------------------------------------------------------------
(* The requests of the client model.                                       *)
Unanswered == {m \in Message : RequestOf(m) \in arrived /\ m \notin answered}
Wire == requests \cup Unanswered

(* Requests that have been sent and not lost before the server's ring.     *)
Sent(m) == m \in requests \/ RequestOf(m) \in arrived

(* A message is its request without the method.                            *)
LEMMA SameMessage ==
  /\ \A m \in Message : RequestOf(m) \in Request /\ MessageOf(RequestOf(m)) = m
  /\ \A r \in Request : MessageOf(r) \in Message /\ RequestOf(MessageOf(r)) = r
<1>1. \A m \in Message : RequestOf(m) \in Request
  BY DEF Request
<1>2. \A m \in Message : MessageOf(RequestOf(m)) = m
  BY DEF Message, MessageOf, RequestOf
<1>3. \A r \in Request : \E m \in Message : r = RequestOf(m)
  BY DEF Request
<1> QED
  BY <1>1, <1>2, <1>3

(* The server's side of the types.                                         *)
ServerTypes ==
    /\ arrived \subseteq Request
    /\ serverPending \subseteq Request
    /\ serverBusy \in [ServerWorker -> Request \cup {NoEvent}]
    /\ answered \subseteq Message

(* Ids are given out once, so a thread that has not sent its request has   *)
(* an id that no request of its own carries.                               *)
FreshIds ==
    /\ \A t \in Thread : req[t] <= atomicLong
    /\ \A m \in Message : Sent(m) => m.id <= atomicLong
    /\ \A t \in Thread : pc[t] \in Unsent =>
          \A m \in Message : Sent(m) => m.by # t \/ m.id # req[t]

(* A request travels, or has arrived; then it is in the server's ring, in  *)
(* the hands of one worker, or done with, and only then answered.          *)
OneWay ==
    /\ \A m \in requests : RequestOf(m) \notin arrived
    /\ serverPending \subseteq arrived
    /\ \A w \in ServerWorker : serverBusy[w] # NoEvent =>
          serverBusy[w] \in arrived /\ serverBusy[w] \notin serverPending
    /\ \A u, w \in ServerWorker :
          serverBusy[u] # NoEvent /\ serverBusy[u] = serverBusy[w] => u = w
    /\ \A m \in answered :
          /\ RequestOf(m) \in arrived
          /\ RequestOf(m) \notin serverPending
          /\ \A w \in ServerWorker : serverBusy[w] # RequestOf(m)

SystemInv == TInv /\ ServerTypes /\ FreshIds /\ OneWay

LEMMA SystemInvInit == SystemInit => SystemInv
<1> SUFFICES ASSUME SystemInit PROVE SystemInv
  OBVIOUS
<1> USE DEF SystemInit
<1>1. TInv
  BY TypeInit
<1>2. ServerTypes
  BY DEF S!Init, S!QueueInit, ServerTypes
<1>3. FreshIds
  BY DEF Init, S!Init, FreshIds, Sent, Unsent
<1>4. OneWay
  BY DEF Init, S!Init, S!QueueInit, OneWay
<1> QED
  BY <1>1, <1>2, <1>3, <1>4 DEF SystemInv

(* A step of the client that neither begins a call nor sends a request.    *)
LEMMA ClientKeeps ==
  ASSUME SystemInv, TInv', UNCHANGED <<serverVars, answered>>,
         UNCHANGED <<requests, req, atomicLong>>,
         \A t \in Thread : pc'[t] \in Unsent => pc[t] \in Unsent
  PROVE  SystemInv'
<1> USE DEF SystemInv, serverVars
<1>1. ServerTypes'
  BY DEF ServerTypes
<1>2. FreshIds'
  BY DEF FreshIds, Sent
<1>3. OneWay'
  BY DEF OneWay
<1> QED
  BY <1>1, <1>2, <1>3

(* A step of the server alone keeps the client's types.                     *)
LEMMA ServerKeepsTypes ==
  ASSUME TInv, UNCHANGED <<poolVars, callVars, mapVars, ringVars>>,
         requests' \subseteq Message, responses' \subseteq Message
  PROVE  TInv'
  BY DEF TInv, TypeOK, PoolTypeOK, QueueTypeOK, CallOK, poolVars, callVars,
         mapVars, ringVars

(* What onEvent does, step by step, to the ring and to its worker.         *)
LEMMA HandleEffect ==
  ASSUME NEW w \in ServerWorker, HandleStep(w)
  PROVE  /\ UNCHANGED <<vars, answered, arrived>>
         /\ \/ \E r \in serverPending :
                  /\ serverPending' = serverPending \ {r}
                  /\ serverBusy' = [serverBusy EXCEPT ![w] = r]
            \/ /\ serverPending' = serverPending
               /\ serverBusy' = [serverBusy EXCEPT ![w] = NoEvent]
            \/ UNCHANGED <<serverPending, serverBusy>>
<1> USE DEF HandleStep
<1>1. CASE \E m \in Message : S!OnEvent(w, RequestOf(m))
  BY <1>1 DEF S!OnEvent, S!Take
<1>2. CASE S!NoService(w) \/ S!GetFails(w) \/ S!NoSuchMethod(w) \/ S!Throw(w)
  BY <1>2 DEF S!NoService, S!GetFails, S!NoSuchMethod, S!Throw, S!Fail,
              S!Finish
<1>3. CASE S!ContainsKey(w) \/ S!Get(w) \/ S!Resolve(w) \/ S!Return(w)
              \/ S!Put(w)
  BY <1>3 DEF S!ContainsKey, S!Get, S!Resolve, S!Return, S!Put, S!BeginInvoke
<1> QED
  BY <1>1, <1>2, <1>3

LEMMA SystemInvNext == SystemInv /\ [SystemNext]_systemVars => SystemInv'
<1> SUFFICES ASSUME SystemInv, [SystemNext]_systemVars PROVE SystemInv'
  OBVIOUS
<1>1. ASSUME NEW t \in Thread, StubInvoke(t) PROVE SystemInv'
  <2> USE <1>1 DEF StubInvoke, serverVars, poolVars, mapVars, netVars, ringVars
  <2>1. TInv'
    BY TypeNext DEF SystemInv, Next
  <2>2. ServerTypes'
    BY DEF SystemInv, ServerTypes
  <2>3. /\ atomicLong \in Nat /\ atomicLong' = atomicLong + 1
        /\ req \in [Thread -> Nat]
        /\ req' = [req EXCEPT ![t] = atomicLong + 1]
        /\ pc' = [pc EXCEPT ![t] = "borrow"]
        /\ pc \in [Thread -> Location]
    BY ClientAssumption
       DEF SystemInv, TInv, TypeOK, RequestId, Invoke, NextRequestId, Goto
  <2>4. \A m : Sent(m)' <=> Sent(m)
    BY DEF Sent, Invoke
  <2>5. FreshIds'
    <3>1. \A u \in Thread : req'[u] <= atomicLong'
      BY <2>3 DEF SystemInv, FreshIds
    <3>2. \A m \in Message : m.id \in Nat
      BY DEF Message, RequestId
    <3>3. \A m \in Message : Sent(m)' => m.id <= atomicLong'
      BY <2>3, <2>4, <3>2 DEF SystemInv, FreshIds
    <3>4. \A u \in Thread : pc'[u] \in Unsent =>
             \A m \in Message : Sent(m)' => m.by # u \/ m.id # req'[u]
      BY <2>3, <2>4, <3>2 DEF SystemInv, FreshIds
    <3> QED
      BY <3>1, <3>3, <3>4 DEF FreshIds
  <2>6. OneWay'
    BY DEF SystemInv, OneWay, Invoke
  <2> QED
    BY <2>1, <2>2, <2>5, <2>6 DEF SystemInv
<1>2. ASSUME NEW t \in Thread, StubReturns(t) PROVE SystemInv'
  <2> USE <1>2 DEF StubReturns
  <2>1. TInv'
    BY TypeNext DEF SystemInv, Next, CallStep
  <2>2. /\ UNCHANGED <<requests, req, atomicLong>>
        /\ pc' = [pc EXCEPT ![t] = "idle"]
    BY DEF Remove, ConnectRefused, TakeInterrupted, ConnectInterrupted, Goto,
           netVars
  <2>3. \A u \in Thread : pc'[u] \in Unsent => pc[u] \in Unsent
    BY <2>2 DEF SystemInv, TInv, TypeOK, Unsent
  <2> QED
    BY <2>1, <2>2, <2>3, ClientKeeps
<1>3. ASSUME NEW t \in Thread, Send(t), UNCHANGED <<serverVars, answered>>
      PROVE  SystemInv'
  <2> USE <1>3 DEF serverVars, poolVars, mapVars, ringVars
  <2> DEFINE n == [id |-> req[t], by |-> t, on |-> chan[t]]
  <2>1. TInv'
    BY TypeNext DEF SystemInv, Next, CallStep
  <2>2. ServerTypes'
    BY DEF SystemInv, ServerTypes
  <2>3. /\ pc \in [Thread -> Location]
        /\ pc[t] = "send" /\ pc' = [pc EXCEPT ![t] = "await"]
        /\ requests' = requests \cup {n}
        /\ req' = req /\ atomicLong' = atomicLong
    BY DEF SystemInv, TInv, TypeOK, Send, Goto
  <2>4. n \in Message /\ n.id = req[t] /\ n.by = t
    BY <2>3 DEF SystemInv, TInv, CallOK, Message
  <2>5. ~Sent(n)
    BY <2>3, <2>4 DEF SystemInv, FreshIds, Unsent
  <2>6. \A m : Sent(m)' <=> Sent(m) \/ m = n
    BY <2>3, <2>5 DEF Sent
  <2>7. FreshIds'
    <3> HIDE DEF n
    <3>1. \A m \in Message : Sent(m)' => m.id <= atomicLong'
      BY <2>3, <2>4, <2>6 DEF SystemInv, FreshIds
    <3>2. ASSUME NEW u \in Thread, pc'[u] \in Unsent,
                 NEW m \in Message, Sent(m)'
          PROVE  m.by # u \/ m.id # req'[u]
      <4>1. u # t /\ pc[u] \in Unsent
        BY <2>3, <3>2 DEF Unsent
      <4> QED
        BY <2>3, <2>4, <2>6, <3>2, <4>1 DEF SystemInv, FreshIds
    <3> QED
      BY <2>3, <3>1, <3>2 DEF SystemInv, FreshIds
  <2>8. OneWay'
    <3> HIDE DEF n
    <3> QED
      BY <2>3, <2>5 DEF SystemInv, OneWay, Sent
  <2> QED
    BY <2>1, <2>2, <2>7, <2>8 DEF SystemInv
<1>4. ASSUME NEW t \in Thread, InvokeStep(t), ~Send(t) PROVE SystemInv'
  <2> USE <1>4 DEF InvokeStep
  <2>1. TInv'
    BY TypeNext DEF SystemInv, Next, CallStep
  <2>2. UNCHANGED <<requests, req, atomicLong>>
    BY DEF PollIdle, Create, Connect, TakeIdle, Register, Receive, GiveUp,
           GiveBack, netVars
  <2>3. \A u \in Thread : pc'[u] \in Unsent => pc[u] \in Unsent
    BY DEF PollIdle, Create, Connect, TakeIdle, Register, Receive, GiveUp,
           GiveBack, Goto, SystemInv, TInv, TypeOK, Unsent
  <2> QED
    BY <2>1, <2>2, <2>3, ClientKeeps
<1>5. ASSUME NEW w \in Worker, ConsumeStep(w) PROVE SystemInv'
  <2> USE <1>5 DEF ConsumeStep
  <2>1. TInv'
    BY TypeNext DEF SystemInv, Next
  <2>2. UNCHANGED <<requests, req, atomicLong, pc>>
    BY DEF WorkerStep, OnEvent, LookUp, Drop, Put, netVars, callVars
  <2> QED
    BY <2>1, <2>2, ClientKeeps
<1>6. ASSUME NEW m \in Message, ClientRead(m) PROVE SystemInv'
  <2> USE <1>6 DEF ClientRead
  <2>1. TInv'
    BY TypeNext DEF SystemInv, Next, Environment
  <2>2. UNCHANGED <<requests, req, atomicLong, pc>>
    BY DEF ChannelRead0, callVars
  <2> QED
    BY <2>1, <2>2, ClientKeeps
<1>7. ASSUME NEW s \in Slot, Cut(s) PROVE SystemInv'
  <2> USE <1>7 DEF Cut
  <2>1. TInv'
    BY TypeNext DEF SystemInv, Next, Environment
  <2>2. UNCHANGED <<requests, req, atomicLong, pc>>
    BY DEF Disconnect, callVars, netVars
  <2> QED
    BY <2>1, <2>2, ClientKeeps
<1>8. CASE SystemQuiescent \/ UNCHANGED systemVars
  <2> USE <1>8 DEF SystemQuiescent, Quiescent, systemVars
  <2>1. TInv'
    BY TypeNext DEF SystemInv
  <2>2. UNCHANGED <<requests, req, atomicLong, pc>>
    BY DEF vars
  <2> QED
    BY <2>1, <2>2, ClientKeeps
<1>9. ASSUME NEW m \in Message, Deliver(m) PROVE SystemInv'
  <2> USE <1>9 DEF Deliver
  <2>1. /\ m \in requests /\ requests' = requests \ {m}
        /\ arrived' = arrived \cup {RequestOf(m)}
        /\ serverPending' = serverPending \cup {RequestOf(m)}
        /\ serverBusy' = serverBusy /\ answered' = answered
        /\ UNCHANGED <<poolVars, callVars, mapVars, responses, ringVars>>
    BY DEF S!ChannelRead0, S!Publish
  <2>2. TInv'
    BY <2>1, ServerKeepsTypes DEF SystemInv, TInv, TypeOK
  <2>3. ServerTypes'
    BY <2>1, SameMessage DEF SystemInv, ServerTypes
  <2>4. \A k \in Message : Sent(k)' <=> Sent(k)
    BY <2>1, SameMessage DEF Sent
  <2>5. FreshIds'
    BY <2>1, <2>4 DEF SystemInv, FreshIds, callVars
  <2>6. RequestOf(m) \notin arrived
    BY <2>1 DEF SystemInv, OneWay
  <2>7. OneWay'
    <3>1. \A k \in requests' : RequestOf(k) \notin arrived'
      BY <2>1, SameMessage DEF SystemInv, OneWay, TInv, TypeOK
    <3>2. /\ serverPending' \subseteq arrived'
          /\ \A w \in ServerWorker : serverBusy'[w] # NoEvent =>
                serverBusy'[w] \in arrived' /\ serverBusy'[w] \notin serverPending'
          /\ \A u, w \in ServerWorker :
                serverBusy'[u] # NoEvent /\ serverBusy'[u] = serverBusy'[w]
                    => u = w
      BY <2>1, <2>6 DEF SystemInv, OneWay
    <3>3. \A k \in answered' :
             /\ RequestOf(k) \in arrived'
             /\ RequestOf(k) \notin serverPending'
             /\ \A w \in ServerWorker : serverBusy'[w] # RequestOf(k)
      BY <2>1, <2>6 DEF SystemInv, OneWay
    <3> QED
      BY <3>1, <3>2, <3>3 DEF OneWay
  <2> QED
    BY <2>2, <2>3, <2>5, <2>7 DEF SystemInv
<1>10. ASSUME NEW w \in ServerWorker, HandleStep(w) PROVE SystemInv'
  <2>1. UNCHANGED <<vars, answered, arrived>>
    BY <1>10, HandleEffect
  <2>2. TInv'
    BY <2>1, ServerKeepsTypes
       DEF SystemInv, TInv, TypeOK, vars, poolVars, callVars, mapVars, ringVars
  <2>3. FreshIds'
    BY <2>1 DEF SystemInv, FreshIds, Sent, vars
  <2>4. requests' = requests
    BY <2>1 DEF vars
  <2>5. CASE \E r \in serverPending :
                /\ serverPending' = serverPending \ {r}
                /\ serverBusy' = [serverBusy EXCEPT ![w] = r]
    <3>1. PICK r \in serverPending :
                /\ serverPending' = serverPending \ {r}
                /\ serverBusy' = [serverBusy EXCEPT ![w] = r]
      BY <2>5
    <3>2. ServerTypes'
      BY <2>1, <3>1 DEF SystemInv, ServerTypes
    <3>3. OneWay'
      BY <2>1, <2>4, <3>1 DEF SystemInv, ServerTypes, OneWay
    <3> QED
      BY <2>2, <2>3, <3>2, <3>3 DEF SystemInv
  <2>6. CASE \/ /\ serverPending' = serverPending
                /\ serverBusy' = [serverBusy EXCEPT ![w] = NoEvent]
             \/ UNCHANGED <<serverPending, serverBusy>>
    <3>1. ServerTypes'
      BY <2>1, <2>6 DEF SystemInv, ServerTypes
    <3>2. \A k \in Message : RequestOf(k) # NoEvent
      BY SameMessage, NoRequestAssumption
    <3>3. OneWay'
      BY <2>1, <2>4, <2>6, <3>2 DEF SystemInv, ServerTypes, OneWay
    <3> QED
      BY <2>2, <2>3, <3>1, <3>3 DEF SystemInv
  <2> QED
    BY <1>10, <2>5, <2>6, HandleEffect
<1>11. ASSUME NEW w \in ServerWorker, Respond(w) PROVE SystemInv'
  <2> USE <1>11 DEF Respond
  <2> DEFINE m == MessageOf(serverBusy[w])
  <2>1. /\ serverBusy[w] # NoEvent
        /\ arrived' = arrived /\ serverPending' = serverPending
        /\ serverBusy' = [serverBusy EXCEPT ![w] = NoEvent]
        /\ UNCHANGED <<poolVars, callVars, mapVars, requests, ringVars>>
    BY DEF S!Reply, S!Finish
  <2>2. /\ responses' \subseteq responses \cup {m}
        /\ answered' \subseteq answered \cup {m}
    OBVIOUS
  <2>3. m \in Message /\ RequestOf(m) = serverBusy[w]
    BY <2>1, SameMessage DEF SystemInv, ServerTypes
  <2> HIDE DEF m
  <2>4. TInv'
    BY <2>1, <2>2, <2>3, ServerKeepsTypes DEF SystemInv, TInv, TypeOK
  <2>5. ServerTypes'
    BY <2>1, <2>2, <2>3 DEF SystemInv, ServerTypes
  <2>6. FreshIds'
    BY <2>1 DEF SystemInv, FreshIds, Sent, callVars
  <2>7. \A k \in Message : RequestOf(k) # NoEvent
    BY SameMessage, NoRequestAssumption
  <2>8. OneWay'
    BY <2>1, <2>2, <2>3, <2>7 DEF SystemInv, ServerTypes, OneWay
  <2> QED
    BY <2>4, <2>5, <2>6, <2>8 DEF SystemInv
<1> QED
  BY <1>1, <1>2, <1>3, <1>4, <1>5, <1>6, <1>7, <1>8, <1>9, <1>10, <1>11
     DEF SystemNext, ThreadStep, ServerStep, InvokeStep

LEMMA SystemInvariant == SystemSpec => []SystemInv
  BY SystemInvInit, SystemInvNext, PTL DEF SystemSpec

-----------------------------------------------------------------------------
(* The refinement.                                                         *)

LEMMA WireStart == SystemInit => Client!Init
<1> SUFFICES ASSUME SystemInit PROVE Client!Init
  OBVIOUS
<1>1. Wire = {}
  BY DEF SystemInit, Init, S!Init, Wire, Unanswered
<1> QED
  BY <1>1 DEF SystemInit, Init, Wire, Unanswered, Client!Init, PoolInit,
       QueueInit, Client!PoolInit, Client!QueueInit, Client!RequestId, RequestId

(* A step that leaves the messages alone leaves those of the client model  *)
(* alone.                                                                  *)
LEMMA SameWire ==
  ASSUME UNCHANGED <<requests, arrived, answered>> PROVE Wire' = Wire
  BY DEF Wire, Unanswered

(* A step of a thread that sends no request is the same step of the client *)
(* model.                                                                  *)
LEMMA SameThreadStep ==
  ASSUME NEW t \in Thread, UNCHANGED <<arrived, answered>>,
         \/ Invoke(t) \/ PollIdle(t) \/ Create(t) \/ Connect(t)
         \/ ConnectRefused(t) \/ ConnectInterrupted(t) \/ TakeIdle(t)
         \/ TakeInterrupted(t) \/ Register(t) \/ Receive(t) \/ GiveUp(t)
         \/ GiveBack(t) \/ Remove(t)
  PROVE  Client!Invoke(t) \/ Client!CallStep(t)
<1> USE SameWire DEF Wire, Unanswered, Goto, Client!Goto, netVars,
        Client!netVars, poolVars, Client!poolVars, mapVars, Client!mapVars,
        ringVars, Client!ringVars
<1>1. CASE Invoke(t)
  BY <1>1 DEF Invoke, Client!Invoke, NextRequestId, Client!NextRequestId
<1>2. CASE PollIdle(t)
  BY <1>2 DEF PollIdle, Client!PollIdle, LendFirst, Client!LendFirst,
              Client!CallStep
<1>3. CASE Create(t)
  BY <1>3 DEF Create, Client!Create, StartCreate, Client!StartCreate,
              Exhausted, Client!Exhausted, Client!CallStep
<1>4. CASE Connect(t)
  BY <1>4 DEF Connect, Client!Connect, Created, Client!Created,
              Client!CallStep
<1>5. CASE ConnectRefused(t)
  BY <1>5 DEF ConnectRefused, Client!ConnectRefused, Refused, Client!Refused,
              Client!CallStep
<1>6. CASE ConnectInterrupted(t)
  BY <1>6 DEF ConnectInterrupted, Client!ConnectInterrupted, Created,
              Client!Created, Client!CallStep
<1>7. CASE TakeIdle(t)
  BY <1>7 DEF TakeIdle, Client!TakeIdle, LendFirst, Client!LendFirst,
              Client!CallStep
<1>8. CASE TakeInterrupted(t)
  BY <1>8 DEF TakeInterrupted, Client!TakeInterrupted, Client!CallStep
<1>9. CASE Register(t)
  BY <1>9 DEF Register, Client!Register, Client!CallStep
<1>10. CASE Receive(t)
  BY <1>10 DEF Receive, Client!Receive, Client!CallStep
<1>11. CASE GiveUp(t)
  BY <1>11 DEF GiveUp, Client!GiveUp, Client!CallStep
<1>12. CASE GiveBack(t)
  BY <1>12 DEF GiveBack, Client!GiveBack, ReturnObject, Client!ReturnObject,
               Client!CallStep
<1>13. CASE Remove(t)
  BY <1>13 DEF Remove, Client!Remove, Client!CallStep
<1> QED
  BY <1>1, <1>2, <1>3, <1>4, <1>5, <1>6, <1>7,
     <1>8, <1>9, <1>10, <1>11, <1>12, <1>13

(* Sending adds to the requests of both.                                   *)
LEMMA SameSend ==
  ASSUME NEW t \in Thread, Send(t), UNCHANGED <<arrived, answered>>
  PROVE  Client!Send(t)
<1> DEFINE n == [id |-> req[t], by |-> t, on |-> chan[t]]
<1>1. Wire' = Wire \cup {n}
  BY DEF Send, Wire, Unanswered
<1> QED
  BY <1>1 DEF Send, Client!Send, Wire, Unanswered, Goto, Client!Goto, poolVars,
       Client!poolVars, mapVars, Client!mapVars, ringVars, Client!ringVars

(* The client's workers, its channels and their failures.                  *)
LEMMA SameWorkerStep ==
  ASSUME NEW w \in Worker, WorkerStep(w), UNCHANGED <<arrived, answered>>
  PROVE  Client!WorkerStep(w)
<1> USE SameWire DEF Wire, Unanswered, netVars, Client!netVars, poolVars,
        Client!poolVars, mapVars, Client!mapVars, callVars, Client!callVars
<1>1. CASE \E m \in Message : OnEvent(w, m)
  BY <1>1 DEF OnEvent, Client!OnEvent, Take, Client!Take, Client!WorkerStep,
              Message, Client!Message, RequestId, Client!RequestId
<1>2. CASE LookUp(w)
  BY <1>2 DEF LookUp, Client!LookUp, Client!WorkerStep
<1>3. CASE Drop(w)
  BY <1>3 DEF Drop, Client!Drop, Finish, Client!Finish, Client!WorkerStep
<1>4. CASE Put(w)
  BY <1>4 DEF Put, Client!Put, Finish, Client!Finish, Client!WorkerStep
<1> QED
  BY <1>1, <1>2, <1>3, <1>4 DEF WorkerStep

LEMMA SameRead ==
  ASSUME NEW m \in Message, ChannelRead0(m), UNCHANGED <<arrived, answered>>
  PROVE  Client!ChannelRead0(m)
  BY SameWire
     DEF ChannelRead0, Client!ChannelRead0, Publish, Client!Publish, Wire,
         Unanswered, poolVars, Client!poolVars, mapVars, Client!mapVars,
         callVars, Client!callVars

LEMMA SameDisconnect ==
  ASSUME NEW s \in Slot, Disconnect(s), UNCHANGED <<arrived, answered>>
  PROVE  Client!Disconnect(s)
  BY SameWire
     DEF Disconnect, Client!Disconnect, Break, Client!Break, Wire, Unanswered,
         netVars, Client!netVars, mapVars, Client!mapVars, callVars,
         Client!callVars, ringVars, Client!ringVars

(* A step that changes nothing the client model sees.                      *)
LEMMA Unseen ==
  ASSUME Wire' = Wire,
         UNCHANGED <<poolVars, callVars, mapVars, responses, ringVars>>
  PROVE  UNCHANGED Client!vars
  BY DEF Wire, Unanswered, Client!vars, poolVars, callVars, mapVars, ringVars

(* When the server takes a request in, it becomes one the server has.      *)
LEMMA DeliverUnseen ==
  ASSUME SystemInv, NEW m \in Message, Deliver(m)
  PROVE  UNCHANGED Client!vars
<1>1. /\ m \in requests /\ requests' = requests \ {m}
      /\ arrived' = arrived \cup {RequestOf(m)} /\ answered' = answered
      /\ UNCHANGED <<poolVars, callVars, mapVars, responses, ringVars>>
  BY DEF Deliver, S!ChannelRead0
<1>2. RequestOf(m) \notin arrived
  BY <1>1 DEF SystemInv, OneWay
<1>3. m \notin answered
  BY <1>2 DEF SystemInv, OneWay
<1>4. Wire' = Wire
  BY <1>1, <1>3, SameMessage DEF Wire, Unanswered
<1> QED
  BY <1>1, <1>4, Unseen

(* A response that goes out on an open channel is the Serve of the client  *)
(* model; any other end of a request looks to it like a slow server.       *)
LEMMA RespondServes ==
  ASSUME SystemInv, NEW w \in ServerWorker, Respond(w)
  PROVE  Client!Next \/ UNCHANGED Client!vars
<1> DEFINE m == MessageOf(serverBusy[w])
<1>1. /\ serverBusy[w] # NoEvent
      /\ UNCHANGED <<arrived, poolVars, callVars, mapVars, requests, ringVars>>
  BY DEF Respond, S!Reply, S!Finish
<1>2. \/ /\ link[m.on] = "up"
         /\ responses' = responses \cup {m}
         /\ answered' = answered \cup {m}
      \/ UNCHANGED <<responses, answered>>
  BY DEF Respond
<1>3. m \in Message /\ RequestOf(m) = serverBusy[w]
  BY <1>1, SameMessage DEF SystemInv, ServerTypes
<1> HIDE DEF m
<1>4. RequestOf(m) \in arrived /\ m \notin answered /\ m \notin requests
  BY <1>1, <1>3 DEF SystemInv, OneWay
<1>5. CASE /\ link[m.on] = "up"
           /\ responses' = responses \cup {m}
           /\ answered' = answered \cup {m}
  <2>1. PICK k \in Message : k = m
    BY <1>3
  <2>2. k \in Wire /\ Wire' = Wire \ {k}
    BY <1>1, <1>4, <1>5, <2>1 DEF Wire, Unanswered
  <2>3. Client!Serve(k)
    BY <1>1, <1>5, <2>1, <2>2
       DEF Client!Serve, Wire, Unanswered, poolVars, Client!poolVars, callVars,
           Client!callVars, mapVars, Client!mapVars, ringVars, Client!ringVars
  <2> QED
    BY <2>3 DEF Client!Next, Client!Environment, Message, Client!Message,
       RequestId, Client!RequestId
<1>6. CASE UNCHANGED <<responses, answered>>
  <2>1. Wire' = Wire
    BY <1>1, <1>6, SameWire
  <2> QED
    BY <1>1, <1>6, <2>1, Unseen
<1> QED
  BY <1>2, <1>5, <1>6

LEMMA StepRefines ==
  SystemInv /\ [SystemNext]_systemVars => [Client!Next]_(Client!vars)
<1> SUFFICES ASSUME SystemInv, [SystemNext]_systemVars
             PROVE  Client!Next \/ UNCHANGED Client!vars
  OBVIOUS
<1>1. ASSUME NEW t \in Thread, StubInvoke(t) \/ ThreadStep(t)
      PROVE  Client!Next
  <2>1. UNCHANGED <<arrived, answered>>
    BY <1>1 DEF StubInvoke, ThreadStep, InvokeStep, StubReturns, serverVars
  <2>2. CASE Send(t)
    BY <2>1, <2>2, SameSend DEF Client!Next, Client!CallStep
  <2>3. CASE ~Send(t)
    <3>1. Client!Invoke(t) \/ Client!CallStep(t)
      BY <1>1, <2>1, <2>3, SameThreadStep
         DEF StubInvoke, ThreadStep, InvokeStep, StubReturns
    <3> QED
      BY <3>1 DEF Client!Next
  <2> QED
    BY <2>2, <2>3
<1>2. ASSUME NEW w \in Worker, ConsumeStep(w) PROVE Client!Next
  BY <1>2, SameWorkerStep DEF ConsumeStep, serverVars, Client!Next
<1>3. ASSUME NEW m \in Message, ClientRead(m) PROVE Client!Next
  <2>1. Client!ChannelRead0(m)
    BY <1>3, SameRead DEF ClientRead, serverVars
  <2> QED
    BY <2>1 DEF Client!Next, Client!Environment, Message, Client!Message,
       RequestId, Client!RequestId
<1>4. ASSUME NEW s \in Slot, Cut(s) PROVE Client!Next
  <2>1. Client!Disconnect(s)
    BY <1>4, SameDisconnect DEF Cut, serverVars
  <2> QED
    BY <2>1 DEF Client!Next, Client!Environment
<1>5. CASE SystemQuiescent \/ UNCHANGED systemVars
  <2>1. UNCHANGED <<vars, arrived, answered>>
    BY <1>5 DEF SystemQuiescent, Quiescent, systemVars, serverVars, vars
  <2> QED
    BY <2>1, SameWire, Unseen
       DEF vars, poolVars, callVars, mapVars, ringVars
<1>6. ASSUME NEW w \in ServerWorker, HandleStep(w) PROVE UNCHANGED Client!vars
  <2>1. UNCHANGED <<vars, arrived, answered>>
    BY <1>6, HandleEffect
  <2> QED
    BY <2>1, SameWire, Unseen
       DEF vars, poolVars, callVars, mapVars, ringVars
<1> QED
  BY <1>1, <1>2, <1>3, <1>4, <1>5, <1>6, DeliverUnseen, RespondServes
     DEF SystemNext, ServerStep

(* Every behaviour of client and server together is one of the client      *)
(* model, with an answer to any request at most once or never: whatever    *)
(* the server's ring, its workers, the race on methodCache and its         *)
(* swallowed exceptions do.                                                *)
THEOREM SystemImplementsClient == SystemSpec => ImplementsClientCall
<1>1. SystemInv /\ [SystemNext]_systemVars => [Client!Next]_(Client!vars)
  BY StepRefines
<1> QED
  BY <1>1, WireStart, SystemInvariant, PTL
     DEF SystemSpec, ImplementsClientCall, Client!Spec

-----------------------------------------------------------------------------
(* What ServerDispatchProofs shows of a server holds of this one.          *)
Server == INSTANCE ServerDispatchProofs WITH
    Worker <- ServerWorker, pending <- serverPending, busy <- serverBusy

LEMMA ServerAssumed == Server!ServerAssumption
  BY RpcAssumption, NoRequestAssumption DEF Server!ServerAssumption

LEMMA SameServerInit == S!Init => Server!Init
  BY DEF S!Init, Server!Init, S!QueueInit, Server!QueueInit, S!Name,
         Server!Name

LEMMA SameArrival ==
  ASSUME NEW r, S!ChannelRead0(r) PROVE Server!ChannelRead0(r)
  BY DEF S!ChannelRead0, Server!ChannelRead0, S!Publish, Server!Publish

LEMMA SameCount ==
  /\ S!Cached = Server!Cached
  /\ S!Cardinality(S!Cached) = Server!Cardinality(Server!Cached)
<1>1. S!Cached = Server!Cached
  BY DEF S!Cached, Server!Cached, S!Name, Server!Name
<1>2. S!Cardinality(S!Cached) = Server!Cardinality(S!Cached)
  BY Zenon DEF S!Cardinality, Server!Cardinality
<1> QED
  BY <1>1, <1>2

LEMMA SameServerStep ==
  ASSUME NEW w \in ServerWorker, HandleStep(w) \/ S!Reply(w)
  PROVE  Server!WorkerStep(w)
<1> USE DEF S!Goto, Server!Goto, S!Finish, Server!Finish, S!Fail, Server!Fail,
        S!CacheKey, Server!CacheKey, S!BeginInvoke, Server!BeginInvoke,
        S!Requested, Server!Requested
<1>1. CASE \E m \in Message : S!OnEvent(w, RequestOf(m))
  BY <1>1 DEF S!OnEvent, Server!OnEvent, S!Take, Server!Take,
              Server!WorkerStep, Request
<1>2. CASE S!NoService(w)
  BY <1>2 DEF S!NoService, Server!NoService, Server!WorkerStep
<1>3. CASE S!ContainsKey(w)
  BY <1>3, SameCount DEF S!ContainsKey, Server!ContainsKey, Server!WorkerStep
<1>4. CASE S!Get(w)
  <2>1. /\ wpc[w] = "get"
        /\ methodCache[serverBusy[w].name] # NoMethod
        /\ S!Accepts(methodCache[serverBusy[w].name], serverBusy[w])
        /\ S!BeginInvoke(w, S!Invoked(methodCache[serverBusy[w].name],
                                      serverBusy[w]))
        /\ S!Goto(w, "invoke")
    BY <1>4, Zenon DEF S!Get
  <2>2. Server!Accepts(methodCache[serverBusy[w].name], serverBusy[w])
    BY <2>1 DEF S!Accepts, Server!Accepts
  <2>3. Server!BeginInvoke(w, Server!Invoked(methodCache[serverBusy[w].name],
                                             serverBusy[w]))
    BY <2>1, Zenon
       DEF S!BeginInvoke, Server!BeginInvoke, S!Invoked, Server!Invoked
  <2>4. Server!Get(w)
    BY <2>1, <2>2, <2>3, Zenon DEF Server!Get
  <2> QED
    BY <2>4 DEF Server!WorkerStep
<1>5. CASE S!GetFails(w)
  BY <1>5, SameCount DEF S!GetFails, Server!GetFails, S!Accepts,
              Server!Accepts,
              S!Resizing, Server!Resizing, Server!WorkerStep
<1>6. CASE S!Resolve(w)
  BY <1>6 DEF S!Resolve, Server!Resolve, Server!WorkerStep
<1>7. CASE S!NoSuchMethod(w)
  BY <1>7 DEF S!NoSuchMethod, Server!NoSuchMethod, Server!WorkerStep
<1>8. CASE S!Return(w)
  <2>1. Server!Return(w)
    BY <1>8, SameCount, Zenon DEF S!Return, Server!Return
  <2> QED
    BY <2>1 DEF Server!WorkerStep
<1>9. CASE S!Throw(w)
  BY <1>9 DEF S!Throw, Server!Throw, Server!WorkerStep
<1>10. CASE S!Put(w)
  <2>1. S!Losable(w) = Server!Losable(w)
    BY SameCount DEF S!Losable, Server!Losable, S!Putting, Server!Putting,
                     S!Name, Server!Name
  <2> QED
    BY <1>10, <2>1 DEF S!Put, Server!Put, S!Name, Server!Name,
                       Server!WorkerStep
<1>11. CASE S!Reply(w)
  BY <1>11 DEF S!Reply, Server!Reply, Server!WorkerStep
<1> QED
  BY <1>1, <1>2, <1>3, <1>4, <1>5, <1>6, <1>7, <1>8, <1>9, <1>10, <1>11
     DEF HandleStep

LEMMA SameServerNext ==
  [SystemNext]_systemVars => [Server!Next]_(Server!vars)
<1> SUFFICES ASSUME [SystemNext]_systemVars
             PROVE  Server!Next \/ UNCHANGED Server!vars
  OBVIOUS
<1>1. ASSUME UNCHANGED serverVars PROVE UNCHANGED Server!vars
  BY <1>1 DEF serverVars, Server!vars
<1>2. ASSUME NEW t \in Thread, StubInvoke(t) \/ ThreadStep(t)
      PROVE  UNCHANGED serverVars
  BY <1>2 DEF StubInvoke, ThreadStep, InvokeStep, StubReturns
<1>3. ASSUME NEW w \in Worker, ConsumeStep(w) PROVE UNCHANGED serverVars
  BY <1>3 DEF ConsumeStep
<1>4. ASSUME NEW m \in Message, ClientRead(m) PROVE UNCHANGED serverVars
  BY <1>4 DEF ClientRead
<1>5. ASSUME NEW s \in Slot, Cut(s) PROVE UNCHANGED serverVars
  BY <1>5 DEF Cut
<1>6. ASSUME SystemQuiescent \/ UNCHANGED systemVars PROVE UNCHANGED serverVars
  BY <1>6 DEF SystemQuiescent, systemVars
<1>7. ASSUME NEW m \in Message, Deliver(m) PROVE Server!Next
  <2>1. Server!ChannelRead0(RequestOf(m)) /\ RequestOf(m) \in Request
    BY <1>7, SameArrival DEF Deliver, Request
  <2> QED
    BY <2>1 DEF Server!Next
<1>8. ASSUME NEW w \in ServerWorker, ServerStep(w) PROVE Server!Next
  BY <1>8, SameServerStep DEF ServerStep, Respond, Server!Next
<1> QED
  BY <1>1, <1>2, <1>3, <1>4, <1>5, <1>6, <1>7, <1>8 DEF SystemNext

(* What is shown of the server's steps holds of the system's.              *)
LEMMA ServerInvariant == SystemSpec => []Server!IInv
<1>1. SystemInit => Server!IInv
  BY SameServerInit, ServerAssumed, Server!InvInit
     DEF SystemInit, Server!InvInit
<1>2. Server!IInv /\ [SystemNext]_systemVars => Server!IInv'
  BY SameServerNext, ServerAssumed, Server!InvNext DEF Server!InvNext
<1> QED
  BY <1>1, <1>2, PTL DEF SystemSpec

StubTypes == outcome \in [Thread -> Outcome]

LEMMA StubResultTypes ==
  ASSUME replies \subseteq Request \X Methods, NEW t \in Thread
  PROVE  StubResult(t) \subseteq Outcome
<1>1. NullResponse(t) \in Outcome /\ Exception \in Outcome
  BY DEF NullResponse, Null, Exception, Outcome
<1>2. \A x \in replies : ResultOf(x[2]) \subseteq Outcome
  BY DEF ResultOf, Null, Outcome
<1> QED
  BY <1>1, <1>2 DEF StubResult

LEMMA StubTypesNext ==
  Server!IInv /\ StubTypes /\ [SystemNext]_systemVars => StubTypes'
<1> SUFFICES ASSUME Server!IInv, StubTypes, [SystemNext]_systemVars
             PROVE  StubTypes'
  OBVIOUS
<1>1. replies \subseteq Request \X Methods
  BY DEF Server!IInv, Server!TypeOK
<1>2. {Nothing, Null, Exception} \subseteq Outcome
  BY DEF Nothing, Null, Exception, Outcome
<1>3. ASSUME NEW t \in Thread, NEW o \in Outcome, StubEnds(t, o)
      PROVE  StubTypes'
  BY <1>3 DEF StubTypes, StubEnds
<1>4. ASSUME NEW t \in Thread, StubInvoke(t) \/ StubReturns(t)
      PROVE  StubTypes'
  <2>1. NullResponse(t) \in Outcome /\ StubResult(t) \subseteq Outcome
    BY <1>1, <1>2, StubResultTypes DEF NullResponse
  <2> QED
    BY <1>2, <1>3, <1>4, <2>1 DEF StubInvoke, StubReturns
<1>5. ASSUME outcome' = outcome PROVE StubTypes'
  BY <1>5 DEF StubTypes
<1> QED
  BY <1>4, <1>5
     DEF SystemNext, ThreadStep, InvokeStep, ConsumeStep, ClientRead, Deliver,
         Cut, ServerStep, HandleStep, Respond, SystemQuiescent, systemVars

(* Every variable of client, server and stubs keeps its type.              *)
THEOREM SystemTypeCorrect == SystemSpec => []SystemTypeOK
<1>1. SystemInit => StubTypes
  BY DEF SystemInit, StubTypes, Nothing, Outcome
<1>2. SystemInv /\ Server!IInv /\ StubTypes => SystemTypeOK
  <2>1. Server!TypeOK => S!TypeOK
    BY DEF Server!TypeOK, S!TypeOK, Server!QueueTypeOK, S!QueueTypeOK,
           Server!Name, S!Name
  <2> QED
    BY <2>1 DEF SystemInv, TInv, ServerTypes, Server!IInv, StubTypes,
                SystemTypeOK
<1> QED
  BY <1>1, <1>2, StubTypesNext, ServerInvariant, SystemInvariant, PTL
     DEF SystemSpec

-----------------------------------------------------------------------------
(* A call has one message, which its own thread has sent.                  *)
CallsInv ==
    /\ IdInv
    /\ \A m, n \in Message : Sent(m) /\ Sent(n) /\ m.id = n.id => m = n
    /\ \A m \in Message, t \in Thread : Sent(m) /\ m.id = req[t] => m.by = t

(* Every response, wherever it is, is to a request that has arrived, and   *)
(* is handed to the call it carries the id of.                             *)
FromServer ==
    /\ \A m \in responses \cup pending : RequestOf(m) \in arrived
    /\ \A w \in Worker : busy[w] # NoEvent => RequestOf(busy[w]) \in arrived
    /\ \A i \in RequestId : \A m \in queue[i] :
          m.id = i /\ RequestOf(m) \in arrived
    /\ \A t \in Thread : answer[t] # NoEvent =>
          answer[t].id = req[t] /\ RequestOf(answer[t]) \in arrived

(* What a step does to the ids and to the requests sent.                   *)
LEMMA IdsAndRequests ==
  ASSUME SystemInv, [SystemNext]_systemVars
  PROVE  \/ \E t \in Thread :
              /\ req' = [req EXCEPT ![t] = atomicLong + 1]
              /\ atomicLong' = atomicLong + 1
              /\ \A m \in Message : Sent(m)' <=> Sent(m)
         \/ \E t \in Thread, n \in Message :
              /\ n.id = req[t] /\ n.by = t /\ ~ Sent(n)
              /\ \A m \in Message : m.by = t /\ m.id = req[t] => ~ Sent(m)
              /\ req[t] # 0
              /\ \A m \in Message : Sent(m)' <=> Sent(m) \/ m = n
              /\ UNCHANGED <<req, atomicLong>>
         \/ /\ UNCHANGED <<req, atomicLong>>
            /\ \A m \in Message : Sent(m)' <=> Sent(m)
<1> USE DEF Sent
<1>1. ASSUME NEW t \in Thread, StubInvoke(t)
      PROVE  /\ req' = [req EXCEPT ![t] = atomicLong + 1]
             /\ atomicLong' = atomicLong + 1
             /\ \A m \in Message : Sent(m)' <=> Sent(m)
  BY <1>1 DEF StubInvoke, Invoke, NextRequestId, netVars, serverVars
<1>2. ASSUME NEW t \in Thread, Send(t), UNCHANGED serverVars
      PROVE  \E n \in Message :
              /\ n.id = req[t] /\ n.by = t /\ ~ Sent(n)
              /\ \A m \in Message : m.by = t /\ m.id = req[t] => ~ Sent(m)
              /\ req[t] # 0
              /\ \A m \in Message : Sent(m)' <=> Sent(m) \/ m = n
              /\ UNCHANGED <<req, atomicLong>>
  <2> DEFINE n == [id |-> req[t], by |-> t, on |-> chan[t]]
  <2>1. /\ pc[t] = "send" /\ requests' = requests \cup {n}
        /\ arrived' = arrived /\ req' = req /\ atomicLong' = atomicLong
    BY <1>2 DEF Send, serverVars
  <2>2. n \in Message /\ n.id = req[t] /\ n.by = t /\ req[t] # 0
    BY <2>1, ClientAssumption
       DEF SystemInv, TInv, CallOK, Message, RequestId
  <2>3. \A m \in Message : m.by = t /\ m.id = req[t] => ~ Sent(m)
    BY <2>1 DEF SystemInv, FreshIds, Unsent
  <2> HIDE DEF n
  <2> QED
    BY <2>1, <2>2, <2>3
<1>3. ASSUME NEW t \in Thread, StubReturns(t) \/ (InvokeStep(t) /\ ~ Send(t))
      PROVE  UNCHANGED <<req, atomicLong, requests, arrived>>
  BY <1>3
     DEF StubReturns, InvokeStep, serverVars, Remove, ConnectRefused,
         TakeInterrupted, ConnectInterrupted, PollIdle, Create, Connect,
         TakeIdle, Register, Receive, GiveUp, GiveBack, netVars
<1>4. ASSUME NEW w \in Worker, ConsumeStep(w)
      PROVE  UNCHANGED <<req, atomicLong, requests, arrived>>
  BY <1>4 DEF ConsumeStep, serverVars, WorkerStep, OnEvent, LookUp, Drop, Put,
              netVars, callVars
<1>5. ASSUME NEW m \in Message, Deliver(m)
      PROVE  /\ UNCHANGED <<req, atomicLong>>
             /\ \A k \in Message : Sent(k)' <=> Sent(k)
  <2>1. /\ requests' = requests \ {m} /\ m \in requests
        /\ arrived' = arrived \cup {RequestOf(m)}
        /\ UNCHANGED <<req, atomicLong>>
    BY <1>5 DEF Deliver, S!ChannelRead0, callVars
  <2> QED
    BY <2>1, SameMessage
<1>6. ASSUME \/ \E m \in Message : ClientRead(m)
             \/ \E s \in Slot : Cut(s)
             \/ SystemQuiescent \/ UNCHANGED systemVars
      PROVE  UNCHANGED <<req, atomicLong, requests, arrived>>
  BY <1>6 DEF ClientRead, ChannelRead0, Cut, Disconnect, SystemQuiescent,
              Quiescent, systemVars, vars, serverVars, netVars, callVars
<1>7. ASSUME NEW w \in ServerWorker, ServerStep(w)
      PROVE  UNCHANGED <<req, atomicLong, requests, arrived>>
  BY <1>7, HandleEffect DEF ServerStep, Respond, S!Reply, vars, callVars
<1> QED
  BY <1>1, <1>2, <1>3, <1>4, <1>5, <1>6, <1>7
     DEF SystemNext, ThreadStep, InvokeStep

LEMMA CallsNext ==
  ASSUME SystemInv, CallsInv, [SystemNext]_systemVars PROVE CallsInv'
<1>1. /\ atomicLong \in Nat /\ req \in [Thread -> Nat]
      /\ \A m \in Message : m.id \in Nat
  BY ClientAssumption DEF SystemInv, TInv, TypeOK, Message, RequestId
<1>2. CASE \E t \in Thread :
              /\ req' = [req EXCEPT ![t] = atomicLong + 1]
              /\ atomicLong' = atomicLong + 1
              /\ \A m \in Message : Sent(m)' <=> Sent(m)
  <2>1. IdInv'
    BY <1>1, <1>2 DEF CallsInv, IdInv
  <2>2. \A m \in Message : Sent(m) => m.id <= atomicLong
    BY DEF SystemInv, FreshIds
  <2>3. \A m \in Message, t \in Thread : Sent(m)' /\ m.id = req'[t] => m.by = t
    BY <1>1, <1>2, <2>2 DEF CallsInv
  <2> QED
    BY <1>2, <2>1, <2>3 DEF CallsInv
<1>3. CASE \E t \in Thread, n \in Message :
              /\ n.id = req[t] /\ n.by = t /\ ~ Sent(n)
              /\ \A m \in Message : m.by = t /\ m.id = req[t] => ~ Sent(m)
              /\ req[t] # 0
              /\ \A m \in Message : Sent(m)' <=> Sent(m) \/ m = n
              /\ UNCHANGED <<req, atomicLong>>
  <2>1. IdInv'
    BY <1>3 DEF CallsInv, IdInv
  <2>2. \A m, n \in Message : Sent(m)' /\ Sent(n)' /\ m.id = n.id => m = n
    BY <1>3 DEF CallsInv
  <2>3. \A m \in Message, t \in Thread : Sent(m)' /\ m.id = req'[t] => m.by = t
    BY <1>3 DEF CallsInv, IdInv
  <2> QED
    BY <2>1, <2>2, <2>3 DEF CallsInv
<1>4. CASE /\ UNCHANGED <<req, atomicLong>>
           /\ \A m \in Message : Sent(m)' <=> Sent(m)
  BY <1>4 DEF CallsInv, IdInv
<1> QED
  BY <1>2, <1>3, <1>4, IdsAndRequests

LEMMA FromServerNext ==
  ASSUME SystemInv, FromServer, [SystemNext]_systemVars PROVE FromServer'
<1> USE DEF FromServer, SystemInv, TInv, TypeOK, QueueTypeOK
<1>0. /\ answer \in [Thread -> Message \cup {NoEvent}]
      /\ queue \in [RequestId -> SUBSET Message]
      /\ busy \in [Worker -> Message \cup {NoEvent}]
      /\ \A m \in Message : m # NoEvent /\ m.id \in RequestId
  BY NoEventAssumption DEF Message
<1>1. ASSUME NEW t \in Thread, StubInvoke(t) PROVE FromServer'
  BY <1>0, <1>1 DEF StubInvoke, Invoke, serverVars, mapVars, netVars, ringVars
<1>2. ASSUME NEW t \in Thread, Register(t), UNCHANGED serverVars
      PROVE  FromServer'
  BY <1>0, <1>2 DEF Register, serverVars, netVars, ringVars
<1>3. ASSUME NEW t \in Thread, Receive(t), UNCHANGED serverVars
      PROVE  FromServer'
  <2>1. PICK m \in queue[req[t]] :
              /\ queue' = [queue EXCEPT ![req[t]] = {}]
              /\ answer' = [answer EXCEPT ![t] = m]
    BY <1>3 DEF Receive
  <2>2. req[t] \in RequestId
    BY <1>3 DEF Receive, CallOK
  <2> QED
    BY <1>0, <1>3, <2>1, <2>2 DEF Receive, serverVars, netVars, ringVars
<1>4. ASSUME NEW t \in Thread,
             StubReturns(t) \/ (InvokeStep(t) /\ ~ Register(t) /\ ~ Receive(t))
      PROVE  UNCHANGED <<responses, pending, busy, queue, answer, req,
                             arrived>>
  BY <1>4
     DEF StubReturns, InvokeStep, serverVars, Remove, ConnectRefused,
         TakeInterrupted, ConnectInterrupted, PollIdle, Create, Connect,
         TakeIdle, Send, GiveUp, GiveBack, netVars, mapVars, ringVars
<1>5. ASSUME NEW w \in Worker, ConsumeStep(w) PROVE FromServer'
  <2> USE <1>5 DEF ConsumeStep, serverVars, callVars, netVars, mapVars
  <2>1. CASE \E m \in Message : OnEvent(w, m)
    BY <1>0, <2>1 DEF OnEvent, Take
  <2>2. CASE LookUp(w)
    BY <2>2 DEF LookUp
  <2>3. CASE Drop(w)
    BY <1>0, <2>3 DEF Drop, Finish
  <2>4. CASE Put(w)
    <3>1. /\ queue' = [queue EXCEPT ![busy[w].id] = {busy[w]}]
          /\ busy[w] # NoEvent /\ busy' = [busy EXCEPT ![w] = NoEvent]
          /\ UNCHANGED <<pending, responses, answer, req, arrived>>
      BY <2>4 DEF Put, Finish
    <3>2. \A i \in RequestId : \A m \in queue'[i] :
              m.id = i /\ RequestOf(m) \in arrived
      BY <1>0, <3>1
    <3> QED
      BY <1>0, <3>1, <3>2
  <2> QED
    BY <2>1, <2>2, <2>3, <2>4 DEF WorkerStep
<1>6. ASSUME NEW m \in Message, ClientRead(m) PROVE FromServer'
  BY <1>6 DEF ClientRead, ChannelRead0, Publish, serverVars, callVars, mapVars
<1>7. ASSUME NEW m \in Message, Deliver(m) PROVE FromServer'
  BY <1>7 DEF Deliver, S!ChannelRead0, callVars, mapVars, ringVars
<1>8. ASSUME \/ \E s \in Slot : Cut(s)
             \/ \E w \in ServerWorker : HandleStep(w)
             \/ SystemQuiescent \/ UNCHANGED systemVars
      PROVE  UNCHANGED <<responses, pending, busy, queue, answer, req,
                             arrived>>
  BY <1>8, HandleEffect
     DEF Cut, Disconnect, SystemQuiescent, Quiescent, systemVars, vars,
         serverVars, netVars, callVars, mapVars, ringVars
<1>9. ASSUME NEW w \in ServerWorker, Respond(w) PROVE FromServer'
  <2> DEFINE m == MessageOf(serverBusy[w])
  <2>1. /\ serverBusy[w] # NoEvent
        /\ responses' \subseteq responses \cup {m}
        /\ UNCHANGED <<pending, busy, queue, answer, req, arrived>>
    BY <1>9 DEF Respond, S!Reply, S!Finish, callVars, mapVars, ringVars
  <2>2. RequestOf(m) = serverBusy[w] /\ serverBusy[w] \in arrived
    BY <2>1, SameMessage DEF ServerTypes, OneWay
  <2> HIDE DEF m
  <2> QED
    BY <2>1, <2>2
<1>10. ASSUME UNCHANGED <<responses, pending, busy, queue, answer, req,
                          arrived>>
       PROVE  FromServer'
  BY <1>10
<1> HIDE DEF FromServer, SystemInv, TInv, TypeOK, QueueTypeOK
<1> QED
  BY <1>1, <1>2, <1>3, <1>4, <1>5, <1>6, <1>7, <1>8, <1>9, <1>10
     DEF SystemNext, ThreadStep, ServerStep, InvokeStep

-----------------------------------------------------------------------------
(* The promise of the stubs.                                               *)

LEMMA TotalOfNone == \A e : Total(e, {}) = 0
  BY DEF Total, MapThenSumSet, MapThenFoldSet

LEMMA TotalOfOne ==
  ASSUME NEW e, NEW r, e[r] \in Nat PROVE Total(e, {r}) = e[r]
<1> DEFINE Step(f, s) == IF s = {} THEN 0
                         ELSE LET x == CHOOSE x \in s : TRUE
                              IN  e[x] + f[s \ {x}]
           Sum(f) == f = [s \in SUBSET {r} |-> Step(f, s)]
           g == [s \in SUBSET {r} |-> IF s = {} THEN 0 ELSE e[r]]
<1>1. \A s \in SUBSET {r} : s = {} \/ s = {r}
  OBVIOUS
<1>2. (CHOOSE x \in {r} : TRUE) = r
  OBVIOUS
<1>3. Sum(g)
  <2>1. g[{}] = 0 /\ g[{r}] = e[r] /\ {r} \ {r} = {}
    OBVIOUS
  <2>2. \A s \in SUBSET {r} : g[s] = Step(g, s)
    <3> HIDE DEF g
    <3>1. Step(g, {}) = 0
      OBVIOUS
    <3>2. Step(g, {r}) = e[r]
      BY <1>2, <2>1
    <3> HIDE DEF Step
    <3> QED
      BY <1>1, <2>1, <3>1, <3>2
  <2> HIDE DEF Step
  <2> QED
    BY <2>2
<1>4. PICK f : f = (CHOOSE h : Sum(h)) /\ Sum(f)
  <2> HIDE DEF Sum
  <2> QED
    BY <1>3
<1>5. f[{}] = 0
  <2>1. f[{}] = Step(f, {})
    BY <1>4
  <2> QED
    BY <2>1
<1>6. f[{r}] = e[r]
  <2>1. f[{r}] = Step(f, {r}) /\ {r} \ {r} = {}
    <3> HIDE DEF Step
    <3> QED
      BY <1>4
  <2> QED
    BY <1>2, <1>5, <2>1
<1>7. Total(e, {r}) = (CHOOSE h : Sum(h))[{r}]
  BY DEF Total, MapThenSumSet, MapThenFoldSet
<1> QED
  BY <1>4, <1>6, <1>7

PromiseInv ==
    /\ SystemInv
    /\ Server!RanInv
    /\ Server!CacheInv
    /\ CallsInv
    /\ FromServer

(* The requests of a call that have arrived are one.                       *)
LEMMA OneRequest ==
  ASSUME PromiseInv
  PROVE  /\ arrived \subseteq Request /\ executions \in [Request -> Nat]
         /\ \A q, r \in arrived : q.id = r.id => q = r
         /\ \A r \in arrived : r.id \in RequestId /\ r.id <= atomicLong
<1>1. arrived \subseteq Request /\ executions \in [Request -> Nat]
  BY DEF PromiseInv, Server!RanInv, Server!IInv, Server!TypeOK
<1>2. \A r \in arrived :
         /\ MessageOf(r) \in Message /\ Sent(MessageOf(r))
         /\ RequestOf(MessageOf(r)) = r /\ MessageOf(r).id = r.id
  BY <1>1, SameMessage DEF Sent, MessageOf
<1>3. \A q, r \in arrived : q.id = r.id => q = r
  BY <1>2 DEF PromiseInv, CallsInv
<1>4. \A r \in arrived : r.id \in RequestId /\ r.id <= atomicLong
  BY <1>2 DEF PromiseInv, SystemInv, FreshIds, Message
<1> QED
  BY <1>1, <1>3, <1>4

LEMMA RunsOfArrived ==
  ASSUME PromiseInv
  PROVE  /\ \A r \in arrived : RunsOf(r.id) = executions[r]
         /\ \A i : (\A r \in arrived : r.id # i) => RunsOf(i) = 0
<1>1. /\ arrived \in SUBSET Request /\ executions \in [Request -> Nat]
      /\ \A q, r \in arrived : q.id = r.id => q = r
  BY OneRequest
<1>2. ASSUME NEW r \in arrived PROVE RunsOf(r.id) = executions[r]
  <2>1. {q \in arrived : q.id = r.id} = {r} /\ executions[r] \in Nat
    BY <1>1
  <2> QED
    BY <2>1, TotalOfOne DEF RunsOf
<1>3. ASSUME NEW i, \A r \in arrived : r.id # i PROVE RunsOf(i) = 0
  <2>1. {r \in arrived : r.id = i} = {}
    BY <1>3
  <2> QED
    BY <2>1, TotalOfNone DEF RunsOf
<1> QED
  BY <1>2, <1>3

LEMMA BeginsCall ==
  ASSUME PromiseInv, NEW t \in Thread, StubInvoke(t)
  PROVE  Promise!BeginCall(t)
<1>1. /\ pc[t] = "idle" /\ atomicLong < MaxCalls
      /\ atomicLong' = atomicLong + 1
      /\ req' = [req EXCEPT ![t] = atomicLong + 1]
      /\ pc' = [pc EXCEPT ![t] = "borrow"]
      /\ outcome' = [outcome EXCEPT ![t] = Nothing]
      /\ UNCHANGED <<arrived, executions>>
  BY DEF StubInvoke, Invoke, NextRequestId, Goto, StubEnds, serverVars
<1>2. atomicLong \in Nat /\ MaxCalls \in Nat /\ pc \in [Thread -> Location]
  BY ClientAssumption DEF PromiseInv, SystemInv, TInv, TypeOK, RequestId
<1>3. /\ atomicLong + 1 \in RequestId \ (1 .. atomicLong)
      /\ 1 .. atomicLong' = (1 .. atomicLong) \cup {atomicLong + 1}
  BY <1>1, <1>2 DEF RequestId
<1>4. /\ t \notin {u \in Thread : pc[u] # "idle"}
      /\ {u \in Thread : pc'[u] # "idle"} =
            {u \in Thread : pc[u] # "idle"} \cup {t}
  BY <1>1, <1>2
<1>5. UNCHANGED [i \in RequestId |-> RunsOf(i)]
  BY <1>1 DEF RunsOf
<1> QED
  BY <1>1, <1>3, <1>4, <1>5 DEF Promise!BeginCall

(* An interrupted connect ends in a Response without a result, which       *)
(* JDKProxy takes for the result of a method without one.                  *)
InterruptsShow ==
    "interrupted" \in Faults => \A t \in Thread : Proxy[t] = "cglib"

(* What a stub makes of a response is a failure, or the result of the      *)
(* method it names, which has been executed once for this call.            *)
LEMMA ResultIsOwn ==
  ASSUME PromiseInv, NEW t \in Thread, pc[t] = "remove",
         NEW o \in StubResult(t)
  PROVE  \/ o = Exception
         \/ /\ RunsOf(req[t]) = 1 /\ req[t] \in RequestId
            /\ o \in ResultOf([class |-> serviceMap[Remote[t].service],
                               name |-> Remote[t].name,
                               sig |-> Remote[t].sig])
<1> SUFFICES ASSUME answer[t] # NoEvent, o # Exception
             PROVE  /\ RunsOf(req[t]) = 1 /\ req[t] \in RequestId
                    /\ o \in ResultOf([class |-> serviceMap[Remote[t].service],
                                       name |-> Remote[t].name,
                                       sig |-> Remote[t].sig])
  BY DEF StubResult
<1>1. PICK x \in replies :
              /\ MessageOf(x[1]) = answer[t]
              /\ \E r \in ResultOf(x[2]) :
                    o = IF r = Null THEN NullResponse(t) ELSE r
  BY DEF StubResult
<1>2. /\ x[1] \in Request /\ x[1] \in arrived /\ executions[x[1]] = 1
      /\ x[2] = Server!Requested(x[1])
  BY <1>1 DEF PromiseInv, Server!RanInv, Server!IInv, Server!TypeOK,
              Server!RepliesDone, Server!CacheInv, Server!InvokesRequested
<1>3. /\ answer[t] \in Message /\ x[1] = RequestOf(answer[t])
      /\ Sent(answer[t]) /\ answer[t].id = req[t]
  BY <1>1, <1>2, SameMessage DEF PromiseInv, FromServer, Sent
<1>4. answer[t].by = t /\ req[t] \in RequestId
  BY <1>3 DEF PromiseInv, CallsInv, Message
<1>5. /\ x[1].id = req[t] /\ x[1].service = Remote[t].service
      /\ x[1].name = Remote[t].name /\ x[1].sig = Remote[t].sig
  BY <1>3, <1>4 DEF RequestOf
<1>6. RunsOf(req[t]) = 1
  BY <1>2, <1>5, RunsOfArrived
<1>7. o \in ResultOf(x[2])
  BY <1>1 DEF NullResponse, ResultOf
<1> QED
  BY <1>2, <1>4, <1>5, <1>6, <1>7 DEF Server!Requested

LEMMA EndsCall ==
  ASSUME PromiseInv, StubTypes', InterruptsShow, NEW t \in Thread,
         StubReturns(t)
  PROVE  Promise!EndCall(t)
<1>1. /\ pc[t] # "idle" /\ pc' = [pc EXCEPT ![t] = "idle"]
      /\ UNCHANGED <<arrived, executions, req, atomicLong>>
  BY DEF StubReturns, Remove, ConnectRefused, TakeInterrupted,
         ConnectInterrupted, Goto, serverVars
<1>2. PICK o :
         /\ outcome' = [outcome EXCEPT ![t] = o]
         /\ \/ o = Exception
            \/ pc[t] = "remove" /\ o \in StubResult(t)
  BY DEF StubReturns, Remove, StubEnds, NullResponse, InterruptsShow,
         ConnectInterrupted
<1>3. pc \in [Thread -> Location] /\ outcome' \in [Thread -> Outcome]
  BY DEF PromiseInv, SystemInv, TInv, TypeOK, StubTypes
<1>4. o \in Outcome
  <2>1. replies \subseteq Request \X Methods
    BY DEF PromiseInv, Server!RanInv, Server!IInv, Server!TypeOK
  <2> QED
    BY <1>2, <2>1, StubResultTypes DEF Exception, Outcome
<1>5. {u \in Thread : pc'[u] # "idle"} = {u \in Thread : pc[u] # "idle"} \ {t}
  BY <1>1, <1>3
<1>6. UNCHANGED [i \in RequestId |-> RunsOf(i)]
  BY <1>1 DEF RunsOf
<1>7. \/ o = Exception
      \/ /\ [i \in RequestId |-> RunsOf(i)][req[t]] = 1
         /\ o \in ResultOf([u \in Thread |->
                  [class |-> serviceMap[Remote[u].service],
                   name |-> Remote[u].name, sig |-> Remote[u].sig]][t])
  BY <1>2, ResultIsOwn
<1> QED
  BY <1>1, <1>2, <1>4, <1>5, <1>6, <1>7 DEF Promise!EndCall

(* A request that arrives has not been executed.                           *)
LEMMA ArrivesUnrun ==
  ASSUME PromiseInv, NEW m \in Message, Deliver(m)
  PROVE  UNCHANGED [i \in RequestId |-> RunsOf(i)]
<1> DEFINE n == RequestOf(m)
<1>1. /\ n \in Request /\ n \notin arrived /\ n.id = m.id
      /\ arrived' = arrived \cup {n} /\ executions' = executions
      /\ executions[n] = 0
  <2>1. n \in Request /\ n \notin arrived
    BY SameMessage DEF Deliver, PromiseInv, SystemInv, OneWay
  <2>2. executions[n] = 0
    BY <2>1 DEF PromiseInv, Server!RanInv, Server!IInv, Server!NotYetRun
  <2> QED
    BY <2>1, <2>2 DEF Deliver, S!ChannelRead0, RequestOf
<1> HIDE DEF n
<1>2. /\ arrived' \in SUBSET Request /\ executions \in [Request -> Nat]
      /\ \A q, r \in arrived' : q.id = r.id => q = r
  <2>1. arrived \subseteq Request /\ executions \in [Request -> Nat]
    BY OneRequest
  <2>2. \A r \in arrived : r.id # m.id
    <3> SUFFICES ASSUME NEW r \in arrived, r.id = m.id PROVE FALSE
      OBVIOUS
    <3>1. /\ MessageOf(r) \in Message /\ MessageOf(r).id = m.id
          /\ Sent(MessageOf(r)) /\ Sent(m) /\ RequestOf(MessageOf(r)) = r
      BY <2>1, SameMessage DEF Deliver, Sent, MessageOf
    <3>2. RequestOf(m) = r
      BY <3>1 DEF PromiseInv, CallsInv
    <3> QED
      BY <1>1, <3>2 DEF n
  <2> QED
    BY <1>1, <2>1, <2>2, OneRequest
<1>3. ASSUME NEW i \in RequestId PROVE RunsOf(i)' = RunsOf(i)
  <2>1. CASE i # n.id
    <3>1. {r \in arrived' : r.id = i} = {r \in arrived : r.id = i}
      BY <1>1, <2>1
    <3> QED
      BY <1>1, <3>1 DEF RunsOf
  <2>2. CASE i = n.id
    <3>1. {r \in arrived : r.id = i} = {}
      BY <1>1, <1>2, <2>2
    <3>2. {r \in arrived' : r.id = i} = {n}
      BY <1>1, <1>2, <2>2
    <3>3. Total(executions, {r \in arrived' : r.id = i}) = 0
      BY <1>1, <1>2, <3>2, TotalOfOne
    <3> QED
      BY <1>1, <3>1, <3>3, TotalOfNone DEF RunsOf
  <2> QED
    BY <2>1, <2>2
<1> QED
  BY <1>3

(* An invocation is the one execution of its call.                         *)
LEMMA ExecutesCall ==
  ASSUME PromiseInv, NEW r \in arrived, executions[r] = 0, arrived' = arrived,
         executions' = [executions EXCEPT ![r] = 1],
         UNCHANGED <<pc, req, atomicLong, outcome>>
  PROVE  Promise!Execute(r.id)
<1>1. /\ arrived \in SUBSET Request /\ executions \in [Request -> Nat]
      /\ \A p, q \in arrived : p.id = q.id => p = q
      /\ r.id \in RequestId /\ r.id <= atomicLong /\ atomicLong \in Nat
  BY OneRequest, ClientAssumption
     DEF PromiseInv, SystemInv, TInv, TypeOK, RequestId
<1>2. r.id \in 1 .. atomicLong
  BY <1>1, ClientAssumption DEF RequestId
<1>3. RunsOf(r.id) = 0
  BY RunsOfArrived
<1>4. PICK e : e = executions' /\ e[r] = 1
                /\ \A q \in Request \ {r} : e[q] = executions[q]
  BY <1>1
<1>5. RunsOf(r.id)' = 1
  <2>1. {q \in arrived : q.id = r.id} = {r}
    BY <1>1
  <2>2. Total(e, {r}) = 1
    <3>1. e[r] \in Nat
      BY <1>4
    <3>2. Total(e, {r}) = e[r]
      BY <3>1, TotalOfOne
    <3> QED
      BY <1>4, <3>2
  <2>3. RunsOf(r.id)' = Total(executions', {q \in arrived' : q.id = r.id})
    BY DEF RunsOf
  <2>4. {q \in arrived' : q.id = r.id} = {r} /\ executions' = e
    BY <1>4, <2>1
  <2> QED
    BY <2>2, <2>3, <2>4
<1>6. ASSUME NEW i \in RequestId, i # r.id PROVE RunsOf(i)' = RunsOf(i)
  <2> DEFINE T == {q \in arrived : q.id = i}
  <2>1. CASE T = {}
    BY <2>1, TotalOfNone DEF RunsOf
  <2>2. CASE T # {}
    <3>1. PICK q \in T : TRUE
      BY <2>2
    <3>2. q # r /\ q \in Request /\ T = {q}
      BY <1>1, <1>6, <3>1
    <3>3. e[q] = executions[q] /\ executions[q] \in Nat
      BY <1>1, <1>4, <3>2
    <3>4. Total(executions, T) = executions[q] /\ Total(e, T) = e[q]
      BY <3>2, <3>3, TotalOfOne
    <3> QED
      BY <1>4, <3>3, <3>4 DEF RunsOf
  <2> QED
    BY <2>1, <2>2
<1>7. [i \in RequestId |-> RunsOf(i)]' =
         [[i \in RequestId |-> RunsOf(i)] EXCEPT ![r.id] = 1]
  BY <1>1, <1>5, <1>6
<1> QED
  BY <1>1, <1>2, <1>3, <1>7 DEF Promise!Execute

(* The steps that neither begin nor end a call, and execute nothing.       *)
LEMMA PromiseUnmoved ==
  ASSUME UNCHANGED <<req, atomicLong, outcome>>,
         UNCHANGED [i \in RequestId |-> RunsOf(i)],
         \A t \in Thread : pc'[t] = "idle" <=> pc[t] = "idle"
  PROVE  UNCHANGED Promise!remoteVars
  BY DEF Promise!remoteVars

LEMMA ClientStepUnseen ==
  ASSUME PromiseInv,
         \/ \E t \in Thread : InvokeStep(t)
         \/ \E w \in Worker : ConsumeStep(w)
         \/ \E m \in Message : ClientRead(m)
         \/ \E s \in Slot : Cut(s)
         \/ SystemQuiescent \/ UNCHANGED systemVars
  PROVE  UNCHANGED Promise!remoteVars
<1>1. UNCHANGED <<req, atomicLong, outcome, arrived, executions>>
  BY DEF InvokeStep, PollIdle, Create, Connect, TakeIdle, Register, Send,
         Receive, GiveUp, GiveBack, ConsumeStep, WorkerStep, OnEvent, LookUp,
         Drop, Put, ClientRead, ChannelRead0, Cut, Disconnect,
         SystemQuiescent, Quiescent, systemVars, serverVars, vars, callVars
<1>2. \A t \in Thread : pc'[t] = "idle" <=> pc[t] = "idle"
  <2>1. pc \in [Thread -> Location]
    BY DEF PromiseInv, SystemInv, TInv, TypeOK
  <2>2. ASSUME NEW t \in Thread, InvokeStep(t)
        PROVE  \E l \in Location \ {"idle"} :
                  pc[t] # "idle" /\ pc' = [pc EXCEPT ![t] = l]
    BY <2>2 DEF InvokeStep, PollIdle, Create, Connect, TakeIdle, Register,
                Send, Receive, GiveUp, GiveBack, Goto, Location
  <2>3. ASSUME ~ \E t \in Thread : InvokeStep(t) PROVE pc' = pc
    BY <2>3 DEF ConsumeStep, WorkerStep, OnEvent, LookUp, Drop, Put,
                ClientRead, ChannelRead0, Cut, Disconnect, SystemQuiescent,
                Quiescent, systemVars, vars, callVars
  <2> QED
    BY <2>1, <2>2, <2>3
<1>3. UNCHANGED [i \in RequestId |-> RunsOf(i)]
  BY <1>1 DEF RunsOf
<1> QED
  BY <1>1, <1>2, <1>3, PromiseUnmoved

LEMMA ServerStepExecutes ==
  ASSUME PromiseInv, [SystemNext]_systemVars, NEW w \in ServerWorker,
         ServerStep(w)
  PROVE  \/ \E i \in RequestId : Promise!Execute(i)
         \/ UNCHANGED Promise!remoteVars
<1>1. UNCHANGED <<pc, req, atomicLong, outcome, arrived>>
  BY HandleEffect
     DEF ServerStep, HandleStep, Respond, S!Reply, vars, callVars
<1>2. \/ executions' = executions
      \/ \E v \in ServerWorker :
            /\ executions[serverBusy[v]] = 0 /\ serverBusy[v] \in arrived
            /\ executions' = [executions EXCEPT ![serverBusy[v]] = 1]
  BY SameServerNext, ServerAssumed, Server!FirstRun
     DEF Server!FirstRun, PromiseInv
<1>3. CASE executions' = executions
  <2>1. UNCHANGED [i \in RequestId |-> RunsOf(i)]
    BY <1>1, <1>3 DEF RunsOf
  <2> QED
    BY <1>1, <2>1, PromiseUnmoved
<1>4. ASSUME NEW v \in ServerWorker, executions[serverBusy[v]] = 0,
             serverBusy[v] \in arrived,
             executions' = [executions EXCEPT ![serverBusy[v]] = 1]
      PROVE  \E i \in RequestId : Promise!Execute(i)
  <2>1. serverBusy[v].id \in RequestId
    BY <1>4, OneRequest
  <2>2. Promise!Execute(serverBusy[v].id)
    BY <1>1, <1>4, ExecutesCall
  <2> QED
    BY <2>1, <2>2
<1> QED
  BY <1>2, <1>3, <1>4

LEMMA PromiseStep ==
  ASSUME PromiseInv, StubTypes', InterruptsShow, [SystemNext]_systemVars
  PROVE  [Promise!RemoteNext]_(Promise!remoteVars)
<1> SUFFICES Promise!RemoteNext \/ UNCHANGED Promise!remoteVars
  OBVIOUS
<1>1. ASSUME NEW t \in Thread, StubInvoke(t) \/ StubReturns(t)
      PROVE  Promise!RemoteNext
  BY <1>1, BeginsCall, EndsCall DEF Promise!RemoteNext
<1>2. ASSUME NEW m \in Message, Deliver(m)
      PROVE  UNCHANGED Promise!remoteVars
  <2>1. UNCHANGED <<pc, req, atomicLong, outcome>>
    BY <1>2 DEF Deliver, callVars
  <2> QED
    BY <1>2, <2>1, ArrivesUnrun, PromiseUnmoved
<1>3. ASSUME NEW w \in ServerWorker, ServerStep(w)
      PROVE  Promise!RemoteNext \/ UNCHANGED Promise!remoteVars
  BY <1>3, ServerStepExecutes DEF Promise!RemoteNext
<1> QED
  BY <1>1, <1>2, <1>3, ClientStepUnseen DEF SystemNext, ThreadStep

LEMMA PromiseStart == SystemInit => Promise!RemoteInit /\ PromiseInv
<1> SUFFICES ASSUME SystemInit PROVE Promise!RemoteInit /\ PromiseInv
  OBVIOUS
<1>1. PromiseInv
  <2>1. Server!RanInv /\ Server!CacheInv
    BY SameServerInit, ServerAssumed, Server!RanInit, Server!CacheInit
       DEF SystemInit, Server!RanInit, Server!CacheInit
  <2>2. CallsInv
    BY DEF SystemInit, Init, S!Init, CallsInv, IdInv, Sent
  <2>3. FromServer
    BY DEF SystemInit, Init, QueueInit, FromServer
  <2> QED
    BY <2>1, <2>2, <2>3, SystemInvInit DEF PromiseInv
<1>2. [i \in RequestId |-> RunsOf(i)] = [i \in RequestId |-> 0]
  <2>1. arrived = {}
    BY DEF SystemInit, S!Init
  <2> QED
    BY <1>1, <2>1, RunsOfArrived
<1>3. 1 .. atomicLong = {} /\ {t \in Thread : pc[t] # "idle"} = {}
  BY DEF SystemInit, Init
<1> QED
  BY <1>1, <1>2, <1>3 DEF SystemInit, Init, Promise!RemoteInit

(* The promise of the stubs, for any number of threads, workers, channels  *)
(* and calls: a call is executed at most once, and a stub that does not    *)
(* fail returns the result of this call's own execution of the method it   *)
(* names.  Two things are needed of the program: no service method is      *)
(* overloaded with parameters that another overload accepts (nor inherited *)
(* by another service), and no thread that uses a JDKProxy is interrupted  *)
(* while it connects.                                                      *)
THEOREM StubsKeepPromise ==
  ASSUME Server!NoOverloads, InterruptsShow
  PROVE  SystemSpec => KeepsPromise
<1>1. PromiseInv /\ [SystemNext]_systemVars => PromiseInv'
  <2> SUFFICES ASSUME PromiseInv, [SystemNext]_systemVars PROVE PromiseInv'
    OBVIOUS
  <2>1. Server!RanInv' /\ Server!CacheInv'
    BY SameServerNext, ServerAssumed, Server!RanNext, Server!CacheNext
       DEF Server!RanNext, Server!CacheNext, PromiseInv
  <2> QED
    BY <2>1, SystemInvNext, CallsNext, FromServerNext DEF PromiseInv
<1>2. PromiseInv /\ StubTypes /\ [SystemNext]_systemVars => StubTypes'
  BY StubTypesNext DEF PromiseInv, Server!RanInv
<1>3. PromiseInv /\ StubTypes' /\ [SystemNext]_systemVars
         => [Promise!RemoteNext]_(Promise!remoteVars)
  BY PromiseStep
<1>4. SystemInit => StubTypes
  BY DEF SystemInit, StubTypes, Nothing, Outcome
<1> QED
  BY <1>1, <1>2, <1>3, <1>4, PromiseStart, PTL
     DEF SystemSpec, KeepsPromise, Promise!RemoteSpec
=============================================================================
