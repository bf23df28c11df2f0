----------------------------- MODULE ClientCall -----------------------------
(***************************************************************************)
(* One client process: application threads in ClientImpl.invokeMethod, the *)
(* channel pool they share, ResponseMapCache.responseMap, the channels to  *)
(* the server and the disruptor workers in ClientComsumer.onEvent that     *)
(* hand each response to the thread that waits for it.                     *)
(*                                                                         *)
(* A message is the id of the call, the thread that made it (the payload)  *)
(* and the channel it travels on.  The server is external: it answers any  *)
(* request it has received, at most once, or never.                        *)
(***************************************************************************)
EXTENDS ChannelPool

CONSTANTS
    Thread,    \* application threads that call a stub
    Worker,    \* running WorkProcessors of the client's worker pool
    MaxCalls,  \* bound: calls made in a behaviour
    Faults,    \* the faults a run admits
    NoSlot, NoEvent

ASSUME ClientAssumption ==
    /\ MaxCalls \in Nat
    /\ Faults \subseteq {"refused", "interrupted", "broken"}
    /\ NoSlot \notin Slot

RequestId == 1 .. MaxCalls

Message == [id : RequestId, by : Thread, on : Slot]

ASSUME NoEventAssumption == NoEvent \notin Message

VARIABLES
    pc,           \* where each thread is in invokeMethod
    req,          \* req[t]: request.getRequestId() of its last call, 0 before
    chan,         \* chan[t]: the slot it connects or has borrowed
    answer,       \* answer[t]: what poll returned, NoEvent for null
    atomicLong,   \* the id generator
    responseMap,  \* the keys of ResponseMapCache.responseMap
    queue,        \* queue[i]: the content of the ArrayBlockingQueue(1) of call i
    requests,     \* requests written and not yet answered
    responses,    \* responses on their way to RpcClientHandler
    pending, busy, \* the client's disruptor ring
    found         \* workers that hold a reference to a queue, about to put

INSTANCE EventQueue WITH Event <- Message

callVars == <<pc, req, chan, answer, atomicLong>>
mapVars  == <<responseMap, queue>>
netVars  == <<requests, responses>>
ringVars == <<pending, busy, found>>
vars == <<slotState, link, idle, pc, req, chan, answer, atomicLong,
          responseMap, queue, requests, responses, pending, busy, found>>

Location == {"idle", "borrow", "create", "connect", "take", "register",
             "send", "await", "return", "remove"}

(* The type of every variable.                                             *)
TypeOK ==
    /\ PoolTypeOK
    /\ QueueTypeOK
    /\ pc \in [Thread -> Location]
    /\ req \in [Thread -> RequestId \cup {0}]
    /\ chan \in [Thread -> Slot \cup {NoSlot}]
    /\ answer \in [Thread -> Message \cup {NoEvent}]
    /\ atomicLong \in RequestId \cup {0}
    /\ responseMap \subseteq RequestId
    /\ queue \in [RequestId -> SUBSET Message]
    /\ requests \subseteq Message
    /\ responses \subseteq Message
    /\ found \subseteq Worker

Init ==
    /\ PoolInit
    /\ QueueInit
    /\ pc = [t \in Thread |-> "idle"]
    /\ req = [t \in Thread |-> 0]
    /\ chan = [t \in Thread |-> NoSlot]
    /\ answer = [t \in Thread |-> NoEvent]
    /\ atomicLong = 0
    /\ responseMap = {}
    /\ queue = [i \in RequestId |-> {}]
    /\ requests = {}
    /\ responses = {}
    /\ found = {}

Goto(t, l) == pc' = [pc EXCEPT ![t] = l]

-----------------------------------------------------------------------------
(* Calling: the id, then borrowObject (pollFirst, else create, else        *)
(* takeFirst).                                                             *)

(* Mutant: an id is reused, as with a generator per client instance.       *)
MutNextRequestId == IF atomicLong = 0 THEN 1 ELSE atomicLong

(* Mutant: ids run downwards.                                              *)
MutDecrement == atomicLong - 1

(* atomicLong.incrementAndGet()                                            *)
NextRequestId == atomicLong + 1

(* The request gets its id.  getNumIdle() is never negative: the return    *)
(* that tests for it is never taken.                                       *)
Invoke(t) ==
    /\ pc[t] = "idle"
    /\ atomicLong < MaxCalls
    /\ atomicLong' = NextRequestId
    /\ req' = [req EXCEPT ![t] = NextRequestId]
    /\ answer' = [answer EXCEPT ![t] = NoEvent]
    /\ Goto(t, "borrow")
    /\ UNCHANGED <<poolVars, chan, mapVars, netVars, ringVars>>

(* pollFirst() lends an idle channel, or finds none.                       *)
PollIdle(t) ==
    /\ pc[t] = "borrow"
    /\ \/ \E s \in Slot :
             /\ LendFirst(s)
             /\ chan' = [chan EXCEPT ![t] = s]
             /\ Goto(t, "register")
       \/ /\ idle = <<>>
          /\ Goto(t, "create")
          /\ UNCHANGED <<poolVars, chan>>
    /\ UNCHANGED <<req, answer, atomicLong, mapVars, netVars, ringVars>>

(* create() makes a new channel if createCount allows one.                 *)
Create(t) ==
    /\ pc[t] = "create"
    /\ \/ \E s \in Slot :
             /\ StartCreate(s)
             /\ chan' = [chan EXCEPT ![t] = s]
             /\ Goto(t, "connect")
       \/ /\ Exhausted
          /\ Goto(t, "take")
          /\ UNCHANGED <<poolVars, chan>>
    /\ UNCHANGED <<req, answer, atomicLong, mapVars, netVars, ringVars>>

(* The connection of the new channel is established.                       *)
Connect(t) ==
    /\ pc[t] = "connect"
    /\ Created(chan[t], "up")
    /\ Goto(t, "register")
    /\ UNCHANGED <<req, chan, answer, atomicLong, mapVars, netVars, ringVars>>

(* It is not: the exception leaves invokeMethod before its try block.      *)
ConnectRefused(t) ==
    /\ "refused" \in Faults
    /\ pc[t] = "connect"
    /\ Refused(chan[t])
    /\ chan' = [chan EXCEPT ![t] = NoSlot]
    /\ Goto(t, "idle")
    /\ UNCHANGED <<req, answer, atomicLong, mapVars, netVars, ringVars>>

(* connect().sync() is interrupted: the pool gets a null channel, the call *)
(* returns a Response that says so and gives nothing back.                 *)
ConnectInterrupted(t) ==
    /\ "interrupted" \in Faults
    /\ pc[t] = "connect"
    /\ Created(chan[t], "none")
    /\ chan' = [chan EXCEPT ![t] = NoSlot]
    /\ Goto(t, "idle")
    /\ UNCHANGED <<req, answer, atomicLong, mapVars, netVars, ringVars>>

(* takeFirst() waits for an idle channel, without limit.                   *)
TakeIdle(t) ==
    /\ pc[t] = "take"
    /\ \E s \in Slot :
          /\ LendFirst(s)
          /\ chan' = [chan EXCEPT ![t] = s]
    /\ Goto(t, "register")
    /\ UNCHANGED <<req, answer, atomicLong, mapVars, netVars, ringVars>>

(* takeFirst() is interrupted and the exception leaves invokeMethod.       *)
TakeInterrupted(t) ==
    /\ "interrupted" \in Faults
    /\ pc[t] = "take"
    /\ Goto(t, "idle")
    /\ UNCHANGED <<poolVars, req, chan, answer, atomicLong, mapVars, netVars,
                   ringVars>>

-----------------------------------------------------------------------------
(* The try block and its finally.                                          *)

Register(t) ==
    /\ pc[t] = "register"
    /\ responseMap' = responseMap \cup {req[t]}
    /\ queue' = [queue EXCEPT ![req[t]] = {}]
    /\ Goto(t, "send")
    /\ UNCHANGED <<poolVars, req, chan, answer, atomicLong, netVars, ringVars>>

(* writeAndFlush, whose future nobody reads: on a dead channel the request *)
(* is in no one's hands, here in a set from which nobody can receive it.   *)
Send(t) ==
    /\ pc[t] = "send"
    /\ requests' = requests \cup {[id |-> req[t], by |-> t, on |-> chan[t]]}
    /\ Goto(t, "await")
    /\ UNCHANGED <<poolVars, req, chan, answer, atomicLong, mapVars, responses,
                   ringVars>>

(* poll() takes the response out of the queue.                             *)
Receive(t) ==
    /\ pc[t] = "await"
    /\ \E m \in queue[req[t]] :
          /\ queue' = [queue EXCEPT ![req[t]] = {}]
          /\ answer' = [answer EXCEPT ![t] = m]
    /\ Goto(t, "return")
    /\ UNCHANGED <<poolVars, req, chan, atomicLong, responseMap, netVars,
                   ringVars>>

(* Mutant: no finally, a call that times out gives nothing back.           *)
MutGiveUp(t) ==
    /\ pc[t] = "await"
    /\ queue[req[t]] = {} \/ "interrupted" \in Faults
    /\ chan' = [chan EXCEPT ![t] = NoSlot]
    /\ Goto(t, "idle")
    /\ UNCHANGED <<poolVars, req, answer, atomicLong, mapVars, netVars,
                   ringVars>>

(* Mutant: a call that times out is sent again.                            *)
MutRetry(t) ==
    /\ pc[t] = "await"
    /\ queue[req[t]] = {}
    /\ Goto(t, "send")
    /\ UNCHANGED <<poolVars, req, chan, answer, atomicLong, mapVars, netVars,
                   ringVars>>

(* poll() finds nothing for requestTimeoutMillis, or is interrupted, which *)
(* it may be with a response in the queue: it locks interruptibly.         *)
GiveUp(t) ==
    /\ pc[t] = "await"
    /\ queue[req[t]] = {} \/ "interrupted" \in Faults
    /\ Goto(t, "return")
    /\ UNCHANGED <<poolVars, req, chan, answer, atomicLong, mapVars, netVars,
                   ringVars>>

GiveBack(t) ==
    /\ pc[t] = "return"
    /\ ReturnObject(chan[t])
    /\ chan' = [chan EXCEPT ![t] = NoSlot]
    /\ Goto(t, "remove")
    /\ UNCHANGED <<req, answer, atomicLong, mapVars, netVars, ringVars>>

(* Mutant: the map is cleared, not one key of it removed.                  *)
MutRemove(t) ==
    /\ pc[t] = "remove"
    /\ responseMap' = {}
    /\ Goto(t, "idle")
    /\ UNCHANGED <<poolVars, req, chan, answer, atomicLong, queue, netVars,
                   ringVars>>

Remove(t) ==
    /\ pc[t] = "remove"
    /\ responseMap' = responseMap \ {req[t]}
    /\ Goto(t, "idle")
    /\ UNCHANGED <<poolVars, req, chan, answer, atomicLong, queue, netVars,
                   ringVars>>

-----------------------------------------------------------------------------
(* The server and the channels.                                            *)

Serve(m) ==
    /\ m \in requests
    /\ link[m.on] = "up"
    /\ requests' = requests \ {m}
    /\ responses' = responses \cup {m}
    /\ UNCHANGED <<poolVars, callVars, mapVars, ringVars>>

(* RpcClientHandler.channelRead0 publishes the response.                   *)
ChannelRead0(m) ==
    /\ m \in responses
    /\ link[m.on] = "up"
    /\ responses' = responses \ {m}
    /\ Publish(m)
    /\ UNCHANGED <<poolVars, callVars, mapVars, requests, found>>

Disconnect(s) ==
    /\ "broken" \in Faults
    /\ Break(s)
    /\ UNCHANGED <<callVars, mapVars, netVars, ringVars>>

-----------------------------------------------------------------------------
(* ClientComsumer.onEvent.                                                 *)

OnEvent(w, m) ==
    /\ Take(w, m)
    /\ UNCHANGED <<poolVars, callVars, mapVars, netVars, found>>

(* responseMap.get finds the queue.                                        *)
LookUp(w) ==
    /\ busy[w] # NoEvent
    /\ w \notin found
    /\ busy[w].id \in responseMap
    /\ found' = found \cup {w}
    /\ UNCHANGED <<poolVars, callVars, mapVars, netVars, pending, busy>>

(* It finds none: the exception is thrown and ignored.                     *)
Drop(w) ==
    /\ busy[w] # NoEvent
    /\ w \notin found
    /\ busy[w].id \notin responseMap
    /\ Finish(w)
    /\ UNCHANGED <<poolVars, callVars, mapVars, netVars, found>>

(* responseQueue.put, which waits while the queue is full.                 *)
Put(w) ==
    /\ w \in found
    /\ queue[busy[w].id] = {}
    /\ queue' = [queue EXCEPT ![busy[w].id] = {busy[w]}]
    /\ Finish(w)
    /\ found' = found \ {w}
    /\ UNCHANGED <<poolVars, callVars, responseMap, netVars>>

-----------------------------------------------------------------------------
(* Every call has been made and has ended.                                 *)
Quiescent ==
    /\ atomicLong = MaxCalls
    /\ \A t \in Thread : pc[t] = "idle"
    /\ UNCHANGED vars

(* The steps of a call that has begun.                                     *)
CallStep(t) ==
    \/ PollIdle(t) \/ Create(t) \/ Connect(t) \/ ConnectRefused(t)
    \/ ConnectInterrupted(t) \/ TakeIdle(t) \/ TakeInterrupted(t)
    \/ Register(t) \/ Send(t) \/ Receive(t) \/ GiveUp(t) \/ GiveBack(t)
    \/ Remove(t)

WorkerStep(w) ==
    (\E m \in Message : OnEvent(w, m)) \/ LookUp(w) \/ Drop(w) \/ Put(w)

Environment ==
    \/ \E m \in Message : Serve(m) \/ ChannelRead0(m)
    \/ \E s \in Slot : Disconnect(s)

Next ==
    \/ \E t \in Thread : Invoke(t) \/ CallStep(t)
    \/ \E w \in Worker : WorkerStep(w)
    \/ Environment
    \/ Quiescent

Spec == Init /\ [][Next]_vars

(* A thread that can run does; connect and poll end by themselves (3 s and *)
(* requestTimeoutMillis).  Nothing makes an interrupt happen, a peer       *)
(* refuse, a server answer, or an application call.                        *)
Fairness ==
    /\ \A t \in Thread : WF_vars(CallStep(t))
    /\ \A w \in Worker : WF_vars(WorkerStep(w))

FairSpec == Spec /\ Fairness

-----------------------------------------------------------------------------
(* Properties.                                                             *)

(* What invokeMethod returns is the response to this very call: neither a  *)
(* late response to an earlier call nor one to a call of another thread,   *)
(* although all share one map, one id generator and the same channels.     *)
OwnResponse ==
    \A t \in Thread : answer[t] # NoEvent =>
        answer[t].by = t /\ answer[t].id = req[t]

(* The put of onEvent never waits: a queue holds one response, and no      *)
(* second one is ever on its way to it.  A worker that waited here would   *)
(* wait for ever, for nobody polls the queue of a call that has ended.     *)
PutNeverBlocks ==
    \A w \in found : queue[busy[w].id] = {}

(* responseMap holds exactly the calls between put and remove: every way   *)
(* out of the try block removes the entry, no entry outlives its call, and *)
(* none is removed while another thread waits for it.                      *)
NoOrphanEntry ==
    responseMap = {req[t] : t \in {u \in Thread :
                       pc[u] \in {"send", "await", "return", "remove"}}}

(* The pool is conserved: an allocated channel has exactly one call that   *)
(* will return it or is a null channel, a slot being created has its       *)
(* creator, and the deque holds the idle ones once each.                   *)
PoolConserved ==
    /\ \A s \in Slot :
          LET holders == {t \in Thread : chan[t] = s}
              lent == slotState[s] = "allocated" /\ link[s] # "none"
          IN Cardinality(holders) =
                IF lent \/ slotState[s] = "creating" THEN 1 ELSE 0
    /\ Len(idle) = Cardinality({s \in Slot : slotState[s] = "idle"})

(* onEvent throws "responseQueue is null" only for a call that no longer   *)
(* waits: the queue is registered before the request is written (the       *)
(* comment in invokeMethod), and stays so until poll has ended.            *)
NoResponseDropped ==
    [][\A w \in Worker, t \in Thread :
          Drop(w) /\ pc[t] \in {"send", "await"} => req[t] # busy[w].id]_vars

(* A call ends, whether the server answers, the channel is dead, or all    *)
(* channels are lent out when it starts.                                   *)
EveryCallReturns ==
    \A t \in Thread : pc[t] = "borrow" ~> pc[t] = "idle"
=============================================================================
