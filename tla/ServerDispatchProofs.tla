------------------------ MODULE ServerDispatchProofs ------------------------
(***************************************************************************)
(* Theorems about ServerDispatch, for any number of workers and requests,  *)
(* any services and methods, and every outcome of the race on methodCache. *)
(***************************************************************************)
EXTENDS ServerDispatch, TLAPS

-----------------------------------------------------------------------------
(* Where a worker has no request, has not yet invoked a method for it, has *)
(* done so.                                                                *)
Before == {"lookup", "get", "resolve"}
After == {"invoke", "invokeNew", "putFirst", "put", "reply"}

WorkerOK(w) ==
    /\ wpc[w] = "idle" <=> busy[w] = NoEvent
    /\ wpc[w] \in After => method[w] \in Methods
    /\ wpc[w] \notin After => method[w] = NoMethod

(* A request is in one place: with no one yet, in the ring, in the hands   *)
(* of one worker, or dealt with.                                           *)
InHand(r) == \E w \in Worker : busy[w] = r

OnePlace ==
    /\ pending \subseteq arrived
    /\ \A w \in Worker : busy[w] # NoEvent =>
          busy[w] \in arrived /\ busy[w] \notin pending
    /\ \A u, w \in Worker :
          busy[u] # NoEvent /\ busy[u] = busy[w] => u = w

(* Nothing has been invoked for a request before its worker invokes it.    *)
NotYetRun ==
    \A r \in Request :
        /\ executions[r] <= 1
        /\ r \notin arrived \/ r \in pending => executions[r] = 0
        /\ \A w \in Worker :
              busy[w] = r /\ wpc[w] \in Before => executions[r] = 0

(* A request that has its response is in no one's hands.                   *)
RepliesDone ==
    /\ \A x \in replies :
          /\ x[1] \in arrived
          /\ x[1] \notin pending
          /\ ~InHand(x[1])
    /\ \A x, y \in replies : x[1] = y[1] => x = y

IInv ==
    /\ TypeOK
    /\ \A w \in Worker : WorkerOK(w)
    /\ OnePlace
    /\ NotYetRun
    /\ RepliesDone

LEMMA InvInit == Init => IInv
  BY ServerAssumption
     DEF Init, QueueInit, QueueTypeOK, TypeOK, WorkerOK, OnePlace, NotYetRun,
         RepliesDone, InHand, IInv, Before, After

(* A request whose handling failed leaves its worker as if it had not been.*)
LEMMA FailKeeps ==
  ASSUME IInv, NEW w \in Worker, wpc[w] # "idle", Fail(w) PROVE IInv'
<1> USE ServerAssumption DEF IInv, Fail, Finish, Goto
<1>1. TypeOK'
  BY DEF TypeOK, QueueTypeOK
<1>2. \A u \in Worker : WorkerOK(u)'
  BY DEF WorkerOK, TypeOK, QueueTypeOK, After
<1>3. OnePlace'
  BY DEF OnePlace, TypeOK, QueueTypeOK
<1>4. NotYetRun'
  BY DEF NotYetRun, TypeOK, QueueTypeOK, Before
<1>5. RepliesDone'
  BY DEF RepliesDone, InHand, TypeOK, QueueTypeOK
<1> QED
  BY <1>1, <1>2, <1>3, <1>4, <1>5

(* A worker that goes on with its request, without an invocation and       *)
(* without a response.                                                     *)
LEMMA GoOnKeeps ==
  ASSUME IInv, NEW w \in Worker, NEW l \in Before \cup After, Goto(w, l),
         wpc[w] # "idle",
         l \in Before => wpc[w] \in Before,
         l \in After => wpc[w] \in After,
         UNCHANGED <<arrived, pending, busy, method, executions, replies>>,
         methodCache' \in [Name -> Methods \cup {NoMethod}]
  PROVE  IInv'
<1> USE ServerAssumption DEF IInv, Goto, Before, After
<1>1. TypeOK'
  BY DEF TypeOK, QueueTypeOK
<1>2. \A u \in Worker : WorkerOK(u)'
  BY DEF WorkerOK, TypeOK, QueueTypeOK
<1>3. OnePlace' /\ RepliesDone'
  BY DEF OnePlace, RepliesDone, InHand
<1>4. NotYetRun'
  BY DEF NotYetRun, TypeOK, QueueTypeOK
<1> QED
  BY <1>1, <1>2, <1>3, <1>4

(* The invocation of a method.                                             *)
LEMMA InvokeKeeps ==
  ASSUME IInv, NEW w \in Worker, NEW l \in After, Goto(w, l),
         wpc[w] \in Before, NEW mth \in Methods, BeginInvoke(w, mth)
  PROVE  IInv'
<1> USE ServerAssumption DEF IInv, Goto, BeginInvoke, Before, After
<1>0. busy[w] \in Request /\ executions[busy[w]] = 0
  BY DEF TypeOK, QueueTypeOK, WorkerOK, NotYetRun
<1>1. TypeOK'
  BY <1>0 DEF TypeOK, QueueTypeOK
<1>2. \A u \in Worker : WorkerOK(u)'
  BY DEF WorkerOK, TypeOK, QueueTypeOK
<1>3. OnePlace' /\ RepliesDone'
  BY DEF OnePlace, RepliesDone, InHand
<1>4. \A r \in Request : r # busy[w] => executions'[r] = executions[r]
  BY <1>0 DEF TypeOK
<1>5. executions'[busy[w]] = 1
  BY <1>0 DEF TypeOK
<1>6. \A u \in Worker : busy[u] = busy[w] => u = w
  BY <1>0 DEF OnePlace
<1>7. busy[w] \in arrived /\ busy[w] \notin pending
  BY <1>0 DEF OnePlace
<1>8. NotYetRun'
  BY <1>0, <1>4, <1>5, <1>6, <1>7 DEF NotYetRun, TypeOK, QueueTypeOK
<1> QED
  BY <1>1, <1>2, <1>3, <1>8

LEMMA InvNext == IInv /\ [Next]_vars => IInv'
<1> SUFFICES ASSUME IInv, [Next]_vars PROVE IInv'
  OBVIOUS
<1> USE ServerAssumption
<1>1. ASSUME NEW r \in Request, ChannelRead0(r) PROVE IInv'
  <2> USE <1>1 DEF IInv, ChannelRead0, Publish
  <2>1. TypeOK'
    BY DEF TypeOK, QueueTypeOK
  <2>2. \A w \in Worker : WorkerOK(w)'
    BY DEF WorkerOK
  <2>3. OnePlace'
    BY DEF OnePlace, TypeOK, QueueTypeOK
  <2>4. NotYetRun'
    BY DEF NotYetRun
  <2>5. RepliesDone'
    BY DEF RepliesDone, InHand
  <2> QED
    BY <2>1, <2>2, <2>3, <2>4, <2>5
<1>2. ASSUME NEW w \in Worker, NEW r \in Request, OnEvent(w, r) PROVE IInv'
  <2> USE <1>2 DEF IInv, OnEvent, Take, Goto
  <2>1. TypeOK'
    BY DEF TypeOK, QueueTypeOK
  <2>2. \A u \in Worker : WorkerOK(u)'
    BY DEF WorkerOK, TypeOK, QueueTypeOK, After
  <2>3. OnePlace'
    BY DEF OnePlace, TypeOK, QueueTypeOK
  <2>4. NotYetRun'
    BY DEF NotYetRun, OnePlace, Before, TypeOK, QueueTypeOK
  <2>5. RepliesDone'
    BY DEF RepliesDone, InHand, TypeOK, QueueTypeOK
  <2> QED
    BY <2>1, <2>2, <2>3, <2>4, <2>5
<1>3. ASSUME NEW w \in Worker, NoService(w) PROVE IInv'
  BY <1>3, FailKeeps DEF NoService
<1>4. ASSUME NEW w \in Worker, ContainsKey(w) PROVE IInv'
  BY <1>4, GoOnKeeps DEF ContainsKey, Before, After, IInv, TypeOK
<1>5. ASSUME NEW w \in Worker, Get(w) PROVE IInv'
  <2>1. PICK m : /\ m = methodCache[CacheKey(busy[w])]
                 /\ m # NoMethod
                 /\ BeginInvoke(w, Invoked(m, busy[w]))
    BY <1>5 DEF Get
  <2>2. busy[w] \in Request
    BY <1>5 DEF Get, IInv, WorkerOK, TypeOK, QueueTypeOK
  <2>3. Invoked(m, busy[w]) \in Methods
    BY <2>1, <2>2 DEF IInv, TypeOK, CacheKey, Name, Invoked
  <2> QED
    BY <1>5, <2>1, <2>3, InvokeKeeps DEF Get, Before, After
<1>6. ASSUME NEW w \in Worker, GetFails(w) PROVE IInv'
  BY <1>6, FailKeeps DEF GetFails
<1>7. ASSUME NEW w \in Worker, Resolve(w) PROVE IInv'
  BY <1>7, InvokeKeeps DEF Resolve, Before, After
<1>8. ASSUME NEW w \in Worker, NoSuchMethod(w) PROVE IInv'
  BY <1>8, FailKeeps DEF NoSuchMethod
<1>9. ASSUME NEW w \in Worker, Return(w) PROVE IInv'
  BY <1>9, GoOnKeeps DEF Return, Before, After, IInv, TypeOK
<1>10. ASSUME NEW w \in Worker, Throw(w) PROVE IInv'
  BY <1>10, FailKeeps DEF Throw
<1>11. ASSUME NEW w \in Worker, Put(w) PROVE IInv'
  <2>1. method[w] \in Methods
    BY <1>11 DEF Put, IInv, WorkerOK, After
  <2>2. methodCache' \in [Name -> Methods \cup {NoMethod}]
    BY <1>11, <2>1 DEF Put, IInv, TypeOK
  <2> QED
    BY <1>11, <2>2, GoOnKeeps DEF Put, Before, After
<1>12. ASSUME NEW w \in Worker, Reply(w) PROVE IInv'
  <2> USE <1>12 DEF IInv, Reply, Finish, Goto
  <2>0. /\ busy[w] \in Request /\ busy[w] \in arrived
        /\ busy[w] \notin pending /\ method[w] \in Methods
    BY DEF WorkerOK, After, OnePlace, TypeOK, QueueTypeOK
  <2>1. TypeOK'
    BY <2>0 DEF TypeOK, QueueTypeOK
  <2>2. \A u \in Worker : WorkerOK(u)'
    BY DEF WorkerOK, TypeOK, QueueTypeOK, After
  <2>3. OnePlace'
    BY DEF OnePlace, TypeOK, QueueTypeOK
  <2>4. NotYetRun'
    BY DEF NotYetRun, TypeOK, QueueTypeOK, Before
  <2>5. \A x \in replies : x[1] # busy[w]
    BY DEF RepliesDone, InHand
  <2>6. \A u \in Worker : busy'[u] # busy[w]
    BY <2>0 DEF OnePlace, TypeOK, QueueTypeOK
  <2>7. RepliesDone'
    BY <2>0, <2>5, <2>6 DEF RepliesDone, InHand, TypeOK, QueueTypeOK
  <2> QED
    BY <2>1, <2>2, <2>3, <2>4, <2>7
<1>13. ASSUME UNCHANGED vars PROVE IInv'
  BY <1>13
     DEF vars, IInv, TypeOK, QueueTypeOK, WorkerOK, OnePlace, NotYetRun,
         RepliesDone, InHand, Name
<1> QED
  BY <1>1, <1>2, <1>3, <1>4, <1>5, <1>6, <1>7, <1>8, <1>9, <1>10, <1>11,
     <1>12, <1>13
     DEF Next, WorkerStep, Quiescent

LEMMA Invariant == Spec => []IInv
  BY InvInit, InvNext, PTL DEF Spec

(* Every variable of the server keeps its type.                            *)
THEOREM ServerTypeCorrect == Spec => []TypeOK
<1>1. IInv => TypeOK
  BY DEF IInv
<1> QED
  BY <1>1, Invariant, PTL

(* No request is executed twice or answered twice.                         *)
THEOREM ExecutedAtMostOnce == Spec => []AtMostOnce
<1>1. IInv => AtMostOnce
  BY DEF IInv, NotYetRun, RepliesDone, AtMostOnce
<1> QED
  BY <1>1, Invariant, PTL

-----------------------------------------------------------------------------
(* Any method of the requested name that accepts the service object and    *)
(* the parameters comes down to the one the client wants to call: no class *)
(* has overloads that accept the same parameters, and a service whose      *)
(* class extends that of another overrides the methods it inherits.        *)
NoOverloads ==
    \A m \in Methods, r \in Request :
        m.name = r.name /\ Accepts(m, r) => Invoked(m, r) = Requested(r)

(* Whatever is lost or unseen in methodCache, an entry has its own name,   *)
(* and what a worker has invoked is what its request wants.                *)
CacheInv ==
    /\ IInv
    /\ \A n \in Name : methodCache[n] # NoMethod => methodCache[n].name = n
    /\ \A w \in Worker : wpc[w] \in After => method[w] = Requested(busy[w])
    /\ InvokesRequested

LEMMA CacheInit == Init => CacheInv
  BY InvInit DEF Init, CacheInv, After, InvokesRequested

LEMMA CacheFail ==
  ASSUME CacheInv, IInv', NEW w \in Worker, Fail(w) PROVE CacheInv'
  BY ServerAssumption
     DEF CacheInv, Fail, Finish, Goto, After, InvokesRequested, IInv, TypeOK,
         QueueTypeOK

LEMMA CacheInvoke ==
  ASSUME CacheInv, IInv', NEW w \in Worker, NEW l \in After, Goto(w, l),
         BeginInvoke(w, Requested(busy[w]))
  PROVE  CacheInv'
  BY DEF CacheInv, BeginInvoke, Goto, InvokesRequested, IInv, TypeOK

LEMMA CacheNext ==
  ASSUME NoOverloads, CacheInv, [Next]_vars PROVE CacheInv'
<1> USE ServerAssumption
<1>0. IInv /\ IInv'
  BY InvNext DEF CacheInv
<1>1. ASSUME NEW r \in Request, ChannelRead0(r) PROVE CacheInv'
  BY <1>0, <1>1 DEF CacheInv, ChannelRead0, Publish, InvokesRequested
<1>2. ASSUME NEW w \in Worker, NEW r \in Request, OnEvent(w, r)
      PROVE  CacheInv'
  BY <1>0, <1>2
     DEF CacheInv, OnEvent, Take, Goto, After, InvokesRequested, IInv, TypeOK,
         QueueTypeOK, WorkerOK
<1>3. ASSUME NEW w \in Worker, ContainsKey(w) PROVE CacheInv'
  BY <1>0, <1>3
     DEF CacheInv, ContainsKey, Goto, After, InvokesRequested, IInv, TypeOK
<1>4. ASSUME NEW w \in Worker, Get(w) PROVE CacheInv'
  <2>1. PICK m : /\ m = methodCache[CacheKey(busy[w])]
                 /\ m # NoMethod /\ Accepts(m, busy[w])
                 /\ BeginInvoke(w, Invoked(m, busy[w]))
    BY <1>4 DEF Get
  <2>2. busy[w] \in Request
    BY <1>0, <1>4 DEF Get, IInv, WorkerOK, TypeOK, QueueTypeOK
  <2>3. m \in Methods /\ m.name = busy[w].name
    BY <1>0, <2>1, <2>2 DEF CacheInv, IInv, TypeOK, CacheKey, Name
  <2>4. Invoked(m, busy[w]) = Requested(busy[w])
    BY <2>1, <2>2, <2>3 DEF NoOverloads
  <2> QED
    BY <1>0, <1>4, <2>1, <2>4, CacheInvoke DEF Get, After
<1>5. ASSUME NEW w \in Worker, Resolve(w) PROVE CacheInv'
  BY <1>0, <1>5, CacheInvoke DEF Resolve, After
<1>6. ASSUME NEW w \in Worker,
             NoService(w) \/ GetFails(w) \/ NoSuchMethod(w) \/ Throw(w)
      PROVE  CacheInv'
  BY <1>0, <1>6, CacheFail DEF NoService, GetFails, NoSuchMethod, Throw
<1>7. ASSUME NEW w \in Worker, Return(w) PROVE CacheInv'
  BY <1>0, <1>7
     DEF CacheInv, Return, Goto, After, InvokesRequested, IInv, TypeOK
<1>8. ASSUME NEW w \in Worker, Put(w) PROVE CacheInv'
  <2>1. method[w] = Requested(busy[w])
    BY <1>8 DEF Put, CacheInv, After
  <2>2. \A n \in Name : methodCache'[n] # NoMethod => methodCache'[n].name = n
    BY <1>8, <2>1 DEF Put, CacheInv, CacheKey, Requested
  <2>3. \A u \in Worker : wpc'[u] \in After => method'[u] = Requested(busy'[u])
    BY <1>0, <1>8 DEF Put, Goto, CacheInv, After, IInv, TypeOK
  <2>4. InvokesRequested'
    BY <1>0, <1>8 DEF Put, CacheInv, InvokesRequested
  <2> QED
    BY <1>0, <2>2, <2>3, <2>4 DEF CacheInv
<1>9. ASSUME NEW w \in Worker, Reply(w) PROVE CacheInv'
  <2>1. method[w] = Requested(busy[w])
    BY <1>9 DEF Reply, CacheInv, After
  <2>2. InvokesRequested'
    BY <1>0, <1>9, <2>1
       DEF Reply, Finish, CacheInv, InvokesRequested, IInv, TypeOK, QueueTypeOK
  <2>3. \A u \in Worker : wpc'[u] \in After => method'[u] = Requested(busy'[u])
    BY <1>0, <1>9
       DEF Reply, Finish, Goto, CacheInv, After, IInv, TypeOK, QueueTypeOK
  <2> QED
    BY <1>0, <1>9, <2>2, <2>3 DEF Reply, CacheInv
<1>10. ASSUME UNCHANGED vars PROVE CacheInv'
  BY <1>0, <1>10 DEF vars, CacheInv, InvokesRequested, Name
<1> QED
  BY <1>1, <1>2, <1>3, <1>4, <1>5, <1>6, <1>7, <1>8, <1>9, <1>10
     DEF Next, WorkerStep, Quiescent

(* Without overloads, no method but the requested one is invoked for a     *)
(* request and its response carries what that one returned, whatever the   *)
(* unlocked methodCache loses or hides and whatever classes share names in *)
(* it.                                                                     *)
THEOREM RequestedInvoked ==
  ASSUME NoOverloads PROVE Spec => []InvokesRequested
<1>1. CacheInv /\ [Next]_vars => CacheInv'
  BY CacheNext
<1>2. CacheInv => InvokesRequested
  BY DEF CacheInv
<1> QED
  BY <1>1, <1>2, CacheInit, PTL DEF Spec

-----------------------------------------------------------------------------
(* The request of a worker that has invoked a method, and one that has its *)
(* response, was executed once.                                            *)
RanInv ==
    /\ IInv
    /\ \A w \in Worker : wpc[w] \in After => executions[busy[w]] = 1
    /\ \A x \in replies : executions[x[1]] = 1

LEMMA RanInit == Init => RanInv
  BY InvInit DEF Init, RanInv, After

LEMMA RanFail ==
  ASSUME RanInv, IInv', NEW w \in Worker, Fail(w) PROVE RanInv'
  BY ServerAssumption
     DEF RanInv, Fail, Finish, Goto, After, IInv, TypeOK, QueueTypeOK

LEMMA RanInvoke ==
  ASSUME RanInv, IInv', NEW w \in Worker, wpc[w] \in Before, NEW l \in After,
         Goto(w, l), NEW m, BeginInvoke(w, m)
  PROVE  /\ executions[busy[w]] = 0 /\ busy[w] \in arrived
         /\ executions' = [executions EXCEPT ![busy[w]] = 1]
         /\ RanInv'
<1>1. busy[w] # NoEvent /\ busy[w] \in Request /\ busy[w] \in arrived
  BY DEF RanInv, IInv, WorkerOK, Before, OnePlace, TypeOK
<1>2. executions[busy[w]] = 0
  BY <1>1 DEF RanInv, IInv, NotYetRun
<1>3. executions' = [executions EXCEPT ![busy[w]] = 1]
  BY <1>2 DEF BeginInvoke
<1>4. executions'[busy[w]] = 1
  BY <1>1, <1>3 DEF RanInv, IInv, TypeOK
<1>5. ASSUME NEW u \in Worker, wpc'[u] \in After
      PROVE  executions'[busy'[u]] = 1
  <2>1. CASE u = w
    BY <1>4, <2>1 DEF BeginInvoke
  <2>2. CASE u # w
    <3>1. wpc[u] \in After /\ busy'[u] = busy[u]
      BY <1>5, <2>2 DEF BeginInvoke, Goto, RanInv, IInv, TypeOK
    <3>2. busy[u] # busy[w]
      BY <1>1, <2>2 DEF RanInv, IInv, OnePlace
    <3> QED
      BY <1>3, <3>1, <3>2 DEF RanInv, IInv, TypeOK
  <2> QED
    BY <2>1, <2>2
<1>6. ASSUME NEW x \in replies' PROVE executions'[x[1]] = 1
  <2>1. x \in replies /\ x[1] # busy[w]
    BY <1>6 DEF BeginInvoke, RanInv, IInv, RepliesDone, InHand
  <2> QED
    BY <1>3, <2>1 DEF RanInv, IInv, TypeOK
<1> QED
  BY <1>1, <1>2, <1>3, <1>5, <1>6 DEF RanInv

LEMMA RanNext == RanInv /\ [Next]_vars => RanInv'
<1> SUFFICES ASSUME RanInv, [Next]_vars PROVE RanInv'
  OBVIOUS
<1> USE ServerAssumption
<1>0. IInv /\ IInv'
  BY InvNext DEF RanInv
<1>1. ASSUME NEW r \in Request, ChannelRead0(r) PROVE RanInv'
  BY <1>0, <1>1 DEF RanInv, ChannelRead0, Publish
<1>2. ASSUME NEW w \in Worker, NEW r \in Request, OnEvent(w, r)
      PROVE  RanInv'
  BY <1>0, <1>2
     DEF RanInv, OnEvent, Take, Goto, After, IInv, TypeOK, QueueTypeOK
<1>3. ASSUME NEW w \in Worker, ContainsKey(w) PROVE RanInv'
  BY <1>0, <1>3 DEF RanInv, ContainsKey, Goto, After, IInv, TypeOK
<1>4. ASSUME NEW w \in Worker, Get(w) PROVE RanInv'
  <2>1. PICK m : BeginInvoke(w, m)
    BY <1>4 DEF Get
  <2> QED
    BY <1>0, <1>4, <2>1, RanInvoke DEF Get, Before, After
<1>5. ASSUME NEW w \in Worker, Resolve(w) PROVE RanInv'
  BY <1>0, <1>5, RanInvoke DEF Resolve, Before, After
<1>6. ASSUME NEW w \in Worker,
             NoService(w) \/ GetFails(w) \/ NoSuchMethod(w) \/ Throw(w)
      PROVE  RanInv'
  BY <1>0, <1>6, RanFail DEF NoService, GetFails, NoSuchMethod, Throw
<1>7. ASSUME NEW w \in Worker, Return(w) \/ Put(w) PROVE RanInv'
  BY <1>0, <1>7 DEF RanInv, Return, Put, Goto, After, IInv, TypeOK
<1>8. ASSUME NEW w \in Worker, Reply(w) PROVE RanInv'
  <2>1. executions[busy[w]] = 1
    BY <1>8 DEF Reply, RanInv, After
  <2>2. \A x \in replies' : executions'[x[1]] = 1
    BY <1>8, <2>1 DEF Reply, RanInv
  <2>3. \A u \in Worker : wpc'[u] \in After => executions'[busy'[u]] = 1
    BY <1>0, <1>8
       DEF Reply, Finish, Goto, RanInv, After, IInv, TypeOK, QueueTypeOK
  <2> QED
    BY <1>0, <2>2, <2>3 DEF RanInv
<1>9. ASSUME UNCHANGED vars PROVE RanInv'
  BY <1>0, <1>9 DEF vars, RanInv
<1> QED
  BY <1>1, <1>2, <1>3, <1>4, <1>5, <1>6, <1>7, <1>8, <1>9
     DEF Next, WorkerStep, Quiescent

(* An invocation is the first one of its request; no other step executes   *)
(* anything.                                                               *)
LEMMA FirstRun ==
  ASSUME RanInv, [Next]_vars
  PROVE  \/ executions' = executions
         \/ \E w \in Worker :
               /\ executions[busy[w]] = 0 /\ busy[w] \in arrived
               /\ executions' = [executions EXCEPT ![busy[w]] = 1]
<1> USE ServerAssumption
<1>0. IInv'
  BY InvNext DEF RanInv
<1>1. ASSUME NEW w \in Worker, Get(w) \/ Resolve(w)
      PROVE  /\ executions[busy[w]] = 0 /\ busy[w] \in arrived
             /\ executions' = [executions EXCEPT ![busy[w]] = 1]
  <2>1. PICK m, l : l \in After /\ BeginInvoke(w, m) /\ Goto(w, l)
    BY <1>1 DEF Get, Resolve, After
  <2>2. wpc[w] \in Before
    BY <1>1 DEF Get, Resolve, Before
  <2> QED
    BY <1>0, <2>1, <2>2, RanInvoke
<1>2. ASSUME NEW w \in Worker, WorkerStep(w), ~ Get(w), ~ Resolve(w)
      PROVE  executions' = executions
  BY <1>2
     DEF WorkerStep, OnEvent, NoService, ContainsKey, GetFails, NoSuchMethod,
         Return, Throw, Put, Reply, Fail
<1>3. ASSUME \/ \E r \in Request : ChannelRead0(r)
             \/ Quiescent \/ UNCHANGED vars
      PROVE  executions' = executions
  BY <1>3 DEF ChannelRead0, Quiescent, vars
<1> QED
  BY <1>1, <1>2, <1>3 DEF Next

-----------------------------------------------------------------------------
(* A request of this name has been executed.                               *)
NameRan(n) == \E q \in Request : q.name = n /\ executions[q] > 0

(* A name methodCache has, or a worker has found in it, is that of an      *)
(* executed request; a valid request has been executed when its worker is  *)
(* past the invocation or has nothing more to do with it, unless methodCache *)
(* had its name.                                                           *)
NameInv ==
    /\ RanInv
    /\ \A n \in Name : methodCache[n] # NoMethod => NameRan(n)
    /\ \A w \in Worker : wpc[w] = "get" => NameRan(busy[w].name)
    /\ OnlyNamesakesSpoil
LEMMA NameInit == Init => NameInv
  BY RanInit DEF Init, NameInv, OnlyNamesakesSpoil, DealtWith

(* Executions are never taken back.                                        *)
LEMMA RunsGrow ==
  ASSUME RanInv, [Next]_vars
  PROVE  /\ \A r \in Request : executions[r] > 0 => executions'[r] > 0
         /\ \A n : NameRan(n) => NameRan(n)'
<1>1. executions \in [Request -> Nat]
  BY DEF RanInv, IInv, TypeOK
<1>2. ASSUME NEW r \in Request, executions[r] > 0 PROVE executions'[r] > 0
  BY <1>1, <1>2, FirstRun
<1> QED
  BY <1>2 DEF NameRan

(* A step that leaves methodCache alone: what it deals with was invalid or *)
(* executed, or its name had been found in methodCache.                    *)
LEMMA NameKeeps ==
  ASSUME NameInv, [Next]_vars, UNCHANGED methodCache,
         \A w \in Worker : wpc'[w] = "get" =>
            NameRan(busy[w].name) /\ busy'[w] = busy[w],
         \A r \in Request : DealtWith(r)' =>
            \/ DealtWith(r) \/ ~ Valid(r) \/ executions[r] > 0
            \/ NameRan(r.name)
  PROVE  NameInv'
<1> USE DEF NameInv
<1>1. RanInv'
  BY RanNext
<1>2. \A n \in Name : methodCache'[n] # NoMethod => NameRan(n)'
  BY RunsGrow
<1>3. \A w \in Worker : wpc'[w] = "get" =>
         \E q \in Request : q.name = busy'[w].name /\ executions'[q] > 0
  BY RunsGrow DEF NameRan
<1>4. ASSUME NEW r \in Request, DealtWith(r)', Valid(r), executions'[r] = 0
      PROVE  \E q \in Request \ {r} : q.name = r.name /\ executions'[q] > 0
  <2>1. executions[r] = 0
    BY <1>4, RunsGrow DEF RanInv, IInv, TypeOK
  <2>2. NameRan(r.name)
    BY <1>4, <2>1 DEF OnlyNamesakesSpoil, NameRan
  <2>3. PICK q \in Request : q.name = r.name /\ executions'[q] > 0
    BY <2>2, RunsGrow DEF NameRan
  <2> QED
    BY <1>4, <2>3
<1>5. OnlyNamesakesSpoil'
  BY <1>4 DEF OnlyNamesakesSpoil, Valid, Requested
<1> QED
  BY <1>1, <1>2, <1>3, <1>5 DEF NameRan

(* What a worker has failed to deal with.                                  *)
LEMMA NameFail ==
  ASSUME NameInv, [Next]_vars, NEW w \in Worker, Fail(w),
         \/ ~ Valid(busy[w]) \/ executions[busy[w]] > 0
         \/ wpc[w] = "get"
  PROVE  NameInv'
<1> USE ServerAssumption DEF Fail, Finish, Goto
<1>1. IInv
  BY DEF NameInv, RanInv
<1>2. \A u \in Worker : wpc'[u] = "get" =>
         NameRan(busy[u].name) /\ busy'[u] = busy[u]
  BY <1>1 DEF NameInv, IInv, TypeOK, QueueTypeOK
<1>3. ASSUME NEW r \in Request, DealtWith(r)', ~ DealtWith(r)
      PROVE  r = busy[w]
  BY <1>1, <1>3 DEF DealtWith, IInv, TypeOK, QueueTypeOK
<1> QED
  BY <1>2, <1>3, NameKeeps DEF NameInv

LEMMA NameNext == NameInv /\ [Next]_vars => NameInv'
<1> SUFFICES ASSUME NameInv, [Next]_vars PROVE NameInv'
  OBVIOUS
<1> USE ServerAssumption
<1>0. RanInv /\ IInv /\ IInv'
  BY InvNext DEF NameInv, RanInv
<1>1. ASSUME NEW r \in Request, ChannelRead0(r) PROVE NameInv'
  <2>1. \A q \in Request : DealtWith(q)' => DealtWith(q)
    BY <1>1 DEF ChannelRead0, Publish, DealtWith
  <2> QED
    BY <1>1, <2>1, NameKeeps DEF ChannelRead0, Publish, NameInv
<1>2. ASSUME NEW w \in Worker, NEW r \in Request, OnEvent(w, r)
      PROVE  NameInv'
  <2>1. \A q \in Request : DealtWith(q)' => DealtWith(q)
    BY <1>0, <1>2 DEF OnEvent, Take, DealtWith, IInv, TypeOK, QueueTypeOK
  <2>2. \A u \in Worker : wpc'[u] = "get" =>
           NameRan(busy[u].name) /\ busy'[u] = busy[u]
    BY <1>0, <1>2
       DEF OnEvent, Take, Goto, NameInv, IInv, TypeOK, QueueTypeOK
  <2> QED
    BY <1>2, <2>1, <2>2, NameKeeps DEF OnEvent
<1>3. ASSUME NEW w \in Worker, ContainsKey(w) PROVE NameInv'
  <2>1. busy[w] \in Request
    BY <1>0, <1>3 DEF ContainsKey, IInv, WorkerOK, TypeOK, QueueTypeOK
  <2>2. wpc'[w] = "get" => NameRan(busy[w].name)
    BY <1>0, <1>3, <2>1
       DEF ContainsKey, Goto, Cached, CacheKey, NameInv, IInv, TypeOK
  <2>3. \A u \in Worker : wpc'[u] = "get" => NameRan(busy[u].name)
    BY <1>0, <1>3, <2>2 DEF ContainsKey, Goto, NameInv, IInv, TypeOK
  <2>4. \A q \in Request : DealtWith(q)' => DealtWith(q)
    BY <1>3 DEF ContainsKey, DealtWith
  <2> QED
    BY <1>3, <2>3, <2>4, NameKeeps DEF ContainsKey
<1>4. ASSUME NEW w \in Worker, Get(w) \/ Resolve(w) PROVE NameInv'
  <2>1. PICK m, l : BeginInvoke(w, m) /\ Goto(w, l) /\ l # "get"
    BY <1>4 DEF Get, Resolve
  <2>2. \A q \in Request : DealtWith(q)' => DealtWith(q)
    BY <2>1 DEF BeginInvoke, DealtWith
  <2>3. \A u \in Worker : wpc'[u] = "get" =>
           NameRan(busy[u].name) /\ busy'[u] = busy[u]
    BY <1>0, <2>1 DEF BeginInvoke, Goto, NameInv, IInv, TypeOK
  <2> QED
    BY <2>1, <2>2, <2>3, NameKeeps DEF BeginInvoke
<1>5. ASSUME NEW w \in Worker, NoService(w) PROVE NameInv'
  BY <1>5, NameFail DEF NoService, Valid
<1>6. ASSUME NEW w \in Worker, GetFails(w) PROVE NameInv'
  BY <1>6, NameFail DEF GetFails
<1>7. ASSUME NEW w \in Worker, NoSuchMethod(w) PROVE NameInv'
  BY <1>7, NameFail DEF NoSuchMethod, Valid
<1>8. ASSUME NEW w \in Worker, Throw(w) PROVE NameInv'
  <2>1. executions[busy[w]] > 0
    BY <1>0, <1>8 DEF Throw, RanInv, After
  <2> QED
    BY <1>8, <2>1, NameFail DEF Throw
<1>9. ASSUME NEW w \in Worker, Return(w) PROVE NameInv'
  <2>1. \A q \in Request : DealtWith(q)' => DealtWith(q)
    BY <1>9 DEF Return, DealtWith
  <2>2. \A u \in Worker : wpc'[u] = "get" => NameRan(busy[u].name)
    BY <1>0, <1>9 DEF Return, Goto, NameInv, IInv, TypeOK
  <2> QED
    BY <1>9, <2>1, <2>2, NameKeeps DEF Return
<1>10. ASSUME NEW w \in Worker, Put(w) PROVE NameInv'
  <2>1. busy[w] \in Request /\ executions[busy[w]] > 0
    BY <1>0, <1>10
       DEF Put, RanInv, After, IInv, WorkerOK, TypeOK, QueueTypeOK
  <2>2. NameRan(CacheKey(busy[w]))
    BY <2>1 DEF NameRan, CacheKey
  <2>3. \A n \in Name : methodCache'[n] # NoMethod => NameRan(n)
    BY <1>10, <2>2 DEF Put, NameInv
  <2>4. \A u \in Worker : wpc'[u] = "get" => NameRan(busy[u].name)
    BY <1>0, <1>10 DEF Put, Goto, NameInv, IInv, TypeOK
  <2>5. RanInv'
    BY RanNext DEF NameInv
  <2>6. OnlyNamesakesSpoil'
    BY <1>10
       DEF Put, NameInv, OnlyNamesakesSpoil, DealtWith, Valid, Requested
  <2> QED
    BY <1>10, <2>3, <2>4, <2>5, <2>6 DEF Put, NameInv, NameRan, Name
<1>11. ASSUME NEW w \in Worker, Reply(w) PROVE NameInv'
  <2>1. executions[busy[w]] > 0
    BY <1>0, <1>11 DEF Reply, RanInv, After
  <2>2. \A q \in Request : DealtWith(q)' => DealtWith(q) \/ q = busy[w]
    BY <1>0, <1>11
       DEF Reply, Finish, DealtWith, IInv, TypeOK, QueueTypeOK
  <2>3. \A u \in Worker : wpc'[u] = "get" =>
           NameRan(busy[u].name) /\ busy'[u] = busy[u]
    BY <1>0, <1>11
       DEF Reply, Finish, Goto, NameInv, IInv, TypeOK, QueueTypeOK
  <2> QED
    BY <1>11, <2>1, <2>2, <2>3, NameKeeps DEF Reply
<1>12. ASSUME UNCHANGED vars PROVE NameInv'
  <2>1. \A q \in Request : DealtWith(q)' => DealtWith(q)
    BY <1>12 DEF vars, DealtWith
  <2> QED
    BY <1>12, <2>1, NameKeeps DEF vars, NameInv
<1> QED
  BY <1>1, <1>2, <1>3, <1>4, <1>5, <1>6, <1>7, <1>8, <1>9, <1>10, <1>11,
     <1>12
     DEF Next, WorkerStep, Quiescent

(* A valid request is left unexecuted only where another one of the same   *)
(* name was executed: what the race on methodCache hides or loses, and     *)
(* what other names put there, does not make a request fail.               *)
THEOREM NamesakesSpoil == Spec => []OnlyNamesakesSpoil
<1>1. NameInv => OnlyNamesakesSpoil
  BY DEF NameInv
<1> QED
  BY <1>1, NameInit, NameNext, PTL DEF Spec
=============================================================================
