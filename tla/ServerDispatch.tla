--------------------------- MODULE ServerDispatch ---------------------------
(***************************************************************************)
(* One server process: RpcServerHandler publishes each request, disruptor  *)
(* workers run ServerComsumer.onEvent on it: find the service object, find *)
(* the method in the static methodCache or by reflection, invoke it, write *)
(* the response.  methodCache is a HashMap all workers use without a lock, *)
(* keyed by the method's name alone.                                       *)
(*                                                                         *)
(* The race on the map is modelled by what java.util.HashMap can do: an    *)
(* entry may go unseen, a put that overlaps another may lose its own, and  *)
(* one that resizes the table, the first ones among them, may lose or hide *)
(* those of others.                                                        *)
(***************************************************************************)
EXTENDS Naturals, FiniteSets

CONSTANTS
    Worker,
    Request,     \* records [call, service, name, sig]
    serviceMap,  \* the class of each service's object, by name
    Methods,     \* the declared methods: records [class, name, sig]
    Subclass,    \* <<c, d>>: class c is d or extends it
    Assignable,  \* <<m, p>>: a method of signature m accepts parameters p
    Threshold,   \* entries from which a put resizes the HashMap (12)
    NoEvent, NoMethod

ASSUME ServerAssumption ==
    /\ Threshold \in Nat
    /\ NoEvent \notin Request
    /\ NoMethod \notin Methods

VARIABLES
    arrived,        \* requests RpcServerHandler has read
    pending, busy,  \* the server's disruptor ring
    wpc,            \* where each worker is in onEvent
    method,         \* method[w]: the Method it invokes
    methodCache,
    executions,     \* executions[r]: times a method was invoked for r
    replies         \* <<r, m>>: the response to r carries what m returned

INSTANCE EventQueue WITH Event <- Request

vars == <<arrived, pending, busy, wpc, method, methodCache, executions,
          replies>>

Name == {m.name : m \in Methods} \cup {r.name : r \in Request}

(* The type of every variable.                                             *)
TypeOK ==
    /\ arrived \subseteq Request
    /\ QueueTypeOK
    /\ wpc \in [Worker -> {"idle", "lookup", "get", "resolve", "invoke",
                           "invokeNew", "putFirst", "put", "reply"}]
    /\ method \in [Worker -> Methods \cup {NoMethod}]
    /\ methodCache \in [Name -> Methods \cup {NoMethod}]
    /\ executions \in [Request -> Nat]
    /\ replies \subseteq Request \X Methods

Init ==
    /\ arrived = {}
    /\ QueueInit
    /\ wpc = [w \in Worker |-> "idle"]
    /\ method = [w \in Worker |-> NoMethod]
    /\ methodCache = [n \in Name |-> NoMethod]
    /\ executions = [r \in Request |-> 0]
    /\ replies = {}

Goto(w, l) == wpc' = [wpc EXCEPT ![w] = l]

(* service.getClass().getDeclaredMethod(methodName, parameterTypes)        *)
Requested(r) ==
    [class |-> serviceMap[r.service], name |-> r.name, sig |-> r.sig]

(* Method.invoke(service, params) does not throw IllegalArgumentException. *)
Accepts(m, r) ==
    /\ <<serviceMap[r.service], m.class>> \in Subclass
    /\ <<m.sig, r.sig>> \in Assignable

(* The method that Method.invoke runs: that of the object's own class when *)
(* it overrides m (no class between the two does).                         *)
Invoked(m, r) ==
    LET own == [m EXCEPT !.class = serviceMap[r.service]]
    IN IF own \in Methods THEN own ELSE m

(* Mutant: the cache has one entry, for whatever method came first.        *)
MutCacheKey(r) == CHOOSE n \in Name : TRUE

CacheKey(r) == r.name

Cached == {n \in Name : methodCache[n] # NoMethod}

(* Another worker is in put; another worker is in a put that allocates or  *)
(* doubles the table.                                                      *)
Putting(w) == \E u \in Worker \ {w} : wpc[u] \in {"putFirst", "put"}
Resizing(w) == \E u \in Worker \ {w} :
    \/ wpc[u] = "putFirst"
    \/ wpc[u] = "put" /\ Cardinality(Cached) >= Threshold

-----------------------------------------------------------------------------
(* RpcServerHandler.channelRead0                                           *)
ChannelRead0(r) ==
    /\ r \notin arrived
    /\ arrived' = arrived \cup {r}
    /\ Publish(r)
    /\ UNCHANGED <<wpc, method, methodCache, executions, replies>>

(* ServerComsumer.onEvent                                                  *)
OnEvent(w, r) ==
    /\ Take(w, r)
    /\ Goto(w, "lookup")
    /\ UNCHANGED <<arrived, method, methodCache, executions, replies>>

(* Mutant: the exception handler rethrows, which ends the worker.          *)
MutFailEnds(w) ==
    /\ Goto(w, "dead")
    /\ UNCHANGED <<arrived, pending, busy, method, methodCache, executions,
                   replies>>

(* Mutant: an event whose handling failed is handled again.                *)
MutFailAgain(w) ==
    /\ Goto(w, "lookup")
    /\ UNCHANGED <<arrived, pending, busy, method, methodCache, executions,
                   replies>>

(* onEvent throws; EventExceptionHandler is empty, so no one is told.      *)
Fail(w) ==
    /\ Finish(w)
    /\ Goto(w, "idle")
    /\ method' = [method EXCEPT ![w] = NoMethod]
    /\ UNCHANGED <<arrived, methodCache, executions, replies>>

(* Preconditions.checkNotNull(service) throws.                             *)
NoService(w) ==
    /\ wpc[w] = "lookup"
    /\ busy[w].service \notin DOMAIN serviceMap
    /\ Fail(w)

(* methodCache.containsKey: an entry is seen, or is absent or unseen.      *)
ContainsKey(w) ==
    /\ wpc[w] = "lookup"
    /\ busy[w].service \in DOMAIN serviceMap
    /\ \/ CacheKey(busy[w]) \in Cached /\ Goto(w, "get")
       \/ Goto(w, "resolve")
    /\ UNCHANGED <<arrived, pending, busy, method, methodCache, executions,
                   replies>>

BeginInvoke(w, m) ==
    /\ method' = [method EXCEPT ![w] = m]
    /\ executions' = [executions EXCEPT ![busy[w]] = @ + 1]
    /\ UNCHANGED <<arrived, pending, busy, methodCache, replies>>

(* methodCache.get(methodName).invoke(service, params)                     *)
Get(w) ==
    /\ wpc[w] = "get"
    /\ LET m == methodCache[CacheKey(busy[w])]
       IN /\ m # NoMethod /\ Accepts(m, busy[w])
          /\ BeginInvoke(w, Invoked(m, busy[w]))
    /\ Goto(w, "invoke")

(* get finds null, or a method of another class or of other parameters.    *)
GetFails(w) ==
    /\ wpc[w] = "get"
    /\ LET m == methodCache[CacheKey(busy[w])]
       IN \/ m = NoMethod
          \/ Resizing(w)
          \/ m # NoMethod /\ ~Accepts(m, busy[w])
    /\ Fail(w)

Resolve(w) ==
    /\ wpc[w] = "resolve"
    /\ Requested(busy[w]) \in Methods
    /\ BeginInvoke(w, Requested(busy[w]))
    /\ Goto(w, "invokeNew")

(* getDeclaredMethod throws NoSuchMethodException.                         *)
NoSuchMethod(w) ==
    /\ wpc[w] = "resolve"
    /\ Requested(busy[w]) \notin Methods
    /\ Fail(w)

(* The service method returns.                                             *)
Return(w) ==
    /\ \/ wpc[w] = "invoke" /\ Goto(w, "reply")
       \/ wpc[w] = "invokeNew"
          /\ Goto(w, IF Cached = {} THEN "putFirst" ELSE "put")
    /\ UNCHANGED <<arrived, pending, busy, method, methodCache, executions,
                   replies>>

(* The service method throws, invoke throws InvocationTargetException.     *)
Throw(w) ==
    /\ wpc[w] \in {"invoke", "invokeNew"}
    /\ Fail(w)

(* The entries a put can lose, of those there were and its own.            *)
Losable(w) ==
    IF \/ wpc[w] = "putFirst"
       \/ Putting(w) /\ Cardinality(Cached) >= Threshold
    THEN Name
    ELSE IF Putting(w) THEN {CacheKey(busy[w])} ELSE {}

(* methodCache.put(methodName, method)                                     *)
Put(w) ==
    /\ wpc[w] \in {"putFirst", "put"}
    /\ \E lost \in SUBSET Losable(w) :
          methodCache' = [n \in Name |->
              IF n \in lost THEN NoMethod
              ELSE IF n = CacheKey(busy[w]) THEN method[w]
              ELSE methodCache[n]]
    /\ Goto(w, "reply")
    /\ UNCHANGED <<arrived, pending, busy, method, executions, replies>>

(* ctx.pipeline().writeAndFlush(response)                                  *)
Reply(w) ==
    /\ wpc[w] = "reply"
    /\ replies' = replies \cup {<<busy[w], method[w]>>}
    /\ Finish(w)
    /\ Goto(w, "idle")
    /\ method' = [method EXCEPT ![w] = NoMethod]
    /\ UNCHANGED <<arrived, methodCache, executions>>

-----------------------------------------------------------------------------
(* Every request has come and been dealt with.                             *)
Quiescent ==
    /\ arrived = Request
    /\ pending = {}
    /\ \A w \in Worker : busy[w] = NoEvent
    /\ UNCHANGED vars

WorkerStep(w) ==
    \/ \E r \in Request : OnEvent(w, r)
    \/ NoService(w) \/ ContainsKey(w) \/ Get(w) \/ GetFails(w) \/ Resolve(w)
    \/ NoSuchMethod(w) \/ Return(w) \/ Throw(w) \/ Put(w) \/ Reply(w)

Next ==
    \/ \E r \in Request : ChannelRead0(r)
    \/ \E w \in Worker : WorkerStep(w)
    \/ Quiescent

Spec == Init /\ [][Next]_vars

(* The running workers run, and service methods return or throw.           *)
FairSpec == Spec /\ \A w \in Worker : WF_vars(WorkerStep(w))

-----------------------------------------------------------------------------
(* Properties.                                                             *)

(* No request is executed twice, and the response a client gets for it is  *)
(* unique: the ring hands each request to one worker.                      *)
AtMostOnce ==
    /\ \A r \in Request : executions[r] <= 1
    /\ \A x, y \in replies : x[1] = y[1] => x = y

(* onEvent executes no method for a request but the one the client wants   *)
(* to call, and answers with what that one returned, whatever others put   *)
(* under its name into methodCache.  It may execute none: see below.       *)
InvokesRequested ==
    /\ \A w \in Worker :
          method[w] # NoMethod => method[w] = Requested(busy[w])
    /\ \A x \in replies : x[2] = Requested(x[1])

(* The request names a service and a method there is; it has arrived and   *)
(* been dealt with.                                                        *)
Valid(r) == r.service \in DOMAIN serviceMap /\ Requested(r) \in Methods
DealtWith(r) ==
    r \in arrived /\ r \notin pending /\ \A w \in Worker : busy[w] # r

(* The comment in onEvent says that the requested method is executed; with *)
(* classes that share names that is not so.  What is left: a valid request *)
(* goes unexecuted only after another one of the same name was executed,   *)
(* whose method, perhaps of another class, methodCache then had, or lost   *)
(* again.  Requests of other names do it no harm, however many workers     *)
(* race on the map and whatever a resize hides or loses.                   *)
OnlyNamesakesSpoil ==
    \A r \in Request : DealtWith(r) /\ Valid(r) /\ executions[r] = 0 =>
        \E q \in Request \ {r} : q.name = r.name /\ executions[q] > 0

(* Every request that arrives is dealt with and its worker is free again,  *)
(* however many requests before it failed: once the last one has come, the *)
(* time comes when all have been dealt with, and none is ever again.       *)
EveryRequestHandled ==
    <>[](\A r \in arrived : DealtWith(r))
=============================================================================
