----------------------------- MODULE RpcSystem -----------------------------
(***************************************************************************)
(* Client process and server process together: ClientCall without its      *)
(* assumption about the server, ServerDispatch behind the same channels,   *)
(* and the stubs (JDKProxy, CGLIBProxy) that turn what invokeMethod        *)
(* returns into what the application sees.                                 *)
(***************************************************************************)
EXTENDS ClientCall, FiniteSetsExt

CONSTANTS
    ServerWorker,  \* running WorkProcessors of the server's worker pool
    Remote,        \* Remote[t]: the [service, name, sig] thread t calls
    Proxy,         \* Proxy[t]: "jdk" or "cglib", the clientProxyClass
    serviceMap, Methods, Subclass, Assignable, Threshold, NoMethod,
    ReturnsNull    \* the methods whose result is null

ASSUME RpcAssumption ==
    /\ Threshold \in Nat
    /\ Proxy \in [Thread -> {"jdk", "cglib"}]
    /\ ReturnsNull \subseteq Methods
    /\ NoMethod \notin Methods

(* The Request invokeMethod builds for a call of thread m.by.              *)
RequestOf(m) ==
    [id |-> m.id, by |-> m.by, on |-> m.on, service |-> Remote[m.by].service,
     name |-> Remote[m.by].name, sig |-> Remote[m.by].sig]

MessageOf(r) == [id |-> r.id, by |-> r.by, on |-> r.on]

Request == {RequestOf(m) : m \in Message}

ASSUME NoRequestAssumption == NoEvent \notin Request

VARIABLES
    arrived, serverPending, serverBusy, wpc, method, methodCache, executions,
    replies,
    answered,  \* history: messages whose response went out on an open channel
    outcome    \* outcome[t]: what the stub gave t for its last call

S == INSTANCE ServerDispatch WITH
    Worker <- ServerWorker, pending <- serverPending, busy <- serverBusy

clientVars == <<poolVars, callVars, mapVars, netVars, ringVars>>
serverVars == <<arrived, serverPending, serverBusy, wpc, method, methodCache,
                executions, replies>>
systemVars == <<vars, serverVars, answered, outcome>>

Outcome ==
    [kind : {"none", "null", "exception"}, of : {NoMethod}]
        \cup [kind : {"value"}, of : Methods]

Nothing == [kind |-> "none", of |-> NoMethod]
Null == [kind |-> "null", of |-> NoMethod]
Exception == [kind |-> "exception", of |-> NoMethod]

(* The type of every variable.                                             *)
SystemTypeOK ==
    /\ TypeOK
    /\ S!TypeOK
    /\ answered \subseteq Message
    /\ outcome \in [Thread -> Outcome]

SystemInit ==
    /\ Init
    /\ S!Init
    /\ answered = {}
    /\ outcome = [t \in Thread |-> Nothing]

(* What the service method m returns, as a stub sees it.                   *)
ResultOf(m) ==
    {IF m \in ReturnsNull THEN Null ELSE [kind |-> "value", of |-> m]}

-----------------------------------------------------------------------------
(* The stubs.                                                              *)

(* The thread gets out from its stub.                                      *)
StubEnds(t, o) == outcome' = [outcome EXCEPT ![t] = o]

(* Response.getResponse() is null: JDKProxy returns null, CGLIBProxy       *)
(* throws "no response in the queue".                                      *)
NullResponse(t) == IF Proxy[t] = "jdk" THEN Null ELSE Exception

(* Mutant: the stub checks for a missing response and returns null.        *)
MutStubResult(t) ==
    IF answer[t] = NoEvent THEN {Null}
    ELSE UNION {ResultOf(x[2]) : x \in
                    {y \in replies : MessageOf(y[1]) = answer[t]}}

(* invokeMethod(...).getResponse(): a NullPointerException when poll has   *)
(* found nothing.                                                          *)
StubResult(t) ==
    IF answer[t] = NoEvent THEN {Exception}
    ELSE LET answering == {x \in replies : MessageOf(x[1]) = answer[t]}
         IN {IF r = Null THEN NullResponse(t) ELSE r :
                 r \in UNION {ResultOf(x[2]) : x \in answering}}

(* A call of a stub.  hashCode, equals and toString never get here.        *)
StubInvoke(t) ==
    Invoke(t) /\ StubEnds(t, Nothing) /\ UNCHANGED <<serverVars, answered>>

(* invokeMethod ends: it returns from finally, with an exception, or with  *)
(* the Response that says that there is no channel.                        *)
StubReturns(t) ==
    /\ \/ Remove(t) /\ \E r \in StubResult(t) : StubEnds(t, r)
       \/ ConnectRefused(t) /\ StubEnds(t, Exception)
       \/ TakeInterrupted(t) /\ StubEnds(t, Exception)
       \/ ConnectInterrupted(t) /\ StubEnds(t, NullResponse(t))
    /\ UNCHANGED <<serverVars, answered>>

-----------------------------------------------------------------------------
(* The steps of the client, which are those of ClientCall but Serve.       *)

InvokeStep(t) ==
    /\ \/ PollIdle(t) \/ Create(t) \/ Connect(t) \/ TakeIdle(t) \/ Register(t)
       \/ Send(t) \/ Receive(t) \/ GiveUp(t) \/ GiveBack(t)
    /\ UNCHANGED <<serverVars, answered, outcome>>

ConsumeStep(w) == WorkerStep(w) /\ UNCHANGED <<serverVars, answered, outcome>>

ClientRead(m) == ChannelRead0(m) /\ UNCHANGED <<serverVars, answered, outcome>>

Cut(s) == Disconnect(s) /\ UNCHANGED <<serverVars, answered, outcome>>

-----------------------------------------------------------------------------
(* The server.                                                             *)

(* A request arrives at RpcServerHandler.                                  *)
Deliver(m) ==
    /\ m \in requests
    /\ link[m.on] = "up"
    /\ requests' = requests \ {m}
    /\ S!ChannelRead0(RequestOf(m))
    /\ UNCHANGED <<poolVars, callVars, mapVars, responses, ringVars, answered,
                   outcome>>

(* The steps of ServerComsumer.onEvent but the last.                       *)
HandleStep(w) ==
    /\ \/ \E m \in Message : S!OnEvent(w, RequestOf(m))
       \/ S!NoService(w) \/ S!ContainsKey(w) \/ S!Get(w) \/ S!GetFails(w)
       \/ S!Resolve(w) \/ S!NoSuchMethod(w) \/ S!Return(w) \/ S!Throw(w)
       \/ S!Put(w)
    /\ UNCHANGED <<vars, answered, outcome>>

(* ctx.pipeline().writeAndFlush(response): lost when the channel is down.  *)
Respond(w) ==
    /\ S!Reply(w)
    /\ LET m == MessageOf(serverBusy[w])
       IN IF link[m.on] = "up"
          THEN /\ responses' = responses \cup {m}
               /\ answered' = answered \cup {m}
          ELSE UNCHANGED <<responses, answered>>
    /\ UNCHANGED <<poolVars, callVars, mapVars, requests, ringVars, outcome>>

-----------------------------------------------------------------------------
(* Every call has been made and has ended.                                 *)
SystemQuiescent ==
    /\ Quiescent
    /\ UNCHANGED <<serverVars, answered, outcome>>

ThreadStep(t) == InvokeStep(t) \/ StubReturns(t)
ServerStep(w) == HandleStep(w) \/ Respond(w)

SystemNext ==
    \/ \E t \in Thread : StubInvoke(t) \/ ThreadStep(t)
    \/ \E w \in Worker : ConsumeStep(w)
    \/ \E m \in Message : ClientRead(m) \/ Deliver(m)
    \/ \E s \in Slot : Cut(s)
    \/ \E w \in ServerWorker : ServerStep(w)
    \/ SystemQuiescent

SystemSpec == SystemInit /\ [][SystemNext]_systemVars

-----------------------------------------------------------------------------
(* Properties.                                                             *)

(* ClientCall assumes of the server that it answers any request it has     *)
(* received, at most once, or never.  The real server, with its ring, its  *)
(* unlocked cache and its swallowed exceptions, keeps to that: a request   *)
(* that is in the server's hands or lost there counts as unanswered.       *)
Client == INSTANCE ClientCall WITH
    requests <- requests \cup
        {m \in Message : RequestOf(m) \in arrived /\ m \notin answered}

ImplementsClientCall == Client!Spec

(* The sum of the e[r] of the members of R; how often the server has       *)
(* executed call i.                                                        *)
Total(e, R) == LET Runs(r) == e[r] IN MapThenSumSet(Runs, R)
RunsOf(i) == Total(executions, {r \in arrived : r.id = i})

(* The promise of the stubs, end to end: at most one execution per call,   *)
(* and a returned value is the result of this call's own execution of the  *)
(* method it named, across timeouts, late responses, reused channels, lost *)
(* requests, lost responses and failures on the server.                    *)
Promise == INSTANCE RemoteCall WITH
    Caller <- Thread,
    Id <- RequestId,
    Requested <- [t \in Thread |-> [class |-> serviceMap[Remote[t].service],
                                    name |-> Remote[t].name,
                                    sig |-> Remote[t].sig]],
    Result <- Outcome,
    NoResult <- Nothing,
    Failure <- Exception,
    used <- 1 .. atomicLong,
    current <- req,
    active <- {t \in Thread : pc[t] # "idle"},
    runs <- [i \in RequestId |-> RunsOf(i)]

KeepsPromise == Promise!RemoteSpec
=============================================================================
