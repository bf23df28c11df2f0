# A verification project for HZRPC

HZRPC is a small RPC framework in Java: Netty carries the requests, a disruptor
ring on each side hands them to worker threads, ZooKeeper stores the addresses
of the services, commons-pool2 pools the client's channels. This directory holds
TLA+ models of its core, the TLC runs that check them, and TLAPS proofs.
`C/`, `R/` and `S/` stand for the Java packages `hzr.common` (module
`hzr-common`), `hzr.register` (`hzr-register-zookeeper`) and
`hzr.spring.provider` (`hzr-spring-provider`).

## The system

A call goes through these parts:

    stub (JDKProxy/CGLIBProxy)
      -> ClientImpl.invokeMethod -- borrowObject --> ChannelHolder/GenericObjectPool
           | responseMap.put(id, queue)                  | ChannelFactory: connect
           | writeAndFlush ------------------------------+--> RPCEncoder --> TCP
           | poll(requestTimeoutMillis)                              |
      <----+                                          RPCDecoder, RpcServerHandler
           ^                                             | server ring (disruptor)
      ClientComsumer.onEvent                          ServerComsumer.onEvent
           ^ client ring (disruptor)                     | methodCache, invoke
      RpcClientHandler <------------- TCP <------------- writeAndFlush(response)

### Components

| Part | State | Operations | What is hard | Correct when |
|---|---|---|---|---|
| `ClientImpl.invokeMethod`, `ResponseMapCache` | `atomicLong`, `responseMap` (both static), one `ArrayBlockingQueue(1)` per call | take an id, borrow, register, send, poll, return, remove | many application threads; timeouts racing answers; interrupts; a failure between two steps | a call gets its own response or none; map and pool are restored on every path; a call ends |
| `ClientComsumer`, `RpcClientHandler` | the event in hand | publish a response; look the queue up, then put | lookup and put are two steps; the call may end between them | no worker blocks, no awaited response is dropped |
| `ChannelHolder`, `ChannelFactory` | a `GenericObjectPool` with default settings (8 objects, LIFO, no validation) | borrow, return, close; connect | connection refused, interrupted or lost; waiting borrowers | a channel has one user; a dead channel is not lent; waiters go on |
| `RingBufferWorkerPoolFactory`, `MessageProducer`, `MessageConsumer` | the ring, its sequences, static maps of producers and consumers | `initAndStart`, `getMessageProducer`, `onData`, `onEvent` | lock-free claims by producers and workers; slots reused; 64 processors on fewer threads; a second `initAndStart` | each event handled once with its own data; producers go on |
| `ServerComsumer`, `RpcServerHandler` | static `methodCache` (`HashMap`), `serviceMap` | find the service, find the method, invoke, answer | unlocked map used by all workers; the key is the method name; exceptions are swallowed | the requested method runs, at most once; every request is answered |
| `ServerImpl`, `ServerBuilder` | `serviceMap`, event loops | `start`, `registerService`, `shutdown` | start and registration are several steps | registered services can be called |
| `ZooKeeperServiceRegistry`, `ZooKeeperServiceDiscovery` | znodes | `register`, `unRegister` (empty), `discover` | check-then-create races; session expiry; reads of vanished nodes | a live server can be found, a dead one cannot |
| `AdminController` | none | list (deletes empty services), call | races `register` | never removes a live service |
| `ClientImpl.init`, `close`, `selectChannel`, `ClientBuilder` | static list of `ChannelHolder`s | discover, add, start the ring, select, close | check-then-act on the list; closed pools and replaced rings stay in use | clients of one address share a pool; a response reaches a running worker |
| `RPCEncoder`, `RPCDecoder` | the cumulation buffer | frame, unframe | partial reads; length field | frames come out as they went in |
| Serializers | none | serialize, deserialize | third-party code | not modelled |
| `ExtensionLoader`, `Holder` | caches of classes, holders, instances | `getExtensionLoader`, `getExtension` | double-checked locking | one instance per class |
| `JDKProxy`, `CGLIBProxy` | none | map a method call to `invokeMethod` | null responses, timeouts | the caller can tell failure from result |
| Spring beans and boot classes | wiring | build, start, destroy | order of Spring callbacks | not modelled |

The parts share static state: one `responseMap`, id generator and list of
channel holders for all clients of a process, one ring for all clients and one
for all servers, one `methodCache` for all services.

`PROJECT.json` lists the hazards of this code, line by line, with the
properties that cover them.

## The modules

| Module | Models |
|---|---|
| `EventQueue` | what the handlers need of a ring: publish, take, finish |
| `EventDispatch` | the abstract specification made of those: every event handled at most once, after it was published |
| `WorkerPool` | one started ring and its worker pool, sequence by sequence; implements `EventDispatch` |
| `RingFactory` | `RingBufferWorkerPoolFactory` over its life: the rings, pools and producers it makes one after the other |
| `ChannelPool` | the atomic steps of the channel pool and of connecting |
| `ClientCall` | `invokeMethod`, the pool, the map, the channels and `ClientComsumer.onEvent` composed; extends `ChannelPool`, instantiates `EventQueue` |
| `ClientBootstrap` | the clients of one process from `ClientBuilder.build` to `close`; extends `RingFactory` |
| `ServerDispatch` | `RpcServerHandler` and `ServerComsumer.onEvent` with `methodCache`; instantiates `EventQueue` |
| `RemoteCall` | the abstract specification of a call through a stub |
| `RpcSystem` | stubs, client, channels and server composed: `ClientCall` with an instance of `ServerDispatch` in place of its external server; implements `ClientCall` and `RemoteCall` |
| `ServiceRegistry` | the znodes, and the servers, discoveries and requests for the admin page that work on them |
| `FifoLink` | the abstract specification of one direction of a channel: whole messages come out once, in order, but for those the receiver can make nothing of |
| `FrameCodec` | `RPCEncoder`, `RPCDecoder` and netty's decoding loop, byte by byte; implements `FifoLink` |
| `ExtensionLoader` | `ExtensionLoader` and `Holder` under concurrent callers |
| `MC...` | values of the constants for TLC |
| `ClientCallProofs`, `ClientBootstrapProofs`, `WorkerPoolProofs`, `ServerDispatchProofs`, `RpcSystemProofs`, `ServiceRegistryProofs`, `ExtensionLoaderProofs`, `FrameCodecProofs` | theorems about the module each is named after |

Operators named `Mut...` are deliberately wrong variants of the definition that
follows them; no specification uses them. They record which mistake in the code
each property would notice.

### ClientCall

`pc[t]` follows `invokeMethod` statement by statement. `borrowObject` is three
steps (pollFirst, create, takeFirst) because other threads run between them:
`PollIdle`, `Create`, then `Connect`/`ConnectRefused`/`ConnectInterrupted` or
`TakeIdle`/`TakeInterrupted`. The `try` block is `Register`, `Send`,
`Receive`/`GiveUp`, its `finally` is `GiveBack` and `Remove`; `GiveUp` is a
timeout, for which the queue must be empty, or an interrupt, for which it need
not be. On the worker's side `LookUp` (or `Drop`) and `Put` are separate, so a
call can end between them. The queue of a call lives on when its entry is
removed, because a worker may hold a reference to it. A
message is the id of its call, the thread that made it and the channel it is
on; what the server computes is not modelled, and the server may answer late or
never. A channel that goes down keeps its messages where nobody can receive
them.

`getNumIdle() < 0` is never true in commons-pool2, so that branch has no action.

### WorkerPool

Producers: `OnData` (entering `next()`), `NextSequence` (the claim, refused
while a gating sequence is a ring behind), `Write`, `PublishSequence`. Workers:
`ReadWork` (which also publishes the worker's own sequence), `ClaimWork` (the
compare-and-set), `Handle`, `Handled`. The producers' cache of the minimal
gating sequence is left out: it is a lower bound that is refreshed before a
claim is refused. `WorkerPool.start` sets every processor's sequence to the
cursor and gives every processor to the executor; `Running` is the set of those
that get a thread.

The refinement mapping takes as `pending` the contents of the published and not
yet taken slots, and as `busy[w]` the content of the slot worker `w` is handling
*at this moment*. A slot overwritten too early, an event taken twice or one
taken before it was published would be a step `EventDispatch` does not have.

### ServerDispatch

`ContainsKey`, `Get`, `Resolve`, `Return`/`Throw`, `Put`, `Reply` are the steps
of `onEvent`; `NoService`, `GetFails`, `NoSuchMethod` and `Throw` its ways to
fail, all swallowed by the empty `EventExceptionHandler`. The unlocked `HashMap`
is modelled by what it can do: a lookup may not see an entry; a put that
overlaps another may lose its own entry; a put that allocates or doubles the
table (`Threshold` entries) may hide or lose others. A map that corrupts itself
further (an endless loop in a bin) is not modelled.

Services, classes and methods are constants; the instances use those of
`ServerBuilderTest` (`TestImpl`, `TestImpl2` with its two `sum` methods), and a
class that extends one of them. `Accepts` is what `Method.invoke` checks, on an
object whose class is or extends the one that declares the method, `Invoked` what
it runs there (the override, if the object's own class has one; a private or
static method of the same name, which is not overridden, is left out).

The key of `methodCache` is the name alone, for all services of a process. So a
request may find a method of another class, on which `invoke` throws: it stays
unexecuted and unanswered, and so do all later ones of its
class as long as the entry is there, which nothing replaces. Or it may find an overload, which runs
in place of the requested method (`server_overloads`). What is left of the
comment at `ServerComsumer.java:36`, and shown in `server` with classes that share
a name, is that no *other* method runs where there are no overloads
(`InvokesRequested`), and that only a request of the same name can be the cause
of such a failure (`OnlyNamesakesSpoil`): for lost and hidden entries too, since a
lookup that finds nothing leads to reflection, and one that finds the key needs
an entry someone put under it.

### ServiceRegistry

Every ZooKeeper operation is a step, because other processes run between
`exists` and `createPersistent`, or between `getChildren` and `readData`. A
server runs `Bind`, `RegisterService`, then for each name `Check` (`exists`),
`CreateRoot`, `CreateService`, `CreateAddress`; `RegisterFails` is every
exception of these. A client runs `Exists`, `GetChildren`, `ReadData`, or fails in
`NotFound` or `AddressGone`. A request for the admin page runs `ListChildren`
and `ReadProvider` for each name, or `DeleteRecursive`, `DeleteAddress`,
`DeleteService` when it saw no address; `PageFails` is its exceptions.

An address carries the number of the session that created it. `Expire` replaces
the session of a running server and removes its addresses, which nothing
creates again; `Crash` ends a process, whose addresses stay until `TimeOut`;
`Shutdown` stops netty only. `steady[p]` is a history variable: the addresses
that have been there since `p`'s call began. Left out: a port in use (`start`
throws before it registers anything) and ZkClient's retries after a lost
connection.

### RpcSystem and RemoteCall

`RpcSystem` takes every action of `ClientCall` but `Serve`, and every action of
`ServerDispatch`. `Deliver` moves a request from the channel into the server's
ring, `Respond` writes the response to the channel the request came on, or
nowhere when that one is down. `StubInvoke` and `StubReturns` add what the two
proxies do: they call `invokeMethod` and dereference what it returns, so a
timeout (`null`) is a `NullPointerException`, and a `Response` without a result
is null for `JDKProxy` and an exception for `CGLIBProxy`.

Two refinements are shown. `ImplementsClientCall`: the client model, whose
server answers any request at most once or never, is implemented; a request the
server has taken in and not answered counts as still unanswered, so that every
failure on the server looks like a slow one. `KeepsPromise`: the composition
implements `RemoteCall`, where a call is executed at most once, perhaps after the
caller has given up, and where a stub that returns a result returns that of the
execution of this very call, of the method it names. A result is named by that
method: that it comes from this call's own execution, and not from another one
of the same method, is the condition of `RemoteCall` that this call has been
executed, and `OwnResponse` of the client.

### RingFactory and ClientBootstrap

`RingFactory` has the fields of the one client instance of the factory, and
every ring and pool an `initAndStart` has made; none is ever halted. Each
statement is a step (the two fields that one statement reads are read together,
which only overlapping builds could tell): `CreateRing`, `NewBarrier`, `NewPool`,
`AddGatingSequences`, `Start` (which moves the pool to the ring's cursor, and
fails when another build has started the same pool). A `MessageProducer` is the
ring it was made for, and the static map keeps the first one.

`ClientBootstrap` runs several builds, calls and closes in one process.
`Discover`, `Scan`, `AddNewChannel` and `InitRing` are `ClientImpl.init`;
`Invoke` is `selectChannel`; `Borrow`, `GetMessageProducer`, `StoreProducer` and
`Connect` are `borrowObject` with the constructor of `RpcClientHandler` in it;
`BeginClose` and `CloseHolder` are `close()`, which works on the list all
clients share. An address is split at its colons, so `ConnStr` gives what may
come of one: itself, another one, or no number. `overlap` and `settled` are
history variables: what the code promises holds while no two builds overlap,
and for responses that come while none is going on.

### FrameCodec

A byte is a pair of its message and its place in the frame, so that a decoder
that loses its place finds wrong bytes rather than wrong numbers. `ChannelRead`
delivers any number of bytes, `AwaitMore`, `Decode` and `DecodeFails` are the
ways `decode` ends, with `callDecode` around it. The serializers are their
outcome: the bytes of an object, that object, or an exception. A frame that
cannot be deserialized closes the channel (`exceptionCaught` of the handler
behind it); the decoder then goes through the rest of its buffer once more, in
`channelInactive`. `decoded` is a history
variable: how many frames the decoder has read, those that failed included. In
`FifoLink` it is `taken`, which `Receive` and `Lose` move on.

### ExtensionLoader

The static maps, and in each loader the classes and the `Holder`s, with their
monitors. An object is named after the call that made it. An exception leaves
all monitors on its way (`LeaveAll`). Reading the files is one step, since the
monitor of `cachedClasses` is held. A constructor that itself asks the loaders
for an extension is left out. Nothing in the repository calls this class; it is
modelled as the library class it is.

## The runs

| Run | Shows |
|---|---|
| `client_safety` (`ClientSafety.cfg`) | 3 threads, 2 workers, 2 channels, 3 calls, all faults: `OwnResponse`, `PutNeverBlocks`, `NoOrphanEntry`, `PoolConserved`, `NoResponseDropped` |
| `client_live` | 2 threads, 1 channel that may break: every call ends |
| `worker_pool` | 2 producers, 2 workers, ring of 2, 6 events: the refinement and `SlotNotReused`; every event is handled, `onData` returns |
| `worker_pool_stalls` | **violated**: one of two processors has no thread, `onData` blocks for ever once the ring has been filled (in the code: after 1048576 messages on a machine with fewer than 64 processors) |
| `server` | 2 workers, 6 requests to three classes that share a method name, to an unknown service and an unknown method: `AtMostOnce`, `InvokesRequested`, `OnlyNamesakesSpoil`; all are dealt with, no worker is lost |
| `server_overloads` | **violated**: an overload is answered by the method cached for the other |
| `registry` | 2 servers of one service that start, crash, restart and lose sessions, 1 client, 2 requests for the admin page: `DiscoverNeverDenies`, `PageListsSteady`, `AdminSparesSteady` |
| `rpc_system` | 2 callers (one per kind of stub) with a channel each, 2 server workers, refused and lost connections, throwing methods, the race on `methodCache`: both refinements |
| `client_bootstrap` | 2 clients, 2 calls, an address and one that cannot be split, both selection strategies: `HandledAtMostOnce`, `PoolsGateTheirRing`, `SharedHolder`, `CallFindsHolder`, `ClosedPoolsDrain`, `SettledResponsesHandled` |
| `client_build_race` | **violated**: two clients built at once add two holders for one address |
| `extension_loader` | 3 callers, 3 extension types, shared classes, a constructor that throws, two default names: `OneLoaderPerType`, `OneInstancePerClass`, `ResultFits`; every call ends |
| `frame_codec` | 5 messages in every order, cut at every byte: the refinement of `FifoLink`, `NoFrameLeftBehind`; every message is decoded unless the connection is lost |

Bounds. `MaxSessions` (sessions opened by all servers together), `MaxCalls`
(ids given out), `MaxEvents` (publications per producer), the set of requests,
and the sizes of the sets. Three calls are the least with which
a late response of one call meets a second call of the same thread while another
thread waits for the channel; more threads than channels make a call wait in `takeFirst`;
two workers can hold two responses at once. Six events on a ring of two make
every slot be reused twice, with both workers behind the producers. Requests
for one name in a class, in an unrelated class and in a subclass, and one for
another name, make a hit, a miss, a hit of another class's method, and
overlapping first and later puts of `methodCache`, which resizes from one entry
on; a request for an unknown service and one for an unknown method fail in the
other ways the code has. `server_overloads` needs two requests. Two
sessions are two servers that register at once, or one that starts again or loses its session; two requests for the page
delete each other's services. In `rpc_system` two calls are enough for a late
response to meet the other call on its way and for two requests to race on
`methodCache`; longer sequences of calls are in `client_safety`. Two clients are
the least that overlap, share a holder or replace a ring, and `MaxRings` is the
number of clients; two calls are one before and one after any of that. A body
of no, one and three bytes makes the length of a frame equal to its header,
different from it, and cut inside and outside of it. Three callers are the least
with which one waits for a monitor that another leaves by an exception while a
third comes late. The deadlock check is off in `client_safety`, where an
interrupted connection may use up the pool and leave callers waiting, and in the
`WorkerPool` runs, which stop when the producers have no more to publish.

Fairness. A thread or worker that can take a step takes one in the end: the JVM
schedules all of them, `poll` and `connect` have time limits (100 ms by default,
3 s), a failed compare-and-set means another worker succeeded, and service
methods are assumed to return or throw. Weak fairness of a waiter in `takeFirst`
is enough because the number of calls is bounded; with endless traffic the
unfair lock of the pool allows barging, and strong fairness would be needed.
Nothing makes a peer answer, a connection fail or a message arrive, except in
`frame_codec`, where TCP delivers the bytes of a connection that lives. In
`client_bootstrap` only the processors of started pools owe a step; in
`extension_loader` a waiter gets the monitor in the end because each thread
makes one call.

## The proofs

`ClientCallProofs` proves for every number of threads, workers, channels and
calls and every set of faults, from `ClientAssumption` alone (the bound is a
natural number, `NoSlot` is not a slot):

- `ClientTypeCorrect`: `TypeOK`. `TypeOK` alone is not inductive: the pool's
  steps need that a thread between borrow and return has a channel (`CallOK`).
- `ResponsesAreOwn` (`OwnResponse`), `PutsNeverBlock` (`PutNeverBlocks`),
  `EntriesAreLive` (`NoOrphanEntry`), `ResponsesReachWaiters`
  (`NoResponseDropped`), all from one inductive invariant `IInv`.

The argument: `Places` is the set of all messages, each with the place it is in
(on the wire, in the ring, in a worker's hands, in a queue). Ids increase, so no
two threads have the same id (`IdInv`); a message belongs to the thread that has
its id, and that thread has sent it (`MessageInv`); a call has at most one
message in one place (`AtMostOne(Places)`), since `Send` happens once per id and
every other step moves a message or destroys it (lemmas `Move` and `Passive`).
A queue with a response and a worker about to put another would be two places
of one call. TLC checked `IInv` on 2 threads, 2 workers, 2 channels and 3 calls
before it was proved.

- `PoolIsConserved` (`PoolConserved`) has an invariant of its own, `PoolInv`. A
  call has its channel from the start of its creation, or from its loan, to its
  return; no two calls have the same; and no channel that is lent or being
  created is in nobody's hands (`HolderInv`). The deque lists each idle channel
  once and nothing else (`DequeInv`). The counting comes last: a set whose
  members the deque lists once each is as large as the deque is long
  (`ListedCount`); `TailListed` and `PushListed` say what `pollFirst` and
  `returnObject` do to the list.

`ServiceRegistryProofs` proves, from `RegistryAssumption` (in fact from the sets
of processes being disjoint), for any number of servers, services, clients,
requests and sessions and any faults: `RegistryTypeCorrect` (`TypeOK`),
`NeverDenied` (`DiscoverNeverDenies`), `SteadyListed` (`PageListsSteady`),
`SteadySpared` (`AdminSparesSteady`). The invariant `IInv` says that the tree of
znodes stays a tree (in `TypeOK`: a name with an address has a node), that what
is steady is there, that an admin request has listed, or has still to visit,
every name with a steady address, and that the name it is deleting has none:
it had no address when the request looked, later than the request began. TLC
checked it on the instance of `registry` first.

`WorkerPoolProofs` proves for any number of producers and workers, any ring size
and any set of running processors: `RingTypeCorrect` (`TypeOK`) and
`SlotsAreSafe` (`SlotNotReused`). The invariant `GatingInv` says that every
worker's published sequence is at most `workSequence`, that a worker past `read`
works on the sequence after the one it published, and that all of them are less
than a ring behind a producer that may write. It stays true because sequences
never go back and a worker publishes its sequence before it claims.
`MinIsLeast` is the lemma about `Min` that the claim in `next()` needs.

`RingDispatches` is the refinement `ImplementsDispatch`, step by step. The
invariant `RingInv` adds to the above: a producer writes a sequence that nobody
else writes, that is not available yet and less than a ring from the cursor
(`ClaimInv`); no two workers work on one sequence, a worker handles only what
has been published, and a claimed sequence that has not been published has a
worker waiting for it (`WorkInv`); a slot keeps its own event from the write to
the end of its handling, and no event is in two slots (`SlotInv`). Then
`PublishSequence` is the abstract publication, `Handle` is `Take` and `Handled`
is `Finish`; every other step changes neither the contents of the published and
not yet taken slots nor those being handled. For `Write` that is `SlotIsFree`:
what a producer overwrites has been handled.

`ServerDispatchProofs` proves for any workers, requests, services and methods
and any outcome of the race on `methodCache`: `ServerTypeCorrect` (`TypeOK`),
`ExecutedAtMostOnce` (`AtMostOnce`), and, where no class has overloads that
accept the same parameters (`NoOverloads`, an assumption of that theorem and
not of the model), `RequestedInvoked` (`InvokesRequested`). A request is in one
place (`OnePlace`), nothing has been invoked for it before its worker does so
(`NotYetRun`), and one that is answered is in no one's hands (`RepliesDone`);
`CacheInv` adds that an entry of `methodCache` has its own name, whatever was
lost. `server_overloads` shows that `NoOverloads` cannot be dropped; it does allow
classes that share names, where one may override what it inherits from another.
`NamesakesSpoil` (`OnlyNamesakesSpoil`) needs no assumption: `NameInv` says that a
name in `methodCache`, or found there by a worker, is that of an executed
request, and executions are never taken back (`RunsGrow`).

`ExtensionLoaderProofs` proves for any callers, types, names and files:
`LoaderTypeCorrect`, `LoaderIsUnique`, `InstanceIsUnique` and `ResultsFit`. The
invariant ties each object to the call it is named after: the loader of a call
is the one the map has for its type (`LoaderInv`), a `Holder` belongs to one
loader and one name (`HolderInv`), and what a `Holder` or a result contains is
the instance `EXTENSION_INSTANCES` keeps for the class of the name (`ValueInv`,
`ResultInv`).

`ClientBootstrapProofs` proves, from `BootstrapAssumption` (of which it needs the
finite set of clients and a ring for each of them), for any clients, calls
and addresses: `BootstrapTypeCorrect` (`TypeOK`), `PoolsDrain`
(`ClosedPoolsDrain`), `HolderIsFound` (`CallFindsHolder`), `HandledOnce`
(`HandledAtMostOnce`), `PoolsGate` (`PoolsGateTheirRing`) and `HolderIsShared`
(`SharedHolder`). There are three layers. `IInv`: the list of holders grows by
at most one for each client (`ListInv`, which bounds the types), a build has
what its stage needs (`StageInv`), the channel of a call is of the holder it
selected (`CallInv`), an idle channel is of an open pool (`IdleInv`), and a
client past `addNewChannel` has a holder (`FindInv`). `RingsInv` adds that a
response is in one place of one ring (`LogInv`) and, as long as no two builds
overlap, that the fields of the factory are those of the build going on and each
started pool reads its own ring (`BuildInv`), so that what lies ahead of a pool
has not been handled (`AheadInv`). `OnceInv` adds that no address has two
holders (`ListedOnce`). `HolderIsShared` has a hypothesis of its own,
`SplitFaithful`: splitting a registered address at its colons gives that address
or none of the registry. Without it the holder of one address may be made for
another, which the theorem could not exclude; the instance of
`client_bootstrap` satisfies it.

`FrameCodecProofs` proves for any messages of any sizes, any way TCP may cut the
stream, bad frames and lost connections: `CodecTypeCorrect` (`TypeOK`),
`FramesAreTaken` (`NoFrameLeftBehind`) and the refinement `CodecIsFifo`
(`ImplementsFifo`). The invariant says that what the decoder has not read,
buffer and wire together, is the frames of the messages sent and not yet decoded
(`Frames`): there is a function `ends` that gives for each message where its
frame ends in all that was written. So the next length field is at the start of
the buffer whenever `decode` is called, and what it cuts off is one frame.

`RpcSystemProofs` proves, for any number of threads, workers, channels and
calls, any services and faults:

- `SystemImplementsClient` (`ImplementsClientCall`): every behaviour of client
  and server together is one of `ClientCall`. `SystemInv` adds to the client's
  types that ids are given out once (`FreshIds`) and that a request is on the
  wire, in the server's ring, with one worker, or done with, and only then
  answered (`OneWay`). With it each step of the client is itself, `Deliver` and
  the steps of the server are stutters, and a `Respond` on an open channel is
  `Serve`. So the client need not be examined again: the theorems of
  `ClientCallProofs` are about every behaviour `ClientCall` has, and those of
  the system are among them.
- `SystemTypeCorrect` (`SystemTypeOK`). The server's part comes from
  `ServerDispatchProofs`, of which the module has an instance: `SameServerNext`
  shows that a step of the system is one of the server or leaves it alone, so
  its invariants hold here without another look at `onEvent`.
- `StubsKeepPromise` (`KeepsPromise`): the system implements `RemoteCall`.
  `StubInvoke` is `BeginCall`, `StubReturns` is `EndCall`, `Get` and `Resolve`
  of the server are `Execute`, all else is a stutter. `CallsInv` says that a
  call has one message, which its own thread has sent; `FromServer` that a
  response, wherever it is, answers a request that has arrived and is handed
  only to the call it has the id of; `RanInv` (in `ServerDispatchProofs`) that
  an answered request was executed once, and `CacheInv` that it was the method
  it names. `TotalOfNone` and `TotalOfOne` evaluate the sum over the executions
  of a call, which has at most one request.

`StubsKeepPromise` has two hypotheses, on the program that uses the framework
and not on the model. `NoOverloads` is the one of `RequestedInvoked`.
`InterruptsShow`: no thread with a `JDKProxy` is interrupted while it connects,
for such a call returns a `Response` whose exception that proxy does not read,
and its caller gets null as from a method without a result. Both are needed:
`server_overloads` shows the first, and with the fault `interrupted` TLC finds
`KeepsPromise` violated at once.

Every safety invariant, action property and refinement that a passing run checks
is now stated by a theorem. Out of the prover's reach and left to TLC: liveness
(`EveryCallReturns`, `EveryEventHandled`, `OnDataReturns`,
`EveryRequestHandled`, `SettledResponsesHandled`, `EveryCallEnds`,
`EveryMessageDecoded`).

## Divergences no run shows

The models have these behaviours, and the properties above hold with them. They
are listed because a reader of the code may not expect them.

- `ChannelFactory.validateObject` exists, but the pool is not configured to call
  it: a channel that went down while idle is lent again, and each call on it
  times out.
- A caller waiting in `borrowObject` because another one is connecting is not
  woken when that connection is refused.
- A thread that is interrupted while it connects gets null from a `JDKProxy`,
  as from a method without a result; `CGLIBProxy` throws. `rpc_system` leaves the
  fault out, with which `KeepsPromise` does not hold.
- `ServerComsumer.java:36` says that the method the client wants to call is found
  by reflection and executed. It is not where services of two classes share a
  method name, as `TestImpl` and `TestImpl2`, which `ServerBuilderTest` registers
  in one server, share `say` and `sum`: `methodCache` (line 43) has the method of
  the class that was called first, `invoke` (line 44) throws
  `IllegalArgumentException` on an object of the other, and all requests for that
  one go unexecuted and unanswered. `GetFails` is that step; in `server`,
  `OnlyNamesakesSpoil` says what is left of the promise.
- `methodCache` may answer null after `containsKey` found the key, while another
  worker resizes it; the request then has no response.
- A service that does not declare a method but inherits it from the class of
  another service answers requests for it only after the other has been called:
  `getDeclaredMethod` does not find it, the cached method fits.
- A request whose service or method is unknown, or whose method throws, has no
  response: the exception is swallowed and the caller times out.
- `discover` ends with an exception when the address it chose is gone before it
  reads it, though the service has others.
- The admin page deletes an address that was registered after it had read the
  empty list.
- A client that is closed closes the pools it shares with the others: their
  calls fail from then on, since the holders stay in the list.
- An interrupted connection takes a slot of the pool for good.
- Of two servers that start together one can fail, since the other creates the
  node after its `exists`.
- The address of a server whose session has expired is not created again; that
  of a server that was shut down stays until its process ends.
- When the first channel of the process is made between `RingBuffer.create` and
  `WorkerPool.start` of another client, its producer belongs to the new ring, and
  the responses published before the start are skipped.
- After two overlapping builds a ring may have no workers, a pool may not gate
  the ring it reads, or a build may end with "already been started".

## Not modelled

- The serializers and `SerializerHolder`: third-party code without state of
  their own; `FrameCodec` has their outcomes.
- The Spring beans, configuration and boot classes: wiring, driven by Spring.
- A port that is in use, and a server built for a single service, whose
  `serviceMap` stays empty (`ServerImpl.java:59`): `ServerDispatch` has the
  requests to an unknown service that such a server sees.
- A length field below zero or beyond the frame: `RPCEncoder` writes none, and
  the channels connect encoders and decoders of this repository.
- The event loops of channels and clients, and the threads of replaced pools,
  as resources.
- The console's static pages and the libraries they include.

## Plan

Done: everything in the table of modules, and a theorem for every safety property
and refinement the runs check. Open, most useful first: that a client of the
composed system keeps the invariants of `ClientCallProofs`, stated for `RpcSystem`
itself; that `ServerDispatch` and `ClientCall` may use `EventQueue` for the ring
they have (a composition of `WorkerPool` with a handler); a run of
`ServiceRegistry` together with `ClientBootstrap`, where an address that a client
has discovered goes away.
