--------------------------- MODULE ClientBootstrap ---------------------------
(***************************************************************************)
(* The clients of one process from ClientBuilder.build to close: the       *)
(* static list of ChannelHolders that ClientImpl.init fills, the ring that *)
(* each init makes anew, the channels whose RpcClientHandler keeps the     *)
(* producer it found, and the calls that go on meanwhile.  ClientCall has  *)
(* the details of one call; here a call is what ties a holder, a channel,  *)
(* a producer and a worker pool together.  A channel is named after the    *)
(* call that made it.                                                      *)
(***************************************************************************)
EXTENDS RingFactory, FiniteSets

CONSTANTS
    Client,     \* built once each, by a thread of its own
    Address,    \* what discover may return
    ConnStr,    \* ConnStr[a]: what addNewChannel may make of a
    Strategy,   \* Strategy[c]: "in order" or "random"
    Unparsable, \* the port it finds is no number
    NoAddress, NoChannel

(* Calls are known by their request id.                                    *)
Call == Event

ASSUME BootstrapAssumption ==
    /\ IsFiniteSet(Client) /\ MaxRings = Cardinality(Client)
    /\ Strategy \in [Client -> {"in order", "random"}]
    /\ DOMAIN ConnStr = Address
    /\ {NoAddress, Unparsable} \cap Address = {}
    /\ Call \subseteq Nat \ {NoChannel}

Holder == 1 .. Cardinality(Client)

VARIABLES
    cpc,               \* where the build, or the close, of each client is
    serviceAddress,    \* the field of each client
    ring,              \* ring[c]: the ring that client c has made
    channelCachePool,  \* the static list: holders [conn, open]
    closing,           \* closing[c]: holders its close() has yet to close
    callPc,            \* where each call is in invokeMethod
    holder,            \* holder[k]: the holder it selected
    chan,              \* chan[k]: the channel it borrowed
    channel,           \* channel[k]: the channel that call k made
    published,         \* responses given to onData
    settled,           \* history: those published while no build was going on
    overlap            \* history: whether two builds have overlapped

listVars == <<cpc, serviceAddress, ring, channelCachePool, closing>>
callVars == <<callPc, holder, chan, channel>>
history == <<published, settled, overlap>>
vars == <<ringVars, listVars, callVars, history>>

Building == {"scan", "add", "ring", "barrier", "pool", "gate", "start"}

NoHolder == 0
NoChannelYet == [holder |-> NoHolder, producer |-> 0, state |-> "absent"]
NewChannel(h) == [holder |-> h, producer |-> 0, state |-> "creating"]

ChannelRecord ==
    [holder : {NoHolder} \cup Holder,
     producer : 0 .. rings,
     state : {"absent", "creating", "idle", "lent", "destroyed"}]

(* The type of every variable.                                             *)
TypeOK ==
    /\ RingTypeOK
    /\ cpc \in [Client -> Building \cup {"new", "ready", "failed", "closed"}]
    /\ serviceAddress \in [Client -> Address \cup {NoAddress}]
    /\ ring \in [Client -> 0 .. rings]
    /\ Len(channelCachePool) <= Cardinality(Client)
    /\ \A i \in DOMAIN channelCachePool : channelCachePool[i].open \in BOOLEAN
    /\ closing \in [Client -> SUBSET DOMAIN channelCachePool]
    /\ callPc \in [Call -> {"none", "borrow", "lookup", "put", "connect",
                            "await", "done", "failed"}]
    /\ holder \in [Call -> {NoHolder} \cup DOMAIN channelCachePool]
    /\ chan \in [Call -> Call \cup {NoChannel}]
    /\ channel \in [Call -> ChannelRecord]
    /\ settled \subseteq published /\ published \subseteq Call
    /\ overlap \in BOOLEAN

Init ==
    /\ RingInit
    /\ cpc = [c \in Client |-> "new"]
    /\ serviceAddress = [c \in Client |-> NoAddress]
    /\ ring = [c \in Client |-> 0]
    /\ channelCachePool = <<>>
    /\ closing = [c \in Client |-> {}]
    /\ callPc = [k \in Call |-> "none"]
    /\ holder = [k \in Call |-> NoHolder]
    /\ chan = [k \in Call |-> NoChannel]
    /\ channel = [k \in Call |-> NoChannelYet]
    /\ published = {}
    /\ settled = {}
    /\ overlap = FALSE

ClientAt(c, from, to) ==
    /\ cpc[c] = from
    /\ cpc' = [cpc EXCEPT ![c] = to]

CallAt(k, from, to) ==
    /\ callPc[k] = from
    /\ callPc' = [callPc EXCEPT ![k] = to]

HoldersFor(a) ==
    {i \in DOMAIN channelCachePool : channelCachePool[i].conn = a}

BuildGoingOn == \E c \in Client : cpc[c] \in Building

-----------------------------------------------------------------------------
(* ClientBuilder.build and ClientImpl.init.                                *)

(* discover answers with an address.  (When it throws, build throws and    *)
(* nothing has changed: the client stays new.)                             *)
Discover(c) ==
    /\ ClientAt(c, "new", "scan")
    /\ \E a \in Address : serviceAddress' = [serviceAddress EXCEPT ![c] = a]
    /\ overlap' = (overlap \/ BuildGoingOn)
    /\ UNCHANGED <<ringVars, ring, channelCachePool, closing, callVars,
                   published, settled>>

(* Mutant: an address counts as there once another client has found it.    *)
MutKnownAddress(c) ==
    HoldersFor(serviceAddress[c]) # {} \/
    \E d \in Client \ {c} : serviceAddress[d] = serviceAddress[c]

(* Mutant: the addresses are compared with ==.                             *)
MutSameString(c) == FALSE

ContainThis(c) == HoldersFor(serviceAddress[c]) # {}

(* The loop over a snapshot of channelCachePool.                           *)
Scan(c) ==
    /\ \/ ContainThis(c) /\ ClientAt(c, "scan", "ring")
       \/ ~ContainThis(c) /\ ClientAt(c, "scan", "add")
    /\ UNCHANGED <<ringVars, serviceAddress, ring, channelCachePool, closing,
                   callVars, history>>

(* Mutant: the holder is added in the try block and again after it.        *)
MutAddHolder(conn) ==
    channelCachePool' = channelCachePool \o
        <<[conn |-> conn, open |-> TRUE], [conn |-> conn, open |-> TRUE]>>

AddHolder(conn) ==
    channelCachePool' = Append(channelCachePool, [conn |-> conn, open |-> TRUE])

(* addNewChannel: host and port are what stands before the first and the   *)
(* second colon; a failure is reported and forgotten.                      *)
AddNewChannel(c) ==
    /\ ClientAt(c, "add", "ring")
    /\ \E conn \in ConnStr[serviceAddress[c]] :
          IF conn = Unparsable THEN UNCHANGED channelCachePool
          ELSE AddHolder(conn)
    /\ UNCHANGED <<ringVars, serviceAddress, ring, closing, callVars,
                   history>>

(* initAndStart, by the steps of RingFactory.                              *)
InitRing(c) ==
    /\ \/ /\ ClientAt(c, "ring", "barrier")
          /\ \E n \in Ring : CreateRing(n) /\ ring' = [ring EXCEPT ![c] = n]
       \/ ClientAt(c, "barrier", "pool") /\ NewBarrier /\ UNCHANGED ring
       \/ ClientAt(c, "pool", "gate") /\ NewPool(ring[c]) /\ UNCHANGED ring
       \/ ClientAt(c, "gate", "start") /\ AddGatingSequences /\ UNCHANGED ring
       \/ ClientAt(c, "start", "ready") /\ Start /\ UNCHANGED ring
       \/ ClientAt(c, "start", "failed") /\ StartFails /\ UNCHANGED ring
    /\ UNCHANGED <<serviceAddress, channelCachePool, closing, callVars,
                   history>>

-----------------------------------------------------------------------------
(* A call: selectChannel, borrowObject, the answer, returnObject.          *)

(* The holders selectChannel chooses from.                                 *)
Candidates(c) ==
    LET all == HoldersFor(serviceAddress[c])
    IN IF Strategy[c] = "random" THEN all
       ELSE {i \in all : \A j \in all : i <= j}

(* A thread calls the stub of client c and gets the next id of atomicLong; *)
(* selectChannel, where random.nextInt(0) throws when there is no holder.  *)
Invoke(k, c) ==
    /\ cpc[c] \in {"ready", "closed"}
    /\ \A j \in Call : j < k => callPc[j] # "none"
    /\ \/ /\ CallAt(k, "none", "borrow")
          /\ \E i \in Candidates(c) : holder' = [holder EXCEPT ![k] = i]
       \/ /\ CallAt(k, "none", "failed")
          /\ Candidates(c) = {}
          /\ UNCHANGED holder
    /\ UNCHANGED <<ringVars, listVars, chan, channel, history>>

(* borrowObject: an idle channel, or a new one, unless the pool is closed. *)
Borrow(k) ==
    LET h == holder[k]
        idle == {j \in Call : channel[j].holder = h
                                /\ channel[j].state = "idle"}
    IN /\ \/ /\ CallAt(k, "borrow", "failed")
             /\ ~channelCachePool[h].open
             /\ UNCHANGED <<chan, channel>>
          \/ /\ CallAt(k, "borrow", "await")
             /\ channelCachePool[h].open
             /\ \E j \in idle :
                   /\ chan' = [chan EXCEPT ![k] = j]
                   /\ channel' = [channel EXCEPT ![j].state = "lent"]
          \/ /\ CallAt(k, "borrow", "lookup")
             /\ channelCachePool[h].open
             /\ idle = {}
             /\ chan' = [chan EXCEPT ![k] = k]
             /\ channel' = [channel EXCEPT ![k] = NewChannel(h)]
       /\ UNCHANGED <<ringVars, listVars, holder, history>>

(* new RpcClientHandler(): producers.get, and a new producer for the ring  *)
(* of the moment if there is none.                                         *)
GetMessageProducer(k) ==
    /\ \/ CallAt(k, "lookup", "connect") /\ producers # 0
       \/ CallAt(k, "lookup", "put") /\ producers = 0
    /\ channel' = [channel EXCEPT ![k].producer =
                     IF producers # 0 THEN producers ELSE ringBuffer]
    /\ UNCHANGED <<ringVars, listVars, holder, chan, history>>

StoreProducer(k) ==
    /\ CallAt(k, "put", "connect")
    /\ PutProducer(channel[k].producer)
    /\ UNCHANGED <<listVars, holder, chan, channel, history>>

(* connect(ip, port).sync() returns or throws; the request is written.     *)
Connect(k) ==
    /\ \/ /\ CallAt(k, "connect", "await")
          /\ channel' = [channel EXCEPT ![k].state = "lent"]
       \/ /\ CallAt(k, "connect", "failed")
          /\ channel' = [channel EXCEPT ![k].state = "absent"]
    /\ UNCHANGED <<ringVars, listVars, holder, chan, history>>

(* channelRead0: the response, at any time before the channel is closed.   *)
ChannelRead0(k) ==
    /\ callPc[k] \in {"await", "done"}
    /\ k \notin published
    /\ channel[chan[k]].state # "destroyed"
    /\ OnData(channel[chan[k]].producer, k)
    /\ published' = published \cup {k}
    /\ settled' = IF BuildGoingOn THEN settled ELSE settled \cup {k}
    /\ UNCHANGED <<listVars, callVars, overlap>>

(* Mutant: a channel goes back whatever has become of its pool.            *)
MutReturned(h) == "idle"

(* returnObject: a closed pool destroys what comes back.                   *)
Returned(h) == IF channelCachePool[h].open THEN "idle" ELSE "destroyed"

(* poll gets the response or times out, and finally returns the channel.   *)
EndCall(k) ==
    /\ CallAt(k, "await", "done")
    /\ channel' = [channel EXCEPT ![chan[k]].state = Returned(holder[k])]
    /\ UNCHANGED <<ringVars, listVars, holder, chan, history>>

-----------------------------------------------------------------------------
(* Client.close()                                                          *)

(* for (ChannelHolder cw : channelCachePool), over a snapshot.             *)
BeginClose(c) ==
    /\ ClientAt(c, "ready", "closed")
    /\ closing' = [closing EXCEPT ![c] = DOMAIN channelCachePool]
    /\ UNCHANGED <<ringVars, serviceAddress, ring, channelCachePool, callVars,
                   history>>

(* cw.close(): no more lending, and the idle channels are destroyed; the   *)
(* holder stays in the list.                                               *)
CloseHolder(c, i) ==
    /\ i \in closing[c] /\ \A j \in closing[c] : i <= j
    /\ closing' = [closing EXCEPT ![c] = @ \ {i}]
    /\ channelCachePool' = [channelCachePool EXCEPT ![i].open = FALSE]
    /\ channel' = [k \in Call |->
                     IF channel[k].holder = i /\ channel[k].state = "idle"
                     THEN [channel[k] EXCEPT !.state = "destroyed"]
                     ELSE channel[k]]
    /\ UNCHANGED <<ringVars, cpc, serviceAddress, ring, callPc, holder,
                   chan, history>>

-----------------------------------------------------------------------------
(* The build of client c goes on.                                          *)
BuildStep(c) == Discover(c) \/ Scan(c) \/ AddNewChannel(c) \/ InitRing(c)

CallStep(k) ==
    \/ Borrow(k) \/ GetMessageProducer(k) \/ StoreProducer(k) \/ Connect(k)
    \/ EndCall(k)

WorkStep(p) ==
    Process(p) /\ UNCHANGED <<listVars, callVars, history>>

(* Every build, call and close has ended.                                  *)
Quiescent ==
    /\ \A c \in Client :
          cpc[c] \in {"new", "failed", "closed"} /\ closing[c] = {}
    /\ \A k \in Call : callPc[k] \in {"none", "done", "failed"}
    /\ UNCHANGED vars

Next ==
    \/ \E c \in Client : BuildStep(c) \/ BeginClose(c)
    \/ \E c \in Client, i \in Holder : CloseHolder(c, i)
    \/ \E k \in Call, c \in Client : Invoke(k, c)
    \/ \E k \in Call : CallStep(k) \/ ChannelRead0(k)
    \/ \E p \in Pool : WorkStep(p)
    \/ Quiescent

Spec == Init /\ [][Next]_vars

(* The processors of a started pool go on; builds, calls, responses and    *)
(* closes owe nothing.                                                     *)
FairSpec ==
    Spec /\ \A p \in Pool : WF_vars(WorkStep(p))

-----------------------------------------------------------------------------
(* Properties.                                                             *)

(* ClientComsumer.onEvent runs once for a response, though every init      *)
(* starts 64 more workers: a second put into the queue of a call would     *)
(* block a worker.  Overlapping builds can start two pools on one ring.    *)
HandledAtMostOnce == ~overlap => \A k \in Call : handled[k] <= 1

(* A running pool gates the ring it reads, so that producers wait for it   *)
(* when the ring is full.  Overlapping builds can gate another one.        *)
PoolsGateTheirRing ==
    ~overlap => \A p \in started : p \in gating[pools[p].ring]

(* init adds "the connection addresses that are not in the local cache",   *)
(* ClientImpl.java:71: clients of one address share its pool.              *)
OneHolderPerAddress ==
    \A a \in Address : Cardinality(HoldersFor(a)) <= 1

(* The same when no two builds overlap.                                    *)
SharedHolder == ~overlap => OneHolderPerAddress

(* A client whose address survives the split finds a holder for it, from   *)
(* the moment it is built and whatever others are built or closed.         *)
CallFindsHolder ==
    \A c \in Client :
        cpc[c] = "ready" /\ ConnStr[serviceAddress[c]] = {serviceAddress[c]}
            => Candidates(c) # {}

(* close() gives up all connections: a closed pool keeps no idle channel,  *)
(* even when calls were using channels while it was closed.                *)
ClosedPoolsDrain ==
    \A k \in Call : channel[k].state = "idle" =>
        channelCachePool[channel[k].holder].open

(* A response that arrives while no client is being built is handled,      *)
(* though its channel may publish to the ring of any earlier client.       *)
(* (While one is built it may be skipped: start sets the sequences of the  *)
(* workers to the cursor.  After an overlap a ring may have no workers.)   *)
SettledResponsesHandled ==
    \A k \in Call : k \in settled ~> handled[k] >= 1 \/ overlap
=============================================================================
