----------------------- MODULE ClientBootstrapProofs -----------------------
(***************************************************************************)
(* Theorems about ClientBootstrap, for any number of clients, addresses    *)
(* and calls, any split of an address and any strategy of a client.        *)
(***************************************************************************)
EXTENDS ClientBootstrap, FiniteSetTheorems, SequenceTheorems, TLAPS

-----------------------------------------------------------------------------
USE DEF ChannelRecord

-----------------------------------------------------------------------------
(* The inductive invariant, by parts.                                      *)

Entry == [conn : UNION {ConnStr[a] : a \in Address}, open : BOOLEAN]

(* Clients that are past addNewChannel: each has added one holder at most. *)
Added == {c \in Client : cpc[c] \notin {"new", "scan", "add"}}

ListInv ==
    /\ channelCachePool \in Seq(Entry)
    /\ Len(channelCachePool) <= Cardinality(Added)

(* What a build has found or made at each stage.                           *)
StageInv ==
    /\ \A c \in Client :
          /\ cpc[c] # "new" => serviceAddress[c] \in Address
          /\ cpc[c] \in {"barrier", "pool", "gate", "start"} =>
                ring[c] # 0 /\ ringBuffer # 0
          /\ cpc[c] \in {"gate", "start"} => workerPool # 0
    /\ workerPool # 0 => pools[workerPool].ring # 0
    /\ \A p \in started : pools[p].ring # 0

(* The channel of a call and its pool.  A channel that has been made once  *)
(* is never made again, so what a call has borrowed stays what it was.     *)
CallInv ==
    \A k \in Call :
        /\ callPc[k] \notin {"none", "failed"} => holder[k] # NoHolder
        /\ callPc[k] \in {"none", "borrow"} => channel[k].state = "absent"
        /\ callPc[k] \in {"lookup", "put", "connect"} =>
              /\ chan[k] = k
              /\ channel[k].holder = holder[k]
              /\ channel[k].state = "creating"
        /\ callPc[k] \in {"await", "done"} =>
              /\ chan[k] \in Call
              /\ channel[chan[k]].holder = holder[k]
              /\ channel[chan[k]].state \notin {"absent", "creating"}

(* An idle channel belongs to a pool, which is open.                       *)
IdleInv ==
    \A k \in Call : channel[k].state = "idle" =>
        /\ channel[k].holder \in DOMAIN channelCachePool
        /\ channelCachePool[channel[k].holder].open

(* The address of a client that is past addNewChannel has a holder.        *)
FindInv ==
    \A c \in Added :
        ConnStr[serviceAddress[c]] = {serviceAddress[c]}
            => HoldersFor(serviceAddress[c]) # {}

IInv == TypeOK /\ ListInv /\ StageInv /\ CallInv /\ IdleInv /\ FindInv

(* What the rings have seen: a response is published in one place of one   *)
(* ring, and only what was published is handled.                           *)
LogInv ==
    /\ \A r \in Ring : \A i \in 1 .. Len(log[r]) : log[r][i] \in published
    /\ \A r, s \in Ring : \A i \in 1 .. Len(log[r]), j \in 1 .. Len(log[s]) :
          log[r][i] = log[s][j] => r = s /\ i = j
    /\ \A k \in Call : handled[k] # 0 => k \in published

(* As long as no two builds overlap, the fields of the factory are those   *)
(* of the build that is going on, and each started pool has its own ring.  *)
BuildInv ==
    ~overlap =>
        /\ \A c, d \in Client :
              cpc[c] \in Building /\ cpc[d] \in Building => c = d
        /\ \A c \in Client :
              /\ cpc[c] \in {"barrier", "pool", "gate", "start"} =>
                    ring[c] = rings /\ ringBuffer = rings /\ rings \notin started
              /\ cpc[c] \in {"gate", "start"} =>
                    workerPool = rings /\ pools[rings].ring = rings
              /\ cpc[c] = "start" => rings \in gating[rings]
        /\ \A p \in started : pools[p].ring = p /\ p \in gating[p]

(* A started pool has handled nothing that lies ahead of it.               *)
AheadInv ==
    ~overlap =>
        /\ \A k \in Call : handled[k] <= 1
        /\ \A p \in started : \A i \in 1 .. Len(log[p]) :
              position[p] < i => handled[log[p][i]] = 0

RingsInv == IInv /\ LogInv /\ BuildInv /\ AheadInv

(* No two holders for an address, and none while one is about to be added. *)
ListedOnce ==
    ~overlap =>
        /\ \A i, j \in DOMAIN channelCachePool :
              /\ channelCachePool[i].conn = channelCachePool[j].conn
              /\ channelCachePool[i].conn \in Address
              => i = j
        /\ \A c \in Client :
              cpc[c] = "add" => HoldersFor(serviceAddress[c]) = {}

-----------------------------------------------------------------------------
(* Facts about the parts.                                                  *)

LEMMA AddedFinite ==
  /\ IsFiniteSet(Added)
  /\ Cardinality(Added) \in Nat /\ Cardinality(Client) \in Nat
  /\ Cardinality(Added) <= Cardinality(Client)
<1>1. Added \in SUBSET Client
  BY DEF Added
<1> QED
  BY <1>1, BootstrapAssumption, FS_Subset, FS_CardinalityType

LEMMA PoolDomain ==
  ASSUME ListInv
  PROVE  /\ DOMAIN channelCachePool = 1 .. Len(channelCachePool)
         /\ Len(channelCachePool) \in Nat
         /\ DOMAIN channelCachePool \subseteq Holder
         /\ \A i \in DOMAIN channelCachePool : channelCachePool[i] \in Entry
         /\ NoHolder \notin DOMAIN channelCachePool
<1>1. Len(channelCachePool) \in Nat /\ Len(channelCachePool) <= Cardinality(Client)
  BY AddedFinite DEF ListInv
<1>2. DOMAIN channelCachePool = 1 .. Len(channelCachePool)
  BY DEF ListInv
<1>3. \A i \in DOMAIN channelCachePool : channelCachePool[i] \in Entry
  BY DEF ListInv
<1> QED
  BY <1>1, <1>2, <1>3, AddedFinite DEF Holder, NoHolder

(* Most steps do not touch the list of holders or who has added to it.     *)
LEMMA ListKept ==
  ASSUME ListInv, UNCHANGED channelCachePool, Added' = Added
  PROVE  ListInv'
  BY DEF ListInv, Entry

-----------------------------------------------------------------------------
(* Types.                                                                  *)

LEMMA InvInit == Init => IInv
<1> SUFFICES ASSUME Init PROVE IInv
  OBVIOUS
<1>1. MaxRings \in Nat
  BY BootstrapAssumption, FS_CardinalityType
<1>2. RingTypeOK
  <2>1. RingInit
    BY DEF Init
  <2>2. rings = 0 /\ rings \in 0 .. MaxRings
    BY <1>1, <2>1 DEF RingInit
  <2>3. {ringBuffer, sequenceBarrier, workerPool, producers} \subseteq 0 .. rings
    BY <2>1 DEF RingInit
  <2>4. pools \in [Pool -> [ring : 0 .. rings, barrier : 0 .. rings]]
    BY <2>1 DEF RingInit
  <2>5. gating \in [Ring -> SUBSET Pool] /\ started \subseteq 1 .. rings
    BY <2>1 DEF RingInit
  <2>6. log \in [Ring -> Seq(Event)]
    BY <2>1 DEF RingInit
  <2>7. handled \in [Event -> Nat] /\ position \in [Pool -> Nat]
    BY <2>1 DEF RingInit
  <2> QED
    BY <2>2, <2>3, <2>4, <2>5, <2>6, <2>7 DEF RingTypeOK
<1>3. channelCachePool = <<>> /\ Len(channelCachePool) = 0
  BY DEF Init
<1>4. TypeOK
  <2>1. channel \in [Call -> ChannelRecord]
    BY DEF Init, RingInit, NoChannelYet
  <2>2. /\ Len(channelCachePool) <= Cardinality(Client)
        /\ \A i \in DOMAIN channelCachePool : channelCachePool[i].open \in BOOLEAN
    BY <1>3, AddedFinite
  <2>3. /\ ring \in [Client -> 0 .. rings]
        /\ closing \in [Client -> SUBSET DOMAIN channelCachePool]
    BY DEF Init, RingInit
  <2>4. cpc \in [Client -> Building \cup {"new", "ready", "failed", "closed"}]
    BY DEF Init
  <2>5. /\ chan \in [Call -> Call \cup {NoChannel}]
        /\ holder \in [Call -> {NoHolder} \cup DOMAIN channelCachePool]
        /\ serviceAddress \in [Client -> Address \cup {NoAddress}]
    BY DEF Init
  <2>6. callPc \in [Call -> {"none", "borrow", "lookup", "put", "connect",
                            "await", "done", "failed"}]
    BY DEF Init
  <2>7. settled \subseteq published /\ published \subseteq Call /\ overlap \in BOOLEAN
    BY DEF Init
  <2> QED
    BY <1>2, <2>1, <2>2, <2>3, <2>4, <2>5, <2>6, <2>7 DEF TypeOK
<1>5. ListInv
  BY <1>3, AddedFinite DEF ListInv
<1>6. StageInv
  BY DEF StageInv, Init, RingInit
<1>7. CallInv /\ IdleInv
  BY DEF CallInv, IdleInv, Init, NoChannelYet
<1>8. FindInv
  BY DEF FindInv, Added, Init
<1> QED
  BY <1>4, <1>5, <1>6, <1>7, <1>8 DEF IInv

(* TypeOK by the modules and processes its variables belong to.            *)
ListTypes ==
    /\ cpc \in [Client -> Building \cup {"new", "ready", "failed", "closed"}]
    /\ serviceAddress \in [Client -> Address \cup {NoAddress}]
    /\ ring \in [Client -> 0 .. rings]
    /\ closing \in [Client -> SUBSET DOMAIN channelCachePool]

CallTypes ==
    /\ callPc \in [Call -> {"none", "borrow", "lookup", "put", "connect",
                            "await", "done", "failed"}]
    /\ holder \in [Call -> {NoHolder} \cup DOMAIN channelCachePool]
    /\ chan \in [Call -> Call \cup {NoChannel}]
    /\ channel \in [Call -> ChannelRecord]

HistoryTypes ==
    settled \subseteq published /\ published \subseteq Call /\ overlap \in BOOLEAN

LEMMA TypeParts ==
  ListInv => (TypeOK <=> RingTypeOK /\ ListTypes /\ CallTypes /\ HistoryTypes)
<1> SUFFICES ASSUME ListInv
             PROVE  TypeOK <=> RingTypeOK /\ ListTypes /\ CallTypes /\ HistoryTypes
  OBVIOUS
<1>1. /\ Len(channelCachePool) <= Cardinality(Client)
      /\ \A i \in DOMAIN channelCachePool : channelCachePool[i].open \in BOOLEAN
  <2>1. Len(channelCachePool) \in Nat /\ Len(channelCachePool) <= Cardinality(Added)
    BY DEF ListInv
  <2>2. Len(channelCachePool) <= Cardinality(Client)
    BY <2>1, AddedFinite
  <2>3. \A i \in DOMAIN channelCachePool : channelCachePool[i] \in Entry
    BY PoolDomain
  <2> QED
    BY <2>2, <2>3 DEF Entry
<1> QED
  BY <1>1 DEF TypeOK, ListTypes, CallTypes, HistoryTypes

(* The same of the next state.                                             *)
LEMMA TypePartsNext ==
  ListInv' => (TypeOK' <=> RingTypeOK' /\ ListTypes' /\ CallTypes' /\ HistoryTypes')
  BY TypeParts, PTL

-----------------------------------------------------------------------------
(* The operations of RingFactory keep the types of its variables.          *)

LEMMA CreateRingTypes ==
  ASSUME RingTypeOK, NEW n \in Ring, CreateRing(n)
  PROVE  RingTypeOK' /\ n # 0 /\ n \in 0 .. rings' /\ rings \in Nat /\ rings' = rings + 1
<1>1. MaxRings \in Nat /\ rings \in 0 .. MaxRings
  BY BootstrapAssumption, FS_CardinalityType DEF RingTypeOK
<1>2. /\ rings' = rings + 1 /\ n = rings + 1 /\ rings' \in 0 .. MaxRings
      /\ ringBuffer' = n
      /\ UNCHANGED <<sequenceBarrier, workerPool, pools, gating, started,
                     position, log, producers, handled>>
  BY <1>1 DEF CreateRing
<1>3. 0 .. rings \subseteq 0 .. rings' /\ 1 .. rings \subseteq 1 .. rings'
  BY <1>1, <1>2
<1>4. pools' \in [Pool -> [ring : 0 .. rings', barrier : 0 .. rings']]
  BY <1>2, <1>3 DEF RingTypeOK
<1>5. {ringBuffer', sequenceBarrier', workerPool', producers'} \subseteq 0 .. rings'
  BY <1>1, <1>2, <1>3 DEF RingTypeOK
<1> QED
  BY <1>1, <1>2, <1>3, <1>4, <1>5 DEF RingTypeOK

LEMMA FactoryTypes ==
  ASSUME RingTypeOK,
         \/ NewBarrier \/ StartFails
         \/ workerPool # 0 /\ AddGatingSequences
         \/ \E n \in 1 .. rings : NewPool(n)
         \/ \E r \in 0 .. rings : PutProducer(r)
         \/ \E e \in Event, r \in 0 .. rings : OnData(r, e)
         \/ \E p \in Pool : Process(p)
  PROVE  RingTypeOK' /\ rings' = rings
<1>0. rings \in Nat /\ rings <= MaxRings /\ MaxRings \in Nat
  <2>1. MaxRings \in Nat
    BY BootstrapAssumption, FS_CardinalityType
  <2>2. rings \in 0 .. MaxRings
    BY DEF RingTypeOK
  <2> QED
    BY <2>1, <2>2
<1>1. CASE NewBarrier
  BY <1>1 DEF NewBarrier, RingTypeOK
<1>2. CASE workerPool # 0 /\ AddGatingSequences
  <2>1. workerPool \in Pool
    BY <1>0, <1>2 DEF RingTypeOK, Pool
  <2>2. gating' \in [Ring -> SUBSET Pool]
    BY <1>2, <2>1 DEF AddGatingSequences, RingTypeOK
  <2> QED
    BY <1>2, <2>2 DEF AddGatingSequences, RingTypeOK
<1>3. CASE StartFails
  BY <1>3 DEF StartFails, ringVars, RingTypeOK
<1>4. ASSUME NEW n \in 1 .. rings, NewPool(n) PROVE RingTypeOK' /\ rings' = rings
  <2>1. [ring |-> ringBuffer, barrier |-> sequenceBarrier]
           \in [ring : 0 .. rings, barrier : 0 .. rings]
    BY DEF RingTypeOK
  <2>2. pools' \in [Pool -> [ring : 0 .. rings, barrier : 0 .. rings]]
    BY <1>4, <2>1 DEF NewPool, RingTypeOK
  <2> QED
    BY <1>0, <1>4, <2>2 DEF NewPool, RingTypeOK
<1>5. ASSUME NEW r \in 0 .. rings, PutProducer(r) PROVE RingTypeOK' /\ rings' = rings
  BY <1>0, <1>5 DEF PutProducer, RingTypeOK
<1>6. ASSUME NEW e \in Event, NEW r \in 0 .. rings, OnData(r, e)
      PROVE  RingTypeOK' /\ rings' = rings
  <2>1. ASSUME NEW s \in Ring PROVE log'[s] \in Seq(Event)
    BY <1>6, <2>1 DEF OnData, RingTypeOK
  <2>2. log' \in [Ring -> Seq(Event)]
    BY <1>6, <2>1 DEF OnData, RingTypeOK
  <2> QED
    BY <1>6, <2>2 DEF OnData, RingTypeOK
<1>7. ASSUME NEW p \in Pool, Process(p) PROVE RingTypeOK' /\ rings' = rings
  <2>1. PICK e : handled' = handled \/ handled' = [handled EXCEPT ![e] = @ + 1]
    BY <1>7 DEF Process
  <2>2. handled' \in [Event -> Nat]
    <3>1. handled \in [Event -> Nat]
      BY DEF RingTypeOK
    <3> QED
      BY <2>1, <3>1
  <2>3. position' = [position EXCEPT ![p] = @ + 1]
    BY <1>7 DEF Process
  <2>4. position' \in [Pool -> Nat]
    BY <2>3 DEF RingTypeOK
  <2>5. UNCHANGED <<rings, ringBuffer, sequenceBarrier, workerPool, pools,
                    gating, started, log, producers>>
    BY <1>7 DEF Process
  <2> QED
    BY <2>2, <2>4, <2>5 DEF RingTypeOK
<1> QED
  BY <1>1, <1>2, <1>3, <1>4, <1>5, <1>6, <1>7

LEMMA StartTypes ==
  ASSUME RingTypeOK, workerPool # 0, pools[workerPool].ring # 0, Start
  PROVE  RingTypeOK' /\ rings' = rings
<1>1. workerPool \in 1 .. rings /\ workerPool \in Pool
  <2>1. MaxRings \in Nat
    BY BootstrapAssumption, FS_CardinalityType
  <2>2. rings \in 0 .. MaxRings /\ workerPool \in 0 .. rings
    BY DEF RingTypeOK
  <2> QED
    BY <2>1, <2>2 DEF Pool
<1>2. pools[workerPool].ring \in Ring
  <2>1. pools \in [Pool -> [ring : 0 .. rings, barrier : 0 .. rings]]
    BY DEF RingTypeOK
  <2>2. pools[workerPool].ring \in 0 .. rings
    BY <1>1, <2>1
  <2>3. rings \in 0 .. MaxRings
    BY DEF RingTypeOK
  <2>4. MaxRings \in Nat
    BY BootstrapAssumption, FS_CardinalityType
  <2> QED
    BY <2>2, <2>3, <2>4 DEF Ring
<1>3. Len(log[pools[workerPool].ring]) \in Nat
  <2>1. log \in [Ring -> Seq(Event)]
    BY DEF RingTypeOK
  <2> QED
    BY <1>2, <2>1
<1>4. /\ position' = [position EXCEPT
                        ![workerPool] = Len(log[pools[workerPool].ring])]
      /\ started' = started \cup {workerPool}
      /\ UNCHANGED <<rings, ringBuffer, sequenceBarrier, workerPool, pools,
                     gating, log, producers, handled>>
  BY DEF Start
<1>5. position' \in [Pool -> Nat]
  <2>1. position \in [Pool -> Nat]
    BY DEF RingTypeOK
  <2> QED
    BY <1>3, <1>4, <2>1
<1> QED
  BY <1>1, <1>4, <1>5 DEF RingTypeOK

-----------------------------------------------------------------------------
(* What steps that leave a part alone keep of it.                          *)

LEMMA CallsKept ==
  ASSUME CallTypes, CallInv, IdleInv, ListInv,
         UNCHANGED <<callVars, channelCachePool>>,
         rings \in Nat, rings' \in Nat, rings <= rings'
  PROVE  CallTypes' /\ CallInv' /\ IdleInv'
<1>1. UNCHANGED <<callPc, holder, chan, channel, channelCachePool>>
  BY DEF callVars
<1>2. 0 .. rings \subseteq 0 .. rings'
  OBVIOUS
<1>3. channel' \in [Call -> [holder : {NoHolder} \cup Holder,
                             producer : 0 .. rings',
                             state : {"absent", "creating", "idle", "lent",
                                      "destroyed"}]]
  BY <1>1, <1>2 DEF CallTypes
<1>4. CallTypes'
  BY <1>1, <1>3 DEF CallTypes
<1>5. CallInv' /\ IdleInv'
  BY <1>1 DEF CallInv, IdleInv
<1> QED
  BY <1>4, <1>5

LEMMA ListsKept ==
  ASSUME ListTypes, ListInv, FindInv, UNCHANGED <<channelCachePool, closing>>,
         Added' = Added, UNCHANGED serviceAddress,
         rings \in Nat, rings' \in Nat, rings <= rings',
         cpc' \in [Client -> Building \cup {"new", "ready", "failed", "closed"}],
         ring' \in [Client -> 0 .. rings']
  PROVE  ListTypes' /\ ListInv' /\ FindInv'
<1>1. ListTypes'
  BY DEF ListTypes
<1>2. ListInv'
  BY ListKept
<1>3. FindInv'
  BY DEF FindInv, HoldersFor
<1> QED
  BY <1>1, <1>2, <1>3

(* Calls leave the clients and the list alone.                             *)
LEMMA ClientsKept ==
  ASSUME ListTypes, ListInv, FindInv, UNCHANGED listVars, UNCHANGED rings,
         rings \in Nat
  PROVE  ListTypes' /\ ListInv' /\ FindInv'
<1>1. UNCHANGED <<cpc, serviceAddress, ring, channelCachePool, closing>>
  BY DEF listVars
<1>2. Added' = Added
  BY <1>1 DEF Added
<1> QED
  BY <1>1, <1>2, ListsKept DEF ListTypes

LEMMA RingsAreNat ==
  ASSUME RingTypeOK PROVE rings \in Nat /\ rings <= MaxRings /\ MaxRings \in Nat
<1>1. MaxRings \in Nat
  BY BootstrapAssumption, FS_CardinalityType
<1>2. rings \in 0 .. MaxRings
  BY DEF RingTypeOK
<1> QED
  BY <1>1, <1>2

-----------------------------------------------------------------------------
(* Building a client keeps the invariant.                                  *)

LEMMA DiscoverKeeps ==
  ASSUME IInv, NEW c \in Client, Discover(c) PROVE IInv'
<1>0. RingTypeOK /\ ListTypes /\ CallTypes /\ HistoryTypes
  BY TypeParts DEF IInv
<1>1. PICK a \in Address : serviceAddress' = [serviceAddress EXCEPT ![c] = a]
  BY DEF Discover
<1>2. /\ cpc[c] = "new" /\ cpc' = [cpc EXCEPT ![c] = "scan"]
      /\ overlap' = (overlap \/ BuildGoingOn)
      /\ UNCHANGED <<ringVars, ring, channelCachePool, closing, callVars,
                     published, settled>>
  BY DEF Discover, ClientAt
<1>3. RingTypeOK' /\ rings' = rings
  BY <1>0, <1>2 DEF RingTypeOK, ringVars
<1>4. Added' = Added
  BY <1>0, <1>2 DEF Added, ListTypes
<1>5. ListTypes'
  BY <1>0, <1>1, <1>2, <1>3 DEF ListTypes, Building
<1>6. ListInv'
  BY <1>2, <1>4, ListKept DEF IInv
<1>7. FindInv'
  <2>1. \A d \in Added : serviceAddress'[d] = serviceAddress[d]
    BY <1>0, <1>1, <1>2 DEF Added, ListTypes
  <2> QED
    BY <1>2, <1>4, <2>1 DEF IInv, FindInv, HoldersFor
<1>8. StageInv'
  BY <1>0, <1>1, <1>2 DEF IInv, StageInv, ListTypes, ringVars
<1>9. CallTypes' /\ CallInv' /\ IdleInv'
  BY <1>0, <1>2, <1>3, CallsKept, RingsAreNat DEF IInv
<1>10. HistoryTypes'
  BY <1>0, <1>2 DEF HistoryTypes, BuildGoingOn
<1>11. TypeOK'
  BY <1>3, <1>5, <1>6, <1>9, <1>10, TypePartsNext
<1> QED
  BY <1>6, <1>7, <1>8, <1>9, <1>11 DEF IInv

LEMMA ScanKeeps ==
  ASSUME IInv, NEW c \in Client, Scan(c) PROVE IInv'
<1>0. RingTypeOK /\ ListTypes /\ CallTypes /\ HistoryTypes
  BY TypeParts DEF IInv
<1>1. /\ cpc[c] = "scan"
      /\ \/ cpc' = [cpc EXCEPT ![c] = "ring"] /\ ContainThis(c)
         \/ cpc' = [cpc EXCEPT ![c] = "add"]
      /\ UNCHANGED <<ringVars, serviceAddress, ring, channelCachePool, closing,
                     callVars, history>>
  BY DEF Scan, ClientAt
<1>2. RingTypeOK' /\ rings' = rings
  BY <1>0, <1>1 DEF RingTypeOK, ringVars
<1>3. \A d \in Client : d # c => cpc'[d] = cpc[d]
  BY <1>0, <1>1 DEF ListTypes
<1>4. ListTypes'
  BY <1>0, <1>1, <1>2 DEF ListTypes, Building
<1>5. Added \subseteq Added' /\ Added' \subseteq Added \cup {c}
  BY <1>0, <1>1 DEF Added, ListTypes
<1>6. c \in Added' => ContainThis(c)
  BY <1>0, <1>1 DEF Added, ListTypes
<1>7. ListInv'
  <2>1. Added' \in SUBSET Client
    BY DEF Added
  <2>2. IsFiniteSet(Added') /\ Cardinality(Added') \in Nat
    BY <2>1, BootstrapAssumption, FS_Subset, FS_CardinalityType
  <2>3. Cardinality(Added) <= Cardinality(Added')
    BY <1>5, <2>2, FS_Subset
  <2>4. Len(channelCachePool) \in Nat /\ Cardinality(Added) \in Nat
    BY AddedFinite, PoolDomain DEF IInv
  <2> QED
    BY <1>1, <2>2, <2>3, <2>4 DEF IInv, ListInv, Entry
<1>8. FindInv'
  BY <1>1, <1>5, <1>6 DEF IInv, FindInv, ContainThis, HoldersFor
<1>9. StageInv'
  BY <1>0, <1>1 DEF IInv, StageInv, ListTypes, ringVars
<1>10. CallTypes' /\ CallInv' /\ IdleInv'
  BY <1>0, <1>1, <1>2, CallsKept, RingsAreNat DEF IInv
<1>11. HistoryTypes'
  BY <1>0, <1>1 DEF HistoryTypes, history
<1>12. TypeOK'
  BY <1>2, <1>4, <1>7, <1>10, <1>11, TypePartsNext
<1> QED
  BY <1>7, <1>8, <1>9, <1>10, <1>12 DEF IInv

LEMMA AddNewChannelKeeps ==
  ASSUME IInv, NEW c \in Client, AddNewChannel(c) PROVE IInv'
<1>0. RingTypeOK /\ ListTypes /\ CallTypes /\ HistoryTypes
  BY TypeParts DEF IInv
<1>1. PICK conn \in ConnStr[serviceAddress[c]] :
         IF conn = Unparsable THEN UNCHANGED channelCachePool
         ELSE AddHolder(conn)
  BY DEF AddNewChannel
<1>2. /\ cpc[c] = "add" /\ cpc' = [cpc EXCEPT ![c] = "ring"]
      /\ UNCHANGED <<ringVars, serviceAddress, ring, closing, callVars, history>>
  BY DEF AddNewChannel, ClientAt
<1>3. RingTypeOK' /\ rings' = rings
  BY <1>0, <1>2 DEF RingTypeOK, ringVars
<1>4. serviceAddress[c] \in Address
  BY <1>2 DEF IInv, StageInv
<1>5. [conn |-> conn, open |-> TRUE] \in Entry
  BY <1>4 DEF Entry
<1>6. /\ channelCachePool \in Seq(Entry)
      /\ Len(channelCachePool) \in Nat
      /\ DOMAIN channelCachePool = 1 .. Len(channelCachePool)
  BY PoolDomain DEF IInv, ListInv
<1>7. /\ channelCachePool' \in Seq(Entry)
      /\ Len(channelCachePool') \in Nat
      /\ DOMAIN channelCachePool' = 1 .. Len(channelCachePool')
      /\ Len(channelCachePool) <= Len(channelCachePool')
      /\ Len(channelCachePool') <= Len(channelCachePool) + 1
      /\ \A i \in DOMAIN channelCachePool :
            channelCachePool'[i] = channelCachePool[i]
      /\ conn # Unparsable =>
            /\ Len(channelCachePool) + 1 \in DOMAIN channelCachePool'
            /\ channelCachePool'[Len(channelCachePool) + 1].conn = conn
  <2>1. CASE conn = Unparsable
    BY <1>1, <1>6, <2>1
  <2>2. CASE conn # Unparsable
    <3>1. channelCachePool' = Append(channelCachePool, [conn |-> conn, open |-> TRUE])
      BY <1>1, <2>2 DEF AddHolder
    <3>2. /\ channelCachePool' \in Seq(Entry)
          /\ Len(channelCachePool') = Len(channelCachePool) + 1
          /\ \A i \in 1 .. Len(channelCachePool) :
                channelCachePool'[i] = channelCachePool[i]
          /\ channelCachePool'[Len(channelCachePool) + 1]
                = [conn |-> conn, open |-> TRUE]
      BY <1>5, <1>6, <3>1, AppendProperties
    <3>3. DOMAIN channelCachePool' = 1 .. Len(channelCachePool')
      BY <3>2
    <3> QED
      BY <1>6, <3>2, <3>3
  <2> QED
    BY <2>1, <2>2
<1>8. DOMAIN channelCachePool \subseteq DOMAIN channelCachePool'
  BY <1>6, <1>7
<1>9. Added' = Added \cup {c} /\ c \notin Added
  BY <1>0, <1>2 DEF Added, ListTypes
<1>10. ListInv'
  <2>1. Cardinality(Added') = Cardinality(Added) + 1
    BY <1>9, AddedFinite, FS_AddElement
  <2> QED
    BY <1>6, <1>7, <2>1, AddedFinite DEF IInv, ListInv, Entry
<1>11. ListTypes'
  BY <1>0, <1>2, <1>3, <1>8 DEF ListTypes, Building
<1>12. FindInv'
  <2>1. ASSUME NEW d \in Added', ConnStr[serviceAddress'[d]] = {serviceAddress'[d]}
        PROVE  HoldersFor(serviceAddress[d])' # {}
    <3>1. CASE d \in Added
      BY <1>2, <1>7, <1>8, <2>1, <3>1 DEF IInv, FindInv, HoldersFor
    <3>2. CASE d = c
      <4>1. conn = serviceAddress[c]
        BY <1>2, <2>1, <3>2
      <4>2. conn # Unparsable
        BY <1>4, <4>1, BootstrapAssumption
      <4> QED
        BY <1>2, <1>7, <3>2, <4>1, <4>2 DEF HoldersFor
    <3> QED
      BY <1>9, <3>1, <3>2
  <2> QED
    BY <2>1 DEF FindInv
<1>13. StageInv'
  BY <1>0, <1>2 DEF IInv, StageInv, ListTypes, ringVars
<1>14. CallTypes' /\ CallInv'
  BY <1>0, <1>2, <1>3, <1>8 DEF IInv, CallTypes, CallInv, callVars
<1>15. IdleInv'
  BY <1>2, <1>7, <1>8 DEF IInv, IdleInv, callVars
<1>16. HistoryTypes'
  BY <1>0, <1>2 DEF HistoryTypes, history
<1>17. TypeOK'
  BY <1>3, <1>10, <1>11, <1>14, <1>16, TypePartsNext
<1> QED
  BY <1>10, <1>12, <1>13, <1>14, <1>15, <1>17 DEF IInv

LEMMA InitRingKeeps ==
  ASSUME IInv, NEW c \in Client, InitRing(c) PROVE IInv'
<1>0. RingTypeOK /\ ListTypes /\ CallTypes /\ HistoryTypes
  BY TypeParts DEF IInv
<1>1. rings \in Nat /\ rings <= MaxRings /\ MaxRings \in Nat
  BY <1>0, RingsAreNat
<1>2. UNCHANGED <<serviceAddress, channelCachePool, closing, callVars, history>>
  BY DEF InitRing
<1>3. ASSUME RingTypeOK', rings' \in Nat, rings <= rings',
             NEW from \in {"ring", "barrier", "pool", "gate", "start"},
             NEW to \in {"barrier", "pool", "gate", "start", "ready", "failed"},
             cpc[c] = from, cpc' = [cpc EXCEPT ![c] = to],
             ring' \in [Client -> 0 .. rings'], StageInv'
      PROVE  IInv'
  <2>1. Added' = Added
    BY <1>0, <1>3 DEF Added, ListTypes
  <2>2. cpc' \in [Client -> Building \cup {"new", "ready", "failed", "closed"}]
    BY <1>0, <1>3 DEF ListTypes, Building
  <2>3. ListTypes' /\ ListInv' /\ FindInv'
    BY <1>0, <1>1, <1>2, <1>3, <2>1, <2>2, ListsKept DEF IInv
  <2>4. CallTypes' /\ CallInv' /\ IdleInv'
    BY <1>0, <1>1, <1>2, <1>3, CallsKept DEF IInv
  <2>5. HistoryTypes'
    BY <1>0, <1>2 DEF HistoryTypes, history
  <2>6. TypeOK'
    BY <1>3, <2>3, <2>4, <2>5, TypePartsNext
  <2> QED
    BY <1>3, <2>3, <2>4, <2>6 DEF IInv
<1>4. CASE /\ ClientAt(c, "ring", "barrier")
           /\ \E n \in Ring : CreateRing(n) /\ ring' = [ring EXCEPT ![c] = n]
  <2>1. PICK n \in Ring : CreateRing(n) /\ ring' = [ring EXCEPT ![c] = n]
    BY <1>4
  <2>2. RingTypeOK' /\ n # 0 /\ n \in 0 .. rings' /\ rings' = rings + 1
    BY <1>0, <2>1, CreateRingTypes
  <2>3. ring' \in [Client -> 0 .. rings']
    BY <1>0, <1>1, <2>1, <2>2 DEF ListTypes
  <2>4. cpc[c] = "ring" /\ cpc' = [cpc EXCEPT ![c] = "barrier"]
    BY <1>4 DEF ClientAt
  <2>5. /\ ringBuffer' = n
        /\ UNCHANGED <<workerPool, pools, started>>
    BY <2>1 DEF CreateRing
  <2>6. StageInv'
    BY <1>0, <1>2, <2>1, <2>2, <2>4, <2>5 DEF IInv, StageInv, ListTypes
  <2> QED
    BY <1>1, <1>3, <2>2, <2>3, <2>4, <2>6
<1>5. CASE ClientAt(c, "barrier", "pool") /\ NewBarrier /\ UNCHANGED ring
  <2>1. RingTypeOK' /\ rings' = rings
    BY <1>0, <1>5, FactoryTypes
  <2>2. cpc[c] = "barrier" /\ cpc' = [cpc EXCEPT ![c] = "pool"]
    BY <1>5 DEF ClientAt
  <2>3. StageInv'
    BY <1>0, <1>2, <1>5, <2>2 DEF IInv, StageInv, ListTypes, NewBarrier
  <2> QED
    BY <1>0, <1>1, <1>3, <1>5, <2>1, <2>2, <2>3 DEF ListTypes
<1>6. CASE ClientAt(c, "pool", "gate") /\ NewPool(ring[c]) /\ UNCHANGED ring
  <2>1. cpc[c] = "pool" /\ cpc' = [cpc EXCEPT ![c] = "gate"]
    BY <1>6 DEF ClientAt
  <2>2. ring[c] \in 1 .. rings /\ ringBuffer # 0
    BY <1>0, <1>1, <2>1 DEF IInv, StageInv, ListTypes
  <2>3. RingTypeOK' /\ rings' = rings
    BY <1>0, <1>6, <2>2, FactoryTypes
  <2>4. StageInv'
    <3>1. ring[c] \in Pool
      BY <1>1, <2>2 DEF Pool
    <3>2. /\ workerPool' = ring[c] /\ UNCHANGED <<started, ringBuffer>>
          /\ pools' = [pools EXCEPT ![ring[c]] =
                          [ring |-> ringBuffer, barrier |-> sequenceBarrier]]
      BY <1>6 DEF NewPool
    <3>3. DOMAIN pools = Pool
      BY <1>0 DEF RingTypeOK
    <3>4. pools'[ring[c]].ring = ringBuffer
      BY <3>1, <3>2, <3>3
    <3>5. \A p \in started : pools'[p].ring # 0
      BY <2>2, <3>2, <3>3 DEF IInv, StageInv
    <3> QED
      BY <1>0, <1>2, <1>6, <2>1, <2>2, <3>2, <3>4, <3>5
         DEF IInv, StageInv, ListTypes
  <2> QED
    BY <1>0, <1>1, <1>3, <1>6, <2>1, <2>3, <2>4 DEF ListTypes
<1>7. CASE ClientAt(c, "gate", "start") /\ AddGatingSequences /\ UNCHANGED ring
  <2>1. cpc[c] = "gate" /\ cpc' = [cpc EXCEPT ![c] = "start"]
    BY <1>7 DEF ClientAt
  <2>2. workerPool # 0
    BY <2>1 DEF IInv, StageInv
  <2>3. RingTypeOK' /\ rings' = rings
    BY <1>0, <1>7, <2>2, FactoryTypes
  <2>4. StageInv'
    BY <1>0, <1>2, <1>7, <2>1 DEF IInv, StageInv, ListTypes, AddGatingSequences
  <2> QED
    BY <1>0, <1>1, <1>3, <1>7, <2>1, <2>3, <2>4 DEF ListTypes
<1>8. CASE ClientAt(c, "start", "ready") /\ Start /\ UNCHANGED ring
  <2>1. cpc[c] = "start" /\ cpc' = [cpc EXCEPT ![c] = "ready"]
    BY <1>8 DEF ClientAt
  <2>2. workerPool # 0 /\ pools[workerPool].ring # 0
    BY <2>1 DEF IInv, StageInv
  <2>3. RingTypeOK' /\ rings' = rings
    BY <1>0, <1>8, <2>2, StartTypes
  <2>4. StageInv'
    BY <1>0, <1>2, <1>8, <2>1, <2>2 DEF IInv, StageInv, ListTypes, Start
  <2> QED
    BY <1>0, <1>1, <1>3, <1>8, <2>1, <2>3, <2>4 DEF ListTypes
<1>9. CASE ClientAt(c, "start", "failed") /\ StartFails /\ UNCHANGED ring
  <2>1. cpc[c] = "start" /\ cpc' = [cpc EXCEPT ![c] = "failed"]
    BY <1>9 DEF ClientAt
  <2>2. RingTypeOK' /\ rings' = rings
    BY <1>0, <1>9, FactoryTypes
  <2>3. StageInv'
    BY <1>0, <1>2, <1>9, <2>1 DEF IInv, StageInv, ListTypes, StartFails, ringVars
  <2> QED
    BY <1>0, <1>1, <1>3, <1>9, <2>1, <2>2, <2>3 DEF ListTypes
<1> QED
  BY <1>4, <1>5, <1>6, <1>7, <1>8, <1>9 DEF InitRing

-----------------------------------------------------------------------------
(* Closing a client keeps the invariant.                                   *)

LEMMA BeginCloseKeeps ==
  ASSUME IInv, NEW c \in Client, BeginClose(c) PROVE IInv'
<1>0. RingTypeOK /\ ListTypes /\ CallTypes /\ HistoryTypes
  BY TypeParts DEF IInv
<1>1. /\ cpc[c] = "ready" /\ cpc' = [cpc EXCEPT ![c] = "closed"]
      /\ closing' = [closing EXCEPT ![c] = DOMAIN channelCachePool]
      /\ UNCHANGED <<ringVars, serviceAddress, ring, channelCachePool, callVars,
                     history>>
  BY DEF BeginClose, ClientAt
<1>2. RingTypeOK' /\ rings' = rings
  BY <1>0, <1>1 DEF RingTypeOK, ringVars
<1>3. Added' = Added
  BY <1>0, <1>1 DEF Added, ListTypes
<1>4. ListInv'
  BY <1>1, <1>3, ListKept DEF IInv
<1>5. ListTypes'
  BY <1>0, <1>1, <1>2 DEF ListTypes
<1>6. FindInv'
  BY <1>1, <1>3 DEF IInv, FindInv, HoldersFor
<1>7. StageInv'
  BY <1>0, <1>1 DEF IInv, StageInv, ListTypes, ringVars
<1>8. CallTypes' /\ CallInv' /\ IdleInv'
  BY <1>0, <1>1, <1>2, CallsKept, RingsAreNat DEF IInv
<1>9. HistoryTypes'
  BY <1>0, <1>1 DEF HistoryTypes, history
<1>10. TypeOK'
  BY <1>2, <1>4, <1>5, <1>8, <1>9, TypePartsNext
<1> QED
  BY <1>4, <1>6, <1>7, <1>8, <1>10 DEF IInv

(* Closing a holder changes neither its place nor its address.             *)
LEMMA Closed ==
  ASSUME ListInv, NEW i \in DOMAIN channelCachePool,
         NEW e \in Entry, e.conn = channelCachePool[i].conn,
         channelCachePool' = [channelCachePool EXCEPT ![i] = e]
  PROVE  /\ channelCachePool' \in Seq(Entry)
         /\ Len(channelCachePool') = Len(channelCachePool)
         /\ DOMAIN channelCachePool' = DOMAIN channelCachePool
         /\ \A j \in DOMAIN channelCachePool :
               /\ channelCachePool'[j].conn = channelCachePool[j].conn
               /\ j # i => channelCachePool'[j] = channelCachePool[j]
<1>1. channelCachePool \in Seq(Entry) /\ i \in 1 .. Len(channelCachePool)
  BY PoolDomain DEF ListInv
<1>2. /\ channelCachePool' \in Seq(Entry)
      /\ Len(channelCachePool') = Len(channelCachePool)
      /\ \A j \in 1 .. Len(channelCachePool) :
            channelCachePool'[j] = IF j = i THEN e ELSE channelCachePool[j]
  BY <1>1, ExceptSeq
<1> QED
  BY <1>1, <1>2

LEMMA CloseHolderKeeps ==
  ASSUME IInv, NEW c \in Client, NEW i \in Holder, CloseHolder(c, i)
  PROVE  IInv'
<1>0. RingTypeOK /\ ListTypes /\ CallTypes /\ HistoryTypes
  BY TypeParts DEF IInv
<1>1. /\ i \in closing[c]
      /\ closing' = [closing EXCEPT ![c] = @ \ {i}]
      /\ channelCachePool' = [channelCachePool EXCEPT ![i].open = FALSE]
      /\ UNCHANGED <<ringVars, cpc, serviceAddress, ring, callPc, holder,
                     chan, history>>
  BY DEF CloseHolder
<1>2. i \in DOMAIN channelCachePool
  BY <1>0, <1>1 DEF ListTypes
<1>3. /\ channelCachePool' \in Seq(Entry)
      /\ Len(channelCachePool') = Len(channelCachePool)
      /\ DOMAIN channelCachePool' = DOMAIN channelCachePool
      /\ \A j \in DOMAIN channelCachePool :
            /\ channelCachePool'[j].conn = channelCachePool[j].conn
            /\ j # i => channelCachePool'[j] = channelCachePool[j]
  <2> DEFINE e == [channelCachePool[i] EXCEPT !.open = FALSE]
  <2>1. channelCachePool[i] \in Entry
    BY <1>2, PoolDomain DEF IInv
  <2>2. e \in Entry /\ e.conn = channelCachePool[i].conn
    BY <2>1 DEF Entry
  <2>3. channelCachePool' = [channelCachePool EXCEPT ![i] = e]
    BY <1>1
  <2> HIDE DEF e
  <2> QED
    BY <1>2, <2>2, <2>3, Closed DEF IInv
<1>4. \A k \in Call :
         /\ channel'[k] \in ChannelRecord
         /\ channel'[k].holder = channel[k].holder
         /\ channel[k].state # "idle" => channel'[k] = channel[k]
         /\ channel[k].state = "idle" =>
               \/ channel'[k].state = "destroyed"
               \/ channel[k].holder # i /\ channel'[k] = channel[k]
  <2>1. channel' = [k \in Call |->
                      IF channel[k].holder = i /\ channel[k].state = "idle"
                      THEN [channel[k] EXCEPT !.state = "destroyed"]
                      ELSE channel[k]]
    BY DEF CloseHolder
  <2>2. channel \in [Call -> ChannelRecord]
    BY <1>0 DEF CallTypes
  <2>3. ASSUME NEW k \in Call,
               channel[k].holder = i /\ channel[k].state = "idle"
        PROVE  channel'[k] = [holder |-> channel[k].holder,
                              producer |-> channel[k].producer,
                              state |-> "destroyed"]
    <3>1. channel'[k] = [channel[k] EXCEPT !.state = "destroyed"]
      BY <2>1, <2>3
    <3>2. channel[k] \in ChannelRecord
      BY <2>2
    <3> QED
      BY <3>1, <3>2
  <2>4. ASSUME NEW k \in Call,
               ~ (channel[k].holder = i /\ channel[k].state = "idle")
        PROVE  channel'[k] = channel[k]
    BY <2>1, <2>4, Zenon
  <2>5. ASSUME NEW k \in Call
        PROVE  channel[k] \in ChannelRecord
    BY <2>2
  <2>6. ASSUME NEW k \in Call
        PROVE  /\ channel'[k] \in ChannelRecord
               /\ channel'[k].holder = channel[k].holder
               /\ channel[k].state # "idle" => channel'[k] = channel[k]
               /\ channel[k].state = "idle" =>
                     \/ channel'[k].state = "destroyed"
                     \/ channel[k].holder # i /\ channel'[k] = channel[k]
    <3>1. CASE channel[k].holder = i /\ channel[k].state = "idle"
      <4>1. channel'[k] = [holder |-> channel[k].holder,
                           producer |-> channel[k].producer,
                           state |-> "destroyed"]
        BY <2>3, <3>1
      <4>2. channel[k] \in ChannelRecord
        BY <2>5
      <4> QED
        BY <3>1, <4>1, <4>2
    <3>2. CASE ~ (channel[k].holder = i /\ channel[k].state = "idle")
      <4>1. channel'[k] = channel[k]
        BY <2>4, <3>2
      <4> QED
        BY <2>5, <3>2, <4>1
    <3> QED
      BY <3>1, <3>2
  <2> QED
    BY <2>6
<1>5. DOMAIN channel' = Call /\ channel' = [k \in Call |-> channel'[k]]
  BY DEF CloseHolder
<1>6. RingTypeOK' /\ rings' = rings
  BY <1>0, <1>1 DEF RingTypeOK, ringVars
<1>7. ListInv'
  BY <1>1, <1>3 DEF IInv, ListInv, Added, Entry
<1>8. ListTypes'
  BY <1>0, <1>1, <1>3, <1>6 DEF ListTypes
<1>9. FindInv'
  BY <1>1, <1>3 DEF IInv, FindInv, HoldersFor, Added
<1>10. StageInv'
  BY <1>1 DEF IInv, StageInv, ringVars
<1>11. CallTypes'
  BY <1>0, <1>1, <1>3, <1>4, <1>5, <1>6 DEF CallTypes
<1>12. CallInv'
  BY <1>1, <1>4 DEF IInv, CallInv
<1>13. IdleInv'
  BY <1>1, <1>3, <1>4 DEF IInv, IdleInv
<1>14. HistoryTypes'
  BY <1>0, <1>1 DEF HistoryTypes, history
<1>15. TypeOK'
  BY <1>6, <1>7, <1>8, <1>11, <1>14, TypePartsNext
<1> QED
  BY <1>7, <1>9, <1>10, <1>12, <1>13, <1>15 DEF IInv

-----------------------------------------------------------------------------
(* A call, and a response, keep the invariant.                             *)

LEMMA CallKeeps ==
  ASSUME IInv, UNCHANGED listVars, RingTypeOK',
         UNCHANGED <<rings, ringBuffer, workerPool, pools, started>>,
         HistoryTypes', CallTypes', CallInv', IdleInv'
  PROVE  IInv'
<1>0. RingTypeOK /\ ListTypes
  BY TypeParts DEF IInv
<1>1. ListTypes' /\ ListInv' /\ FindInv'
  BY <1>0, RingsAreNat, ClientsKept DEF IInv
<1>2. StageInv'
  BY DEF IInv, StageInv, listVars
<1>3. TypeOK'
  BY <1>1, TypePartsNext
<1> QED
  BY <1>1, <1>2, <1>3 DEF IInv

LEMMA StateChanged ==
  ASSUME CallTypes, NEW j \in Call,
         NEW st \in {"absent", "creating", "idle", "lent", "destroyed"},
         channel' = [channel EXCEPT ![j].state = st]
  PROVE  /\ channel' \in [Call -> ChannelRecord]
         /\ \A k \in Call : channel'[k].holder = channel[k].holder
         /\ \A k \in Call : k # j => channel'[k].state = channel[k].state
         /\ channel'[j].state = st
  BY DEF CallTypes

LEMMA InvokeKeeps ==
  ASSUME IInv, NEW k \in Call, NEW c \in Client, Invoke(k, c) PROVE IInv'
<1>0. RingTypeOK /\ ListTypes /\ CallTypes /\ HistoryTypes
  BY TypeParts DEF IInv
<1>1. /\ callPc[k] = "none"
      /\ UNCHANGED <<ringVars, listVars, chan, channel, history>>
      /\ \/ /\ callPc' = [callPc EXCEPT ![k] = "borrow"]
            /\ \E i \in Candidates(c) : holder' = [holder EXCEPT ![k] = i]
         \/ callPc' = [callPc EXCEPT ![k] = "failed"] /\ UNCHANGED holder
  BY DEF Invoke, CallAt
<1>2. Candidates(c) \subseteq DOMAIN channelCachePool
  BY DEF Candidates, HoldersFor
<1>3. NoHolder \notin DOMAIN channelCachePool
  BY PoolDomain DEF IInv
<1>4. CallTypes'
  BY <1>0, <1>1, <1>2 DEF CallTypes, ringVars, listVars
<1>5. CallInv'
  BY <1>0, <1>1, <1>2, <1>3 DEF IInv, CallInv, CallTypes
<1>6. IdleInv'
  BY <1>1 DEF IInv, IdleInv, listVars
<1>7. HistoryTypes' /\ RingTypeOK'
  BY <1>0, <1>1 DEF HistoryTypes, RingTypeOK, history, ringVars
<1> QED
  BY <1>1, <1>4, <1>5, <1>6, <1>7, CallKeeps DEF ringVars

LEMMA BorrowKeeps ==
  ASSUME IInv, NEW k \in Call, Borrow(k) PROVE IInv'
<1>0. RingTypeOK /\ ListTypes /\ CallTypes /\ HistoryTypes
  BY TypeParts DEF IInv
<1>1. UNCHANGED <<ringVars, listVars, holder, history>> /\ callPc[k] = "borrow"
  BY DEF Borrow, CallAt
<1>2. HistoryTypes' /\ RingTypeOK'
  BY <1>0, <1>1 DEF HistoryTypes, RingTypeOK, history, ringVars
<1>3. UNCHANGED <<rings, ringBuffer, workerPool, pools, started, channelCachePool>>
  BY <1>1 DEF ringVars, listVars
<1>4. holder[k] # NoHolder /\ channel[k].state = "absent"
  BY <1>1 DEF IInv, CallInv
<1>5. CASE CallAt(k, "borrow", "failed") /\ UNCHANGED <<chan, channel>>
  <2>1. CallTypes' /\ CallInv' /\ IdleInv'
    BY <1>0, <1>1, <1>3, <1>5 DEF IInv, CallAt, CallTypes, CallInv, IdleInv
  <2> QED
    BY <1>1, <1>2, <1>3, <2>1, CallKeeps
<1>6. ASSUME NEW j \in Call, channel[j].holder = holder[k],
             channel[j].state = "idle", CallAt(k, "borrow", "await"),
             chan' = [chan EXCEPT ![k] = j],
             channel' = [channel EXCEPT ![j].state = "lent"]
      PROVE  IInv'
  <2>1. /\ channel' \in [Call -> ChannelRecord]
        /\ \A m \in Call : channel'[m].holder = channel[m].holder
        /\ \A m \in Call : m # j => channel'[m].state = channel[m].state
        /\ channel'[j].state = "lent"
    BY <1>0, <1>6, StateChanged
  <2>2. callPc' = [callPc EXCEPT ![k] = "await"]
    BY <1>6 DEF CallAt
  <2>3. CallTypes'
    BY <1>0, <1>1, <1>3, <1>6, <2>1, <2>2 DEF CallTypes
  <2>4. CallInv'
    BY <1>0, <1>1, <1>4, <1>6, <2>1, <2>2 DEF IInv, CallInv, CallTypes
  <2>5. IdleInv'
    BY <1>3, <1>6, <2>1 DEF IInv, IdleInv
  <2> QED
    BY <1>1, <1>2, <1>3, <2>3, <2>4, <2>5, CallKeeps
<1>7. CASE /\ CallAt(k, "borrow", "lookup")
           /\ chan' = [chan EXCEPT ![k] = k]
           /\ channel' = [channel EXCEPT ![k] = NewChannel(holder[k])]
  <2>1. callPc' = [callPc EXCEPT ![k] = "lookup"]
    BY <1>7 DEF CallAt
  <2>2. holder[k] \in Holder
    BY <1>0, <1>4, PoolDomain DEF IInv, CallTypes
  <2>3. NewChannel(holder[k]) \in ChannelRecord
    BY <1>0, <2>2, RingsAreNat DEF NewChannel
  <2>4. /\ \A m \in Call : m # k => channel'[m] = channel[m]
        /\ channel'[k].holder = holder[k] /\ channel'[k].state = "creating"
    BY <1>0, <1>7 DEF CallTypes, NewChannel
  <2>5. CallTypes'
    BY <1>0, <1>1, <1>3, <1>7, <2>1, <2>3 DEF CallTypes
  <2>6. CallInv'
    BY <1>0, <1>1, <1>4, <1>7, <2>1, <2>4 DEF IInv, CallInv, CallTypes
  <2>7. IdleInv'
    BY <1>3, <2>4 DEF IInv, IdleInv
  <2> QED
    BY <1>1, <1>2, <1>3, <2>5, <2>6, <2>7, CallKeeps
<1> QED
  BY <1>5, <1>6, <1>7 DEF Borrow

LEMMA GetMessageProducerKeeps ==
  ASSUME IInv, NEW k \in Call, GetMessageProducer(k) PROVE IInv'
<1>0. RingTypeOK /\ ListTypes /\ CallTypes /\ HistoryTypes
  BY TypeParts DEF IInv
<1>1. PICK r \in {producers, ringBuffer} :
         channel' = [channel EXCEPT ![k].producer = r]
  BY DEF GetMessageProducer
<1>2. /\ UNCHANGED <<ringVars, listVars, holder, chan, history>>
      /\ callPc[k] = "lookup"
      /\ \/ callPc' = [callPc EXCEPT ![k] = "connect"]
         \/ callPc' = [callPc EXCEPT ![k] = "put"]
  BY DEF GetMessageProducer, CallAt
<1>3. HistoryTypes' /\ RingTypeOK'
  BY <1>0, <1>2 DEF HistoryTypes, RingTypeOK, history, ringVars
<1>4. UNCHANGED <<rings, ringBuffer, workerPool, pools, started, channelCachePool>>
  BY <1>2 DEF ringVars, listVars
<1>5. r \in 0 .. rings
  BY <1>0 DEF RingTypeOK
<1>6. /\ channel' \in [Call -> ChannelRecord]
      /\ \A m \in Call : /\ channel'[m].holder = channel[m].holder
                         /\ channel'[m].state = channel[m].state
  BY <1>0, <1>1, <1>5 DEF CallTypes
<1>7. CallTypes'
  BY <1>0, <1>2, <1>4, <1>6 DEF CallTypes
<1>8. CallInv'
  BY <1>0, <1>2, <1>6 DEF IInv, CallInv, CallTypes
<1>9. IdleInv'
  BY <1>4, <1>6 DEF IInv, IdleInv
<1> QED
  BY <1>2, <1>3, <1>4, <1>7, <1>8, <1>9, CallKeeps

LEMMA StoreProducerKeeps ==
  ASSUME IInv, NEW k \in Call, StoreProducer(k) PROVE IInv'
<1>0. RingTypeOK /\ ListTypes /\ CallTypes /\ HistoryTypes
  BY TypeParts DEF IInv
<1>1. /\ UNCHANGED <<listVars, holder, chan, channel, history>>
      /\ callPc[k] = "put" /\ callPc' = [callPc EXCEPT ![k] = "connect"]
      /\ PutProducer(channel[k].producer)
  BY DEF StoreProducer, CallAt
<1>2. channel[k].producer \in 0 .. rings
  BY <1>0 DEF CallTypes
<1>3. RingTypeOK' /\ rings' = rings
  BY <1>0, <1>1, <1>2, FactoryTypes
<1>4. UNCHANGED <<rings, ringBuffer, workerPool, pools, started, channelCachePool>>
  BY <1>1 DEF PutProducer, listVars
<1>5. HistoryTypes'
  BY <1>0, <1>1 DEF HistoryTypes, history
<1>6. CallTypes'
  BY <1>0, <1>1, <1>4 DEF CallTypes
<1>7. CallInv' /\ IdleInv'
  BY <1>0, <1>1, <1>4 DEF IInv, CallInv, IdleInv, CallTypes
<1> QED
  BY <1>1, <1>3, <1>4, <1>5, <1>6, <1>7, CallKeeps

LEMMA ConnectKeeps ==
  ASSUME IInv, NEW k \in Call, Connect(k) PROVE IInv'
<1>0. RingTypeOK /\ ListTypes /\ CallTypes /\ HistoryTypes
  BY TypeParts DEF IInv
<1>1. /\ UNCHANGED <<ringVars, listVars, holder, chan, history>>
      /\ callPc[k] = "connect"
      /\ \/ /\ callPc' = [callPc EXCEPT ![k] = "await"]
            /\ channel' = [channel EXCEPT ![k].state = "lent"]
         \/ /\ callPc' = [callPc EXCEPT ![k] = "failed"]
            /\ channel' = [channel EXCEPT ![k].state = "absent"]
  BY DEF Connect, CallAt
<1>2. HistoryTypes' /\ RingTypeOK'
  BY <1>0, <1>1 DEF HistoryTypes, RingTypeOK, history, ringVars
<1>3. UNCHANGED <<rings, ringBuffer, workerPool, pools, started, channelCachePool>>
  BY <1>1 DEF ringVars, listVars
<1>4. /\ channel' \in [Call -> ChannelRecord]
      /\ \A m \in Call : channel'[m].holder = channel[m].holder
      /\ \A m \in Call : m # k => channel'[m].state = channel[m].state
      /\ \/ channel'[k].state = "lent" /\ callPc' = [callPc EXCEPT ![k] = "await"]
         \/ channel'[k].state = "absent" /\ callPc' = [callPc EXCEPT ![k] = "failed"]
  BY <1>0, <1>1, StateChanged
<1>5. /\ channel[k].state = "creating" /\ channel[k].holder = holder[k]
      /\ chan[k] = k
  BY <1>1 DEF IInv, CallInv
<1>6. CallTypes'
  BY <1>0, <1>1, <1>3, <1>4 DEF CallTypes
<1>7. \A m \in Call : callPc[m] \in {"await", "done"} => chan[m] # k
  BY <1>5 DEF IInv, CallInv
<1>8. CallInv'
  BY <1>0, <1>1, <1>4, <1>5, <1>7 DEF IInv, CallInv, CallTypes
<1>9. IdleInv'
  BY <1>3, <1>4 DEF IInv, IdleInv
<1> QED
  BY <1>1, <1>2, <1>3, <1>6, <1>8, <1>9, CallKeeps

LEMMA ChannelRead0Keeps ==
  ASSUME IInv, NEW k \in Call, ChannelRead0(k) PROVE IInv'
<1>0. RingTypeOK /\ ListTypes /\ CallTypes /\ HistoryTypes
  BY TypeParts DEF IInv
<1>1. /\ UNCHANGED <<listVars, callVars, overlap>>
      /\ OnData(channel[chan[k]].producer, k)
      /\ published' = published \cup {k}
      /\ settled' = settled \/ settled' = settled \cup {k}
      /\ callPc[k] \in {"await", "done"}
  BY DEF ChannelRead0
<1>2. channel[chan[k]].producer \in 0 .. rings
  BY <1>0, <1>1 DEF IInv, CallInv, CallTypes
<1>3. RingTypeOK' /\ rings' = rings
  BY <1>0, <1>1, <1>2, FactoryTypes DEF Call
<1>4. UNCHANGED <<rings, ringBuffer, workerPool, pools, started, channelCachePool>>
  BY <1>1 DEF OnData, listVars
<1>5. HistoryTypes'
  BY <1>0, <1>1 DEF HistoryTypes
<1>6. CallTypes' /\ CallInv' /\ IdleInv'
  BY <1>0, <1>1, <1>4, CallsKept, RingsAreNat DEF IInv
<1> QED
  BY <1>1, <1>3, <1>4, <1>5, <1>6, CallKeeps

LEMMA EndCallKeeps ==
  ASSUME IInv, NEW k \in Call, EndCall(k) PROVE IInv'
<1>0. RingTypeOK /\ ListTypes /\ CallTypes /\ HistoryTypes
  BY TypeParts DEF IInv
<1>1. /\ UNCHANGED <<ringVars, listVars, holder, chan, history>>
      /\ callPc[k] = "await" /\ callPc' = [callPc EXCEPT ![k] = "done"]
      /\ channel' = [channel EXCEPT ![chan[k]].state = Returned(holder[k])]
  BY DEF EndCall, CallAt
<1>2. HistoryTypes' /\ RingTypeOK'
  BY <1>0, <1>1 DEF HistoryTypes, RingTypeOK, history, ringVars
<1>3. UNCHANGED <<rings, ringBuffer, workerPool, pools, started, channelCachePool>>
  BY <1>1 DEF ringVars, listVars
<1>4. /\ chan[k] \in Call /\ channel[chan[k]].holder = holder[k]
      /\ holder[k] # NoHolder /\ channel[chan[k]].state \notin {"absent", "creating"}
  BY <1>1 DEF IInv, CallInv
<1>5. holder[k] \in DOMAIN channelCachePool
  BY <1>0, <1>4 DEF CallTypes
<1>6. PICK st \in {"idle", "destroyed"} :
         st = Returned(holder[k]) /\ (st = "idle" => channelCachePool[holder[k]].open)
  BY DEF Returned
<1>7. /\ channel' \in [Call -> ChannelRecord]
      /\ \A m \in Call : channel'[m].holder = channel[m].holder
      /\ \A m \in Call : m # chan[k] => channel'[m].state = channel[m].state
      /\ channel'[chan[k]].state = st
  BY <1>0, <1>1, <1>4, <1>6, StateChanged
<1>8. CallTypes'
  BY <1>0, <1>1, <1>3, <1>7 DEF CallTypes
<1>9. callPc[chan[k]] \notin {"none", "borrow", "lookup", "put", "connect"}
  BY <1>4 DEF IInv, CallInv
<1>10. CallInv'
  BY <1>0, <1>1, <1>4, <1>7, <1>9 DEF IInv, CallInv, CallTypes
<1>11. IdleInv'
  BY <1>3, <1>4, <1>5, <1>6, <1>7 DEF IInv, IdleInv
<1> QED
  BY <1>1, <1>2, <1>3, <1>8, <1>10, <1>11, CallKeeps

LEMMA WorkStepKeeps ==
  ASSUME IInv, NEW p \in Pool, WorkStep(p) PROVE IInv'
<1>0. RingTypeOK /\ ListTypes /\ CallTypes /\ HistoryTypes
  BY TypeParts DEF IInv
<1>1. UNCHANGED <<listVars, callVars, history>> /\ Process(p)
  BY DEF WorkStep
<1>2. RingTypeOK' /\ rings' = rings
  BY <1>0, <1>1, FactoryTypes
<1>3. UNCHANGED <<rings, ringBuffer, workerPool, pools, started, channelCachePool>>
  BY <1>1 DEF Process, listVars
<1>4. HistoryTypes'
  BY <1>0, <1>1 DEF HistoryTypes, history
<1>5. CallTypes' /\ CallInv' /\ IdleInv'
  BY <1>0, <1>1, <1>3, CallsKept, RingsAreNat DEF IInv
<1> QED
  BY <1>1, <1>2, <1>3, <1>4, <1>5, CallKeeps

LEMMA InvNext == IInv /\ [Next]_vars => IInv'
<1> SUFFICES ASSUME IInv, [Next]_vars PROVE IInv'
  OBVIOUS
<1>1. ASSUME NEW c \in Client, BuildStep(c) PROVE IInv'
  BY <1>1, DiscoverKeeps, ScanKeeps, AddNewChannelKeeps, InitRingKeeps
     DEF BuildStep
<1>2. ASSUME NEW k \in Call, CallStep(k) PROVE IInv'
  BY <1>2, BorrowKeeps, GetMessageProducerKeeps, StoreProducerKeeps,
     ConnectKeeps, EndCallKeeps DEF CallStep
<1>3. ASSUME UNCHANGED vars PROVE IInv'
  <2>1. UNCHANGED <<ringVars, listVars, callVars, history>>
    BY <1>3 DEF vars
  <2>2. RingTypeOK /\ ListTypes /\ CallTypes /\ HistoryTypes
    BY TypeParts DEF IInv
  <2>3. RingTypeOK' /\ HistoryTypes'
    BY <2>1, <2>2 DEF RingTypeOK, HistoryTypes, ringVars, history
  <2>4. UNCHANGED <<rings, ringBuffer, workerPool, pools, started, channelCachePool>>
    BY <2>1 DEF ringVars, listVars
  <2>5. CallTypes' /\ CallInv' /\ IdleInv'
    BY <2>1, <2>2, <2>4, CallsKept, RingsAreNat DEF IInv
  <2> QED
    BY <2>1, <2>3, <2>4, <2>5, CallKeeps
<1> QED
  BY <1>1, <1>2, <1>3, BeginCloseKeeps, CloseHolderKeeps, InvokeKeeps,
     ChannelRead0Keeps, WorkStepKeeps DEF Next, Quiescent

LEMMA Invariant == Spec => []IInv
  BY InvInit, InvNext, PTL DEF Spec

-----------------------------------------------------------------------------
(* Every variable of the process keeps its type; in particular the list of *)
(* holders never grows past one for each client.                           *)
THEOREM BootstrapTypeCorrect == Spec => []TypeOK
<1>1. IInv => TypeOK
  BY DEF IInv
<1> QED
  BY <1>1, Invariant, PTL

(* A closed pool has no idle channel, whichever calls were using its       *)
(* channels while it was closed.                                           *)
THEOREM PoolsDrain == Spec => []ClosedPoolsDrain
<1>1. IInv => ClosedPoolsDrain
  BY DEF IInv, IdleInv, ClosedPoolsDrain
<1> QED
  BY <1>1, Invariant, PTL

(* Of the holders for an address one comes first.                          *)
LEMMA FirstOf ==
  ASSUME NEW S \in SUBSET Nat, S # {}
  PROVE  \E i \in S : \A j \in S : i <= j
<1> DEFINE R == OpToRel(<, Nat)
<1>1. IsWellFoundedOn(R, Nat)
  BY NatLessThanWellFounded
<1>2. PICK i \in S : \A j \in S : ~ (<<j, i>> \in R)
  <2> HIDE DEF R
  <2> QED
    BY <1>1, WFMin
<1>3. ASSUME NEW j \in S PROVE i <= j
  <2>1. ~ (j < i)
    BY <1>2, <1>3 DEF OpToRel
  <2> QED
    BY <2>1
<1> QED
  BY <1>3

(* A client whose address can be split has a holder to select as soon as   *)
(* it is built, whatever the others build or close.                        *)
THEOREM HolderIsFound == Spec => []CallFindsHolder
<1>1. ASSUME IInv, NEW c \in Client, cpc[c] = "ready",
             ConnStr[serviceAddress[c]] = {serviceAddress[c]}
      PROVE  Candidates(c) # {}
  <2> DEFINE all == HoldersFor(serviceAddress[c])
  <2>1. all # {}
    BY <1>1 DEF IInv, FindInv, Added
  <2>2. all \in SUBSET Nat
    BY <1>1, PoolDomain DEF IInv, HoldersFor
  <2>3. \E i \in all : \A j \in all : i <= j
    <3> HIDE DEF all
    <3> QED
      BY <2>1, <2>2, FirstOf
  <2> QED
    BY <2>1, <2>3 DEF Candidates
<1>2. IInv => CallFindsHolder
  BY <1>1 DEF CallFindsHolder
<1> QED
  BY <1>2, Invariant, PTL

-----------------------------------------------------------------------------
(* The rings and the pools.                                                *)

LEMMA RingTypes ==
  ASSUME IInv
  PROVE  /\ log \in [Ring -> Seq(Event)]
         /\ position \in [Pool -> Nat]
         /\ handled \in [Event -> Nat]
         /\ rings \in Nat /\ rings <= MaxRings /\ MaxRings \in Nat
         /\ started \subseteq 1 .. rings
         /\ Ring = Pool /\ started \subseteq Ring
<1>1. RingTypeOK
  BY DEF IInv, TypeOK
<1>2. rings \in Nat /\ rings <= MaxRings /\ MaxRings \in Nat
  BY <1>1, RingsAreNat
<1>3. /\ log \in [Ring -> Seq(Event)]
      /\ position \in [Pool -> Nat]
      /\ handled \in [Event -> Nat]
      /\ started \subseteq 1 .. rings
  BY <1>1 DEF RingTypeOK
<1> QED
  BY <1>2, <1>3 DEF Ring, Pool

LEMMA OnDataLog ==
  ASSUME IInv, NEW r \in Ring, NEW e \in Event, OnData(r, e)
  PROVE  /\ \A s \in Ring : s # r => log'[s] = log[s]
         /\ Len(log[r]) \in Nat
         /\ Len(log'[r]) = Len(log[r]) + 1
         /\ \A i \in 1 .. Len(log[r]) : log'[r][i] = log[r][i]
         /\ log'[r][Len(log[r]) + 1] = e
<1>1. log[r] \in Seq(Event) /\ log'[r] = Append(log[r], e)
  BY RingTypes DEF OnData
<1>2. \A s \in Ring : s # r => log'[s] = log[s]
  BY RingTypes DEF OnData
<1> QED
  BY <1>1, <1>2, AppendProperties, LenProperties

(* What a worker of a started pool does.                                   *)
LEMMA ProcessHandles ==
  ASSUME IInv, NEW p \in Pool, Process(p)
  PROVE  /\ p \in started
         /\ position'[p] = position[p] + 1
         /\ \A q \in Pool : q # p => position'[q] = position[q]
         /\ pools[p].ring \in Ring
         /\ \/ handled' = handled /\ position[p] + 1 > Len(log[pools[p].ring])
            \/ \E e \in Event :
                  /\ position[p] + 1 \in 1 .. Len(log[pools[p].ring])
                  /\ e = log[pools[p].ring][position[p] + 1]
                  /\ handled' = [handled EXCEPT ![e] = @ + 1]
         /\ UNCHANGED <<rings, ringBuffer, sequenceBarrier, workerPool, pools,
                        gating, started, log, producers>>
<1>1. p \in started /\ position' = [position EXCEPT ![p] = @ + 1]
  BY DEF Process
<1>2. pools[p].ring \in Ring
  <2>1. pools[p].ring \in 0 .. rings
    BY DEF IInv, TypeOK, RingTypeOK
  <2>2. pools[p].ring # 0
    BY <1>1 DEF IInv, StageInv
  <2> QED
    BY <2>1, <2>2, RingTypes DEF Ring
<1> DEFINE s == log[pools[p].ring]
           n == position[p] + 1
<1>3. s \in Seq(Event) /\ n \in Nat /\ n >= 1 /\ Len(s) \in Nat
  BY <1>2, RingTypes, LenProperties
<1>4. handled' = IF n <= Len(s) THEN [handled EXCEPT ![s[n]] = @ + 1] ELSE handled
  BY DEF Process
<1>5. CASE n <= Len(s)
  <2> HIDE DEF s, n
  <2>1. n \in 1 .. Len(s)
    BY <1>3, <1>5
  <2>2. s[n] \in Event
    BY <1>3, <2>1, ElementOfSeq
  <2>3. \E e \in Event : /\ n \in 1 .. Len(s) /\ e = s[n]
                         /\ handled' = [handled EXCEPT ![e] = @ + 1]
    BY <1>4, <1>5, <2>1, <2>2
  <2> QED
    BY <1>1, <1>2, <2>3, RingTypes DEF s, n, Process
<1>6. CASE ~ (n <= Len(s))
  <2>1. handled' = handled /\ n > Len(s)
    BY <1>3, <1>4, <1>6
  <2> QED
    BY <1>1, <1>2, <2>1, RingTypes DEF Process
<1> QED
  BY <1>5, <1>6

(* What no build, call or close changes of the rings.                      *)
LEMMA LogKept ==
  ASSUME LogInv, UNCHANGED <<log, published, handled>>
  PROVE  LogInv'
  BY DEF LogInv

LEMMA AheadKept ==
  ASSUME AheadInv, UNCHANGED <<log, handled, position, started>>,
         overlap => overlap'
  PROVE  AheadInv'
  BY DEF AheadInv

LEMMA BuildKept ==
  ASSUME BuildInv, UNCHANGED <<rings, ringBuffer, workerPool, pools, gating,
                               started, ring, overlap>>,
         \A c \in Client : cpc'[c] = cpc[c] \/ cpc'[c] \notin Building
                            \/ (cpc'[c] \in {"add", "ring"} /\ cpc[c] \in Building)
  PROVE  BuildInv'
  BY DEF BuildInv, Building

LEMMA LogPublish ==
  ASSUME IInv, LogInv, NEW e \in Event, e \notin published,
         NEW r \in 0 .. rings, OnData(r, e), published' = published \cup {e}
  PROVE  LogInv'
<1>1. UNCHANGED handled
  BY DEF OnData
<1>2. \A k \in Call : handled'[k] # 0 => k \in published'
  BY <1>1 DEF LogInv
<1>3. CASE r \in Ring
  <2>1. /\ \A s \in Ring : s # r => log'[s] = log[s]
        /\ Len(log[r]) \in Nat
        /\ Len(log'[r]) = Len(log[r]) + 1
        /\ \A i \in 1 .. Len(log[r]) : log'[r][i] = log[r][i]
        /\ log'[r][Len(log[r]) + 1] = e
    BY <1>3, OnDataLog
  <2>2. ASSUME NEW s \in Ring, NEW i \in 1 .. Len(log'[s])
        PROVE  \/ i \in 1 .. Len(log[s]) /\ log'[s][i] = log[s][i]
               \/ s = r /\ i = Len(log[r]) + 1 /\ log'[s][i] = e
    <3>1. CASE s = r
      <4>1. i \in 1 .. Len(log[r]) \/ i = Len(log[r]) + 1
        BY <2>1, <2>2, <3>1
      <4> QED
        BY <2>1, <3>1, <4>1
    <3>2. CASE s # r
      BY <2>1, <2>2, <3>2
    <3> QED
      BY <3>1, <3>2
  <2>3. \A s \in Ring : \A i \in 1 .. Len(log[s]) : log[s][i] # e
    BY DEF LogInv
  <2>4. \A s \in Ring : \A i \in 1 .. Len(log'[s]) : log'[s][i] \in published'
    BY <2>2 DEF LogInv
  <2>5. ASSUME NEW s \in Ring, NEW t \in Ring,
               NEW i \in 1 .. Len(log'[s]), NEW j \in 1 .. Len(log'[t]),
               log'[s][i] = log'[t][j]
        PROVE  s = t /\ i = j
    <3>1. \/ i \in 1 .. Len(log[s]) /\ log'[s][i] = log[s][i]
          \/ s = r /\ i = Len(log[r]) + 1 /\ log'[s][i] = e
      BY <2>2
    <3>2. \/ j \in 1 .. Len(log[t]) /\ log'[t][j] = log[t][j]
          \/ t = r /\ j = Len(log[r]) + 1 /\ log'[t][j] = e
      BY <2>2
    <3>3. CASE i \in 1 .. Len(log[s]) /\ j \in 1 .. Len(log[t])
               /\ log[s][i] = log[t][j]
      BY <3>3 DEF LogInv
    <3>4. CASE s = r /\ i = Len(log[r]) + 1 /\ t = r /\ j = Len(log[r]) + 1
      BY <3>4
    <3> QED
      BY <2>3, <2>5, <3>1, <3>2, <3>3, <3>4
  <2> QED
    BY <1>2, <2>4, <2>5 DEF LogInv
<1>4. CASE r \notin Ring
  <2>1. log' = log
    <3>1. log \in [Ring -> Seq(Event)]
      BY RingTypes
    <3>2. log' = [log EXCEPT ![r] = Append(@, e)]
      BY DEF OnData
    <3> QED
      BY <1>4, <3>1, <3>2
  <2> QED
    BY <1>1, <2>1 DEF LogInv
<1> QED
  BY <1>3, <1>4

LEMMA AheadPublish ==
  ASSUME IInv, LogInv, AheadInv, NEW e \in Event, e \notin published,
         NEW r \in 0 .. rings, OnData(r, e), UNCHANGED overlap
  PROVE  AheadInv'
<1>1. UNCHANGED <<handled, position, started, overlap>>
  BY DEF OnData
<1>2. handled[e] = 0
  BY DEF LogInv, Call
<1>3. CASE r \in Ring
  <2>1. /\ \A s \in Ring : s # r => log'[s] = log[s]
        /\ Len(log[r]) \in Nat
        /\ Len(log'[r]) = Len(log[r]) + 1
        /\ \A i \in 1 .. Len(log[r]) : log'[r][i] = log[r][i]
        /\ log'[r][Len(log[r]) + 1] = e
    BY <1>3, OnDataLog
  <2>2. ASSUME ~overlap, NEW p \in started, NEW i \in 1 .. Len(log'[p]),
               position[p] < i
        PROVE  handled[log'[p][i]] = 0
    <3>1. p \in Ring
      BY RingTypes
    <3>2. CASE p = r /\ i = Len(log[r]) + 1
      BY <1>2, <2>1, <3>2
    <3>3. CASE ~ (p = r /\ i = Len(log[r]) + 1)
      <4>1. i \in 1 .. Len(log[p]) /\ log'[p][i] = log[p][i]
        <5>1. CASE p = r
          BY <2>1, <3>3, <5>1
        <5>2. CASE p # r
          BY <2>1, <3>1, <5>2
        <5> QED
          BY <5>1, <5>2
      <4> QED
        BY <2>2, <4>1 DEF AheadInv
    <3> QED
      BY <3>2, <3>3
  <2> QED
    BY <1>1, <2>2 DEF AheadInv
<1>4. CASE r \notin Ring
  <2>1. log' = log
    <3>1. log \in [Ring -> Seq(Event)]
      BY RingTypes
    <3>2. log' = [log EXCEPT ![r] = Append(@, e)]
      BY DEF OnData
    <3> QED
      BY <1>4, <3>1, <3>2
  <2> QED
    BY <1>1, <2>1 DEF AheadInv
<1> QED
  BY <1>3, <1>4

LEMMA LogProcess ==
  ASSUME IInv, LogInv, NEW p \in Pool, Process(p), UNCHANGED published
  PROVE  LogInv'
<1>1. UNCHANGED log
  BY DEF Process
<1>2. ASSUME NEW k \in Call, handled'[k] # 0 PROVE k \in published
  <2>1. CASE handled' = handled
    BY <1>2, <2>1 DEF LogInv
  <2>2. ASSUME NEW e \in Event,
               position[p] + 1 \in 1 .. Len(log[pools[p].ring]),
               e = log[pools[p].ring][position[p] + 1],
               handled' = [handled EXCEPT ![e] = @ + 1]
        PROVE  k \in published
    <3>1. CASE k = e
      BY <2>2, <3>1, ProcessHandles DEF LogInv
    <3>2. CASE k # e
      <4>1. handled'[k] = handled[k]
        BY <2>2, <3>2, RingTypes DEF Call
      <4> QED
        BY <1>2, <4>1 DEF LogInv
    <3> QED
      BY <3>1, <3>2
  <2> QED
    BY <2>1, <2>2, ProcessHandles
<1> QED
  BY <1>1, <1>2 DEF LogInv

(* A worker handles what is next in its own ring: nobody has handled it,   *)
(* and no other ring has it.                                               *)
LEMMA AheadProcess ==
  ASSUME IInv, LogInv, BuildInv, AheadInv, NEW p \in Pool, Process(p),
         UNCHANGED overlap
  PROVE  AheadInv'
<1> SUFFICES ASSUME ~overlap
             PROVE  /\ \A k \in Call : handled'[k] <= 1
                    /\ \A q \in started : \A i \in 1 .. Len(log[q]) :
                          position'[q] < i => handled'[log[q][i]] = 0
  BY DEF AheadInv, Process
<1>1. /\ p \in started /\ p \in Ring
      /\ position \in [Pool -> Nat] /\ handled \in [Event -> Nat]
      /\ position'[p] = position[p] + 1
      /\ \A q \in Pool : q # p => position'[q] = position[q]
  BY ProcessHandles, RingTypes
<1>2. pools[p].ring = p
  BY <1>1 DEF BuildInv
<1>3. \A q \in started : q \in Ring /\ q \in Pool
  BY RingTypes
<1>4. ASSUME NEW q \in started, NEW i \in 1 .. Len(log[q]), position'[q] < i
      PROVE  position[q] < i /\ (q = p => i # position[p] + 1)
  <2>1. position[q] \in Nat /\ Len(log[q]) \in Nat /\ i \in Nat
    <3>1. log[q] \in Seq(Event)
      BY <1>3, RingTypes
    <3> QED
      BY <1>1, <1>3, <3>1
  <2>2. CASE q = p
    BY <1>1, <1>4, <2>1, <2>2
  <2>3. CASE q # p
    BY <1>1, <1>3, <1>4, <2>1, <2>3
  <2> QED
    BY <2>2, <2>3
<1>5. ASSUME handled' = handled
      PROVE  /\ \A k \in Call : handled'[k] <= 1
             /\ \A q \in started : \A i \in 1 .. Len(log[q]) :
                   position'[q] < i => handled'[log[q][i]] = 0
  <2>1. \A k \in Call : handled'[k] <= 1
    BY <1>5 DEF AheadInv
  <2>2. ASSUME NEW q \in started, NEW i \in 1 .. Len(log[q]), position'[q] < i
        PROVE  handled'[log[q][i]] = 0
    <3>1. position[q] < i
      BY <1>4, <2>2
    <3> QED
      BY <1>5, <3>1 DEF AheadInv
  <2> QED
    BY <2>1, <2>2
<1>6. ASSUME NEW e \in Event, position[p] + 1 \in 1 .. Len(log[p]),
             e = log[p][position[p] + 1], handled' = [handled EXCEPT ![e] = @ + 1]
      PROVE  /\ \A k \in Call : handled'[k] <= 1
             /\ \A q \in started : \A i \in 1 .. Len(log[q]) :
                   position'[q] < i => handled'[log[q][i]] = 0
  <2>1. handled[e] = 0
    <3>1. position[p] < position[p] + 1
      BY <1>1, <1>3
    <3> QED
      BY <1>1, <1>6, <3>1 DEF AheadInv
  <2>2. handled'[e] = 1 /\ \A k \in Event : k # e => handled'[k] = handled[k]
    BY <1>1, <1>6, <2>1
  <2>3. \A k \in Call : handled'[k] <= 1
    BY <2>2 DEF Call, AheadInv
  <2>4. ASSUME NEW q \in started, NEW i \in 1 .. Len(log[q]), position'[q] < i
        PROVE  handled'[log[q][i]] = 0
    <3>1. position[q] < i /\ (q = p => i # position[p] + 1)
      BY <1>4, <2>4
    <3>2. log[q][i] # e
      BY <1>1, <1>3, <1>6, <3>1 DEF LogInv
    <3>3. log[q][i] \in Event
      <4>1. log[q] \in Seq(Event)
        BY <1>3, RingTypes
      <4> QED
        BY <4>1, ElementOfSeq
    <3>4. handled[log[q][i]] = 0
      BY <3>1 DEF AheadInv
    <3> QED
      BY <2>2, <3>2, <3>3, <3>4
  <2> QED
    BY <2>3, <2>4
<1> QED
  BY <1>2, <1>5, <1>6, ProcessHandles

-----------------------------------------------------------------------------
(* The stages of a build.                                                  *)

(* A build that begins while nobody else builds is the only one.           *)
LEMMA BuildDiscover ==
  ASSUME IInv, BuildInv, NEW c \in Client, Discover(c)
  PROVE  BuildInv'
<1>1. /\ cpc[c] = "new" /\ cpc' = [cpc EXCEPT ![c] = "scan"]
      /\ overlap' = (overlap \/ BuildGoingOn)
      /\ UNCHANGED <<ringVars, ring>>
  BY DEF Discover, ClientAt
<1>2. UNCHANGED <<rings, ringBuffer, workerPool, pools, gating, started, ring>>
  BY <1>1 DEF ringVars
<1>3. cpc'[c] = "scan" /\ \A d \in Client : d # c => cpc'[d] = cpc[d]
  BY <1>1 DEF IInv, TypeOK
<1> SUFFICES ASSUME ~overlap'
             PROVE  /\ \A d \in Client : cpc'[d] \in Building => d = c
                    /\ \A p \in started : pools[p].ring = p /\ p \in gating[p]
  BY <1>2, <1>3 DEF BuildInv, Building
<1>4. ~overlap /\ \A d \in Client : cpc[d] \notin Building
  BY <1>1 DEF BuildGoingOn
<1> QED
  BY <1>3, <1>4 DEF BuildInv

(* What initAndStart does to the fields, when nobody else runs it.         *)
LEMMA BuildInitRing ==
  ASSUME IInv, BuildInv, NEW c \in Client, InitRing(c)
  PROVE  BuildInv'
<1>1. /\ cpc \in [Client -> Building \cup {"new", "ready", "failed", "closed"}]
      /\ ring \in [Client -> 0 .. rings] /\ RingTypeOK
  BY DEF IInv, TypeOK
<1>2. UNCHANGED overlap
  BY DEF InitRing, history
<1> SUFFICES ASSUME ~overlap PROVE BuildInv'
  BY <1>2 DEF BuildInv
<1>3. /\ \A d, e \in Client : cpc[d] \in Building /\ cpc[e] \in Building => d = e
      /\ cpc[c] \in {"barrier", "pool", "gate", "start"} =>
            ring[c] = rings /\ ringBuffer = rings /\ rings \notin started
      /\ cpc[c] \in {"gate", "start"} =>
            workerPool = rings /\ pools[rings].ring = rings
      /\ cpc[c] = "start" => rings \in gating[rings]
      /\ \A p \in started : pools[p].ring = p /\ p \in gating[p]
  BY DEF BuildInv
<1>4. rings \in Nat /\ rings <= MaxRings /\ MaxRings \in Nat
      /\ started \subseteq 1 .. rings
  BY RingTypes
<1>5. ASSUME NEW from \in Building, NEW to, ClientAt(c, from, to)
      PROVE  /\ cpc[c] = from /\ cpc'[c] = to
             /\ \A d \in Client \ {c} : cpc'[d] = cpc[d] /\ cpc[d] \notin Building
  BY <1>1, <1>3, <1>5 DEF ClientAt
(* It is enough to look at c and at the pools that have been started.      *)
<1>6. ASSUME /\ \A d \in Client \ {c} : cpc'[d] \notin Building,
             /\ cpc'[c] \in {"barrier", "pool", "gate", "start"} =>
                   /\ ring'[c] = rings' /\ ringBuffer' = rings'
                   /\ rings' \notin started'
             /\ cpc'[c] \in {"gate", "start"} =>
                   workerPool' = rings' /\ pools'[rings'].ring = rings'
             /\ cpc'[c] = "start" => rings' \in gating'[rings'],
             \A p \in started' : pools'[p].ring = p /\ p \in gating'[p]
      PROVE  BuildInv'
  BY <1>6 DEF BuildInv, Building
<1>7. ASSUME ClientAt(c, "ring", "barrier"), NEW n \in Ring, CreateRing(n),
             ring' = [ring EXCEPT ![c] = n]
      PROVE  BuildInv'
  <2>1. /\ rings' = n /\ n = rings + 1 /\ ringBuffer' = n
        /\ UNCHANGED <<pools, gating, started>>
    BY <1>7 DEF CreateRing
  <2>2. ring'[c] = n
    BY <1>1, <1>7
  <2>3. cpc'[c] = "barrier" /\ \A d \in Client \ {c} : cpc'[d] \notin Building
    BY <1>5, <1>7 DEF Building
  <2>4. n \notin started
    BY <1>4, <2>1
  <2> QED
    BY <1>3, <1>6, <2>1, <2>2, <2>3, <2>4
<1>8. ASSUME ClientAt(c, "barrier", "pool"), NewBarrier, UNCHANGED ring
      PROVE  BuildInv'
  <2>1. UNCHANGED <<rings, ringBuffer, workerPool, pools, gating, started>>
    BY <1>8 DEF NewBarrier
  <2>2. /\ cpc[c] = "barrier" /\ cpc'[c] = "pool"
        /\ \A d \in Client \ {c} : cpc'[d] \notin Building
    BY <1>5, <1>8 DEF Building
  <2> QED
    BY <1>3, <1>6, <1>8, <2>1, <2>2
<1>9. ASSUME ClientAt(c, "pool", "gate"), NewPool(ring[c]), UNCHANGED ring
      PROVE  BuildInv'
  <2>1. /\ cpc[c] = "pool" /\ cpc'[c] = "gate"
        /\ \A d \in Client \ {c} : cpc'[d] \notin Building
    BY <1>5, <1>9 DEF Building
  <2>2. ring[c] = rings /\ ringBuffer = rings /\ rings \notin started
    BY <1>3, <2>1
  <2>3. /\ workerPool' = rings
        /\ pools' = [pools EXCEPT ![rings] = [ring |-> ringBuffer,
                                              barrier |-> sequenceBarrier]]
        /\ UNCHANGED <<rings, ringBuffer, gating, started>>
    BY <1>9, <2>2 DEF NewPool
  <2>4. ringBuffer # 0 /\ rings \in Pool
    <3>1. ringBuffer # 0
      BY <2>1 DEF IInv, StageInv
    <3> QED
      BY <1>4, <2>2, <3>1 DEF Pool
  <2>5. DOMAIN pools = Pool
    BY <1>1 DEF RingTypeOK
  <2>6. pools'[rings].ring = rings
    BY <2>2, <2>3, <2>4, <2>5
  <2>7. \A p \in started : pools'[p] = pools[p]
    BY <1>4, <2>2, <2>3, <2>5
  <2> QED
    BY <1>3, <1>6, <1>9, <2>1, <2>2, <2>3, <2>6, <2>7
<1>10. ASSUME ClientAt(c, "gate", "start"), AddGatingSequences, UNCHANGED ring
       PROVE  BuildInv'
  <2>1. /\ cpc[c] = "gate" /\ cpc'[c] = "start"
        /\ \A d \in Client \ {c} : cpc'[d] \notin Building
    BY <1>5, <1>10 DEF Building
  <2>2. /\ ring[c] = rings /\ ringBuffer = rings /\ rings \notin started
        /\ workerPool = rings /\ pools[rings].ring = rings
    BY <1>3, <2>1
  <2>3. /\ gating' = [gating EXCEPT ![rings] = @ \cup {rings}]
        /\ UNCHANGED <<rings, ringBuffer, workerPool, pools, started>>
    BY <1>10, <2>2 DEF AddGatingSequences
  <2>4. rings \in Ring
    <3>1. ringBuffer # 0
      BY <2>1 DEF IInv, StageInv
    <3> QED
      BY <1>4, <2>2, <3>1 DEF Ring
  <2>5. DOMAIN gating = Ring
    BY <1>1 DEF RingTypeOK
  <2>6. rings \in gating'[rings] /\ \A p \in started : p \in gating[p] => p \in gating'[p]
    BY <2>3, <2>4, <2>5
  <2> QED
    BY <1>3, <1>6, <1>10, <2>1, <2>2, <2>3, <2>6
<1>11. ASSUME ClientAt(c, "start", "ready"), Start, UNCHANGED ring
       PROVE  BuildInv'
  <2>1. /\ cpc[c] = "start" /\ cpc'[c] = "ready"
        /\ \A d \in Client \ {c} : cpc'[d] \notin Building
    BY <1>5, <1>11 DEF Building
  <2>2. /\ started' = started \cup {workerPool}
        /\ UNCHANGED <<rings, ringBuffer, workerPool, pools, gating>>
    BY <1>11 DEF Start
  <2>3. \A p \in started' : pools[p].ring = p /\ p \in gating[p]
    BY <1>3, <2>1, <2>2
  <2> QED
    BY <1>6, <2>1, <2>2, <2>3
<1>12. ASSUME ClientAt(c, "start", "failed"), StartFails PROVE BuildInv'
  <2>1. cpc[c] = "start" /\ workerPool \in started
    BY <1>5, <1>12 DEF StartFails, Building
  <2> QED
    BY <1>3, <2>1
<1> QED
  BY <1>7, <1>8, <1>9, <1>10, <1>11, <1>12 DEF InitRing

(* A pool that is started handles nothing that its ring already has.       *)
LEMMA AheadInitRing ==
  ASSUME IInv, BuildInv, AheadInv, NEW c \in Client, InitRing(c)
  PROVE  AheadInv'
<1>1. UNCHANGED overlap
  BY DEF InitRing, history
<1>2. CASE UNCHANGED <<log, handled, position, started>>
  BY <1>1, <1>2, AheadKept
<1>3. ASSUME cpc[c] = "start", Start, ~overlap
      PROVE  \A p \in started' : \A i \in 1 .. Len(log'[p]) :
                position'[p] < i => handled'[log'[p][i]] = 0
  <2>1. workerPool = rings /\ pools[rings].ring = rings /\ ringBuffer # 0
    BY <1>3 DEF BuildInv, IInv, StageInv
  <2>2. /\ started' = started \cup {rings}
        /\ position' = [position EXCEPT ![rings] = Len(log[rings])]
        /\ rings \notin started
        /\ UNCHANGED <<log, handled>>
    BY <1>3, <2>1 DEF Start
  <2>3. position \in [Pool -> Nat] /\ started \subseteq Pool
    BY RingTypes
  <2>4. rings \in Pool
    <3>1. ringBuffer \in 0 .. rings
      BY DEF IInv, TypeOK, RingTypeOK
    <3> QED
      BY <2>1, <3>1, RingTypes DEF Pool
  <2>5. position'[rings] = Len(log[rings])
    BY <2>2, <2>3, <2>4
  <2>6. \A p \in started : position'[p] = position[p]
    BY <2>2, <2>3
  <2>7. ASSUME NEW i \in 1 .. Len(log[rings]) PROVE ~ (Len(log[rings]) < i)
    <3>1. log[rings] \in Seq(Event)
      BY <2>4, RingTypes
    <3>2. Len(log[rings]) \in Nat
      BY <3>1, LenProperties
    <3> QED
      BY <3>2
  <2>8. ASSUME NEW p \in started', NEW i \in 1 .. Len(log[p]), position'[p] < i
        PROVE  handled[log[p][i]] = 0
    <3>1. CASE p = rings
      BY <2>5, <2>7, <2>8, <3>1
    <3>2. CASE p \in started
      <4>1. position[p] < i
        BY <2>6, <2>8, <3>2
      <4> QED
        BY <1>3, <3>2, <4>1 DEF AheadInv
    <3> QED
      BY <2>2, <3>1, <3>2
  <2> QED
    BY <2>2, <2>8
<1>4. CASE ClientAt(c, "start", "ready") /\ Start
  <2>1. cpc[c] = "start" /\ UNCHANGED handled
    BY <1>4 DEF ClientAt, Start
  <2> QED
    BY <1>1, <1>3, <1>4, <2>1 DEF AheadInv
<1>5. ASSUME NEW n \in Ring, CreateRing(n)
      PROVE  UNCHANGED <<log, handled, position, started>>
  BY <1>5 DEF CreateRing
<1>6. ASSUME NewBarrier \/ NewPool(ring[c]) \/ AddGatingSequences \/ StartFails
      PROVE  UNCHANGED <<log, handled, position, started>>
  BY <1>6 DEF NewBarrier, NewPool, AddGatingSequences, StartFails, ringVars
<1> QED
  BY <1>2, <1>4, <1>5, <1>6 DEF InitRing

-----------------------------------------------------------------------------
(* The rings of the process, step by step.                                 *)

(* Steps that touch none of what the three parts speak of.                 *)
LEMMA RingsKept ==
  ASSUME LogInv, BuildInv, AheadInv,
         UNCHANGED <<rings, ringBuffer, workerPool, pools, gating, started,
                     position, log, handled, ring, published, overlap>>,
         \A c \in Client : cpc'[c] = cpc[c] \/ cpc'[c] \notin Building
                            \/ (cpc'[c] \in {"add", "ring"} /\ cpc[c] \in Building)
  PROVE  LogInv' /\ BuildInv' /\ AheadInv'
  BY LogKept, BuildKept, AheadKept

LEMMA RingsInit == Init => RingsInv
<1> SUFFICES ASSUME Init PROVE RingsInv
  OBVIOUS
<1>1. /\ log = [r \in Ring |-> <<>>] /\ handled = [e \in Event |-> 0]
      /\ started = {} /\ cpc = [c \in Client |-> "new"]
  BY DEF Init, RingInit
<1>2. \A r \in Ring : Len(log[r]) = 0
  BY <1>1
<1>3. LogInv
  BY <1>1, <1>2 DEF LogInv, Call
<1>4. BuildInv
  BY <1>1 DEF BuildInv, Building
<1>5. AheadInv
  BY <1>1 DEF AheadInv, Call
<1> QED
  BY <1>3, <1>4, <1>5, InvInit DEF RingsInv

LEMMA RingsBuild ==
  ASSUME RingsInv, NEW c \in Client, BuildStep(c) \/ BeginClose(c)
  PROVE  LogInv' /\ BuildInv' /\ AheadInv'
<1> USE DEF RingsInv
<1>0. cpc \in [Client -> Building \cup {"new", "ready", "failed", "closed"}]
  BY DEF IInv, TypeOK
<1>1. CASE Discover(c)
  <2>1. UNCHANGED <<log, handled, position, started, published>>
        /\ (overlap => overlap')
    BY <1>1 DEF Discover, ringVars
  <2> QED
    BY <1>1, <2>1, LogKept, AheadKept, BuildDiscover
<1>2. CASE Scan(c) \/ AddNewChannel(c) \/ BeginClose(c)
  <2>1. UNCHANGED <<ringVars, ring, history>>
    BY <1>2 DEF Scan, AddNewChannel, BeginClose
  <2>2. UNCHANGED <<rings, ringBuffer, workerPool, pools, gating, started,
                    position, log, handled, ring, published, overlap>>
    BY <2>1 DEF ringVars, history
  <2>3. \/ cpc[c] \in Building /\ \E to \in {"add", "ring"} : cpc' = [cpc EXCEPT ![c] = to]
        \/ cpc' = [cpc EXCEPT ![c] = "closed"]
    BY <1>2 DEF Scan, AddNewChannel, BeginClose, ClientAt, Building
  <2>4. \A d \in Client : cpc'[d] = cpc[d] \/ cpc'[d] \notin Building
                           \/ (cpc'[d] \in {"add", "ring"} /\ cpc[d] \in Building)
    <3>1. "closed" \notin Building
      BY DEF Building
    <3> QED
      BY <1>0, <2>3, <3>1
  <2> QED
    BY <2>2, <2>4, RingsKept
<1>3. CASE InitRing(c)
  <2>1. UNCHANGED <<published>>
    BY <1>3 DEF InitRing, history
  <2>2. UNCHANGED <<log, handled>>
    BY <1>3 DEF InitRing, CreateRing, NewBarrier, NewPool, AddGatingSequences,
                Start, StartFails, ringVars
  <2> QED
    BY <1>3, <2>1, <2>2, LogKept, BuildInitRing, AheadInitRing
<1> QED
  BY <1>1, <1>2, <1>3 DEF BuildStep

LEMMA RingsCall ==
  ASSUME RingsInv, NEW k \in Call, CallStep(k) \/ ChannelRead0(k)
  PROVE  LogInv' /\ BuildInv' /\ AheadInv'
<1> USE DEF RingsInv
<1>1. CASE CallStep(k)
  <2>1. UNCHANGED <<listVars, history>>
    BY <1>1 DEF CallStep, Borrow, GetMessageProducer, StoreProducer, Connect, EndCall
  <2>2. UNCHANGED <<rings, ringBuffer, workerPool, pools, gating, started,
                    position, log, handled>>
    BY <1>1 DEF CallStep, Borrow, GetMessageProducer, StoreProducer, Connect,
                EndCall, PutProducer, ringVars
  <2>3. UNCHANGED <<cpc, ring, published, overlap>>
    BY <2>1 DEF listVars, history
  <2>4. \A c \in Client : cpc'[c] = cpc[c]
    BY <2>3
  <2> QED
    BY <2>2, <2>3, <2>4, RingsKept
<1>2. CASE ChannelRead0(k)
  <2>1. /\ k \in Event /\ k \notin published /\ published' = published \cup {k}
        /\ OnData(channel[chan[k]].producer, k)
        /\ UNCHANGED <<listVars, overlap>>
    BY <1>2 DEF ChannelRead0, Call
  <2>2. channel[chan[k]].producer \in 0 .. rings
    <3>1. chan[k] \in Call
      BY <1>2 DEF ChannelRead0, IInv, CallInv
    <3>2. channel \in [Call -> ChannelRecord]
      BY DEF IInv, TypeOK
    <3> QED
      BY <3>1, <3>2
  <2>3. UNCHANGED <<rings, ringBuffer, workerPool, pools, gating, started, ring,
                    overlap, cpc>>
    BY <2>1 DEF OnData, listVars
  <2>4. LogInv'
    BY <2>1, <2>2, LogPublish
  <2>5. BuildInv'
    <3>1. \A c \in Client : cpc'[c] = cpc[c]
      BY <2>3
    <3> QED
      BY <2>3, <3>1, BuildKept
  <2>6. AheadInv'
    BY <2>1, <2>2, AheadPublish
  <2> QED
    BY <2>4, <2>5, <2>6
<1> QED
  BY <1>1, <1>2

LEMMA RingsNext == RingsInv /\ [Next]_vars => RingsInv'
<1> SUFFICES ASSUME RingsInv, [Next]_vars PROVE LogInv' /\ BuildInv' /\ AheadInv'
  BY InvNext DEF RingsInv
<1>1. ASSUME NEW c \in Client, BuildStep(c) \/ BeginClose(c)
      PROVE  LogInv' /\ BuildInv' /\ AheadInv'
  BY <1>1, RingsBuild
<1>2. ASSUME NEW k \in Call, CallStep(k) \/ ChannelRead0(k)
      PROVE  LogInv' /\ BuildInv' /\ AheadInv'
  BY <1>2, RingsCall
<1>3. ASSUME \/ \E c \in Client, i \in Holder : CloseHolder(c, i)
             \/ \E k \in Call, c \in Client : Invoke(k, c)
             \/ UNCHANGED vars
      PROVE  LogInv' /\ BuildInv' /\ AheadInv'
  <2>1. UNCHANGED <<ringVars, cpc, ring, history>>
    BY <1>3 DEF CloseHolder, Invoke, vars, listVars
  <2>2. UNCHANGED <<rings, ringBuffer, workerPool, pools, gating, started,
                    position, log, handled, cpc, ring, published, overlap>>
    BY <2>1 DEF ringVars, history
  <2>3. \A c \in Client : cpc'[c] = cpc[c]
    BY <2>2
  <2> QED
    BY <2>2, <2>3, RingsKept DEF RingsInv
<1>4. ASSUME NEW p \in Pool, WorkStep(p)
      PROVE  LogInv' /\ BuildInv' /\ AheadInv'
  <2>1. Process(p) /\ UNCHANGED <<cpc, ring, published, overlap>>
    BY <1>4 DEF WorkStep, listVars, history
  <2>2. UNCHANGED <<rings, ringBuffer, workerPool, pools, gating, started>>
    BY <2>1 DEF Process
  <2>3. LogInv' /\ AheadInv'
    BY <2>1, LogProcess, AheadProcess DEF RingsInv
  <2>4. BuildInv'
    <3>1. \A c \in Client : cpc'[c] = cpc[c]
      BY <2>1
    <3> QED
      BY <2>1, <2>2, <3>1, BuildKept DEF RingsInv
  <2> QED
    BY <2>3, <2>4
<1> QED
  BY <1>1, <1>2, <1>3, <1>4 DEF Next, Quiescent

LEMMA RingsInvariant == Spec => []RingsInv
  BY RingsInit, RingsNext, PTL DEF Spec

(* However many rings the builds have made and whichever of them a channel *)
(* publishes to, a response is handled once, unless two builds overlapped. *)
THEOREM HandledOnce == Spec => []HandledAtMostOnce
<1>1. RingsInv => HandledAtMostOnce
  BY DEF RingsInv, AheadInv, HandledAtMostOnce
<1> QED
  BY <1>1, RingsInvariant, PTL

(* Every running pool gates the ring it reads, unless two builds did.      *)
THEOREM PoolsGate == Spec => []PoolsGateTheirRing
<1>1. RingsInv => PoolsGateTheirRing
  BY DEF RingsInv, BuildInv, PoolsGateTheirRing
<1> QED
  BY <1>1, RingsInvariant, PTL

-----------------------------------------------------------------------------
(* One holder for an address.                                              *)

(* What addNewChannel makes of an address is that address or no address of *)
(* the registry: none is the beginning of another one.                     *)
SplitFaithful == \A a \in Address : ConnStr[a] \cap Address \subseteq {a}

OnceInv == RingsInv /\ ListedOnce

LEMMA OnceInit == Init => OnceInv
<1>1. ASSUME Init PROVE ListedOnce
  <2>1. channelCachePool = <<>> /\ DOMAIN channelCachePool = {}
    BY <1>1 DEF Init
  <2>2. \A c \in Client : cpc[c] # "add"
    BY <1>1 DEF Init
  <2> QED
    BY <2>1, <2>2 DEF ListedOnce
<1> QED
  BY <1>1, RingsInit DEF OnceInv

(* Steps that add nothing, and after which nobody else is about to.        *)
LEMMA OnceKept ==
  ASSUME ListedOnce, overlap => overlap',
         DOMAIN channelCachePool' = DOMAIN channelCachePool,
         \A i \in DOMAIN channelCachePool :
            channelCachePool'[i].conn = channelCachePool[i].conn,
         ~overlap' =>
            \A c \in Client : cpc'[c] = "add" =>
                /\ serviceAddress'[c] = serviceAddress[c]
                /\ cpc[c] = "add" \/ HoldersFor(serviceAddress[c]) = {}
  PROVE  ListedOnce'
<1> SUFFICES ASSUME ~overlap' PROVE ListedOnce'
  BY DEF ListedOnce
<1>1. \A i, j \in DOMAIN channelCachePool' :
        /\ channelCachePool'[i].conn = channelCachePool'[j].conn
        /\ channelCachePool'[i].conn \in Address
        => i = j
  BY DEF ListedOnce
<1>2. ASSUME NEW c \in Client, cpc'[c] = "add"
      PROVE  HoldersFor(serviceAddress[c])' = {}
  <2>1. HoldersFor(serviceAddress[c]) = {} /\ serviceAddress'[c] = serviceAddress[c]
    BY <1>2 DEF ListedOnce
  <2> QED
    BY <2>1 DEF HoldersFor
<1> QED
  BY <1>1, <1>2 DEF ListedOnce

(* The address is not there when its holder is added, and nobody else is   *)
(* building.                                                               *)
LEMMA OnceAdd ==
  ASSUME SplitFaithful, OnceInv, NEW c \in Client, AddNewChannel(c)
  PROVE  ListedOnce'
<1>1. /\ cpc[c] = "add" /\ cpc' = [cpc EXCEPT ![c] = "ring"]
      /\ UNCHANGED <<serviceAddress, overlap>>
  BY DEF AddNewChannel, ClientAt, history
<1>2. PICK conn \in ConnStr[serviceAddress[c]] :
         IF conn = Unparsable THEN UNCHANGED channelCachePool
         ELSE AddHolder(conn)
  BY DEF AddNewChannel
<1> SUFFICES ASSUME ~overlap
             PROVE  /\ \A i, j \in DOMAIN channelCachePool' :
                          /\ channelCachePool'[i].conn = channelCachePool'[j].conn
                          /\ channelCachePool'[i].conn \in Address
                          => i = j
                    /\ \A d \in Client : cpc'[d] # "add"
  BY <1>1 DEF ListedOnce
<1>3. \A d \in Client : cpc'[d] # "add"
  <2>1. cpc \in [Client -> Building \cup {"new", "ready", "failed", "closed"}]
    BY DEF OnceInv, RingsInv, IInv, TypeOK
  <2>2. \A d \in Client : cpc[d] = "add" => d = c
    BY <1>1 DEF OnceInv, RingsInv, BuildInv, Building
  <2> QED
    BY <1>1, <2>1, <2>2
<1>4. CASE UNCHANGED channelCachePool
  BY <1>3, <1>4 DEF OnceInv, ListedOnce
<1>5. ASSUME AddHolder(conn)
      PROVE  \A i, j \in DOMAIN channelCachePool' :
                /\ channelCachePool'[i].conn = channelCachePool'[j].conn
                /\ channelCachePool'[i].conn \in Address
                => i = j
  <2> DEFINE n == Len(channelCachePool) + 1
             new == [conn |-> conn, open |-> TRUE]
  <2>1. serviceAddress[c] \in Address
    BY <1>1 DEF OnceInv, RingsInv, IInv, StageInv
  <2>2. new \in Entry /\ new.conn = conn
    BY <2>1 DEF Entry
  <2>3. /\ channelCachePool \in Seq(Entry)
        /\ DOMAIN channelCachePool = 1 .. Len(channelCachePool)
        /\ Len(channelCachePool) \in Nat
    BY PoolDomain DEF OnceInv, RingsInv, IInv, ListInv
  <2>4. channelCachePool' = Append(channelCachePool, new)
    BY <1>5 DEF AddHolder
  <2>5. /\ DOMAIN channelCachePool' = 1 .. n
        /\ \A i \in DOMAIN channelCachePool : channelCachePool'[i] = channelCachePool[i]
        /\ channelCachePool'[n] = new
    <3> HIDE DEF new
    <3> QED
      BY <2>2, <2>3, <2>4, AppendProperties
  <2>6. /\ channelCachePool'[n].conn = conn
        /\ \A i \in DOMAIN channelCachePool' : i = n \/ i \in DOMAIN channelCachePool
    BY <2>2, <2>3, <2>5
  <2>7. conn \in Address => conn = serviceAddress[c]
    BY <2>1 DEF SplitFaithful
  <2>8. \A i \in DOMAIN channelCachePool :
           channelCachePool[i].conn # serviceAddress[c]
    <3>1. HoldersFor(serviceAddress[c]) = {}
      BY <1>1 DEF OnceInv, ListedOnce
    <3> QED
      BY <3>1 DEF HoldersFor
  <2>9. \A i, j \in DOMAIN channelCachePool :
           /\ channelCachePool[i].conn = channelCachePool[j].conn
           /\ channelCachePool[i].conn \in Address
           => i = j
    BY DEF OnceInv, ListedOnce
  <2> HIDE DEF n, new
  <2> QED
    BY <2>5, <2>6, <2>7, <2>8, <2>9
<1> QED
  BY <1>2, <1>3, <1>4, <1>5

LEMMA OnceNext == SplitFaithful /\ OnceInv /\ [Next]_vars => OnceInv'
<1> SUFFICES ASSUME SplitFaithful, OnceInv, [Next]_vars PROVE ListedOnce'
  BY RingsNext DEF OnceInv
<1>1. ListedOnce /\ RingsInv
  BY DEF OnceInv
<1>2. cpc \in [Client -> Building \cup {"new", "ready", "failed", "closed"}]
  BY <1>1 DEF RingsInv, IInv, TypeOK
<1>3. ASSUME NEW c \in Client, Discover(c) PROVE ListedOnce'
  <2>1. /\ cpc' = [cpc EXCEPT ![c] = "scan"]
        /\ overlap' = (overlap \/ BuildGoingOn) /\ UNCHANGED channelCachePool
    BY <1>3 DEF Discover, ClientAt
  <2>2. ASSUME ~overlap', NEW d \in Client PROVE cpc'[d] # "add"
    <3>1. cpc[d] # "add"
      BY <2>1, <2>2 DEF BuildGoingOn, Building
    <3> QED
      BY <1>2, <2>1, <3>1
  <2> QED
    BY <1>1, <2>1, <2>2, OnceKept
<1>4. ASSUME NEW c \in Client, Scan(c) PROVE ListedOnce'
  <2>1. /\ UNCHANGED <<serviceAddress, channelCachePool, overlap>>
        /\ \/ cpc' = [cpc EXCEPT ![c] = "ring"]
           \/ ~ContainThis(c) /\ cpc' = [cpc EXCEPT ![c] = "add"]
    BY <1>4 DEF Scan, ClientAt, history
  <2>2. \A d \in Client : cpc'[d] = "add" =>
           cpc[d] = "add" \/ HoldersFor(serviceAddress[d]) = {}
    BY <1>2, <2>1 DEF ContainThis
  <2> QED
    BY <1>1, <2>1, <2>2, OnceKept
<1>5. ASSUME NEW c \in Client, AddNewChannel(c) PROVE ListedOnce'
  BY <1>5, OnceAdd
<1>6. ASSUME NEW c \in Client, InitRing(c) \/ BeginClose(c) PROVE ListedOnce'
  <2>1. UNCHANGED <<serviceAddress, channelCachePool, overlap>>
    BY <1>6 DEF InitRing, BeginClose, history
  <2>2. PICK to \in {"barrier", "pool", "gate", "start", "ready", "failed", "closed"} :
           cpc' = [cpc EXCEPT ![c] = to]
    BY <1>6 DEF InitRing, BeginClose, ClientAt
  <2>3. \A d \in Client : cpc'[d] = "add" => cpc[d] = "add"
    BY <1>2, <2>2
  <2> QED
    BY <1>1, <2>1, <2>3, OnceKept
<1>7. ASSUME NEW c \in Client, NEW i \in Holder, CloseHolder(c, i)
      PROVE  ListedOnce'
  <2>1. /\ channelCachePool' = [channelCachePool EXCEPT ![i].open = FALSE]
        /\ UNCHANGED <<cpc, serviceAddress, overlap>>
    BY <1>7 DEF CloseHolder, history
  <2>2. \A j \in DOMAIN channelCachePool : channelCachePool[j] \in Entry
    BY <1>1, PoolDomain DEF RingsInv, IInv
  <2>3. /\ DOMAIN channelCachePool' = DOMAIN channelCachePool
        /\ \A j \in DOMAIN channelCachePool :
              channelCachePool'[j].conn = channelCachePool[j].conn
    BY <2>1, <2>2 DEF Entry
  <2> QED
    BY <1>1, <2>1, <2>3, OnceKept
<1>8. ASSUME UNCHANGED <<listVars, overlap>> PROVE ListedOnce'
  <2>1. UNCHANGED <<cpc, serviceAddress, channelCachePool, overlap>>
    BY <1>8 DEF listVars
  <2> QED
    BY <1>1, <2>1, OnceKept
<1>9. ASSUME NEW k \in Call, \/ CallStep(k) \/ ChannelRead0(k)
                             \/ \E c \in Client : Invoke(k, c)
      PROVE  UNCHANGED <<listVars, overlap>>
  BY <1>9 DEF CallStep, Borrow, GetMessageProducer, StoreProducer, Connect,
              EndCall, ChannelRead0, Invoke, history
<1>10. ASSUME \/ UNCHANGED vars \/ \E p \in Pool : WorkStep(p)
       PROVE  UNCHANGED <<listVars, overlap>>
  BY <1>10 DEF vars, WorkStep, history
<1> QED
  BY <1>3, <1>4, <1>5, <1>6, <1>7, <1>8, <1>9, <1>10 DEF Next, BuildStep, Quiescent

(* Clients of one address share one holder, as the comment in init wants,  *)
(* unless two builds overlapped.                                           *)
THEOREM HolderIsShared ==
  ASSUME SplitFaithful PROVE Spec => []SharedHolder
<1>1. Spec => []OnceInv
  BY SplitFaithful, OnceInit, OnceNext, PTL DEF Spec
<1>2. ASSUME OnceInv, ~overlap, NEW a \in Address
      PROVE  Cardinality(HoldersFor(a)) <= 1
  <2>1. \A i, j \in HoldersFor(a) : i = j
    BY <1>2 DEF OnceInv, ListedOnce, HoldersFor
  <2>2. CASE HoldersFor(a) = {}
    BY <2>2, FS_EmptySet
  <2>3. CASE HoldersFor(a) # {}
    <3>1. PICK i : HoldersFor(a) = {i}
      BY <2>1, <2>3
    <3> QED
      BY <3>1, FS_Singleton
  <2> QED
    BY <2>2, <2>3
<1>3. OnceInv => SharedHolder
  BY <1>2 DEF SharedHolder, OneHolderPerAddress
<1> QED
  BY <1>1, <1>3, PTL
=============================================================================
