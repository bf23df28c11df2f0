-------------------------- MODULE ServiceRegistry --------------------------
(***************************************************************************)
(* The znodes /service/<name>/address-<n> and the processes that work on   *)
(* them: servers that start, register and stop, clients that discover a    *)
(* service, and requests for the admin page, which deletes services it     *)
(* sees without addresses.  Each ZooKeeper operation is one step.          *)
(*                                                                         *)
(* An address is an ephemeral node: it belongs to a session, of which a    *)
(* server has one at a time.  ZkClient replaces an expired session by a    *)
(* new one, and nothing creates the addresses again.                       *)
(***************************************************************************)
EXTENDS Naturals, FiniteSets

CONSTANTS
    Server, Client, Admin,
    Service,
    Offers,       \* Offers[s]: the names server s registers
    Faults,       \* among "crash", "expiry"
    MaxSessions,  \* bound on the sessions opened
    NoName        \* no service

Process == Server \cup Client \cup Admin
Caller == Client \cup Admin
Address == [service : Service, server : Server, session : 1 .. MaxSessions]

ASSUME RegistryAssumption ==
    /\ MaxSessions \in Nat
    /\ Offers \in [Server -> (SUBSET Service) \ {{}}]
    /\ NoName \notin Service
    /\ Server \cap Caller = {} /\ Client \cap Admin = {}

VARIABLES
    root,        \* /service exists
    services,    \* the names that have a node
    addresses,   \* the address nodes
    opened,      \* sessions opened, numbered from 1
    session,     \* session[s]: the latest session of s
    pc, at,      \* where a process is, and for which name
    todo,        \* names a server or an admin request has not dealt with
    seen,        \* addresses a caller has read from getChildren
    page,        \* page[a]: the names in serviceModels
    steady       \* history: addresses there since the caller's call began

znodes == <<root, services, addresses>>
sessions == <<opened, session>>
vars == <<root, services, addresses, opened, session, pc, at, todo, seen, page,
          steady>>

AddressesOf(n) == {a \in addresses : a.service = n}

(* Server s runs and has opened its ZkClient.                              *)
HasSession(s) == pc[s] \notin {"down", "bound"}
Ended(n) == ~ \E s \in Server : HasSession(s) /\ session[s] = n

ServerLabel ==
    {"down", "bound", "root", "createRoot", "service", "createService",
     "address", "up", "failed", "stopped"}
ClientLabel == {"idle", "exists", "children", "read"}
AdminLabel == {"idle", "children", "read", "delete", "deleting", "shown"}

(* The type of every variable; a node's parent exists.                     *)
TypeOK ==
    /\ root \in BOOLEAN
    /\ services \subseteq Service
    /\ addresses \subseteq Address
    /\ services # {} => root
    /\ {a.service : a \in addresses} \subseteq services
    /\ opened \in 0 .. MaxSessions
    /\ session \in [Server -> 0 .. opened]
    /\ pc \in [Process -> ServerLabel \cup ClientLabel \cup AdminLabel]
    /\ \A s \in Server : pc[s] \in ServerLabel
    /\ \A c \in Client : pc[c] \in ClientLabel
    /\ \A a \in Admin : pc[a] \in AdminLabel
    /\ at \in [Process -> Service \cup {NoName}]
    /\ todo \in [Server \cup Admin -> SUBSET Service]
    /\ seen \in [Caller -> SUBSET Address]
    /\ page \in [Admin -> SUBSET Service]
    /\ steady \in [Caller -> SUBSET Address]

(* Persistent nodes may be left from earlier runs.                         *)
Init ==
    /\ root \in BOOLEAN
    /\ services \in (IF root THEN SUBSET Service ELSE {{}})
    /\ addresses = {}
    /\ opened = 0
    /\ session = [s \in Server |-> 0]
    /\ pc = [p \in Process |-> IF p \in Server THEN "down" ELSE "idle"]
    /\ at = [p \in Process |-> NoName]
    /\ todo = [p \in Server \cup Admin |-> {}]
    /\ seen = [p \in Caller |-> {}]
    /\ page = [a \in Admin |-> {}]
    /\ steady = [p \in Caller |-> {}]

Goto(p, l) == pc' = [pc EXCEPT ![p] = l]

(* A ZkClient of s opens a session.                                        *)
OpenSession(s) ==
    /\ opened < MaxSessions
    /\ opened' = opened + 1
    /\ session' = [session EXCEPT ![s] = opened + 1]

(* The loop over names: p goes on with one of rest at label first, or is   *)
(* at label last when there is none.                                       *)
NextName(p, rest, first, last) ==
    /\ todo' = [todo EXCEPT ![p] = rest]
    /\ \/ rest = {} /\ Goto(p, last) /\ at' = [at EXCEPT ![p] = NoName]
       \/ \E n \in rest : Goto(p, first) /\ at' = [at EXCEPT ![p] = n]

(* The address nodes in gone disappear.                                    *)
RemoveAddresses(gone) ==
    /\ addresses' = addresses \ gone
    /\ steady' = [p \in Caller |-> steady[p] \ gone]

-----------------------------------------------------------------------------
(* ServerImpl.start: the port is bound first.                              *)
Bind(s) ==
    /\ pc[s] = "down"
    /\ Goto(s, "bound")
    /\ UNCHANGED <<znodes, sessions, at, todo, seen, page, steady>>

(* ServerImpl.registerService: a new ZkClient, then every service.         *)
RegisterService(s) ==
    /\ pc[s] = "bound"
    /\ OpenSession(s)
    /\ NextName(s, Offers[s], "root", "up")
    /\ UNCHANGED <<znodes, seen, page, steady>>

(* register: exists(registryPath), exists(servicePath)                     *)
Check(s) ==
    /\ \/ pc[s] = "root" /\ Goto(s, IF root THEN "service" ELSE "createRoot")
       \/ pc[s] = "service"
          /\ Goto(s, IF at[s] \in services THEN "address" ELSE "createService")
    /\ UNCHANGED <<znodes, sessions, at, todo, seen, page, steady>>

CreateRoot(s) ==
    /\ pc[s] = "createRoot" /\ ~root
    /\ root' = TRUE
    /\ Goto(s, "service")
    /\ UNCHANGED <<services, addresses, sessions, at, todo, seen, page,
                   steady>>

CreateService(s) ==
    /\ pc[s] = "createService" /\ at[s] \notin services
    /\ services' = services \cup {at[s]}
    /\ Goto(s, "address")
    /\ UNCHANGED <<root, addresses, sessions, at, todo, seen, page, steady>>

(* Mutant: createPersistentSequential: the node is of no session.          *)
MutCreateAddress(s) ==
    /\ pc[s] = "address" /\ at[s] \in services
    /\ addresses' = addresses \cup
         {[service |-> at[s], server |-> s, session |-> 0]}
    /\ NextName(s, todo[s] \ {at[s]}, "root", "up")
    /\ UNCHANGED <<root, services, sessions, seen, page, steady>>

CreateAddress(s) ==
    /\ pc[s] = "address" /\ at[s] \in services
    /\ addresses' = addresses \cup
         {[service |-> at[s], server |-> s, session |-> session[s]]}
    /\ NextName(s, todo[s] \ {at[s]}, "root", "up")
    /\ UNCHANGED <<root, services, sessions, seen, page, steady>>

(* ZkNodeExistsException: another server created the node after exists;    *)
(* ZkNoNodeException: the admin page deleted the service meanwhile.  start *)
(* throws; the port stays bound.                                           *)
RegisterFails(s) ==
    /\ \/ pc[s] = "createRoot" /\ root
       \/ pc[s] = "createService" /\ at[s] \in services
       \/ pc[s] = "address" /\ at[s] \notin services
    /\ Goto(s, "failed")
    /\ UNCHANGED <<znodes, sessions, at, todo, seen, page, steady>>

(* ServerImpl.shutdown: netty stops, the ZkClient is left as it is.        *)
Shutdown(s) ==
    /\ pc[s] \in {"up", "failed"}
    /\ Goto(s, "stopped")
    /\ UNCHANGED <<znodes, sessions, at, todo, seen, page, steady>>

(* The process of the server ends.                                         *)
Crash(s) ==
    /\ "crash" \in Faults /\ pc[s] # "down"
    /\ Goto(s, "down")
    /\ at' = [at EXCEPT ![s] = NoName]
    /\ todo' = [todo EXCEPT ![s] = {}]
    /\ UNCHANGED <<znodes, sessions, seen, page, steady>>

(* The session of a running server expires, and ZkClient opens another.    *)
Expire(s) ==
    /\ "expiry" \in Faults /\ HasSession(s)
    /\ RemoveAddresses({a \in addresses : a.session = session[s]})
    /\ OpenSession(s)
    /\ UNCHANGED <<root, services, pc, at, todo, seen, page>>

(* The session of a process that has ended times out.                      *)
TimeOut(n) ==
    /\ Ended(n)
    /\ \E a \in addresses : a.session = n
    /\ RemoveAddresses({a \in addresses : a.session = n})
    /\ UNCHANGED <<root, services, sessions, pc, at, todo, seen, page>>

-----------------------------------------------------------------------------
(* ZooKeeperServiceDiscovery.discover                                      *)
Discover(c, n) ==
    /\ pc[c] = "idle"
    /\ Goto(c, "exists")
    /\ at' = [at EXCEPT ![c] = n]
    /\ steady' = [steady EXCEPT ![c] = AddressesOf(n)]
    /\ UNCHANGED <<znodes, sessions, todo, seen, page>>

Exists(c) ==
    /\ pc[c] = "exists" /\ at[c] \in services
    /\ Goto(c, "children")
    /\ UNCHANGED <<znodes, sessions, at, todo, seen, page, steady>>

(* getChildren(servicePath), and the choice of one of them                 *)
GetChildren(c) ==
    /\ pc[c] = "children"
    /\ \E a \in AddressesOf(at[c]) : seen' = [seen EXCEPT ![c] = {a}]
    /\ Goto(c, "read")
    /\ UNCHANGED <<znodes, sessions, at, todo, page, steady>>

(* discover returns, or throws.                                            *)
End(c) ==
    /\ Goto(c, "idle")
    /\ at' = [at EXCEPT ![c] = NoName]
    /\ seen' = [seen EXCEPT ![c] = {}]
    /\ steady' = [steady EXCEPT ![c] = {}]
    /\ UNCHANGED <<znodes, sessions, todo, page>>

(* Mutant: a list of one address is taken for an empty one.                *)
MutNotFound(c) ==
    /\ \/ pc[c] = "exists" /\ at[c] \notin services
       \/ pc[c] = "children" /\ Cardinality(AddressesOf(at[c])) <= 1
    /\ End(c)

(* can not find any service node, any address node; or the service node    *)
(* has gone since exists.                                                  *)
NotFound(c) ==
    /\ \/ pc[c] = "exists" /\ at[c] \notin services
       \/ pc[c] = "children" /\ AddressesOf(at[c]) = {}
    /\ End(c)

(* readData(addressPath)                                                   *)
ReadData(c) == pc[c] = "read" /\ seen[c] \subseteq addresses /\ End(c)

(* ZkNoNodeException: the chosen address has gone.                         *)
AddressGone(c) == pc[c] = "read" /\ ~(seen[c] \subseteq addresses) /\ End(c)

-----------------------------------------------------------------------------
(* AdminController.getServerList                                           *)
GetServerList(a) ==
    /\ pc[a] \in {"idle", "shown"} /\ root
    /\ NextName(a, services, "children", "shown")
    /\ page' = [page EXCEPT ![a] = {}]
    /\ seen' = [seen EXCEPT ![a] = {}]
    /\ steady' = [steady EXCEPT ![a] = addresses]
    /\ UNCHANGED <<znodes, sessions>>

(* Mutant: a service with one address is deleted too.                      *)
MutListChildren(a) ==
    /\ pc[a] = "children" /\ at[a] \in services
    /\ seen' = [seen EXCEPT ![a] = AddressesOf(at[a])]
    /\ Goto(a, IF Cardinality(AddressesOf(at[a])) <= 1
               THEN "delete" ELSE "read")
    /\ UNCHANGED <<znodes, sessions, at, todo, page, steady>>

ListChildren(a) ==
    /\ pc[a] = "children" /\ at[a] \in services
    /\ seen' = [seen EXCEPT ![a] = AddressesOf(at[a])]
    /\ Goto(a, IF AddressesOf(at[a]) = {} THEN "delete" ELSE "read")
    /\ UNCHANGED <<znodes, sessions, at, todo, page, steady>>

(* readData of each address; the name is listed after the last.            *)
ReadProvider(a) ==
    /\ pc[a] = "read"
    /\ \E k \in seen[a] \cap addresses :
          /\ seen' = [seen EXCEPT ![a] = @ \ {k}]
          /\ \/ /\ seen[a] = {k}
                /\ page' = [page EXCEPT ![a] = @ \cup {at[a]}]
                /\ NextName(a, todo[a] \ {at[a]}, "children", "shown")
             \/ seen[a] # {k} /\ UNCHANGED <<page, pc, at, todo>>
    /\ UNCHANGED <<znodes, sessions, steady>>

(* deleteRecursive lists the children again; it is done when there is no   *)
(* such node.                                                              *)
DeleteRecursive(a) ==
    /\ pc[a] = "delete"
    /\ \/ /\ at[a] \in services
          /\ seen' = [seen EXCEPT ![a] = AddressesOf(at[a])]
          /\ Goto(a, "deleting")
          /\ UNCHANGED <<at, todo>>
       \/ /\ at[a] \notin services
          /\ NextName(a, todo[a] \ {at[a]}, "children", "shown")
          /\ UNCHANGED seen
    /\ UNCHANGED <<znodes, sessions, page, steady>>

(* The addresses are deleted first.  One that has gone is passed over, or  *)
(* ends the deletion if it goes between its own getChildren and delete.    *)
DeleteAddress(a) ==
    /\ pc[a] = "deleting"
    /\ \E k \in seen[a] :
          \/ /\ seen' = [seen EXCEPT ![a] = @ \ {k}]
             /\ RemoveAddresses({k})
             /\ UNCHANGED <<pc, at, todo>>
          \/ /\ k \notin addresses
             /\ seen' = [seen EXCEPT ![a] = {}]
             /\ NextName(a, todo[a] \ {at[a]}, "children", "shown")
             /\ UNCHANGED <<addresses, steady>>
    /\ UNCHANGED <<root, services, sessions, page>>

DeleteService(a) ==
    /\ pc[a] = "deleting" /\ seen[a] = {} /\ AddressesOf(at[a]) = {}
    /\ services' = services \ {at[a]}
    /\ NextName(a, todo[a] \ {at[a]}, "children", "shown")
    /\ UNCHANGED <<root, addresses, sessions, seen, page, steady>>

(* The ways the page fails: a node has gone, or the service that is to be  *)
(* deleted has an address again.                                           *)
PageError(a) ==
    \/ pc[a] = "children" /\ at[a] \notin services
    \/ pc[a] = "read" /\ ~(seen[a] \subseteq addresses)
    \/ pc[a] = "deleting" /\ seen[a] = {} /\ AddressesOf(at[a]) # {}

(* Mutant: a page error skips the name.                                    *)
MutPageFails(a) ==
    /\ PageError(a)
    /\ NextName(a, todo[a] \ {at[a]}, "children", "shown")
    /\ seen' = [seen EXCEPT ![a] = {}]
    /\ UNCHANGED <<znodes, sessions, page, steady>>

PageFails(a) ==
    /\ PageError(a)
    /\ Goto(a, "idle")
    /\ at' = [at EXCEPT ![a] = NoName]
    /\ todo' = [todo EXCEPT ![a] = {}]
    /\ seen' = [seen EXCEPT ![a] = {}]
    /\ page' = [page EXCEPT ![a] = {}]
    /\ steady' = [steady EXCEPT ![a] = {}]
    /\ UNCHANGED <<znodes, sessions>>

-----------------------------------------------------------------------------
StartStep(s) ==
    RegisterService(s) \/ Check(s) \/ CreateRoot(s) \/ CreateService(s)
        \/ CreateAddress(s) \/ RegisterFails(s)

DiscoverStep(c) ==
    Exists(c) \/ GetChildren(c) \/ NotFound(c) \/ ReadData(c) \/ AddressGone(c)

ListStep(a) ==
    ListChildren(a) \/ ReadProvider(a) \/ DeleteRecursive(a)
        \/ DeleteAddress(a) \/ DeleteService(a) \/ PageFails(a)

Next ==
    \/ \E s \in Server :
          Bind(s) \/ StartStep(s) \/ Shutdown(s) \/ Crash(s) \/ Expire(s)
    \/ \E n \in 1 .. MaxSessions : TimeOut(n)
    \/ \E c \in Client :
          DiscoverStep(c) \/ \E n \in Service : Discover(c, n)
    \/ \E a \in Admin : ListStep(a) \/ GetServerList(a)

Spec == Init /\ [][Next]_vars

-----------------------------------------------------------------------------
(* Properties.                                                             *)

(* discover does not report that a service has no node or no address when  *)
(* one of its addresses was there during the whole call, whatever servers  *)
(* and the admin page create and delete meanwhile.                         *)
DiscoverNeverDenies ==
    [][\A c \in Client : NotFound(c) => steady[c] = {}]_vars

(* A page that is shown lists every service that had one and the same      *)
(* address during the whole request.                                       *)
PageListsSteady ==
    \A a \in Admin : pc[a] = "shown" =>
        {k.service : k \in steady[a]} \subseteq page[a]

(* The admin page never deletes an address that was registered before the  *)
(* request began: only one registered since, behind its look at the list.  *)
AdminSparesSteady ==
    [][\A a \in Admin : DeleteAddress(a) =>
          (addresses \ addresses') \cap steady[a] = {}]_vars
=============================================================================
