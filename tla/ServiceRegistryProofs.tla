----------------------- MODULE ServiceRegistryProofs -----------------------
(***************************************************************************)
(* Theorems about ServiceRegistry: its type invariant and its properties,  *)
(* for any servers, services, clients, admin requests and faults.          *)
(***************************************************************************)
EXTENDS ServiceRegistry, TLAPS

(* A server at work has a session and a name, and /service exists once it  *)
(* has looked.                                                             *)
ServerInv ==
    \A s \in Server :
        /\ HasSession(s) => session[s] # 0
        /\ pc[s] \in {"root", "createRoot", "service", "createService",
                      "address"} => at[s] \in Service
        /\ pc[s] \in {"service", "createService", "address"} => root

(* A request for the page works on a name of todo.                         *)
ListInv ==
    \A a \in Admin :
        /\ pc[a] \in {"children", "read", "delete", "deleting"} =>
              at[a] \in todo[a]
        /\ pc[a] = "shown" => todo[a] = {}

(* What has been there since a call began is there.                        *)
SteadyInv == \A p \in Caller : steady[p] \subseteq addresses

(* A client at work watches the addresses of its name.                     *)
ClientInv ==
    \A c \in Client :
        /\ pc[c] = "idle" => steady[c] = {}
        /\ \A k \in steady[c] : k.service = at[c]

(* Every steady address is of a name the request has listed or will come   *)
(* to; a name it deletes has none.                                         *)
AdminInv ==
    \A a \in Admin :
        /\ \A k \in steady[a] : k.service \in page[a] \cup todo[a]
        /\ pc[a] \in {"delete", "deleting"} =>
              \A k \in steady[a] : k.service # at[a]
        /\ pc[a] = "deleting" => \A k \in seen[a] : k.service = at[a]

(* The inductive invariants: of the types, and with the history.           *)
TInv == TypeOK /\ ServerInv /\ ListInv
IInv == TInv /\ SteadyInv /\ ClientInv /\ AdminInv

-----------------------------------------------------------------------------
LEMMA TypeInit == Init => TInv
  BY RegistryAssumption DEF Init, TInv, TypeOK, ServerInv, ListInv,
     HasSession, ServerLabel, ClientLabel, AdminLabel, Process, Caller, Address

LEMMA TypeStep == TInv /\ [Next]_vars => TInv'
<1> SUFFICES ASSUME TInv, [Next]_vars PROVE TInv'
  OBVIOUS
<1> USE RegistryAssumption
    DEF TInv, TypeOK, ServerInv, ListInv, HasSession, Process, Caller,
        znodes, sessions, ServerLabel, ClientLabel, AdminLabel
<1>1. ASSUME NEW s \in Server, Bind(s) PROVE TInv'
  BY <1>1 DEF Bind, Goto
<1>2. ASSUME NEW s \in Server, RegisterService(s) PROVE TInv'
  BY <1>2 DEF RegisterService, OpenSession, NextName, Goto
<1>3. ASSUME NEW s \in Server, Check(s) PROVE TInv'
  BY <1>3 DEF Check, Goto
<1>4. ASSUME NEW s \in Server, CreateRoot(s) PROVE TInv'
  BY <1>4 DEF CreateRoot, Goto
<1>5. ASSUME NEW s \in Server, CreateService(s) PROVE TInv'
  BY <1>5 DEF CreateService, Goto
<1>6. ASSUME NEW s \in Server, CreateAddress(s) PROVE TInv'
  BY <1>6 DEF CreateAddress, NextName, Goto, Address
<1>7. ASSUME NEW s \in Server, RegisterFails(s) PROVE TInv'
  BY <1>7 DEF RegisterFails, Goto
<1>8. ASSUME NEW s \in Server, Shutdown(s) PROVE TInv'
  BY <1>8 DEF Shutdown, Goto
<1>9. ASSUME NEW s \in Server, Crash(s) PROVE TInv'
  BY <1>9 DEF Crash, Goto
<1>10. ASSUME NEW s \in Server, Expire(s) PROVE TInv'
  BY <1>10 DEF Expire, OpenSession, RemoveAddresses, Address
<1>11. ASSUME NEW n \in 1 .. MaxSessions, TimeOut(n) PROVE TInv'
  BY <1>11 DEF TimeOut, RemoveAddresses
<1>12. ASSUME NEW c \in Client, NEW n \in Service, Discover(c, n) PROVE TInv'
  BY <1>12 DEF Discover, Goto, AddressesOf
<1>13. ASSUME NEW c \in Client, Exists(c) PROVE TInv'
  BY <1>13 DEF Exists, Goto
<1>14. ASSUME NEW c \in Client, GetChildren(c) PROVE TInv'
  BY <1>14 DEF GetChildren, Goto, AddressesOf
<1>15. ASSUME NEW c \in Client, NotFound(c) PROVE TInv'
  BY <1>15 DEF NotFound, End, Goto
<1>16. ASSUME NEW c \in Client, ReadData(c) PROVE TInv'
  BY <1>16 DEF ReadData, End, Goto
<1>17. ASSUME NEW c \in Client, AddressGone(c) PROVE TInv'
  BY <1>17 DEF AddressGone, End, Goto
<1>18. ASSUME NEW a \in Admin, GetServerList(a) PROVE TInv'
  <2>1. /\ page' \in [Admin -> SUBSET Service]
        /\ seen' \in [Caller -> SUBSET Address]
        /\ steady' \in [Caller -> SUBSET Address]
        /\ UNCHANGED <<znodes, sessions>>
    BY <1>18 DEF GetServerList
  <2>2. todo' = [todo EXCEPT ![a] = services]
    BY <1>18 DEF GetServerList, NextName
  <2>3. CASE /\ services = {} /\ Goto(a, "shown")
             /\ at' = [at EXCEPT ![a] = NoName]
    BY <2>1, <2>2, <2>3 DEF Goto
  <2>4. ASSUME NEW n \in services, Goto(a, "children"),
               at' = [at EXCEPT ![a] = n]
        PROVE  TInv'
    BY <2>1, <2>2, <2>4 DEF Goto
  <2> QED
    BY <1>18, <2>3, <2>4 DEF GetServerList, NextName
<1>19. ASSUME NEW a \in Admin, ListChildren(a) PROVE TInv'
  BY <1>19 DEF ListChildren, Goto, AddressesOf
<1>20. ASSUME NEW a \in Admin, ReadProvider(a) PROVE TInv'
  <2>1. /\ seen' \in [Caller -> SUBSET Address]
        /\ UNCHANGED <<znodes, sessions, steady>>
    BY <1>20 DEF ReadProvider
  <2>2. CASE /\ page' = [page EXCEPT ![a] = @ \cup {at[a]}]
             /\ NextName(a, todo[a] \ {at[a]}, "children", "shown")
    <3>1. at[a] \in todo[a]
      BY <1>20 DEF ReadProvider
    <3>2. page' \in [Admin -> SUBSET Service]
      BY <2>2, <3>1
    <3> QED
      BY <2>1, <2>2, <3>2 DEF NextName, Goto
  <2>3. CASE UNCHANGED <<page, pc, at, todo>>
    BY <2>1, <2>3
  <2> QED
    BY <1>20, <2>2, <2>3 DEF ReadProvider
<1>21. ASSUME NEW a \in Admin, DeleteRecursive(a) PROVE TInv'
  BY <1>21 DEF DeleteRecursive, NextName, Goto, AddressesOf
<1>22. ASSUME NEW a \in Admin, DeleteAddress(a) PROVE TInv'
  BY <1>22 DEF DeleteAddress, RemoveAddresses, NextName, Goto
<1>23. ASSUME NEW a \in Admin, DeleteService(a) PROVE TInv'
  BY <1>23 DEF DeleteService, NextName, Goto, AddressesOf
<1>24. ASSUME NEW a \in Admin, PageFails(a) PROVE TInv'
  BY <1>24 DEF PageFails, Goto
<1>25. CASE UNCHANGED vars
  BY <1>25 DEF vars, Address
<1> QED
  BY <1>1, <1>2, <1>3, <1>4, <1>5, <1>6, <1>7, <1>8, <1>9, <1>10, <1>11,
     <1>12, <1>13, <1>14, <1>15, <1>16, <1>17, <1>18, <1>19, <1>20, <1>21,
     <1>22, <1>23, <1>24, <1>25
  DEF Next, StartStep, DiscoverStep, ListStep

LEMMA HistoryStep ==
  IInv /\ [Next]_vars => (SteadyInv /\ ClientInv /\ AdminInv)'
<1> DEFINE HInv == SteadyInv /\ ClientInv /\ AdminInv
<1> SUFFICES ASSUME IInv, [Next]_vars PROVE HInv'
  OBVIOUS
<1> USE RegistryAssumption
    DEF IInv, TInv, TypeOK, ListInv, SteadyInv, ClientInv, AdminInv, Process,
        Caller, znodes, sessions, ServerLabel, ClientLabel, AdminLabel
<1>1. ASSUME NEW s \in Server, Bind(s) PROVE HInv'
  BY <1>1 DEF Bind, Goto
<1>2. ASSUME NEW s \in Server, RegisterService(s) PROVE HInv'
  BY <1>2 DEF RegisterService, OpenSession, NextName, Goto
<1>3. ASSUME NEW s \in Server, Check(s) PROVE HInv'
  BY <1>3 DEF Check, Goto
<1>4. ASSUME NEW s \in Server, CreateRoot(s) PROVE HInv'
  BY <1>4 DEF CreateRoot, Goto
<1>5. ASSUME NEW s \in Server, CreateService(s) PROVE HInv'
  BY <1>5 DEF CreateService, Goto
<1>6. ASSUME NEW s \in Server, CreateAddress(s) PROVE HInv'
  BY <1>6 DEF CreateAddress, NextName, Goto
<1>7. ASSUME NEW s \in Server, RegisterFails(s) PROVE HInv'
  BY <1>7 DEF RegisterFails, Goto
<1>8. ASSUME NEW s \in Server, Shutdown(s) PROVE HInv'
  BY <1>8 DEF Shutdown, Goto
<1>9. ASSUME NEW s \in Server, Crash(s) PROVE HInv'
  BY <1>9 DEF Crash, Goto
<1>10. ASSUME NEW s \in Server, Expire(s) PROVE HInv'
  BY <1>10 DEF Expire, OpenSession, RemoveAddresses
<1>11. ASSUME NEW n \in 1 .. MaxSessions, TimeOut(n) PROVE HInv'
  BY <1>11 DEF TimeOut, RemoveAddresses
<1>12. ASSUME NEW c \in Client, NEW n \in Service, Discover(c, n) PROVE HInv'
  BY <1>12 DEF Discover, Goto, AddressesOf
<1>13. ASSUME NEW c \in Client, Exists(c) PROVE HInv'
  BY <1>13 DEF Exists, Goto
<1>14. ASSUME NEW c \in Client, GetChildren(c) PROVE HInv'
  BY <1>14 DEF GetChildren, Goto, AddressesOf
<1>15. ASSUME NEW c \in Client, NotFound(c) PROVE HInv'
  BY <1>15 DEF NotFound, End, Goto
<1>16. ASSUME NEW c \in Client, ReadData(c) PROVE HInv'
  BY <1>16 DEF ReadData, End, Goto
<1>17. ASSUME NEW c \in Client, AddressGone(c) PROVE HInv'
  BY <1>17 DEF AddressGone, End, Goto
<1>18. ASSUME NEW a \in Admin, GetServerList(a) PROVE HInv'
  BY <1>18 DEF GetServerList, NextName, Goto
<1>19. ASSUME NEW a \in Admin, ListChildren(a) PROVE HInv'
  BY <1>19 DEF ListChildren, Goto, AddressesOf
<1>20. ASSUME NEW a \in Admin, ReadProvider(a) PROVE HInv'
  BY <1>20 DEF ReadProvider, NextName, Goto
<1>21. ASSUME NEW a \in Admin, DeleteRecursive(a) PROVE HInv'
  BY <1>21 DEF DeleteRecursive, NextName, Goto, AddressesOf
<1>22. ASSUME NEW a \in Admin, DeleteAddress(a) PROVE HInv'
  BY <1>22 DEF DeleteAddress, RemoveAddresses, NextName, Goto
<1>23. ASSUME NEW a \in Admin, DeleteService(a) PROVE HInv'
  BY <1>23 DEF DeleteService, NextName, Goto, AddressesOf
<1>24. ASSUME NEW a \in Admin, PageFails(a) PROVE HInv'
  BY <1>24 DEF PageFails, Goto
<1>25. CASE UNCHANGED vars
  BY <1>25 DEF vars
<1> QED
  BY <1>1, <1>2, <1>3, <1>4, <1>5, <1>6, <1>7, <1>8, <1>9, <1>10, <1>11,
     <1>12, <1>13, <1>14, <1>15, <1>16, <1>17, <1>18, <1>19, <1>20, <1>21,
     <1>22, <1>23, <1>24, <1>25
  DEF Next, StartStep, DiscoverStep, ListStep

-----------------------------------------------------------------------------
LEMMA InvInit == Init => IInv
  BY TypeInit, RegistryAssumption
  DEF Init, IInv, SteadyInv, ClientInv, AdminInv, Process, Caller

LEMMA InvStep == IInv /\ [Next]_vars => IInv'
  BY TypeStep, HistoryStep DEF IInv

LEMMA Invariant == Spec => []IInv
  BY InvInit, InvStep, PTL DEF Spec

(* Every variable keeps its type, and no znode loses its parent, whatever  *)
(* servers, discoveries and requests for the admin page do to each other.  *)
THEOREM RegistryTypeCorrect == Spec => []TypeOK
<1>1. IInv => TypeOK
  BY DEF IInv, TInv
<1> QED
  BY <1>1, Invariant, PTL

(* discover never denies a service that had an address all the time: an    *)
(* address that is there has its service node above it.                    *)
THEOREM NeverDenied == Spec => DiscoverNeverDenies
<1>1. ASSUME IInv, NEW c \in Client, NotFound(c) PROVE steady[c] = {}
  <2>1. \A k \in steady[c] : k \in AddressesOf(at[c])
    BY <1>1 DEF IInv, SteadyInv, ClientInv, AddressesOf, Caller
  <2>2. \A k \in AddressesOf(at[c]) : at[c] \in services
    BY <1>1 DEF IInv, TInv, TypeOK, AddressesOf
  <2> QED
    BY <1>1, <2>1, <2>2 DEF NotFound
<1>2. IInv => [\A c \in Client : NotFound(c) => steady[c] = {}]_vars
  BY <1>1
<1> QED
  BY <1>2, Invariant, PTL DEF DiscoverNeverDenies

(* A page that is shown lists every service with a steady address.         *)
THEOREM SteadyListed == Spec => []PageListsSteady
<1>1. IInv => PageListsSteady
  BY DEF IInv, TInv, ListInv, AdminInv, PageListsSteady
<1> QED
  BY <1>1, Invariant, PTL

(* The admin page deletes no address that was there when its request       *)
(* began: it saw the list empty, so none of this service was.              *)
THEOREM SteadySpared == Spec => AdminSparesSteady
<1>1. ASSUME IInv, NEW a \in Admin, DeleteAddress(a)
      PROVE  (addresses \ addresses') \cap steady[a] = {}
  <2>1. \A k \in seen[a] : k \notin steady[a]
    BY <1>1 DEF IInv, AdminInv, DeleteAddress
  <2>2. PICK k \in seen[a] : addresses \ addresses' \subseteq {k}
    BY <1>1 DEF DeleteAddress, RemoveAddresses
  <2> QED
    BY <2>1, <2>2
<1>2. IInv => [\A a \in Admin : DeleteAddress(a) =>
                  (addresses \ addresses') \cap steady[a] = {}]_vars
  BY <1>1
<1> QED
  BY <1>2, Invariant, PTL DEF AdminSparesSteady
=============================================================================
