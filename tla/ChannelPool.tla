---------------------------- MODULE ChannelPool ----------------------------
(***************************************************************************)
(* The channels one ChannelHolder keeps: a commons-pool2 GenericObjectPool *)
(* with its default configuration (maxTotal = |Slot|, LIFO, borrowers wait *)
(* without limit, objects are never validated) whose objects ChannelFactory *)
(* makes.  A slot is a PooledObject; the operators are the atomic steps of *)
(* borrowObject and returnObject, which ClientCall orders.  The pool is not *)
(* closed here.                                                            *)
(***************************************************************************)
EXTENDS Naturals, Sequences, FiniteSets

CONSTANT Slot

VARIABLES
    slotState,  \* what the pool knows of each PooledObject
    link,       \* the TCP connection behind it: "none" is a null channel
    idle        \* idleObjects, the LinkedBlockingDeque, first element first

poolVars == <<slotState, link, idle>>

PoolTypeOK ==
    /\ slotState \in [Slot -> {"absent", "creating", "idle", "allocated"}]
    /\ link \in [Slot -> {"none", "up", "down"}]
    /\ idle \in Seq(Slot)

PoolInit ==
    /\ slotState = [s \in Slot |-> "absent"]
    /\ link = [s \in Slot |-> "none"]
    /\ idle = <<>>

(* idleObjects.pollFirst() or takeFirst() that finds an object, and the    *)
(* allocate() of it: nothing looks at the channel (testOnBorrow is false). *)
LendFirst(s) ==
    /\ idle # <<>>
    /\ s = Head(idle)
    /\ idle' = Tail(idle)
    /\ slotState' = [slotState EXCEPT ![s] = "allocated"]
    /\ UNCHANGED link

(* create(): createCount is below maxTotal and is incremented.             *)
StartCreate(s) ==
    /\ slotState[s] = "absent"
    /\ slotState' = [slotState EXCEPT ![s] = "creating"]
    /\ UNCHANGED <<link, idle>>

(* create() gives up: createCount has reached maxTotal.                    *)
Exhausted == \A s \in Slot : slotState[s] # "absent"

(* makeObject() returns: createNewConChannel connected, or caught an       *)
(* InterruptedException and answered null, which is pooled all the same.   *)
Created(s, channel) ==
    /\ slotState[s] = "creating"
    /\ slotState' = [slotState EXCEPT ![s] = "allocated"]
    /\ link' = [link EXCEPT ![s] = channel]
    /\ UNCHANGED idle

(* connect().sync() throws: createCount is decremented, nobody is woken.   *)
Refused(s) ==
    /\ slotState[s] = "creating"
    /\ slotState' = [slotState EXCEPT ![s] = "absent"]
    /\ UNCHANGED <<link, idle>>

(* returnObject(): deallocate, then addFirst (lifo), which wakes a waiter. *)
ReturnObject(s) ==
    /\ slotState[s] = "allocated"
    /\ slotState' = [slotState EXCEPT ![s] = "idle"]
    /\ idle' = <<s>> \o idle
    /\ UNCHANGED link

(* The peer, or exceptionCaught, closes the connection of any channel; no  *)
(* one tells the pool.                                                     *)
Break(s) ==
    /\ link[s] = "up"
    /\ link' = [link EXCEPT ![s] = "down"]
    /\ UNCHANGED <<slotState, idle>>
=============================================================================
