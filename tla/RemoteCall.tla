----------------------------- MODULE RemoteCall -----------------------------
(***************************************************************************)
(* What a stub promises its caller, whatever pools, rings, caches and      *)
(* networks are in between: a call is executed at most once, perhaps after *)
(* the caller has given up; what the stub returns is the result of this    *)
(* very call, of the method it names; everything else is an exception.     *)
(***************************************************************************)
EXTENDS Naturals

CONSTANTS
    Caller,
    Id,         \* identities of calls
    Requested,  \* Requested[c]: the method the stub of c names
    Result,     \* what a stub may hand its caller
    ResultOf(_),\* the results that the execution of a method can have
    NoResult, Failure

VARIABLES
    used,       \* identities given out
    current,    \* current[c]: the identity of the last call of c
    active,     \* callers with a call under way
    runs,       \* runs[i]: executions of call i
    outcome     \* outcome[c]: what the last call of c ended with

remoteVars == <<used, current, active, runs, outcome>>

RemoteInit ==
    /\ used = {}
    /\ current \in [Caller -> {0}]
    /\ active = {}
    /\ runs = [i \in Id |-> 0]
    /\ outcome = [c \in Caller |-> NoResult]

BeginCall(c) ==
    /\ c \notin active
    /\ active' = active \cup {c}
    /\ \E i \in Id \ used :
          /\ used' = used \cup {i}
          /\ current' = [current EXCEPT ![c] = i]
    /\ outcome' = [outcome EXCEPT ![c] = NoResult]
    /\ UNCHANGED runs

Execute(i) ==
    /\ i \in used
    /\ runs[i] = 0
    /\ runs' = [runs EXCEPT ![i] = 1]
    /\ UNCHANGED <<used, current, active, outcome>>

EndCall(c) ==
    /\ c \in active
    /\ active' = active \ {c}
    /\ \E r \in Result :
          /\ outcome' = [outcome EXCEPT ![c] = r]
          /\ \/ r = Failure
             \/ runs[current[c]] = 1 /\ r \in ResultOf(Requested[c])
    /\ UNCHANGED <<used, current, runs>>

RemoteNext ==
    \/ \E c \in Caller : BeginCall(c) \/ EndCall(c)
    \/ \E i \in Id : Execute(i)

RemoteSpec == RemoteInit /\ [][RemoteNext]_remoteVars
=============================================================================
