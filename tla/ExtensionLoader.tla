--------------------------- MODULE ExtensionLoader ---------------------------
(***************************************************************************)
(* hzr.common.spi.ExtensionLoader under concurrent callers: the two static *)
(* maps, and in each loader the lazily read classes and a Holder for each  *)
(* name, both with double-checked locking.  What a call creates (a loader, *)
(* a Holder, an instance) is named after its caller, for a call creates at *)
(* most one of each.  Constructors of extensions do not use the loaders.   *)
(***************************************************************************)
EXTENDS Naturals, Sequences

CONSTANTS
    Caller,    \* threads, with one call each
    Type,      \* interfaces with an SPI annotation
    Name, Class,
    Calls,     \* Calls[k]: what k may ask for, [type, name]; the name is
    Default,   \* Default for a call of getDefaultExtension
    Defaults,  \* Defaults[t]: the names in the annotation of t
    Lines,     \* Lines[t]: the lines [name, class] of the files of t
    Subtypes,  \* Subtypes[t]: classes that can be loaded and implement t
    Fragile,   \* classes whose constructor may throw
    None

ASSUME LoaderAssumption ==
    /\ Default \notin Name
    /\ None \notin Caller \cup Class \cup Name
    /\ Calls \in
          [Caller -> SUBSET [type : Type, name : Name \cup {Default}]]
    /\ Defaults \in [Type -> Seq(Name)]
    /\ Lines \in [Type -> Seq([name : Name, class : Class])]
    /\ Subtypes \in [Type -> SUBSET Class]

Maker == Caller \cup {None}
Extension == [class : Class, by : Caller]
Null == [kind |-> "null", of |-> None]
Failure == [kind |-> "failure", of |-> None]
Pending == [kind |-> "pending", of |-> None]

VARIABLES
    asked,                \* asked[k]: the call that k makes
    pc,
    loader,               \* loader[k]: the loader call k has got
    name,                 \* name[k]: the extension it wants
    holder,               \* holder[k]: the Holder it has got
    EXTENSION_LOADERS,    \* the loader of each type
    EXTENSION_INSTANCES,  \* the instance of each class
    cachedClasses,        \* loaders that have read their files
    cachedDefaultName,    \* of each loader
    cachedInstances,      \* the Holder of each name, in each loader
    value,                \* value[h]: the instance in Holder h
    holderLock,           \* who is in synchronized (holder)
    classesLock,          \* who is in synchronized (cachedClasses)
    result                \* what each call has returned

staticVars == <<EXTENSION_LOADERS, EXTENSION_INSTANCES>>
callVars == <<asked, loader, name, holder>>
classVars == <<cachedClasses, cachedDefaultName>>
holderVars == <<cachedInstances, value>>
lockVars == <<holderLock, classesLock>>
vars == <<pc, callVars, staticVars, classVars, holderVars, lockVars, result>>

Location == {"getLoader", "putLoader", "getHolder", "putHolder", "check", "enter",
             "recheck", "classes", "enterClasses", "load", "byDefault",
             "create", "instantiate", "done"}

(* The type of every variable.                                             *)
TypeOK ==
    /\ asked \in [Caller -> [type : Type, name : Name \cup {Default}]]
    /\ pc \in [Caller -> Location]
    /\ loader \in [Caller -> Maker]
    /\ name \in [Caller -> Name \cup {Default}]
    /\ holder \in [Caller -> Maker]
    /\ EXTENSION_LOADERS \in [Type -> Maker]
    /\ EXTENSION_INSTANCES \in [Class -> Maker]
    /\ cachedClasses \subseteq Caller
    /\ cachedDefaultName \in [Caller -> Name \cup {None}]
    /\ cachedInstances \in [Caller -> [Name -> Maker]]
    /\ value \in [Caller -> Extension \cup {None}]
    /\ holderLock \in [Caller -> Maker]
    /\ classesLock \in [Caller -> Maker]
    /\ result \in [Caller -> {Pending, Null, Failure}
                               \cup [kind : {"extension"}, of : Extension]]

Init ==
    /\ asked \in [Caller -> UNION {Calls[k] : k \in Caller}]
    /\ \A k \in Caller : asked[k] \in Calls[k]
    /\ pc = [k \in Caller |-> "getLoader"]
    /\ loader = [k \in Caller |-> None]
    /\ name = [k \in Caller |-> asked[k].name]
    /\ holder = [k \in Caller |-> None]
    /\ EXTENSION_LOADERS = [t \in Type |-> None]
    /\ EXTENSION_INSTANCES = [c \in Class |-> None]
    /\ cachedClasses = {}
    /\ cachedDefaultName = [l \in Caller |-> None]
    /\ cachedInstances = [l \in Caller |-> [n \in Name |-> None]]
    /\ value = [h \in Caller |-> None]
    /\ holderLock = [h \in Caller |-> None]
    /\ classesLock = [l \in Caller |-> None]
    /\ result = [k \in Caller |-> Pending]

At(k, from, to) == pc[k] = from /\ pc' = [pc EXCEPT ![k] = to]

TypeOf(k) == asked[k].type

(* loadFile: the class of a name is that of the last of its lines whose    *)
(* class can be loaded and implements the type.                            *)
ClassOf(t, n) ==
    LET valid == {i \in DOMAIN Lines[t] :
                     Lines[t][i].name = n /\ Lines[t][i].class \in Subtypes[t]}
        last == CHOOSE i \in valid : \A j \in valid : j <= i
    IN IF valid = {} THEN None ELSE Lines[t][last].class

-----------------------------------------------------------------------------
(* getExtensionLoader.                                                     *)

(* Where a call goes on when it has its loader.                            *)
AfterLoader(k) == IF name[k] = Default THEN "classes" ELSE "getHolder"

(* EXTENSION_LOADERS.get(type)                                             *)
GetLoader(k) ==
    /\ LET l == EXTENSION_LOADERS[TypeOf(k)]
       IN \/ l = None /\ At(k, "getLoader", "putLoader") /\ UNCHANGED loader
          \/ /\ l # None
             /\ At(k, "getLoader", AfterLoader(k))
             /\ loader' = [loader EXCEPT ![k] = l]
    /\ UNCHANGED <<asked, name, holder, staticVars, classVars, holderVars, lockVars,
                   result>>

(* Mutant: put instead of putIfAbsent.                                     *)
MutLoadersWith(k) == [EXTENSION_LOADERS EXCEPT ![TypeOf(k)] = k]

(* The map after putIfAbsent(type, a new loader).                          *)
LoadersWith(k) ==
    IF EXTENSION_LOADERS[TypeOf(k)] = None
    THEN [EXTENSION_LOADERS EXCEPT ![TypeOf(k)] = k] ELSE EXTENSION_LOADERS

(* putIfAbsent and the get after it: an entry never changes.               *)
PutLoader(k) ==
    /\ At(k, "putLoader", AfterLoader(k))
    /\ EXTENSION_LOADERS' = LoadersWith(k)
    /\ loader' = [loader EXCEPT ![k] = EXTENSION_LOADERS'[TypeOf(k)]]
    /\ UNCHANGED <<asked, name, holder, EXTENSION_INSTANCES, classVars, holderVars,
                   lockVars, result>>

-----------------------------------------------------------------------------
(* getExtension.                                                           *)

(* cachedInstances.get(name)                                               *)
GetHolder(k) ==
    /\ pc[k] = "getHolder"
    /\ LET h == cachedInstances[loader[k]][name[k]]
       IN \/ h = None /\ At(k, "getHolder", "putHolder") /\ UNCHANGED holder
          \/ /\ h # None
             /\ At(k, "getHolder", "check")
             /\ holder' = [holder EXCEPT ![k] = h]
    /\ UNCHANGED <<asked, loader, name, staticVars, classVars, holderVars, lockVars,
                   result>>

(* Mutant: one map of Holders for all loaders.                             *)
MutPutHolder(k) ==
    /\ At(k, "putHolder", "check")
    /\ cachedInstances' =
          IF cachedInstances[loader[k]][name[k]] = None
          THEN [l \in Caller |-> [cachedInstances[l] EXCEPT ![name[k]] = k]]
          ELSE cachedInstances
    /\ holder' = [holder EXCEPT ![k] = cachedInstances'[loader[k]][name[k]]]
    /\ UNCHANGED <<asked, loader, name, staticVars, classVars, value, lockVars,
                   result>>

(* putIfAbsent(name, a new Holder) and the get after it.                   *)
PutHolder(k) ==
    /\ At(k, "putHolder", "check")
    /\ cachedInstances' =
          IF cachedInstances[loader[k]][name[k]] = None
          THEN [cachedInstances EXCEPT ![loader[k]][name[k]] = k]
          ELSE cachedInstances
    /\ holder' = [holder EXCEPT ![k] = cachedInstances'[loader[k]][name[k]]]
    /\ UNCHANGED <<asked, loader, name, staticVars, classVars, value, lockVars,
                   result>>

Return(k, r) == result' = [result EXCEPT ![k] = r]
Found(x) == [kind |-> "extension", of |-> x]

(* The first holder.get(), outside synchronized.                           *)
Check(k) ==
    /\ pc[k] = "check"
    /\ LET x == value[holder[k]]
       IN \/ x = None /\ At(k, "check", "enter") /\ UNCHANGED result
          \/ x # None /\ At(k, "check", "done") /\ Return(k, Found(x))
    /\ UNCHANGED <<callVars, staticVars, classVars, holderVars, lockVars>>

EnterHolder(k) ==
    /\ At(k, "enter", "recheck")
    /\ holderLock[holder[k]] = None
    /\ holderLock' = [holderLock EXCEPT ![holder[k]] = k]
    /\ UNCHANGED <<callVars, staticVars, classVars, holderVars, classesLock,
                   result>>

(* Mutant: the monitor of the classes is a lock that nobody unlocks when   *)
(* an exception is thrown.                                                 *)
MutLeaveAll(k) ==
    /\ holderLock' = [h \in Caller |->
                        IF holderLock[h] = k THEN None ELSE holderLock[h]]
    /\ UNCHANGED classesLock

(* The monitors that a call leaves when it ends.                           *)
LeaveAll(k) ==
    /\ holderLock' = [h \in Caller |->
                        IF holderLock[h] = k THEN None ELSE holderLock[h]]
    /\ classesLock' = [l \in Caller |->
                        IF classesLock[l] = k THEN None ELSE classesLock[l]]

(* The second holder.get().                                                *)
Recheck(k) ==
    /\ pc[k] = "recheck"
    /\ LET x == value[holder[k]]
       IN \/ /\ x = None
             /\ At(k, "recheck", "classes")
             /\ UNCHANGED <<lockVars, result>>
          \/ /\ x # None
             /\ At(k, "recheck", "done")
             /\ Return(k, Found(x))
             /\ LeaveAll(k)
    /\ UNCHANGED <<callVars, staticVars, classVars, holderVars>>

(* An exception leaves getExtension, and all its monitors.                 *)
Throw(k) ==
    /\ pc' = [pc EXCEPT ![k] = "done"]
    /\ Return(k, Failure)
    /\ LeaveAll(k)
    /\ UNCHANGED <<callVars, staticVars, classVars, holderVars>>

-----------------------------------------------------------------------------
(* getExtensionClasses, from createExtension or getDefaultExtension.       *)

AfterClasses(k) == IF name[k] = Default THEN "byDefault" ELSE "create"

(* The first cachedClasses.get().                                          *)
GetClasses(k) ==
    /\ \/ loader[k] \in cachedClasses /\ At(k, "classes", AfterClasses(k))
       \/ loader[k] \notin cachedClasses /\ At(k, "classes", "enterClasses")
    /\ UNCHANGED <<callVars, staticVars, classVars, holderVars, lockVars,
                   result>>

EnterClasses(k) ==
    /\ At(k, "enterClasses", "load")
    /\ classesLock[loader[k]] = None
    /\ classesLock' = [classesLock EXCEPT ![loader[k]] = k]
    /\ UNCHANGED <<callVars, staticVars, classVars, holderVars, holderLock,
                   result>>

(* The second cachedClasses.get(), loadExtensionClasses if it finds        *)
(* nothing, and the end of the block.                                      *)
Load(k) ==
    /\ At(k, "load", AfterClasses(k))
    /\ loader[k] \in cachedClasses \/ Len(Defaults[TypeOf(k)]) <= 1
    /\ cachedClasses' = cachedClasses \cup {loader[k]}
    /\ cachedDefaultName' =
          IF loader[k] \in cachedClasses \/ Defaults[TypeOf(k)] = <<>>
          THEN cachedDefaultName
          ELSE [cachedDefaultName EXCEPT
                  ![loader[k]] = Defaults[TypeOf(k)][1]]
    /\ classesLock' = [classesLock EXCEPT ![loader[k]] = None]
    /\ UNCHANGED <<callVars, staticVars, holderVars, holderLock, result>>

(* "more than 1 default extension name": nothing is cached.                *)
TooManyDefaults(k) ==
    /\ pc[k] = "load"
    /\ loader[k] \notin cachedClasses
    /\ Len(Defaults[TypeOf(k)]) > 1
    /\ Throw(k)

(* getDefaultExtension returns null, or getExtension(cachedDefaultName).   *)
ByDefault(k) ==
    /\ pc[k] = "byDefault"
    /\ LET n == cachedDefaultName[loader[k]]
       IN \/ /\ n = None
             /\ At(k, "byDefault", "done")
             /\ Return(k, Null)
             /\ UNCHANGED name
          \/ /\ n # None
             /\ At(k, "byDefault", "getHolder")
             /\ name' = [name EXCEPT ![k] = n]
             /\ UNCHANGED result
    /\ UNCHANGED <<asked, loader, holder, staticVars, classVars, holderVars, lockVars>>

-----------------------------------------------------------------------------
(* The rest of createExtension.                                            *)

ClassFor(k) == ClassOf(TypeOf(k), name[k])

(* findException: no class for the name.                                   *)
NoSuchExtension(k) ==
    /\ pc[k] = "create"
    /\ ClassFor(k) = None
    /\ Throw(k)

(* holder.set(instance), the end of the block, and return.                 *)
SetInstance(k, x) ==
    /\ value' = [value EXCEPT ![holder[k]] = x]
    /\ LeaveAll(k)
    /\ Return(k, Found(x))
    /\ UNCHANGED <<callVars, classVars, cachedInstances>>

(* EXTENSION_INSTANCES.get(clazz)                                          *)
GetInstance(k) ==
    /\ pc[k] = "create"
    /\ ClassFor(k) # None
    /\ LET by == EXTENSION_INSTANCES[ClassFor(k)]
       IN \/ /\ by = None
             /\ At(k, "create", "instantiate")
             /\ UNCHANGED <<callVars, classVars, holderVars, lockVars, result>>
          \/ /\ by # None
             /\ At(k, "create", "done")
             /\ SetInstance(k, [class |-> ClassFor(k), by |-> by])
    /\ UNCHANGED staticVars

(* Mutant: the caller keeps the instance it has made, whatever is there.   *)
MutInstanceBy(k) == k

(* Mutant: the result of putIfAbsent is used, null for the first caller.   *)
MutPrevious(k) == EXTENSION_INSTANCES[ClassFor(k)]

(* What get finds after putIfAbsent(clazz, the instance k has made).       *)
InstanceBy(k) ==
    LET by == EXTENSION_INSTANCES[ClassFor(k)]
    IN IF by = None THEN k ELSE by

(* clazz.newInstance(), putIfAbsent and the get after it.                  *)
PutInstance(k) ==
    /\ At(k, "instantiate", "done")
    /\ EXTENSION_INSTANCES' =
          [EXTENSION_INSTANCES EXCEPT ![ClassFor(k)] = InstanceBy(k)]
    /\ SetInstance(k, [class |-> ClassFor(k), by |-> InstanceBy(k)])
    /\ UNCHANGED EXTENSION_LOADERS

(* newInstance throws: "could not be instantiated".                        *)
NewInstanceThrows(k) ==
    /\ pc[k] = "instantiate"
    /\ ClassFor(k) \in Fragile
    /\ Throw(k)

-----------------------------------------------------------------------------
CallStep(k) ==
    \/ GetLoader(k) \/ PutLoader(k)
    \/ GetHolder(k) \/ PutHolder(k) \/ Check(k) \/ EnterHolder(k) \/ Recheck(k)
    \/ GetClasses(k) \/ EnterClasses(k) \/ Load(k) \/ TooManyDefaults(k)
    \/ ByDefault(k)
    \/ NoSuchExtension(k) \/ GetInstance(k) \/ PutInstance(k)
    \/ NewInstanceThrows(k)

Returned == (\A k \in Caller : pc[k] = "done") /\ UNCHANGED vars

Next == (\E k \in Caller : CallStep(k)) \/ Returned

Spec == Init /\ [][Next]_vars

(* Threads run.  A monitor goes to any of those that wait for it; each     *)
(* makes one call, so that weak fairness is enough.                        *)
FairSpec == Spec /\ \A k \in Caller : WF_vars(CallStep(k))

-----------------------------------------------------------------------------
(* Properties.                                                             *)

(* "For each extension there is one ExtensionLoader and only one",         *)
(* ExtensionLoader.java:88: concurrent first calls for a type work with    *)
(* one loader, though each of them may have made its own.                  *)
OneLoaderPerType ==
    \A j, k \in Caller :
        /\ loader[j] # None /\ loader[k] # None
        /\ TypeOf(j) = TypeOf(k)
        => loader[j] = loader[k]

(* The callers of an extension share one instance of its class, across     *)
(* names and types, though several may have been made.                     *)
OneInstancePerClass ==
    \A j, k \in Caller :
        /\ result[j].kind = "extension" /\ result[k].kind = "extension"
        /\ result[j].of.class = result[k].of.class
        => result[j] = result[k]

(* A call returns an instance of the class its files name last, and fails  *)
(* only for a reason of its own: no such class, a constructor that throws, *)
(* two default names.  The failure of another call is not passed on.       *)
ResultFits ==
    \A k \in Caller :
        /\ result[k].kind = "extension" => result[k].of.class = ClassFor(k)
        /\ result[k] = Failure =>
              \/ Len(Defaults[TypeOf(k)]) > 1
              \/ ClassFor(k) \in Fragile \cup {None}

(* Every call returns: the monitors are nested in one order and left on    *)
(* every way out.                                                          *)
EveryCallEnds == \A k \in Caller : <>(pc[k] = "done")
=============================================================================
