------------------------ MODULE ExtensionLoaderProofs ------------------------
(***************************************************************************)
(* Theorems about ExtensionLoader, for any number of callers, any types,   *)
(* names, classes and files.                                               *)
(***************************************************************************)
EXTENDS ExtensionLoader, SequenceTheorems, WellFoundedInduction,
        TLAPS

-----------------------------------------------------------------------------
(* Of some lines of a file, one is the last.                               *)
LEMMA LastLine ==
  ASSUME NEW n \in Nat, NEW V, V \subseteq 1 .. n, V # {}
  PROVE  \E i \in V : \A j \in V : j <= i
<1> DEFINE T == {n - i : i \in V}
           R == OpToRel(<, Nat)
<1>1. T \subseteq Nat /\ T # {}
  <2>1. \A i \in V : n - i \in Nat
    OBVIOUS
  <2>2. PICK i \in V : TRUE
    OBVIOUS
  <2>3. n - i \in T
    OBVIOUS
  <2> QED
    BY <2>1, <2>3
<1>2. IsWellFoundedOn(R, Nat)
  BY NatLessThanWellFounded
<1>3. PICK x \in T : \A y \in T : ~ (<<y, x>> \in R)
  <2> HIDE DEF T, R
  <2> QED
    BY <1>1, <1>2, WFMin
<1>4. PICK i \in V : x = n - i
  OBVIOUS
<1>5. ASSUME NEW j \in V PROVE j <= i
  <2>1. n - j \in T /\ n - j \in Nat /\ x \in Nat
    BY <1>1
  <2>2. ~ (n - j < x)
    BY <1>3, <2>1 DEF OpToRel
  <2> QED
    BY <1>4, <2>2
<1> QED
  BY <1>5

(* The files of a type give a name one of their classes, or none.          *)
LEMMA ClassOfType ==
  ASSUME NEW t \in Type, NEW n \in Name PROVE ClassOf(t, n) \in Class \cup {None}
<1> DEFINE valid == {i \in DOMAIN Lines[t] :
                        Lines[t][i].name = n /\ Lines[t][i].class \in Subtypes[t]}
<1>1. Lines[t] \in Seq([name : Name, class : Class])
  BY LoaderAssumption
<1>2. valid \subseteq 1 .. Len(Lines[t]) /\ Len(Lines[t]) \in Nat
  BY <1>1
<1>3. CASE valid = {}
  BY <1>3 DEF ClassOf
<1>4. CASE valid # {}
  <2> DEFINE last == CHOOSE i \in valid : \A j \in valid : j <= i
  <2>1. last \in valid
    <3> HIDE DEF valid
    <3> QED
      BY <1>2, <1>4, LastLine
  <2>2. ClassOf(t, n) = Lines[t][last].class
    BY <1>4 DEF ClassOf
  <2>3. Lines[t][last] \in [name : Name, class : Class]
    BY <1>1, <1>2, <2>1, ElementOfSeq
  <2> QED
    BY <2>2, <2>3
<1> QED
  BY <1>3, <1>4

-----------------------------------------------------------------------------
(* What a call has when it gets to a step.                                 *)
Named == {"getHolder", "putHolder", "check", "enter", "recheck", "create",
          "instantiate"}
Holding == {"check", "enter", "recheck", "create", "instantiate"}
InClasses == {"classes", "enterClasses", "load"}

PcInv ==
    \A k \in Caller :
        /\ pc[k] \in {"getLoader", "putLoader"} <=> loader[k] = None
        /\ pc[k] \in Named => name[k] \in Name
        /\ pc[k] \in Holding => holder[k] # None
        /\ pc[k] \in InClasses /\ name[k] # Default => holder[k] # None
        /\ pc[k] = "byDefault" => name[k] = Default
        /\ pc[k] = "instantiate" => ClassFor(k) # None
        /\ pc[k] # "done" => result[k] = Pending

(* A call has the loader of its type, and a loader has one type.           *)
LoaderInv ==
    /\ \A k \in Caller :
          loader[k] # None => EXTENSION_LOADERS[TypeOf(k)] = loader[k]
    /\ \A t \in Type :
          EXTENSION_LOADERS[t] # None => TypeOf(EXTENSION_LOADERS[t]) = t

(* A Holder belongs to the loader and the name it was made for.            *)
HolderInv ==
    /\ \A l \in Caller, n \in Name :
          LET h == cachedInstances[l][n]
          IN h # None => loader[h] = l /\ name[h] = n
    /\ \A k \in Caller :
          holder[k] # None =>
              /\ name[k] \in Name
              /\ loader[k] # None
              /\ loader[holder[k]] = loader[k]
              /\ name[holder[k]] = name[k]

(* The instance EXTENSION_INSTANCES has for its class.                     *)
Kept(x) == x.by # None /\ EXTENSION_INSTANCES[x.class] = x.by

(* A Holder in use has the kept instance of the class of its name.         *)
ValueInv ==
    \A h \in Caller :
        value[h] # None =>
            /\ Kept(value[h])
            /\ value[h].class = ClassFor(h)
            /\ name[h] \in Name

ResultInv ==
    \A k \in Caller :
        /\ result[k].kind = "extension" =>
              Kept(result[k].of) /\ result[k].of.class = ClassFor(k)
        /\ result[k] = Failure =>
              \/ Len(Defaults[TypeOf(k)]) > 1
              \/ ClassFor(k) \in Fragile \cup {None}

IInv ==
    /\ TypeOK
    /\ PcInv
    /\ LoaderInv
    /\ HolderInv
    /\ ValueInv
    /\ ResultInv

LEMMA InvInit == Init => IInv
<1> SUFFICES ASSUME Init PROVE IInv
  OBVIOUS
<1> USE LoaderAssumption DEF Init, Maker
<1>1. asked \in [Caller -> [type : Type, name : Name \cup {Default}]]
  OBVIOUS
<1>2. TypeOK
  BY <1>1 DEF TypeOK, Location
<1>3. PcInv
  BY DEF PcInv, Named, Holding, InClasses
<1>4. LoaderInv /\ HolderInv /\ ValueInv
  BY DEF LoaderInv, HolderInv, ValueInv
<1>5. ResultInv
  BY DEF ResultInv, Pending, Failure
<1> QED
  BY <1>2, <1>3, <1>4, <1>5 DEF IInv

(* A step that changes the location, the monitors and what was read from   *)
(* the files only.                                                         *)
LEMMA Moves ==
  ASSUME IInv, TypeOK', PcInv',
         UNCHANGED <<callVars, staticVars, holderVars, result>>
  PROVE  IInv'
<1> USE DEF callVars, staticVars, holderVars, TypeOf, ClassFor
<1>1. LoaderInv' /\ HolderInv'
  BY DEF IInv, LoaderInv, HolderInv
<1>2. ValueInv' /\ ResultInv'
  BY DEF IInv, ValueInv, ResultInv, Kept
<1> QED
  BY <1>1, <1>2 DEF IInv

LEMMA ResultType ==
  ASSUME TypeOK, NEW k \in Caller, result[k].kind = "extension"
  PROVE  result[k].of \in Extension
<1>1. result[k] \in {Pending, Null, Failure} \cup [kind : {"extension"}, of : Extension]
  BY DEF TypeOK
<1> QED
  BY <1>1 DEF Pending, Null, Failure

LEMMA LeaveAllType ==
  ASSUME TypeOK, NEW k \in Caller, LeaveAll(k)
  PROVE  holderLock' \in [Caller -> Maker] /\ classesLock' \in [Caller -> Maker]
  BY DEF TypeOK, LeaveAll, Maker

(* An exception for a reason of the call's own.                            *)
LEMMA ThrowKeeps ==
  ASSUME IInv, NEW k \in Caller, Throw(k),
         pc[k] \in {"load", "create", "instantiate"},
         \/ Len(Defaults[TypeOf(k)]) > 1
         \/ ClassFor(k) \in Fragile \cup {None}
  PROVE  IInv'
<1> USE DEF IInv, Throw, Return, callVars, staticVars, classVars, holderVars
<1>1. TypeOK'
  <2>1. pc' \in [Caller -> Location]
    BY DEF TypeOK, Location
  <2>2. holderLock' \in [Caller -> Maker] /\ classesLock' \in [Caller -> Maker]
    BY LeaveAllType
  <2> QED
    BY <2>1, <2>2 DEF TypeOK
<1>2. PcInv'
  BY DEF TypeOK, PcInv, Named, Holding, InClasses, ClassFor, TypeOf
<1>3. LoaderInv' /\ HolderInv'
  BY DEF LoaderInv, HolderInv, TypeOf
<1>4. ValueInv'
  BY DEF ValueInv, Kept, ClassFor, TypeOf
<1>5. ResultInv'
  BY DEF TypeOK, ResultInv, Failure, Kept, ClassFor, TypeOf
<1> QED
  BY <1>1, <1>2, <1>3, <1>4, <1>5

(* A call and the Holder it uses agree on the extension.                   *)
LEMMA SameExtension ==
  ASSUME IInv, NEW k \in Caller, holder[k] # None
  PROVE  holder[k] \in Caller /\ ClassFor(holder[k]) = ClassFor(k)
<1> DEFINE h == holder[k]
<1>1. h \in Caller /\ loader[k] \in Caller
  BY DEF IInv, TypeOK, HolderInv, Maker
<1>2. loader[h] = loader[k] /\ name[h] = name[k]
  BY DEF IInv, HolderInv
<1>3. TypeOf(h) \in Type /\ TypeOf(k) \in Type
  BY <1>1 DEF IInv, TypeOK, TypeOf
<1>4. loader[h] # None /\ loader[k] # None
  BY <1>2 DEF IInv, HolderInv
<1>5. /\ EXTENSION_LOADERS[TypeOf(h)] = loader[k]
      /\ EXTENSION_LOADERS[TypeOf(k)] = loader[k]
  BY <1>1, <1>2, <1>4 DEF IInv, LoaderInv
<1>6. TypeOf(loader[k]) = TypeOf(h) /\ TypeOf(loader[k]) = TypeOf(k)
  <2>1. \A t \in Type :
           EXTENSION_LOADERS[t] # None => TypeOf(EXTENSION_LOADERS[t]) = t
    BY DEF IInv, LoaderInv
  <2>2. TypeOf(EXTENSION_LOADERS[TypeOf(h)]) = TypeOf(h)
    BY <2>1, <1>3, <1>4, <1>5
  <2>3. TypeOf(EXTENSION_LOADERS[TypeOf(k)]) = TypeOf(k)
    BY <2>1, <1>3, <1>4, <1>5
  <2> QED
    BY <2>2, <2>3, <1>5
<1> QED
  BY <1>1, <1>2, <1>6 DEF ClassFor

(* holder.set and return, with an instance that is kept.                   *)
LEMMA SetKeeps ==
  ASSUME IInv, NEW k \in Caller, At(k, pc[k], "done"), NEW x \in Extension,
         pc[k] \in {"create", "instantiate"}, SetInstance(k, x),
         UNCHANGED EXTENSION_LOADERS,
         EXTENSION_INSTANCES' \in [Class -> Maker],
         \A c \in Class : EXTENSION_INSTANCES[c] # None =>
             EXTENSION_INSTANCES'[c] = EXTENSION_INSTANCES[c],
         EXTENSION_INSTANCES'[x.class] = x.by, x.class = ClassFor(k)
  PROVE  IInv'
<1> USE LoaderAssumption
    DEF IInv, At, SetInstance, Return, Found, callVars, classVars
<1>1. holder[k] \in Caller /\ name[k] \in Name
  BY DEF TypeOK, PcInv, Holding, Named, Maker
<1>2. TypeOK'
  <2>1. pc' \in [Caller -> Location]
    BY DEF TypeOK, Location
  <2>2. holderLock' \in [Caller -> Maker] /\ classesLock' \in [Caller -> Maker]
    BY LeaveAllType
  <2> QED
    BY <1>1, <2>1, <2>2 DEF TypeOK
<1>3. PcInv'
  BY DEF TypeOK, PcInv, Named, Holding, InClasses, ClassFor, TypeOf
<1>4. LoaderInv' /\ HolderInv'
  BY DEF LoaderInv, HolderInv, TypeOf
<1>5. Kept(x)'
  BY DEF Kept, Extension
<1>6. \A y \in Extension : Kept(y) => Kept(y)'
  BY DEF Kept, Extension
<1>7. ClassFor(holder[k]) = ClassFor(k)
  BY SameExtension DEF PcInv, Holding
<1>8. \A j \in Caller : ClassFor(j)' = ClassFor(j) /\ TypeOf(j)' = TypeOf(j)
  BY DEF ClassFor, TypeOf
<1>9. ValueInv'
  <2>1. value' = [value EXCEPT ![holder[k]] = x] /\ name' = name
    OBVIOUS
  <2>2. name[holder[k]] \in Name
    BY <1>1, SameExtension DEF HolderInv, PcInv, Holding
  <2>3. ASSUME NEW h \in Caller, h # holder[k], value'[h] # None
        PROVE  /\ Kept(value[h])'
               /\ value'[h].class = ClassFor(h) /\ name[h] \in Name
    <3>1. value'[h] = value[h] /\ value[h] \in Extension
      BY <2>1, <2>3 DEF TypeOK
    <3> QED
      BY <1>6, <2>3, <3>1 DEF ValueInv, Kept
  <2>4. value'[holder[k]] = x
    BY <1>1, <2>1 DEF TypeOK
  <2>5. /\ Kept(value[holder[k]])'
        /\ value'[holder[k]].class = ClassFor(holder[k])
    BY <1>5, <1>7, <2>4 DEF Kept
  <2>6. ASSUME NEW h \in Caller, value'[h] # None
        PROVE  (/\ Kept(value[h])
                /\ value[h].class = ClassFor(h) /\ name[h] \in Name)'
    <3>1. ClassFor(h)' = ClassFor(h)
      BY <1>8
    <3>2. CASE h = holder[k]
      BY <2>1, <2>2, <2>5, <3>1, <3>2
    <3>3. CASE h # holder[k]
      BY <2>1, <2>3, <2>6, <3>1, <3>3
    <3> QED
      BY <3>2, <3>3
  <2> QED
    BY <2>6 DEF ValueInv
<1>10. ResultInv'
  <2>1. result' = [result EXCEPT ![k] = [kind |-> "extension", of |-> x]]
    OBVIOUS
  <2>2. ASSUME NEW j \in Caller, j # k, result'[j].kind = "extension"
        PROVE  Kept(result[j].of)' /\ result'[j].of.class = ClassFor(j)
    <3>1. result'[j] = result[j] /\ result[j].of \in Extension
      BY <2>1, <2>2, ResultType DEF TypeOK
    <3> QED
      BY <1>6, <2>2, <3>1 DEF ResultInv, Kept
  <2>3. result'[k] = [kind |-> "extension", of |-> x] /\ result'[k] # Failure
    BY <2>1 DEF TypeOK, Failure
  <2>4. Kept(result[k].of)' /\ result'[k].of.class = ClassFor(k)
    BY <1>5, <2>3 DEF Kept
  <2>5. \A j \in Caller : j # k => result'[j] = result[j]
    BY <2>1 DEF TypeOK
  <2> QED
    BY <1>8, <2>2, <2>3, <2>4, <2>5 DEF ResultInv, Kept
<1> QED
  BY <1>2, <1>3, <1>4, <1>9, <1>10

(* holder.get finds an instance, which is returned.                        *)
LEMMA FoundKeeps ==
  ASSUME IInv, NEW k \in Caller, At(k, pc[k], "done"),
         pc[k] \in {"check", "recheck"}, value[holder[k]] # None,
         Return(k, Found(value[holder[k]])),
         holderLock' \in [Caller -> Maker], classesLock' \in [Caller -> Maker],
         UNCHANGED <<callVars, staticVars, classVars, holderVars>>
  PROVE  IInv'
<1> DEFINE x == value[holder[k]]
<1> USE DEF At, Return, Found, callVars, staticVars, classVars, holderVars
<1>1. holder[k] \in Caller /\ ClassFor(holder[k]) = ClassFor(k)
  BY SameExtension DEF IInv, PcInv, Holding
<1>2. x \in Extension /\ Kept(x) /\ x.class = ClassFor(k)
  BY <1>1 DEF IInv, TypeOK, ValueInv
<1>3. TypeOK'
  <2>1. pc' \in [Caller -> Location]
    BY DEF IInv, TypeOK, Location
  <2> QED
    BY <1>2, <2>1 DEF IInv, TypeOK
<1>4. PcInv'
  BY DEF IInv, TypeOK, PcInv, Named, Holding, InClasses, ClassFor, TypeOf
<1>5. LoaderInv' /\ HolderInv' /\ ValueInv'
  BY DEF IInv, LoaderInv, HolderInv, ValueInv, Kept, ClassFor, TypeOf
<1>6. ResultInv'
  <2>1. result'[k] = [kind |-> "extension", of |-> x] /\ result'[k] # Failure
    BY DEF IInv, TypeOK, Failure
  <2>2. \A j \in Caller : j # k => result'[j] = result[j]
    BY DEF IInv, TypeOK
  <2>3. \A j \in Caller : ClassFor(j)' = ClassFor(j) /\ TypeOf(j)' = TypeOf(j)
    BY DEF ClassFor, TypeOf
  <2>4. \A y : Kept(y)' <=> Kept(y)
    BY DEF Kept
  <2> QED
    BY <1>2, <2>1, <2>2, <2>3, <2>4 DEF IInv, ResultInv, Kept
<1> QED
  BY <1>3, <1>4, <1>5, <1>6 DEF IInv

(* A call that has got a loader, or a Holder, keeps what the others have.  *)
LEMMA LoaderKeeps ==
  ASSUME IInv, NEW k \in Caller, NEW from \in {"getLoader", "putLoader"},
         At(k, from, AfterLoader(k)),
         NEW l \in Caller, loader' = [loader EXCEPT ![k] = l],
         EXTENSION_LOADERS' \in [Type -> Maker],
         EXTENSION_LOADERS'[TypeOf(k)] = l,
         \A t \in Type : EXTENSION_LOADERS[t] # None =>
             EXTENSION_LOADERS'[t] = EXTENSION_LOADERS[t],
         \A t \in Type : EXTENSION_LOADERS'[t] # None =>
             TypeOf(EXTENSION_LOADERS'[t]) = t,
         UNCHANGED <<asked, name, holder, EXTENSION_INSTANCES, classVars,
                     holderVars, lockVars, result>>
  PROVE  IInv'
<1> USE LoaderAssumption
    DEF At, AfterLoader, classVars, holderVars, lockVars
<1>1. TypeOf(k) \in Type /\ name[k] \in Name \cup {Default} /\ loader[k] = None
  BY DEF IInv, TypeOK, TypeOf, PcInv
<1>2. TypeOK'
  <2>1. pc' \in [Caller -> Location]
    BY DEF IInv, TypeOK, Location
  <2> QED
    BY <2>1 DEF IInv, TypeOK, Maker
<1>3. holder[k] = None
  BY <1>1 DEF IInv, HolderInv
<1>4. l # None
  OBVIOUS
<1>5. PcInv'
  BY <1>1, <1>4
     DEF IInv, TypeOK, PcInv, Named, Holding, InClasses, ClassFor, TypeOf
<1>6. LoaderInv'
  <2>1. \A j \in Caller : TypeOf(j)' = TypeOf(j) /\ TypeOf(j) \in Type
    BY DEF IInv, TypeOK, TypeOf
  <2>2. ASSUME NEW j \in Caller, loader'[j] # None
        PROVE  EXTENSION_LOADERS'[TypeOf(j)] = loader'[j]
    <3>1. CASE j = k
      BY <3>1 DEF IInv, TypeOK
    <3>2. CASE j # k
      <4>1. loader'[j] = loader[j]
        BY <3>2 DEF IInv, TypeOK
      <4> QED
        BY <2>1, <2>2, <4>1 DEF IInv, LoaderInv
    <3> QED
      BY <3>1, <3>2
  <2>3. \A t \in Type : TypeOf(EXTENSION_LOADERS[t])' = TypeOf(EXTENSION_LOADERS'[t])
    BY DEF TypeOf
  <2> QED
    BY <2>1, <2>2, <2>3 DEF LoaderInv
<1>7. HolderInv'
  <2>1. \A j \in Caller : loader[j] # None => loader'[j] = loader[j]
    BY <1>1 DEF IInv, TypeOK
  <2>2. \A j \in Caller : holder[j] # None => holder[j] \in Caller
    BY DEF IInv, TypeOK, Maker
  <2>3. \A i \in Caller, n \in Name :
           cachedInstances[i][n] # None => cachedInstances[i][n] \in Caller
    BY DEF IInv, TypeOK, Maker
  <2> QED
    BY <2>1, <2>2, <2>3 DEF IInv, HolderInv
<1>8. ValueInv' /\ ResultInv'
  BY DEF IInv, ValueInv, ResultInv, Kept, ClassFor, TypeOf
<1> QED
  BY <1>2, <1>5, <1>6, <1>7, <1>8 DEF IInv

LEMMA HolderKeeps ==
  ASSUME IInv, NEW k \in Caller, NEW from \in {"getHolder", "putHolder"},
         At(k, from, "check"),
         NEW h \in Caller, holder' = [holder EXCEPT ![k] = h],
         h # k => h = cachedInstances[loader[k]][name[k]],
         cachedInstances' \in [Caller -> [Name -> Maker]],
         \A l \in Caller, n \in Name :
             \/ cachedInstances'[l][n] = cachedInstances[l][n]
             \/ l = loader[k] /\ n = name[k] /\ cachedInstances'[l][n] = k,
         UNCHANGED <<asked, loader, name, staticVars, classVars, value,
                     lockVars, result>>
  PROVE  IInv'
<1> USE LoaderAssumption DEF At, staticVars, classVars, lockVars
<1>1. loader[k] \in Caller /\ name[k] \in Name
  <2>1. pc[k] \in {"getHolder", "putHolder"}
    OBVIOUS
  <2>2. loader[k] # None /\ name[k] \in Name
    BY <2>1 DEF IInv, PcInv, Named
  <2> QED
    BY <2>2 DEF IInv, TypeOK, Maker
<1>2. TypeOK'
  <2>1. pc' \in [Caller -> Location]
    BY DEF IInv, TypeOK, Location
  <2> QED
    BY <2>1 DEF IInv, TypeOK, Maker
<1>3. h # None
  OBVIOUS
<1>4. PcInv'
  BY <1>1, <1>3
     DEF IInv, TypeOK, PcInv, Named, Holding, InClasses, ClassFor, TypeOf
<1>5. LoaderInv' /\ ValueInv' /\ ResultInv'
  BY DEF IInv, LoaderInv, ValueInv, ResultInv, Kept, ClassFor, TypeOf
<1>6. loader[h] = loader[k] /\ name[h] = name[k]
  BY <1>1, <1>3 DEF IInv, HolderInv
<1>7. HolderInv'
  <2>1. ASSUME NEW l \in Caller, NEW n \in Name,
               cachedInstances'[l][n] # None
        PROVE  /\ loader[cachedInstances'[l][n]] = l
               /\ name[cachedInstances'[l][n]] = n
    <3>1. CASE cachedInstances'[l][n] = cachedInstances[l][n]
      BY <2>1, <3>1 DEF IInv, HolderInv
    <3> QED
      BY <3>1
  <2>2. ASSUME NEW j \in Caller, holder'[j] # None
        PROVE  /\ name[j] \in Name /\ loader[j] # None
               /\ loader[holder'[j]] = loader[j] /\ name[holder'[j]] = name[j]
    <3>1. CASE j = k
      <4>1. holder'[k] = h
        BY DEF IInv, TypeOK
      <4> QED
        BY <1>1, <1>6, <3>1, <4>1
    <3>2. CASE j # k
      <4>1. holder'[j] = holder[j]
        BY <3>2 DEF IInv, TypeOK
      <4> QED
        BY <2>2, <4>1 DEF IInv, HolderInv
    <3> QED
      BY <3>1, <3>2
  <2> QED
    BY <2>1, <2>2 DEF HolderInv
<1> QED
  BY <1>2, <1>4, <1>5, <1>7 DEF IInv

LEMMA InvNext == IInv /\ [Next]_vars => IInv'
<1> SUFFICES ASSUME IInv, [Next]_vars PROVE IInv'
  OBVIOUS
<1> USE LoaderAssumption
<1>1. ASSUME NEW k \in Caller, GetLoader(k) PROVE IInv'
  <2> DEFINE l == EXTENSION_LOADERS[TypeOf(k)]
  <2>1. TypeOf(k) \in Type
    BY DEF IInv, TypeOK, TypeOf
  <2>2. CASE l = None
    <3>1. At(k, "getLoader", "putLoader")
      BY <1>1, <2>2 DEF GetLoader
    <3>2. UNCHANGED <<callVars, staticVars, classVars, holderVars, lockVars,
                      result>>
      BY <1>1, <2>2 DEF GetLoader, callVars
    <3>3. pc' \in [Caller -> Location]
      BY <3>1 DEF At, IInv, TypeOK, Location
    <3>4. TypeOK'
      BY <3>2, <3>3
         DEF IInv, TypeOK, callVars, staticVars, classVars, holderVars, lockVars
    <3>5. PcInv'
      BY <3>1, <3>2
         DEF At, callVars, IInv, TypeOK, PcInv, Named, Holding, InClasses,
             ClassFor, TypeOf
    <3> QED
      BY <3>2, <3>4, <3>5, Moves
  <2>3. CASE l # None
    <3>1. l \in Caller
      BY <2>1, <2>3 DEF IInv, TypeOK, Maker
    <3>2. \A t \in Type :
             EXTENSION_LOADERS[t] # None => TypeOf(EXTENSION_LOADERS[t]) = t
      BY DEF IInv, LoaderInv
    <3> QED
      BY <1>1, <2>3, <3>1, <3>2, LoaderKeeps
         DEF GetLoader, staticVars, IInv, TypeOK
  <2> QED
    BY <2>2, <2>3
<1>2. ASSUME NEW k \in Caller, PutLoader(k) PROVE IInv'
  <2> DEFINE l == EXTENSION_LOADERS'[TypeOf(k)]
  <2>1. TypeOf(k) \in Type
    BY DEF IInv, TypeOK, TypeOf
  <2>2. \/ EXTENSION_LOADERS[TypeOf(k)] # None /\ UNCHANGED EXTENSION_LOADERS
        \/ /\ EXTENSION_LOADERS[TypeOf(k)] = None
           /\ EXTENSION_LOADERS' = [EXTENSION_LOADERS EXCEPT ![TypeOf(k)] = k]
    BY <1>2 DEF PutLoader, LoadersWith
  <2>3. EXTENSION_LOADERS' \in [Type -> Maker] /\ l \in Caller
    <3>1. EXTENSION_LOADERS \in [Type -> Maker] /\ k \in Maker
      BY DEF IInv, TypeOK, Maker
    <3>2. EXTENSION_LOADERS' \in [Type -> Maker]
      BY <2>2, <3>1
    <3>3. l \in Maker /\ l # None
      BY <2>1, <2>2, <3>1, <3>2
    <3> QED
      BY <3>2, <3>3 DEF Maker
  <2>4. \A t \in Type : EXTENSION_LOADERS[t] # None =>
           EXTENSION_LOADERS'[t] = EXTENSION_LOADERS[t]
    BY <2>1, <2>2 DEF IInv, TypeOK
  <2>5. ASSUME NEW t \in Type, EXTENSION_LOADERS'[t] # None
        PROVE  TypeOf(EXTENSION_LOADERS'[t]) = t
    <3>1. CASE EXTENSION_LOADERS'[t] = EXTENSION_LOADERS[t]
      BY <2>5, <3>1 DEF IInv, LoaderInv
    <3>2. CASE EXTENSION_LOADERS'[t] # EXTENSION_LOADERS[t]
      <4>1. t = TypeOf(k) /\ EXTENSION_LOADERS'[t] = k
        BY <2>1, <2>2, <3>2 DEF IInv, TypeOK
      <4> QED
        BY <4>1
    <3> QED
      BY <3>1, <3>2
  <2>6. /\ At(k, "putLoader", AfterLoader(k))
        /\ loader' = [loader EXCEPT ![k] = l]
        /\ UNCHANGED <<asked, name, holder, EXTENSION_INSTANCES, classVars,
                       holderVars, lockVars, result>>
    BY <1>2 DEF PutLoader
  <2> QED
    BY <2>3, <2>4, <2>5, <2>6, LoaderKeeps
<1>3. ASSUME NEW k \in Caller, GetHolder(k) PROVE IInv'
  <2> DEFINE h == cachedInstances[loader[k]][name[k]]
  <2>1. loader[k] \in Caller /\ name[k] \in Name
    <3>1. pc[k] = "getHolder"
      BY <1>3 DEF GetHolder
    <3> QED
      BY <3>1 DEF IInv, TypeOK, PcInv, Named, Maker
  <2>2. CASE h = None
    <3>1. At(k, "getHolder", "putHolder")
      BY <1>3, <2>2 DEF GetHolder
    <3>2. UNCHANGED <<callVars, staticVars, classVars, holderVars, lockVars,
                      result>>
      BY <1>3, <2>2 DEF GetHolder, callVars
    <3>3. pc' \in [Caller -> Location]
      BY <3>1 DEF At, IInv, TypeOK, Location
    <3>4. TypeOK'
      BY <3>2, <3>3
         DEF IInv, TypeOK, callVars, staticVars, classVars, holderVars, lockVars
    <3>5. PcInv'
      BY <3>1, <3>2
         DEF At, callVars, IInv, TypeOK, PcInv, Named, Holding, InClasses,
             ClassFor, TypeOf
    <3> QED
      BY <3>2, <3>4, <3>5, Moves
  <2>3. CASE h # None
    <3>1. h \in Caller
      BY <2>1, <2>3 DEF IInv, TypeOK, Maker
    <3>2. /\ At(k, "getHolder", "check")
          /\ holder' = [holder EXCEPT ![k] = h]
          /\ UNCHANGED <<asked, loader, name, staticVars, classVars, holderVars,
                         lockVars, result>>
      BY <1>3, <2>3 DEF GetHolder
    <3>3. UNCHANGED <<cachedInstances, value>>
      BY <3>2 DEF holderVars
    <3>4. cachedInstances' \in [Caller -> [Name -> Maker]]
      BY <3>3 DEF IInv, TypeOK
    <3> QED
      BY <3>1, <3>2, <3>3, <3>4, HolderKeeps
  <2> QED
    BY <2>2, <2>3
<1>4. ASSUME NEW k \in Caller, PutHolder(k) PROVE IInv'
  <2> DEFINE h == cachedInstances'[loader[k]][name[k]]
  <2>1. loader[k] \in Caller /\ name[k] \in Name
    <3>1. pc[k] = "putHolder"
      BY <1>4 DEF PutHolder, At
    <3> QED
      BY <3>1 DEF IInv, TypeOK, PcInv, Named, Maker
  <2>2. \/ /\ cachedInstances[loader[k]][name[k]] = None
           /\ cachedInstances' =
                 [cachedInstances EXCEPT ![loader[k]][name[k]] = k]
        \/ /\ cachedInstances[loader[k]][name[k]] # None
           /\ UNCHANGED cachedInstances
    BY <1>4 DEF PutHolder
  <2>3. cachedInstances' \in [Caller -> [Name -> Maker]]
    <3>1. cachedInstances \in [Caller -> [Name -> Maker]] /\ k \in Maker
      BY DEF IInv, TypeOK, Maker
    <3>2. [cachedInstances[loader[k]] EXCEPT ![name[k]] = k] \in [Name -> Maker]
      BY <2>1, <3>1
    <3>3. CASE UNCHANGED cachedInstances
      BY <3>1, <3>3
    <3>4. CASE cachedInstances' =
                 [cachedInstances EXCEPT ![loader[k]][name[k]] = k]
      BY <3>1, <3>2, <3>4
    <3> QED
      BY <2>2, <3>3, <3>4
  <2>4. \A l \in Caller, n \in Name :
           \/ cachedInstances'[l][n] = cachedInstances[l][n]
           \/ l = loader[k] /\ n = name[k] /\ cachedInstances'[l][n] = k
    BY <2>1, <2>2 DEF IInv, TypeOK
  <2>5. h \in Caller /\ (h # k => h = cachedInstances[loader[k]][name[k]])
    BY <2>1, <2>2, <2>3 DEF IInv, TypeOK, Maker
  <2>6. /\ At(k, "putHolder", "check")
        /\ holder' = [holder EXCEPT ![k] = h]
        /\ UNCHANGED <<asked, loader, name, staticVars, classVars, value,
                       lockVars, result>>
    BY <1>4 DEF PutHolder
  <2>7. PICK g \in Caller : g = h
    BY <2>5
  <2>8. /\ holder' = [holder EXCEPT ![k] = g]
        /\ g # k => g = cachedInstances[loader[k]][name[k]]
    BY <2>5, <2>6, <2>7
  <2> HIDE DEF h
  <2> QED
    BY <2>3, <2>4, <2>6, <2>8, HolderKeeps
<1>5. ASSUME NEW k \in Caller, Check(k) \/ Recheck(k), value[holder[k]] # None
      PROVE  IInv'
  <2>1. pc[k] \in {"check", "recheck"} /\ At(k, pc[k], "done")
    BY <1>5 DEF Check, Recheck, At
  <2>2. Return(k, Found(value[holder[k]]))
    BY <1>5 DEF Check, Recheck
  <2>3. UNCHANGED <<callVars, staticVars, classVars, holderVars>>
    BY <1>5 DEF Check, Recheck
  <2>4. holderLock' \in [Caller -> Maker] /\ classesLock' \in [Caller -> Maker]
    BY <1>5, LeaveAllType DEF Check, Recheck, lockVars, IInv, TypeOK
  <2> QED
    BY <1>5, <2>1, <2>2, <2>3, <2>4, FoundKeeps
<1>6. ASSUME NEW k \in Caller, Check(k) \/ Recheck(k), value[holder[k]] = None
      PROVE  IInv'
  <2>1. At(k, "check", "enter") \/ At(k, "recheck", "classes")
    BY <1>6 DEF Check, Recheck
  <2>2. UNCHANGED <<callVars, staticVars, classVars, holderVars, lockVars, result>>
    BY <1>6 DEF Check, Recheck
  <2>3. pc' \in [Caller -> Location]
    BY <2>1 DEF At, IInv, TypeOK, Location
  <2>4. TypeOK'
    BY <2>2, <2>3
       DEF IInv, TypeOK, callVars, staticVars, classVars, holderVars, lockVars
  <2>5. PcInv'
    BY <2>1, <2>2
       DEF At, callVars, IInv, TypeOK, PcInv, Named, Holding, InClasses,
           ClassFor, TypeOf
  <2> QED
    BY <2>2, <2>4, <2>5, Moves
<1>7. ASSUME NEW k \in Caller,
             EnterHolder(k) \/ GetClasses(k) \/ EnterClasses(k)
      PROVE  IInv'
  <2>1. \/ At(k, "enter", "recheck")
        \/ At(k, "classes", AfterClasses(k))
        \/ At(k, "classes", "enterClasses")
        \/ At(k, "enterClasses", "load")
    BY <1>7 DEF EnterHolder, GetClasses, EnterClasses
  <2>2. UNCHANGED <<callVars, staticVars, classVars, holderVars, result>>
    BY <1>7 DEF EnterHolder, GetClasses, EnterClasses
  <2>3. pc' \in [Caller -> Location]
    <3>1. pc \in [Caller -> Location] /\ AfterClasses(k) \in Location
      BY DEF IInv, TypeOK, AfterClasses, Location
    <3>2. {"recheck", "enterClasses", "load"} \subseteq Location
      BY DEF Location
    <3> QED
      BY <2>1, <3>1, <3>2 DEF At
  <2>4. holderLock' \in [Caller -> Maker] /\ classesLock' \in [Caller -> Maker]
    <3>1. /\ holderLock \in [Caller -> Maker]
          /\ classesLock \in [Caller -> Maker] /\ k \in Maker
      BY DEF IInv, TypeOK, Maker
    <3>2. /\ \/ UNCHANGED holderLock
             \/ holderLock' = [holderLock EXCEPT ![holder[k]] = k]
          /\ \/ UNCHANGED classesLock
             \/ classesLock' = [classesLock EXCEPT ![loader[k]] = k]
      BY <1>7 DEF EnterHolder, GetClasses, EnterClasses, lockVars
    <3>3. holderLock' \in [Caller -> Maker]
      BY <3>1, <3>2
    <3>4. classesLock' \in [Caller -> Maker]
      BY <3>1, <3>2
    <3> QED
      BY <3>3, <3>4
  <2>5. TypeOK'
    BY <2>2, <2>3, <2>4
       DEF IInv, TypeOK, callVars, staticVars, classVars, holderVars
  <2>6. PcInv'
    BY <2>1, <2>2
       DEF At, AfterClasses, callVars, IInv, TypeOK, PcInv, Named, Holding,
           InClasses, ClassFor, TypeOf
  <2> QED
    BY <2>2, <2>5, <2>6, Moves
<1>8. ASSUME NEW k \in Caller, Load(k) PROVE IInv'
  <2>1. pc[k] = "load" /\ At(k, "load", AfterClasses(k))
    BY <1>8 DEF Load, At
  <2>2. UNCHANGED <<callVars, staticVars, holderVars, result>>
    BY <1>8 DEF Load
  <2>3. loader[k] \in Caller /\ TypeOf(k) \in Type
    BY <2>1 DEF IInv, TypeOK, PcInv, Maker, TypeOf
  <2>4. Defaults[TypeOf(k)] # <<>> => Defaults[TypeOf(k)][1] \in Name
    <3>1. Defaults[TypeOf(k)] \in Seq(Name)
      BY <2>3
    <3> QED
      BY <3>1, ElementOfSeq
  <2>5. /\ cachedClasses' \subseteq Caller
        /\ cachedDefaultName' \in [Caller -> Name \cup {None}]
        /\ holderLock' \in [Caller -> Maker]
        /\ classesLock' \in [Caller -> Maker]
    BY <1>8, <2>3, <2>4 DEF Load, IInv, TypeOK, Maker
  <2>6. pc' \in [Caller -> Location]
    BY <2>1 DEF At, AfterClasses, IInv, TypeOK, Location
  <2>7. TypeOK'
    BY <2>2, <2>5, <2>6 DEF IInv, TypeOK, callVars, staticVars, holderVars
  <2>8. PcInv'
    BY <2>1, <2>2
       DEF At, AfterClasses, callVars, IInv, TypeOK, PcInv, Named, Holding,
           InClasses, ClassFor, TypeOf
  <2> QED
    BY <2>2, <2>7, <2>8, Moves
<1>9. ASSUME NEW k \in Caller,
             TooManyDefaults(k) \/ NoSuchExtension(k) \/ NewInstanceThrows(k)
      PROVE  IInv'
  BY <1>9, ThrowKeeps DEF TooManyDefaults, NoSuchExtension, NewInstanceThrows
<1>10. ASSUME NEW k \in Caller, ByDefault(k) PROVE IInv'
  <2> DEFINE n == cachedDefaultName[loader[k]]
  <2>1. /\ pc[k] = "byDefault"
        /\ UNCHANGED <<asked, loader, holder, staticVars, classVars,
                       holderVars, lockVars>>
    BY <1>10 DEF ByDefault
  <2>2. loader[k] \in Caller /\ name[k] = Default /\ result[k] = Pending
    BY <2>1 DEF IInv, TypeOK, PcInv, Maker
  <2>3. \/ /\ pc' = [pc EXCEPT ![k] = "done"] /\ UNCHANGED name
           /\ result' = [result EXCEPT ![k] = Null]
        \/ /\ pc' = [pc EXCEPT ![k] = "getHolder"] /\ UNCHANGED result
           /\ n \in Name /\ name' = [name EXCEPT ![k] = n]
    BY <1>10, <2>2 DEF ByDefault, At, Return, IInv, TypeOK
  <2>4. pc' \in [Caller -> Location]
    BY <2>3 DEF IInv, TypeOK, Location
  <2>5. TypeOK'
    BY <2>1, <2>3, <2>4
       DEF IInv, TypeOK, staticVars, classVars, holderVars, lockVars
  <2>6. PcInv'
    <3>1. \A j \in Caller : j # k =>
             pc'[j] = pc[j] /\ name'[j] = name[j] /\ result'[j] = result[j]
      BY <2>3 DEF IInv, TypeOK
    <3>2. \/ pc'[k] = "done"
          \/ pc'[k] = "getHolder" /\ name'[k] \in Name
      BY <2>3 DEF IInv, TypeOK
    <3>3. pc'[k] # "done" => result'[k] = Pending
      BY <2>2, <2>3 DEF IInv, TypeOK
    <3>4. loader' = loader /\ holder' = holder /\ asked' = asked
      BY <2>1
    <3> QED
      BY <2>2, <3>1, <3>2, <3>3, <3>4
         DEF IInv, PcInv, Named, Holding, InClasses, ClassFor, TypeOf
  <2>7. LoaderInv'
    BY <2>1 DEF staticVars, IInv, LoaderInv, TypeOf
  <2>8. \A j \in Caller : name[j] \in Name => name'[j] = name[j]
    BY <2>2, <2>3 DEF IInv, TypeOK
  <2>9. HolderInv'
    <3>1. \A j \in Caller : holder[j] # None => holder[j] \in Caller
      BY DEF IInv, TypeOK, Maker
    <3>2. \A i \in Caller, m \in Name :
             cachedInstances[i][m] # None => cachedInstances[i][m] \in Caller
      BY DEF IInv, TypeOK, Maker
    <3>3. UNCHANGED <<cachedInstances, loader, holder>>
      BY <2>1 DEF holderVars
    <3> QED
      BY <2>8, <3>1, <3>2, <3>3 DEF IInv, HolderInv
  <2>10. ValueInv'
    BY <2>1, <2>8
       DEF staticVars, holderVars, IInv, ValueInv, Kept, ClassFor, TypeOf
  <2>11. ASSUME NEW j \in Caller
         PROVE  (/\ result[j].kind = "extension" =>
                       Kept(result[j].of) /\ result[j].of.class = ClassFor(j)
                 /\ result[j] = Failure =>
                       \/ Len(Defaults[TypeOf(j)]) > 1
                       \/ ClassFor(j) \in Fragile \cup {None})'
    <3>1. CASE j = k
      <4>1. result'[k] \in {Pending, Null}
        BY <2>2, <2>3 DEF IInv, TypeOK
      <4> QED
        BY <3>1, <4>1 DEF Pending, Null, Failure
    <3>2. CASE j # k
      <4>1. result'[j] = result[j] /\ name'[j] = name[j]
        BY <2>3, <3>2 DEF IInv, TypeOK
      <4> QED
        BY <2>1, <4>1 DEF staticVars, IInv, ResultInv, Kept, ClassFor, TypeOf
    <3> QED
      BY <3>1, <3>2
  <2> QED
    BY <2>5, <2>6, <2>7, <2>9, <2>10, <2>11 DEF IInv, ResultInv
<1>11. ASSUME NEW k \in Caller, GetInstance(k) PROVE IInv'
  <2> DEFINE by == EXTENSION_INSTANCES[ClassFor(k)]
             x == [class |-> ClassFor(k), by |-> by]
  <2>1. pc[k] = "create" /\ ClassFor(k) # None /\ UNCHANGED staticVars
    BY <1>11 DEF GetInstance
  <2>2. ClassFor(k) \in Class
    BY <2>1, ClassOfType DEF IInv, TypeOK, PcInv, Named, ClassFor, TypeOf
  <2>3. CASE by = None
    <3>1. /\ At(k, "create", "instantiate")
          /\ UNCHANGED <<callVars, classVars, holderVars, lockVars, result>>
      BY <1>11, <2>3 DEF GetInstance
    <3>2. pc' \in [Caller -> Location]
      BY <3>1 DEF At, IInv, TypeOK, Location
    <3>3. TypeOK'
      BY <2>1, <3>1, <3>2
         DEF IInv, TypeOK, callVars, staticVars, classVars, holderVars, lockVars
    <3>4. PcInv'
      BY <2>1, <3>1
         DEF At, callVars, IInv, TypeOK, PcInv, Named, Holding, InClasses,
             ClassFor, TypeOf
    <3> QED
      BY <2>1, <3>1, <3>3, <3>4, Moves
  <2>4. CASE by # None
    <3>1. x \in Extension
      BY <2>2, <2>4 DEF IInv, TypeOK, Maker, Extension
    <3>2. At(k, "create", "done") /\ SetInstance(k, x)
      BY <1>11, <2>4 DEF GetInstance
    <3>3. UNCHANGED <<EXTENSION_LOADERS, EXTENSION_INSTANCES>>
      BY <2>1 DEF staticVars
    <3>4. EXTENSION_INSTANCES' \in [Class -> Maker]
      BY <3>3 DEF IInv, TypeOK
    <3>5. EXTENSION_INSTANCES'[x.class] = x.by /\ x.class = ClassFor(k)
      BY <3>3
    <3> HIDE DEF x
    <3> QED
      BY <2>1, <3>1, <3>2, <3>3, <3>4, <3>5, SetKeeps
  <2> QED
    BY <2>3, <2>4
<1>12. ASSUME NEW k \in Caller, PutInstance(k) PROVE IInv'
  <2> DEFINE x == [class |-> ClassFor(k), by |-> InstanceBy(k)]
  <2>1. pc[k] = "instantiate"
    BY <1>12 DEF PutInstance, At
  <2>2. ClassFor(k) \in Class
    BY <2>1, ClassOfType DEF IInv, TypeOK, PcInv, Named, ClassFor, TypeOf
  <2>3. InstanceBy(k) \in Caller
    BY <2>2 DEF InstanceBy, IInv, TypeOK, Maker
  <2>4. /\ At(k, "instantiate", "done") /\ SetInstance(k, x)
        /\ EXTENSION_INSTANCES' =
              [EXTENSION_INSTANCES EXCEPT ![ClassFor(k)] = InstanceBy(k)]
        /\ UNCHANGED EXTENSION_LOADERS
    BY <1>12 DEF PutInstance
  <2>5. EXTENSION_INSTANCES' \in [Class -> Maker]
    BY <2>3, <2>4 DEF IInv, TypeOK, Maker
  <2>6. \A c \in Class : EXTENSION_INSTANCES[c] # None =>
           EXTENSION_INSTANCES'[c] = EXTENSION_INSTANCES[c]
    BY <2>2, <2>4 DEF InstanceBy, IInv, TypeOK
  <2>7. EXTENSION_INSTANCES'[x.class] = x.by /\ x.class = ClassFor(k)
    BY <2>2, <2>4 DEF IInv, TypeOK
  <2>8. x \in Extension
    BY <2>2, <2>3 DEF Extension
  <2> HIDE DEF x
  <2> QED
    BY <2>1, <2>4, <2>5, <2>6, <2>7, <2>8, SetKeeps
<1>13. ASSUME UNCHANGED vars PROVE IInv'
  <2>1. UNCHANGED <<pc, callVars, staticVars, classVars, holderVars, lockVars,
                    result>>
    BY <1>13 DEF vars
  <2>2. TypeOK'
    BY <2>1
       DEF IInv, TypeOK, callVars, staticVars, classVars, holderVars, lockVars
  <2>3. PcInv'
    BY <2>1 DEF callVars, IInv, PcInv, ClassFor, TypeOf
  <2> QED
    BY <2>1, <2>2, <2>3, Moves
<1> QED
  BY <1>1, <1>2, <1>3, <1>4, <1>5, <1>6, <1>7, <1>8, <1>9, <1>10, <1>11,
     <1>12, <1>13
     DEF Next, CallStep, Returned

LEMMA Invariant == Spec => []IInv
  BY InvInit, InvNext, PTL DEF Spec

-----------------------------------------------------------------------------
(* Every variable of the loaders keeps its type.                           *)
THEOREM LoaderTypeCorrect == Spec => []TypeOK
<1>1. IInv => TypeOK
  BY DEF IInv
<1> QED
  BY <1>1, Invariant, PTL

(* The callers of a type work with one loader, however many they make.     *)
THEOREM LoaderIsUnique == Spec => []OneLoaderPerType
<1>1. IInv => OneLoaderPerType
  BY DEF IInv, LoaderInv, OneLoaderPerType
<1> QED
  BY <1>1, Invariant, PTL

(* The callers of a class get one instance of it, however many are made.   *)
THEOREM InstanceIsUnique == Spec => []OneInstancePerClass
<1>1. ASSUME IInv, NEW j \in Caller, NEW k \in Caller,
             result[j].kind = "extension", result[k].kind = "extension",
             result[j].of.class = result[k].of.class
      PROVE  result[j] = result[k]
  <2>1. Kept(result[j].of) /\ Kept(result[k].of)
    BY <1>1 DEF IInv, ResultInv
  <2>2. result[j].of.by = result[k].of.by
    BY <1>1, <2>1 DEF Kept
  <2>3. /\ result[j] \in [kind : {"extension"}, of : Extension]
        /\ result[k] \in [kind : {"extension"}, of : Extension]
    BY <1>1 DEF IInv, TypeOK, Pending, Null, Failure
  <2> QED
    BY <1>1, <2>2, <2>3 DEF Extension
<1>2. IInv => OneInstancePerClass
  BY <1>1 DEF OneInstancePerClass
<1> QED
  BY <1>2, Invariant, PTL

(* A call returns an instance of the class its files name, and fails for a *)
(* reason of its own only.                                                 *)
THEOREM ResultsFit == Spec => []ResultFits
<1>1. IInv => ResultFits
  BY DEF IInv, ResultInv, ResultFits
<1> QED
  BY <1>1, Invariant, PTL
=============================================================================
