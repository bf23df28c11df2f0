---------------------------- MODULE MCRpcSystem ----------------------------
EXTENDS RpcSystem, TLC

Method(n, g) == [class |-> "TestImpl", name |-> n, sig |-> g]
OneService == [s \in {"s1"} |-> "TestImpl"]
OneClass == {<<"TestImpl", "TestImpl">>}
TwoMethods == {Method("say", "String"), Method("clear", "none")}
NullMethods == {Method("clear", "none")}

(* One thread calls a method with a result, the others one without.        *)
Talker == CHOOSE t \in Thread : TRUE
Calls == [t \in Thread |->
    IF t = Talker THEN [service |-> "s1", name |-> "say", sig |-> "String"]
    ELSE [service |-> "s1", name |-> "clear", sig |-> "none"]]

(* The caller of the method without result uses a JDK proxy.               *)
Proxies == [t \in Thread |-> IF t = Talker THEN "cglib" ELSE "jdk"]

SameSignature == {<<m.sig, m.sig>> : m \in TwoMethods}
=============================================================================
