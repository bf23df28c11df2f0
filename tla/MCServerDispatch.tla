-------------------------- MODULE MCServerDispatch --------------------------
EXTENDS ServerDispatch, TLC

Call(i, s, n, g) == [call |-> i, service |-> s, name |-> n, sig |-> g]
Method(c, n, g) == [class |-> c, name |-> n, sig |-> g]

(* The services of ServerBuilderTest: sum(int, int) in both classes, and   *)
(* sum(Integer, Integer) in TestImpl2 only.                                *)
TestServices == [s \in {"s1", "s2"} |->
    IF s = "s1" THEN "TestImpl" ELSE "TestImpl2"]
TestMethods == {Method("TestImpl", "sum", "int"),
                Method("TestImpl2", "sum", "int"),
                Method("TestImpl2", "sum", "Integer")}

(* Reflection unboxes: an Integer parameter fits an int and conversely.    *)
Unboxing == {<<"int", "int">>, <<"Integer", "Integer">>,
             <<"String", "String">>, <<"int", "Integer">>, <<"Integer", "int">>}

(* The overloads of TestImpl2.                                             *)
OverloadedRequests ==
    {Call(1, "s2", "sum", "int"), Call(2, "s2", "sum", "Integer")}

(* No class extends another.                                               *)
Unrelated == {<<c, c>> : c \in {"TestImpl", "TestImpl2"}}

(* No class has two methods of one name; the classes share theirs, and one *)
(* extends another and overrides its method.                               *)
SharingServices == TestServices @@ ("s3" :> "Extended")
SharingMethods == {Method(c, "sum", "int") :
                       c \in {"TestImpl", "TestImpl2", "Extended"}}
                  \cup {Method("TestImpl", "sub", "Integer")}
Hierarchy == Unrelated \cup {<<"Extended", "Extended">>,
                             <<"Extended", "TestImpl">>}

(* With an unknown service and an unknown method.                          *)
AllRequests ==
    {Call(1, "s1", "sum", "int"), Call(2, "s2", "sum", "int"),
     Call(3, "s1", "sub", "Integer"), Call(4, "s3", "sum", "int"),
     Call(5, "s4", "sum", "int"), Call(6, "s1", "sum", "String")}
=============================================================================
