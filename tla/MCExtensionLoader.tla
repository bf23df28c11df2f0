------------------------- MODULE MCExtensionLoader -------------------------
EXTENDS ExtensionLoader, TLC

Line(n, c) == [name |-> n, class |-> c]

(* Classes under two names and of two types, a name that stands for two    *)
(* classes, a line that is overridden and one whose class cannot be        *)
(* loaded.                                                                 *)
TheLines ==
    ("Codec" :> <<Line("fast", "Slow"), Line("gone", "Missing"),
                  Line("fast", "Fast"), Line("quick", "Slow")>>)
    @@ ("Cache" :> <<Line("quick", "Fast"), Line("slow", "Slow")>>)
    @@ ("Unclear" :> <<>>)

TheSubtypes == [t \in Type |-> IF t = "Unclear" THEN {} ELSE {"Fast", "Slow"}]

TheDefaults ==
    ("Codec" :> <<"fast">>) @@ ("Cache" :> <<>>)
    @@ ("Unclear" :> <<"quick", "slow">>)

Asking(t, n) == [type |-> t, name |-> n]

CONSTANTS k1, k2, k3

(* By name and by default, under two names and two types, and in vain.     *)
TheCalls ==
    (k1 :> {Asking("Codec", "fast"), Asking("Cache", "quick"),
            Asking("Cache", "slow"), Asking("Unclear", Default)})
    @@ (k2 :> {Asking("Codec", "quick"), Asking("Codec", Default),
               Asking("Cache", "slow"), Asking("Unclear", Default)})
    @@ (k3 :> {Asking("Codec", "gone"), Asking("Codec", Default),
               Asking("Cache", Default)})
=============================================================================
