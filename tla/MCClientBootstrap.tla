------------------------- MODULE MCClientBootstrap -------------------------
EXTENDS ClientBootstrap, TLC

CONSTANTS v4, v6

(* The colons of an IPv6 address get in the way of the port's: the port of *)
(* v6 is no number.                                                        *)
Split == (v4 :> {v4}) @@ (v6 :> {Unparsable})

First == CHOOSE c \in Client : TRUE
Strategies == [c \in Client |-> IF c = First THEN "random" ELSE "in order"]
=============================================================================
