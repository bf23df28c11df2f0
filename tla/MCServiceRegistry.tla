------------------------- MODULE MCServiceRegistry -------------------------
EXTENDS ServiceRegistry, TLC

(* Every server offers every service.                                      *)
AllOffers == [s \in Server |-> Service]

Symmetry == Permutations(Server) \cup Permutations(Admin)
=============================================================================
