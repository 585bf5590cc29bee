--------------------------- MODULE MCRateLimiter ----------------------------
(* Instances of RateLimiter for TLC.                                         *)
EXTENDS RateLimiter, TLC

(* Clients connect to the service themselves, as the tests do: the address   *)
(* tells them apart.                                                         *)
OwnAddress == [c \in Clients |-> c]

(* All clients come through nginx, which forwards no client address: the     *)
(* service sees the gateway's.                                               *)
Gateway == "nginx"
GatewayKeys == {Gateway}
GatewayAddress == [c \in Clients |-> Gateway]

Symmetry == Permutations(Clients) \cup Permutations(Calls)
CallSymmetry == Permutations(Calls)
=============================================================================
