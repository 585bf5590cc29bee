----------------------------- MODULE MCPurchase -----------------------------
(* Instances of Purchase for TLC.                                            *)
EXTENDS Purchase, TLC

OneTier == [t \in Tickets |-> "vip"]

(* Users and handlers are interchangeable; no operator chooses among them.   *)
Symmetry == Permutations(Users) \cup Permutations(Requests)
=============================================================================
