----------------------------- MODULE MCCatalog ------------------------------
(* Instances of Catalog for TLC.                                             *)
EXTENDS Catalog, TLC

(* Handlers are interchangeable. *)
Symmetry == Permutations(Requests)
=============================================================================
