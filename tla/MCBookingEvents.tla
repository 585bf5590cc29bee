-------------------------- MODULE MCBookingEvents ---------------------------
(* Instances of BookingEvents for TLC.                                       *)
EXTENDS BookingEvents, TLC

(* Orders are interchangeable. *)
Symmetry == Permutations(Orders)
=============================================================================
