-------------------------- MODULE MCBookingDelivery --------------------------
(* Instances of BookingDelivery for TLC. *)
EXTENDS BookingDelivery, TLC

CONSTANTS w1, w2, s1, s2

\* The workers are interchangeable; the first state of the appointment is not.
Symmetry == Permutations(Workers)
=============================================================================
