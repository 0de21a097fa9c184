--------------------------- MODULE MCTripBooking ----------------------------
(* Instances of TripBooking for TLC. *)
EXTENDS TripBooking, TLC

AllEndpoints == BookingOps \cup TripOps

\* Actors and rows of one kind are interchangeable: no operator chooses among them.
Symmetry == Permutations(Bookings) \cup Permutations(Passengers)
               \cup Permutations(Handlers) \cup Permutations(Sweeps)
=============================================================================
