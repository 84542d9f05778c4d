----------------------------- MODULE MCBookings -----------------------------
(* Bookings for TLC: requests, bookings and transactions are               *)
(* interchangeable.                                                        *)
EXTENDS Bookings, TLC

Interchangeable ==
  Permutations(Requests) \cup Permutations(Bookings) \cup Permutations(TxIds)

=============================================================================
