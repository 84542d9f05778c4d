------------------------- MODULE MCServiceBookings -------------------------
(* ServiceBookings for TLC: all rooms belong to one hotel; requests and    *)
(* bookings are interchangeable.                                           *)
EXTENDS ServiceBookings, TLC

OneHotel == [p \in Rooms |-> CHOOSE h \in Hotels : TRUE]

Interchangeable == Permutations(Requests) \cup Permutations(Bookings)

=============================================================================
