\* Two rooms that are next to each other in the index, of which none may have
\* a booking yet.
SPECIFICATION FairSpec
CONSTANTS
  Requests = {r1, r2}
  Bookings = {b1, b2}
  Rooms = {1, 2}
  Tours = {3}
  Hotels = {h1}
  HotelOf <- OneHotel
  MaxNights = 1
  MaxCount = 1
  MaxStock = 1
  Ops = {"create", "confirm", "complete", "cancel", "hotel", "delete"}
  None = None
PROPERTIES EveryRequestEnds
