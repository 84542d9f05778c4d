\* A room type and a tour; products are edited and deleted while requests are
\* on their way.
SPECIFICATION Spec
CONSTANTS
  Requests = {r1, r2}
  Bookings = {b1, b2}
  Rooms = {1}
  Tours = {2}
  Hotels = {h1}
  HotelOf <- OneHotel
  MaxNights = 2
  MaxCount = 2
  MaxStock = 2
  Ops = {"create", "confirm", "cancel", "product", "delete"}
  None = None
SYMMETRY Interchangeable
INVARIANTS TypeOK FitsEveryNight CountsItsNights IndInv
PROPERTIES GrowthWithinStock LedgerSpec
