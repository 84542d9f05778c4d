\* A date is blocked after a create has begun and before it locks the trip.
SPECIFICATION Spec
CONSTANTS
  Requests = {r1, r2}
  Bookings = {b1, b2}
  Trips = {t1}
  Buses = {k1}
  Dates = {d1}
  MaxQuantity = 2
  MaxSeats = 2
  MaxBlocks = 1
  Prices = {1}
  Methods = {"cash_on_pickup"}
  Pickups = {FALSE}
  Reasons = {FALSE}
  TxIds = {}
  PatchStatuses = {}
  Ops = {"create", "block"}
  None = None
SYMMETRY Interchangeable
PROPERTIES NoSaleWhenBlocked
