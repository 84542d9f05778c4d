\* A confirmation reads the booking before it locks it.
SPECIFICATION Spec
CONSTANTS
  Requests = {r1, r2}
  Bookings = {b1, b2}
  Trips = {t1}
  Buses = {k1}
  Dates = {d1}
  MaxQuantity = 2
  MaxSeats = 2
  MaxBlocks = 1
  Prices = {1}
  Methods = {"cash_on_pickup"}
  Pickups = {FALSE}
  Reasons = {FALSE}
  TxIds = {}
  PatchStatuses = {}
  Ops = {"create", "confirm", "cancel"}
  None = None
SYMMETRY Interchangeable
PROPERTIES OnlyPendingConfirmed
\* Once the bound on bookings is used up and all of them are final, no request
\* has anything left to do.
CHECK_DEADLOCK FALSE
