\* Two requests at a time compete for the seats of one departure, while a status
\* patch revives bookings and the trip's bus and its size change under them.
SPECIFICATION Spec
CONSTANTS
  Requests = {r1, r2}
  Bookings = {b1, b2}
  Trips = {t1}
  Buses = {k1, k2}
  Dates = {d1}
  MaxQuantity = 2
  MaxSeats = 2
  MaxBlocks = 1
  Prices = {1}
  Methods = {"cash_on_pickup"}
  Pickups = {FALSE}
  Reasons = {FALSE}
  TxIds = {}
  PatchStatuses = {"pending", "cancelled"}
  Ops = {"create", "edit", "confirm", "cancel", "patch", "seats", "bus"}
  None = None
SYMMETRY Interchangeable
INVARIANTS TypeOK SeatsHeld
PROPERTIES GrowthWithinCapacity NoSaleOversells LedgerSpec
