\* Two trips run on two dates, on one bus or on two, and are
\* switched off, moved to the other bus and blocked.
SPECIFICATION Spec
CONSTANTS
  Requests = {r1, r2}
  Bookings = {b1, b2}
  Trips = {t1, t2}
  Buses = {k1, k2}
  Dates = {d1, d2}
  MaxQuantity = 1
  MaxSeats = 1
  MaxBlocks = 1
  Prices = {1}
  Methods = {"cash_on_pickup"}
  Pickups = {FALSE}
  Reasons = {FALSE}
  TxIds = {}
  PatchStatuses = {}
  Ops = {"create", "edit", "active", "bus", "block"}
  None = None
SYMMETRY Interchangeable
INVARIANTS IndInv NeverOversold
