\* Creates and edits of one departure take their locks in opposite orders,
\* while bookings are cancelled.
SPECIFICATION FairSpec
CONSTANTS
  Requests = {r1, r2, r3}
  Bookings = {b1, b2}
  Trips = {t1}
  Buses = {k1}
  Dates = {d1}
  MaxQuantity = 2
  MaxSeats = 2
  MaxBlocks = 1
  Prices = {1}
  Methods = {"cash_on_pickup"}
  Pickups = {FALSE}
  Reasons = {FALSE}
  TxIds = {}
  PatchStatuses = {}
  Ops = {"create", "edit", "cancel"}
  None = None
INVARIANTS NoHiddenDeadlock
PROPERTIES EveryRequestEnds
