\* The action endpoints, the edit and the status patch race with each other and
\* with the payment, stale copies included; the price of the trip changes.
SPECIFICATION Spec
CONSTANTS
  Requests = {r1, r2}
  Bookings = {b1}
  Trips = {t1}
  Buses = {k1}
  Dates = {d1}
  MaxQuantity = 2
  MaxSeats = 2
  MaxBlocks = 1
  Prices = {1, 2}
  Methods = {"cash_on_pickup", "online_banking"}
  Pickups = {TRUE, FALSE}
  Reasons = {TRUE, FALSE}
  TxIds = {x1, x2}
  PatchStatuses = {"confirmed", "completed", "cancelled"}
  Ops = {"create", "edit", "confirm", "complete", "cancel", "patch", "pay", "price"}
  None = None
SYMMETRY Interchangeable
INVARIANTS TotalAsQuoted
PROPERTIES PaymentKept RefundFlagged HotelAddressKept ConfirmedHasTime
