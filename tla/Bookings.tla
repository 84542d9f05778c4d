------------------------------ MODULE Bookings ------------------------------
(***************************************************************************)
(* The bus-ticket booking engine: the requests that create, edit, confirm, *)
(* complete, cancel, patch and pay a booking, and the catalogue edits that *)
(* change what those requests read (seats, bus, activity, price, blocks).  *)
(*                                                                         *)
(* Every HTTP request runs in one database transaction.  MySQL runs it at  *)
(* REPEATABLE READ: a plain SELECT sees the snapshot taken when the        *)
(* request began, SELECT ... FOR UPDATE sees the latest committed row and  *)
(* keeps it locked until the transaction ends.  A request is therefore a   *)
(* sequence of steps, one per lock it waits for, and what it writes shows  *)
(* to others in one step, when it commits.  A request that holds at most   *)
(* one row lock, taken last, is one step.                                  *)
(***************************************************************************)
EXTENDS Integers, FiniteSets

CONSTANTS
  Requests,       \* requests the workers may have in flight
  Bookings,       \* identifiers the bookings table may assign
  Trips,          \* trips (a route served at a time of day)
  Buses,          \* buses
  Dates,          \* travel dates
  MaxQuantity,    \* bound: seats one booking may ask for
  MaxSeats,       \* bound: seats a bus may have
  MaxBlocks,      \* bound: blocks that stand at a time
  Prices,         \* unit prices the admin may set
  Methods,        \* payment methods a customer may choose
  Pickups,        \* subset of BOOLEAN: whether the pickup is at a hotel
  Reasons,        \* subset of BOOLEAN: whether a cancel carries a reason
  TxIds,          \* transaction identifiers of the payment provider
  PatchStatuses,  \* statuses the admin may patch in
  Ops,            \* endpoints in use, and columns the admin changes
  None            \* no row, no owner, no request, no transaction

Counted  == {"pending", "confirmed", "completed"}
Statuses == Counted \cup {"cancelled"}
NoteTags == {"HOTEL_PICKUP", "ADMIN_CANCEL_REASON", "SEPAY_REFUND_REQUIRED"}
Stages   == {"idle", "begun", "rowLocked", "tripLocked", "counted"}
AllOps   == {"create", "edit", "confirm", "complete", "cancel", "patch", "pay",
             "seats", "bus", "active", "price", "block"}

\* A row of bookings.  notes keeps the tagged lines only; tx is the payment
\* transaction, recorded when paid; confirmedAt says that the time is set.
Row == [trip : Trips, date : Dates, quantity : 1..MaxQuantity, unit : Nat,
        total : Nat, method : Methods, hotel : BOOLEAN, status : Statuses,
        confirmedAt : BOOLEAN, paid : BOOLEAN, tx : TxIds \cup {None},
        notes : SUBSET NoteTags]

\* A row of trip_blocks, and the prices of a trip on its dates.
Block  == [trip : Trips, dates : SUBSET Dates, closes : BOOLEAN]
Tariff == [Dates -> Nat]

\* What a request remembers between its steps: its arguments and whatever
\* its snapshot or its identity map keeps of the database.
CreateReq == [op : {"create"}, booking : Bookings, trip : Trips, date : Dates,
              quantity : 1..MaxQuantity, unit : Nat, method : Methods,
              hotel : BOOLEAN, blocked : BOOLEAN]
EditReq   == [op : {"edit"}, booking : Bookings, quantity : 1..MaxQuantity,
              hotel : BOOLEAN, active : BOOLEAN, blocked : BOOLEAN]
ActionReq == [op : {"confirm", "complete"}, booking : Bookings]
CancelReq == [op : {"cancel"}, booking : Bookings, reason : BOOLEAN,
              notes : SUBSET NoteTags, refund : BOOLEAN]
Request   == CreateReq \cup EditReq \cup ActionReq \cup CancelReq

ASSUME BoundsAssumption ==
  /\ MaxQuantity \in Nat
  /\ MaxSeats \in Nat
  /\ MaxBlocks \in Nat
  /\ Prices \subseteq Nat
  /\ Methods \subseteq {"cash_on_pickup", "online_banking"}
  /\ Pickups \subseteq BOOLEAN
  /\ Reasons \subseteq BOOLEAN
  /\ PatchStatuses \subseteq Statuses
  /\ Ops \subseteq AllOps
  /\ IsFiniteSet(Bookings)

ASSUME NoneAssumption ==
  /\ None \notin Requests
  /\ None \notin TxIds
  /\ None \notin Row
  /\ None \notin Request

VARIABLES
  rows,       \* bookings table: identifier -> row or None
  busOf,      \* trips.bus_id
  seatCount,  \* buses.seat_count
  active,     \* trips.is_active
  price,      \* effective unit price of a trip on a date
  blocks,     \* trip_blocks: a trip, the dates it covers, and whether its
              \* type is one that stops the sale
  rowLock,    \* owner of the lock on a bookings row
  tripLock,   \* owner of the lock on a trips row
  busLock,    \* owner of the lock on a buses row
  pc,         \* stage of a request
  req,        \* what a request remembers
  forms       \* signed checkout forms handed out

locks   == <<rowLock, tripLock, busLock>>
catalog == <<busOf, seatCount, active, price, blocks>>
vars    == <<rows, catalog, locks, pc, req, forms>>

-----------------------------------------------------------------------------
(* Reading the tables.                                                     *)

Exists(b)     == rows[b] # None
RowsOf(t)     == {b \in Bookings : Exists(b) /\ rows[b].trip = t}
Seats(t)      == seatCount[busOf[t]]
Covering(t, d) == {blk \in blocks : blk.trip = t /\ d \in blk.dates}
Blocked(t, d) == \E blk \in Covering(t, d) : blk.closes

\* A request reads one of the blocks that cover the date, whichever comes first.
BlockRead(t, d) ==
  IF Covering(t, d) = {} THEN {FALSE} ELSE {blk.closes : blk \in Covering(t, d)}

\* The seats of bookings B sold on trip t and date d, one element per seat:
\* its cardinality is the SUM(quantity) of the counted statuses.
SeatsSoldTo(B, t, d) ==
  {u \in B \X (1..MaxQuantity) :
     /\ Exists(u[1])
     /\ rows[u[1]].trip = t
     /\ rows[u[1]].date = d
     /\ rows[u[1]].status \in Counted
     /\ u[2] <= rows[u[1]].quantity}

Sold(t, d)   == SeatsSoldTo(Bookings, t, d)
Booked(t, d) == Cardinality(Sold(t, d))

\* Mutant of AvailableSeats: one seat too many.
AvailableSeatsPlusOne(seats, booked, isBlocked) ==
  IF isBlocked \/ booked > seats THEN 0 ELSE seats - booked + 1

AvailableSeats(seats, booked, isBlocked) ==
  IF isBlocked \/ booked > seats THEN 0 ELSE seats - booked

NeedsRefund(row) ==
  row.method = "online_banking" /\ row.paid /\ row.tx # None

HotelNotes(hotel) == IF hotel THEN {"HOTEL_PICKUP"} ELSE {}

-----------------------------------------------------------------------------
(* Transactions.                                                           *)

At(r, op, stage) == pc[r] = stage /\ req[r].op = op

Begin(r, q) ==
  /\ pc[r] = "idle"
  /\ q.op \in Ops
  /\ pc' = [pc EXCEPT ![r] = "begun"]
  /\ req' = [req EXCEPT ![r] = q]
  /\ UNCHANGED <<rows, catalog, locks, forms>>

Release(lock, r) == [x \in DOMAIN lock |-> IF lock[x] = r THEN None ELSE lock[x]]

\* COMMIT or ROLLBACK: the request is over and its locks are released.
Finish(r) ==
  /\ pc' = [pc EXCEPT ![r] = "idle"]
  /\ req' = [req EXCEPT ![r] = None]
  /\ rowLock' = Release(rowLock, r)
  /\ tripLock' = Release(tripLock, r)
  /\ busLock' = Release(busLock, r)

\* Mutant of Reject: the handler answers without a rollback.
RejectWithoutRollback(r) ==
  /\ pc' = [pc EXCEPT ![r] = "idle"]
  /\ req' = [req EXCEPT ![r] = None]
  /\ UNCHANGED <<rows, catalog, locks, forms>>

Reject(r) == Finish(r) /\ UNCHANGED <<rows, catalog, forms>>
Commit(r) == Finish(r) /\ UNCHANGED <<catalog, forms>>

TripFree(t)   == tripLock[t] = None /\ busLock[busOf[t]] = None
RowFree(b)    == rowLock[b] = None
RowsFree(r,t) == \A b \in RowsOf(t) : rowLock[b] \in {None, r}

\* Mutants of LockTrip: the select is not FOR UPDATE, or FOR UPDATE OF trips.
ReadTrip(r, t) ==
  \/ /\ active[t]
     /\ pc' = [pc EXCEPT ![r] = "tripLocked"]
     /\ UNCHANGED <<rows, catalog, locks, req, forms>>
  \/ ~active[t] /\ Reject(r)

LockTripOnly(r, t) ==
  /\ tripLock[t] = None
  /\ \/ /\ active[t]
        /\ tripLock' = [tripLock EXCEPT ![t] = r]
        /\ pc' = [pc EXCEPT ![r] = "tripLocked"]
        /\ UNCHANGED <<rows, catalog, rowLock, busLock, req, forms>>
     \/ ~active[t] /\ Reject(r)

\* SELECT seat_count, is_active FROM trips JOIN buses ... FOR UPDATE.
LockTrip(r, t) ==
  /\ TripFree(t)
  /\ \/ /\ active[t]
        /\ tripLock' = [tripLock EXCEPT ![t] = r]
        /\ busLock' = [busLock EXCEPT ![busOf[t]] = r]
        /\ pc' = [pc EXCEPT ![r] = "tripLocked"]
        /\ UNCHANGED <<rows, catalog, rowLock, req, forms>>
     \/ ~active[t] /\ Reject(r)

\* Mutant of CountAndCheck: the sum is not FOR UPDATE.
CountUnlocked(r, t, d, B) ==
  \/ /\ req[r].quantity <= AvailableSeats(Seats(t),
                              Cardinality(SeatsSoldTo(B, t, d)), req[r].blocked)
     /\ pc' = [pc EXCEPT ![r] = "counted"]
     /\ UNCHANGED <<rows, catalog, locks, req, forms>>
  \/ /\ req[r].quantity > AvailableSeats(Seats(t),
                              Cardinality(SeatsSoldTo(B, t, d)), req[r].blocked)
     /\ Reject(r)

\* SELECT SUM(quantity) ... FOR UPDATE over the bookings in B.  The scan of
\* the trip's index entries locks every row of the trip, counted or not.
CountAndCheck(r, t, d, B) ==
  /\ RowsFree(r, t)
  /\ \/ /\ req[r].quantity <= AvailableSeats(Seats(t),
                                 Cardinality(SeatsSoldTo(B, t, d)), req[r].blocked)
        /\ rowLock' = [b \in Bookings |-> IF b \in RowsOf(t) THEN r ELSE rowLock[b]]
        /\ pc' = [pc EXCEPT ![r] = "counted"]
        /\ UNCHANGED <<rows, catalog, tripLock, busLock, req, forms>>
     \/ /\ req[r].quantity > AvailableSeats(Seats(t),
                                 Cardinality(SeatsSoldTo(B, t, d)), req[r].blocked)
        /\ Reject(r)

-----------------------------------------------------------------------------
(* POST /bookings and POST /admin/bookings: create_booking.                *)

Reserved == {req[r].booking : r \in {s \in Requests : pc[s] # "idle" /\ req[s].op = "create"}}

\* The snapshot gives activity, price and blocks; the total the client sent
\* equals the price the snapshot gives, or the request ends here.  The
\* identifier is the one the insert will get.
CreateBegin(r) ==
  \E b \in Bookings, t \in Trips, d \in Dates, n \in 1..MaxQuantity,
     m \in Methods, h \in Pickups, bl \in BOOLEAN :
       /\ ~Exists(b) /\ b \notin Reserved
       /\ active[t]
       /\ bl \in BlockRead(t, d)
       /\ Begin(r, [op |-> "create", booking |-> b, trip |-> t, date |-> d,
                    quantity |-> n, unit |-> price[t][d], method |-> m,
                    hotel |-> h, blocked |-> bl])

CreateLockTrip(r) == At(r, "create", "begun") /\ LockTrip(r, req[r].trip)

CreateCount(r) ==
  /\ At(r, "create", "tripLocked")
  /\ \/ req[r].blocked /\ Reject(r)
     \/ ~req[r].blocked /\ CountAndCheck(r, req[r].trip, req[r].date, Bookings)

NewRow(q) ==
  [trip |-> q.trip, date |-> q.date, quantity |-> q.quantity, unit |-> q.unit,
   total |-> q.unit * q.quantity, method |-> q.method, hotel |-> q.hotel,
   status |-> "pending", confirmedAt |-> FALSE, paid |-> FALSE, tx |-> None,
   notes |-> HotelNotes(q.hotel)]

CreateCommit(r) ==
  /\ At(r, "create", "counted")
  /\ rows' = [rows EXCEPT ![req[r].booking] = NewRow(req[r])]
  /\ Commit(r)

-----------------------------------------------------------------------------
(* PUT /admin/bookings/{id}: update_booking_fields.                        *)

EditBegin(r) ==
  \E b \in Bookings, n \in 1..MaxQuantity, h \in Pickups, bl \in BOOLEAN :
    /\ Exists(b)
    /\ bl \in BlockRead(rows[b].trip, rows[b].date)
    /\ Begin(r, [op |-> "edit", booking |-> b, quantity |-> n, hotel |-> h,
                 active |-> active[rows[b].trip], blocked |-> bl])

\* Mutants of EditRow: the quantity is added, the total is left alone, or the
\* notes are the customer's text and nothing else.
EditRowAdds(row, q) ==
  [row EXCEPT !.quantity = @ + q.quantity, !.hotel = q.hotel, !.notes = HotelNotes(q.hotel)]
EditRowOldTotal(row, q) ==
  [row EXCEPT !.quantity = q.quantity, !.hotel = q.hotel, !.notes = HotelNotes(q.hotel)]
EditRowRawNotes(row, q) ==
  [row EXCEPT !.quantity = q.quantity, !.total = row.unit * q.quantity,
              !.hotel = q.hotel, !.notes = {}]

\* The fields an edit writes; notes are rebuilt from the request.
EditRow(row, q) ==
  [row EXCEPT !.quantity = q.quantity,
              !.total = IF q.quantity = row.quantity THEN row.total
                                                     ELSE row.unit * q.quantity,
              !.hotel = q.hotel,
              !.notes = HotelNotes(q.hotel)]

EditWrite(r) ==
  /\ rows' = [rows EXCEPT ![req[r].booking] = EditRow(rows[req[r].booking], req[r])]
  /\ Commit(r)

\* The row is locked first.  An edit that keeps the quantity locks nothing
\* else and commits; one that changes it goes on to lock the trip.
EditLock(r) ==
  LET b == req[r].booking
      editable == rows[b].status \notin {"cancelled", "completed"} /\ req[r].active
  IN  /\ At(r, "edit", "begun")
      /\ RowFree(b)
      /\ \/ ~editable /\ Reject(r)
         \/ editable /\ req[r].quantity = rows[b].quantity /\ EditWrite(r)
         \/ /\ editable /\ req[r].quantity # rows[b].quantity
            /\ rowLock' = [rowLock EXCEPT ![b] = r]
            /\ pc' = [pc EXCEPT ![r] = "rowLocked"]
            /\ UNCHANGED <<rows, catalog, tripLock, busLock, req, forms>>

EditLockTrip(r) ==
  At(r, "edit", "rowLocked") /\ LockTrip(r, rows[req[r].booking].trip)

EditCount(r) ==
  LET b == req[r].booking
  IN  /\ At(r, "edit", "tripLocked")
      /\ CountAndCheck(r, rows[b].trip, rows[b].date, Bookings \ {b})

EditCommit(r) == At(r, "edit", "counted") /\ EditWrite(r)

-----------------------------------------------------------------------------
(* POST /admin/bookings/{id}/confirm, /complete and /cancel.  The handler  *)
(* reads the booking and checks its status, then the service locks the     *)
(* row.  The locked read does not refresh the attributes the session has   *)
(* loaded, so the service decides on the copy read before the lock.  The   *)
(* flush writes the columns it changed and no other.                       *)

ConfirmBegin(r) ==
  \E b \in Bookings :
    /\ Exists(b) /\ rows[b].status = "pending"
    /\ Begin(r, [op |-> "confirm", booking |-> b])

CompleteBegin(r) ==
  \E b \in Bookings :
    /\ Exists(b) /\ rows[b].status = "confirmed"
    /\ Begin(r, [op |-> "complete", booking |-> b])

\* The copy is kept as far as the service looks at it: the notes, and whether
\* the booking was paid online under a known transaction.
CancelBegin(r) ==
  \E b \in Bookings, reason \in Reasons :
    /\ Exists(b) /\ rows[b].status \notin {"cancelled", "completed"}
    /\ Begin(r, [op |-> "cancel", booking |-> b, reason |-> reason,
                 notes |-> rows[b].notes, refund |-> NeedsRefund(rows[b])])

\* Mutant of ConfirmCommit: the status alone is written.
ConfirmCommitNoTime(r) ==
  /\ At(r, "confirm", "begun")
  /\ RowFree(req[r].booking)
  /\ rows' = [rows EXCEPT ![req[r].booking] = [@ EXCEPT !.status = "confirmed"]]
  /\ Commit(r)

\* The copy is pending, so the confirmation time is set whatever the row says.
ConfirmCommit(r) ==
  /\ At(r, "confirm", "begun")
  /\ RowFree(req[r].booking)
  /\ rows' = [rows EXCEPT ![req[r].booking] =
                 [@ EXCEPT !.status = "confirmed", !.confirmedAt = TRUE]]
  /\ Commit(r)

CompleteCommit(r) ==
  /\ At(r, "complete", "begun")
  /\ RowFree(req[r].booking)
  /\ rows' = [rows EXCEPT ![req[r].booking] = [@ EXCEPT !.status = "completed"]]
  /\ Commit(r)

\* The notes lines a cancel adds: one for the reason, one for the refund.
CancelLines(reason, refund) ==
  (IF reason THEN {"ADMIN_CANCEL_REASON"} ELSE {})
  \cup (IF refund THEN {"SEPAY_REFUND_REQUIRED"} ELSE {})

\* The notes column is written when a line was added, from the copy.
CancelledRow(row, q) ==
  [row EXCEPT !.status = "cancelled",
              !.notes = IF q.reason \/ (q.refund /\ "SEPAY_REFUND_REQUIRED" \notin q.notes)
                          THEN q.notes \cup CancelLines(q.reason, q.refund)
                          ELSE row.notes]

CancelCommit(r) ==
  /\ At(r, "cancel", "begun")
  /\ RowFree(req[r].booking)
  /\ rows' = [rows EXCEPT ![req[r].booking] = CancelledRow(@, req[r])]
  /\ Commit(r)

-----------------------------------------------------------------------------
(* PATCH /admin/bookings/{id}/status: update_booking_status with nothing   *)
(* loaded before, hence on the fresh row; any status to any status.        *)

\* Mutant of PatchedRow: a cancel by patch asks for no refund.
PatchedRowNoRefund(row, s, reason) ==
  IF s = "cancelled"
    THEN [row EXCEPT !.status = s, !.notes = @ \cup CancelLines(reason, FALSE)]
    ELSE [row EXCEPT !.status = s,
                     !.confirmedAt = @ \/ (s = "confirmed" /\ row.status = "pending")]

PatchedRow(row, s, reason) ==
  IF s = "cancelled"
    THEN [row EXCEPT !.status = s,
                     !.notes = @ \cup CancelLines(reason, NeedsRefund(row))]
    ELSE [row EXCEPT !.status = s,
                     !.confirmedAt = @ \/ (s = "confirmed" /\ row.status = "pending")]

Patch(b, s, reason) ==
  /\ "patch" \in Ops
  /\ Exists(b) /\ RowFree(b)
  /\ rows' = [rows EXCEPT ![b] = PatchedRow(rows[b], s, reason)]
  /\ UNCHANGED <<catalog, locks, pc, req, forms>>

-----------------------------------------------------------------------------
(* SePay.  A form, once handed out, may be paid at any later time, and the *)
(* provider may notify a payment any number of times, in any order.        *)

Checkout(b) ==
  /\ "pay" \in Ops
  /\ Exists(b)
  /\ rows[b].status = "confirmed"
  /\ rows[b].method = "online_banking"
  /\ ~rows[b].paid
  /\ forms' = forms \cup {[booking |-> b, amount |-> rows[b].total]}
  /\ UNCHANGED <<rows, catalog, locks, pc, req>>

\* Mutant of Ipn: a booking already paid is paid again.
IpnAgain(f, x) ==
  LET b == f.booking
  IN  /\ "pay" \in Ops
      /\ Exists(b) /\ RowFree(b)
      /\ f.amount = rows[b].total
      /\ rows[b].status = "confirmed"
      /\ rows[b].method = "online_banking"
      /\ rows' = [rows EXCEPT ![b] = [@ EXCEPT !.paid = TRUE, !.tx = x]]
      /\ UNCHANGED <<catalog, locks, pc, req, forms>>

\* handle_sepay_ipn: the notifications it does not skip.  x is None when the
\* payload carries no textual transaction id.
Ipn(f, x) ==
  LET b == f.booking
  IN  /\ "pay" \in Ops
      /\ Exists(b) /\ RowFree(b)
      /\ f.amount = rows[b].total
      /\ rows[b].status = "confirmed"
      /\ rows[b].method = "online_banking"
      /\ ~rows[b].paid
      /\ rows' = [rows EXCEPT ![b] = [@ EXCEPT !.paid = TRUE, !.tx = x]]
      /\ UNCHANGED <<catalog, locks, pc, req, forms>>

-----------------------------------------------------------------------------
(* Catalogue edits: an UPDATE waits for the row lock; a foreign key that   *)
(* changes waits for the row it points to.                                 *)

SetSeats(k, n) ==
  /\ "seats" \in Ops
  /\ busLock[k] = None
  /\ seatCount' = [seatCount EXCEPT ![k] = n]
  /\ UNCHANGED <<rows, busOf, active, price, blocks, locks, pc, req, forms>>

\* PUT /admin/trips/{id} saves the whole form, P giving the price on each date;
\* a form that changes nothing writes nothing.
UpdateTrip(t, k, on, P) ==
  /\ tripLock[t] = None
  /\ <<k, on, P>> # <<busOf[t], active[t], price[t]>>
  /\ k = busOf[t] \/ ("bus" \in Ops /\ busLock[k] = None)
  /\ on = active[t] \/ "active" \in Ops
  /\ P = price[t] \/ "price" \in Ops
  /\ busOf' = [busOf EXCEPT ![t] = k]
  /\ active' = [active EXCEPT ![t] = on]
  /\ price' = [price EXCEPT ![t] = P]
  /\ UNCHANGED <<rows, seatCount, blocks, locks, pc, req, forms>>

\* A surcharge changes the price of any trip on any date and locks none.
SetSurcharges(P) ==
  /\ "price" \in Ops
  /\ price' = P
  /\ UNCHANGED <<rows, busOf, seatCount, active, blocks, locks, pc, req, forms>>

CreateBlock(t, D) ==
  /\ "block" \in Ops
  /\ tripLock[t] = None
  /\ Cardinality(blocks) < MaxBlocks
  /\ blocks' = blocks \cup {[trip |-> t, dates |-> D, closes |-> TRUE]}
  /\ UNCHANGED <<rows, busOf, seatCount, active, price, locks, pc, req, forms>>

\* A block that stays on its trip checks no foreign key and waits for no one;
\* the type is whatever the body says.
UpdateBlock(blk, t, D, closes) ==
  /\ "block" \in Ops
  /\ t = blk.trip \/ tripLock[t] = None
  /\ blocks' = (blocks \ {blk}) \cup {[trip |-> t, dates |-> D, closes |-> closes]}
  /\ UNCHANGED <<rows, busOf, seatCount, active, price, locks, pc, req, forms>>

DeleteBlock(blk) ==
  /\ "block" \in Ops
  /\ blocks' = blocks \ {blk}
  /\ UNCHANGED <<rows, busOf, seatCount, active, price, locks, pc, req, forms>>

-----------------------------------------------------------------------------
(* Ends that are not the request's own: the worker dies, the lock wait     *)
(* times out, or the database rolls back one side of a deadlock.           *)

Abort(r) == pc[r] # "idle" /\ Reject(r)

\* What the next step of a request waits for: a trip with its bus, or rows.
WantsTrip(r) == CASE At(r, "create", "begun") -> {req[r].trip}
                  [] At(r, "edit", "rowLocked") -> {rows[req[r].booking].trip}
                  [] OTHER -> {}
WantsRows(r) == CASE At(r, "create", "tripLocked") /\ ~req[r].blocked -> RowsOf(req[r].trip)
                  [] At(r, "edit", "tripLocked") -> RowsOf(rows[req[r].booking].trip)
                  [] pc[r] = "begun" /\ req[r].op # "create" -> {req[r].booking}
                  [] OTHER -> {}

WaitsFor(r, s) ==
  /\ r # s
  /\ \/ \E t \in WantsTrip(r) : tripLock[t] = s \/ busLock[busOf[t]] = s
     \/ \E b \in WantsRows(r) : rowLock[b] = s

DeadlockVictim(r) ==
  /\ pc[r] # "idle"
  /\ \E s \in Requests : pc[s] # "idle" /\ WaitsFor(r, s) /\ WaitsFor(s, r)
  /\ Reject(r)

-----------------------------------------------------------------------------
Init ==
  /\ rows = [b \in Bookings |-> None]
  /\ busOf \in [Trips -> Buses]
  /\ seatCount \in [Buses -> 1..MaxSeats]
  /\ active = [t \in Trips |-> TRUE]
  /\ price \in [Trips -> [Dates -> Prices]]
  /\ blocks = {}
  /\ rowLock = [b \in Bookings |-> None]
  /\ tripLock = [t \in Trips |-> None]
  /\ busLock = [k \in Buses |-> None]
  /\ pc = [r \in Requests |-> "idle"]
  /\ req = [r \in Requests |-> None]
  /\ forms = {}

Start(r) ==
  \/ CreateBegin(r) \/ EditBegin(r)
  \/ ConfirmBegin(r) \/ CompleteBegin(r) \/ CancelBegin(r)

Proceed(r) ==
  \/ CreateLockTrip(r) \/ CreateCount(r) \/ CreateCommit(r)
  \/ EditLock(r) \/ EditLockTrip(r) \/ EditCount(r) \/ EditCommit(r)
  \/ ConfirmCommit(r) \/ CompleteCommit(r) \/ CancelCommit(r)

Payment ==
  \/ \E b \in Bookings : Checkout(b)
  \/ \E f \in forms, x \in TxIds \cup {None} : Ipn(f, x)

Catalogue ==
  \/ \E k \in Buses, n \in 1..MaxSeats : SetSeats(k, n)
  \/ \E t \in Trips, k \in Buses, on \in BOOLEAN, P \in [Dates -> Prices] :
       UpdateTrip(t, k, on, P)
  \/ \E P \in [Trips -> [Dates -> Prices]] : SetSurcharges(P)
  \/ \E t \in Trips, D \in SUBSET Dates : CreateBlock(t, D)
  \/ \E blk \in blocks, t \in Trips, D \in SUBSET Dates, closes \in BOOLEAN :
       UpdateBlock(blk, t, D, closes)
  \/ \E blk \in blocks : DeleteBlock(blk)

Next ==
  \/ \E r \in Requests : Start(r) \/ Proceed(r) \/ Abort(r) \/ DeadlockVictim(r)
  \/ \E b \in Bookings, s \in PatchStatuses, reason \in Reasons : Patch(b, s, reason)
  \/ Payment
  \/ Catalogue

Spec == Init /\ [][Next]_vars

\* A worker goes on with the request it serves; row locks are granted in the
\* order they were asked for, so a step that can be taken again and again is
\* taken; the database looks for deadlocks.  Nobody has to start a request.
Fairness ==
  \A r \in Requests : SF_vars(Proceed(r)) /\ WF_vars(DeadlockVictim(r))

FairSpec == Spec /\ Fairness

-----------------------------------------------------------------------------
(* Properties.                                                             *)

\* Every variable has its type: the shape of the tables, locks and requests.
TypeOK ==
  /\ rows \in [Bookings -> Row \cup {None}]
  /\ busOf \in [Trips -> Buses]
  /\ seatCount \in [Buses -> 0..MaxSeats]
  /\ active \in [Trips -> BOOLEAN]
  /\ price \in [Trips -> Tariff]
  /\ blocks \subseteq Block
  /\ rowLock \in [Bookings -> Requests \cup {None}]
  /\ tripLock \in [Trips -> Requests \cup {None}]
  /\ busLock \in [Buses -> Requests \cup {None}]
  /\ pc \in [Requests -> Stages]
  /\ req \in [Requests -> Request \cup {None}]
  /\ forms \subseteq [booking : Bookings, amount : Nat]

\* What a request in flight knows stays true: a create's identifier is unused
\* and its own, every other request's booking exists.
RequestsSound ==
  /\ \A r \in Requests :
       /\ pc[r] = "idle" <=> req[r] = None
       /\ pc[r] # "idle" => req[r].op \in Ops
       /\ pc[r] # "idle" => (req[r].op = "create" <=> ~Exists(req[r].booking))
       /\ pc[r] \in {"tripLocked", "counted"} => req[r].op \in {"create", "edit"}
       /\ pc[r] = "rowLocked" => req[r].op = "edit"
  /\ \A r, s \in Requests :
       /\ r # s
       /\ pc[r] # "idle" /\ req[r].op = "create"
       /\ pc[s] # "idle" /\ req[s].op = "create"
       => req[r].booking # req[s].booking

TripOf(r) == IF req[r].op = "create" THEN req[r].trip ELSE rows[req[r].booking].trip
DateOf(r) == IF req[r].op = "create" THEN req[r].date ELSE rows[req[r].booking].date

\* The bookings a seat count sums: an edit leaves its own booking out.
CountedBy(r) ==
  IF req[r].op = "create" THEN Bookings ELSE Bookings \ {req[r].booking}

\* The locks a request holds at each stage; the count holds every row of the
\* trip, so nobody else can change what was counted.
LocksHeld ==
  \A r \in Requests :
    /\ pc[r] \in {"tripLocked", "counted"} =>
         tripLock[TripOf(r)] = r /\ busLock[busOf[TripOf(r)]] = r
    /\ pc[r] \in {"rowLocked", "tripLocked", "counted"} /\ req[r].op = "edit" =>
         rowLock[req[r].booking] = r
    /\ pc[r] = "counted" => \A b \in RowsOf(TripOf(r)) : rowLock[b] = r

\* A lock has an owner that still needs it, so that what is waited for is a
\* request that is under way: a trip and its bus from their lock on, the row of
\* an edit, the rows of the trip that was counted.
LocksOwned ==
  \A r \in Requests :
    /\ \A t \in Trips : tripLock[t] = r =>
         pc[r] \in {"tripLocked", "counted"} /\ TripOf(r) = t
    /\ \A k \in Buses : busLock[k] = r =>
         pc[r] \in {"tripLocked", "counted"} /\ busOf[TripOf(r)] = k
    /\ \A b \in Bookings : rowLock[b] = r =>
         \/ pc[r] = "counted" /\ b \in RowsOf(TripOf(r))
         \/ At(r, "edit", "rowLocked") /\ req[r].booking = b
         \/ At(r, "edit", "tripLocked") /\ req[r].booking = b

\* While a create or an edit stands between its seat count and its commit, the
\* seats it counted are still there: nothing that happens meanwhile (another
\* create, an edit, a revived booking, a smaller bus, another bus) lets the
\* commit exceed the bus.  The locks of create_booking and
\* update_booking_fields are there for this.
SeatsHeld ==
  \A r \in Requests :
    pc[r] = "counted" =>
      Cardinality(SeatsSoldTo(CountedBy(r), TripOf(r), DateOf(r))) + req[r].quantity
        <= Seats(TripOf(r))

\* The strengthening of SeatsHeld that the steps preserve.
IndInv == TypeOK /\ RequestsSound /\ LocksHeld /\ LocksOwned /\ SeatsHeld

\* No wait is a dead end: who waits, waits, directly or through at most one
\* other, for a request whose next step waits for nobody or for one that
\* stands in a deadlock of two, which InnoDB ends.  Creates lock the trip and
\* then its bookings, edits the booking and then its trip, and buses are
\* shared between trips; no longer circle closes over these.
WaitedFor(r) == {s \in Requests : WaitsFor(r, s)}

GoesOn(r)     == pc[r] # "idle" /\ WaitedFor(r) = {}
Deadlocked(r) == \E s \in Requests : WaitsFor(r, s) /\ WaitsFor(s, r)

NoHiddenDeadlock ==
  \A r \in Requests : pc[r] # "idle" =>
    \E s \in {r} \cup WaitedFor(r) \cup UNION {WaitedFor(u) : u \in WaitedFor(r)} :
      GoesOn(s) \/ Deadlocked(s)

\* Booking b, cancelled before the step, is counted again after it.
Revives(b) ==
  /\ Exists(b) /\ rows[b].status = "cancelled"
  /\ rows'[b].status \in Counted

RevivedOn(t, d) ==
  \E b \in Bookings : Revives(b) /\ rows[b].trip = t /\ rows[b].date = d

\* The seats sold on a departure grow only within the seats of the bus that
\* serves it, whatever runs concurrently, unless a status change revives one of
\* its cancelled bookings (update_booking_status never counts seats).
GrowthWithinCapacity ==
  [][\A t \in Trips, d \in Dates :
       Booked(t, d)' > Booked(t, d) =>
         Booked(t, d)' <= Seats(t)' \/ RevivedOn(t, d)]_vars

\* A departure gets more seats sold than its bus has in two ways only: a status
\* change revives one of its cancelled bookings (booking_status.py:36), or the
\* office gives it fewer seats than it sold (the bus shrinks, fleet.py:158, or
\* is exchanged).  No sale and no edit oversells it, whatever they race with.
NoSaleOversells ==
  [][\A t \in Trips, d \in Dates :
       Booked(t, d) <= Seats(t) /\ Booked(t, d)' > Seats(t)' =>
         RevivedOn(t, d) \/ Seats(t)' < Seats(t)]_vars

\* The seats of cancelled bookings, as Sold is of the counted ones.
Shelved(t, d) ==
  {u \in Bookings \X (1..MaxQuantity) :
     /\ Exists(u[1])
     /\ rows[u[1]].trip = t
     /\ rows[u[1]].date = d
     /\ rows[u[1]].status = "cancelled"
     /\ u[2] <= rows[u[1]].quantity}

Ledger == INSTANCE SeatLedger WITH
  Departures <- Trips \X Dates,
  Units      <- Bookings \X (1..MaxQuantity),
  sold       <- [dep \in Trips \X Dates |-> Sold(dep[1], dep[2])],
  shelved    <- [dep \in Trips \X Dates |-> Shelved(dep[1], dep[2])],
  capacity   <- [dep \in Trips \X Dates |-> Seats(dep[1])]

\* The engine implements the seat ledger: every step sells within capacity,
\* gives back, shelves or revives the seats of one departure, or sells nothing.
LedgerSpec == Ledger!Spec

\* The total of a booking is its unit price times its quantity, whatever the
\* catalogue's price has become ("price is server-recomputed from the existing
\* final_unit_price * new quantity", booking_edit.py:38).
TotalAsQuoted ==
  \A b \in Bookings : Exists(b) => rows[b].total = rows[b].unit * rows[b].quantity

\* A payment is never lost: no later cancel, edit or stale confirmation of the
\* booking takes it back or changes its transaction.
PaymentKept ==
  [][\A b \in Bookings :
       Exists(b) /\ rows[b].paid => rows'[b].paid /\ rows'[b].tx = rows[b].tx]_vars

\* Paid online and cancelled, without the line that asks for the refund.
Unflagged(b) ==
  /\ Exists(b) /\ rows[b].status = "cancelled"
  /\ NeedsRefund(rows[b]) /\ "SEPAY_REFUND_REQUIRED" \notin rows[b].notes

\* A cancelled booking that was paid online carries the note that asks for the
\* refund ("Ops signal for paid online cancels", booking_cancel.py:43).  It is
\* missed in one way only: by a cancel whose copy is older than the payment, or
\* has the line that an edit has since removed.
RefundFlagged ==
  [][\A b \in Bookings : ~Unflagged(b) /\ Unflagged(b)' =>
       \E r \in Requests :
         /\ CancelCommit(r) /\ req[r].booking = b
         /\ \/ ~req[r].refund
            \/ ~req[r].reason /\ "SEPAY_REFUND_REQUIRED" \in req[r].notes]_vars

Addressless(b) ==
  Exists(b) /\ rows[b].hotel /\ "HOTEL_PICKUP" \notin rows[b].notes

\* A booking without a pickup stop keeps the hotel address, which only its
\* notes store (booking_edit.py:41-45).  It is lost in one way only: a cancel
\* writes back notes it read before an edit added the address.
HotelAddressKept ==
  [][\A b \in Bookings : ~Addressless(b) /\ Addressless(b)' =>
       \E r \in Requests :
         /\ CancelCommit(r) /\ req[r].booking = b
         /\ "HOTEL_PICKUP" \notin req[r].notes]_vars

Timeless(b) ==
  Exists(b) /\ rows[b].status = "confirmed" /\ ~rows[b].confirmedAt

\* A confirmed booking has its confirmation time, "so the mail + confirmed_at
\* + refund-note side effects always fire" (booking_edit.py:34-37).  It lacks
\* the time in one way only: the status patch confirms a booking that had been
\* cancelled or completed (booking_status.py:34); no stale confirmation does.
ConfirmedHasTime ==
  [][\A b \in Bookings : ~Timeless(b) /\ Timeless(b)' =>
       /\ \E reason \in Reasons : Patch(b, "confirmed", reason)
       /\ rows[b].status \in {"cancelled", "completed"}]_vars

\* POST .../confirm moves a booking to confirmed from pending and from nothing
\* else ("Only pending bookings can be confirmed", bookings_actions.py:37).
OnlyPendingConfirmed ==
  [][\A b \in Bookings :
       Exists(b) /\ rows[b].status # "confirmed" /\ rows'[b].status = "confirmed" =>
         rows[b].status = "pending"]_vars

\* No departure ever has more seats sold than the bus has.
NeverOversold ==
  \A t \in Trips, d \in Dates : Booked(t, d) <= Seats(t)

\* Nothing is sold on a departure while a block covers its date ("sold_out /
\* off_day blocks -> 0", seats.py:12), revived bookings aside.
NoSaleWhenBlocked ==
  [][\A t \in Trips, d \in Dates :
       Blocked(t, d) /\ Booked(t, d)' > Booked(t, d) =>
         RevivedOn(t, d)]_vars

\* Every request ends: with the locks of create (trip, then bookings) and edit
\* (booking, then trip) taken in opposite orders, no wait is for ever.
EveryRequestEnds ==
  \A r \in Requests : pc[r] # "idle" ~> pc[r] = "idle"

=============================================================================
