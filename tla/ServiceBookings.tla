--------------------------- MODULE ServiceBookings ---------------------------
(***************************************************************************)
(* Bookings of hotel rooms and of tours.  A product is a room type, with a *)
(* number of rooms a night, or a tour, with a number of guests a date; a   *)
(* tour on a date is a stay from that date to the next.  Requests create   *)
(* bookings, and the admin confirms, completes and cancels them, edits the *)
(* products and deletes them.                                              *)
(*                                                                         *)
(* Transactions are those of Bookings: a snapshot when the request begins, *)
(* locked reads of the latest rows, writes that show at the commit.  Only  *)
(* a create keeps locks from one step to the next: the product from its    *)
(* locked read on, and from its count on the product's bookings and the    *)
(* gaps around them in the index, so that no lock needs a variable.        *)
(***************************************************************************)
EXTENDS Integers, FiniteSets

CONSTANTS
  Requests,    \* requests the workers may have in flight
  Bookings,    \* identifiers the two tables of bookings may assign
  Rooms,       \* room types: their identifiers, in the order of the index
  Tours,       \* tours: likewise
  Hotels,      \* hotels
  HotelOf,     \* the hotel of a room type
  MaxNights,   \* bound: nights that can be booked
  MaxCount,    \* bound: rooms or guests one booking may ask for
  MaxStock,    \* bound: rooms of a type, guests of a tour
  Ops,         \* endpoints in use
  None         \* no row, no stock, no request

Products == Rooms \cup Tours
Nights   == 0..(MaxNights - 1)
Counted  == {"pending", "confirmed", "completed"}
Statuses == Counted \cup {"cancelled"}
Actions  == {"confirm", "complete", "cancel"}
AllOps   == Actions \cup {"create", "product", "hotel", "delete"}
Stages   == {"idle", "begun", "locked", "counted"}

Row == [product : Products, checkIn : Nights, checkOut : 1..MaxNights,
        count : 1..MaxCount, status : Statuses]

\* A create remembers what its snapshot says of the hotel; an action has
\* found the status it asks for in the copy of the booking it loaded.
CreateReq == [op : {"create"}, booking : Bookings, product : Products, checkIn : Nights,
              checkOut : 1..MaxNights, count : 1..MaxCount, open : BOOLEAN]
ActionReq == [op : Actions, booking : Bookings]
Request   == CreateReq \cup ActionReq

ASSUME StockAssumption ==
  /\ Rooms \cup Tours \subseteq Nat
  /\ Rooms \cap Tours = {}
  /\ HotelOf \in [Rooms -> Hotels]
  /\ MaxNights \in Nat
  /\ MaxCount \in Nat
  /\ MaxStock \in Nat
  /\ Ops \subseteq AllOps
  /\ IsFiniteSet(Bookings)
  /\ None \notin Row \cup Request \cup Nat

VARIABLES
  rows,       \* hotel_bookings and tour_bookings: identifier -> row or None
  stock,      \* hotel_rooms.inventory_count, tours.max_guests; None: deleted
  active,     \* hotel_rooms.is_active, tours.is_active
  open,       \* hotels.is_active
  pc,         \* stage of a request
  req         \* what a request remembers

catalog == <<stock, active, open>>
vars    == <<rows, catalog, pc, req>>

-----------------------------------------------------------------------------
(* Reading the tables.                                                     *)

Exists(b) == rows[b] # None
RowsOf(p) == {b \in Bookings : Exists(b) /\ rows[b].product = p}

\* One element for each room or guest the bookings chosen ask for: the
\* cardinality is the sum.
Units(B) == {u \in B \X (1..MaxCount) : u[2] <= rows[u[1]].count}

\* Mutant of RoomUnits: the day of departure is counted as a night.
RoomUnitsToDeparture(p, in, out) ==
  Units({b \in RowsOf(p) : /\ rows[b].status \in Counted
                           /\ rows[b].checkIn < out
                           /\ rows[b].checkOut >= in})

\* Mutant of RoomUnits: only the stays that are on when the new one begins.
RoomUnitsAtArrival(p, in, out) ==
  Units({b \in RowsOf(p) : /\ rows[b].status \in Counted
                           /\ rows[b].checkIn <= in
                           /\ rows[b].checkOut > in})

\* The rooms of all stays that overlap with one from in to out.
RoomUnits(p, in, out) ==
  Units({b \in RowsOf(p) : /\ rows[b].status \in Counted
                           /\ rows[b].checkIn < out
                           /\ rows[b].checkOut > in})

TourUnits(p, date) ==
  Units({b \in RowsOf(p) : rows[b].checkIn = date /\ rows[b].status \in Counted})

BookedUnits(p, in, out) ==
  IF p \in Rooms THEN RoomUnits(p, in, out) ELSE TourUnits(p, in)

\* Mutant of Available: one too many.
AvailableOneMore(p, in, out) ==
  LET booked == Cardinality(BookedUnits(p, in, out))
  IN  IF booked > stock[p] THEN 0 ELSE stock[p] - booked + 1

Available(p, in, out) ==
  LET booked == Cardinality(BookedUnits(p, in, out))
  IN  IF booked > stock[p] THEN 0 ELSE stock[p] - booked

-----------------------------------------------------------------------------
(* Transactions and their locks.                                           *)

At(r, stage) == pc[r] = stage

HoldsProduct(r, p) == pc[r] \in {"locked", "counted"} /\ req[r].product = p
HoldsRows(r, p)    == pc[r] = "counted" /\ req[r].product = p
ProductFree(p)     == \A r \in Requests : ~HoldsProduct(r, p)

\* Mutant of RowFree: the service takes the loaded copy without a lock.
RowUnlocked(b) == b \in Bookings

RowFree(b) == Exists(b) => \A r \in Requests : ~HoldsRows(r, rows[b].product)

\* The count of product p locked the gaps before the first and after the
\* last of its index entries; a new entry of q goes behind those of q.
InGap(q, p) ==
  /\ {q, p} \subseteq Rooms \/ {q, p} \subseteq Tours
  /\ \A x \in Products : RowsOf(x) # {} => ~(q < x /\ x < p) /\ ~(p < x /\ x <= q)

WaitsForGap(r, s) ==
  /\ r # s
  /\ pc[r] = "counted" /\ pc[s] = "counted"
  /\ InGap(req[r].product, req[s].product)

Begin(r, q) ==
  /\ pc[r] = "idle"
  /\ q.op \in Ops
  /\ pc' = [pc EXCEPT ![r] = "begun"]
  /\ req' = [req EXCEPT ![r] = q]
  /\ UNCHANGED <<rows, catalog>>

\* COMMIT or ROLLBACK.
Finish(r) ==
  /\ pc' = [pc EXCEPT ![r] = "idle"]
  /\ req' = [req EXCEPT ![r] = None]
  /\ UNCHANGED catalog

Reject(r) == Finish(r) /\ UNCHANGED rows

GoTo(r, stage) ==
  /\ pc' = [pc EXCEPT ![r] = stage]
  /\ UNCHANGED <<rows, catalog, req>>

-----------------------------------------------------------------------------
(* POST /hotel-bookings and POST /tour-bookings.                           *)

Reserved == {req[r].booking : r \in {s \in Requests : pc[s] # "idle" /\ req[s].op = "create"}}

CreateBegin(r) ==
  \E b \in Bookings, p \in Products, in \in Nights, out \in 1..MaxNights, n \in 1..MaxCount :
    /\ ~Exists(b) /\ b \notin Reserved
    /\ in < out
    /\ p \in Tours => out = in + 1
    /\ Begin(r, [op |-> "create", booking |-> b, product |-> p, checkIn |-> in,
                 checkOut |-> out, count |-> n,
                 open |-> p \in Rooms => open[HotelOf[p]]])

\* SELECT ... FOR UPDATE of the product gives its latest row; the hotel of a
\* room is then read from the snapshot.
LockProduct(r) ==
  LET p == req[r].product
  IN  /\ At(r, "begun") /\ req[r].op = "create"
      /\ ProductFree(p)
      /\ IF stock[p] # None /\ active[p] /\ req[r].open
           THEN GoTo(r, "locked")
           ELSE Reject(r)

Fits(r) == req[r].count <= Available(req[r].product, req[r].checkIn, req[r].checkOut)

\* Mutant of Count: a create that finds no room waits for one.
CountOrWait(r) == At(r, "locked") /\ Fits(r) /\ GoTo(r, "counted")

Count(r) ==
  /\ At(r, "locked")
  /\ IF Fits(r) THEN GoTo(r, "counted") ELSE Reject(r)

NewRow(q) ==
  [product |-> q.product, checkIn |-> q.checkIn, checkOut |-> q.checkOut,
   count |-> q.count, status |-> "pending"]

Insert(r) ==
  /\ At(r, "counted")
  /\ \A s \in Requests : ~WaitsForGap(r, s)
  /\ rows' = [rows EXCEPT ![req[r].booking] = NewRow(req[r])]
  /\ Finish(r)

-----------------------------------------------------------------------------
(* POST /admin/hotel-bookings/{id}/confirm, /complete and /cancel, and the *)
(* same of tours.  The handler checks the status of the copy it loads, the *)
(* service locks the row; the locked read does not refresh the copy.       *)

From(op) ==
  IF op = "confirm" THEN {"pending"} ELSE IF op = "complete" THEN {"confirmed"} ELSE Counted

\* Mutant of Target: the name of the action.
TargetNamed(op) == op

Target(op) ==
  IF op = "confirm" THEN "confirmed" ELSE IF op = "complete" THEN "completed" ELSE "cancelled"

ActionBegin(r) ==
  \E b \in Bookings, op \in Actions :
    /\ Exists(b) /\ rows[b].status \in From(op)
    /\ Begin(r, [op |-> op, booking |-> b])

ActionCommit(r) ==
  LET b == req[r].booking
  IN  /\ At(r, "begun") /\ req[r].op \in Actions
      /\ RowFree(b)
      /\ rows' = IF Exists(b) THEN [rows EXCEPT ![b].status = Target(req[r].op)] ELSE rows
      /\ Finish(r)

-----------------------------------------------------------------------------
(* Saves and deletions of the admin.  Each waits for one lock, the         *)
(* product's, and is one step.                                             *)

UpdateProduct(p, n, on) ==
  /\ "product" \in Ops
  /\ stock[p] # None
  /\ ProductFree(p)
  /\ stock' = [stock EXCEPT ![p] = n]
  /\ active' = [active EXCEPT ![p] = on]
  /\ UNCHANGED <<rows, open, pc, req>>

UpdateHotel(h, on) ==
  /\ "hotel" \in Ops
  /\ open' = [open EXCEPT ![h] = on]
  /\ UNCHANGED <<rows, stock, active, pc, req>>

\* The bookings of a deleted product go with it (ON DELETE CASCADE).
DeleteProduct(p) ==
  /\ "delete" \in Ops
  /\ stock[p] # None
  /\ ProductFree(p)
  /\ stock' = [stock EXCEPT ![p] = None]
  /\ rows' = [b \in Bookings |-> IF b \in RowsOf(p) THEN None ELSE rows[b]]
  /\ UNCHANGED <<active, open, pc, req>>

-----------------------------------------------------------------------------
\* The total the client sent is not the product's, the client or the worker
\* is lost, a lock wait times out.
Abort(r) == pc[r] # "idle" /\ Reject(r)

\* InnoDB rolls back one of two creates that wait for each other's gaps.
DeadlockVictim(r) ==
  /\ \E s \in Requests : WaitsForGap(r, s) /\ WaitsForGap(s, r)
  /\ Reject(r)

Init ==
  /\ rows = [b \in Bookings |-> None]
  /\ stock \in [Products -> 1..MaxStock]
  /\ active = [p \in Products |-> TRUE]
  /\ open = [h \in Hotels |-> TRUE]
  /\ pc = [r \in Requests |-> "idle"]
  /\ req = [r \in Requests |-> None]

Start(r)   == CreateBegin(r) \/ ActionBegin(r)
Proceed(r) == LockProduct(r) \/ Count(r) \/ Insert(r) \/ ActionCommit(r)

Catalogue ==
  \/ \E p \in Products, n \in 1..MaxStock, on \in BOOLEAN : UpdateProduct(p, n, on)
  \/ \E h \in Hotels, on \in BOOLEAN : UpdateHotel(h, on)
  \/ \E p \in Products : DeleteProduct(p)

Next ==
  \/ \E r \in Requests : Start(r) \/ Proceed(r) \/ Abort(r) \/ DeadlockVictim(r)
  \/ Catalogue

Spec == Init /\ [][Next]_vars

\* As in Bookings: a lock that is free again and again is granted, and a
\* deadlock is found.  No request has to start or to be aborted.
Fairness == \A r \in Requests : SF_vars(Proceed(r)) /\ WF_vars(DeadlockVictim(r))

FairSpec == Spec /\ Fairness

-----------------------------------------------------------------------------
(* Properties.                                                             *)

TypeOK ==
  /\ rows \in [Bookings -> Row \cup {None}]
  /\ stock \in [Products -> 1..MaxStock \cup {None}]
  /\ active \in [Products -> BOOLEAN]
  /\ open \in [Hotels -> BOOLEAN]
  /\ pc \in [Requests -> Stages]
  /\ req \in [Requests -> Request \cup {None}]

\* What is taken of a product in one night, counted booking by booking.
NightUnits(p, night) ==
  Units({b \in RowsOf(p) : /\ rows[b].status \in Counted
                           /\ rows[b].checkIn <= night
                           /\ night < rows[b].checkOut})

\* A create that has counted still fits in every night of its stay, although
\* the code never looks at a night: whatever overlaps with the stay is
\* counted, and the locks keep stock and bookings as they were.
FitsEveryNight ==
  \A r \in Requests : pc[r] = "counted" =>
    \A night \in req[r].checkIn .. (req[r].checkOut - 1) :
      Cardinality(NightUnits(req[r].product, night)) + req[r].count <= stock[req[r].product]

\* What a request counts is what is taken in some night it asks for, and no
\* more: a stay that ends on the day another begins is not counted, and where
\* one night is asked for, the count is that of the night.
CountsItsNights ==
  \A p \in Products, in \in Nights, out \in 1..MaxNights :
    in < out /\ (p \in Tours => out = in + 1) =>
      BookedUnits(p, in, out) = UNION {NightUnits(p, night) : night \in in..(out - 1)}

\* The inductive invariant of the proofs.  A tour is a stay of one night, and
\* stays are not empty.
Stay(s) == s.checkIn < s.checkOut /\ (s.product \in Tours => s.checkOut = s.checkIn + 1)

RowsSound == \A b \in Bookings : Exists(b) => Stay(rows[b])

Creating(r) == pc[r] # "idle" /\ req[r].op = "create"

\* What a request knows of its place; a create has an identifier of its own.
RequestsSound ==
  /\ \A r \in Requests :
       /\ pc[r] # "idle" => req[r] \in Request
       /\ pc[r] \in {"locked", "counted"} => req[r] \in CreateReq
       /\ Creating(r) => req[r] \in CreateReq /\ Stay(req[r]) /\ ~Exists(req[r].booking)
  /\ \A r, s \in Requests :
       Creating(r) /\ Creating(s) /\ r # s => req[r].booking # req[s].booking

\* A product has one holder, and is not deleted under it.
Exclusive ==
  \A r \in Requests, p \in Products : HoldsProduct(r, p) =>
    /\ stock[p] \in Nat
    /\ \A s \in Requests : HoldsProduct(s, p) => s = r

\* The count of a create is still true.
StillFits(r) ==
  pc[r] = "counted" =>
    Cardinality(BookedUnits(req[r].product, req[r].checkIn, req[r].checkOut)) + req[r].count
      <= stock[req[r].product]

IndInv ==
  /\ TypeOK
  /\ RowsSound
  /\ RequestsSound
  /\ Exclusive
  /\ \A r \in Requests : StillFits(r)

\* A cancelled booking counts again: a confirmation or completion that
\* waited for the row acts on the copy it loaded before the cancellation.
Revives(b) ==
  /\ Exists(b) /\ rows[b].status = "cancelled"
  /\ rows'[b].status \in Counted

\* No step takes more of a product in a night than there is, except by
\* reviving a cancelled booking.
GrowthWithinStock ==
  [][\A p \in Products, night \in Nights :
       Cardinality(NightUnits(p, night))' > Cardinality(NightUnits(p, night)) =>
         \/ Cardinality(NightUnits(p, night)') <= stock'[p]
         \/ \E b \in Bookings : Revives(b)]_vars

ShelvedUnits(p, night) ==
  Units({b \in RowsOf(p) : /\ rows[b].status = "cancelled"
                           /\ rows[b].checkIn <= night
                           /\ night < rows[b].checkOut})

Ledger == INSTANCE StayLedger WITH
  Parties <- {{b} \X (1..n) : b \in Bookings, n \in 1..MaxCount},
  Closed  <- None,
  taken   <- [p \in Products |-> [night \in Nights |-> NightUnits(p, night)]],
  shelved <- [p \in Products |-> [night \in Nights |-> ShelvedUnits(p, night)]]

\* The bookings of rooms and tours implement the ledger of stays: a stay is
\* taken within the stock of all its nights or not at all, and is cancelled
\* and revived whole, although no code looks at a night.
LedgerSpec == Ledger!Spec

\* A create waits for its product, then for gaps; an action for its row.
WaitsFor(r, s) ==
  \/ /\ r # s /\ At(r, "begun") /\ req[r].op = "create"
     /\ HoldsProduct(s, req[r].product)
  \/ /\ r # s /\ At(r, "begun") /\ req[r].op \in Actions
     /\ Exists(req[r].booking) /\ HoldsRows(s, rows[req[r].booking].product)
  \/ WaitsForGap(r, s)

\* Wherever requests wait for each other in a circle, however long, two of
\* them wait for each other's gaps, and InnoDB rolls one back.
NoHiddenDeadlock ==
  \A D \in SUBSET Requests :
    D # {} /\ (\A r \in D : \E s \in D : WaitsFor(r, s)) =>
      \E r, s \in D : WaitsForGap(r, s) /\ WaitsForGap(s, r)

\* Every request ends, also when the first bookings of two products wait
\* for each other's gaps.
EveryRequestEnds == \A r \in Requests : pc[r] # "idle" ~> pc[r] = "idle"

=============================================================================
