--------------------------- MODULE BookingsProofs ---------------------------
(***************************************************************************)
(* What holds of the booking engine for every number of requests,          *)
(* bookings, trips, buses, dates and seats.                                *)
(***************************************************************************)
EXTENDS Bookings, FiniteSetTheorems, TLAPS

-----------------------------------------------------------------------------
(* Rows and requests have their fields.                                    *)

LEMMA RequestKinds ==
  ASSUME NEW q \in Request
  PROVE  /\ q.booking \in Bookings
         /\ q.op \in AllOps
         /\ q.op = "create" => q \in CreateReq
         /\ q.op = "edit" => q \in EditReq
         /\ q.op \in {"confirm", "complete"} => q \in ActionReq
         /\ q.op = "cancel" => q \in CancelReq
BY DEF Request, CreateReq, EditReq, ActionReq, CancelReq, AllOps

LEMMA NewRowType ==
  ASSUME NEW q \in CreateReq
  PROVE  NewRow(q) \in Row
<1>1. q.unit * q.quantity \in Nat
  BY BoundsAssumption DEF CreateReq
<1>2. HotelNotes(q.hotel) \in SUBSET NoteTags
  BY DEF HotelNotes, NoteTags
<1> QED
  BY <1>1, <1>2, NoneAssumption DEF NewRow, Row, CreateReq, Statuses, Counted

LEMMA EditRowType ==
  ASSUME NEW row \in Row, NEW q \in EditReq
  PROVE  EditRow(row, q) \in Row
<1>1. row.unit * q.quantity \in Nat
  BY BoundsAssumption DEF Row, EditReq
<1>2. HotelNotes(q.hotel) \in SUBSET NoteTags
  BY DEF HotelNotes, NoteTags
<1> QED
  BY <1>1, <1>2 DEF EditRow, Row, EditReq

LEMMA CancelledRowType ==
  ASSUME NEW row \in Row, NEW q \in CancelReq
  PROVE  CancelledRow(row, q) \in Row
<1>1. CancelLines(q.reason, q.refund) \in SUBSET NoteTags
  BY DEF CancelLines, NoteTags
<1> QED
  BY <1>1 DEF CancelledRow, Row, CancelReq, Statuses

LEMMA PatchedRowType ==
  ASSUME NEW row \in Row, NEW s \in Statuses, NEW reason \in BOOLEAN
  PROVE  PatchedRow(row, s, reason) \in Row
<1>1. CancelLines(reason, NeedsRefund(row)) \in SUBSET NoteTags
  BY DEF CancelLines, NoteTags
<1>2. row.confirmedAt \/ (s = "confirmed" /\ row.status = "pending") \in BOOLEAN
  BY DEF Row
<1> QED
  BY <1>1, <1>2 DEF PatchedRow, Row


\* A request in flight is a request, and the booking it is about is a row
\* unless the request creates it.
LEMMA InFlight ==
  ASSUME TypeOK, RequestsSound, NEW r \in Requests, pc[r] # "idle"
  PROVE  /\ req[r] \in Request
         /\ req[r].booking \in Bookings
         /\ req[r].op # "create" => rows[req[r].booking] \in Row
<1>1. req[r] \in Request
  BY DEF TypeOK, RequestsSound
<1>2. req[r].booking \in Bookings
  BY <1>1, RequestKinds
<1>3. req[r].op # "create" => Exists(req[r].booking)
  BY DEF RequestsSound
<1> QED
  BY <1>1, <1>2, <1>3 DEF TypeOK, Exists

-----------------------------------------------------------------------------
(* Type correctness.                                                       *)

LEMMA BeginType ==
  ASSUME TypeOK, NEW r \in Requests, NEW q \in Request, Begin(r, q)
  PROVE  TypeOK'
BY DEF Begin, TypeOK, Stages, catalog, locks

LEMMA FinishType ==
  ASSUME TypeOK, NEW r \in Requests, Finish(r)
  PROVE  /\ pc' \in [Requests -> Stages]
         /\ req' \in [Requests -> Request \cup {None}]
         /\ rowLock' \in [Bookings -> Requests \cup {None}]
         /\ tripLock' \in [Trips -> Requests \cup {None}]
         /\ busLock' \in [Buses -> Requests \cup {None}]
BY DEF Finish, Release, TypeOK, Stages

LEMMA RejectType ==
  ASSUME TypeOK, NEW r \in Requests, Reject(r)
  PROVE  TypeOK'
BY FinishType DEF Reject, TypeOK, catalog

LEMMA CommitType ==
  ASSUME TypeOK, NEW r \in Requests, Commit(r),
         rows' \in [Bookings -> Row \cup {None}]
  PROVE  TypeOK'
BY FinishType DEF Commit, TypeOK, catalog

LEMMA LockTripType ==
  ASSUME TypeOK, NEW r \in Requests, NEW t \in Trips, LockTrip(r, t)
  PROVE  TypeOK'
<1>1. CASE Reject(r)
  BY <1>1, RejectType
<1>2. CASE ~Reject(r)
  <2>1. /\ tripLock' \in [Trips -> Requests \cup {None}]
        /\ busLock' \in [Buses -> Requests \cup {None}]
        /\ pc' \in [Requests -> Stages]
    BY <1>2 DEF LockTrip, TypeOK, Stages
  <2>2. UNCHANGED <<rows, catalog, rowLock, req, forms>>
    BY <1>2 DEF LockTrip
  <2> QED
    BY <2>1, <2>2 DEF TypeOK, catalog
<1> QED
  BY <1>1, <1>2

LEMMA CountType ==
  ASSUME TypeOK, NEW r \in Requests, NEW t, NEW d, NEW B, CountAndCheck(r, t, d, B)
  PROVE  TypeOK'
<1>1. CASE Reject(r)
  BY <1>1, RejectType
<1>2. CASE ~Reject(r)
  BY <1>2 DEF CountAndCheck, TypeOK, Stages, catalog
<1> QED
  BY <1>1, <1>2

LEMMA EditWriteType ==
  ASSUME TypeOK, RequestsSound, NEW r \in Requests,
         pc[r] # "idle", req[r].op = "edit", EditWrite(r)
  PROVE  TypeOK'
<1>1. req[r] \in EditReq /\ rows[req[r].booking] \in Row
  BY InFlight, RequestKinds
<1>2. EditRow(rows[req[r].booking], req[r]) \in Row
  BY <1>1, EditRowType
<1>3. rows' \in [Bookings -> Row \cup {None}]
  BY <1>2 DEF EditWrite, TypeOK
<1> QED
  BY <1>3, CommitType DEF EditWrite

LEMMA StartType ==
  ASSUME TypeOK, NEW r \in Requests, Start(r)
  PROVE  TypeOK'
<1>1. CASE CreateBegin(r)
  <2>1. PICK b \in Bookings, t \in Trips, d \in Dates, n \in 1..MaxQuantity,
             m \in Methods, h \in Pickups, bl \in BOOLEAN :
          Begin(r, [op |-> "create", booking |-> b, trip |-> t, date |-> d,
                    quantity |-> n, unit |-> price[t][d], method |-> m,
                    hotel |-> h, blocked |-> bl])
    BY <1>1 DEF CreateBegin
  <2>2. h \in BOOLEAN /\ price[t][d] \in Nat
    BY BoundsAssumption DEF TypeOK, Tariff
  <2>3. [op |-> "create", booking |-> b, trip |-> t, date |-> d,
         quantity |-> n, unit |-> price[t][d], method |-> m,
         hotel |-> h, blocked |-> bl] \in Request
    BY <2>2 DEF Request, CreateReq
  <2> QED
    BY <2>1, <2>3, BeginType
<1>2. CASE EditBegin(r)
  <2>1. PICK b \in Bookings, n \in 1..MaxQuantity, h \in Pickups, bl \in BOOLEAN :
          /\ Exists(b)
          /\ Begin(r, [op |-> "edit", booking |-> b, quantity |-> n, hotel |-> h,
                       active |-> active[rows[b].trip], blocked |-> bl])
    BY <1>2 DEF EditBegin
  <2>2. rows[b] \in Row
    BY <2>1 DEF Exists, TypeOK
  <2>3. h \in BOOLEAN /\ active[rows[b].trip] \in BOOLEAN
    BY <2>2, BoundsAssumption DEF TypeOK, Row
  <2>4. [op |-> "edit", booking |-> b, quantity |-> n, hotel |-> h,
         active |-> active[rows[b].trip], blocked |-> bl] \in Request
    BY <2>3 DEF Request, EditReq
  <2> QED
    BY <2>1, <2>4, BeginType
<1>3. CASE ConfirmBegin(r)
  <2>1. PICK b \in Bookings : Begin(r, [op |-> "confirm", booking |-> b])
    BY <1>3 DEF ConfirmBegin
  <2>2. [op |-> "confirm", booking |-> b] \in Request
    BY DEF Request, ActionReq
  <2> QED
    BY <2>1, <2>2, BeginType
<1>4. CASE CompleteBegin(r)
  <2>1. PICK b \in Bookings : Begin(r, [op |-> "complete", booking |-> b])
    BY <1>4 DEF CompleteBegin
  <2>2. [op |-> "complete", booking |-> b] \in Request
    BY DEF Request, ActionReq
  <2> QED
    BY <2>1, <2>2, BeginType
<1>5. CASE CancelBegin(r)
  <2>1. PICK b \in Bookings, reason \in Reasons :
          /\ Exists(b)
          /\ Begin(r, [op |-> "cancel", booking |-> b, reason |-> reason,
                       notes |-> rows[b].notes, refund |-> NeedsRefund(rows[b])])
    BY <1>5 DEF CancelBegin
  <2>2. rows[b] \in Row /\ reason \in BOOLEAN
    BY <2>1, BoundsAssumption DEF Exists, TypeOK
  <2>3. NeedsRefund(rows[b]) \in BOOLEAN
    BY <2>2 DEF NeedsRefund, Row
  <2>4. [op |-> "cancel", booking |-> b, reason |-> reason,
         notes |-> rows[b].notes, refund |-> NeedsRefund(rows[b])] \in Request
    BY <2>2, <2>3 DEF Request, CancelReq, Row
  <2> QED
    BY <2>1, <2>4, BeginType
<1> QED
  BY <1>1, <1>2, <1>3, <1>4, <1>5 DEF Start

LEMMA ProceedType ==
  ASSUME TypeOK, RequestsSound, NEW r \in Requests, Proceed(r)
  PROVE  TypeOK'
<1> DEFINE b == req[r].booking
<1>0. pc[r] # "idle"
  BY DEF Proceed, CreateLockTrip, CreateCount, CreateCommit, EditLock, EditLockTrip,
         EditCount, EditCommit, ConfirmCommit, CompleteCommit, CancelCommit, At
<1>1. /\ req[r] \in Request /\ b \in Bookings
      /\ req[r].op # "create" => rows[b] \in Row /\ rows[b].trip \in Trips
  BY <1>0, InFlight DEF Row
<1>2. CASE CreateLockTrip(r)
  <2>1. req[r].trip \in Trips
    BY <1>1, <1>2, RequestKinds DEF CreateLockTrip, At, CreateReq
  <2> QED
    BY <1>2, <2>1, LockTripType DEF CreateLockTrip
<1>3. CASE CreateCount(r)
  BY <1>3, RejectType, CountType DEF CreateCount
<1>4. CASE CreateCommit(r)
  <2>1. NewRow(req[r]) \in Row
    BY <1>1, <1>4, RequestKinds, NewRowType DEF CreateCommit, At
  <2>2. rows' \in [Bookings -> Row \cup {None}]
    BY <1>4, <2>1 DEF CreateCommit, TypeOK
  <2> QED
    BY <1>4, <2>2, CommitType DEF CreateCommit
<1>5. CASE EditLock(r)
  <2>1. req[r].op = "edit"
    BY <1>5 DEF EditLock, At
  <2>2. CASE Reject(r)
    BY <2>2, RejectType
  <2>3. CASE EditWrite(r)
    BY <1>0, <2>1, <2>3, EditWriteType
  <2>4. CASE ~Reject(r) /\ ~EditWrite(r)
    BY <1>5, <2>4 DEF EditLock, TypeOK, Stages, catalog
  <2> QED
    BY <2>2, <2>3, <2>4
<1>6. CASE EditLockTrip(r)
  BY <1>1, <1>6, LockTripType DEF EditLockTrip, At
<1>7. CASE EditCount(r)
  BY <1>7, CountType DEF EditCount
<1>8. CASE EditCommit(r)
  BY <1>0, <1>8, EditWriteType DEF EditCommit, At
<1>9. CASE ConfirmCommit(r)
  <2>1. [rows[b] EXCEPT !.status = "confirmed", !.confirmedAt = TRUE] \in Row
    BY <1>1, <1>9 DEF ConfirmCommit, At, Row, Statuses, Counted
  <2>2. rows' \in [Bookings -> Row \cup {None}]
    BY <1>9, <2>1 DEF ConfirmCommit, TypeOK
  <2> QED
    BY <1>9, <2>2, CommitType DEF ConfirmCommit
<1>10. CASE CompleteCommit(r)
  <2>1. [rows[b] EXCEPT !.status = "completed"] \in Row
    BY <1>1, <1>10 DEF CompleteCommit, At, Row, Statuses, Counted
  <2>2. rows' \in [Bookings -> Row \cup {None}]
    BY <1>10, <2>1 DEF CompleteCommit, TypeOK
  <2> QED
    BY <1>10, <2>2, CommitType DEF CompleteCommit
<1>11. CASE CancelCommit(r)
  <2>1. CancelledRow(rows[b], req[r]) \in Row
    BY <1>1, <1>11, RequestKinds, CancelledRowType DEF CancelCommit, At
  <2>2. rows' \in [Bookings -> Row \cup {None}]
    BY <1>11, <2>1 DEF CancelCommit, TypeOK
  <2> QED
    BY <1>11, <2>2, CommitType DEF CancelCommit
<1> QED
  BY <1>2, <1>3, <1>4, <1>5, <1>6, <1>7, <1>8, <1>9, <1>10, <1>11 DEF Proceed

LEMMA PatchType ==
  ASSUME TypeOK, NEW b \in Bookings, NEW s \in PatchStatuses, NEW reason \in Reasons,
         Patch(b, s, reason)
  PROVE  TypeOK'
<1>1. rows[b] \in Row /\ s \in Statuses /\ reason \in BOOLEAN
  BY BoundsAssumption DEF Patch, Exists, TypeOK
<1>2. PatchedRow(rows[b], s, reason) \in Row
  BY <1>1, PatchedRowType
<1> QED
  BY <1>2 DEF Patch, TypeOK, catalog, locks

LEMMA PaymentType ==
  ASSUME TypeOK, Payment
  PROVE  TypeOK'
<1>1. ASSUME NEW b \in Bookings, Checkout(b)
      PROVE  TypeOK'
  <2>1. rows[b].total \in Nat
    BY <1>1 DEF Checkout, Exists, TypeOK, Row
  <2> QED
    BY <1>1, <2>1 DEF Checkout, TypeOK, catalog, locks
<1>2. ASSUME NEW f \in forms, NEW x \in TxIds \cup {None}, Ipn(f, x)
      PROVE  TypeOK'
  <2>0. f.booking \in Bookings /\ rows[f.booking] \in Row
    BY <1>2 DEF Ipn, Exists, TypeOK
  <2>1. [rows[f.booking] EXCEPT !.paid = TRUE, !.tx = x] \in Row
    BY <2>0 DEF Row
  <2> QED
    BY <1>2, <2>0, <2>1 DEF Ipn, TypeOK, catalog, locks
<1> QED
  BY <1>1, <1>2 DEF Payment

LEMMA CatalogueType ==
  ASSUME TypeOK, Catalogue
  PROVE  TypeOK'
<1>0. Prices \subseteq Nat
  BY BoundsAssumption
<1>1. ASSUME NEW k \in Buses, NEW n \in 1..MaxSeats, SetSeats(k, n)
      PROVE  TypeOK'
  <2>1. seatCount' \in [Buses -> 0..MaxSeats]
    BY <1>1, BoundsAssumption DEF SetSeats, TypeOK
  <2> QED
    BY <1>1, <2>1 DEF SetSeats, TypeOK, locks
<1>2. ASSUME NEW t \in Trips, NEW k \in Buses, NEW on \in BOOLEAN,
             NEW P \in [Dates -> Prices], UpdateTrip(t, k, on, P)
      PROVE  TypeOK'
  <2>1. P \in Tariff
    BY <1>0 DEF Tariff
  <2>2. price' \in [Trips -> Tariff]
    BY <1>2, <2>1 DEF UpdateTrip, TypeOK
  <2>3. busOf' \in [Trips -> Buses] /\ active' \in [Trips -> BOOLEAN]
    BY <1>2 DEF UpdateTrip, TypeOK
  <2> QED
    BY <1>2, <2>2, <2>3 DEF UpdateTrip, TypeOK, locks
<1>3. ASSUME NEW P \in [Trips -> [Dates -> Prices]], SetSurcharges(P)
      PROVE  TypeOK'
  <2>1. P \in [Trips -> Tariff]
    BY <1>0 DEF Tariff
  <2> QED
    BY <1>3, <2>1 DEF SetSurcharges, TypeOK, locks
<1>4. ASSUME NEW t \in Trips, NEW D \in SUBSET Dates, NEW closes \in BOOLEAN, NEW blk,
             CreateBlock(t, D) \/ UpdateBlock(blk, t, D, closes)
      PROVE  TypeOK'
  <2>1. blocks' \subseteq Block
    <3>1. blocks \subseteq Block
      BY DEF TypeOK
    <3>2. [trip |-> t, dates |-> D, closes |-> TRUE] \in Block
      BY DEF Block
    <3>3. [trip |-> t, dates |-> D, closes |-> closes] \in Block
      BY DEF Block
    <3> QED
      BY <1>4, <3>1, <3>2, <3>3 DEF CreateBlock, UpdateBlock
  <2> QED
    BY <1>4, <2>1 DEF CreateBlock, UpdateBlock, TypeOK, locks
<1>5. ASSUME NEW blk \in blocks, DeleteBlock(blk)
      PROVE  TypeOK'
  BY <1>5 DEF DeleteBlock, TypeOK, locks
<1> QED
  BY <1>1, <1>2, <1>3, <1>4, <1>5 DEF Catalogue

-----------------------------------------------------------------------------
(* What a request in flight knows stays true.                              *)

\* The request ends, and no row appears but the one it creates.
LEMMA FinishSound ==
  ASSUME TypeOK, RequestsSound, NEW r \in Requests, Finish(r),
         \A b \in Bookings :
           \/ rows'[b] # None <=> rows[b] # None
           \/ pc[r] # "idle" /\ req[r].op = "create" /\ b = req[r].booking
  PROVE  RequestsSound'
<1>1. /\ pc'[r] = "idle" /\ req'[r] = None
      /\ \A s \in Requests : s # r => pc'[s] = pc[s] /\ req'[s] = req[s]
  BY DEF Finish, TypeOK
<1>2. ASSUME NEW s \in Requests, s # r, pc[s] # "idle"
      PROVE  rows'[req[s].booking] # None <=> rows[req[s].booking] # None
  <2>1. req[s].booking \in Bookings
    BY <1>2, InFlight
  <2>2. CASE pc[r] # "idle" /\ req[r].op = "create" /\ req[s].booking = req[r].booking
    <3>1. rows[req[s].booking] = None <=> req[s].op = "create"
      BY <1>2 DEF RequestsSound, Exists
    <3>2. rows[req[r].booking] = None
      BY <2>2 DEF RequestsSound, Exists
    <3> QED
      BY <1>2, <2>2, <3>1, <3>2 DEF RequestsSound
  <2> QED
    BY <1>2, <2>1, <2>2
<1>3. \A s \in Requests :
        /\ pc'[s] = "idle" <=> req'[s] = None
        /\ pc'[s] # "idle" => req'[s].op \in Ops
        /\ pc'[s] \in {"tripLocked", "counted"} => req'[s].op \in {"create", "edit"}
        /\ pc'[s] = "rowLocked" => req'[s].op = "edit"
  BY <1>1 DEF RequestsSound
<1>4. \A s \in Requests :
        pc'[s] # "idle" => (req'[s].op = "create" <=> ~(rows'[req'[s].booking] # None))
  BY <1>1, <1>2 DEF RequestsSound, Exists
<1>5. \A s, u \in Requests :
        /\ s # u
        /\ pc'[s] # "idle" /\ req'[s].op = "create"
        /\ pc'[u] # "idle" /\ req'[u].op = "create"
        => req'[s].booking # req'[u].booking
  BY <1>1 DEF RequestsSound
<1> QED
  BY <1>3, <1>4, <1>5 DEF RequestsSound, Exists

\* No request starts, moves or ends, and no row appears or goes.
LEMMA StaySound ==
  ASSUME TypeOK, RequestsSound, pc' = pc, req' = req,
         \A b \in Bookings : rows'[b] # None <=> rows[b] # None
  PROVE  RequestsSound'
<1>1. \A s \in Requests : pc[s] # "idle" => req[s].booking \in Bookings
  BY InFlight
<1> QED
  BY <1>1 DEF RequestsSound, Exists

\* A request moves on to a stage that its kind has.
LEMMA MoveSound ==
  ASSUME TypeOK, RequestsSound, NEW r \in Requests, NEW stage, pc[r] # "idle",
         \/ stage = "rowLocked" /\ req[r].op = "edit"
         \/ stage \in {"tripLocked", "counted"} /\ req[r].op \in {"create", "edit"},
         pc' = [pc EXCEPT ![r] = stage], req' = req, rows' = rows
  PROVE  RequestsSound'
BY DEF RequestsSound, Exists, TypeOK

\* A request begins: a create on an identifier that is neither used nor
\* reserved, any other on a row.
LEMMA BeginSound ==
  ASSUME TypeOK, RequestsSound, NEW r \in Requests, NEW q \in Request, Begin(r, q),
         q.op = "create" <=> ~Exists(q.booking),
         q.op = "create" => q.booking \notin Reserved
  PROVE  RequestsSound'
<1>1. /\ pc[r] = "idle" /\ pc'[r] = "begun" /\ req'[r] = q /\ q.op \in Ops /\ rows' = rows
      /\ \A s \in Requests : s # r => pc'[s] = pc[s] /\ req'[s] = req[s]
  BY DEF Begin, TypeOK
<1>2. q # None
  BY NoneAssumption
<1>3. \A s \in Requests :
        q.op = "create" /\ pc[s] # "idle" /\ req[s].op = "create" => req[s].booking # q.booking
  BY DEF Reserved
<1>4. \A s \in Requests :
        /\ pc'[s] = "idle" <=> req'[s] = None
        /\ pc'[s] # "idle" => req'[s].op \in Ops
        /\ pc'[s] # "idle" => (req'[s].op = "create" <=> ~(rows[req'[s].booking] # None))
        /\ pc'[s] \in {"tripLocked", "counted"} => req'[s].op \in {"create", "edit"}
        /\ pc'[s] = "rowLocked" => req'[s].op = "edit"
  BY <1>1, <1>2 DEF RequestsSound, Exists
<1>5. \A s, u \in Requests :
        /\ s # u
        /\ pc'[s] # "idle" /\ req'[s].op = "create"
        /\ pc'[u] # "idle" /\ req'[u].op = "create"
        => req'[s].booking # req'[u].booking
  BY <1>1, <1>3 DEF RequestsSound
<1> QED
  BY <1>1, <1>4, <1>5 DEF RequestsSound, Exists

LEMMA StartSound ==
  ASSUME TypeOK, RequestsSound, NEW r \in Requests, Start(r)
  PROVE  RequestsSound'
<1>1. CASE CreateBegin(r)
  <2>1. PICK b \in Bookings, t \in Trips, d \in Dates, n \in 1..MaxQuantity,
             m \in Methods, h \in Pickups, bl \in BOOLEAN :
          /\ ~Exists(b) /\ b \notin Reserved
          /\ Begin(r, [op |-> "create", booking |-> b, trip |-> t, date |-> d,
                       quantity |-> n, unit |-> price[t][d], method |-> m,
                       hotel |-> h, blocked |-> bl])
    BY <1>1 DEF CreateBegin
  <2>2. h \in BOOLEAN /\ price[t][d] \in Nat
    BY BoundsAssumption DEF TypeOK, Tariff
  <2>3. [op |-> "create", booking |-> b, trip |-> t, date |-> d,
         quantity |-> n, unit |-> price[t][d], method |-> m,
         hotel |-> h, blocked |-> bl] \in Request
    BY <2>2 DEF Request, CreateReq
  <2> QED
    BY <2>1, <2>3, BeginSound
<1>2. CASE EditBegin(r)
  <2>1. PICK b \in Bookings, n \in 1..MaxQuantity, h \in Pickups, bl \in BOOLEAN :
          /\ Exists(b)
          /\ Begin(r, [op |-> "edit", booking |-> b, quantity |-> n, hotel |-> h,
                       active |-> active[rows[b].trip], blocked |-> bl])
    BY <1>2 DEF EditBegin
  <2>2. rows[b] \in Row
    BY <2>1 DEF Exists, TypeOK
  <2>3. h \in BOOLEAN /\ active[rows[b].trip] \in BOOLEAN
    BY <2>2, BoundsAssumption DEF TypeOK, Row
  <2>4. [op |-> "edit", booking |-> b, quantity |-> n, hotel |-> h,
         active |-> active[rows[b].trip], blocked |-> bl] \in Request
    BY <2>3 DEF Request, EditReq
  <2> QED
    BY <2>1, <2>4, BeginSound
<1>3. CASE ConfirmBegin(r)
  <2>1. PICK b \in Bookings : Exists(b) /\ Begin(r, [op |-> "confirm", booking |-> b])
    BY <1>3 DEF ConfirmBegin
  <2>2. [op |-> "confirm", booking |-> b] \in Request
    BY DEF Request, ActionReq
  <2> QED
    BY <2>1, <2>2, BeginSound
<1>4. CASE CompleteBegin(r)
  <2>1. PICK b \in Bookings : Exists(b) /\ Begin(r, [op |-> "complete", booking |-> b])
    BY <1>4 DEF CompleteBegin
  <2>2. [op |-> "complete", booking |-> b] \in Request
    BY DEF Request, ActionReq
  <2> QED
    BY <2>1, <2>2, BeginSound
<1>5. CASE CancelBegin(r)
  <2>1. PICK b \in Bookings, reason \in Reasons :
          /\ Exists(b)
          /\ Begin(r, [op |-> "cancel", booking |-> b, reason |-> reason,
                       notes |-> rows[b].notes, refund |-> NeedsRefund(rows[b])])
    BY <1>5 DEF CancelBegin
  <2>2. rows[b] \in Row /\ reason \in BOOLEAN
    BY <2>1, BoundsAssumption DEF Exists, TypeOK
  <2>3. NeedsRefund(rows[b]) \in BOOLEAN
    BY <2>2 DEF NeedsRefund, Row
  <2>4. [op |-> "cancel", booking |-> b, reason |-> reason,
         notes |-> rows[b].notes, refund |-> NeedsRefund(rows[b])] \in Request
    BY <2>2, <2>3 DEF Request, CancelReq, Row
  <2> QED
    BY <2>1, <2>4, BeginSound
<1> QED
  BY <1>1, <1>2, <1>3, <1>4, <1>5 DEF Start

\* What a request that goes on may do: end without a trace, lock and move on,
\* or write the booking it is about and end.
LEMMA ProceedCases ==
  ASSUME TypeOK, RequestsSound, NEW r \in Requests, Proceed(r)
  PROVE  /\ pc[r] # "idle"
         /\ \/ Reject(r)
            \/ \E stage \in Stages :
                 /\ \/ stage = "rowLocked" /\ req[r].op = "edit"
                    \/ stage \in {"tripLocked", "counted"} /\ req[r].op \in {"create", "edit"}
                 /\ pc' = [pc EXCEPT ![r] = stage]
                 /\ UNCHANGED <<rows, catalog, req, forms>>
            \/ /\ Commit(r)
               /\ \E row \in Row : rows' = [rows EXCEPT ![req[r].booking] = row]
<1> DEFINE b == req[r].booking
<1>0. pc[r] # "idle"
  BY DEF Proceed, CreateLockTrip, CreateCount, CreateCommit, EditLock, EditLockTrip,
         EditCount, EditCommit, ConfirmCommit, CompleteCommit, CancelCommit, At
<1>1. /\ req[r] \in Request /\ b \in Bookings
      /\ req[r].op # "create" => rows[b] \in Row
  BY <1>0, InFlight
<1>2. CASE CreateLockTrip(r) \/ EditLockTrip(r)
  BY <1>0, <1>1, <1>2, RequestKinds DEF CreateLockTrip, EditLockTrip, LockTrip, At, Stages,
     RequestsSound
<1>3. CASE CreateCount(r) \/ EditCount(r)
  BY <1>0, <1>3 DEF CreateCount, EditCount, CountAndCheck, At, Stages
<1>4. CASE EditWrite(r) /\ req[r].op = "edit"
  <2>1. EditRow(rows[b], req[r]) \in Row
    BY <1>1, <1>4, RequestKinds, EditRowType
  <2> QED
    BY <1>0, <1>4, <2>1 DEF EditWrite
<1>5. CASE EditLock(r) \/ EditCommit(r)
  BY <1>0, <1>4, <1>5 DEF EditLock, EditCommit, At, Stages
<1>6. CASE CreateCommit(r)
  <2>1. NewRow(req[r]) \in Row
    BY <1>1, <1>6, RequestKinds, NewRowType DEF CreateCommit, At
  <2> QED
    BY <1>0, <1>6, <2>1 DEF CreateCommit
<1>7. CASE ConfirmCommit(r)
  <2>1. [rows[b] EXCEPT !.status = "confirmed", !.confirmedAt = TRUE] \in Row
    BY <1>1, <1>7 DEF ConfirmCommit, At, Row, Statuses, Counted
  <2> QED
    BY <1>0, <1>1, <1>7, <2>1 DEF ConfirmCommit, TypeOK
<1>8. CASE CompleteCommit(r)
  <2>1. [rows[b] EXCEPT !.status = "completed"] \in Row
    BY <1>1, <1>8 DEF CompleteCommit, At, Row, Statuses, Counted
  <2> QED
    BY <1>0, <1>1, <1>8, <2>1 DEF CompleteCommit, TypeOK
<1>9. CASE CancelCommit(r)
  <2>1. CancelledRow(rows[b], req[r]) \in Row
    BY <1>1, <1>9, RequestKinds, CancelledRowType DEF CancelCommit, At
  <2> QED
    BY <1>0, <1>1, <1>9, <2>1 DEF CancelCommit, TypeOK
<1> QED
  BY <1>2, <1>3, <1>5, <1>6, <1>7, <1>8, <1>9 DEF Proceed

LEMMA ProceedSound ==
  ASSUME TypeOK, RequestsSound, NEW r \in Requests, Proceed(r)
  PROVE  RequestsSound'
<1> DEFINE b == req[r].booking
<1>0. pc[r] # "idle" /\ b \in Bookings
  BY ProceedCases, InFlight
<1>1. CASE Reject(r)
  BY <1>1, FinishSound DEF Reject
<1>2. ASSUME NEW stage \in Stages,
             \/ stage = "rowLocked" /\ req[r].op = "edit"
             \/ stage \in {"tripLocked", "counted"} /\ req[r].op \in {"create", "edit"},
             pc' = [pc EXCEPT ![r] = stage], rows' = rows, req' = req
      PROVE  RequestsSound'
  BY <1>0, <1>2, MoveSound
<1>3. ASSUME NEW row \in Row, Commit(r), rows' = [rows EXCEPT ![b] = row]
      PROVE  RequestsSound'
  <2>1. rows'[b] # None
    BY <1>0, <1>3, NoneAssumption DEF TypeOK
  <2>2. req[r].op # "create" => rows[b] # None
    BY <1>0 DEF RequestsSound, Exists
  <2>3. \A c \in Bookings :
          \/ rows'[c] # None <=> rows[c] # None
          \/ pc[r] # "idle" /\ req[r].op = "create" /\ c = req[r].booking
    BY <1>0, <1>3, <2>1, <2>2 DEF TypeOK
  <2> QED
    BY <1>3, <2>3, FinishSound DEF Commit
<1> QED
  BY <1>1, <1>2, <1>3, ProceedCases

\* A patch or a notified payment writes a row that is there already; a
\* checkout and the catalogue write none.
LEMMA WriteKeepsRows ==
  ASSUME TypeOK, NEW b \in Bookings, Exists(b), NEW row \in Row,
         rows' = [rows EXCEPT ![b] = row]
  PROVE  \A c \in Bookings : rows'[c] # None <=> rows[c] # None
BY NoneAssumption DEF Exists, TypeOK

LEMMA PatchSound ==
  ASSUME TypeOK, RequestsSound, NEW b \in Bookings, NEW s \in PatchStatuses,
         NEW reason \in Reasons, Patch(b, s, reason)
  PROVE  RequestsSound'
<1>1. rows[b] \in Row /\ s \in Statuses /\ reason \in BOOLEAN
  BY BoundsAssumption DEF Patch, Exists, TypeOK
<1>2. PatchedRow(rows[b], s, reason) \in Row
  BY <1>1, PatchedRowType
<1> QED
  BY <1>2, WriteKeepsRows, StaySound DEF Patch

LEMMA PaymentSound ==
  ASSUME TypeOK, RequestsSound, Payment
  PROVE  RequestsSound'
<1>1. ASSUME NEW b \in Bookings, Checkout(b)
      PROVE  RequestsSound'
  BY <1>1, StaySound DEF Checkout
<1>2. ASSUME NEW f \in forms, NEW x \in TxIds \cup {None}, Ipn(f, x)
      PROVE  RequestsSound'
  <2>1. f.booking \in Bookings /\ rows[f.booking] \in Row
    BY <1>2 DEF Ipn, Exists, TypeOK
  <2>2. [rows[f.booking] EXCEPT !.paid = TRUE, !.tx = x] \in Row
    BY <2>1 DEF Row
  <2>3. rows' = [rows EXCEPT ![f.booking] = [rows[f.booking] EXCEPT !.paid = TRUE, !.tx = x]]
    BY <1>2, <2>1 DEF Ipn, TypeOK
  <2>4. \A c \in Bookings : rows'[c] # None <=> rows[c] # None
    BY <1>2, <2>1, <2>2, <2>3, WriteKeepsRows DEF Ipn
  <2> QED
    BY <1>2, <2>4, StaySound DEF Ipn
<1> QED
  BY <1>1, <1>2 DEF Payment

LEMMA CatalogueSound ==
  ASSUME TypeOK, RequestsSound, Catalogue
  PROVE  RequestsSound'
<1>1. rows' = rows /\ pc' = pc /\ req' = req
  BY DEF Catalogue, SetSeats, UpdateTrip, SetSurcharges, CreateBlock, UpdateBlock, DeleteBlock
<1> QED
  BY <1>1, StaySound

LEMMA StutterSound ==
  ASSUME TypeOK, RequestsSound, UNCHANGED vars
  PROVE  TypeOK' /\ RequestsSound'
BY StaySound DEF vars, catalog, locks, TypeOK

-----------------------------------------------------------------------------

LEMMA InitTypeSound ==
  ASSUME Init
  PROVE  TypeOK /\ RequestsSound
<1>1. price \in [Trips -> Tariff]
  <2>1. price \in [Trips -> [Dates -> Prices]] /\ Prices \subseteq Nat
    BY BoundsAssumption DEF Init
  <2> QED
    BY <2>1 DEF Tariff
<1>2. seatCount \in [Buses -> 0..MaxSeats]
  <2>1. 1..MaxSeats \subseteq 0..MaxSeats
    BY BoundsAssumption
  <2> QED
    BY <2>1 DEF Init
<1>3. TypeOK
  BY <1>1, <1>2 DEF Init, TypeOK, Stages
<1>4. RequestsSound
  BY DEF Init, RequestsSound
<1> QED
  BY <1>3, <1>4

LEMMA StepTypeSound ==
  ASSUME TypeOK, RequestsSound, [Next]_vars
  PROVE  TypeOK' /\ RequestsSound'
<1>1. ASSUME NEW r \in Requests, Start(r) \/ Proceed(r)
      PROVE  TypeOK' /\ RequestsSound'
  BY <1>1, StartType, ProceedType, StartSound, ProceedSound
<1>2. ASSUME NEW r \in Requests, Abort(r) \/ DeadlockVictim(r)
      PROVE  TypeOK' /\ RequestsSound'
  BY <1>2, RejectType, FinishSound DEF Abort, DeadlockVictim, Reject
<1>3. ASSUME NEW b \in Bookings, NEW s \in PatchStatuses, NEW reason \in Reasons,
             Patch(b, s, reason)
      PROVE  TypeOK' /\ RequestsSound'
  BY <1>3, PatchType, PatchSound
<1>4. CASE Payment
  BY <1>4, PaymentType, PaymentSound
<1>5. CASE Catalogue
  BY <1>5, CatalogueType, CatalogueSound
<1>6. CASE UNCHANGED vars
  BY <1>6, StutterSound
<1> QED
  BY <1>1, <1>2, <1>3, <1>4, <1>5, <1>6 DEF Next

\* The tables, the locks and the requests keep their shape, whatever runs.
THEOREM TypeCorrect == Spec => []TypeOK
<1>1. Init => TypeOK /\ RequestsSound
  BY InitTypeSound
<1>2. TypeOK /\ RequestsSound /\ [Next]_vars => (TypeOK /\ RequestsSound)'
  BY StepTypeSound
<1> QED
  BY <1>1, <1>2, PTL DEF Spec

-----------------------------------------------------------------------------
(* The locks, and the seats they hold.  Holds and Safe are what LocksHeld  *)
(* and SeatsHeld say of one request.                                       *)

Holds(r) ==
  /\ pc[r] \in {"tripLocked", "counted"} =>
       tripLock[TripOf(r)] = r /\ busLock[busOf[TripOf(r)]] = r
  /\ pc[r] \in {"rowLocked", "tripLocked", "counted"} /\ req[r].op = "edit" =>
       rowLock[req[r].booking] = r
  /\ pc[r] = "counted" => \A b \in RowsOf(TripOf(r)) : rowLock[b] = r

Safe(r) ==
  pc[r] = "counted" =>
    Cardinality(SeatsSoldTo(CountedBy(r), TripOf(r), DateOf(r))) + req[r].quantity
      <= Seats(TripOf(r))

LEMMA OneByOne ==
  /\ LocksHeld <=> \A r \in Requests : Holds(r)
  /\ SeatsHeld <=> \A r \in Requests : Safe(r)
BY DEF LocksHeld, SeatsHeld, Holds, Safe

\* A step leaves request s, its locks and what they protect as they are; it
\* puts no booking on a trip that s has locked.
Undisturbed(s) ==
  /\ pc'[s] = pc[s] /\ req'[s] = req[s]
  /\ \A b \in Bookings :
       rowLock[b] = s => rowLock'[b] = s /\ (rows[b] # None => rows'[b] = rows[b])
  /\ \A t \in Trips : tripLock[t] = s => tripLock'[t] = s /\ busOf'[t] = busOf[t]
  /\ \A k \in Buses : busLock[k] = s => busLock'[k] = s /\ seatCount'[k] = seatCount[k]
  /\ \A b \in Bookings :
       \/ rows'[b] = rows[b]
       \/ rows[b] # None /\ rows'[b] # None /\ rows'[b].trip = rows[b].trip
       \/ rows'[b] # None /\ tripLock[rows'[b].trip] # s

\* The trip a request beyond its first stage is about.
LEMMA TripKnown ==
  ASSUME TypeOK, RequestsSound, NEW s \in Requests, pc[s] # "idle"
  PROVE  /\ TripOf(s) \in Trips
         /\ CountedBy(s) \subseteq Bookings
         /\ req[s].op \in {"create", "edit"} => req[s].quantity \in 1..MaxQuantity
<1>1. CASE req[s].op = "create"
  BY <1>1, InFlight, RequestKinds DEF TripOf, CountedBy, CreateReq
<1>2. CASE req[s].op # "create"
  BY <1>2, InFlight, RequestKinds DEF TripOf, CountedBy, EditReq, Row
<1> QED
  BY <1>1, <1>2

LEMMA UndisturbedTrip ==
  ASSUME TypeOK, RequestsSound, NEW s \in Requests, Holds(s), Undisturbed(s),
         pc[s] \in {"rowLocked", "tripLocked", "counted"}
  PROVE  /\ TripOf(s)' = TripOf(s) /\ DateOf(s)' = DateOf(s)
         /\ CountedBy(s)' = CountedBy(s)
<1>1. CASE req[s].op = "create"
  BY <1>1 DEF Undisturbed, TripOf, DateOf, CountedBy
<1>2. CASE req[s].op = "edit"
  <2>1. req[s].booking \in Bookings /\ rows[req[s].booking] # None
    BY <1>2, InFlight, NoneAssumption
  <2>2. rowLock[req[s].booking] = s
    BY <1>2 DEF Holds
  <2>3. rows'[req[s].booking] = rows[req[s].booking]
    BY <2>1, <2>2 DEF Undisturbed
  <2> QED
    BY <1>2, <2>3 DEF Undisturbed, TripOf, DateOf, CountedBy
<1> QED
  BY <1>1, <1>2 DEF RequestsSound

\* The rows of the trip that s has counted.
LEMMA UndisturbedRows ==
  ASSUME TypeOK, RequestsSound, NEW s \in Requests, Holds(s), Undisturbed(s),
         pc[s] = "counted", NEW b \in Bookings,
         \/ rows[b] # None /\ rows[b].trip = TripOf(s)
         \/ rows'[b] # None /\ rows'[b].trip = TripOf(s)
  PROVE  rows'[b] = rows[b]
<1>1. TripOf(s) \in Trips /\ tripLock[TripOf(s)] = s
  BY TripKnown DEF Holds
<1>2. rows[b] # None /\ rows[b].trip = TripOf(s) => rowLock[b] = s
  BY DEF Holds, RowsOf, Exists
<1> QED
  BY <1>1, <1>2 DEF Undisturbed

LEMMA UndisturbedHolds ==
  ASSUME TypeOK, RequestsSound, NEW s \in Requests, Holds(s), Undisturbed(s)
  PROVE  Holds(s)'
<1>1. ASSUME pc[s] \in {"tripLocked", "counted"}
      PROVE  tripLock'[TripOf(s)'] = s /\ busLock'[busOf'[TripOf(s)']] = s
  <2>1. TripOf(s)' = TripOf(s) /\ TripOf(s) \in Trips
    BY <1>1, UndisturbedTrip, TripKnown
  <2>2. busOf[TripOf(s)] \in Buses
    BY <2>1 DEF TypeOK
  <2> QED
    BY <1>1, <2>1, <2>2 DEF Holds, Undisturbed
<1>2. ASSUME pc[s] \in {"rowLocked", "tripLocked", "counted"}, req[s].op = "edit"
      PROVE  rowLock'[req'[s].booking] = s
  BY <1>2, InFlight DEF Holds, Undisturbed
<1>3. ASSUME pc[s] = "counted"
      PROVE  \A b \in Bookings : rows'[b] # None /\ rows'[b].trip = TripOf(s)' => rowLock'[b] = s
  <2>1. TripOf(s)' = TripOf(s)
    BY <1>3, UndisturbedTrip
  <2>2. ASSUME NEW b \in Bookings, rows'[b] # None, rows'[b].trip = TripOf(s)
        PROVE  rowLock'[b] = s
    <3>1. rows'[b] = rows[b]
      BY <1>3, <2>2, UndisturbedRows
    <3>2. rowLock[b] = s
      BY <1>3, <2>2, <3>1 DEF Holds, RowsOf, Exists
    <3> QED
      BY <3>2 DEF Undisturbed
  <2> QED
    BY <2>1, <2>2
<1>4. pc'[s] = pc[s] /\ req'[s] = req[s]
  BY DEF Undisturbed
<1> QED
  BY <1>1, <1>2, <1>3, <1>4 DEF Holds, RowsOf, Exists

LEMMA UndisturbedSafe ==
  ASSUME TypeOK, RequestsSound, NEW s \in Requests, Holds(s), Undisturbed(s), Safe(s)
  PROVE  Safe(s)'
<1> SUFFICES ASSUME pc[s] = "counted"
             PROVE  Safe(s)'
  BY DEF Safe, Undisturbed
<1>1. TripOf(s)' = TripOf(s) /\ DateOf(s)' = DateOf(s) /\ CountedBy(s)' = CountedBy(s)
  BY UndisturbedTrip
<1>2. TripOf(s) \in Trips /\ CountedBy(s) \subseteq Bookings
  BY TripKnown
<1>3. SeatsSoldTo(CountedBy(s), TripOf(s), DateOf(s))'
        = SeatsSoldTo(CountedBy(s), TripOf(s), DateOf(s))
  <2>1. \A b \in Bookings :
          \/ rows[b] # None /\ rows[b].trip = TripOf(s)
          \/ rows'[b] # None /\ rows'[b].trip = TripOf(s)
          => rows'[b] = rows[b]
    BY UndisturbedRows
  <2> QED
    BY <1>1, <1>2, <2>1 DEF SeatsSoldTo, Exists
<1>4. Seats(TripOf(s))' = Seats(TripOf(s))
  <2>1. tripLock[TripOf(s)] = s /\ busLock[busOf[TripOf(s)]] = s
    BY DEF Holds
  <2>2. busOf[TripOf(s)] \in Buses
    BY <1>2 DEF TypeOK
  <2> QED
    BY <1>1, <1>2, <2>1, <2>2 DEF Undisturbed, Seats
<1> QED
  BY <1>3, <1>4 DEF Safe, Undisturbed

-----------------------------------------------------------------------------
(* What a step disturbs.                                                   *)

\* What the actions of a request that goes on have in common.
TakesRow(r) ==
  /\ At(r, "edit", "begun")
  /\ RowFree(req[r].booking)
  /\ rowLock' = [rowLock EXCEPT ![req[r].booking] = r]
  /\ pc' = [pc EXCEPT ![r] = "rowLocked"]
  /\ UNCHANGED <<rows, catalog, tripLock, busLock, req, forms>>

TakesTrip(r) ==
  /\ At(r, "create", "begun") \/ At(r, "edit", "rowLocked")
  /\ LockTrip(r, TripOf(r)) /\ ~Reject(r)

Counts(r) ==
  /\ pc[r] = "tripLocked"
  /\ CountAndCheck(r, TripOf(r), DateOf(r), CountedBy(r)) /\ ~Reject(r)

Inserts(r) == CreateCommit(r)

Updates(r) ==
  /\ pc[r] # "idle" /\ req[r].op # "create"
  /\ RowFree(req[r].booking) \/ At(r, "edit", "counted")
  /\ \E row \in Row :
       /\ row.trip = rows[req[r].booking].trip
       /\ row.date = rows[req[r].booking].date
       /\ \/ row.quantity = rows[req[r].booking].quantity
          \/ At(r, "edit", "counted") /\ row.quantity = req[r].quantity
       /\ rows' = [rows EXCEPT ![req[r].booking] = row]
  /\ Commit(r)

LEMMA ProceedKinds ==
  ASSUME TypeOK, RequestsSound, NEW r \in Requests, Proceed(r)
  PROVE  Reject(r) \/ TakesRow(r) \/ TakesTrip(r) \/ Counts(r) \/ Inserts(r) \/ Updates(r)
<1> DEFINE b == req[r].booking
<1>0. pc[r] # "idle"
  BY ProceedCases
<1>1. /\ req[r] \in Request /\ b \in Bookings
      /\ req[r].op # "create" => rows[b] \in Row
  BY <1>0, InFlight
<1>2. CASE CreateLockTrip(r) \/ EditLockTrip(r)
  BY <1>2 DEF CreateLockTrip, EditLockTrip, TakesTrip, At, TripOf
<1>3. CASE CreateCount(r) \/ EditCount(r)
  BY <1>3 DEF CreateCount, EditCount, Counts, At, TripOf, DateOf, CountedBy
<1>4. CASE /\ EditWrite(r) /\ req[r].op = "edit"
           /\ \/ RowFree(b) /\ req[r].quantity = rows[b].quantity
              \/ At(r, "edit", "counted")
  <2>1. EditRow(rows[b], req[r]) \in Row
    BY <1>1, <1>4, RequestKinds, EditRowType
  <2>2. /\ EditRow(rows[b], req[r]).trip = rows[b].trip
        /\ EditRow(rows[b], req[r]).date = rows[b].date
        /\ EditRow(rows[b], req[r]).quantity = req[r].quantity
    BY <1>1, <1>4 DEF EditRow, Row
  <2> QED
    BY <1>0, <1>4, <2>1, <2>2 DEF EditWrite, Updates
<1>5. CASE EditLock(r) \/ EditCommit(r)
  BY <1>4, <1>5 DEF EditLock, EditCommit, At, TakesRow
<1>6. CASE CreateCommit(r)
  BY <1>6 DEF Inserts
<1>7. CASE ConfirmCommit(r)
  <2> DEFINE row == [rows[b] EXCEPT !.status = "confirmed", !.confirmedAt = TRUE]
  <2>1. /\ row \in Row /\ row.trip = rows[b].trip /\ row.date = rows[b].date
        /\ row.quantity = rows[b].quantity
    BY <1>1, <1>7 DEF ConfirmCommit, At, Row, Statuses, Counted
  <2>2. rows' = [rows EXCEPT ![b] = row]
    BY <1>1, <1>7 DEF ConfirmCommit, TypeOK
  <2> QED
    BY <1>0, <1>7, <2>1, <2>2 DEF ConfirmCommit, At, Updates
<1>8. CASE CompleteCommit(r)
  <2> DEFINE row == [rows[b] EXCEPT !.status = "completed"]
  <2>1. /\ row \in Row /\ row.trip = rows[b].trip /\ row.date = rows[b].date
        /\ row.quantity = rows[b].quantity
    BY <1>1, <1>8 DEF CompleteCommit, At, Row, Statuses, Counted
  <2>2. rows' = [rows EXCEPT ![b] = row]
    BY <1>1, <1>8 DEF CompleteCommit, TypeOK
  <2> QED
    BY <1>0, <1>8, <2>1, <2>2 DEF CompleteCommit, At, Updates
<1>9. CASE CancelCommit(r)
  <2> DEFINE row == CancelledRow(rows[b], req[r])
  <2>1. row \in Row
    BY <1>1, <1>9, RequestKinds, CancelledRowType DEF CancelCommit, At
  <2>2. /\ row.trip = rows[b].trip /\ row.date = rows[b].date
        /\ row.quantity = rows[b].quantity
    BY <1>1, <1>9 DEF CancelCommit, At, CancelledRow, Row
  <2>3. rows' = [rows EXCEPT ![b] = row]
    BY <1>1, <1>9 DEF CancelCommit, TypeOK
  <2> QED
    BY <1>0, <1>9, <2>1, <2>2, <2>3 DEF CancelCommit, At, Updates
<1> QED
  BY <1>2, <1>3, <1>5, <1>6, <1>7, <1>8, <1>9 DEF Proceed

\* Nobody is disturbed by the end of another request that writes nothing, nor
\* by a lock another request takes.
LEMMA FinishOthers ==
  ASSUME TypeOK, NEW r \in Requests, Finish(r), UNCHANGED catalog,
         NEW s \in Requests, s # r,
         \A b \in Bookings :
           \/ rows'[b] = rows[b]
           \/ /\ rows[b] # None /\ rows'[b] # None /\ rows'[b].trip = rows[b].trip
              /\ rowLock[b] # s
           \/ rows[b] = None /\ rows'[b] # None /\ tripLock[rows'[b].trip] # s
  PROVE  Undisturbed(s)
BY DEF Finish, Release, catalog, TypeOK, Undisturbed

LEMMA TakeOthers ==
  ASSUME TypeOK, RequestsSound, NEW r \in Requests, NEW s \in Requests, s # r,
         TakesRow(r) \/ TakesTrip(r) \/ Counts(r)
  PROVE  Undisturbed(s)
<1>0. pc[r] # "idle" => TripOf(r) \in Trips
  BY TripKnown
<1>1. CASE TakesRow(r)
  BY <1>1, NoneAssumption DEF TakesRow, RowFree, At, TypeOK, Undisturbed, catalog
<1>2. CASE TakesTrip(r)
  BY <1>0, <1>2, NoneAssumption DEF TakesTrip, LockTrip, TripFree, At, TypeOK, Undisturbed, catalog
<1>3. CASE Counts(r)
  BY <1>0, <1>3, NoneAssumption
     DEF Counts, CountAndCheck, RowsFree, RowsOf, TypeOK, Undisturbed, catalog
<1> QED
  BY <1>1, <1>2, <1>3

LEMMA WriteOthers ==
  ASSUME TypeOK, RequestsSound, LocksHeld, NEW r \in Requests, NEW s \in Requests, s # r,
         Inserts(r) \/ Updates(r)
  PROVE  Undisturbed(s)
<1> DEFINE b == req[r].booking
<1>1. CASE Inserts(r)
  <2>1. pc[r] = "counted" /\ req[r].op = "create" /\ b \in Bookings
    BY <1>1, InFlight DEF Inserts, CreateCommit, At
  <2>2. req[r].trip \in Trips /\ tripLock[req[r].trip] = r
    BY <2>1, TripKnown DEF LocksHeld, TripOf
  <2>3. NewRow(req[r]) \in Row /\ NewRow(req[r]).trip = req[r].trip
    BY <2>1, InFlight, RequestKinds, NewRowType DEF NewRow
  <2>4. rows[b] = None
    BY <2>1 DEF RequestsSound, Exists
  <2>5. \A c \in Bookings :
          \/ rows'[c] = rows[c]
          \/ rows[c] = None /\ rows'[c] # None /\ tripLock[rows'[c].trip] # s
    BY <1>1, <2>1, <2>2, <2>3, <2>4, NoneAssumption DEF Inserts, CreateCommit, TypeOK
  <2> QED
    BY <1>1, <2>5, FinishOthers DEF Inserts, CreateCommit, Commit
<1>2. CASE Updates(r)
  <2>1. b \in Bookings /\ rows[b] \in Row
    BY <1>2, InFlight DEF Updates
  <2>2. rowLock[b] # s
    BY <1>2, NoneAssumption DEF Updates, RowFree, At, LocksHeld
  <2>3. PICK row \in Row :
          row.trip = rows[b].trip /\ rows' = [rows EXCEPT ![b] = row]
    BY <1>2 DEF Updates
  <2>4. \A c \in Bookings :
          \/ rows'[c] = rows[c]
          \/ /\ rows[c] # None /\ rows'[c] # None /\ rows'[c].trip = rows[c].trip
             /\ rowLock[c] # s
    BY <2>1, <2>2, <2>3, NoneAssumption DEF TypeOK
  <2> QED
    BY <1>2, <2>4, FinishOthers DEF Updates, Commit
<1> QED
  BY <1>1, <1>2

\* Outside the requests, rows are written only when nobody has locked them, and
\* trips and buses likewise.
LEMMA PatchDisturbsNone ==
  ASSUME TypeOK, NEW b \in Bookings, NEW s \in PatchStatuses,
         NEW reason \in Reasons, Patch(b, s, reason), NEW r \in Requests
  PROVE  Undisturbed(r)
<1>1. rows[b] \in Row /\ s \in Statuses /\ reason \in BOOLEAN
  BY BoundsAssumption DEF Patch, Exists, TypeOK
<1>2. PatchedRow(rows[b], s, reason) \in Row
  BY <1>1, PatchedRowType
<1>3. PatchedRow(rows[b], s, reason).trip = rows[b].trip
  BY <1>1 DEF PatchedRow, Row
<1> QED
  BY <1>1, <1>2, <1>3, NoneAssumption
     DEF Patch, RowFree, TypeOK, Undisturbed, catalog, locks

LEMMA PaymentDisturbsNone ==
  ASSUME TypeOK, Payment, NEW r \in Requests
  PROVE  Undisturbed(r)
<1>1. ASSUME NEW b \in Bookings, Checkout(b)
      PROVE  Undisturbed(r)
  BY <1>1 DEF Checkout, Undisturbed, catalog, locks
<1>2. ASSUME NEW f \in forms, NEW x \in TxIds \cup {None}, Ipn(f, x)
      PROVE  Undisturbed(r)
  <2> DEFINE b == f.booking
             row == [rows[b] EXCEPT !.paid = TRUE, !.tx = x]
  <2>1. b \in Bookings /\ rows[b] \in Row
    BY <1>2 DEF Ipn, Exists, TypeOK
  <2>2. row \in Row /\ row.trip = rows[b].trip
    BY <2>1 DEF Row
  <2>3. rows' = [rows EXCEPT ![b] = row]
    BY <1>2, <2>1 DEF Ipn, TypeOK
  <2> HIDE DEF b, row
  <2> QED
    BY <1>2, <2>1, <2>2, <2>3, NoneAssumption
       DEF b, Ipn, RowFree, TypeOK, Undisturbed, catalog, locks
<1> QED
  BY <1>1, <1>2 DEF Payment

LEMMA CatalogueDisturbsNone ==
  ASSUME TypeOK, Catalogue, NEW r \in Requests
  PROVE  Undisturbed(r)
BY NoneAssumption
   DEF Catalogue, SetSeats, UpdateTrip, SetSurcharges, CreateBlock, UpdateBlock,
       DeleteBlock, TypeOK, Undisturbed, locks

-----------------------------------------------------------------------------
(* The request that moves.                                                 *)

LEMMA FreeOfStages ==
  ASSUME NEW r, pc'[r] \notin {"rowLocked", "tripLocked", "counted"}
  PROVE  Holds(r)' /\ Safe(r)'
BY DEF Holds, Safe

LEMMA EndsFree ==
  ASSUME TypeOK, NEW r \in Requests, Finish(r)
  PROVE  Holds(r)' /\ Safe(r)'
<1>1. pc'[r] = "idle"
  BY DEF Finish, TypeOK
<1> QED
  BY <1>1, FreeOfStages

\* The seats sold to some bookings are finitely many.
LEMMA SeatsFinite ==
  ASSUME TypeOK, NEW B \in SUBSET Bookings, NEW t, NEW d
  PROVE  /\ IsFiniteSet(SeatsSoldTo(B, t, d))
         /\ Cardinality(SeatsSoldTo(B, t, d)) \in Nat
<1>1. IsFiniteSet(1..MaxQuantity)
  BY BoundsAssumption, FS_Interval
<1>2. IsFiniteSet(B)
  BY BoundsAssumption, FS_Subset
<1>3. IsFiniteSet(B \X (1..MaxQuantity))
  BY <1>1, <1>2, FS_Product
<1>4. SeatsSoldTo(B, t, d) \subseteq B \X (1..MaxQuantity)
  BY DEF SeatsSoldTo
<1>5. IsFiniteSet(SeatsSoldTo(B, t, d))
  BY <1>3, <1>4, FS_Subset
<1> QED
  BY <1>5, FS_CardinalityType

LEMMA TakesRowHolds ==
  ASSUME TypeOK, RequestsSound, NEW r \in Requests, TakesRow(r)
  PROVE  Holds(r)' /\ Safe(r)'
<1>1. req[r].booking \in Bookings
  BY InFlight DEF TakesRow, At
<1> QED
  BY <1>1 DEF TakesRow, TypeOK, Holds, Safe

LEMMA TakesTripHolds ==
  ASSUME TypeOK, RequestsSound, NEW r \in Requests, Holds(r), TakesTrip(r)
  PROVE  Holds(r)' /\ Safe(r)'
<1>0. pc[r] # "idle" /\ TripOf(r) \in Trips
  BY TripKnown DEF TakesTrip, At
<1>1. TripOf(r)' = TripOf(r)
  BY DEF TakesTrip, LockTrip, TripOf
<1>2. pc'[r] = "tripLocked"
  BY DEF TakesTrip, LockTrip, TypeOK
<1>3. busOf[TripOf(r)] \in Buses /\ busOf' = busOf
  BY <1>0 DEF TakesTrip, LockTrip, TypeOK, catalog
<1>4. tripLock'[TripOf(r)] = r /\ busLock'[busOf[TripOf(r)]] = r
  BY <1>0, <1>3 DEF TakesTrip, LockTrip, TypeOK
<1>5. req[r].op = "edit" => rowLock'[req'[r].booking] = r
  BY DEF TakesTrip, LockTrip, At, Holds
<1> QED
  BY <1>1, <1>2, <1>3, <1>4, <1>5 DEF Holds, Safe, TakesTrip, LockTrip

LEMMA CountsHolds ==
  ASSUME TypeOK, RequestsSound, NEW r \in Requests, Holds(r), Counts(r)
  PROVE  Holds(r)' /\ Safe(r)'
<1> DEFINE t == TripOf(r)
           d == DateOf(r)
           B == CountedBy(r)
           booked == Cardinality(SeatsSoldTo(B, t, d))
<1>0. /\ pc[r] = "tripLocked" /\ t \in Trips /\ B \in SUBSET Bookings
      /\ req[r].quantity \in 1..MaxQuantity
  BY TripKnown DEF Counts, RequestsSound
<1>1. /\ req[r].quantity <= AvailableSeats(Seats(t), booked, req[r].blocked)
      /\ rowLock' = [b \in Bookings |-> IF b \in RowsOf(t) THEN r ELSE rowLock[b]]
      /\ pc' = [pc EXCEPT ![r] = "counted"]
      /\ UNCHANGED <<rows, catalog, tripLock, busLock, req, forms>>
  BY DEF Counts, CountAndCheck
<1>2. booked \in Nat
  BY <1>0, SeatsFinite
<1>3. Seats(t) \in Nat
  BY <1>0, BoundsAssumption DEF TypeOK, Seats
<1>4. booked + req[r].quantity <= Seats(t)
  BY <1>0, <1>1, <1>2, <1>3, BoundsAssumption DEF AvailableSeats
<1>5. t' = t /\ d' = d /\ B' = B
  BY <1>1 DEF TripOf, DateOf, CountedBy
<1>6. SeatsSoldTo(B, t, d)' = SeatsSoldTo(B, t, d) /\ Seats(t)' = Seats(t) /\ RowsOf(t)' = RowsOf(t)
  BY <1>1, <1>5 DEF SeatsSoldTo, Seats, RowsOf, Exists, catalog
<1>7. Safe(r)'
  BY <1>1, <1>4, <1>6 DEF Safe
<1>8. Holds(r)'
  <2>1. tripLock'[t'] = r /\ busLock'[busOf'[t']] = r
    BY <1>0, <1>1, <1>5 DEF Holds, catalog
  <2>2. req'[r].op = "edit" => rowLock'[req'[r].booking] = r
    BY <1>0, <1>1, InFlight DEF Holds
  <2>3. \A b \in RowsOf(t)' : rowLock'[b] = r
    BY <1>1, <1>6 DEF RowsOf
  <2> QED
    BY <2>1, <2>2, <2>3 DEF Holds
<1> QED
  BY <1>7, <1>8

-----------------------------------------------------------------------------
(* Who owns a lock.  Owns is what LocksOwned says of one request.          *)

Owns(r) ==
  /\ \A t \in Trips : tripLock[t] = r =>
       pc[r] \in {"tripLocked", "counted"} /\ TripOf(r) = t
  /\ \A k \in Buses : busLock[k] = r =>
       pc[r] \in {"tripLocked", "counted"} /\ busOf[TripOf(r)] = k
  /\ \A b \in Bookings : rowLock[b] = r =>
       \/ pc[r] = "counted" /\ b \in RowsOf(TripOf(r))
       \/ At(r, "edit", "rowLocked") /\ req[r].booking = b
       \/ At(r, "edit", "tripLocked") /\ req[r].booking = b

LEMMA OwnerByOwner == LocksOwned <=> \A r \in Requests : Owns(r)
BY DEF LocksOwned, Owns

\* A step gives request s no lock it did not have.
NoNewLocks(s) ==
  /\ \A t \in Trips : tripLock'[t] = s => tripLock[t] = s
  /\ \A k \in Buses : busLock'[k] = s => busLock[k] = s
  /\ \A b \in Bookings : rowLock'[b] = s => rowLock[b] = s

LEMMA UndisturbedOwns ==
  ASSUME TypeOK, RequestsSound, NEW s \in Requests, Holds(s), Owns(s),
         Undisturbed(s), NoNewLocks(s)
  PROVE  Owns(s)'
<1>1. pc'[s] = pc[s] /\ req'[s] = req[s]
  BY DEF Undisturbed
<1>2. ASSUME pc[s] \in {"tripLocked", "counted"}
      PROVE  TripOf(s)' = TripOf(s) /\ busOf'[TripOf(s)] = busOf[TripOf(s)]
  BY <1>2, UndisturbedTrip, TripKnown DEF Holds, Undisturbed
<1>3. \A t \in Trips : tripLock'[t] = s =>
        pc'[s] \in {"tripLocked", "counted"} /\ TripOf(s)' = t
  BY <1>1, <1>2 DEF Owns, NoNewLocks
<1>4. \A k \in Buses : busLock'[k] = s =>
        pc'[s] \in {"tripLocked", "counted"} /\ busOf'[TripOf(s)'] = k
  BY <1>1, <1>2 DEF Owns, NoNewLocks
<1>5. \A b \in Bookings : rowLock'[b] = s =>
        \/ pc'[s] = "counted" /\ b \in RowsOf(TripOf(s))'
        \/ At(s, "edit", "rowLocked")' /\ req'[s].booking = b
        \/ At(s, "edit", "tripLocked")' /\ req'[s].booking = b
  <2> SUFFICES ASSUME NEW b \in Bookings, rowLock'[b] = s
               PROVE  \/ pc'[s] = "counted" /\ b \in RowsOf(TripOf(s))'
                      \/ At(s, "edit", "rowLocked")' /\ req'[s].booking = b
                      \/ At(s, "edit", "tripLocked")' /\ req'[s].booking = b
    OBVIOUS
  <2>1. rowLock[b] = s
    BY DEF NoNewLocks
  <2>2. CASE pc[s] = "counted" /\ b \in RowsOf(TripOf(s))
    <3>1. rows'[b] = rows[b]
      BY <2>1, <2>2 DEF Undisturbed, RowsOf, Exists
    <3> QED
      BY <1>1, <1>2, <2>2, <3>1 DEF RowsOf, Exists
  <2> QED
    BY <1>1, <2>1, <2>2 DEF Owns, At
<1> QED
  BY <1>3, <1>4, <1>5 DEF Owns

\* Whoever finishes has no lock left, and nobody else gets one.
LEMMA FinishOwns ==
  ASSUME TypeOK, NEW r \in Requests, Finish(r)
  PROVE  Owns(r)' /\ \A s \in Requests \ {r} : NoNewLocks(s)
<1>1. /\ \A t \in Trips : tripLock'[t] # r
      /\ \A k \in Buses : busLock'[k] # r
      /\ \A b \in Bookings : rowLock'[b] # r
  BY NoneAssumption DEF Finish, Release, TypeOK
<1>2. Owns(r)'
  BY <1>1 DEF Owns
<1>3. \A s \in Requests \ {r} : NoNewLocks(s)
  BY NoneAssumption DEF Finish, Release, TypeOK, NoNewLocks
<1> QED
  BY <1>2, <1>3

LEMMA TakesRowOwns ==
  ASSUME TypeOK, NEW r \in Requests, Owns(r), TakesRow(r)
  PROVE  Owns(r)' /\ \A s \in Requests \ {r} : NoNewLocks(s)
<1>1. /\ pc[r] = "begun" /\ pc'[r] = "rowLocked"
      /\ req' = req /\ tripLock' = tripLock /\ busLock' = busLock
      /\ \A b \in Bookings : rowLock'[b] = IF b = req[r].booking THEN r ELSE rowLock[b]
  BY DEF TakesRow, At, TypeOK
<1>2. Owns(r)'
  BY <1>1 DEF Owns, TakesRow, At
<1>3. \A s \in Requests \ {r} : NoNewLocks(s)
  BY <1>1 DEF NoNewLocks
<1> QED
  BY <1>2, <1>3

LEMMA TakesTripOwns ==
  ASSUME TypeOK, RequestsSound, NEW r \in Requests, Owns(r), TakesTrip(r)
  PROVE  Owns(r)' /\ \A s \in Requests \ {r} : NoNewLocks(s)
<1>1. /\ pc[r] \in {"begun", "rowLocked"} /\ pc'[r] = "tripLocked"
      /\ UNCHANGED <<rows, busOf, rowLock, req>>
      /\ \A t \in Trips : tripLock'[t] = IF t = TripOf(r) THEN r ELSE tripLock[t]
      /\ \A k \in Buses : busLock'[k] = IF k = busOf[TripOf(r)] THEN r ELSE busLock[k]
  BY DEF TakesTrip, LockTrip, At, TypeOK, catalog
<1>2. TripOf(r)' = TripOf(r)
  BY <1>1 DEF TripOf
<1>3. /\ \A t \in Trips : tripLock'[t] = r => TripOf(r)' = t
      /\ \A k \in Buses : busLock'[k] = r => busOf'[TripOf(r)'] = k
  BY <1>1, <1>2 DEF Owns
<1>4. \A b \in Bookings : rowLock'[b] = r => req'[r].op = "edit" /\ req'[r].booking = b
  BY <1>1 DEF Owns, At
<1>5. Owns(r)'
  BY <1>1, <1>3, <1>4 DEF Owns, At
<1>6. \A s \in Requests \ {r} : NoNewLocks(s)
  BY <1>1 DEF NoNewLocks
<1> QED
  BY <1>5, <1>6

LEMMA CountsOwns ==
  ASSUME TypeOK, RequestsSound, NEW r \in Requests, Owns(r), Counts(r)
  PROVE  Owns(r)' /\ \A s \in Requests \ {r} : NoNewLocks(s)
<1>1. /\ pc[r] = "tripLocked" /\ pc'[r] = "counted"
      /\ UNCHANGED <<rows, busOf, tripLock, busLock, req>>
      /\ \A b \in Bookings : rowLock'[b] = IF b \in RowsOf(TripOf(r)) THEN r ELSE rowLock[b]
  BY DEF Counts, CountAndCheck, TypeOK, catalog
<1>2. TripOf(r)' = TripOf(r) /\ RowsOf(TripOf(r))' = RowsOf(TripOf(r))
  BY <1>1 DEF TripOf, RowsOf, Exists
<1>3. ASSUME NEW b \in Bookings, rowLock[b] = r
      PROVE  b \in RowsOf(TripOf(r))
  <2>1. req[r].op = "edit" /\ req[r].booking = b
    BY <1>1, <1>3 DEF Owns, At
  <2> QED
    BY <1>1, <2>1, InFlight, NoneAssumption DEF RowsOf, Exists, TripOf
<1>4. Owns(r)'
  BY <1>1, <1>2, <1>3 DEF Owns
<1>5. \A s \in Requests \ {r} : NoNewLocks(s)
  BY <1>1 DEF NoNewLocks
<1> QED
  BY <1>4, <1>5

-----------------------------------------------------------------------------

LEMMA ProceedIndInv ==
  ASSUME IndInv, NEW r \in Requests, Proceed(r), NEW s \in Requests
  PROVE  Holds(s)' /\ Owns(s)' /\ Safe(s)'
<1>1. /\ TypeOK /\ RequestsSound /\ LocksHeld
      /\ Holds(r) /\ Holds(s) /\ Safe(s) /\ Owns(r) /\ Owns(s)
  BY OneByOne, OwnerByOwner DEF IndInv
<1>2. Reject(r) \/ TakesRow(r) \/ TakesTrip(r) \/ Counts(r) \/ Inserts(r) \/ Updates(r)
  BY <1>1, ProceedKinds
<1>3. Reject(r) \/ Inserts(r) \/ Updates(r) => Finish(r)
  BY DEF Reject, Inserts, CreateCommit, Updates, Commit
<1>4. Owns(r)' /\ \A u \in Requests \ {r} : NoNewLocks(u)
  BY <1>1, <1>2, <1>3, FinishOwns, TakesRowOwns, TakesTripOwns, CountsOwns
<1>5. CASE s = r
  BY <1>1, <1>2, <1>3, <1>4, <1>5, EndsFree, TakesRowHolds, TakesTripHolds, CountsHolds
<1>6. CASE s # r
  <2>1. Undisturbed(s)
    <3>1. CASE Reject(r)
      BY <1>1, <1>6, <3>1, FinishOthers DEF Reject
    <3>2. CASE Inserts(r) \/ Updates(r)
      BY <1>1, <1>6, <3>2, WriteOthers
    <3>3. CASE TakesRow(r) \/ TakesTrip(r) \/ Counts(r)
      BY <1>1, <1>6, <3>3, TakeOthers
    <3> QED
      BY <1>2, <3>1, <3>2, <3>3
  <2> QED
    BY <1>1, <1>4, <1>6, <2>1, UndisturbedHolds, UndisturbedSafe, UndisturbedOwns
<1> QED
  BY <1>5, <1>6

LEMMA StepIndInv ==
  ASSUME IndInv, [Next]_vars
  PROVE  IndInv'
<1>1. TypeOK' /\ RequestsSound'
  BY StepTypeSound DEF IndInv
<1>2. ASSUME NEW s \in Requests
      PROVE  Holds(s)' /\ Owns(s)' /\ Safe(s)'
  <2>0. TypeOK /\ RequestsSound /\ Holds(s) /\ Owns(s) /\ Safe(s)
    BY OneByOne, OwnerByOwner DEF IndInv
  <2>1. ASSUME Undisturbed(s), NoNewLocks(s)
        PROVE  Holds(s)' /\ Owns(s)' /\ Safe(s)'
    BY <2>0, <2>1, UndisturbedHolds, UndisturbedSafe, UndisturbedOwns
  <2>a. ASSUME UNCHANGED locks
        PROVE  NoNewLocks(s)
    BY <2>a DEF locks, NoNewLocks
  <2>2. ASSUME NEW r \in Requests, Start(r)
        PROVE  Holds(s)' /\ Owns(s)' /\ Safe(s)'
    <3>1. PICK q : Begin(r, q)
      BY <2>2 DEF Start, CreateBegin, EditBegin, ConfirmBegin, CompleteBegin, CancelBegin
    <3>2. CASE s = r
      <4>1. pc'[s] = "begun"
        BY <2>0, <3>1, <3>2 DEF Begin, TypeOK
      <4>2. /\ \A t \in Trips : tripLock[t] # s
            /\ \A k \in Buses : busLock[k] # s
            /\ \A b \in Bookings : rowLock[b] # s
        BY <2>0, <3>1, <3>2 DEF Begin, Owns, At
      <4>3. Owns(s)'
        BY <3>1, <4>2 DEF Begin, Owns, locks
      <4> QED
        BY <4>1, <4>3, FreeOfStages
    <3>3. CASE s # r
      <4>1. Undisturbed(s)
        BY <2>0, <3>1, <3>3 DEF Begin, Undisturbed, TypeOK, catalog, locks
      <4> QED
        BY <2>1, <2>a, <3>1, <4>1 DEF Begin
    <3> QED
      BY <3>2, <3>3
  <2>3. ASSUME NEW r \in Requests, Proceed(r)
        PROVE  Holds(s)' /\ Owns(s)' /\ Safe(s)'
    BY <2>3, ProceedIndInv
  <2>4. ASSUME NEW r \in Requests, Abort(r) \/ DeadlockVictim(r)
        PROVE  Holds(s)' /\ Owns(s)' /\ Safe(s)'
    <3>1. Reject(r)
      BY <2>4 DEF Abort, DeadlockVictim
    <3>2. CASE s = r
      BY <2>0, <3>1, <3>2, EndsFree, FinishOwns DEF Reject
    <3>3. CASE s # r
      BY <2>0, <2>1, <3>1, <3>3, FinishOthers, FinishOwns DEF Reject
    <3> QED
      BY <3>2, <3>3
  <2>5. ASSUME NEW b \in Bookings, NEW st \in PatchStatuses, NEW reason \in Reasons,
               Patch(b, st, reason)
        PROVE  Holds(s)' /\ Owns(s)' /\ Safe(s)'
    BY <2>0, <2>1, <2>a, <2>5, PatchDisturbsNone DEF Patch
  <2>6. CASE Payment
    BY <2>0, <2>1, <2>a, <2>6, PaymentDisturbsNone DEF Payment, Checkout, Ipn
  <2>7. CASE Catalogue
    <3>1. UNCHANGED locks
      BY <2>7 DEF Catalogue, SetSeats, UpdateTrip, SetSurcharges, CreateBlock,
                  UpdateBlock, DeleteBlock
    <3> QED
      BY <2>0, <2>1, <2>a, <2>7, <3>1, CatalogueDisturbsNone
  <2>8. CASE UNCHANGED vars
    BY <2>1, <2>a, <2>8 DEF vars, catalog, locks, Undisturbed
  <2> QED
    BY <2>2, <2>3, <2>4, <2>5, <2>6, <2>7, <2>8 DEF Next
<1>3. /\ (\A s \in Requests : Holds(s))'
      /\ (\A s \in Requests : Owns(s))'
      /\ (\A s \in Requests : Safe(s))'
  BY <1>2
<1>4. LocksHeld' /\ LocksOwned' /\ SeatsHeld'
  BY <1>3 DEF LocksHeld, LocksOwned, SeatsHeld, Holds, Owns, Safe
<1> QED
  BY <1>1, <1>4 DEF IndInv

LEMMA InitIndInv ==
  ASSUME Init
  PROVE  IndInv
<1>1. \A r \in Requests : pc[r] = "idle"
  BY DEF Init
<1>2. LocksOwned
  BY NoneAssumption DEF Init, LocksOwned
<1> QED
  BY <1>1, <1>2, InitTypeSound DEF IndInv, LocksHeld, SeatsHeld

\* Whatever runs, a request between its seat count and its commit still has the
\* seats it counted, on locks it still holds.
THEOREM Inductive == Spec => []IndInv
<1> QED
  BY InitIndInv, StepIndInv, PTL DEF Spec

THEOREM SeatsAreHeld == Spec => []SeatsHeld
<1>1. IndInv => SeatsHeld
  BY DEF IndInv
<1> QED
  BY <1>1, Inductive, PTL

-----------------------------------------------------------------------------
(* Waits.  Who holds a trip goes on, or an edit that holds one of its rows *)
(* waits for that trip in turn; every other wait leads there.              *)

LEMMA HolderMoves ==
  ASSUME IndInv, NEW s \in Requests, pc[s] \in {"tripLocked", "counted"}
  PROVE  GoesOn(s) \/ Deadlocked(s)
<1>0. TypeOK /\ RequestsSound /\ Holds(s) /\ \A v \in Requests : Holds(v) /\ Owns(v)
  BY OneByOne, OwnerByOwner DEF IndInv
<1>1. SUFFICES ASSUME NEW v \in Requests, WaitsFor(s, v)
               PROVE  Deadlocked(s)
  BY DEF GoesOn, WaitedFor
<1>2. WantsTrip(s) = {}
  BY DEF WantsTrip, At
<1>3. PICK b \in WantsRows(s) : rowLock[b] = v
  BY <1>1, <1>2 DEF WaitsFor
<1>4. pc[s] = "tripLocked" /\ b \in RowsOf(TripOf(s))
  BY <1>0, <1>3 DEF WantsRows, At, TripOf, RequestsSound
<1>5. b \in Bookings /\ rows[b].trip = TripOf(s) /\ tripLock[TripOf(s)] = s
  BY <1>0, <1>4 DEF RowsOf, Holds
<1>6. s # v
  BY <1>1 DEF WaitsFor
<1>7. ASSUME pc[v] \in {"tripLocked", "counted"}, TripOf(v) = TripOf(s)
      PROVE  FALSE
  BY <1>0, <1>5, <1>6, <1>7 DEF Holds
<1>8. At(v, "edit", "rowLocked") /\ req[v].booking = b
  <2>1. CASE pc[v] = "counted" /\ b \in RowsOf(TripOf(v))
    BY <1>5, <1>7, <2>1 DEF RowsOf
  <2>2. CASE At(v, "edit", "tripLocked") /\ req[v].booking = b
    BY <1>5, <1>7, <2>2 DEF At, TripOf
  <2> QED
    BY <1>0, <1>3, <1>5, <2>1, <2>2 DEF Owns
<1>9. TripOf(s) \in WantsTrip(v)
  BY <1>5, <1>8 DEF WantsTrip, At
<1> QED
  BY <1>1, <1>5, <1>6, <1>9 DEF Deadlocked, WaitsFor

\* Who is waited for on a trip or on its bus holds a trip.
LEMMA TripOwner ==
  ASSUME IndInv, NEW r \in Requests, NEW s \in Requests, NEW t \in WantsTrip(r),
         tripLock[t] = s \/ busLock[busOf[t]] = s
  PROVE  pc[s] \in {"tripLocked", "counted"}
<1>0. TypeOK /\ RequestsSound /\ Owns(s)
  BY OwnerByOwner DEF IndInv
<1>1. pc[r] # "idle" /\ t = TripOf(r)
  BY DEF WantsTrip, At, TripOf
<1>2. t \in Trips /\ busOf[t] \in Buses
  BY <1>0, <1>1, TripKnown DEF TypeOK
<1> QED
  BY <1>0, <1>2 DEF Owns

\* An edit that holds its row waits for nothing but the trip.
LEMMA RowOwnerMoves ==
  ASSUME IndInv, NEW s \in Requests, pc[s] \in {"rowLocked", "tripLocked", "counted"}
  PROVE  \E v \in {s} \cup WaitedFor(s) : GoesOn(v) \/ Deadlocked(v)
<1>1. CASE pc[s] # "rowLocked"
  BY <1>1, HolderMoves
<1>2. CASE pc[s] = "rowLocked" /\ WaitedFor(s) = {}
  BY <1>2 DEF GoesOn
<1>3. CASE pc[s] = "rowLocked" /\ WaitedFor(s) # {}
  <2>1. PICK v \in Requests : WaitsFor(s, v)
    BY <1>3 DEF WaitedFor
  <2>2. WantsRows(s) = {}
    BY <1>3 DEF WantsRows, At
  <2>3. pc[v] \in {"tripLocked", "counted"}
    BY <2>1, <2>2, TripOwner DEF WaitsFor
  <2> QED
    BY <2>1, <2>3, HolderMoves DEF WaitedFor
<1> QED
  BY <1>1, <1>2, <1>3

LEMMA WaitsEnd ==
  ASSUME IndInv
  PROVE  NoHiddenDeadlock
<1> SUFFICES ASSUME NEW r \in Requests, pc[r] # "idle"
             PROVE  \E s \in {r} \cup WaitedFor(r) \cup
                               UNION {WaitedFor(u) : u \in WaitedFor(r)} :
                      GoesOn(s) \/ Deadlocked(s)
  BY DEF NoHiddenDeadlock
<1>1. CASE WaitedFor(r) = {}
  BY <1>1 DEF GoesOn
<1>2. ASSUME NEW s \in Requests, WaitsFor(r, s),
             NEW t \in WantsTrip(r), tripLock[t] = s \/ busLock[busOf[t]] = s
      PROVE  \E v \in WaitedFor(r) : GoesOn(v) \/ Deadlocked(v)
  BY <1>2, TripOwner, HolderMoves DEF WaitedFor
<1>3. ASSUME NEW s \in Requests, WaitsFor(r, s), NEW b \in WantsRows(r), rowLock[b] = s
      PROVE  \E v \in {s} \cup WaitedFor(s) : GoesOn(v) \/ Deadlocked(v)
  <2>1. b \in Bookings
    BY <1>3, InFlight DEF IndInv, WantsRows, RowsOf
  <2>2. pc[s] \in {"rowLocked", "tripLocked", "counted"}
    BY <1>3, <2>1, OwnerByOwner DEF IndInv, Owns, At
  <2> QED
    BY <2>2, RowOwnerMoves
<1> QED
  BY <1>1, <1>2, <1>3 DEF WaitedFor, WaitsFor

\* However many requests lock trips, buses and bookings in whatever order, who
\* waits is served in the end or stands before a deadlock that InnoDB sees: the
\* safety half of "every request ends".
THEOREM NoDeadlockHides == Spec => []NoHiddenDeadlock
<1> QED
  BY Inductive, WaitsEnd, PTL

-----------------------------------------------------------------------------
(* How the seats sold grow.                                                *)

\* Pairing one element with each of a set counts the set.
LEMMA PairsWith ==
  ASSUME NEW b, NEW T, IsFiniteSet(T)
  PROVE  IsFiniteSet({b} \X T) /\ Cardinality({b} \X T) = Cardinality(T)
<1>1. IsFiniteSet({b}) /\ Cardinality({b}) = 1
  BY FS_Singleton
<1>2. IsFiniteSet({b} \X T) /\ Cardinality({b} \X T) = Cardinality({b}) * Cardinality(T)
  <2> DEFINE U == {b}
  <2>1. IsFiniteSet(U)
    BY <1>1
  <2> HIDE DEF U
  <2>2. IsFiniteSet(U \X T) /\ Cardinality(U \X T) = Cardinality(U) * Cardinality(T)
    BY <2>1, FS_Product
  <2> QED
    BY <2>2 DEF U
<1>3. Cardinality(T) \in Nat
  BY FS_CardinalityType
<1> QED
  BY <1>1, <1>2, <1>3

\* A write of one booking adds at most the seats it asks for.
LEMMA WriteBound ==
  ASSUME TypeOK, NEW b \in Bookings, NEW row \in Row, rows' = [rows EXCEPT ![b] = row],
         NEW t, NEW d
  PROVE  Booked(t, d)' <= Cardinality(SeatsSoldTo(Bookings \ {b}, t, d)) + row.quantity
<1> DEFINE others == SeatsSoldTo(Bookings \ {b}, t, d)
           own == {b} \X (1..row.quantity)
<1>1. row.quantity \in Nat /\ row.quantity >= 1
  BY BoundsAssumption DEF Row
<1>2. IsFiniteSet(own) /\ Cardinality(own) = row.quantity
  <2>1. IsFiniteSet(1..row.quantity) /\ Cardinality(1..row.quantity) = row.quantity
    BY <1>1, FS_Interval
  <2> QED
    BY <2>1, PairsWith
<1>3. IsFiniteSet(others) /\ Cardinality(others) \in Nat
  BY SeatsFinite
<1>4. IsFiniteSet(others \cup own) /\ Cardinality(others \cup own) <= Cardinality(others) + row.quantity
  <2>1. Cardinality(others \cap own) \in Nat
    BY <1>2, FS_Subset, FS_CardinalityType
  <2> HIDE DEF others, own
  <2>2. /\ IsFiniteSet(others \cup own)
        /\ Cardinality(others \cup own)
             = Cardinality(others) + Cardinality(own) - Cardinality(others \cap own)
    BY <1>2, <1>3, FS_Union
  <2> QED
    BY <1>1, <1>2, <1>3, <2>1, <2>2
<1>5. Sold(t, d)' \subseteq others \cup own
  <2>1. \A c \in Bookings : c # b => rows'[c] = rows[c]
    BY DEF TypeOK
  <2>2. rows'[b] = row
    BY DEF TypeOK
  <2>3. \A u \in Bookings \X (1..MaxQuantity) :
          /\ rows'[u[1]] # None /\ rows'[u[1]].trip = t /\ rows'[u[1]].date = d
          /\ rows'[u[1]].status \in Counted /\ u[2] <= rows'[u[1]].quantity
          => u \in others \cup own
    <3>1. ASSUME NEW u \in Bookings \X (1..MaxQuantity), u[1] = b, u[2] <= row.quantity
          PROVE  u \in own
      BY <1>1, <3>1
    <3>2. ASSUME NEW u \in Bookings \X (1..MaxQuantity), u[1] # b,
                 rows[u[1]] # None, rows[u[1]].trip = t, rows[u[1]].date = d,
                 rows[u[1]].status \in Counted, u[2] <= rows[u[1]].quantity
          PROVE  u \in others
      BY <3>2 DEF SeatsSoldTo, Exists
    <3> HIDE DEF others, own
    <3> QED
      BY <2>1, <2>2, <3>1, <3>2
  <2> HIDE DEF others, own
  <2> QED
    BY <2>3 DEF Sold, SeatsSoldTo, Exists
<1> HIDE DEF others, own
<1>6. Cardinality(Sold(t, d)') <= Cardinality(others \cup own) /\ Cardinality(Sold(t, d)') \in Nat
  BY <1>4, <1>5, FS_Subset, FS_CardinalityType
<1>7. Cardinality(others \cup own) \in Nat
  BY <1>4, FS_CardinalityType
<1>8. Cardinality(Sold(t, d)') <= Cardinality(others) + row.quantity
  BY <1>1, <1>3, <1>4, <1>6, <1>7
<1> QED
  BY <1>8 DEF others, Booked

\* A write that keeps trip, date and quantity sells more only by reviving.
LEMMA SameQuantity ==
  ASSUME TypeOK, NEW b \in Bookings, rows[b] \in Row, NEW row \in Row,
         rows' = [rows EXCEPT ![b] = row],
         row.trip = rows[b].trip, row.date = rows[b].date, row.quantity = rows[b].quantity,
         NEW t, NEW d, ~(Revives(b) /\ rows[b].trip = t /\ rows[b].date = d)
  PROVE  Booked(t, d)' <= Booked(t, d)
<1>1. Sold(t, d)' \subseteq Sold(t, d)
  <2>1. \A c \in Bookings : c # b => rows'[c] = rows[c]
    BY DEF TypeOK
  <2>2. rows'[b] = row /\ rows[b] # None
    BY NoneAssumption DEF TypeOK
  <2>3. row.status \in Counted /\ row.trip = t /\ row.date = d => rows[b].status \in Counted
    BY <2>2 DEF Revives, Exists, Row, Statuses
  <2> QED
    BY <2>1, <2>2, <2>3 DEF Sold, SeatsSoldTo, Exists
<1>2. IsFiniteSet(Sold(t, d)) /\ Cardinality(Sold(t, d)) \in Nat
  BY SeatsFinite DEF Sold
<1> QED
  BY <1>1, <1>2, FS_Subset DEF Booked

\* A step that leaves the rows alone sells nothing.
LEMMA SameRows ==
  ASSUME rows' = rows, NEW t, NEW d
  PROVE  Booked(t, d)' = Booked(t, d)
BY DEF Booked, Sold, SeatsSoldTo, Exists

LEMMA BookedNat ==
  ASSUME NEW t, NEW d
  PROVE  /\ IsFiniteSet(Sold(t, d)) /\ Booked(t, d) \in Nat
         /\ Booked(t, d)' \in Nat
<1>1. IsFiniteSet(1..MaxQuantity)
  BY BoundsAssumption, FS_Interval
<1>2. IsFiniteSet(Bookings \X (1..MaxQuantity))
  BY <1>1, BoundsAssumption, FS_Product
<1>3. /\ Sold(t, d) \subseteq Bookings \X (1..MaxQuantity)
      /\ Sold(t, d)' \subseteq Bookings \X (1..MaxQuantity)
  BY DEF Sold, SeatsSoldTo
<1>4. IsFiniteSet(Sold(t, d)) /\ IsFiniteSet(Sold(t, d)')
  BY <1>2, <1>3, FS_Subset
<1> QED
  BY <1>4, FS_CardinalityType DEF Booked

\* The write of a create or an edit that counted stays within what it counted.
LEMMA CountedWrite ==
  ASSUME IndInv, IndInv', NEW r \in Requests, pc[r] = "counted", NEW row \in Row,
         row.trip = TripOf(r), row.date = DateOf(r), row.quantity = req[r].quantity,
         rows' = [rows EXCEPT ![req[r].booking] = row], catalog' = catalog,
         NEW t \in Trips, NEW d \in Dates, Booked(t, d)' > Booked(t, d)
  PROVE  Booked(t, d)' <= Seats(t)'
<1> DEFINE b == req[r].booking
<1>0. b \in Bookings /\ CountedBy(r) \subseteq Bookings /\ Bookings \ {b} \subseteq CountedBy(r)
  BY InFlight, TripKnown DEF IndInv, CountedBy
<1>1. CASE t = row.trip /\ d = row.date
  <2> DEFINE others  == Cardinality(SeatsSoldTo(Bookings \ {b}, t, d))
             counted == Cardinality(SeatsSoldTo(CountedBy(r), t, d))
  <2>1. Booked(t, d)' <= others + row.quantity
    BY <1>0, WriteBound DEF IndInv
  <2>2. others \in Nat /\ counted \in Nat /\ others <= counted
    <3>1. SeatsSoldTo(Bookings \ {b}, t, d) \subseteq SeatsSoldTo(CountedBy(r), t, d)
      BY <1>0 DEF SeatsSoldTo
    <3>2. others \in Nat
      BY SeatsFinite DEF IndInv
    <3>3. IsFiniteSet(SeatsSoldTo(CountedBy(r), t, d)) /\ counted \in Nat
      BY <1>0, SeatsFinite DEF IndInv
    <3> QED
      BY <3>1, <3>2, <3>3, FS_Subset
  <2>3. counted + req[r].quantity <= Seats(t)
    BY <1>1 DEF IndInv, SeatsHeld
  <2>4. Seats(t)' = Seats(t) /\ Seats(t) \in Nat
    BY BoundsAssumption DEF Seats, catalog, IndInv, TypeOK
  <2>5. row.quantity \in Nat /\ Booked(t, d)' \in Nat
    BY BoundsAssumption, BookedNat DEF Row, IndInv
  <2> HIDE DEF others, counted
  <2> QED
    BY <2>1, <2>2, <2>3, <2>4, <2>5
<1>2. CASE ~(t = row.trip /\ d = row.date)
  <2>1. Sold(t, d)' \subseteq Sold(t, d)
    <3>1. rows'[b] = row /\ \A c \in Bookings : c # b => rows'[c] = rows[c]
      BY <1>0 DEF IndInv, TypeOK
    <3> QED
      BY <1>2, <3>1 DEF Sold, SeatsSoldTo, Exists
  <2>2. IsFiniteSet(Sold(t, d)) /\ Booked(t, d) \in Nat /\ Booked(t, d)' \in Nat
    BY BookedNat
  <2>3. Cardinality(Sold(t, d)') <= Cardinality(Sold(t, d))
    BY <2>1, <2>2, FS_Subset
  <2> QED
    BY <2>2, <2>3 DEF Booked
<1> QED
  BY <1>1, <1>2

Growth ==
  \A t \in Trips, d \in Dates :
    Booked(t, d)' > Booked(t, d) => Booked(t, d)' <= Seats(t)' \/ RevivedOn(t, d)

LEMMA SameQuantityGrowth ==
  ASSUME TypeOK, NEW b \in Bookings, rows[b] \in Row, NEW row \in Row,
         rows' = [rows EXCEPT ![b] = row],
         row.trip = rows[b].trip, row.date = rows[b].date, row.quantity = rows[b].quantity
  PROVE  Growth
<1>1. ASSUME NEW t \in Trips, NEW d \in Dates, Booked(t, d)' > Booked(t, d)
      PROVE  Revives(b) /\ rows[b].trip = t /\ rows[b].date = d
  <2>1. ~(Revives(b) /\ rows[b].trip = t /\ rows[b].date = d)
           => Booked(t, d)' <= Booked(t, d)
    BY SameQuantity
  <2>2. Booked(t, d) \in Nat /\ Booked(t, d)' \in Nat
    BY BookedNat
  <2> QED
    BY <1>1, <2>1, <2>2
<1> QED
  BY <1>1 DEF Growth, RevivedOn

LEMMA ProceedGrowth ==
  ASSUME IndInv, IndInv', NEW r \in Requests, Proceed(r)
  PROVE  Growth
<1> DEFINE b == req[r].booking
<1>1. Reject(r) \/ TakesRow(r) \/ TakesTrip(r) \/ Counts(r) \/ Inserts(r) \/ Updates(r)
  BY ProceedKinds DEF IndInv
<1>2. ASSUME rows' = rows
      PROVE  Growth
  BY <1>2, SameRows, BookedNat DEF Growth, IndInv
<1>3. CASE Reject(r) \/ TakesRow(r) \/ TakesTrip(r) \/ Counts(r)
  BY <1>2, <1>3 DEF Reject, TakesRow, TakesTrip, LockTrip, Counts, CountAndCheck
<1>4. CASE Inserts(r)
  <2>1. pc[r] = "counted" /\ req[r].op = "create"
    BY <1>4 DEF Inserts, CreateCommit, At
  <2>2. NewRow(req[r]) \in Row
    BY <2>1, InFlight, RequestKinds, NewRowType DEF IndInv
  <2>3. /\ NewRow(req[r]).trip = TripOf(r) /\ NewRow(req[r]).date = DateOf(r)
        /\ NewRow(req[r]).quantity = req[r].quantity
    BY <2>1 DEF NewRow, TripOf, DateOf
  <2> QED
    BY <1>4, <2>1, <2>2, <2>3, CountedWrite DEF Inserts, CreateCommit, Commit, Growth
<1>5. CASE Updates(r)
  <2>1. b \in Bookings /\ rows[b] \in Row /\ req[r].op # "create" /\ catalog' = catalog
    BY <1>5, InFlight DEF IndInv, Updates, Commit
  <2>2. PICK row \in Row :
          /\ row.trip = rows[b].trip /\ row.date = rows[b].date
          /\ \/ row.quantity = rows[b].quantity
             \/ At(r, "edit", "counted") /\ row.quantity = req[r].quantity
          /\ rows' = [rows EXCEPT ![b] = row]
    BY <1>5 DEF Updates
  <2>3. CASE row.quantity = rows[b].quantity
    BY <2>1, <2>2, <2>3, SameQuantityGrowth DEF IndInv
  <2>4. CASE At(r, "edit", "counted") /\ row.quantity = req[r].quantity
    <3>1. row.trip = TripOf(r) /\ row.date = DateOf(r)
      BY <2>1, <2>2 DEF TripOf, DateOf
    <3> QED
      BY <2>1, <2>2, <2>4, <3>1, CountedWrite DEF Growth, At
  <2> QED
    BY <2>2, <2>3, <2>4
<1> QED
  BY <1>1, <1>3, <1>4, <1>5

LEMMA StepGrowth ==
  ASSUME IndInv, IndInv', [Next]_vars
  PROVE  Growth
<1>1. ASSUME rows' = rows
      PROVE  Growth
  BY <1>1, SameRows, BookedNat DEF Growth, IndInv
<1>2. ASSUME NEW r \in Requests, Start(r) \/ Abort(r) \/ DeadlockVictim(r)
      PROVE  Growth
  BY <1>1, <1>2 DEF Start, CreateBegin, EditBegin, ConfirmBegin, CompleteBegin, CancelBegin,
     Begin, Abort, DeadlockVictim, Reject
<1>3. ASSUME NEW r \in Requests, Proceed(r)
      PROVE  Growth
  BY <1>3, ProceedGrowth
<1>4. ASSUME NEW b \in Bookings, NEW s \in PatchStatuses, NEW reason \in Reasons,
             Patch(b, s, reason)
      PROVE  Growth
  <2> DEFINE row == PatchedRow(rows[b], s, reason)
  <2>1. rows[b] \in Row /\ s \in Statuses /\ reason \in BOOLEAN
    BY <1>4, BoundsAssumption DEF Patch, Exists, IndInv, TypeOK
  <2>2. row \in Row
    BY <2>1, PatchedRowType
  <2>3. row.trip = rows[b].trip /\ row.date = rows[b].date /\ row.quantity = rows[b].quantity
    BY <2>1 DEF PatchedRow, Row
  <2>4. rows' = [rows EXCEPT ![b] = row]
    BY <1>4 DEF Patch
  <2> HIDE DEF row
  <2> QED
    BY <2>1, <2>2, <2>3, <2>4, SameQuantityGrowth DEF IndInv
<1>5. CASE Payment
  <2>1. ASSUME NEW b \in Bookings, Checkout(b)
        PROVE  Growth
    BY <1>1, <2>1 DEF Checkout
  <2>2. ASSUME NEW f \in forms, NEW x \in TxIds \cup {None}, Ipn(f, x)
        PROVE  Growth
    <3> DEFINE b == f.booking
               row == [rows[b] EXCEPT !.paid = TRUE, !.tx = x]
    <3>1. b \in Bookings /\ rows[b] \in Row
      BY <2>2 DEF Ipn, Exists, IndInv, TypeOK
    <3>2. /\ row \in Row /\ row.trip = rows[b].trip /\ row.date = rows[b].date
          /\ row.quantity = rows[b].quantity
      BY <3>1 DEF Row
    <3>3. rows' = [rows EXCEPT ![b] = row]
      BY <2>2, <3>1 DEF Ipn, IndInv, TypeOK
    <3> HIDE DEF b, row
    <3> QED
      BY <3>1, <3>2, <3>3, SameQuantityGrowth DEF IndInv
  <2> QED
    BY <1>5, <2>1, <2>2 DEF Payment
<1>6. CASE Catalogue
  BY <1>1, <1>6 DEF Catalogue, SetSeats, UpdateTrip, SetSurcharges, CreateBlock, UpdateBlock,
     DeleteBlock
<1>7. CASE UNCHANGED vars
  BY <1>1, <1>7 DEF vars
<1> QED
  BY <1>2, <1>3, <1>4, <1>5, <1>6, <1>7 DEF Next

\* Seats are sold within the bus, by however many requests and on however many
\* departures, unless a cancelled booking is revived.
THEOREM GrowsWithinCapacity == Spec => GrowthWithinCapacity
<1>1. IndInv /\ IndInv' /\ [Next]_vars => [Growth]_vars
  BY StepGrowth
<1>2. GrowthWithinCapacity <=> [][Growth]_vars
  BY DEF GrowthWithinCapacity, Growth
<1> QED
  BY <1>1, <1>2, Inductive, PTL DEF Spec

-----------------------------------------------------------------------------
(* What is ever written to a row of bookings.                              *)

\* An edit that was let past the status of its row holds the row, so the
\* booking is neither cancelled nor completed until it commits.
EditLives(r) ==
  pc[r] \in {"rowLocked", "tripLocked", "counted"} /\ req[r].op = "edit" =>
    rows[req[r].booking].status \notin {"cancelled", "completed"}

EditsLive == \A r \in Requests : EditLives(r)

Edited(row, new) ==
  /\ row.status \notin {"cancelled", "completed"}
  /\ \E q \in EditReq : new = EditRow(row, q)

Moved(c, row, new) ==
  \/ new = [row EXCEPT !.status = "confirmed", !.confirmedAt = TRUE]
  \/ new = [row EXCEPT !.status = "completed"]
  \/ \E r \in Requests : /\ CancelCommit(r) /\ req[r].booking = c
                         /\ req[r] \in CancelReq /\ new = CancelledRow(row, req[r])
  \/ \E s \in PatchStatuses, reason \in Reasons :
       Patch(c, s, reason) /\ new = PatchedRow(row, s, reason)

Paid(row, new) ==
  /\ row.status = "confirmed" /\ ~row.paid
  /\ \E x \in TxIds \cup {None} : new = [row EXCEPT !.paid = TRUE, !.tx = x]

\* All that a step may do to booking c.
Written(c) ==
  \/ rows'[c] = rows[c]
  \/ rows[c] = None /\ \E q \in CreateReq : rows'[c] = NewRow(q)
  \/ /\ rows[c] \in Row
     /\ Edited(rows[c], rows'[c]) \/ Moved(c, rows[c], rows'[c]) \/ Paid(rows[c], rows'[c])

LEMMA OneRowWritten ==
  ASSUME TypeOK, NEW b \in Bookings, NEW row, rows' = [rows EXCEPT ![b] = row],
         \/ rows[b] = None /\ \E q \in CreateReq : row = NewRow(q)
         \/ /\ rows[b] \in Row
            /\ Edited(rows[b], row) \/ Moved(b, rows[b], row) \/ Paid(rows[b], row),
         NEW c \in Bookings
  PROVE  Written(c)
<1>1. CASE c = b
  <2>1. rows'[c] = row
    BY <1>1 DEF TypeOK
  <2> QED
    BY <1>1, <2>1 DEF Written
<1>2. CASE c # b
  BY <1>2 DEF Written, TypeOK
<1> QED
  BY <1>1, <1>2

LEMMA ProceedWrites ==
  ASSUME TypeOK, RequestsSound, EditsLive, NEW r \in Requests, Proceed(r),
         NEW c \in Bookings
  PROVE  Written(c)
<1> DEFINE b == req[r].booking
<1>0. pc[r] # "idle"
  BY ProceedCases
<1>1. /\ req[r] \in Request /\ b \in Bookings
      /\ req[r].op # "create" => rows[b] \in Row
  BY <1>0, InFlight
<1>2. CASE CreateLockTrip(r) \/ EditLockTrip(r) \/ CreateCount(r) \/ EditCount(r)
  BY <1>2 DEF CreateLockTrip, EditLockTrip, LockTrip, CreateCount, EditCount, CountAndCheck,
     Reject, Written
<1>3. CASE CreateCommit(r)
  <2>1. req[r] \in CreateReq /\ rows[b] = None
    BY <1>1, <1>3, RequestKinds DEF CreateCommit, At, RequestsSound, Exists
  <2>2. rows' = [rows EXCEPT ![b] = NewRow(req[r])]
    BY <1>3 DEF CreateCommit
  <2> QED
    BY <1>1, <2>1, <2>2, OneRowWritten
<1>4. CASE /\ EditWrite(r) /\ req[r].op = "edit"
           /\ rows[b].status \notin {"cancelled", "completed"}
  <2>1. req[r] \in EditReq /\ rows[b] \in Row
    BY <1>1, <1>4, RequestKinds
  <2>2. Edited(rows[b], EditRow(rows[b], req[r]))
    BY <1>4, <2>1 DEF Edited
  <2>3. rows' = [rows EXCEPT ![b] = EditRow(rows[b], req[r])]
    BY <1>4 DEF EditWrite
  <2> QED
    BY <1>1, <2>1, <2>2, <2>3, OneRowWritten
<1>5. CASE EditLock(r)
  <2>1. CASE rows' = rows
    BY <2>1 DEF Written
  <2>2. CASE rows' # rows
    BY <1>4, <1>5, <2>2 DEF EditLock, Reject, At
  <2> QED
    BY <2>1, <2>2
<1>6. CASE EditCommit(r)
  BY <1>4, <1>6 DEF EditCommit, At, EditsLive, EditLives
<1>7. CASE ConfirmCommit(r)
  <2> DEFINE row == [rows[b] EXCEPT !.status = "confirmed", !.confirmedAt = TRUE]
  <2>1. rows[b] \in Row /\ Moved(b, rows[b], row)
    BY <1>1, <1>7 DEF ConfirmCommit, At, Moved
  <2>2. rows' = [rows EXCEPT ![b] = row]
    BY <1>1, <1>7 DEF ConfirmCommit, TypeOK
  <2> HIDE DEF row
  <2> QED
    BY <1>1, <2>1, <2>2, OneRowWritten
<1>8. CASE CompleteCommit(r)
  <2> DEFINE row == [rows[b] EXCEPT !.status = "completed"]
  <2>1. rows[b] \in Row /\ Moved(b, rows[b], row)
    BY <1>1, <1>8 DEF CompleteCommit, At, Moved
  <2>2. rows' = [rows EXCEPT ![b] = row]
    BY <1>1, <1>8 DEF CompleteCommit, TypeOK
  <2> HIDE DEF row
  <2> QED
    BY <1>1, <2>1, <2>2, OneRowWritten
<1>9. CASE CancelCommit(r)
  <2>1. rows[b] \in Row /\ req[r] \in CancelReq
    BY <1>0, <1>1, <1>9, RequestKinds DEF CancelCommit, At
  <2>2. Moved(b, rows[b], CancelledRow(rows[b], req[r]))
    BY <1>9, <2>1 DEF Moved
  <2>3. rows' = [rows EXCEPT ![b] = CancelledRow(rows[b], req[r])]
    BY <1>1, <1>9 DEF CancelCommit, TypeOK
  <2> QED
    BY <1>1, <2>1, <2>2, <2>3, OneRowWritten
<1> QED
  BY <1>2, <1>3, <1>5, <1>6, <1>7, <1>8, <1>9 DEF Proceed

\* Every step writes a row in one of these ways, or not at all.
LEMMA StepWrites ==
  ASSUME TypeOK, RequestsSound, EditsLive, [Next]_vars, NEW c \in Bookings
  PROVE  Written(c)
<1>1. ASSUME rows' = rows
      PROVE  Written(c)
  BY <1>1 DEF Written
<1>2. ASSUME NEW r \in Requests, Start(r) \/ Abort(r) \/ DeadlockVictim(r)
      PROVE  Written(c)
  BY <1>1, <1>2 DEF Start, CreateBegin, EditBegin, ConfirmBegin, CompleteBegin, CancelBegin,
     Begin, Abort, DeadlockVictim, Reject
<1>3. ASSUME NEW r \in Requests, Proceed(r)
      PROVE  Written(c)
  BY <1>3, ProceedWrites
<1>4. ASSUME NEW b \in Bookings, NEW s \in PatchStatuses, NEW reason \in Reasons,
             Patch(b, s, reason)
      PROVE  Written(c)
  <2>1. rows[b] \in Row
    BY <1>4 DEF Patch, Exists, TypeOK
  <2>2. Moved(b, rows[b], PatchedRow(rows[b], s, reason))
    BY <1>4 DEF Moved
  <2>3. rows' = [rows EXCEPT ![b] = PatchedRow(rows[b], s, reason)]
    BY <1>4 DEF Patch
  <2> QED
    BY <2>1, <2>2, <2>3, OneRowWritten
<1>5. CASE Payment
  <2>1. ASSUME NEW b \in Bookings, Checkout(b)
        PROVE  Written(c)
    BY <1>1, <2>1 DEF Checkout
  <2>2. ASSUME NEW f \in forms, NEW x \in TxIds \cup {None}, Ipn(f, x)
        PROVE  Written(c)
    <3> DEFINE b == f.booking
               row == [rows[b] EXCEPT !.paid = TRUE, !.tx = x]
    <3>1. b \in Bookings /\ rows[b] \in Row
      BY <2>2 DEF Ipn, Exists, TypeOK
    <3>2. Paid(rows[b], row)
      BY <2>2 DEF Ipn, Paid
    <3>3. rows' = [rows EXCEPT ![b] = row]
      BY <2>2, <3>1 DEF Ipn, TypeOK
    <3> HIDE DEF b, row
    <3> QED
      BY <3>1, <3>2, <3>3, OneRowWritten
  <2> QED
    BY <1>5, <2>1, <2>2 DEF Payment
<1>6. CASE Catalogue
  BY <1>1, <1>6 DEF Catalogue, SetSeats, UpdateTrip, SetSurcharges, CreateBlock, UpdateBlock,
     DeleteBlock
<1>7. CASE UNCHANGED vars
  BY <1>1, <1>7 DEF vars
<1> QED
  BY <1>2, <1>3, <1>4, <1>5, <1>6, <1>7 DEF Next

LEMMA StepEditsLive ==
  ASSUME IndInv, EditsLive, [Next]_vars
  PROVE  EditsLive'
<1> SUFFICES ASSUME NEW s \in Requests
             PROVE  EditLives(s)'
  BY DEF EditsLive
<1>0. TypeOK /\ RequestsSound /\ LocksHeld /\ Holds(s) /\ EditLives(s)
  BY OneByOne DEF IndInv, EditsLive
<1>1. ASSUME Undisturbed(s)
      PROVE  EditLives(s)'
  <2> SUFFICES ASSUME pc[s] \in {"rowLocked", "tripLocked", "counted"}, req[s].op = "edit"
               PROVE  rows'[req[s].booking] = rows[req[s].booking]
    BY <1>0, <1>1 DEF EditLives, Undisturbed
  <2>1. req[s].booking \in Bookings /\ rows[req[s].booking] \in Row
    BY <1>0, InFlight
  <2> QED
    BY <1>0, <1>1, <2>1, NoneAssumption DEF Holds, Undisturbed
<1>2. ASSUME pc'[s] \notin {"rowLocked", "tripLocked", "counted"}
      PROVE  EditLives(s)'
  BY <1>2 DEF EditLives
<1>3. ASSUME NEW r \in Requests, Start(r)
      PROVE  EditLives(s)'
  <2>1. PICK q : Begin(r, q)
    BY <1>3 DEF Start, CreateBegin, EditBegin, ConfirmBegin, CompleteBegin, CancelBegin
  <2>2. CASE s = r
    <3>1. pc'[s] = "begun"
      BY <1>0, <2>1, <2>2 DEF Begin, TypeOK
    <3> QED
      BY <1>2, <3>1
  <2>3. CASE s # r
    BY <1>0, <1>1, <2>1, <2>3 DEF Begin, Undisturbed, TypeOK, catalog, locks
  <2> QED
    BY <2>2, <2>3
<1>4. ASSUME NEW r \in Requests, Reject(r)
      PROVE  EditLives(s)'
  <2>1. CASE s = r
    BY <1>0, <1>2, <1>4, <2>1 DEF Reject, Finish, TypeOK
  <2>2. CASE s # r
    BY <1>0, <1>1, <1>4, <2>2, FinishOthers DEF Reject
  <2> QED
    BY <2>1, <2>2
<1>5. ASSUME Proceed(s)
      PROVE  EditLives(s)'
  <2>1. CASE Reject(s)
    BY <1>4, <2>1
  <2>2. CASE Commit(s)
    BY <1>0, <1>2, <2>2 DEF Commit, Finish, TypeOK
  <2>3. CASE EditLock(s) /\ ~Reject(s) /\ ~Commit(s)
    BY <1>0, <2>3 DEF EditLock, EditWrite, EditLives, TypeOK
  <2>4. CASE (EditLockTrip(s) \/ EditCount(s)) /\ ~Reject(s)
    BY <1>0, <2>4 DEF EditLockTrip, EditCount, LockTrip, CountAndCheck, At, EditLives, TypeOK
  <2>5. CASE (CreateLockTrip(s) \/ CreateCount(s)) /\ ~Reject(s)
    BY <1>0, <2>5 DEF CreateLockTrip, CreateCount, LockTrip, CountAndCheck, At, EditLives
  <2> QED
    BY <1>5, <2>1, <2>2, <2>3, <2>4, <2>5 DEF Proceed, CreateCommit, EditCommit, EditWrite,
       ConfirmCommit, CompleteCommit, CancelCommit
<1>6. ASSUME NEW r \in Requests, r # s, Proceed(r)
      PROVE  EditLives(s)'
  <2>1. Reject(r) \/ TakesRow(r) \/ TakesTrip(r) \/ Counts(r) \/ Inserts(r) \/ Updates(r)
    BY <1>0, <1>6, ProceedKinds
  <2>2. CASE Reject(r)
    BY <1>4, <2>2
  <2>3. CASE TakesRow(r) \/ TakesTrip(r) \/ Counts(r)
    BY <1>0, <1>1, <1>6, <2>3, TakeOthers
  <2>4. CASE Inserts(r) \/ Updates(r)
    BY <1>0, <1>1, <1>6, <2>4, WriteOthers
  <2> QED
    BY <2>1, <2>2, <2>3, <2>4
<1>7. ASSUME NEW r \in Requests, Abort(r) \/ DeadlockVictim(r)
      PROVE  EditLives(s)'
  BY <1>4, <1>7 DEF Abort, DeadlockVictim
<1>8. ASSUME NEW b \in Bookings, NEW st \in PatchStatuses, NEW reason \in Reasons,
             Patch(b, st, reason)
      PROVE  EditLives(s)'
  BY <1>0, <1>1, <1>8, PatchDisturbsNone
<1>9. CASE Payment \/ Catalogue
  BY <1>0, <1>1, <1>9, PaymentDisturbsNone, CatalogueDisturbsNone
<1>10. CASE UNCHANGED vars
  BY <1>1, <1>10 DEF vars, catalog, locks, Undisturbed
<1> QED
  BY <1>3, <1>5, <1>6, <1>7, <1>8, <1>9, <1>10 DEF Next

LEMMA LiveInv == Spec => [](IndInv /\ EditsLive)
<1>1. Init => IndInv /\ EditsLive
  BY InitIndInv DEF Init, EditsLive, EditLives
<1>2. (IndInv /\ EditsLive) /\ [Next]_vars => (IndInv /\ EditsLive)'
  BY StepIndInv, StepEditsLive
<1> QED
  BY <1>1, <1>2, PTL DEF Spec

LEMMA LiveWrites ==
  ASSUME IndInv, EditsLive, [Next]_vars
  PROVE  \A c \in Bookings : Written(c)
BY StepWrites DEF IndInv

-----------------------------------------------------------------------------
(* What no write of a row may break.                                       *)

\* A recorded payment is never lost or replaced.
THEOREM PaymentsKept == Spec => PaymentKept
<1> DEFINE Kept == \A b \in Bookings :
             Exists(b) /\ rows[b].paid => rows'[b].paid /\ rows'[b].tx = rows[b].tx
<1>1. ASSUME IndInv, EditsLive, [Next]_vars, NEW b \in Bookings, Exists(b), rows[b].paid
      PROVE  rows'[b].paid /\ rows'[b].tx = rows[b].tx
  <2>1. CASE rows'[b] = rows[b]
    BY <1>1, <2>1
  <2>2. CASE rows[b] \in Row /\ Edited(rows[b], rows'[b])
    BY <1>1, <2>2 DEF Edited, EditRow, Row
  <2>3. CASE rows[b] \in Row /\ Moved(b, rows[b], rows'[b])
    BY <1>1, <2>3 DEF Moved, CancelledRow, PatchedRow, Row
  <2> QED
    BY <1>1, <2>1, <2>2, <2>3, LiveWrites DEF Written, Exists, Paid
<1>2. IndInv /\ EditsLive /\ [Next]_vars => [Kept]_vars
  BY <1>1
<1>3. PaymentKept <=> [][Kept]_vars
  BY DEF PaymentKept
<1> QED
  BY <1>2, <1>3, LiveInv, PTL DEF Spec

\* The total of a booking is the price it was quoted times its quantity.
THEOREM TotalsAsQuoted == Spec => []TotalAsQuoted
<1>1. Init => TotalAsQuoted
  BY DEF Init, TotalAsQuoted, Exists
<1>2. ASSUME IndInv, EditsLive, TotalAsQuoted, [Next]_vars, NEW b \in Bookings, Exists(b)'
      PROVE  rows'[b].total = rows'[b].unit * rows'[b].quantity
  <2>1. CASE rows'[b] = rows[b]
    BY <1>2, <2>1 DEF TotalAsQuoted, Exists
  <2>2. CASE \E q \in CreateReq : rows'[b] = NewRow(q)
    BY <2>2 DEF NewRow
  <2>3. ASSUME rows[b] \in Row
        PROVE  rows[b].total = rows[b].unit * rows[b].quantity
    BY <1>2, <2>3, NoneAssumption DEF TotalAsQuoted, Exists
  <2>4. CASE rows[b] \in Row /\ Edited(rows[b], rows'[b])
    BY <2>3, <2>4 DEF Edited, EditRow, Row, EditReq
  <2>5. CASE rows[b] \in Row /\ (Moved(b, rows[b], rows'[b]) \/ Paid(rows[b], rows'[b]))
    BY <2>3, <2>5 DEF Moved, Paid, CancelledRow, PatchedRow, Row
  <2> QED
    BY <1>2, <2>1, <2>2, <2>4, <2>5, LiveWrites DEF Written
<1>3. (IndInv /\ EditsLive) /\ TotalAsQuoted /\ [Next]_vars => TotalAsQuoted'
  BY <1>2 DEF TotalAsQuoted, Exists
<1> QED
  BY <1>1, <1>3, LiveInv, PTL DEF Spec

\* A booking is confirmed without its time only by a patch that takes it out of
\* a final status: a stale confirmation sets the time on whatever it confirms.
THEOREM ConfirmationsTimed == Spec => ConfirmedHasTime
<1> DEFINE Timed ==
      \A b \in Bookings : ~Timeless(b) /\ Timeless(b)' =>
        /\ \E reason \in Reasons : Patch(b, "confirmed", reason)
        /\ rows[b].status \in {"cancelled", "completed"}
<1>1. ASSUME IndInv, EditsLive, [Next]_vars, NEW b \in Bookings, ~Timeless(b), Timeless(b)'
      PROVE  /\ \E reason \in Reasons : Patch(b, "confirmed", reason)
             /\ rows[b].status \in {"cancelled", "completed"}
  <2>0. /\ rows'[b] # None /\ rows'[b].status = "confirmed" /\ ~rows'[b].confirmedAt
        /\ rows[b] # None => rows[b].status # "confirmed" \/ rows[b].confirmedAt
    BY <1>1 DEF Timeless, Exists
  <2>1. rows'[b] # rows[b]
    BY <2>0
  <2>2. CASE rows[b] = None /\ \E q \in CreateReq : rows'[b] = NewRow(q)
    BY <2>0, <2>2 DEF NewRow
  <2>3. CASE rows[b] \in Row /\ (Edited(rows[b], rows'[b]) \/ Paid(rows[b], rows'[b]))
    <3>1. rows'[b].status = rows[b].status /\ rows'[b].confirmedAt = rows[b].confirmedAt
      BY <2>3 DEF Edited, Paid, EditRow, Row
    <3> QED
      BY <2>0, <2>3, <3>1, NoneAssumption
  <2>4. CASE rows[b] \in Row /\ Moved(b, rows[b], rows'[b])
    <3>1. PICK s \in PatchStatuses, reason \in Reasons :
            Patch(b, s, reason) /\ rows'[b] = PatchedRow(rows[b], s, reason)
      BY <2>0, <2>4 DEF Moved, CancelledRow, Row
    <3>2. s = "confirmed"
      BY <2>0, <2>4, <3>1 DEF PatchedRow, Row
    <3>3. rows[b].status # "pending" /\ ~rows[b].confirmedAt
      BY <2>0, <2>4, <3>1, <3>2 DEF PatchedRow, Row
    <3> QED
      BY <2>0, <2>4, <3>1, <3>2, <3>3, NoneAssumption DEF Row, Statuses, Counted
  <2> QED
    BY <1>1, <2>1, <2>2, <2>3, <2>4, LiveWrites DEF Written
<1>2. IndInv /\ EditsLive /\ [Next]_vars => [Timed]_vars
  BY <1>1
<1>3. ConfirmedHasTime <=> [][Timed]_vars
  BY DEF ConfirmedHasTime
<1> QED
  BY <1>2, <1>3, LiveInv, PTL DEF Spec

\* The address of a hotel is lost only to a cancel that read the notes before
\* the address was in them.
THEOREM AddressesKept == Spec => HotelAddressKept
<1> DEFINE Kept ==
      \A b \in Bookings : ~Addressless(b) /\ Addressless(b)' =>
        \E r \in Requests :
          /\ CancelCommit(r) /\ req[r].booking = b
          /\ "HOTEL_PICKUP" \notin req[r].notes
<1>1. ASSUME IndInv, EditsLive, [Next]_vars, NEW b \in Bookings,
             ~Addressless(b), Addressless(b)'
      PROVE  \E r \in Requests :
               /\ CancelCommit(r) /\ req[r].booking = b
               /\ "HOTEL_PICKUP" \notin req[r].notes
  <2>0. /\ rows'[b] # None /\ rows'[b].hotel /\ "HOTEL_PICKUP" \notin rows'[b].notes
        /\ rows[b] # None => ~rows[b].hotel \/ "HOTEL_PICKUP" \in rows[b].notes
    BY <1>1 DEF Addressless, Exists
  <2>1. rows'[b] # rows[b]
    BY <2>0
  <2>2. CASE rows[b] = None /\ \E q \in CreateReq : rows'[b] = NewRow(q)
    BY <2>0, <2>2 DEF NewRow, HotelNotes
  <2>3. CASE rows[b] \in Row /\ Edited(rows[b], rows'[b])
    BY <2>0, <2>3 DEF Edited, EditRow, HotelNotes, Row
  <2>4. CASE rows[b] \in Row /\ Paid(rows[b], rows'[b])
    BY <2>0, <2>4, NoneAssumption DEF Paid, Row
  <2>5. CASE rows[b] \in Row /\ Moved(b, rows[b], rows'[b])
    <3>1. "HOTEL_PICKUP" \in rows[b].notes \/ ~rows[b].hotel
      BY <2>0, <2>5, NoneAssumption
    <3>2. PICK r \in Requests : /\ CancelCommit(r) /\ req[r].booking = b
                                /\ req[r] \in CancelReq /\ rows'[b] = CancelledRow(rows[b], req[r])
      BY <2>0, <2>5, <3>1 DEF Moved, PatchedRow, Row
    <3> QED
      BY <2>0, <2>5, <3>1, <3>2 DEF CancelledRow, Row
  <2> QED
    BY <1>1, <2>1, <2>2, <2>3, <2>4, <2>5, LiveWrites DEF Written
<1>2. IndInv /\ EditsLive /\ [Next]_vars => [Kept]_vars
  BY <1>1
<1>3. HotelAddressKept <=> [][Kept]_vars
  BY DEF HotelAddressKept
<1> QED
  BY <1>2, <1>3, LiveInv, PTL DEF Spec

\* A paid booking is cancelled without the line for its refund only by a cancel
\* whose copy was not paid yet, or had the line already.  The patch, which
\* decides on the fresh row, never misses it, and an edit, which rebuilds the
\* notes, never touches a cancelled booking.
THEOREM RefundsFlagged == Spec => RefundFlagged
<1> DEFINE Flagged ==
      \A b \in Bookings : ~Unflagged(b) /\ Unflagged(b)' =>
        \E r \in Requests :
          /\ CancelCommit(r) /\ req[r].booking = b
          /\ \/ ~req[r].refund
             \/ ~req[r].reason /\ "SEPAY_REFUND_REQUIRED" \in req[r].notes
<1>1. ASSUME IndInv, EditsLive, [Next]_vars, NEW b \in Bookings,
             ~Unflagged(b), Unflagged(b)'
      PROVE  \E r \in Requests :
               /\ CancelCommit(r) /\ req[r].booking = b
               /\ \/ ~req[r].refund
                  \/ ~req[r].reason /\ "SEPAY_REFUND_REQUIRED" \in req[r].notes
  <2>0. /\ rows'[b] # None /\ rows'[b].status = "cancelled" /\ NeedsRefund(rows'[b])
        /\ "SEPAY_REFUND_REQUIRED" \notin rows'[b].notes
    BY <1>1 DEF Unflagged, Exists
  <2>1. rows'[b] # rows[b]
    BY <1>1 DEF Unflagged, Exists
  <2>2. CASE rows[b] = None /\ \E q \in CreateReq : rows'[b] = NewRow(q)
    BY <2>0, <2>2 DEF NewRow
  <2>3. CASE rows[b] \in Row /\ (Edited(rows[b], rows'[b]) \/ Paid(rows[b], rows'[b]))
    BY <2>0, <2>3 DEF Edited, Paid, EditRow, Row
  <2>4. CASE rows[b] \in Row /\ Moved(b, rows[b], rows'[b])
    <3>1. ASSUME NEW s \in PatchStatuses, NEW reason \in Reasons,
                 rows'[b] = PatchedRow(rows[b], s, reason)
          PROVE  FALSE
      <4>1. s = "cancelled"
        BY <2>0, <2>4, <3>1 DEF PatchedRow, Row
      <4>2. NeedsRefund(rows[b])
        BY <2>0, <2>4, <3>1, <4>1 DEF PatchedRow, NeedsRefund, Row
      <4> QED
        BY <2>0, <2>4, <3>1, <4>1, <4>2 DEF PatchedRow, CancelLines, Row
    <3>2. PICK r \in Requests : /\ CancelCommit(r) /\ req[r].booking = b
                                /\ req[r] \in CancelReq /\ rows'[b] = CancelledRow(rows[b], req[r])
      BY <2>0, <2>4, <3>1 DEF Moved, Row
    <3> QED
      BY <2>0, <2>4, <3>2 DEF CancelledRow, CancelLines, CancelReq, Row
  <2> QED
    BY <1>1, <2>1, <2>2, <2>3, <2>4, LiveWrites DEF Written
<1>2. IndInv /\ EditsLive /\ [Next]_vars => [Flagged]_vars
  BY <1>1
<1>3. RefundFlagged <=> [][Flagged]_vars
  BY DEF RefundFlagged
<1> QED
  BY <1>2, <1>3, LiveInv, PTL DEF Spec

-----------------------------------------------------------------------------
(* How a departure comes to be oversold.                                   *)

Filled ==
  \A t \in Trips, d \in Dates :
    Booked(t, d) <= Seats(t) /\ Booked(t, d)' > Seats(t)' =>
      RevivedOn(t, d) \/ Seats(t)' < Seats(t)

LEMMA StepFilled ==
  ASSUME IndInv, IndInv', [Next]_vars
  PROVE  Filled
<1> SUFFICES ASSUME NEW t \in Trips, NEW d \in Dates,
                    Booked(t, d) <= Seats(t), Booked(t, d)' > Seats(t)', ~RevivedOn(t, d)
             PROVE  Seats(t)' < Seats(t)
  BY DEF Filled
<1>1. Booked(t, d)' > Booked(t, d) => Booked(t, d)' <= Seats(t)'
  BY StepGrowth DEF Growth
<1>2. Booked(t, d) \in Nat /\ Booked(t, d)' \in Nat
  BY BookedNat
<1>3. Seats(t) \in Int /\ Seats(t)' \in Int
  BY BoundsAssumption DEF Seats, IndInv, TypeOK
<1> QED
  BY <1>1, <1>2, <1>3

\* No create and no edit oversells a departure, whatever it races with: seats
\* are oversold by a revived booking of that departure or by a smaller bus.
THEOREM NoSaleOversold == Spec => NoSaleOversells
<1>1. IndInv /\ IndInv' /\ [Next]_vars => [Filled]_vars
  BY StepFilled
<1>2. NoSaleOversells <=> [][Filled]_vars
  BY DEF NoSaleOversells, Filled
<1> QED
  BY <1>1, <1>2, Inductive, PTL DEF Spec

\* The steps the engine does not check against the seats sold.
Unchecked ==
  \/ \E b \in Bookings : Revives(b)
  \/ \E t \in Trips : Seats(t)' < Seats(t)

\* As long as no cancelled booking is revived and no trip gets fewer seats, no
\* departure is ever oversold, cancels and larger buses included.
THEOREM NoneOversold == Spec /\ [][~Unchecked]_vars => []NeverOversold
<1>1. ASSUME Init
      PROVE  NeverOversold
  <2> SUFFICES ASSUME NEW t \in Trips, NEW d \in Dates
               PROVE  Booked(t, d) <= Seats(t)
    BY DEF NeverOversold
  <2>1. Sold(t, d) = {}
    BY <1>1 DEF Init, Sold, SeatsSoldTo, Exists
  <2>2. Booked(t, d) = 0
    BY <2>1, FS_EmptySet DEF Booked
  <2>3. Seats(t) \in Nat
    BY <1>1, InitTypeSound, BoundsAssumption DEF Seats, TypeOK
  <2> QED
    BY <2>2, <2>3
<1>2. ASSUME IndInv, IndInv', NeverOversold, [Next]_vars, [~Unchecked]_vars
      PROVE  NeverOversold'
  <2>1. CASE UNCHANGED vars
    BY <1>2, <2>1 DEF NeverOversold, Booked, Sold, SeatsSoldTo, Exists, Seats, vars, catalog
  <2>2. CASE ~Unchecked
    <3>1. ASSUME NEW t \in Trips, NEW d \in Dates
          PROVE  Booked(t, d)' <= Seats(t)'
      <4>1. ~RevivedOn(t, d) /\ ~(Seats(t)' < Seats(t)) /\ Booked(t, d) <= Seats(t)
        BY <1>2, <2>2 DEF Unchecked, RevivedOn, NeverOversold
      <4>2. Booked(t, d)' \in Nat /\ Seats(t)' \in Int
        BY <1>2, BookedNat, BoundsAssumption DEF Seats, IndInv, TypeOK
      <4> QED
        BY <1>2, <4>1, <4>2, StepFilled DEF Filled
    <3> QED
      BY <3>1 DEF NeverOversold, Booked, Sold, SeatsSoldTo, Exists, Seats
  <2> QED
    BY <1>2, <2>1, <2>2
<1>3. Init => NeverOversold
  BY <1>1
<1>4. IndInv /\ IndInv' /\ NeverOversold /\ [Next]_vars /\ [~Unchecked]_vars => NeverOversold'
  BY <1>2
<1> QED
  BY <1>3, <1>4, Inductive, PTL DEF Spec

-----------------------------------------------------------------------------
(* The engine implements the seat ledger.                                  *)

\* A step that writes rows writes one, and changes no bus.
OneRow(b) ==
  /\ \A c \in Bookings : c # b => rows'[c] = rows[c]
  /\ UNCHANGED <<busOf, seatCount>>

LEMMA StepWritesOne ==
  ASSUME IndInv, [Next]_vars
  PROVE  rows' = rows \/ \E b \in Bookings : OneRow(b)
<1>1. ASSUME NEW b \in Bookings, NEW row, rows' = [rows EXCEPT ![b] = row], catalog' = catalog
      PROVE  OneRow(b)
  BY <1>1 DEF OneRow, IndInv, TypeOK, catalog
<1>2. ASSUME NEW r \in Requests, Proceed(r)
      PROVE  rows' = rows \/ \E b \in Bookings : OneRow(b)
  <2>1. Reject(r) \/ TakesRow(r) \/ TakesTrip(r) \/ Counts(r) \/ Inserts(r) \/ Updates(r)
    BY <1>2, ProceedKinds DEF IndInv
  <2>2. CASE Reject(r) \/ TakesRow(r) \/ TakesTrip(r) \/ Counts(r)
    BY <2>2 DEF Reject, TakesRow, TakesTrip, LockTrip, Counts, CountAndCheck
  <2>3. CASE Inserts(r) \/ Updates(r)
    <3>1. req[r].booking \in Bookings
      BY <1>2, ProceedCases, InFlight DEF IndInv
    <3> QED
      BY <1>1, <2>3, <3>1 DEF Inserts, CreateCommit, Updates, Commit
  <2> QED
    BY <2>1, <2>2, <2>3
<1>3. ASSUME NEW b \in Bookings, NEW s \in PatchStatuses, NEW reason \in Reasons,
             Patch(b, s, reason)
      PROVE  OneRow(b)
  BY <1>1, <1>3 DEF Patch
<1>4. CASE Payment
  <2>1. ASSUME NEW b \in Bookings, Checkout(b)
        PROVE  rows' = rows
    BY <2>1 DEF Checkout
  <2>2. ASSUME NEW f \in forms, NEW x \in TxIds \cup {None}, Ipn(f, x)
        PROVE  OneRow(f.booking) /\ f.booking \in Bookings
    <3>1. f.booking \in Bookings
      BY <2>2 DEF IndInv, TypeOK
    <3>2. \E row : rows' = [rows EXCEPT ![f.booking] = row]
      BY <2>2, <3>1 DEF Ipn, IndInv, TypeOK
    <3> QED
      BY <1>1, <2>2, <3>1, <3>2 DEF Ipn
  <2> QED
    BY <1>4, <2>1, <2>2 DEF Payment
<1>5. CASE Catalogue
  BY <1>5 DEF Catalogue, SetSeats, UpdateTrip, SetSurcharges, CreateBlock, UpdateBlock,
     DeleteBlock
<1>6. ASSUME NEW r \in Requests, Start(r) \/ Abort(r) \/ DeadlockVictim(r)
      PROVE  rows' = rows
  BY <1>6 DEF Start, CreateBegin, EditBegin, ConfirmBegin, CompleteBegin, CancelBegin,
     Begin, Abort, DeadlockVictim, Reject
<1>7. CASE UNCHANGED vars
  BY <1>7 DEF vars
<1> QED
  BY <1>2, <1>3, <1>4, <1>5, <1>6, <1>7 DEF Next

\* The seats of one booking.
SeatsOf(b, n) == {u \in Bookings \X (1..MaxQuantity) : u[1] = b /\ u[2] <= n}

\* All other departures are left alone.
OnlyAt(t, d) == \A t2 \in Trips, d2 \in Dates : <<t2, d2>> # <<t, d>> =>
  Sold(t2, d2)' = Sold(t2, d2) /\ Shelved(t2, d2)' = Shelved(t2, d2)

SameSeats == \A t \in Trips : Seats(t)' = Seats(t)

LEMMA OneDeparture ==
  ASSUME NEW t \in Trips, NEW d \in Dates,
         NEW f \in [Trips \X Dates -> SUBSET (Bookings \X (1..MaxQuantity))],
         NEW g \in [Trips \X Dates -> SUBSET (Bookings \X (1..MaxQuantity))],
         \A t2 \in Trips, d2 \in Dates : <<t2, d2>> # <<t, d>> => g[<<t2, d2>>] = f[<<t2, d2>>]
  PROVE  g = [f EXCEPT ![<<t, d>>] = g[<<t, d>>]]
<1>1. ASSUME NEW dep \in Trips \X Dates
      PROVE  g[dep] = [f EXCEPT ![<<t, d>>] = g[<<t, d>>]][dep]
  <2>1. PICK t2 \in Trips, d2 \in Dates : dep = <<t2, d2>>
    OBVIOUS
  <2> QED
    BY <2>1
<1> QED
  BY <1>1

\* The variables of the ledger, by the mapping.
LSold     == [dep \in Trips \X Dates |-> Sold(dep[1], dep[2])]
LShelved  == [dep \in Trips \X Dates |-> Shelved(dep[1], dep[2])]
LCapacity == [dep \in Trips \X Dates |-> Seats(dep[1])]

LEMMA MapsAt ==
  ASSUME NEW t \in Trips, NEW d \in Dates, OnlyAt(t, d), SameSeats
  PROVE  /\ LSold' = [LSold EXCEPT ![<<t, d>>] = Sold(t, d)']
         /\ LShelved' = [LShelved EXCEPT ![<<t, d>>] = Shelved(t, d)']
         /\ LCapacity' = LCapacity
         /\ LSold[<<t, d>>] = Sold(t, d)
         /\ LShelved[<<t, d>>] = Shelved(t, d)
         /\ LCapacity[<<t, d>>] = Seats(t)
<1>1. LSold' = [LSold EXCEPT ![<<t, d>>] = Sold(t, d)']
  <2>1. PICK f : f = LSold
    OBVIOUS
  <2>2. PICK g : g = LSold'
    OBVIOUS
  <2>3. \A t2 \in Trips, d2 \in Dates : g[<<t2, d2>>] = Sold(t2, d2)'
    BY <2>2 DEF LSold, Sold, SeatsSoldTo, Exists
  <2>4. \A t2 \in Trips, d2 \in Dates : <<t2, d2>> # <<t, d>> => g[<<t2, d2>>] = f[<<t2, d2>>]
    BY <2>1, <2>3 DEF OnlyAt, LSold
  <2>5. /\ f \in [Trips \X Dates -> SUBSET (Bookings \X (1..MaxQuantity))]
        /\ g \in [Trips \X Dates -> SUBSET (Bookings \X (1..MaxQuantity))]
    BY <2>1, <2>2 DEF LSold, Sold, SeatsSoldTo
  <2>6. g = [f EXCEPT ![<<t, d>>] = g[<<t, d>>]]
    BY <2>4, <2>5, OneDeparture
  <2> QED
    BY <2>1, <2>2, <2>3, <2>6
<1>2. LShelved' = [LShelved EXCEPT ![<<t, d>>] = Shelved(t, d)']
  <2>1. PICK f : f = LShelved
    OBVIOUS
  <2>2. PICK g : g = LShelved'
    OBVIOUS
  <2>3. \A t2 \in Trips, d2 \in Dates : g[<<t2, d2>>] = Shelved(t2, d2)'
    BY <2>2 DEF LShelved, Shelved, Exists
  <2>4. \A t2 \in Trips, d2 \in Dates : <<t2, d2>> # <<t, d>> => g[<<t2, d2>>] = f[<<t2, d2>>]
    BY <2>1, <2>3 DEF OnlyAt, LShelved
  <2>5. /\ f \in [Trips \X Dates -> SUBSET (Bookings \X (1..MaxQuantity))]
        /\ g \in [Trips \X Dates -> SUBSET (Bookings \X (1..MaxQuantity))]
    BY <2>1, <2>2 DEF LShelved, Shelved
  <2>6. g = [f EXCEPT ![<<t, d>>] = g[<<t, d>>]]
    BY <2>4, <2>5, OneDeparture
  <2> QED
    BY <2>1, <2>2, <2>3, <2>6
<1>3. LCapacity' = LCapacity
  BY DEF SameSeats, Seats, LCapacity
<1> QED
  BY <1>1, <1>2, <1>3 DEF LSold, LShelved, LCapacity

LEMMA LedgerCardinality ==
  ASSUME NEW S
  PROVE  Ledger!Cardinality(S) = Cardinality(S)
BY DEF Ledger!Cardinality, Cardinality

LEMMA SellStep ==
  ASSUME NEW t \in Trips, NEW d \in Dates, OnlyAt(t, d), SameSeats,
         NEW S \in SUBSET (Bookings \X (1..MaxQuantity)),
         S \cap (Sold(t, d) \cup Shelved(t, d)) = {},
         Cardinality(Sold(t, d) \cup S) <= Seats(t),
         Sold(t, d)' = Sold(t, d) \cup S, Shelved(t, d)' = Shelved(t, d)
  PROVE  Ledger!Next
<1>0. /\ LSold' = [LSold EXCEPT ![<<t, d>>] = Sold(t, d)']
      /\ LShelved' = [LShelved EXCEPT ![<<t, d>>] = Shelved(t, d)']
      /\ LCapacity' = LCapacity
      /\ LSold[<<t, d>>] = Sold(t, d)
      /\ LShelved[<<t, d>>] = Shelved(t, d)
      /\ LCapacity[<<t, d>>] = Seats(t)
  BY MapsAt
<1>1. LSold' = [LSold EXCEPT ![<<t, d>>] = LSold[<<t, d>>] \cup S]
  BY <1>0, Zenon
<1>2. LShelved' = LShelved
  <2>1. PICK f : f = LShelved
    OBVIOUS
  <2>2. [f EXCEPT ![<<t, d>>] = f[<<t, d>>]] = f
    BY <2>1 DEF LShelved
  <2> QED
    BY <1>0, <2>1, <2>2
<1>3. S \cap (LSold[<<t, d>>] \cup LShelved[<<t, d>>]) = {}
  BY <1>0
<1>4. Ledger!Cardinality(LSold[<<t, d>>] \cup S) <= LCapacity[<<t, d>>]
  BY <1>0, LedgerCardinality
<1>5. Ledger!Sell(<<t, d>>, S)
  BY <1>0, <1>1, <1>2, <1>3, <1>4 DEF Ledger!Sell, LSold, LShelved, LCapacity
<1> QED
  BY <1>5 DEF Ledger!Next

LEMMA GiveBackStep ==
  ASSUME NEW t \in Trips, NEW d \in Dates, OnlyAt(t, d), SameSeats,
         NEW S \in SUBSET (Bookings \X (1..MaxQuantity)),
         S \subseteq Sold(t, d),
         Sold(t, d)' = Sold(t, d) \ S, Shelved(t, d)' = Shelved(t, d)
  PROVE  Ledger!Next
<1>0. /\ LSold' = [LSold EXCEPT ![<<t, d>>] = Sold(t, d)']
      /\ LShelved' = [LShelved EXCEPT ![<<t, d>>] = Shelved(t, d)']
      /\ LCapacity' = LCapacity
      /\ LSold[<<t, d>>] = Sold(t, d)
      /\ LShelved[<<t, d>>] = Shelved(t, d)
      /\ LCapacity[<<t, d>>] = Seats(t)
  BY MapsAt
<1>1. LSold' = [LSold EXCEPT ![<<t, d>>] = LSold[<<t, d>>] \ S]
  BY <1>0, Zenon
<1>2. LShelved' = LShelved
  <2>1. PICK f : f = LShelved
    OBVIOUS
  <2>2. [f EXCEPT ![<<t, d>>] = f[<<t, d>>]] = f
    BY <2>1 DEF LShelved
  <2> QED
    BY <1>0, <2>1, <2>2
<1>3. Ledger!GiveBack(<<t, d>>, S)
  BY <1>0, <1>1, <1>2 DEF Ledger!GiveBack, LSold, LShelved, LCapacity
<1> QED
  BY <1>3 DEF Ledger!Next

LEMMA ShelveStep ==
  ASSUME NEW t \in Trips, NEW d \in Dates, OnlyAt(t, d), SameSeats,
         NEW S \in SUBSET (Bookings \X (1..MaxQuantity)),
         S \subseteq Sold(t, d),
         Sold(t, d)' = Sold(t, d) \ S, Shelved(t, d)' = Shelved(t, d) \cup S
  PROVE  Ledger!Next
<1>0. /\ LSold' = [LSold EXCEPT ![<<t, d>>] = Sold(t, d)']
      /\ LShelved' = [LShelved EXCEPT ![<<t, d>>] = Shelved(t, d)']
      /\ LCapacity' = LCapacity
      /\ LSold[<<t, d>>] = Sold(t, d)
      /\ LShelved[<<t, d>>] = Shelved(t, d)
      /\ LCapacity[<<t, d>>] = Seats(t)
  BY MapsAt
<1>1. LSold' = [LSold EXCEPT ![<<t, d>>] = LSold[<<t, d>>] \ S]
  BY <1>0, Zenon
<1>2. LShelved' = [LShelved EXCEPT ![<<t, d>>] = LShelved[<<t, d>>] \cup S]
  BY <1>0, Zenon
<1>3. Ledger!Shelve(<<t, d>>, S)
  BY <1>0, <1>1, <1>2 DEF Ledger!Shelve, LSold, LShelved, LCapacity
<1> QED
  BY <1>3 DEF Ledger!Next

LEMMA ReviveStep ==
  ASSUME NEW t \in Trips, NEW d \in Dates, OnlyAt(t, d), SameSeats,
         NEW S \in SUBSET (Bookings \X (1..MaxQuantity)),
         S \subseteq Shelved(t, d),
         Sold(t, d)' = Sold(t, d) \cup S, Shelved(t, d)' = Shelved(t, d) \ S
  PROVE  Ledger!Next
<1>0. /\ LSold' = [LSold EXCEPT ![<<t, d>>] = Sold(t, d)']
      /\ LShelved' = [LShelved EXCEPT ![<<t, d>>] = Shelved(t, d)']
      /\ LCapacity' = LCapacity
      /\ LSold[<<t, d>>] = Sold(t, d)
      /\ LShelved[<<t, d>>] = Shelved(t, d)
      /\ LCapacity[<<t, d>>] = Seats(t)
  BY MapsAt
<1>1. LSold' = [LSold EXCEPT ![<<t, d>>] = LSold[<<t, d>>] \cup S]
  BY <1>0, Zenon
<1>2. LShelved' = [LShelved EXCEPT ![<<t, d>>] = LShelved[<<t, d>>] \ S]
  BY <1>0, Zenon
<1>3. Ledger!Revive(<<t, d>>, S)
  BY <1>0, <1>1, <1>2 DEF Ledger!Revive, LSold, LShelved, LCapacity
<1> QED
  BY <1>3 DEF Ledger!Next

\* A step that sells nothing resizes, or does nothing.
LEMMA ResizeStep ==
  ASSUME IndInv', \A t \in Trips, d \in Dates :
           Sold(t, d)' = Sold(t, d) /\ Shelved(t, d)' = Shelved(t, d)
  PROVE  Ledger!Next
<1>1. LSold' = LSold /\ LShelved' = LShelved
  <2>1. \A dep \in Trips \X Dates : LSold'[dep] = LSold[dep] /\ LShelved'[dep] = LShelved[dep]
    <3> SUFFICES ASSUME NEW t \in Trips, NEW d \in Dates
                 PROVE  /\ LSold'[<<t, d>>] = LSold[<<t, d>>]
                        /\ LShelved'[<<t, d>>] = LShelved[<<t, d>>]
      OBVIOUS
    <3>1. LSold'[<<t, d>>] = Sold(t, d)' /\ LShelved'[<<t, d>>] = Shelved(t, d)'
      BY DEF LSold, LShelved, Sold, SeatsSoldTo, Shelved, Exists
    <3>2. LSold[<<t, d>>] = Sold(t, d) /\ LShelved[<<t, d>>] = Shelved(t, d)
      BY DEF LSold, LShelved
    <3> QED
      BY <3>1, <3>2
  <2> QED
    BY <2>1 DEF LSold, LShelved
<1>2. LCapacity' \in [Trips \X Dates -> Nat]
  <2>1. /\ busOf' \in [Trips -> Buses] /\ seatCount' \in [Buses -> 0..MaxSeats]
    BY DEF IndInv, TypeOK
  <2> QED
    BY <2>1, BoundsAssumption DEF LCapacity, Seats
<1>3. Ledger!Resize
  BY <1>1, <1>2 DEF Ledger!Resize, LSold, LShelved, LCapacity
<1> QED
  BY <1>3 DEF Ledger!Next

\* What booking b adds to the seats that are sold or shelved.
Sells(row)   == row # None /\ row.status \in Counted
Shelves(row) == row # None /\ row.status = "cancelled"

PartsOf(b, t, d, R, Q) ==
  /\ Sold(t, d) = R \cup (IF Sells(rows[b]) THEN SeatsOf(b, rows[b].quantity) ELSE {})
  /\ Sold(t, d)' = R \cup (IF Sells(rows'[b]) THEN SeatsOf(b, rows'[b].quantity) ELSE {})
  /\ Shelved(t, d) = Q \cup (IF Shelves(rows[b]) THEN SeatsOf(b, rows[b].quantity) ELSE {})
  /\ Shelved(t, d)' = Q \cup (IF Shelves(rows'[b]) THEN SeatsOf(b, rows'[b].quantity) ELSE {})

LEMMA DepartureParts ==
  ASSUME IndInv, IndInv', NEW b \in Bookings, OneRow(b), NEW t \in Trips, NEW d \in Dates,
         rows[b] # None => rows[b].trip = t /\ rows[b].date = d,
         rows'[b] # None => rows'[b].trip = t /\ rows'[b].date = d
  PROVE  /\ OnlyAt(t, d) /\ SameSeats
         /\ \E R, Q \in SUBSET (Bookings \X (1..MaxQuantity)) :
              /\ \A u \in R \cup Q : u[1] # b
              /\ PartsOf(b, t, d, R, Q)
<1>1. OnlyAt(t, d)
  BY DEF OnlyAt, OneRow, Sold, SeatsSoldTo, Shelved, Exists
<1>2. SameSeats
  BY DEF SameSeats, Seats, OneRow
<1>3. PICK R : R = {u \in Sold(t, d) : u[1] # b}
  OBVIOUS
<1>4. PICK Q : Q = {u \in Shelved(t, d) : u[1] # b}
  OBVIOUS
<1>5. /\ R \in SUBSET (Bookings \X (1..MaxQuantity)) /\ Q \in SUBSET (Bookings \X (1..MaxQuantity))
      /\ \A u \in R \cup Q : u[1] # b
  BY <1>3, <1>4 DEF Sold, SeatsSoldTo, Shelved
<1>6. Sold(t, d) = R \cup (IF Sells(rows[b]) THEN SeatsOf(b, rows[b].quantity) ELSE {})
  BY <1>3 DEF Sold, SeatsSoldTo, Exists, Sells, SeatsOf
<1>7. Sold(t, d)' = R \cup (IF Sells(rows'[b]) THEN SeatsOf(b, rows'[b].quantity) ELSE {})
  BY <1>3 DEF Sold, SeatsSoldTo, Exists, Sells, SeatsOf, OneRow
<1>8. Shelved(t, d) = Q \cup (IF Shelves(rows[b]) THEN SeatsOf(b, rows[b].quantity) ELSE {})
  BY <1>4 DEF Shelved, Exists, Shelves, SeatsOf
<1>9. Shelved(t, d)' = Q \cup (IF Shelves(rows'[b]) THEN SeatsOf(b, rows'[b].quantity) ELSE {})
  BY <1>4 DEF Shelved, Exists, Shelves, SeatsOf, OneRow
<1> QED
  BY <1>1, <1>2, <1>5, <1>6, <1>7, <1>8, <1>9 DEF PartsOf

\* A departure that grows by a booking that was not cancelled fits in its bus.
LEMMA GrowthFits ==
  ASSUME IndInv, IndInv', [Next]_vars, NEW b \in Bookings, OneRow(b), ~Shelves(rows[b]),
         NEW t \in Trips, NEW d \in Dates,
         Sold(t, d) \subseteq Sold(t, d)', Sold(t, d)' # Sold(t, d)
  PROVE  Cardinality(Sold(t, d)') <= Seats(t)
<1>1. /\ IsFiniteSet(Sold(t, d)') /\ Booked(t, d) \in Nat /\ Booked(t, d)' \in Nat
  <2>1. IsFiniteSet(Bookings \X (1..MaxQuantity))
    <3>1. IsFiniteSet(1..MaxQuantity)
      BY BoundsAssumption, FS_Interval
    <3> QED
      BY <3>1, BoundsAssumption, FS_Product
  <2>2. Sold(t, d)' \subseteq Bookings \X (1..MaxQuantity)
    BY DEF Sold, SeatsSoldTo
  <2> QED
    BY <2>1, <2>2, FS_Subset, BookedNat
<1>2. Cardinality(Sold(t, d)) < Cardinality(Sold(t, d)')
  <2>1. /\ Cardinality(Sold(t, d)) <= Cardinality(Sold(t, d)')
        /\ Cardinality(Sold(t, d)) = Cardinality(Sold(t, d)') => Sold(t, d) = Sold(t, d)'
    BY <1>1, FS_Subset
  <2>2. Cardinality(Sold(t, d)) \in Nat /\ Cardinality(Sold(t, d)') \in Nat
    BY <1>1 DEF Booked
  <2> QED
    BY <2>1, <2>2
<1>3. \A c \in Bookings : ~Revives(c)
  BY DEF Revives, OneRow, Shelves, Exists, Counted
<1>4. Seats(t)' = Seats(t)
  BY DEF OneRow, Seats
<1>5. Booked(t, d)' > Booked(t, d) => Booked(t, d)' <= Seats(t)'
  BY <1>3, StepGrowth DEF Growth, RevivedOn
<1> QED
  BY <1>1, <1>2, <1>4, <1>5 DEF Booked

LEMMA SeatsGrow ==
  ASSUME NEW b \in Bookings, NEW n \in Nat, NEW m \in Nat
  PROVE  /\ n <= m => SeatsOf(b, n) \subseteq SeatsOf(b, m)
         /\ \A u \in SeatsOf(b, n) : u[1] = b
         /\ SeatsOf(b, n) \in SUBSET (Bookings \X (1..MaxQuantity))
<1>1. ASSUME n <= m, NEW u \in SeatsOf(b, n)
      PROVE  u \in SeatsOf(b, m)
  <2>1. u[2] \in Int /\ u[2] <= n
    BY <1>1, BoundsAssumption DEF SeatsOf
  <2>2. u[2] <= m
    BY <1>1, <2>1
  <2> QED
    BY <1>1, <2>2 DEF SeatsOf
<1> QED
  BY <1>1 DEF SeatsOf

\* The departure of b grows, shrinks or keeps its seats, and shelves none.
LEMMA SaleChanges ==
  ASSUME IndInv, IndInv', [Next]_vars, NEW b \in Bookings, OneRow(b),
         ~Shelves(rows[b]), ~Shelves(rows'[b]), NEW t \in Trips, NEW d \in Dates,
         rows[b] # None => rows[b].trip = t /\ rows[b].date = d,
         rows'[b] # None => rows'[b].trip = t /\ rows'[b].date = d,
         rows[b] # None => rows[b].quantity \in Nat, Sells(rows[b]) => Sells(rows'[b]),
         rows'[b] \in Row
  PROVE  Ledger!Next
<1>0. Sells(rows'[b]) /\ rows'[b].quantity \in Nat
  BY NoneAssumption, BoundsAssumption DEF Sells, Shelves, Row, Statuses
<1>1. OnlyAt(t, d) /\ SameSeats
  BY DepartureParts
<1>2. PICK R, Q \in SUBSET (Bookings \X (1..MaxQuantity)) :
        (\A u \in R \cup Q : u[1] # b) /\ PartsOf(b, t, d, R, Q)
  BY DepartureParts
<1>3. /\ Shelved(t, d) = Q /\ Shelved(t, d)' = Q
      /\ Sold(t, d) = R \cup (IF Sells(rows[b]) THEN SeatsOf(b, rows[b].quantity) ELSE {})
      /\ Sold(t, d)' = R \cup SeatsOf(b, rows'[b].quantity)
  BY <1>0, <1>2 DEF PartsOf
<1>4. PICK X, Y \in SUBSET (Bookings \X (1..MaxQuantity)) :
        /\ Sold(t, d) = R \cup X /\ Sold(t, d)' = R \cup Y
        /\ \A u \in X \cup Y : u[1] = b
        /\ X \subseteq Y \/ Y \subseteq X
  <2> DEFINE m == rows'[b].quantity
  <2>1. m \in Nat /\ Sold(t, d)' = R \cup SeatsOf(b, m)
    BY <1>0, <1>3
  <2>2. CASE Sells(rows[b])
    <3> DEFINE n == rows[b].quantity
    <3>1. n \in Nat /\ Sold(t, d) = R \cup SeatsOf(b, n)
      BY <1>3, <2>2 DEF Sells
    <3> HIDE DEF n, m
    <3>2. /\ n <= m => SeatsOf(b, n) \subseteq SeatsOf(b, m)
          /\ m <= n => SeatsOf(b, m) \subseteq SeatsOf(b, n)
          /\ \A u \in SeatsOf(b, n) \cup SeatsOf(b, m) : u[1] = b
          /\ SeatsOf(b, n) \in SUBSET (Bookings \X (1..MaxQuantity))
          /\ SeatsOf(b, m) \in SUBSET (Bookings \X (1..MaxQuantity))
      BY <2>1, <3>1, SeatsGrow
    <3>3. n <= m \/ m <= n
      BY <2>1, <3>1
    <3> QED
      BY <2>1, <3>1, <3>2, <3>3
  <2>3. CASE ~Sells(rows[b])
    <3>1. Sold(t, d) = R \cup {}
      BY <1>3, <2>3
    <3> HIDE DEF m
    <3>2. /\ {} \in SUBSET (Bookings \X (1..MaxQuantity))
          /\ SeatsOf(b, m) \in SUBSET (Bookings \X (1..MaxQuantity))
          /\ \A u \in {} \cup SeatsOf(b, m) : u[1] = b
          /\ {} \subseteq SeatsOf(b, m)
      BY <2>1, SeatsGrow
    <3> QED
      BY <2>1, <3>1, <3>2
  <2> QED
    BY <2>2, <2>3
<1>5. CASE Y \subseteq X
  <2>1. Sold(t, d)' = Sold(t, d) \ (X \ Y)
    BY <1>2, <1>4, <1>5
  <2>2. X \ Y \subseteq Sold(t, d)
    BY <1>4
  <2> QED
    BY <1>1, <1>3, <2>1, <2>2, GiveBackStep
<1>6. CASE X \subseteq Y /\ Sold(t, d)' # Sold(t, d)
  <2>1. Sold(t, d)' = Sold(t, d) \cup (Y \ X)
    BY <1>4, <1>6
  <2>2. (Y \ X) \cap (Sold(t, d) \cup Shelved(t, d)) = {}
    BY <1>2, <1>3, <1>4
  <2>3. Cardinality(Sold(t, d) \cup (Y \ X)) <= Seats(t)
    <3>1. Cardinality(Sold(t, d)') <= Seats(t)
      BY <1>6, <2>1, GrowthFits
    <3> QED
      BY <2>1, <3>1, Zenon
  <2> QED
    BY <1>1, <1>3, <2>1, <2>2, <2>3, SellStep
<1>7. CASE Sold(t, d)' = Sold(t, d)
  <2>1. /\ {} \in SUBSET (Bookings \X (1..MaxQuantity)) /\ {} \subseteq Sold(t, d)
        /\ Sold(t, d)' = Sold(t, d) \ {} /\ Shelved(t, d)' = Shelved(t, d)
    BY <1>3, <1>7
  <2> QED
    BY <1>1, <2>1, GiveBackStep
<1> QED
  BY <1>4, <1>5, <1>6, <1>7

\* The departure of b shelves its seats, revives them, or keeps them.
LEMMA StatusChanges ==
  ASSUME IndInv, IndInv', NEW b \in Bookings, OneRow(b), rows[b] \in Row, rows'[b] \in Row,
         rows'[b].trip = rows[b].trip, rows'[b].date = rows[b].date,
         rows'[b].quantity = rows[b].quantity
  PROVE  Ledger!Next
<1> DEFINE own == SeatsOf(b, rows[b].quantity)
<1>0. PICK t \in Trips, d \in Dates : t = rows[b].trip /\ d = rows[b].date
  BY DEF Row
<1>1. OnlyAt(t, d) /\ SameSeats
  BY <1>0, DepartureParts
<1>2. PICK R, Q \in SUBSET (Bookings \X (1..MaxQuantity)) :
        (\A u \in R \cup Q : u[1] # b) /\ PartsOf(b, t, d, R, Q)
  BY <1>0, DepartureParts
<1>3. /\ Sells(rows[b]) <=> ~Shelves(rows[b])
      /\ Sells(rows'[b]) <=> ~Shelves(rows'[b])
  BY NoneAssumption DEF Sells, Shelves, Row, Statuses, Counted
<1>4. own \in SUBSET (Bookings \X (1..MaxQuantity)) /\ \A u \in own : u[1] = b
  BY DEF SeatsOf
<1>5. /\ Sold(t, d) = R \cup (IF Sells(rows[b]) THEN own ELSE {})
      /\ Sold(t, d)' = R \cup (IF Sells(rows'[b]) THEN own ELSE {})
      /\ Shelved(t, d) = Q \cup (IF Sells(rows[b]) THEN {} ELSE own)
      /\ Shelved(t, d)' = Q \cup (IF Sells(rows'[b]) THEN {} ELSE own)
  BY <1>2, <1>3 DEF PartsOf
<1> HIDE DEF own
<1>6. CASE Sells(rows[b]) <=> Sells(rows'[b])
  <2>1. /\ {} \in SUBSET (Bookings \X (1..MaxQuantity)) /\ {} \subseteq Sold(t, d)
        /\ Sold(t, d)' = Sold(t, d) \ {} /\ Shelved(t, d)' = Shelved(t, d)
    BY <1>5, <1>6
  <2> QED
    BY <1>1, <2>1, GiveBackStep
<1>7. CASE Sells(rows[b]) /\ ~Sells(rows'[b])
  <2>1. /\ own \subseteq Sold(t, d) /\ Sold(t, d)' = Sold(t, d) \ own
        /\ Shelved(t, d)' = Shelved(t, d) \cup own
    BY <1>2, <1>4, <1>5, <1>7
  <2> QED
    BY <1>1, <1>4, <2>1, ShelveStep
<1>8. CASE ~Sells(rows[b]) /\ Sells(rows'[b])
  <2>1. /\ own \subseteq Shelved(t, d) /\ Sold(t, d)' = Sold(t, d) \cup own
        /\ Shelved(t, d)' = Shelved(t, d) \ own
    BY <1>2, <1>4, <1>5, <1>8
  <2> QED
    BY <1>1, <1>4, <2>1, ReviveStep
<1> QED
  BY <1>6, <1>7, <1>8

LEMMA StepImplements ==
  ASSUME IndInv, IndInv', EditsLive, [Next]_vars
  PROVE  Ledger!Next
<1>1. CASE rows' = rows
  <2>1. \A t \in Trips, d \in Dates :
          Sold(t, d)' = Sold(t, d) /\ Shelved(t, d)' = Shelved(t, d)
    BY <1>1 DEF Sold, SeatsSoldTo, Shelved, Exists
  <2> QED
    BY <2>1, ResizeStep
<1>2. ASSUME NEW b \in Bookings, OneRow(b), rows' # rows
      PROVE  Ledger!Next
  <2>1. rows'[b] # rows[b]
    BY <1>2 DEF OneRow, IndInv, TypeOK
  <2>3. CASE rows[b] = None /\ \E q \in CreateReq : rows'[b] = NewRow(q)
    <3>1. PICK q \in CreateReq : rows'[b] = NewRow(q)
      BY <2>3
    <3>2. NewRow(q) \in Row
      BY <3>1, NewRowType
    <3>3. q.trip \in Trips /\ q.date \in Dates
      BY DEF CreateReq
    <3>4. /\ rows'[b].trip = q.trip /\ rows'[b].date = q.date /\ ~Shelves(rows'[b])
          /\ ~Shelves(rows[b]) /\ ~Sells(rows[b]) /\ rows'[b] \in Row
      BY <2>3, <3>1, <3>2 DEF NewRow, Shelves, Sells
    <3> QED
      BY <1>2, <2>3, <3>3, <3>4, SaleChanges
  <2>4. CASE rows[b] \in Row /\ Edited(rows[b], rows'[b])
    <3>1. PICK q \in EditReq : rows'[b] = EditRow(rows[b], q)
      BY <2>4 DEF Edited
    <3>2. rows'[b] \in Row
      BY <2>4, <3>1, EditRowType
    <3>3. /\ rows'[b].trip = rows[b].trip /\ rows'[b].date = rows[b].date
          /\ rows'[b].status = rows[b].status
      BY <2>4, <3>1 DEF EditRow, Row
    <3>4. /\ rows[b].trip \in Trips /\ rows[b].date \in Dates /\ rows[b].quantity \in Nat
          /\ rows[b].status # "cancelled"
      BY <2>4, BoundsAssumption DEF Row, Edited
    <3>5. /\ ~Shelves(rows[b]) /\ ~Shelves(rows'[b])
          /\ Sells(rows[b]) => Sells(rows'[b])
      BY <3>2, <3>3, <3>4, NoneAssumption DEF Shelves, Sells
    <3> QED
      BY <1>2, <3>2, <3>3, <3>4, <3>5, SaleChanges
  <2>5. CASE rows[b] \in Row /\ (Moved(b, rows[b], rows'[b]) \/ Paid(rows[b], rows'[b]))
    <3>1. /\ rows'[b].trip = rows[b].trip /\ rows'[b].date = rows[b].date
          /\ rows'[b].quantity = rows[b].quantity
      BY <2>5 DEF Moved, Paid, CancelledRow, PatchedRow, Row
    <3>2. rows'[b] \in Row
      <4>1. CASE \E q \in CancelReq : rows'[b] = CancelledRow(rows[b], q)
        BY <2>5, <4>1, CancelledRowType
      <4>2. CASE \E s \in PatchStatuses, reason \in Reasons :
                   rows'[b] = PatchedRow(rows[b], s, reason)
        BY <2>5, <4>2, PatchedRowType, BoundsAssumption
      <4>3. CASE \/ rows'[b] = [rows[b] EXCEPT !.status = "confirmed", !.confirmedAt = TRUE]
                 \/ rows'[b] = [rows[b] EXCEPT !.status = "completed"]
        BY <2>5, <4>3 DEF Row, Statuses, Counted
      <4>4. CASE Paid(rows[b], rows'[b])
        BY <2>5, <4>4 DEF Paid, Row
      <4> QED
        BY <2>5, <4>1, <4>2, <4>3, <4>4 DEF Moved
    <3> QED
      BY <1>2, <2>5, <3>1, <3>2, StatusChanges
  <2> QED
    BY <2>1, <2>3, <2>4, <2>5, LiveWrites DEF Written
<1> QED
  BY <1>1, <1>2, StepWritesOne

\* The engine implements the seat ledger: whatever runs concurrently, a step
\* sells within the bus, gives back, shelves, revives, or sells nothing.
THEOREM ImplementsLedger == Spec => LedgerSpec
<1>1. Init => Ledger!Init
  <2> SUFFICES ASSUME Init PROVE Ledger!Init
    OBVIOUS
  <2>1. \A t \in Trips, d \in Dates : Sold(t, d) = {} /\ Shelved(t, d) = {}
    BY DEF Init, Sold, SeatsSoldTo, Shelved, Exists
  <2>2. \A t \in Trips : Seats(t) \in Nat
    BY BoundsAssumption DEF Init, Seats
  <2> QED
    BY <2>1, <2>2 DEF Ledger!Init
<1>2. IndInv /\ EditsLive /\ IndInv' /\ [Next]_vars => [Ledger!Next]_(Ledger!ledger)
  BY StepImplements
<1> QED
  BY <1>1, <1>2, LiveInv, PTL DEF Spec, LedgerSpec, Ledger!Spec

=============================================================================
