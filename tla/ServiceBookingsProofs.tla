------------------------ MODULE ServiceBookingsProofs ------------------------
(***************************************************************************)
(* Proofs about ServiceBookings.  A create that has locked its product has *)
(* it alone, and nothing of the product changes but by its own steps; so   *)
(* what it counted over the overlapping stays stays true, and it bounds    *)
(* what is taken in every night of the stay.                               *)
(***************************************************************************)
EXTENDS ServiceBookings, FiniteSetTheorems, WellFoundedInduction, TLAPS

-----------------------------------------------------------------------------
(* Sums over sets of bookings.                                             *)

LEMMA UnitsFinite ==
  ASSUME NEW B, B \subseteq Bookings
  PROVE  IsFiniteSet(Units(B))
<1>1. IsFiniteSet(Bookings) /\ IsFiniteSet(1..MaxCount)
  BY FS_Interval, StockAssumption
<1>2. IsFiniteSet(Bookings \X (1..MaxCount))
  BY <1>1, FS_Product
<1>3. Units(B) \subseteq Bookings \X (1..MaxCount)
  BY DEF Units
<1> QED
  BY <1>2, <1>3, FS_Subset

\* A sum over fewer bookings is no larger.
LEMMA UnitsMonotone ==
  ASSUME NEW B, NEW C, B \subseteq C, C \subseteq Bookings
  PROVE  /\ Units(B) \subseteq Units(C)
         /\ Cardinality(Units(B)) <= Cardinality(Units(C))
         /\ Cardinality(Units(B)) \in Nat /\ Cardinality(Units(C)) \in Nat
<1>1. IsFiniteSet(Units(C)) /\ IsFiniteSet(Units(B))
  BY UnitsFinite
<1>2. Units(B) \subseteq Units(C)
  BY DEF Units
<1> QED
  BY <1>1, <1>2, FS_Subset, FS_CardinalityType

\* A step that keeps the bookings B keeps their sum.
LEMMA UnitsKept ==
  ASSUME NEW B, \A b \in B : rows'[b] = rows[b]
  PROVE  Units(B)' = Units(B)
BY DEF Units

-----------------------------------------------------------------------------
(* What one request does to the others.                                    *)

\* The product and its bookings stay as they are.
Keeps(p) ==
  /\ stock'[p] = stock[p]
  /\ \A b \in Bookings : b \in RowsOf(p) \/ b \in RowsOf(p)' => rows'[b] = rows[b]

LEMMA KeepsUnits ==
  ASSUME NEW p, NEW in, NEW out, Keeps(p)
  PROVE  BookedUnits(p, in, out)' = BookedUnits(p, in, out)
<1>1. RoomUnits(p, in, out)' = RoomUnits(p, in, out)
  BY DEF Keeps, RoomUnits, RowsOf, Units, Exists
<1>2. TourUnits(p, in)' = TourUnits(p, in)
  BY DEF Keeps, TourUnits, RowsOf, Units, Exists
<1> QED
  BY <1>1, <1>2 DEF BookedUnits

\* A request that stands still on a kept product keeps its fit.
LEMMA FitKept ==
  ASSUME NEW r \in Requests, StillFits(r),
         pc'[r] = pc[r], req'[r] = req[r],
         pc[r] = "counted" => Keeps(req[r].product)
  PROVE  StillFits(r)'
<1>1. SUFFICES ASSUME pc[r] = "counted" PROVE StillFits(r)'
  BY DEF StillFits
<1>2. PICK p, in, out : p = req[r].product /\ in = req[r].checkIn /\ out = req[r].checkOut
  OBVIOUS
<1>3. BookedUnits(p, in, out)' = BookedUnits(p, in, out) /\ stock'[p] = stock[p]
  BY <1>1, <1>2, KeepsUnits DEF Keeps
<1>4. Cardinality(BookedUnits(p, in, out)) + req[r].count <= stock[p]
  BY <1>1, <1>2 DEF StillFits
<1> QED
  BY <1>2, <1>3, <1>4 DEF StillFits

Undisturbed(r) ==
  /\ pc'[r] = pc[r] /\ req'[r] = req[r]
  /\ pc[r] \in {"locked", "counted"} => stock'[req[r].product] = stock[req[r].product]
  /\ pc[r] = "counted" => Keeps(req[r].product)
  /\ Creating(r) => rows'[req[r].booking] = None

\* What a step owes to the request m that makes it.
Sound(m) ==
  /\ pc'[m] # "idle" => req'[m] \in Request
  /\ pc'[m] \in {"locked", "counted"} =>
       /\ req'[m] \in CreateReq
       /\ stock'[req'[m].product] \in Nat
       /\ \A s \in Requests : s # m => ~HoldsProduct(s, req'[m].product)
  /\ Creating(m)' =>
       /\ req'[m] \in CreateReq
       /\ Stay(req'[m])
       /\ rows'[req'[m].booking] = None
       /\ \A s \in Requests : s # m /\ Creating(s) => req[s].booking # req'[m].booking
  /\ StillFits(m)'

\* A step that disturbs nobody but the request that makes it, if any, keeps
\* the invariant when it is sound for that one.
LEMMA StepInductive ==
  ASSUME IndInv, TypeOK', RowsSound', NEW m,
         \A r \in Requests : r # m => Undisturbed(r),
         m \in Requests => Sound(m)
  PROVE  IndInv'
<1>1. ASSUME NEW r \in Requests PROVE /\ pc'[r] # "idle" => req'[r] \in Request
                                      /\ pc'[r] \in {"locked", "counted"} => req'[r] \in CreateReq
  BY <1>1 DEF IndInv, RequestsSound, Undisturbed, Sound
<1>2. ASSUME NEW r \in Requests, Creating(r)'
      PROVE  req'[r] \in CreateReq /\ Stay(req'[r]) /\ rows'[req'[r].booking] = None
  <2>1. CASE r = m
    BY <1>2, <2>1 DEF Sound
  <2>2. CASE r # m
    BY <1>2, <2>2 DEF IndInv, RequestsSound, Undisturbed, Creating, Exists
  <2> QED
    BY <2>1, <2>2
<1>3. ASSUME NEW r \in Requests, NEW s \in Requests, Creating(r)', Creating(s)', r # s
      PROVE  req'[r].booking # req'[s].booking
  <2>1. CASE r = m
    BY <1>3, <2>1 DEF Sound, Undisturbed, Creating
  <2>2. CASE s = m
    BY <1>3, <2>2 DEF Sound, Undisturbed, Creating
  <2>3. CASE r # m /\ s # m
    BY <1>3, <2>3 DEF IndInv, RequestsSound, Undisturbed, Creating
  <2> QED
    BY <2>1, <2>2, <2>3
<1>4. RequestsSound'
  BY <1>1, <1>2, <1>3 DEF RequestsSound, Creating, Stay, Exists
<1>5. ASSUME NEW r \in Requests, NEW p \in Products, HoldsProduct(r, p)' PROVE stock'[p] \in Nat
  <2>1. CASE r = m
    BY <1>5, <2>1 DEF Sound, HoldsProduct
  <2>2. CASE r # m
    BY <1>5, <2>2 DEF IndInv, Exclusive, Undisturbed, HoldsProduct
  <2> QED
    BY <2>1, <2>2
<1>6. ASSUME NEW r \in Requests, NEW s \in Requests, NEW p \in Products,
             HoldsProduct(r, p)', HoldsProduct(s, p)'
      PROVE  s = r
  <2>1. CASE r = m
    BY <1>6, <2>1 DEF Sound, Undisturbed, HoldsProduct
  <2>2. CASE s = m
    BY <1>6, <2>2 DEF Sound, Undisturbed, HoldsProduct
  <2>3. CASE r # m /\ s # m
    BY <1>6, <2>3 DEF IndInv, Exclusive, Undisturbed, HoldsProduct
  <2> QED
    BY <2>1, <2>2, <2>3
<1>7. Exclusive'
  BY <1>5, <1>6 DEF Exclusive
<1>8. ASSUME NEW r \in Requests PROVE StillFits(r)'
  <2>1. CASE r = m
    BY <2>1 DEF Sound
  <2>2. CASE r # m
    BY <2>2, FitKept DEF IndInv, Undisturbed
  <2> QED
    BY <2>1, <2>2
<1> QED
  BY <1>4, <1>7, <1>8 DEF IndInv

-----------------------------------------------------------------------------
(* The initial states and the steps.                                       *)

LEMMA InitInductive == Init => IndInv
<1>1. SUFFICES ASSUME Init PROVE IndInv
  OBVIOUS
<1>2. 1..MaxStock \subseteq Nat
  BY StockAssumption
<1>3. TypeOK
  BY <1>1, <1>2 DEF Init, TypeOK, Stages
<1>4. RowsSound
  BY <1>1 DEF Init, RowsSound, Exists
<1>5. RequestsSound /\ Exclusive /\ \A r \in Requests : StillFits(r)
  BY <1>1 DEF Init, RequestsSound, Exclusive, StillFits, Creating, HoldsProduct
<1> QED
  BY <1>3, <1>4, <1>5 DEF IndInv

\* A step that leaves the tables disturbs only the request it moves.
LEMMA OthersUndisturbed ==
  ASSUME IndInv, NEW m \in Requests, UNCHANGED <<rows, catalog>>,
         \E stage : pc' = [pc EXCEPT ![m] = stage],
         req' = req \/ \E q : req' = [req EXCEPT ![m] = q]
  PROVE  \A r \in Requests : r # m => Undisturbed(r)
<1>1. SUFFICES ASSUME NEW r \in Requests, r # m PROVE Undisturbed(r)
  OBVIOUS
<1>2. pc'[r] = pc[r] /\ req'[r] = req[r]
  BY <1>1 DEF IndInv, TypeOK
<1>3. \A p : Keeps(p)
  BY DEF Keeps, catalog
<1>4. Creating(r) => rows'[req[r].booking] = None
  BY <1>1 DEF IndInv, RequestsSound, Exists
<1> QED
  BY <1>2, <1>3, <1>4 DEF Undisturbed, Keeps

LEMMA BeginInductive ==
  ASSUME IndInv, NEW m \in Requests, NEW q \in Request, Begin(m, q),
         q.op = "create" => Stay(q) /\ ~Exists(q.booking) /\ q.booking \notin Reserved
  PROVE  IndInv'
<1>1. TypeOK'
  BY DEF IndInv, TypeOK, Begin, catalog, Stages
<1>2. RowsSound'
  BY DEF IndInv, RowsSound, Begin, Exists, Stay
<1>3. \A r \in Requests : r # m => Undisturbed(r)
  BY OthersUndisturbed DEF Begin
<1>4. pc'[m] = "begun" /\ req'[m] = q /\ rows' = rows
  BY DEF IndInv, TypeOK, Begin
<1>5. ASSUME Creating(m)'
      PROVE  /\ q \in CreateReq /\ Stay(q) /\ rows'[q.booking] = None
             /\ \A s \in Requests : s # m /\ Creating(s) => req[s].booking # q.booking
  <2>1. q.op = "create"
    BY <1>4, <1>5 DEF Creating
  <2>2. q \in CreateReq
    BY <2>1 DEF Request, ActionReq, Actions
  <2> QED
    BY <1>4, <2>1, <2>2 DEF Exists, Reserved, Creating
<1>6. Sound(m)
  BY <1>4, <1>5 DEF Sound, StillFits
<1> QED
  BY <1>1, <1>2, <1>3, <1>6, StepInductive

\* The end of a request that writes nothing: a refusal, a failure, a deadlock.
LEMMA RejectInductive ==
  ASSUME IndInv, NEW m \in Requests, Reject(m)
  PROVE  IndInv'
<1>1. TypeOK'
  BY DEF IndInv, TypeOK, Reject, Finish, catalog, Stages
<1>2. RowsSound'
  BY DEF IndInv, RowsSound, Reject, Exists, Stay
<1>3. \A r \in Requests : r # m => Undisturbed(r)
  BY OthersUndisturbed DEF Reject, Finish
<1>4. pc'[m] = "idle"
  BY DEF IndInv, TypeOK, Reject, Finish
<1>5. Sound(m)
  BY <1>4 DEF Sound, StillFits, Creating
<1> QED
  BY <1>1, <1>2, <1>3, <1>5, StepInductive

LEMMA LockInductive ==
  ASSUME IndInv, NEW m \in Requests, LockProduct(m), GoTo(m, "locked"),
         stock[req[m].product] # None
  PROVE  IndInv'
<1>1. TypeOK'
  BY DEF IndInv, TypeOK, GoTo, catalog, Stages
<1>2. RowsSound'
  BY DEF IndInv, RowsSound, GoTo, Exists, Stay
<1>3. \A r \in Requests : r # m => Undisturbed(r)
  BY OthersUndisturbed DEF GoTo
<1>4. pc'[m] = "locked" /\ req' = req /\ rows' = rows /\ stock' = stock
  BY DEF IndInv, TypeOK, GoTo, catalog
<1>5. Creating(m) /\ ProductFree(req[m].product)
  BY DEF LockProduct, At, Creating
<1>6. /\ req[m] \in CreateReq /\ Stay(req[m]) /\ rows[req[m].booking] = None
      /\ \A s \in Requests : s # m /\ Creating(s) => req[s].booking # req[m].booking
  BY <1>5 DEF IndInv, RequestsSound, Exists
<1>7. req[m].product \in Products
  BY <1>6 DEF CreateReq
<1>8. stock[req[m].product] \in Nat
  BY <1>7 DEF IndInv, TypeOK
<1>9. Sound(m)
  BY <1>4, <1>5, <1>6, <1>8 DEF Sound, StillFits, ProductFree, Request
<1> QED
  BY <1>1, <1>2, <1>3, <1>9, StepInductive

\* What a create finds room for, the count leaves room for.
LEMMA CountFits ==
  ASSUME IndInv, NEW m \in Requests, pc[m] = "locked", Fits(m)
  PROVE  Cardinality(BookedUnits(req[m].product, req[m].checkIn, req[m].checkOut)) + req[m].count
           <= stock[req[m].product]
<1> DEFINE booked == Cardinality(BookedUnits(req[m].product, req[m].checkIn, req[m].checkOut))
<1>1. req[m] \in CreateReq
  BY DEF IndInv, RequestsSound
<1>2. req[m].count \in Nat /\ req[m].count > 0 /\ req[m].product \in Products
  BY <1>1, StockAssumption DEF CreateReq
<1>3. stock[req[m].product] \in Nat
  BY <1>2 DEF IndInv, Exclusive, HoldsProduct
<1>4. booked \in Nat
  <2>1. ASSUME NEW B, B \subseteq Bookings PROVE Cardinality(Units(B)) \in Nat
    BY <2>1, UnitsFinite, FS_CardinalityType
  <2> QED
    BY <2>1 DEF BookedUnits, RoomUnits, TourUnits, RowsOf
<1>5. req[m].count <= IF booked > stock[req[m].product] THEN 0 ELSE stock[req[m].product] - booked
  BY DEF Fits, Available
<1> HIDE DEF booked
<1>6. booked + req[m].count <= stock[req[m].product]
  BY <1>2, <1>3, <1>4, <1>5
<1> QED
  BY <1>6 DEF booked

LEMMA CountInductive ==
  ASSUME IndInv, NEW m \in Requests, pc[m] = "locked", Fits(m), GoTo(m, "counted")
  PROVE  IndInv'
<1>1. TypeOK'
  BY DEF IndInv, TypeOK, GoTo, catalog, Stages
<1>2. RowsSound'
  BY DEF IndInv, RowsSound, GoTo, Exists, Stay
<1>3. \A r \in Requests : r # m => Undisturbed(r)
  BY OthersUndisturbed DEF GoTo
<1>4. pc'[m] = "counted" /\ req' = req /\ rows' = rows /\ stock' = stock
  BY DEF IndInv, TypeOK, GoTo, catalog
<1>5. req[m] \in CreateReq /\ Creating(m)
  BY DEF IndInv, RequestsSound, CreateReq, Creating
<1>6. /\ Stay(req[m]) /\ rows[req[m].booking] = None
      /\ \A s \in Requests : s # m /\ Creating(s) => req[s].booking # req[m].booking
  BY <1>5 DEF IndInv, RequestsSound, Exists
<1>7. req[m].product \in Products /\ HoldsProduct(m, req[m].product)
  BY <1>5 DEF CreateReq, HoldsProduct
<1>8. /\ stock[req[m].product] \in Nat
      /\ \A s \in Requests : s # m => ~HoldsProduct(s, req[m].product)
  BY <1>7 DEF IndInv, Exclusive
<1>9. StillFits(m)'
  BY <1>4, CountFits DEF StillFits, BookedUnits, RoomUnits, TourUnits, RowsOf, Units, Exists
<1>10. Sound(m)
  BY <1>4, <1>5, <1>6, <1>8, <1>9 DEF Sound, Request
<1> QED
  BY <1>1, <1>2, <1>3, <1>10, StepInductive

LEMMA InsertInductive ==
  ASSUME IndInv, NEW m \in Requests, Insert(m)
  PROVE  IndInv'
<1>1. PICK b, p : b = req[m].booking /\ p = req[m].product
  OBVIOUS
<1>2. req[m] \in CreateReq /\ Creating(m) /\ pc[m] = "counted"
  BY DEF IndInv, RequestsSound, CreateReq, Creating, Insert, At
<1>3. /\ Stay(req[m]) /\ rows[b] = None
      /\ \A s \in Requests : s # m /\ Creating(s) => req[s].booking # b
  BY <1>1, <1>2 DEF IndInv, RequestsSound, Exists
<1>4. b \in Bookings /\ p \in Products /\ NewRow(req[m]) \in Row
  BY <1>1, <1>2 DEF CreateReq, NewRow, Row, Statuses, Counted
<1>5. rows' = [rows EXCEPT ![b] = NewRow(req[m])]
  BY <1>1 DEF Insert
<1>6. TypeOK'
  BY <1>4, <1>5 DEF IndInv, TypeOK, Insert, Finish, catalog, Stages
<1>7. \A c \in Bookings : rows'[c] = IF c = b THEN NewRow(req[m]) ELSE rows[c]
  BY <1>5 DEF IndInv, TypeOK
<1>8. NewRow(req[m]).product = p /\ Stay(NewRow(req[m]))
  BY <1>1, <1>3 DEF NewRow, Stay
<1>9. RowsSound'
  BY <1>7, <1>8 DEF IndInv, RowsSound, Exists, Stay
<1>10. ASSUME NEW r \in Requests, r # m PROVE Undisturbed(r)
  <2>1. pc'[r] = pc[r] /\ req'[r] = req[r] /\ stock' = stock
    BY <1>10 DEF IndInv, TypeOK, Insert, Finish, catalog
  <2>2. ASSUME pc[r] = "counted" PROVE Keeps(req[r].product)
    <3>1. req[r].product # p
      BY <1>1, <1>2, <1>4, <1>10, <2>2 DEF IndInv, Exclusive, HoldsProduct
    <3> QED
      BY <1>3, <1>7, <1>8, <2>1, <3>1 DEF Keeps, RowsOf, Exists
  <2>3. ASSUME Creating(r) PROVE rows'[req[r].booking] = None
    <3>1. req[r].booking \in Bookings /\ rows[req[r].booking] = None
      BY <2>3 DEF IndInv, RequestsSound, Exists, CreateReq
    <3> QED
      BY <1>3, <1>7, <1>10, <2>3, <3>1
  <2> QED
    BY <2>1, <2>2, <2>3 DEF Undisturbed
<1>11. pc'[m] = "idle"
  BY DEF IndInv, TypeOK, Insert, Finish
<1>12. Sound(m)
  BY <1>11 DEF Sound, StillFits, Creating
<1> QED
  BY <1>6, <1>9, <1>10, <1>12, StepInductive

LEMMA CommitInductive ==
  ASSUME IndInv, NEW m \in Requests, ActionCommit(m)
  PROVE  IndInv'
<1>1. PICK b, status : b = req[m].booking /\ status = Target(req[m].op)
  OBVIOUS
<1>2. b \in Bookings /\ status \in Statuses
  <2>1. req[m] \in ActionReq
    BY DEF IndInv, RequestsSound, ActionCommit, At, Request, CreateReq, Actions
  <2> QED
    BY <1>1, <2>1 DEF ActionReq, Actions, Target, Statuses, Counted
<1>3. rows' = IF Exists(b) THEN [rows EXCEPT ![b].status = status] ELSE rows
  BY <1>1 DEF ActionCommit
<1>4. rows'[b] = IF Exists(b) THEN [rows[b] EXCEPT !.status = status] ELSE rows[b]
  BY <1>2, <1>3 DEF IndInv, TypeOK
<1>5. \A c \in Bookings : c # b => rows'[c] = rows[c]
  BY <1>3 DEF IndInv, TypeOK
<1>6. Exists(b) => /\ rows[b] \in Row /\ rows'[b] \in Row
                   /\ rows'[b].product = rows[b].product
                   /\ rows'[b].checkIn = rows[b].checkIn
                   /\ rows'[b].checkOut = rows[b].checkOut
  <2>1. ASSUME Exists(b) PROVE rows[b] \in Row
    BY <1>2, <2>1 DEF IndInv, TypeOK, Exists
  <2> QED
    BY <1>2, <1>4, <2>1 DEF Row
<1>7. \A c \in Bookings : rows'[c] \in Row \cup {None}
  BY <1>4, <1>5, <1>6 DEF IndInv, TypeOK, Exists
<1>8. TypeOK'
  <2>1. rows' \in [Bookings -> Row \cup {None}]
    <3>1. DOMAIN rows' = Bookings /\ rows' = [c \in Bookings |-> rows'[c]]
      BY <1>3 DEF IndInv, TypeOK
    <3> QED
      BY <1>7, <3>1
  <2> QED
    BY <2>1 DEF IndInv, TypeOK, ActionCommit, Finish, catalog, Stages
<1>9. RowsSound'
  <2>1. ASSUME NEW c \in Bookings, rows'[c] # None PROVE Stay(rows'[c])
    BY <1>4, <1>5, <1>6, <2>1 DEF IndInv, RowsSound, Exists, Stay
  <2> QED
    BY <2>1 DEF RowsSound, Exists, Stay
<1>10. ASSUME NEW r \in Requests, r # m PROVE Undisturbed(r)
  <2>1. pc'[r] = pc[r] /\ req'[r] = req[r] /\ stock' = stock
    BY <1>10 DEF IndInv, TypeOK, ActionCommit, Finish, catalog
  <2>2. ASSUME pc[r] = "counted" PROVE Keeps(req[r].product)
    <3>1. Exists(b) => rows[b].product # req[r].product
      BY <1>1, <2>2 DEF ActionCommit, RowFree, HoldsRows
    <3> QED
      BY <1>4, <1>5, <1>6, <2>1, <3>1 DEF Keeps, RowsOf, Exists
  <2>3. ASSUME Creating(r) PROVE rows'[req[r].booking] = None
    <3>1. req[r].booking \in Bookings /\ rows[req[r].booking] = None
      BY <2>3 DEF IndInv, RequestsSound, Exists, CreateReq
    <3> QED
      BY <1>4, <1>5, <3>1 DEF Exists
  <2> QED
    BY <2>1, <2>2, <2>3 DEF Undisturbed
<1>11. pc'[m] = "idle"
  BY DEF IndInv, TypeOK, ActionCommit, Finish
<1>12. Sound(m)
  BY <1>11 DEF Sound, StillFits, Creating
<1> QED
  BY <1>8, <1>9, <1>10, <1>12, StepInductive

\* A save or deletion of a product that no create has locked, and of the
\* product's bookings, disturbs nobody.
ChangesOnly(p) ==
  /\ \A x \in Products : x # p => stock'[x] = stock[x]
  /\ \A b \in Bookings : rows'[b] = rows[b] \/ (b \in RowsOf(p) /\ rows'[b] = None)

LEMMA FreeProductUndisturbed ==
  ASSUME IndInv, NEW p \in Products, ProductFree(p), pc' = pc, req' = req, ChangesOnly(p)
  PROVE  \A r \in Requests : Undisturbed(r)
<1>1. SUFFICES ASSUME NEW r \in Requests PROVE Undisturbed(r)
  OBVIOUS
<1>2. ASSUME pc[r] \in {"locked", "counted"}
      PROVE  /\ stock'[req[r].product] = stock[req[r].product]
             /\ Keeps(req[r].product)
  <2>1. req[r].product \in Products /\ req[r].product # p
    BY <1>2 DEF IndInv, RequestsSound, CreateReq, ProductFree, HoldsProduct
  <2>2. stock'[req[r].product] = stock[req[r].product]
    BY <2>1 DEF ChangesOnly
  <2> QED
    BY <2>1, <2>2 DEF ChangesOnly, Keeps, RowsOf, Exists
<1>3. ASSUME Creating(r) PROVE rows'[req[r].booking] = None
  <2>1. req[r].booking \in Bookings /\ rows[req[r].booking] = None
    BY <1>3 DEF IndInv, RequestsSound, Exists, CreateReq
  <2> QED
    BY <2>1 DEF ChangesOnly
<1> QED
  BY <1>2, <1>3 DEF Undisturbed

LEMMA CatalogueInductive ==
  ASSUME IndInv, Catalogue
  PROVE  IndInv'
<1>1. ASSUME NEW p \in Products, NEW n \in 1..MaxStock, NEW on \in BOOLEAN, UpdateProduct(p, n, on)
      PROVE  IndInv'
  <2>1. TypeOK' /\ RowsSound'
    BY <1>1 DEF IndInv, TypeOK, RowsSound, UpdateProduct, Exists, Stay
  <2>2. \A x \in Products : x # p => stock'[x] = stock[x]
    BY <1>1 DEF IndInv, TypeOK, UpdateProduct
  <2>3. \A r \in Requests : Undisturbed(r)
    <3>1. ProductFree(p) /\ pc' = pc /\ req' = req /\ rows' = rows
      BY <1>1 DEF UpdateProduct
    <3>2. ChangesOnly(p)
      BY <2>2, <3>1 DEF ChangesOnly
    <3> QED
      BY <1>1, <3>1, <3>2, FreeProductUndisturbed
  <2>4. PICK m : m \notin Requests
    BY NoSetContainsEverything
  <2> QED
    BY <2>1, <2>3, <2>4, StepInductive
<1>2. ASSUME NEW h \in Hotels, NEW on \in BOOLEAN, UpdateHotel(h, on)
      PROVE  IndInv'
  <2>1. TypeOK' /\ RowsSound'
    BY <1>2 DEF IndInv, TypeOK, RowsSound, UpdateHotel, Exists, Stay
  <2>2. \A r \in Requests : Undisturbed(r)
    BY <1>2 DEF IndInv, RequestsSound, UpdateHotel, Undisturbed, Keeps, Exists
  <2>3. PICK m : m \notin Requests
    BY NoSetContainsEverything
  <2> QED
    BY <2>1, <2>2, <2>3, StepInductive
<1>3. ASSUME NEW p \in Products, DeleteProduct(p)
      PROVE  IndInv'
  <2>1. \A b \in Bookings : rows'[b] = IF b \in RowsOf(p) THEN None ELSE rows[b]
    BY <1>3 DEF DeleteProduct
  <2>2. TypeOK'
    BY <1>3 DEF IndInv, TypeOK, DeleteProduct
  <2>3. RowsSound'
    BY <2>1 DEF IndInv, RowsSound, Exists, Stay
  <2>4. \A x \in Products : x # p => stock'[x] = stock[x]
    BY <1>3 DEF IndInv, TypeOK, DeleteProduct
  <2>5. \A r \in Requests : Undisturbed(r)
    <3>1. ProductFree(p) /\ pc' = pc /\ req' = req
      BY <1>3 DEF DeleteProduct
    <3>2. ChangesOnly(p)
      BY <2>1, <2>4 DEF ChangesOnly
    <3> QED
      BY <1>3, <3>1, <3>2, FreeProductUndisturbed
  <2>6. PICK m : m \notin Requests
    BY NoSetContainsEverything
  <2> QED
    BY <2>2, <2>3, <2>5, <2>6, StepInductive
<1> QED
  BY <1>1, <1>2, <1>3 DEF Catalogue

-----------------------------------------------------------------------------
(* The theorems.                                                           *)

LEMMA NextInductive == IndInv /\ [Next]_vars => IndInv'
<1>1. SUFFICES ASSUME IndInv, [Next]_vars PROVE IndInv'
  OBVIOUS
<1>2. ASSUME NEW m \in Requests, CreateBegin(m) PROVE IndInv'
  <2>1. PICK b \in Bookings, p \in Products, in \in Nights, out \in 1..MaxNights, n \in 1..MaxCount :
          /\ ~Exists(b) /\ b \notin Reserved
          /\ in < out
          /\ p \in Tours => out = in + 1
          /\ Begin(m, [op |-> "create", booking |-> b, product |-> p, checkIn |-> in,
                       checkOut |-> out, count |-> n,
                       open |-> p \in Rooms => open[HotelOf[p]]])
    BY <1>2 DEF CreateBegin
  <2> DEFINE isOpen == p \in Rooms => open[HotelOf[p]]
             q == [op |-> "create", booking |-> b, product |-> p, checkIn |-> in,
                   checkOut |-> out, count |-> n, open |-> isOpen]
  <2>2. isOpen \in BOOLEAN
    BY Zenon
  <2>3. Begin(m, q)
    BY <2>1
  <2>4. q \in Request /\ Stay(q) /\ q.booking = b
    <3> HIDE DEF isOpen
    <3> QED
      BY <2>1, <2>2 DEF Request, CreateReq, Stay
  <2> QED
    BY <1>1, <2>1, <2>3, <2>4, BeginInductive
<1>3. ASSUME NEW m \in Requests, ActionBegin(m) PROVE IndInv'
  <2>1. PICK b \in Bookings, op \in Actions : Begin(m, [op |-> op, booking |-> b])
    BY <1>3 DEF ActionBegin
  <2> DEFINE q == [op |-> op, booking |-> b]
  <2>2. q \in Request /\ q.op # "create"
    BY DEF Request, ActionReq, Actions
  <2> QED
    BY <1>1, <2>1, <2>2, BeginInductive
<1>4. ASSUME NEW m \in Requests, LockProduct(m) PROVE IndInv'
  <2>1. CASE Reject(m)
    BY <1>1, <2>1, RejectInductive
  <2>2. CASE GoTo(m, "locked") /\ stock[req[m].product] # None
    BY <1>1, <1>4, <2>2, LockInductive
  <2> QED
    BY <1>4, <2>1, <2>2 DEF LockProduct
<1>5. ASSUME NEW m \in Requests, Count(m) PROVE IndInv'
  <2>1. CASE Reject(m)
    BY <1>1, <2>1, RejectInductive
  <2>2. CASE pc[m] = "locked" /\ Fits(m) /\ GoTo(m, "counted")
    BY <1>1, <2>2, CountInductive
  <2> QED
    BY <1>5, <2>1, <2>2 DEF Count, At
<1>6. ASSUME NEW m \in Requests, Insert(m) PROVE IndInv'
  BY <1>1, <1>6, InsertInductive
<1>7. ASSUME NEW m \in Requests, ActionCommit(m) PROVE IndInv'
  BY <1>1, <1>7, CommitInductive
<1>8. ASSUME NEW m \in Requests, Abort(m) \/ DeadlockVictim(m) PROVE IndInv'
  BY <1>1, <1>8, RejectInductive DEF Abort, DeadlockVictim
<1>9. ASSUME Catalogue PROVE IndInv'
  BY <1>1, <1>9, CatalogueInductive
<1>10. ASSUME UNCHANGED vars PROVE IndInv'
  <2>1. UNCHANGED <<rows, stock, active, open, pc, req>>
    BY <1>10 DEF vars, catalog
  <2>2. TypeOK' /\ RowsSound'
    BY <1>1, <2>1 DEF IndInv, TypeOK, RowsSound, Exists, Stay
  <2>3. \A r \in Requests : Undisturbed(r)
    BY <1>1, <2>1 DEF IndInv, RequestsSound, Undisturbed, Keeps, Exists
  <2>4. PICK m : m \notin Requests
    BY NoSetContainsEverything
  <2> QED
    BY <1>1, <2>2, <2>3, <2>4, StepInductive
<1> QED
  BY <1>1, <1>2, <1>3, <1>4, <1>5, <1>6, <1>7, <1>8, <1>9, <1>10 DEF Next, Start, Proceed

\* The invariant, for any number of requests, products, nights and guests.
THEOREM Inductive == Spec => []IndInv
<1> QED
  BY InitInductive, NextInductive, PTL DEF Spec

-----------------------------------------------------------------------------
(* The nights.                                                             *)

LEMMA RowTypes ==
  ASSUME IndInv, NEW b \in Bookings, Exists(b)
  PROVE  /\ rows[b] \in Row
         /\ rows[b].checkIn \in Int /\ rows[b].checkOut \in Int /\ rows[b].count \in Int
         /\ rows[b].product \in Products
<1>1. rows[b] \in Row
  BY DEF IndInv, TypeOK, Exists
<1> QED
  BY <1>1, StockAssumption DEF Row, Nights

\* What is taken of a product in one night of a stay is taken of the stay.
LEMMA NightWithin ==
  ASSUME IndInv, NEW p \in Products, NEW in \in Int, NEW out \in Int, NEW night \in in..(out - 1),
         p \in Tours => out = in + 1
  PROVE  /\ NightUnits(p, night) \subseteq BookedUnits(p, in, out)
         /\ Cardinality(NightUnits(p, night)) <= Cardinality(BookedUnits(p, in, out))
         /\ Cardinality(NightUnits(p, night)) \in Nat
         /\ Cardinality(BookedUnits(p, in, out)) \in Nat
<1> DEFINE N == {b \in RowsOf(p) : /\ rows[b].status \in Counted
                                   /\ rows[b].checkIn <= night
                                   /\ night < rows[b].checkOut}
           R == {b \in RowsOf(p) : /\ rows[b].status \in Counted
                                   /\ rows[b].checkIn < out
                                   /\ rows[b].checkOut > in}
           T == {b \in RowsOf(p) : rows[b].checkIn = in /\ rows[b].status \in Counted}
           B == IF p \in Rooms THEN R ELSE T
<1>1. N \subseteq R
  BY RowTypes DEF RowsOf
<1>2. ASSUME p \notin Rooms PROVE N \subseteq T
  <2>1. p \in Tours
    BY <1>2 DEF Products
  <2>2. ASSUME NEW b \in N PROVE rows[b].checkIn = in
    <3>1. b \in Bookings /\ Exists(b) /\ rows[b].product = p
      BY <2>2 DEF RowsOf
    <3>2. rows[b].checkOut = rows[b].checkIn + 1
      BY <2>1, <3>1 DEF IndInv, RowsSound, Stay
    <3> QED
      BY <2>1, <2>2, <3>1, <3>2, RowTypes
  <2> QED
    BY <2>2
<1>3. N \subseteq B /\ B \subseteq Bookings
  BY <1>1, <1>2 DEF RowsOf
<1>4. NightUnits(p, night) = Units(N) /\ BookedUnits(p, in, out) = Units(B)
  BY DEF NightUnits, BookedUnits, RoomUnits, TourUnits
<1> HIDE DEF N, B
<1> QED
  BY <1>3, <1>4, UnitsMonotone

LEMMA InvariantFits == IndInv => FitsEveryNight
<1>1. SUFFICES ASSUME IndInv, NEW r \in Requests, pc[r] = "counted",
                      NEW night \in req[r].checkIn .. (req[r].checkOut - 1)
               PROVE  Cardinality(NightUnits(req[r].product, night)) + req[r].count
                        <= stock[req[r].product]
  BY DEF FitsEveryNight
<1>2. req[r] \in CreateReq /\ Creating(r)
  BY <1>1 DEF IndInv, RequestsSound, CreateReq, Creating
<1>3. PICK p, in, out, n : /\ p = req[r].product /\ in = req[r].checkIn
                           /\ out = req[r].checkOut /\ n = req[r].count
  OBVIOUS
<1>4. p \in Products /\ in \in Int /\ out \in Int /\ n \in Nat
  BY <1>2, <1>3, StockAssumption DEF CreateReq, Nights
<1>5. p \in Tours => out = in + 1
  BY <1>1, <1>2, <1>3 DEF IndInv, RequestsSound, Stay
<1>6. stock[p] \in Nat
  BY <1>1, <1>3, <1>4 DEF IndInv, Exclusive, HoldsProduct
<1>7. Cardinality(BookedUnits(p, in, out)) + n <= stock[p]
  BY <1>1, <1>3 DEF IndInv, StillFits
<1>8. /\ Cardinality(NightUnits(p, night)) <= Cardinality(BookedUnits(p, in, out))
      /\ Cardinality(NightUnits(p, night)) \in Nat
      /\ Cardinality(BookedUnits(p, in, out)) \in Nat
  BY <1>1, <1>3, <1>4, <1>5, NightWithin
<1>9. Cardinality(NightUnits(p, night)) + n <= stock[p]
  BY <1>4, <1>6, <1>7, <1>8
<1> QED
  BY <1>3, <1>9

\* However many requests are in flight, what a create has counted fits in
\* every night of its stay: the overlap count of check_hotel_availability and
\* the date count of get_tour_booking_snapshot, under the product's lock.
THEOREM EveryNightFits == Spec => []FitsEveryNight
<1> QED
  BY Inductive, InvariantFits, PTL

\* The type invariant.
THEOREM TypesHold == Spec => []TypeOK
<1>1. IndInv => TypeOK
  BY DEF IndInv
<1> QED
  BY <1>1, Inductive, PTL

-----------------------------------------------------------------------------
(* The growth of a night.                                                  *)

Grows(p, night) == Cardinality(NightUnits(p, night)') > Cardinality(NightUnits(p, night))

LEMMA NightFinite ==
  ASSUME NEW p, NEW night
  PROVE  IsFiniteSet(NightUnits(p, night)) /\ Cardinality(NightUnits(p, night)) \in Nat
BY UnitsFinite, FS_CardinalityType DEF NightUnits, RowsOf

\* A step does not grow a night when it only takes bookings away.
LEMMA ShrinkingNight ==
  ASSUME NEW p, NEW night, NightUnits(p, night)' \subseteq NightUnits(p, night)
  PROVE  ~Grows(p, night)
<1>1. /\ Cardinality(NightUnits(p, night)') <= Cardinality(NightUnits(p, night))
      /\ Cardinality(NightUnits(p, night)') \in Nat /\ Cardinality(NightUnits(p, night)) \in Nat
  BY NightFinite, FS_Subset, FS_CardinalityType
<1> QED
  BY <1>1 DEF Grows

LEMMA UnchangedNight ==
  ASSUME NEW p, NEW night, rows' = rows
  PROVE  ~Grows(p, night)
<1>1. NightUnits(p, night)' = NightUnits(p, night)
  BY DEF NightUnits, Units, RowsOf, Exists
<1> QED
  BY <1>1, ShrinkingNight

\* A booking takes as many units as it asks for.
LEMMA PartySize ==
  ASSUME NEW b, NEW n \in Nat
  PROVE  IsFiniteSet({b} \X (1..n)) /\ Cardinality({b} \X (1..n)) = n
<1> DEFINE B == {b}
           I == 1..n
<1>1. IsFiniteSet(B) /\ Cardinality(B) = 1
  BY FS_Singleton
<1>2. IsFiniteSet(I) /\ Cardinality(I) = n
  BY FS_Interval
<1> HIDE DEF B, I
<1>3. IsFiniteSet(B \X I) /\ Cardinality(B \X I) = Cardinality(B) * Cardinality(I)
  BY <1>1, <1>2, FS_Product
<1>4. Cardinality(B \X I) = n
  BY <1>1, <1>2, <1>3
<1> QED
  BY <1>3, <1>4 DEF B, I

LEMMA UnionBound ==
  ASSUME NEW S, NEW T, IsFiniteSet(S), IsFiniteSet(T)
  PROVE  /\ IsFiniteSet(S \cup T)
         /\ Cardinality(S \cup T) \in Nat /\ Cardinality(S) \in Nat /\ Cardinality(T) \in Nat
         /\ Cardinality(S \cup T) <= Cardinality(S) + Cardinality(T)
<1>1. /\ IsFiniteSet(S \cup T)
      /\ Cardinality(S \cup T) = Cardinality(S) + Cardinality(T) - Cardinality(S \cap T)
  BY FS_Union
<1>2. /\ Cardinality(S \cap T) \in Nat /\ Cardinality(S) \in Nat /\ Cardinality(T) \in Nat
      /\ Cardinality(S \cup T) \in Nat
  BY <1>1, FS_Intersection, FS_CardinalityType
<1> QED
  BY <1>1, <1>2

\* A new booking adds as many units as it asks for, to the nights of its stay.
LEMMA InsertGrowth ==
  ASSUME IndInv, NEW m \in Requests, Insert(m), NEW p \in Products, NEW night \in Nights,
         Grows(p, night)
  PROVE  Cardinality(NightUnits(p, night)') <= stock'[p]
<1>1. PICK b, n : b = req[m].booking /\ n = req[m].count
  OBVIOUS
<1>2. req[m] \in CreateReq /\ Creating(m) /\ pc[m] = "counted"
  BY DEF IndInv, RequestsSound, CreateReq, Creating, Insert, At
<1>3. b \in Bookings /\ n \in Nat /\ n > 0 /\ n <= MaxCount
  BY <1>1, <1>2, StockAssumption DEF CreateReq
<1>4. \A c \in Bookings : rows'[c] = IF c = b THEN NewRow(req[m]) ELSE rows[c]
  BY <1>1, <1>3 DEF IndInv, TypeOK, Insert
<1>5. NightUnits(p, night)' \subseteq NightUnits(p, night) \cup ({b} \X (1..n))
  BY <1>1, <1>3, <1>4, StockAssumption DEF NightUnits, Units, RowsOf, Exists, NewRow
<1>6. p = req[m].product /\ night \in req[m].checkIn .. (req[m].checkOut - 1)
  <2>1. ASSUME ~(p = req[m].product /\ night \in req[m].checkIn .. (req[m].checkOut - 1))
        PROVE  NightUnits(p, night)' \subseteq NightUnits(p, night)
    <3>1. req[m].checkIn \in Int /\ req[m].checkOut \in Int /\ night \in Int
      BY <1>2, StockAssumption DEF CreateReq, Nights
    <3> QED
      BY <1>4, <2>1, <3>1 DEF NightUnits, Units, RowsOf, Exists, NewRow
  <2> QED
    BY <2>1, ShrinkingNight
<1>7. Cardinality(NightUnits(p, night)) + n <= stock[p]
  BY <1>1, <1>2, <1>6, InvariantFits DEF FitsEveryNight
<1>8. IsFiniteSet({b} \X (1..n)) /\ Cardinality({b} \X (1..n)) = n
  BY <1>3, PartySize
<1>9. Cardinality(NightUnits(p, night)') <= Cardinality(NightUnits(p, night)) + n
  <2> DEFINE N == NightUnits(p, night)
             U == {b} \X (1..n)
             M == NightUnits(p, night)'
  <2>1. /\ IsFiniteSet(N \cup U) /\ Cardinality(N \cup U) \in Nat /\ Cardinality(N) \in Nat
        /\ Cardinality(N \cup U) <= Cardinality(N) + n
    BY <1>8, NightFinite, UnionBound
  <2>2. M \subseteq N \cup U
    BY <1>5
  <2> HIDE DEF N, U, M
  <2>3. Cardinality(M) <= Cardinality(N \cup U) /\ Cardinality(M) \in Nat
    BY <2>1, <2>2, FS_Subset, FS_CardinalityType
  <2>4. Cardinality(M) <= Cardinality(N) + n
    BY <1>3, <2>1, <2>3
  <2> QED
    BY <2>4 DEF M, N
<1>10. stock[p] \in Nat /\ stock' = stock
  BY <1>2, <1>6 DEF IndInv, Exclusive, HoldsProduct, Insert, Finish, catalog
<1>11. Cardinality(NightUnits(p, night)) \in Nat /\ Cardinality(NightUnits(p, night)') \in Nat
  <2>1. NightUnits(p, night)' \subseteq NightUnits(p, night) \cup ({b} \X (1..n))
    BY <1>5
  <2>2. IsFiniteSet(NightUnits(p, night) \cup ({b} \X (1..n)))
    BY <1>8, NightFinite, FS_Union
  <2> QED
    BY <2>1, <2>2, NightFinite, FS_Subset, FS_CardinalityType
<1> QED
  BY <1>3, <1>7, <1>9, <1>10, <1>11

\* An action takes units only for a booking that was cancelled.
LEMMA CommitGrowth ==
  ASSUME IndInv, NEW m \in Requests, ActionCommit(m), NEW p \in Products, NEW night \in Nights,
         Grows(p, night)
  PROVE  \E b \in Bookings : Revives(b)
<1>1. PICK b, status : b = req[m].booking /\ status = Target(req[m].op)
  OBVIOUS
<1>2. b \in Bookings
  BY <1>1 DEF IndInv, RequestsSound, ActionCommit, At, Request, CreateReq, ActionReq
<1>3. rows' = IF Exists(b) THEN [rows EXCEPT ![b].status = status] ELSE rows
  BY <1>1 DEF ActionCommit
<1>4. \A c \in Bookings : c # b => rows'[c] = rows[c]
  BY <1>3 DEF IndInv, TypeOK
<1>5. rows'[b] = IF Exists(b) THEN [rows[b] EXCEPT !.status = status] ELSE rows[b]
  BY <1>2, <1>3 DEF IndInv, TypeOK
<1>6. Exists(b) => rows[b] \in Row
  BY <1>2, RowTypes
<1>7. SUFFICES ASSUME ~Revives(b) PROVE FALSE
  BY <1>2
<1>8. Exists(b) /\ rows'[b].status \in Counted => rows[b].status \in Counted
  BY <1>6, <1>7 DEF Revives, Row, Statuses
<1>9. Exists(b) => /\ rows'[b].product = rows[b].product /\ rows'[b].count = rows[b].count
                   /\ rows'[b].checkIn = rows[b].checkIn /\ rows'[b].checkOut = rows[b].checkOut
  BY <1>5, <1>6 DEF Row
<1>10. NightUnits(p, night)' \subseteq NightUnits(p, night)
  BY <1>4, <1>5, <1>8, <1>9 DEF NightUnits, Units, RowsOf, Exists
<1> QED
  BY <1>10, ShrinkingNight

LEMMA NextGrowth ==
  ASSUME IndInv, Next, NEW p \in Products, NEW night \in Nights, Grows(p, night)
  PROVE  \/ Cardinality(NightUnits(p, night)') <= stock'[p]
         \/ \E b \in Bookings : Revives(b)
<1>1. CASE \E m \in Requests : Insert(m)
  BY <1>1, InsertGrowth
<1>2. CASE \E m \in Requests : ActionCommit(m)
  BY <1>2, CommitGrowth
<1>3. CASE rows' = rows
  BY <1>3, UnchangedNight
<1>4. CASE \E x \in Products : DeleteProduct(x)
  <2>1. NightUnits(p, night)' \subseteq NightUnits(p, night)
    BY <1>4 DEF DeleteProduct, NightUnits, Units, RowsOf, Exists
  <2> QED
    BY <2>1, ShrinkingNight
<1> QED
  BY <1>1, <1>2, <1>3, <1>4
  DEF Next, Start, Proceed, Catalogue, CreateBegin, ActionBegin, Begin, LockProduct, Count, Abort,
      DeadlockVictim, Reject, GoTo, UpdateProduct, UpdateHotel

\* What is taken of a product in a night grows within its stock, except where
\* a cancelled booking comes back: no create oversells a room or a tour.
THEOREM NoNightOversold == Spec => GrowthWithinStock
<1>1. IndInv /\ [Next]_vars =>
        [\A p \in Products, night \in Nights :
           Cardinality(NightUnits(p, night))' > Cardinality(NightUnits(p, night)) =>
             \/ Cardinality(NightUnits(p, night)') <= stock'[p]
             \/ \E b \in Bookings : Revives(b)]_vars
  BY NextGrowth DEF Grows
<1> QED
  BY <1>1, Inductive, PTL DEF Spec, GrowthWithinStock

-----------------------------------------------------------------------------
(* The refinement of the ledger of stays.                                  *)

\* A room or a guest of a booking that is on in a night, counted or not.
OnNight(u, p, night) ==
  /\ u \in Bookings \X (1..MaxCount)
  /\ Exists(u[1]) /\ rows[u[1]].product = p
  /\ u[2] <= rows[u[1]].count
  /\ rows[u[1]].checkIn <= night /\ night < rows[u[1]].checkOut

LEMMA NightMembers ==
  ASSUME NEW p, NEW night, NEW u
  PROVE  /\ u \in NightUnits(p, night) <=>
              OnNight(u, p, night) /\ rows[u[1]].status \in Counted
         /\ u \in ShelvedUnits(p, night) <=>
              OnNight(u, p, night) /\ rows[u[1]].status = "cancelled"
BY DEF NightUnits, ShelvedUnits, Units, RowsOf, OnNight

\* The same of the state after a step.
LEMMA NightMembersNext ==
  ASSUME NEW p, NEW night, NEW u
  PROVE  /\ u \in NightUnits(p, night)' <=>
              OnNight(u, p, night)' /\ rows'[u[1]].status \in Counted
         /\ u \in ShelvedUnits(p, night)' <=>
              OnNight(u, p, night)' /\ rows'[u[1]].status = "cancelled"
BY DEF NightUnits, ShelvedUnits, Units, RowsOf, OnNight, Exists

\* The ledger counts as the tables do.
LEMMA LedgerCardinality ==
  ASSUME NEW S
  PROVE  Ledger!Cardinality(S) = Cardinality(S)
BY DEF Ledger!Cardinality, Cardinality

\* What no step of the ledger shows.
LEMMA LedgerStutters ==
  ASSUME stock' = stock,
         \A p \in Products, night \in Nights :
           /\ NightUnits(p, night)' = NightUnits(p, night)
           /\ ShelvedUnits(p, night)' = ShelvedUnits(p, night)
  PROVE  UNCHANGED Ledger!stays
BY DEF Ledger!stays

LEMMA RowsStutter ==
  ASSUME rows' = rows, stock' = stock
  PROVE  UNCHANGED Ledger!stays
<1>1. \A p \in Products, night \in Nights :
        /\ NightUnits(p, night)' = NightUnits(p, night)
        /\ ShelvedUnits(p, night)' = ShelvedUnits(p, night)
  BY DEF NightUnits, ShelvedUnits, Units, RowsOf, Exists
<1> QED
  BY <1>1, LedgerStutters

LEMMA InsertTakes ==
  ASSUME IndInv, NEW m \in Requests, Insert(m)
  PROVE  Ledger!Next
<1>1. PICK b, p, n, in, out :
        /\ b = req[m].booking /\ p = req[m].product /\ n = req[m].count
        /\ in = req[m].checkIn /\ out = req[m].checkOut
  OBVIOUS
<1>2. req[m] \in CreateReq /\ Creating(m) /\ pc[m] = "counted"
  BY DEF IndInv, RequestsSound, CreateReq, Creating, Insert, At
<1>3. /\ b \in Bookings /\ p \in Products /\ n \in 1..MaxCount /\ rows[b] = None
      /\ in \in Int /\ out \in Int /\ n \in Nat
  BY <1>1, <1>2, StockAssumption DEF CreateReq, IndInv, RequestsSound, Exists, Nights
<1> DEFINE S == {b} \X (1..n)
           N == {night \in Nights : in <= night /\ night < out}
           row == NewRow(req[m])
<1>4. \A c \in Bookings : rows'[c] = IF c = b THEN row ELSE rows[c]
  BY <1>1, <1>3 DEF IndInv, TypeOK, Insert
<1>5. /\ row.product = p /\ row.count = n /\ row.checkIn = in /\ row.checkOut = out
      /\ row.status = "pending" /\ row # None
  <2>1. row \in Row
    BY <1>2 DEF CreateReq, NewRow, Row, Statuses, Counted
  <2> QED
    BY <1>1, <2>1, StockAssumption DEF NewRow
<1> HIDE DEF row
<1>6. stock[p] \in Nat /\ stock' = stock
  BY <1>1, <1>2, <1>3 DEF IndInv, Exclusive, HoldsProduct, Insert, Finish, catalog
<1>s. \A u : u \in S <=> u \in Bookings \X (1..MaxCount) /\ u[1] = b /\ u[2] <= n
  BY <1>3, StockAssumption
<1> HIDE DEF S
<1>7. ASSUME NEW q \in Products, NEW night \in Nights
      PROVE  /\ NightUnits(q, night)' =
                  IF q = p /\ night \in N THEN NightUnits(q, night) \cup S ELSE NightUnits(q, night)
             /\ ShelvedUnits(q, night)' = ShelvedUnits(q, night)
             /\ S \cap (NightUnits(q, night) \cup ShelvedUnits(q, night)) = {}
  <2>1. ASSUME NEW u
        PROVE  OnNight(u, q, night)' <=>
                 OnNight(u, q, night) \/ (u \in S /\ q = p /\ night \in N)
    <3>1. CASE u \in Bookings \X (1..MaxCount) /\ u[1] = b
      BY <1>3, <1>4, <1>5, <1>s, <3>1 DEF OnNight, Exists
    <3>2. CASE ~(u \in Bookings \X (1..MaxCount) /\ u[1] = b)
      BY <1>4, <1>s, <3>2 DEF OnNight, Exists
    <3> QED
      BY <3>1, <3>2
  <2>2. \A u \in S : u[1] = b /\ ~OnNight(u, q, night)
    BY <1>3, <1>s DEF OnNight, Exists
  <2>3. \A u : OnNight(u, q, night) => u[1] # b /\ rows'[u[1]].status = rows[u[1]].status
    BY <1>3, <1>4 DEF OnNight, Exists
  <2>4. \A u \in S : rows'[u[1]].status = "pending"
    BY <1>3, <1>4, <1>5, <2>2
  <2> HIDE DEF N
  <2>5. \A u : u \in NightUnits(q, night)' <=>
               u \in NightUnits(q, night) \/ (u \in S /\ q = p /\ night \in N)
    BY <2>1, <2>3, <2>4, NightMembers, NightMembersNext DEF Counted
  <2>6. \A u : u \in ShelvedUnits(q, night)' <=> u \in ShelvedUnits(q, night)
    BY <2>1, <2>3, <2>4, NightMembers, NightMembersNext
  <2>7. \A u \in S : u \notin NightUnits(q, night) /\ u \notin ShelvedUnits(q, night)
    BY <2>2, NightMembers
  <2> QED
    BY <2>5, <2>6, <2>7
<1>8. ASSUME NEW night \in N
      PROVE  Cardinality(NightUnits(p, night) \cup S) <= stock[p]
  <2>1. night \in in..(out - 1)
    BY <1>3, StockAssumption DEF Nights
  <2>2. Cardinality(NightUnits(p, night)) + n <= stock[p]
    BY <1>1, <1>2, <2>1, InvariantFits DEF FitsEveryNight
  <2>3. IsFiniteSet(S) /\ Cardinality(S) = n
    BY <1>3, PartySize DEF S
  <2>4. /\ Cardinality(NightUnits(p, night) \cup S) \in Nat
        /\ Cardinality(NightUnits(p, night) \cup S) <= Cardinality(NightUnits(p, night)) + n
    BY <2>3, NightFinite, UnionBound
  <2>5. Cardinality(NightUnits(p, night)) \in Nat
    BY NightFinite
  <2> QED
    BY <1>3, <1>6, <2>2, <2>4, <2>5
<1> DEFINE taken == [q \in Products |-> [night \in Nights |-> NightUnits(q, night)]]
           shelved == [q \in Products |-> [night \in Nights |-> ShelvedUnits(q, night)]]
<1>9. Ledger!Unused(S)
  BY <1>7 DEF Ledger!Unused
<1>10. \A night \in N : Ledger!Cardinality(taken[p][night] \cup S) <= stock[p]
  BY <1>3, <1>8, LedgerCardinality
<1>11. taken' = [taken EXCEPT ![p] =
         [night \in Nights |-> IF night \in N THEN @[night] \cup S ELSE @[night]]]
  BY <1>3, <1>7
<1>12. shelved' = shelved
  BY <1>7
<1>13. stock[p] # None
  BY <1>6, StockAssumption
<1>14. Ledger!Take(p, S)
  <2>1. N \in SUBSET Nights
    OBVIOUS
  <2> HIDE DEF N
  <2> QED
    BY <1>6, <1>9, <1>10, <1>11, <1>12, <1>13, <2>1 DEF Ledger!Take
<1>15. S \in {{c} \X (1..k) : c \in Bookings, k \in 1..MaxCount}
  BY <1>3 DEF S
<1> QED
  BY <1>3, <1>14, <1>15 DEF Ledger!Next

\* An action shelves a stay whole, brings it back whole, or shows nothing.
LEMMA CommitShows ==
  ASSUME IndInv, NEW m \in Requests, ActionCommit(m)
  PROVE  [Ledger!Next]_(Ledger!stays)
<1>1. PICK b, status : b = req[m].booking /\ status = Target(req[m].op)
  OBVIOUS
<1>2. b \in Bookings /\ status \in Statuses
  <2>1. req[m] \in ActionReq
    BY DEF IndInv, RequestsSound, ActionCommit, At, Request, CreateReq, Actions
  <2> QED
    BY <1>1, <2>1 DEF ActionReq, Actions, Target, Statuses, Counted
<1>3. /\ rows' = IF Exists(b) THEN [rows EXCEPT ![b].status = status] ELSE rows
      /\ stock' = stock
  BY <1>1 DEF ActionCommit, Finish, catalog
<1>4. CASE ~Exists(b)
  BY <1>3, <1>4, RowsStutter
<1>5. CASE Exists(b)
  <2>1. PICK p, n : p = rows[b].product /\ n = rows[b].count
    OBVIOUS
  <2>2. rows[b] \in Row /\ p \in Products /\ n \in 1..MaxCount /\ rows[b].status \in Statuses
    BY <1>2, <1>5, <2>1, RowTypes DEF Row
  <2>3. rows' = [rows EXCEPT ![b] = [rows[b] EXCEPT !.status = status]]
    BY <1>3, <1>5
  <2>4. rows'[b] = [rows[b] EXCEPT !.status = status] /\ \A c \in Bookings : c # b => rows'[c] = rows[c]
    BY <1>2, <2>3 DEF IndInv, TypeOK
  <2>5. /\ rows'[b].status = status /\ rows'[b] \in Row
        /\ rows'[b].product = p /\ rows'[b].count = n
        /\ rows'[b].checkIn = rows[b].checkIn /\ rows'[b].checkOut = rows[b].checkOut
    BY <1>2, <2>1, <2>2, <2>4 DEF Row
  <2> DEFINE S == {b} \X (1..n)
  <2>6. \A u : u \in S <=> u \in Bookings \X (1..MaxCount) /\ u[1] = b /\ u[2] <= n
    BY <1>2, <2>2, StockAssumption
  <2>7. S \in {{c} \X (1..k) : c \in Bookings, k \in 1..MaxCount}
    BY <1>2, <2>2
  <2> HIDE DEF S
  <2>8. ASSUME NEW q, NEW night, NEW u
        PROVE  /\ OnNight(u, q, night)' <=> OnNight(u, q, night)
               /\ OnNight(u, q, night) /\ u[1] = b => u \in S /\ q = p
               /\ OnNight(u, q, night) /\ u[1] # b =>
                    u \notin S /\ rows'[u[1]].status = rows[u[1]].status
    <3>1. CASE u \in Bookings \X (1..MaxCount) /\ u[1] = b
      <4>1. rows'[b] # None
        BY <2>5, StockAssumption
      <4> QED
        BY <1>5, <2>1, <2>5, <2>6, <3>1, <4>1 DEF OnNight, Exists
    <3>2. CASE ~(u \in Bookings \X (1..MaxCount) /\ u[1] = b)
      BY <2>4, <2>6, <3>2 DEF OnNight, Exists
    <3> QED
      BY <3>1, <3>2
  <2> DEFINE was == rows[b].status
  <2>9. was \in Statuses /\ rows'[b].status = status
    BY <2>2, <2>5
  <2> DEFINE taken == [q \in Products |-> [night \in Nights |-> NightUnits(q, night)]]
             shelved == [q \in Products |-> [night \in Nights |-> ShelvedUnits(q, night)]]
  <2>10. CASE (was \in Counted) <=> (status \in Counted)
    <3>1. (was = "cancelled") <=> (status = "cancelled")
      BY <1>2, <2>9, <2>10 DEF Statuses, Counted
    <3>2. ASSUME NEW q \in Products, NEW night \in Nights
          PROVE  /\ NightUnits(q, night)' = NightUnits(q, night)
                 /\ ShelvedUnits(q, night)' = ShelvedUnits(q, night)
      <4>1. \A u : u \in NightUnits(q, night)' <=> u \in NightUnits(q, night)
        BY <2>8, <2>9, <2>10, NightMembers, NightMembersNext
      <4>2. \A u : u \in ShelvedUnits(q, night)' <=> u \in ShelvedUnits(q, night)
        BY <2>8, <2>9, <3>1, NightMembers, NightMembersNext
      <4> QED
        BY <4>1, <4>2
    <3> QED
      BY <1>3, <3>2, LedgerStutters
  <2>11. CASE was \in Counted /\ status = "cancelled"
    <3>1. ASSUME NEW q \in Products, NEW night \in Nights
          PROVE  /\ NightUnits(q, night)' =
                      IF q = p THEN NightUnits(q, night) \ S ELSE NightUnits(q, night)
                 /\ ShelvedUnits(q, night)' =
                      IF q = p THEN ShelvedUnits(q, night) \cup (S \cap NightUnits(q, night))
                               ELSE ShelvedUnits(q, night)
      <4>1. \A u : u \in NightUnits(q, night)' <=>
                   u \in NightUnits(q, night) /\ ~(q = p /\ u \in S)
        BY <2>6, <2>8, <2>9, <2>11, NightMembers, NightMembersNext DEF Counted
      <4>2. \A u : u \in ShelvedUnits(q, night)' <=>
                   \/ u \in ShelvedUnits(q, night)
                   \/ q = p /\ u \in S /\ u \in NightUnits(q, night)
        BY <2>6, <2>8, <2>9, <2>11, NightMembers, NightMembersNext DEF Counted
      <4> QED
        BY <4>1, <4>2
    <3>2. taken' = [taken EXCEPT ![p] = [night \in Nights |-> @[night] \ S]]
      BY <2>2, <3>1
    <3>3. shelved' = [shelved EXCEPT ![p] =
            [night \in Nights |-> @[night] \cup (S \cap taken[p][night])]]
      BY <2>2, <3>1
    <3>4. Ledger!Shelve(p, S)
      BY <1>3, <3>2, <3>3 DEF Ledger!Shelve
    <3> QED
      BY <2>2, <2>7, <3>4 DEF Ledger!Next
  <2>12. CASE was = "cancelled" /\ status \in Counted
    <3>1. ASSUME NEW q \in Products, NEW night \in Nights
          PROVE  /\ ShelvedUnits(q, night)' =
                      IF q = p THEN ShelvedUnits(q, night) \ S ELSE ShelvedUnits(q, night)
                 /\ NightUnits(q, night)' =
                      IF q = p THEN NightUnits(q, night) \cup (S \cap ShelvedUnits(q, night))
                               ELSE NightUnits(q, night)
      <4>1. \A u : u \in ShelvedUnits(q, night)' <=>
                   u \in ShelvedUnits(q, night) /\ ~(q = p /\ u \in S)
        BY <2>6, <2>8, <2>9, <2>12, NightMembers, NightMembersNext DEF Counted
      <4>2. \A u : u \in NightUnits(q, night)' <=>
                   \/ u \in NightUnits(q, night)
                   \/ q = p /\ u \in S /\ u \in ShelvedUnits(q, night)
        BY <2>6, <2>8, <2>9, <2>12, NightMembers, NightMembersNext DEF Counted
      <4> QED
        BY <4>1, <4>2
    <3>2. shelved' = [shelved EXCEPT ![p] = [night \in Nights |-> @[night] \ S]]
      BY <2>2, <3>1
    <3>3. taken' = [taken EXCEPT ![p] =
            [night \in Nights |-> @[night] \cup (S \cap shelved[p][night])]]
      BY <2>2, <3>1
    <3>4. Ledger!Revive(p, S)
      BY <1>3, <3>2, <3>3 DEF Ledger!Revive
    <3> QED
      BY <2>2, <2>7, <3>4 DEF Ledger!Next
  <2> QED
    BY <1>2, <2>9, <2>10, <2>11, <2>12 DEF Statuses
<1> QED
  BY <1>4, <1>5

LEMMA CatalogueShows ==
  ASSUME IndInv, Catalogue
  PROVE  [Ledger!Next]_(Ledger!stays)
<1>1. ASSUME NEW p \in Products, NEW n \in 1..MaxStock, NEW on \in BOOLEAN, UpdateProduct(p, n, on)
      PROVE  Ledger!Next
  <2>1. /\ rows' = rows /\ stock[p] # None /\ stock' = [stock EXCEPT ![p] = n]
        /\ n \in Nat /\ stock'[p] = n
    BY <1>1, StockAssumption DEF UpdateProduct, IndInv, TypeOK
  <2>2. \A q \in Products, night \in Nights :
          /\ NightUnits(q, night)' = NightUnits(q, night)
          /\ ShelvedUnits(q, night)' = ShelvedUnits(q, night)
    BY <2>1 DEF NightUnits, ShelvedUnits, Units, RowsOf, Exists
  <2>3. Ledger!Restock(p)
    BY <2>1, <2>2 DEF Ledger!Restock
  <2> QED
    BY <2>3 DEF Ledger!Next
<1>2. ASSUME NEW h \in Hotels, NEW on \in BOOLEAN, UpdateHotel(h, on)
      PROVE  UNCHANGED Ledger!stays
  BY <1>2, RowsStutter DEF UpdateHotel
<1>3. ASSUME NEW p \in Products, DeleteProduct(p)
      PROVE  Ledger!Next
  <2>1. /\ stock[p] # None /\ stock' = [stock EXCEPT ![p] = None]
        /\ \A b \in Bookings : rows'[b] = IF b \in RowsOf(p) THEN None ELSE rows[b]
    BY <1>3 DEF DeleteProduct
  <2>2. ASSUME NEW q \in Products, NEW night \in Nights
        PROVE  /\ NightUnits(q, night)' = IF q = p THEN {} ELSE NightUnits(q, night)
               /\ ShelvedUnits(q, night)' = IF q = p THEN {} ELSE ShelvedUnits(q, night)
    <3>1. ASSUME NEW u
          PROVE  /\ OnNight(u, q, night)' <=> q # p /\ OnNight(u, q, night)
                 /\ q # p /\ OnNight(u, q, night) => rows'[u[1]].status = rows[u[1]].status
      BY <2>1 DEF OnNight, Exists, RowsOf
    <3>2. \A u : u \in NightUnits(q, night)' <=> q # p /\ u \in NightUnits(q, night)
      BY <3>1, NightMembers, NightMembersNext
    <3>3. \A u : u \in ShelvedUnits(q, night)' <=> q # p /\ u \in ShelvedUnits(q, night)
      BY <3>1, NightMembers, NightMembersNext
    <3> QED
      BY <3>2, <3>3
  <2>3. Ledger!Close(p)
    BY <2>1, <2>2 DEF Ledger!Close
  <2> QED
    BY <2>3 DEF Ledger!Next
<1> QED
  BY <1>1, <1>2, <1>3 DEF Catalogue

\* Bookings of rooms and tours implement the ledger of stays: each takes its
\* nights within the stock, all or none, whatever requests, cancellations,
\* stale actions and deletions of products run concurrently.
THEOREM ImplementsStays == Spec => LedgerSpec
<1>1. Init => Ledger!Init
  <2> SUFFICES ASSUME Init PROVE Ledger!Init
    OBVIOUS
  <2>1. \A p \in Products, night \in Nights : NightUnits(p, night) = {} /\ ShelvedUnits(p, night) = {}
    BY DEF Init, NightUnits, ShelvedUnits, Units, RowsOf, Exists
  <2>2. stock \in [Products -> Nat]
    BY StockAssumption DEF Init
  <2> QED
    BY <2>1, <2>2 DEF Ledger!Init
<1>2. IndInv /\ [Next]_vars => [Ledger!Next]_(Ledger!stays)
  <2> SUFFICES ASSUME IndInv, [Next]_vars PROVE [Ledger!Next]_(Ledger!stays)
    OBVIOUS
  <2>1. CASE \E m \in Requests : Insert(m)
    BY <2>1, InsertTakes
  <2>2. CASE \E m \in Requests : ActionCommit(m)
    BY <2>2, CommitShows
  <2>3. CASE Catalogue
    BY <2>3, CatalogueShows
  <2>4. CASE rows' = rows /\ stock' = stock
    BY <2>4, RowsStutter
  <2> QED
    BY <2>1, <2>2, <2>3, <2>4
    DEF Next, Start, Proceed, CreateBegin, ActionBegin, Begin, LockProduct, Count, Abort,
        DeadlockVictim, Reject, Finish, GoTo, vars, catalog
<1> QED
  BY <1>1, <1>2, Inductive, PTL DEF Spec, LedgerSpec, Ledger!Spec

-----------------------------------------------------------------------------
(* What is counted.                                                        *)

LEMMA UnitMembers ==
  ASSUME NEW B, B \subseteq Bookings, NEW u \in Units(B)
  PROVE  u \in Bookings \X (1..MaxCount) /\ u[1] \in B /\ u[2] <= rows[u[1]].count
BY DEF Units

\* What overlaps with a stay is on in the later of the two arrivals.
LEMMA OverlapHasNight ==
  ASSUME IndInv, NEW p \in Products, NEW in \in Int, NEW out \in Int, in < out,
         NEW u \in BookedUnits(p, in, out)
  PROVE  \E night \in in..(out - 1) : u \in NightUnits(p, night)
<1>1. /\ u \in Bookings \X (1..MaxCount) /\ u[2] <= rows[u[1]].count
      /\ u[1] \in RowsOf(p) /\ rows[u[1]].status \in Counted
      /\ \/ rows[u[1]].checkIn < out /\ rows[u[1]].checkOut > in
         \/ rows[u[1]].checkIn = in
  <2> DEFINE R == {b \in RowsOf(p) : /\ rows[b].status \in Counted
                                     /\ rows[b].checkIn < out
                                     /\ rows[b].checkOut > in}
             T == {b \in RowsOf(p) : rows[b].checkIn = in /\ rows[b].status \in Counted}
  <2>1. CASE u \in Units(R)
    BY <2>1, UnitMembers DEF RowsOf
  <2>2. CASE u \in Units(T)
    BY <2>2, UnitMembers DEF RowsOf
  <2>3. BookedUnits(p, in, out) = IF p \in Rooms THEN Units(R) ELSE Units(T)
    BY DEF BookedUnits, RoomUnits, TourUnits
  <2> QED
    BY <2>1, <2>2, <2>3
<1>2. PICK b \in Bookings : b = u[1]
  BY <1>1
<1>3. Exists(b)
  BY <1>1, <1>2 DEF RowsOf
<1>4. rows[b].checkIn \in Int /\ rows[b].checkOut \in Int
  BY <1>3, RowTypes
<1>5. rows[b].checkIn < rows[b].checkOut
  BY <1>3 DEF IndInv, RowsSound, Stay
<1>6. PICK night \in in..(out - 1) : rows[b].checkIn <= night /\ night < rows[b].checkOut
  <2>1. CASE rows[b].checkIn <= in
    BY <1>1, <1>2, <1>4, <1>5, <2>1
  <2>2. CASE rows[b].checkIn > in
    BY <1>1, <1>2, <1>4, <1>5, <2>2
  <2> QED
    BY <1>4, <2>1, <2>2
<1> QED
  BY <1>1, <1>2, <1>6 DEF NightUnits, Units

\* What a request counts is what is taken in some night it asks for: for a
\* night alone the count is exact, and no neighbouring stay is counted.
THEOREM CountsAreExact == Spec => []CountsItsNights
<1>1. ASSUME IndInv PROVE CountsItsNights
  <2>1. SUFFICES ASSUME NEW p \in Products, NEW in \in Nights, NEW out \in 1..MaxNights,
                        in < out, p \in Tours => out = in + 1
                 PROVE  BookedUnits(p, in, out)
                          = UNION {NightUnits(p, night) : night \in in..(out - 1)}
    BY DEF CountsItsNights
  <2>2. in \in Int /\ out \in Int
    BY StockAssumption DEF Nights
  <2>3. \A night \in in..(out - 1) : NightUnits(p, night) \subseteq BookedUnits(p, in, out)
    BY <1>1, <2>1, <2>2, NightWithin
  <2>4. \A u \in BookedUnits(p, in, out) :
          \E night \in in..(out - 1) : u \in NightUnits(p, night)
    BY <1>1, <2>1, <2>2, OverlapHasNight
  <2> QED
    BY <2>3, <2>4
<1> QED
  BY <1>1, Inductive, PTL

-----------------------------------------------------------------------------
(* Deadlocks.                                                              *)

LEMMA HasLeast ==
  ASSUME NEW S, S \subseteq Nat, S # {}
  PROVE  \E m \in S : \A n \in S : m <= n
<1> DEFINE Less == {ss \in Nat \X Nat : ss[1] < ss[2]}
<1>1. Less = OpToRel(<, Nat)
  BY Zenon DEF OpToRel
<1>2. IsWellFoundedOn(Less, Nat)
  BY <1>1, NatLessThanWellFounded, Zenon
<1> HIDE DEF Less
<1>3. PICK m \in S : \A n \in S : ~ (<<n, m>> \in Less)
  BY <1>2, WFMin
<1>4. \A n \in S : ~ (<<n, m>> \in {ss \in Nat \X Nat : ss[1] < ss[2]})
  BY <1>3 DEF Less
<1>5. \A n \in S : ~ (n < m)
  BY <1>4
<1> QED
  BY <1>5

\* Of finitely many elements one has the largest number.
LEMMA HasLargest ==
  ASSUME NEW S, IsFiniteSet(S), S # {}, NEW g \in [S -> Nat]
  PROVE  \E x \in S : \A y \in S : g[y] <= g[x]
<1> DEFINE Has(T) == \E x \in T : \A y \in T : g[y] <= g[x]
           Lacking == {T \in SUBSET S : T # {} /\ ~Has(T)}
           Sizes == {Cardinality(T) : T \in Lacking}
<1>1. SUFFICES ASSUME ~Has(S) PROVE FALSE
  OBVIOUS
<1>2. \A T \in SUBSET S : IsFiniteSet(T) /\ Cardinality(T) \in Nat
  BY FS_Subset, FS_CardinalityType
<1>3. S \in Lacking
  BY <1>1
<1>4. Sizes \subseteq Nat /\ Sizes # {}
  BY <1>2, <1>3
<1>5. PICK n \in Sizes : \A k \in Sizes : n <= k
  <2> HIDE DEF Sizes
  <2> QED
    BY <1>4, HasLeast
<1>6. PICK T \in Lacking : Cardinality(T) = n
  OBVIOUS
<1>7. PICK t \in T : TRUE
  OBVIOUS
<1>8. T \ {t} \in SUBSET S /\ Cardinality(T \ {t}) < n
  <2>1. T \ {t} \in SUBSET S /\ IsFiniteSet(T)
    BY <1>2, <1>6
  <2>2. Cardinality(T \ {t}) = Cardinality(T) - 1
    BY <1>7, <2>1, FS_RemoveElement
  <2> QED
    BY <1>2, <1>6, <2>1, <2>2
<1>9. T \ {t} \notin Lacking
  <2>1. Cardinality(T \ {t}) \notin Sizes
    <3> HIDE DEF Sizes
    <3> QED
      BY <1>2, <1>4, <1>5, <1>8
  <2> QED
    BY <2>1
<1>10. CASE T \ {t} = {}
  <2>1. \A y \in T : y = t
    BY <1>10
  <2> QED
    BY <1>6, <1>7, <2>1
<1>11. CASE Has(T \ {t})
  <2>1. PICK x \in T \ {t} : \A y \in T \ {t} : g[y] <= g[x]
    BY <1>11
  <2>2. g[x] \in Nat /\ g[t] \in Nat /\ \A y \in T : g[y] \in Nat
    BY <1>6, <1>7, <2>1
  <2>3. Has(T)
    <3>1. CASE g[t] <= g[x]
      BY <2>1, <3>1
    <3>2. CASE g[x] <= g[t]
      BY <1>7, <2>1, <2>2, <3>2
    <3> QED
      BY <2>2, <3>1, <3>2
  <2> QED
    BY <1>6, <2>3
<1> QED
  BY <1>8, <1>9, <1>10, <1>11

\* Requests that have counted have products, and bookings, of their own.
LEMMA CountedApart ==
  ASSUME IndInv, NEW r \in Requests, pc[r] = "counted"
  PROVE  /\ req[r].booking \in Bookings /\ req[r].product \in Products
         /\ \A s \in Requests : pc[s] = "counted" /\ s # r =>
              req[s].booking # req[r].booking /\ req[s].product # req[r].product
<1>1. \A s \in Requests : pc[s] = "counted" => req[s] \in CreateReq /\ Creating(s)
  BY DEF IndInv, RequestsSound, Creating, CreateReq
<1>2. req[r].booking \in Bookings /\ req[r].product \in Products
  BY <1>1 DEF CreateReq
<1>3. ASSUME NEW s \in Requests, pc[s] = "counted", s # r
      PROVE  req[s].booking # req[r].booking /\ req[s].product # req[r].product
  <2>1. req[s].booking # req[r].booking
    BY <1>1, <1>3 DEF IndInv, RequestsSound
  <2>2. HoldsProduct(r, req[r].product) /\ HoldsProduct(s, req[s].product)
    BY <1>3 DEF HoldsProduct
  <2> QED
    BY <1>2, <1>3, <2>1, <2>2 DEF IndInv, Exclusive
<1> QED
  BY <1>2, <1>3

\* The one with the last product in the index waits for one before it; then
\* nothing is booked between the two, nor of the last, and the other waits
\* for the same gap.
LEMMA WaitsBack ==
  ASSUME IndInv, NEW r \in Requests, NEW s \in Requests, WaitsForGap(r, s),
         req[s].product < req[r].product
  PROVE  WaitsForGap(s, r)
<1>1. pc[r] = "counted" /\ pc[s] = "counted" /\ r # s /\ InGap(req[r].product, req[s].product)
  BY DEF WaitsForGap
<1>2. Products \subseteq Nat
  BY StockAssumption DEF Products
<1>3. req[r].product \in Nat /\ req[s].product \in Nat
  BY <1>1, <1>2, CountedApart
<1>4. InGap(req[s].product, req[r].product)
  BY <1>1, <1>2, <1>3 DEF InGap
<1> QED
  BY <1>1, <1>4 DEF WaitsForGap

\* However many requests wait for each other in a circle, two of them wait
\* for each other's gaps: the cycles of two that the database is asked to
\* find are all there are.
THEOREM NoDeadlockHides == Spec => []NoHiddenDeadlock
<1>1. ASSUME IndInv PROVE NoHiddenDeadlock
  <2>1. SUFFICES ASSUME NEW D \in SUBSET Requests, D # {},
                        \A r \in D : \E s \in D : WaitsFor(r, s)
                 PROVE  \E r, s \in D : WaitsForGap(r, s) /\ WaitsForGap(s, r)
    BY DEF NoHiddenDeadlock
  <2> DEFINE K == {r \in D : pc[r] = "counted"}
  <2>2. ASSUME NEW r \in D, pc[r] # "begun" PROVE \E s \in K : WaitsForGap(r, s)
    BY <2>1, <2>2 DEF WaitsFor, WaitsForGap, At
  <2>3. K # {}
    <3>1. PICK r \in D, s \in D : WaitsFor(r, s)
      BY <2>1
    <3>2. pc[s] # "begun"
      BY <3>1 DEF WaitsFor, WaitsForGap, HoldsProduct, HoldsRows
    <3> QED
      BY <2>2, <3>2
  <2>4. IsFiniteSet(K)
    <3> DEFINE f == [r \in K |-> req[r].booking]
    <3>1. f \in Injection(K, Bookings)
      BY <1>1, <2>1, CountedApart DEF Injection, IsInjective
    <3> QED
      BY <3>1, FS_Injection, StockAssumption
  <2> DEFINE g == [r \in K |-> req[r].product]
  <2>5. g \in [K -> Nat]
    BY <1>1, <2>1, CountedApart, StockAssumption DEF Products
  <2>6. PICK r \in K : \A s \in K : g[s] <= g[r]
    <3> HIDE DEF K, g
    <3> QED
      BY <2>3, <2>4, <2>5, HasLargest
  <2>7. PICK s \in K : WaitsForGap(r, s)
    BY <2>2
  <2>8. req[s].product < req[r].product
    <3>1. req[s].product # req[r].product
      BY <1>1, <2>1, <2>7, CountedApart DEF WaitsForGap
    <3>2. g[s] = req[s].product /\ g[r] = req[r].product /\ g[s] \in Nat /\ g[r] \in Nat
      BY <2>5
    <3>3. g[s] <= g[r]
      BY <2>6
    <3> QED
      BY <3>1, <3>2, <3>3
  <2> QED
    BY <1>1, <2>1, <2>7, <2>8, WaitsBack
<1> QED
  BY <1>1, Inductive, PTL

=============================================================================
