----------------------------- MODULE Catalogue -----------------------------
(***************************************************************************)
(* The tables of the office: provinces, district types, districts, stops,  *)
(* routes, route stops, buses and trips, the bookings that refer to them,  *)
(* and the guards that keep a row from being deleted while bookings need   *)
(* it.  All foreign keys cascade but the pickup stop of a booking, which   *)
(* is set to null.                                                         *)
(*                                                                         *)
(* A guard counts in the snapshot of its transaction; the delete comes in  *)
(* a later statement and cascades over the latest rows.  Left out: names,  *)
(* slugs, prices, priorities, stop types, blocks and surcharges, which no  *)
(* guard counts and no booking refers to.                                  *)
(***************************************************************************)
EXTENDS Naturals

CONSTANTS
  Ids,     \* primary keys of all tables
  KindOf,  \* the table an id belongs to
  Clerks,  \* requests that run at a time
  Gone,    \* no row
  Null,    \* a column that is null, or that the table does not have
  Seeds    \* the tables the system may start with, and the ids used by then

Parents == [province |-> {}, type |-> {}, bus |-> {},
            district |-> {"province", "type"}, stop |-> {"district"},
            route |-> {"start", "end"}, routeStop |-> {"route", "stop"},
            trip |-> {"bus", "route"}, booking |-> {"trip", "pickup", "dropoff"}]
TableOf == [province |-> "province", type |-> "type", district |-> "district",
            start |-> "province", end |-> "province", route |-> "route",
            stop |-> "stop", bus |-> "bus", trip |-> "trip",
            pickup |-> "stop", dropoff |-> "stop"]
Tables  == DOMAIN Parents

Refs(x) == [Parents[KindOf[x]] -> Ids \cup {Null}]
AnyRefs == UNION {Refs(x) : x \in Ids}
Task    == [op : {"delete"}, id : Ids] \cup [op : {"book"}, id : Ids, refs : AnyRefs]

ASSUME CatalogueAssumption ==
  /\ KindOf \in [Ids -> Tables]
  /\ Null \notin Ids
  /\ Gone \notin AnyRefs \cup Task

Of(kind) == {x \in Ids : KindOf[x] = kind}

\* Rows that are there at the start have their columns, which hold rows that
\* are there, and their ids were given out.
ASSUME SeedsAssumption == \A seed \in Seeds :
  /\ seed.row \in [Ids -> AnyRefs \cup {Gone}]
  /\ seed.used \in SUBSET Ids
  /\ \A x \in Ids : seed.row[x] # Gone =>
       /\ x \in seed.used /\ seed.row[x] \in Refs(x)
       /\ \A c \in Parents[KindOf[x]] :
            \/ c = "pickup" /\ seed.row[x][c] = Null
            \/ /\ seed.row[x][c] \in Of(TableOf[c])
               /\ seed.row[seed.row[x][c]] # Gone

VARIABLES
  row,   \* the columns of each row that is there
  used,  \* ids that were given out: AUTO_INCREMENT repeats none
  task   \* the request each clerk serves, after its first reads

catalogueVars == <<row, used, task>>

\* Columns hold rows of their table that are there.
Allowed(c) ==
  {y \in Of(TableOf[c]) : row[y] # Gone} \cup (IF c = "pickup" THEN {Null} ELSE {})
Sound(r, x) == r \in Refs(x) /\ \A c \in Parents[KindOf[x]] : r[c] \in Allowed(c)

CatalogueTypeOK ==
  /\ row \in [Ids -> AnyRefs \cup {Gone}]
  /\ used \in SUBSET Ids
  /\ \A x \in Ids : row[x] # Gone => x \in used /\ Sound(row[x], x)
  /\ task \in [Clerks -> Task \cup {Gone}]

\* What the columns of x may be set to.
RefChoices(x) ==
  LET cols == Parents[KindOf[x]]
      A    == [c \in cols |-> Allowed(c)]
  IN  {r \in [cols -> UNION {A[c] : c \in cols}] : \A c \in cols : r[c] \in A[c]}

CatalogueInit ==
  /\ \E seed \in Seeds : row = seed.row /\ used = seed.used
  /\ task = [k \in Clerks |-> Gone]

-----------------------------------------------------------------------------
(* What a delete takes along.                                              *)

Under(x, y) == row[x] # Gone /\ 
  \E c \in Parents[KindOf[x]] \ {"pickup"} : row[x][c] = y
WithChildren(S) == S \cup {x \in Ids : \E y \in S : Under(x, y)}

\* No chain of foreign keys is longer than three.
Doomed(x) == WithChildren(WithChildren(WithChildren({x})))

\* Mutant of Cascade: the pickup is left as it was.
CascadeDangling(x) == LET D == Doomed(x) IN [y \in Ids |->
  IF row[y] = Gone \/ y \in D THEN Gone ELSE row[y]]

Cascade(x) == LET D == Doomed(x) IN [y \in Ids |->
  IF row[y] = Gone \/ y \in D THEN Gone
  ELSE [c \in DOMAIN row[y] |-> IF row[y][c] \in D THEN Null ELSE row[y][c]]]

\* The bookings that go or lose their pickup.
Booked     == {b \in Of("booking") : row[b] # Gone}
Touched(x) == LET D == Doomed(x) IN {b \in Booked : b \in D \/ row[b]["pickup"] \in D}

-----------------------------------------------------------------------------
(* What the guards count.                                                  *)

Stops(b)  == {row[b]["pickup"], row[b]["dropoff"]}
Joined(kind, y) == y \in Of(kind) /\ row[y] # Gone

TripBookings(x) == {b \in Booked : row[b]["trip"] = x}
StopBookings(x) == {b \in Booked : x \in Stops(b)}
BusBookings(x)  == {b \in Booked : \E t \in Ids :
  Joined("trip", t) /\ row[b]["trip"] = t /\ row[t]["bus"] = x}
RouteBookings(x) == {b \in Booked : \E t \in Ids :
  Joined("trip", t) /\ row[b]["trip"] = t /\ row[t]["route"] = x}
DistrictBookings(x) == {b \in Booked : \E s \in Stops(b) :
  Joined("stop", s) /\ row[s]["district"] = x}

ViaStops(x) == {b \in Booked : \E s \in Stops(b), d \in Ids :
  /\ Joined("stop", s) /\ row[s]["district"] = d
  /\ Joined("district", d) /\ row[d]["province"] = x}
ViaRoutes(x) == {b \in Booked : \E t, r \in Ids :
  /\ Joined("trip", t) /\ row[b]["trip"] = t
  /\ Joined("route", r) /\ row[t]["route"] = r
  /\ x \in {row[r]["start"], row[r]["end"]}}

\* Mutant of ProvinceBookings: bookings through a route are forgotten.
ProvinceBookingsViaStops(x) == ViaStops(x)

ProvinceBookings(x) == ViaStops(x) \cup ViaRoutes(x)

DistrictsOfType(x) == {d \in Of("district") : row[d] # Gone /\ row[d]["type"] = x}

\* The guard of each table; a route stop has none.
MayDelete(x) ==
  /\ KindOf[x] = "bus"      => BusBookings(x) = {}
  /\ KindOf[x] = "route"    => RouteBookings(x) = {}
  /\ KindOf[x] = "trip"     => TripBookings(x) = {}
  /\ KindOf[x] = "stop"     => StopBookings(x) = {}
  /\ KindOf[x] = "district" => DistrictBookings(x) = {}
  /\ KindOf[x] = "province" => ProvinceBookings(x) = {}
  /\ KindOf[x] = "type"     => DistrictsOfType(x) = {}

-----------------------------------------------------------------------------
(* The office.                                                             *)

\* An insert whose parents are there; the foreign keys see the latest rows.
Insert(kind, x) ==
  /\ KindOf[x] = kind /\ x \notin used
  /\ \E r \in RefChoices(x) : row' = [row EXCEPT ![x] = r]
  /\ used' = used \cup {x}
  /\ UNCHANGED task

CreateProvince(x)     == Insert("province", x)
CreateDistrictType(x) == Insert("type", x)
CreateDistrict(x)     == Insert("district", x)
CreateStop(x)         == Insert("stop", x)
CreateRoute(x)        == Insert("route", x)
CreateRouteStop(x)    == Insert("routeStop", x)
CreateBus(x)          == Insert("bus", x)
CreateTrip(x)         == Insert("trip", x)

\* An update of the columns of a row; provinces, types and buses have none
\* that the module keeps.
Update(kind, x) ==
  /\ KindOf[x] = kind /\ row[x] # Gone
  /\ \E r \in RefChoices(x) \ {row[x]} :
       /\ kind = "routeStop" => r["route"] = row[x]["route"]
       /\ row' = [row EXCEPT ![x] = r]
  /\ UNCHANGED <<used, task>>

UpdateDistrict(x)  == Update("district", x)
UpdateStop(x)      == Update("stop", x)
UpdateRoute(x)     == Update("route", x)
UpdateRouteStop(x) == Update("routeStop", x)
UpdateTrip(x)      == Update("trip", x)

\* A delete first asks its guard.
BeginDelete(kind, k, x) ==
  /\ KindOf[x] = kind /\ task[k] = Gone /\ row[x] # Gone
  /\ MayDelete(x)
  /\ task' = [task EXCEPT ![k] = [op |-> "delete", id |-> x]]
  /\ UNCHANGED <<row, used>>

DeleteProvince(k, x)     == BeginDelete("province", k, x)
DeleteDistrictType(k, x) == BeginDelete("type", k, x)
DeleteDistrict(k, x)     == BeginDelete("district", k, x)
DeleteStop(k, x)         == BeginDelete("stop", k, x)
DeleteRoute(k, x)        == BeginDelete("route", k, x)
DeleteRouteStop(k, x)    == BeginDelete("routeStop", k, x)
DeleteBus(k, x)          == BeginDelete("bus", k, x)
DeleteTrip(k, x)         == BeginDelete("trip", k, x)

\* A row that is gone by now is not missed.
CommitDelete(k) == LET x == task[k].id IN
  /\ task[k] # Gone /\ task[k].op = "delete"
  /\ row' = IF row[x] = Gone THEN row ELSE Cascade(x)
  /\ task' = [task EXCEPT ![k] = Gone]
  /\ UNCHANGED used

-----------------------------------------------------------------------------
(* Bookings, as far as they refer to the tables (Bookings has the rest).   *)

\* validate_stop_selections; without a pickup stop the pickup is a hotel.
OnRoute(r) == \E t \in Ids :
  /\ Joined("trip", t) /\ r["trip"] = t
  /\ \A s \in {r["pickup"], r["dropoff"]} \ {Null} : \E y \in Ids :
       Joined("routeStop", y) /\ row[y]["stop"] = s /\ row[y]["route"] = row[t]["route"]

BeginBook(k, b) ==
  /\ task[k] = Gone /\ b \notin used
  /\ \A j \in Clerks : task[j] # Gone => task[j].id # b
  /\ \E r \in RefChoices(b) :
       /\ OnRoute(r)
       /\ task' = [task EXCEPT ![k] = [op |-> "book", id |-> b, refs |-> r]]
  /\ UNCHANGED <<row, used>>

\* The insert fails when the trip or a stop went in between.
CommitBook(k) == LET b == task[k].id IN
  /\ task[k] # Gone /\ task[k].op = "book"
  /\ Sound(task[k].refs, b)
  /\ row' = [row EXCEPT ![b] = task[k].refs]
  /\ used' = used \cup {b}
  /\ task' = [task EXCEPT ![k] = Gone]

\* edit_booking holds the row of the booking; it keeps its trip.
EditStops(b) ==
  /\ \E r \in RefChoices(b) \ {row[b]} :
       /\ OnRoute(r) /\ r["trip"] = row[b]["trip"]
       /\ row' = [row EXCEPT ![b] = r]
  /\ UNCHANGED <<used, task>>

\* Any error rolls the request back.
GiveUpTask(k) ==
  /\ task[k] # Gone
  /\ task' = [task EXCEPT ![k] = Gone]
  /\ UNCHANGED <<row, used>>

ClerkStep(k) ==
  \/ \E x \in Ids :
       \/ DeleteProvince(k, x) \/ DeleteDistrictType(k, x) \/ DeleteDistrict(k, x)
       \/ DeleteStop(k, x) \/ DeleteRoute(k, x) \/ DeleteRouteStop(k, x)
       \/ DeleteBus(k, x) \/ DeleteTrip(k, x)
  \/ \E b \in Of("booking") : BeginBook(k, b)
  \/ CommitDelete(k) \/ CommitBook(k) \/ GiveUpTask(k)

OfficeStep(x) ==
  \/ CreateProvince(x) \/ CreateDistrictType(x) \/ CreateDistrict(x) \/ CreateStop(x)
  \/ CreateRoute(x) \/ CreateRouteStop(x) \/ CreateBus(x) \/ CreateTrip(x)
  \/ UpdateDistrict(x) \/ UpdateStop(x) \/ UpdateRoute(x) \/ UpdateRouteStop(x)
  \/ UpdateTrip(x)

CatalogueNext ==
  \/ \E k \in Clerks : ClerkStep(k)
  \/ \E x \in Ids : OfficeStep(x)
  \/ \E b \in Booked : EditStops(b)

CatalogueSpec == CatalogueInit /\ [][CatalogueNext]_catalogueVars

-----------------------------------------------------------------------------
\* What a guard counts, by whichever chain of foreign keys, is all that the
\* cascade reaches.  No lock keeps it so until the delete: an edit onto the stop,
\* a new booking, a row moved under the one that goes.  But a booking goes, or
\* loses its pickup, only to a delete whose guard, asked again at that moment,
\* would refuse it, so to what came in between and never to a count that is too
\* small (delete_guards.py:48-146; a province takes its routes along, too).
LostInBetween == [][\A b \in Booked :
  (row'[b] = Gone \/ (row[b]["pickup"] # Null /\ row'[b]["pickup"] = Null)) =>
    \/ EditStops(b)
    \/ \E k \in Clerks : CommitDelete(k) /\ ~MayDelete(task[k].id)]_catalogueVars

=============================================================================
