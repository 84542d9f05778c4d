---------------------------- MODULE OfficeProofs ----------------------------
(***************************************************************************)
(* What holds of the tables the office edits, for any set of ids and any   *)
(* number of requests.  The catalogue: foreign keys hold, and guards count *)
(* what cascades reach.  Reordering: what a request has written stays, and *)
(* others see the whole of it or nothing.                                  *)
(***************************************************************************)
EXTENDS Catalogue, Reorder, FiniteSetTheorems, FunctionTheorems, TLAPS

-----------------------------------------------------------------------------
(* Which rows may be under which.                                          *)

TableNames == {"province", "type", "bus", "district", "stop", "route",
               "routeStop", "trip", "booking"}

LEMMA ColumnsOf ==
  /\ Tables = TableNames
  /\ Parents["province"] = {} /\ Parents["type"] = {} /\ Parents["bus"] = {}
  /\ Parents["district"] = {"province", "type"}
  /\ Parents["stop"] = {"district"}
  /\ Parents["route"] = {"start", "end"}
  /\ Parents["routeStop"] = {"route", "stop"}
  /\ Parents["trip"] = {"bus", "route"}
  /\ Parents["booking"] = {"trip", "pickup", "dropoff"}
BY DEF Parents, Tables, TableNames

LEMMA TablesOf ==
  /\ TableOf["province"] = "province" /\ TableOf["type"] = "type"
  /\ TableOf["district"] = "district" /\ TableOf["start"] = "province"
  /\ TableOf["end"] = "province" /\ TableOf["route"] = "route"
  /\ TableOf["stop"] = "stop" /\ TableOf["bus"] = "bus" /\ TableOf["trip"] = "trip"
  /\ TableOf["pickup"] = "stop" /\ TableOf["dropoff"] = "stop"
BY DEF TableOf

LEMMA KindKnown ==
  ASSUME NEW x \in Ids
  PROVE  KindOf[x] \in TableNames
BY CatalogueAssumption, ColumnsOf

LEMMA ColumnHolds ==
  ASSUME CatalogueTypeOK, NEW z \in Ids, row[z] # Gone,
         NEW c \in Parents[KindOf[z]], c # "pickup"
  PROVE  /\ row[z][c] \in Ids /\ row[row[z][c]] # Gone
         /\ KindOf[row[z][c]] = TableOf[c]
BY DEF CatalogueTypeOK, Sound, Allowed, Of

\* The parent of a row, by the kind of the row.
LEMMA UnderKinds ==
  ASSUME CatalogueTypeOK, NEW z \in Ids, NEW y \in Ids, Under(z, y)
  PROVE  /\ row[z] # Gone /\ row[y] # Gone
         /\ \/ /\ KindOf[z] = "district"
               /\ \/ KindOf[y] = "province" /\ row[z]["province"] = y
                  \/ KindOf[y] = "type" /\ row[z]["type"] = y
            \/ KindOf[z] = "stop" /\ KindOf[y] = "district" /\ row[z]["district"] = y
            \/ KindOf[z] = "route" /\ KindOf[y] = "province" /\ y \in {row[z]["start"], row[z]["end"]}
            \/ KindOf[z] = "routeStop" /\ KindOf[y] \in {"route", "stop"}
            \/ /\ KindOf[z] = "trip"
               /\ \/ KindOf[y] = "bus" /\ row[z]["bus"] = y
                  \/ KindOf[y] = "route" /\ row[z]["route"] = y
            \/ /\ KindOf[z] = "booking"
               /\ \/ KindOf[y] = "trip" /\ row[z]["trip"] = y
                  \/ KindOf[y] = "stop" /\ row[z]["dropoff"] = y
<1>1. PICK c \in Parents[KindOf[z]] : c # "pickup" /\ row[z][c] = y
  BY DEF Under
<1>2. row[z] # Gone
  BY DEF Under
<1>3. row[y] # Gone /\ KindOf[y] = TableOf[c]
  BY <1>1, <1>2, ColumnHolds
<1> QED
  BY <1>1, <1>2, <1>3, KindKnown, ColumnsOf, TablesOf DEF TableNames

LEMMA InChildren ==
  ASSUME NEW S, NEW z, z \in WithChildren(S)
  PROVE  z \in S \/ (z \in Ids /\ \E y \in S : Under(z, y))
BY DEF WithChildren

LEMMA ToChildren ==
  ASSUME NEW S
  PROVE  /\ S \subseteq WithChildren(S)
         /\ \A z \in Ids, y \in S : Under(z, y) => z \in WithChildren(S)
BY DEF WithChildren

\* What a row takes along is at most three foreign keys away.
LEMMA Chains ==
  ASSUME NEW x \in Ids, NEW z, z \in Doomed(x)
  PROVE  /\ z \in Ids
         /\ \/ z = x
            \/ Under(z, x)
            \/ \E y \in Ids : Under(z, y) /\ Under(y, x)
            \/ \E y, w \in Ids : Under(z, y) /\ Under(y, w) /\ Under(w, x)
<1> DEFINE A == {x}
           B == WithChildren(A)
           C == WithChildren(B)
<1>1. ASSUME NEW y \in B
      PROVE  y \in Ids /\ (y = x \/ Under(y, x))
  BY <1>1, InChildren
<1>2. ASSUME NEW y \in C
      PROVE  /\ y \in Ids
             /\ y = x \/ Under(y, x) \/ \E w \in Ids : Under(y, w) /\ Under(w, x)
  <2>1. y \in B \/ (y \in Ids /\ \E w \in B : Under(y, w))
    BY <1>2, InChildren
  <2> QED
    BY <2>1, <1>1
<1>3. z \in C \/ (z \in Ids /\ \E y \in C : Under(z, y))
  BY InChildren DEF Doomed
<1> HIDE DEF A, B, C
<1> QED
  BY <1>2, <1>3

\* Tables are ranked, and a row refers to rows of lower ranks: so nothing is
\* under the rows that are three keys away.
Rank == [province |-> 0, type |-> 0, bus |-> 0, district |-> 1, route |-> 1,
         stop |-> 2, trip |-> 2, routeStop |-> 3, booking |-> 3]

LEMMA RankGrows ==
  ASSUME CatalogueTypeOK, NEW z \in Ids, NEW y \in Ids, Under(z, y)
  PROVE  /\ Rank[KindOf[z]] \in 0..3 /\ Rank[KindOf[y]] \in 0..3
         /\ Rank[KindOf[y]] < Rank[KindOf[z]]
<1>1. /\ Rank["province"] = 0 /\ Rank["type"] = 0 /\ Rank["bus"] = 0
      /\ Rank["district"] = 1 /\ Rank["route"] = 1 /\ Rank["stop"] = 2
      /\ Rank["trip"] = 2 /\ Rank["routeStop"] = 3 /\ Rank["booking"] = 3
  BY DEF Rank
<1>2. \/ KindOf[z] = "district" /\ KindOf[y] \in {"province", "type"}
      \/ KindOf[z] = "stop" /\ KindOf[y] = "district"
      \/ KindOf[z] = "route" /\ KindOf[y] = "province"
      \/ KindOf[z] = "routeStop" /\ KindOf[y] \in {"route", "stop"}
      \/ KindOf[z] = "trip" /\ KindOf[y] \in {"bus", "route"}
      \/ KindOf[z] = "booking" /\ KindOf[y] \in {"trip", "stop"}
  BY UnderKinds
<1> QED
  BY <1>1, <1>2

LEMMA CascadeCloses ==
  ASSUME CatalogueTypeOK, NEW x \in Ids, NEW z \in Doomed(x), NEW y \in Ids, Under(y, z)
  PROVE  y \in Doomed(x)
<1> DEFINE B == WithChildren({x})
           C == WithChildren(B)
<1>1. z \in C \/ (z \in Ids /\ \E a \in C : Under(z, a))
  BY InChildren DEF Doomed
<1>2. CASE z \in C
  BY <1>2, ToChildren DEF Doomed
<1>3. ASSUME NEW a \in C, z \in Ids, Under(z, a)
      PROVE  y \in Doomed(x)
  <2>1. a \in B \/ (a \in Ids /\ \E b \in B : Under(a, b))
    BY <1>3, InChildren
  <2>2. CASE a \in B
    <3>1. z \in C
      BY <1>3, <2>2, ToChildren
    <3> QED
      BY <1>2, <3>1
  <2>3. ASSUME NEW b \in B, a \in Ids, Under(a, b)
        PROVE  y \in Doomed(x)
    <3>1. b = x \/ (b \in Ids /\ Under(b, x))
      BY <2>3, InChildren
    <3>2. CASE b = x
      <4>1. a \in B
        BY <2>3, <3>2, ToChildren
      <4> QED
        BY <2>2, <4>1
    <3>3. CASE b \in Ids /\ Under(b, x)
      BY <1>3, <2>3, <3>3, RankGrows
    <3> QED
      BY <3>1, <3>2, <3>3
  <2> QED
    BY <2>1, <2>2, <2>3
<1> QED
  BY <1>1, <1>2, <1>3

-----------------------------------------------------------------------------
(* Guards count what cascades reach.                                       *)

\* How a stop can go with x.
LEMMA DoomedStops ==
  ASSUME CatalogueTypeOK, NEW x \in Ids, NEW s \in Doomed(x), KindOf[s] = "stop"
  PROVE  \/ s = x
         \/ KindOf[x] = "district" /\ row[s]["district"] = x
         \/ \E d \in Ids :
              /\ KindOf[d] = "district" /\ row[d] # Gone /\ row[s]["district"] = d
              /\ \/ KindOf[x] = "province" /\ row[d]["province"] = x
                 \/ KindOf[x] = "type" /\ row[d]["type"] = x
<1>1. s \in Ids
  BY Chains
<1>2. CASE s = x
  BY <1>2
<1>3. CASE Under(s, x)
  BY <1>1, <1>3, UnderKinds
<1>4. ASSUME NEW y \in Ids, Under(s, y)
      PROVE  KindOf[y] = "district" /\ row[y] # Gone /\ row[s]["district"] = y
  BY <1>1, <1>4, UnderKinds
<1>5. ASSUME NEW y \in Ids, Under(s, y), Under(y, x)
      PROVE  \/ KindOf[x] = "province" /\ row[y]["province"] = x
             \/ KindOf[x] = "type" /\ row[y]["type"] = x
  <2>1. KindOf[y] = "district"
    BY <1>4, <1>5
  <2> QED
    BY <1>5, <2>1, UnderKinds
<1>6. ASSUME NEW y \in Ids, NEW w \in Ids, Under(s, y), Under(y, w), Under(w, x)
      PROVE  FALSE
  <2>1. KindOf[y] = "district"
    BY <1>4, <1>6
  <2>2. KindOf[w] \in {"province", "type"}
    BY <1>6, <2>1, UnderKinds
  <2> QED
    BY <1>6, <2>2, UnderKinds
<1> QED
  BY <1>2, <1>3, <1>4, <1>5, <1>6, Chains

\* How a booking can go with x: with a trip or with its dropoff stop.
LEMMA DoomedBookings ==
  ASSUME CatalogueTypeOK, NEW x \in Ids, NEW b \in Doomed(x), KindOf[b] = "booking",
         KindOf[x] # "booking"
  PROVE  \/ row[b]["dropoff"] \in Doomed(x) /\ KindOf[row[b]["dropoff"]] = "stop"
         \/ \E t \in Ids :
              /\ KindOf[t] = "trip" /\ row[t] # Gone /\ row[b]["trip"] = t
              /\ \/ t = x
                 \/ KindOf[x] = "bus" /\ row[t]["bus"] = x
                 \/ KindOf[x] = "route" /\ row[t]["route"] = x
                 \/ \E r \in Ids :
                      /\ KindOf[r] = "route" /\ row[r] # Gone /\ row[t]["route"] = r
                      /\ KindOf[x] = "province" /\ x \in {row[r]["start"], row[r]["end"]}
<1>1. b \in Ids /\ b # x
  BY Chains
<1>2. PICK y \in Ids :
        /\ Under(b, y)
        /\ y = x \/ Under(y, x) \/ \E w \in Ids : Under(y, w) /\ Under(w, x)
  BY <1>1, Chains
<1>3. /\ row[y] # Gone
      /\ \/ KindOf[y] = "trip" /\ row[b]["trip"] = y
         \/ KindOf[y] = "stop" /\ row[b]["dropoff"] = y
  BY <1>1, <1>2, UnderKinds
<1>4. CASE KindOf[y] = "stop" /\ row[b]["dropoff"] = y
  <2>1. y \in Doomed(x)
    BY <1>2, ToChildren DEF Doomed
  <2> QED
    BY <1>4, <2>1
<1>5. CASE KindOf[y] = "trip" /\ row[b]["trip"] = y
  <2>1. CASE y = x
    BY <1>3, <1>5, <2>1
  <2>2. CASE Under(y, x)
    BY <1>3, <1>5, <2>2, UnderKinds
  <2>3. ASSUME NEW w \in Ids, Under(y, w), Under(w, x)
        PROVE  /\ KindOf[w] = "route" /\ row[w] # Gone /\ row[y]["route"] = w
               /\ KindOf[x] = "province" /\ x \in {row[w]["start"], row[w]["end"]}
    <3>1. /\ row[w] # Gone
          /\ \/ KindOf[w] = "bus"
             \/ KindOf[w] = "route" /\ row[y]["route"] = w
      BY <1>5, <2>3, UnderKinds
    <3> QED
      BY <2>3, <3>1, UnderKinds
  <2> QED
    BY <1>2, <1>3, <1>5, <2>1, <2>2, <2>3
<1> QED
  BY <1>3, <1>4, <1>5

\* A stop that goes and that a booking uses is counted.
LEMMA StopsCounted ==
  ASSUME CatalogueTypeOK, NEW x \in Ids, NEW b \in Booked, NEW s \in Doomed(x),
         KindOf[s] = "stop", s \in Stops(b)
  PROVE  ~MayDelete(x)
<1>1. s \in Ids
  BY Chains
<1>2. row[s] # Gone
  <2>1. b \in Ids /\ KindOf[b] = "booking" /\ row[b] # Gone
    BY DEF Booked, Of
  <2>2. {"pickup", "dropoff"} \subseteq Parents[KindOf[b]]
    BY <2>1, ColumnsOf
  <2>3. \A c \in {"pickup", "dropoff"} : row[b][c] \in Allowed(c)
    BY <2>1, <2>2 DEF CatalogueTypeOK, Sound
  <2> QED
    BY <1>1, <2>3, CatalogueAssumption DEF Stops, Allowed
<1>3. Joined("stop", s)
  BY <1>1, <1>2 DEF Joined, Of
<1>4. CASE s = x
  <2>1. b \in StopBookings(x)
    BY <1>4 DEF StopBookings
  <2> QED
    BY <1>4, <2>1 DEF MayDelete
<1>5. CASE KindOf[x] = "district" /\ row[s]["district"] = x
  <2>1. b \in DistrictBookings(x)
    BY <1>3, <1>5 DEF DistrictBookings
  <2> QED
    BY <1>5, <2>1 DEF MayDelete
<1>6. ASSUME NEW d \in Ids, KindOf[d] = "district", row[d] # Gone, row[s]["district"] = d,
             KindOf[x] = "province", row[d]["province"] = x
      PROVE  ~MayDelete(x)
  <2>1. Joined("district", d)
    BY <1>6 DEF Joined, Of
  <2>2. b \in ViaStops(x)
    BY <1>3, <1>6, <2>1 DEF ViaStops
  <2> QED
    BY <1>6, <2>2 DEF MayDelete, ProvinceBookings
<1>7. ASSUME NEW d \in Ids, KindOf[d] = "district", row[d] # Gone, KindOf[x] = "type",
             row[d]["type"] = x
      PROVE  ~MayDelete(x)
  <2>1. d \in DistrictsOfType(x)
    BY <1>7 DEF DistrictsOfType, Of
  <2> QED
    BY <1>7, <2>1 DEF MayDelete
<1> QED
  BY <1>4, <1>5, <1>6, <1>7, DoomedStops

\* A booking that goes with its trip is counted.
LEMMA TripsCounted ==
  ASSUME CatalogueTypeOK, NEW x \in Ids, NEW b \in Booked, NEW t \in Ids,
         KindOf[t] = "trip", row[t] # Gone, row[b]["trip"] = t,
         \/ t = x
         \/ KindOf[x] = "bus" /\ row[t]["bus"] = x
         \/ KindOf[x] = "route" /\ row[t]["route"] = x
         \/ \E r \in Ids :
              /\ KindOf[r] = "route" /\ row[r] # Gone /\ row[t]["route"] = r
              /\ KindOf[x] = "province" /\ x \in {row[r]["start"], row[r]["end"]}
  PROVE  ~MayDelete(x)
<1>1. Joined("trip", t)
  BY DEF Joined, Of
<1>2. CASE t = x
  <2>1. b \in TripBookings(x)
    BY <1>2 DEF TripBookings
  <2> QED
    BY <1>2, <2>1 DEF MayDelete
<1>3. CASE KindOf[x] = "bus" /\ row[t]["bus"] = x
  <2>1. b \in BusBookings(x)
    BY <1>1, <1>3 DEF BusBookings
  <2> QED
    BY <1>3, <2>1 DEF MayDelete
<1>4. CASE KindOf[x] = "route" /\ row[t]["route"] = x
  <2>1. b \in RouteBookings(x)
    BY <1>1, <1>4 DEF RouteBookings
  <2> QED
    BY <1>4, <2>1 DEF MayDelete
<1>5. ASSUME NEW r \in Ids, KindOf[r] = "route", row[r] # Gone, row[t]["route"] = r,
             KindOf[x] = "province", x \in {row[r]["start"], row[r]["end"]}
      PROVE  ~MayDelete(x)
  <2>1. Joined("route", r)
    BY <1>5 DEF Joined, Of
  <2>2. b \in ViaRoutes(x)
    BY <1>1, <1>5, <2>1 DEF ViaRoutes
  <2> QED
    BY <1>5, <2>2 DEF MayDelete, ProvinceBookings
<1> QED
  BY <1>2, <1>3, <1>4, <1>5

LEMMA GuardsCover ==
  ASSUME CatalogueTypeOK, NEW b \in Booked, NEW x \in Ids, KindOf[x] # "booking",
         b \in Touched(x)
  PROVE  ~MayDelete(x)
<1>1. b \in Ids /\ KindOf[b] = "booking" /\ row[b] # Gone
  BY DEF Booked, Of
<1>2. CASE b \in Doomed(x)
  <2>1. CASE row[b]["dropoff"] \in Doomed(x) /\ KindOf[row[b]["dropoff"]] = "stop"
    BY <2>1, StopsCounted DEF Stops
  <2>2. CASE ~(row[b]["dropoff"] \in Doomed(x) /\ KindOf[row[b]["dropoff"]] = "stop")
    BY <1>1, <1>2, <2>2, DoomedBookings, TripsCounted
  <2> QED
    BY <2>1, <2>2
<1>3. CASE row[b]["pickup"] \in Doomed(x)
  <2>1. row[b]["pickup"] \in Ids
    BY <1>3, Chains
  <2>2. row[b]["pickup"] \in Allowed("pickup")
    <3>1. "pickup" \in Parents[KindOf[b]]
      BY <1>1, ColumnsOf
    <3> QED
      BY <1>1, <3>1 DEF CatalogueTypeOK, Sound
  <2>3. KindOf[row[b]["pickup"]] = "stop"
    BY <2>1, <2>2, TablesOf, CatalogueAssumption DEF Allowed, Of
  <2> QED
    BY <1>3, <2>3, StopsCounted DEF Stops
<1> QED
  BY <1>2, <1>3 DEF Touched

-----------------------------------------------------------------------------
(* Foreign keys hold.                                                      *)

LEMMA SoundRefs ==
  ASSUME NEW x \in Ids, NEW r, Sound(r, x)
  PROVE  r \in Refs(x) /\ r \in AnyRefs /\ r # Gone
BY CatalogueAssumption DEF Sound, AnyRefs

LEMMA ChoicesSound ==
  ASSUME NEW x \in Ids, NEW r \in RefChoices(x)
  PROVE  Sound(r, x)
<1> DEFINE cols == Parents[KindOf[x]]
<1>1. r \in [cols -> UNION {Allowed(c) : c \in cols}] /\ \A c \in cols : r[c] \in Allowed(c)
  BY DEF RefChoices
<1>2. \A c \in cols : Allowed(c) \subseteq Ids \cup {Null}
  BY DEF Allowed, Of
<1> QED
  BY <1>1, <1>2 DEF Sound, Refs

\* One row is written, with columns that are sound, and no row goes.
LEMMA RowWritten ==
  ASSUME CatalogueTypeOK, NEW x \in Ids, NEW r, Sound(r, x),
         row' = [row EXCEPT ![x] = r], used' = used \cup {x},
         task' \in [Clerks -> Task \cup {Gone}]
  PROVE  CatalogueTypeOK'
<1>1. r \in AnyRefs /\ r # Gone
  BY SoundRefs
<1>2. row' \in [Ids -> AnyRefs \cup {Gone}] /\ used' \in SUBSET Ids
  BY <1>1 DEF CatalogueTypeOK
<1>3. /\ row'[x] = r
      /\ \A y \in Ids : y # x => row'[y] = row[y]
  BY DEF CatalogueTypeOK
<1>4. ASSUME NEW c
      PROVE  Allowed(c) \subseteq Allowed(c)'
  BY <1>1, <1>3 DEF Allowed, Of
<1>5. ASSUME NEW y \in Ids, row'[y] # Gone
      PROVE  y \in used' /\ Sound(row[y], y)'
  <2>1. CASE y = x
    BY <1>3, <1>4, <2>1 DEF Sound, Refs
  <2>2. CASE y # x
    BY <1>3, <1>4, <1>5, <2>2 DEF CatalogueTypeOK, Sound, Refs
  <2> QED
    BY <2>1, <2>2
<1> QED
  BY <1>2, <1>5 DEF CatalogueTypeOK

LEMMA TaskWritten ==
  ASSUME CatalogueTypeOK, row' = row, used' = used, task' \in [Clerks -> Task \cup {Gone}]
  PROVE  CatalogueTypeOK'
BY DEF CatalogueTypeOK, Sound, Refs, Allowed, Of

\* A cascade leaves rows whose columns still hold rows: what was under a row
\* that went, went too, and a pickup is null.
LEMMA CascadeSound ==
  ASSUME CatalogueTypeOK, NEW x \in Ids, row[x] # Gone, row' = Cascade(x), used' = used,
         task' \in [Clerks -> Task \cup {Gone}]
  PROVE  CatalogueTypeOK'
<1> DEFINE D == Doomed(x)
<1>1. /\ \A y \in Ids : row[y] = Gone \/ y \in D => row'[y] = Gone
      /\ \A y \in Ids : row[y] # Gone /\ y \notin D =>
           row'[y] = [c \in DOMAIN row[y] |-> IF row[y][c] \in D THEN Null ELSE row[y][c]]
      /\ DOMAIN row' = Ids /\ row' = [y \in Ids |-> row'[y]]
  BY DEF Cascade
<1> HIDE DEF D
<1>2. ASSUME NEW y \in Ids, row[y] # Gone, y \notin D
      PROVE  Sound(row[y], y)'
  <2> DEFINE cols == Parents[KindOf[y]]
  <2>1. row[y] \in [cols -> Ids \cup {Null}] /\ \A c \in cols : row[y][c] \in Allowed(c)
    BY <1>2 DEF CatalogueTypeOK, Sound, Refs
  <2>2. row'[y] = [c \in cols |-> IF row[y][c] \in D THEN Null ELSE row[y][c]]
    BY <1>1, <1>2, <2>1
  <2>3. row'[y] \in [cols -> Ids \cup {Null}]
    BY <2>1, <2>2
  <2>4. ASSUME NEW c \in cols
        PROVE  row'[y][c] \in Allowed(c)'
    <3>1. row[y][c] \in Allowed(c)
      BY <2>1
    <3>2. CASE row[y][c] \notin D
      <4>1. row'[y][c] = row[y][c]
        BY <2>2, <3>2
      <4>2. CASE row[y][c] \in Ids /\ row[row[y][c]] # Gone
        <5>1. row'[row[y][c]] # Gone
          <6> DEFINE z == row[y][c]
          <6>1. Sound(row[z], z)
            BY <4>2 DEF CatalogueTypeOK
          <6>2. row[z] \in [Parents[KindOf[z]] -> Ids \cup {Null}]
            BY <6>1 DEF Sound, Refs
          <6>3. row'[z] = [d \in Parents[KindOf[z]] |-> IF row[z][d] \in D THEN Null ELSE row[z][d]]
            BY <1>1, <3>2, <4>2, <6>2
          <6>4. row'[z] \in Refs(z)
            BY <6>2, <6>3 DEF Refs
          <6> QED
            BY <4>2, <6>4, CatalogueAssumption DEF AnyRefs
        <5> QED
          BY <3>1, <4>1, <4>2, <5>1 DEF Allowed
      <4>3. CASE ~(row[y][c] \in Ids /\ row[row[y][c]] # Gone)
        BY <3>1, <4>1, <4>3 DEF Allowed, Of
      <4> QED
        BY <4>2, <4>3
    <3>3. CASE row[y][c] \in D
      <4>1. c = "pickup"
        <5> SUFFICES ASSUME c # "pickup"
                     PROVE  FALSE
          OBVIOUS
        <5>1. Under(y, row[y][c])
          BY <1>2 DEF Under
        <5> QED
          BY <1>2, <3>3, <5>1, CascadeCloses DEF D
      <4>2. row'[y][c] = Null
        BY <2>2, <3>3
      <4> QED
        BY <4>1, <4>2 DEF Allowed
    <3> QED
      BY <3>2, <3>3
  <2> QED
    BY <2>3, <2>4 DEF Sound, Refs
<1>3. ASSUME NEW y \in Ids
      PROVE  row'[y] \in AnyRefs \cup {Gone}
  <2>1. CASE row[y] = Gone \/ y \in D
    BY <1>1, <2>1
  <2>2. CASE ~(row[y] = Gone \/ y \in D)
    <3>1. row'[y] \in Refs(y)
      BY <1>2, <2>2 DEF Sound, Refs
    <3> QED
      BY <3>1 DEF AnyRefs
  <2> QED
    BY <2>1, <2>2
<1>4. row' \in [Ids -> AnyRefs \cup {Gone}]
  BY <1>1, <1>3
<1>5. \A y \in Ids : row'[y] # Gone => y \in used' /\ Sound(row[y], y)'
  BY <1>1, <1>2 DEF CatalogueTypeOK
<1>6. used' \in SUBSET Ids
  BY DEF CatalogueTypeOK
<1> QED
  BY <1>4, <1>5, <1>6 DEF CatalogueTypeOK

LEMMA ClerkStepType ==
  ASSUME CatalogueTypeOK, NEW k \in Clerks, ClerkStep(k)
  PROVE  CatalogueTypeOK'
<1>1. ASSUME NEW kind, NEW x \in Ids, BeginDelete(kind, k, x)
      PROVE  CatalogueTypeOK'
  <2>1. [op |-> "delete", id |-> x] \in Task
    BY DEF Task
  <2>2. task' \in [Clerks -> Task \cup {Gone}]
    BY <1>1, <2>1 DEF BeginDelete, CatalogueTypeOK
  <2> QED
    BY <1>1, <2>2, TaskWritten DEF BeginDelete
<1>2. ASSUME NEW b \in Of("booking"), BeginBook(k, b)
      PROVE  CatalogueTypeOK'
  <2>0. b \in Ids
    BY DEF Of
  <2>1. PICK r \in RefChoices(b) :
          task' = [task EXCEPT ![k] = [op |-> "book", id |-> b, refs |-> r]]
    BY <1>2 DEF BeginBook
  <2>2. r \in AnyRefs
    BY <2>0, ChoicesSound, SoundRefs
  <2>3. [op |-> "book", id |-> b, refs |-> r] \in Task
    BY <2>0, <2>2 DEF Task
  <2>4. task' \in [Clerks -> Task \cup {Gone}]
    BY <2>1, <2>3 DEF CatalogueTypeOK
  <2> QED
    BY <1>2, <2>4, TaskWritten DEF BeginBook
<1>3. CASE CommitDelete(k)
  <2>1. task[k].id \in Ids /\ task' \in [Clerks -> Task \cup {Gone}]
    BY <1>3 DEF CommitDelete, CatalogueTypeOK, Task
  <2> QED
    BY <1>3, <2>1, TaskWritten, CascadeSound DEF CommitDelete
<1>4. CASE CommitBook(k)
  <2>1. task[k].id \in Ids /\ task' \in [Clerks -> Task \cup {Gone}]
    BY <1>4 DEF CommitBook, CatalogueTypeOK, Task
  <2> QED
    BY <1>4, <2>1, RowWritten DEF CommitBook
<1>5. CASE GiveUpTask(k)
  <2>1. task' \in [Clerks -> Task \cup {Gone}]
    BY <1>5 DEF GiveUpTask, CatalogueTypeOK
  <2> QED
    BY <1>5, <2>1, TaskWritten DEF GiveUpTask
<1> QED
  BY <1>1, <1>2, <1>3, <1>4, <1>5
     DEF ClerkStep, DeleteProvince, DeleteDistrictType, DeleteDistrict, DeleteStop, DeleteRoute,
         DeleteRouteStop, DeleteBus, DeleteTrip

LEMMA OfficeStepType ==
  ASSUME CatalogueTypeOK, NEW x \in Ids, OfficeStep(x) \/ (x \in Booked /\ EditStops(x))
  PROVE  CatalogueTypeOK'
<1>0. task \in [Clerks -> Task \cup {Gone}] /\ (row[x] # Gone => used = used \cup {x})
  BY DEF CatalogueTypeOK
<1>1. ASSUME NEW kind, Insert(kind, x)
      PROVE  CatalogueTypeOK'
  BY <1>0, <1>1, ChoicesSound, RowWritten DEF Insert
<1>2. ASSUME NEW kind, Update(kind, x)
      PROVE  CatalogueTypeOK'
  BY <1>0, <1>2, ChoicesSound, RowWritten DEF Update
<1>3. CASE x \in Booked /\ EditStops(x)
  BY <1>0, <1>3, ChoicesSound, RowWritten DEF EditStops, Booked
<1> QED
  BY <1>1, <1>2, <1>3
     DEF OfficeStep, CreateProvince, CreateDistrictType, CreateDistrict, CreateStop, CreateRoute,
         CreateRouteStop, CreateBus, CreateTrip, UpdateDistrict, UpdateStop, UpdateRoute,
         UpdateRouteStop, UpdateTrip

\* Foreign keys hold at any time, whatever the cascades of concurrent deletes
\* take along.
THEOREM CatalogueTypes == CatalogueSpec => []CatalogueTypeOK
<1>1. CatalogueInit => CatalogueTypeOK
  BY SeedsAssumption DEF CatalogueInit, CatalogueTypeOK, Sound, Allowed
<1>2. ASSUME CatalogueTypeOK, [CatalogueNext]_catalogueVars
      PROVE  CatalogueTypeOK'
  <2>1. ASSUME NEW b \in Booked, EditStops(b)
        PROVE  CatalogueTypeOK'
    <3>1. b \in Ids
      BY DEF Booked, Of
    <3> QED
      BY <1>2, <2>1, <3>1, OfficeStepType
  <2>2. CASE UNCHANGED catalogueVars
    BY <1>2, <2>2, TaskWritten DEF catalogueVars, CatalogueTypeOK
  <2> QED
    BY <1>2, <2>1, <2>2, ClerkStepType, OfficeStepType DEF CatalogueNext
<1>3. CatalogueTypeOK /\ [CatalogueNext]_catalogueVars => CatalogueTypeOK'
  BY <1>2
<1> QED
  BY <1>1, <1>3, PTL DEF CatalogueSpec

-----------------------------------------------------------------------------
(* What a delete may cost.                                                 *)

\* Nobody deletes bookings, and a booking to come has an id of its own.
TasksSound == \A k \in Clerks : task[k] # Gone =>
  /\ task[k].op = "delete" => KindOf[task[k].id] # "booking"
  /\ task[k].op = "book" =>
       /\ KindOf[task[k].id] = "booking" /\ task[k].id \notin used
       /\ \A j \in Clerks \ {k} : task[j] # Gone => task[j].id # task[k].id

\* A clerk takes a task of this kind.
LEMMA TaskBegun ==
  ASSUME CatalogueTypeOK, TasksSound, NEW k \in Clerks, NEW t, used' = used,
         task' = [task EXCEPT ![k] = t],
         \/ t.op = "delete" /\ KindOf[t.id] # "booking"
         \/ /\ t.op = "book" /\ KindOf[t.id] = "booking" /\ t.id \notin used
            /\ \A j \in Clerks : task[j] # Gone => task[j].id # t.id
  PROVE  TasksSound'
<1>1. task'[k] = t /\ \A j \in Clerks : j # k => task'[j] = task[j]
  BY DEF CatalogueTypeOK
<1> SUFFICES ASSUME NEW j \in Clerks, task'[j] # Gone
             PROVE  /\ task'[j].op = "delete" => KindOf[task'[j].id] # "booking"
                    /\ task'[j].op = "book" =>
                         /\ KindOf[task'[j].id] = "booking" /\ task'[j].id \notin used
                         /\ \A i \in Clerks \ {j} : task'[i] # Gone => task'[i].id # task'[j].id
  BY DEF TasksSound
<1>2. CASE j = k
  BY <1>1, <1>2
<1>3. CASE j # k
  BY <1>1, <1>3 DEF TasksSound
<1> QED
  BY <1>2, <1>3

\* A clerk is done, with no booking or with the one the clerk was at.
LEMMA TaskEnded ==
  ASSUME CatalogueTypeOK, TasksSound, NEW k \in Clerks, task[k] # Gone,
         task' = [task EXCEPT ![k] = Gone],
         used' = used \/ (task[k].op = "book" /\ used' = used \cup {task[k].id})
  PROVE  TasksSound'
<1>1. task'[k] = Gone /\ \A j \in Clerks : j # k => task'[j] = task[j]
  BY DEF CatalogueTypeOK
<1> QED
  BY <1>1 DEF TasksSound

LEMMA TasksStep ==
  ASSUME CatalogueTypeOK, TasksSound, [CatalogueNext]_catalogueVars
  PROVE  TasksSound'
<1>1. ASSUME NEW kind, kind # "booking", NEW k \in Clerks, NEW x \in Ids, BeginDelete(kind, k, x)
      PROVE  TasksSound'
  <2> DEFINE t == [op |-> "delete", id |-> x]
  <2>1. t.op = "delete" /\ t.id = x /\ KindOf[x] # "booking"
    BY <1>1 DEF BeginDelete
  <2>2. task' = [task EXCEPT ![k] = t] /\ used' = used
    BY <1>1 DEF BeginDelete
  <2> HIDE DEF t
  <2> QED
    BY <2>1, <2>2, TaskBegun
<1>2. ASSUME NEW k \in Clerks, NEW b \in Of("booking"), BeginBook(k, b)
      PROVE  TasksSound'
  <2>1. PICK r : task' = [task EXCEPT ![k] = [op |-> "book", id |-> b, refs |-> r]]
    BY <1>2 DEF BeginBook
  <2> DEFINE t == [op |-> "book", id |-> b, refs |-> r]
  <2>2. t.op = "book" /\ t.id = b /\ KindOf[b] = "booking"
    BY DEF Of
  <2>3. /\ used' = used /\ b \notin used
        /\ \A j \in Clerks : task[j] # Gone => task[j].id # b
        /\ task' = [task EXCEPT ![k] = t]
    BY <1>2, <2>1 DEF BeginBook
  <2> HIDE DEF t
  <2> QED
    BY <2>2, <2>3, TaskBegun
<1>3. ASSUME NEW k \in Clerks, CommitDelete(k) \/ CommitBook(k) \/ GiveUpTask(k)
      PROVE  TasksSound'
  BY <1>3, TaskEnded DEF CommitDelete, CommitBook, GiveUpTask
<1>4. ASSUME NEW kind, kind # "booking", NEW x \in Ids, Insert(kind, x)
      PROVE  TasksSound'
  BY <1>4 DEF Insert, TasksSound
<1>5. ASSUME used' = used, task' = task
      PROVE  TasksSound'
  BY <1>5 DEF TasksSound
<1>6. ASSUME NEW k \in Clerks, ClerkStep(k)
      PROVE  TasksSound'
  BY <1>1, <1>2, <1>3, <1>6
     DEF ClerkStep, DeleteProvince, DeleteDistrictType, DeleteDistrict, DeleteStop, DeleteRoute,
         DeleteRouteStop, DeleteBus, DeleteTrip
<1>7. ASSUME NEW x \in Ids, OfficeStep(x)
      PROVE  TasksSound'
  BY <1>4, <1>5, <1>7
     DEF OfficeStep, CreateProvince, CreateDistrictType, CreateDistrict, CreateStop, CreateRoute,
         CreateRouteStop, CreateBus, CreateTrip, UpdateDistrict, UpdateStop, UpdateRoute,
         UpdateRouteStop, UpdateTrip, Update
<1> QED
  BY <1>5, <1>6, <1>7 DEF CatalogueNext, EditStops, catalogueVars

\* A booking that a cascade changes is one it reaches.
LEMMA CascadeTouches ==
  ASSUME CatalogueTypeOK, NEW x \in Ids, NEW b \in Booked, row' = Cascade(x),
         row'[b] = Gone \/ (row[b]["pickup"] # Null /\ row'[b]["pickup"] = Null)
  PROVE  b \in Touched(x)
<1>1. b \in Ids /\ KindOf[b] = "booking" /\ row[b] # Gone
  BY DEF Booked, Of
<1>2. row[b] \in [Parents[KindOf[b]] -> Ids \cup {Null}] /\ "pickup" \in Parents[KindOf[b]]
  BY <1>1, ColumnsOf DEF CatalogueTypeOK, Sound, Refs
<1> DEFINE D == Doomed(x)
<1> SUFFICES ASSUME b \notin D, row[b]["pickup"] \notin D
             PROVE  FALSE
  BY DEF Touched
<1>3. row'[b] = [c \in DOMAIN row[b] |-> IF row[b][c] \in D THEN Null ELSE row[b][c]]
  BY <1>1 DEF Cascade
<1> HIDE DEF D
<1>4. row'[b]["pickup"] = row[b]["pickup"]
  BY <1>2, <1>3
<1>5. row'[b] \in [Parents[KindOf[b]] -> Ids \cup {Null}]
  BY <1>2, <1>3
<1>6. row'[b] # Gone
  BY <1>1, <1>5, CatalogueAssumption DEF AnyRefs, Refs
<1> QED
  BY <1>4, <1>6

\* A booking is lost to a delete only when its guard would refuse it by then,
\* for any tables and any number of clerks (delete_guards.py:48-146).
THEOREM GuardsCountAll == CatalogueSpec => LostInBetween
<1>1. CatalogueInit => TasksSound
  BY DEF CatalogueInit, TasksSound
<1>2. CatalogueTypeOK /\ TasksSound /\ [CatalogueNext]_catalogueVars => TasksSound'
  BY TasksStep
<1> DEFINE Known == \A b \in Booked :
             (row'[b] = Gone \/ (row[b]["pickup"] # Null /\ row'[b]["pickup"] = Null)) =>
               \/ EditStops(b)
               \/ \E k \in Clerks : CommitDelete(k) /\ ~MayDelete(task[k].id)
<1>3. ASSUME CatalogueTypeOK, TasksSound, [CatalogueNext]_catalogueVars
      PROVE  Known \/ UNCHANGED catalogueVars
  <2> SUFFICES ASSUME CatalogueNext, NEW b \in Booked,
                      row'[b] = Gone \/ (row[b]["pickup"] # Null /\ row'[b]["pickup"] = Null)
               PROVE  EditStops(b) \/ \E k \in Clerks : CommitDelete(k) /\ ~MayDelete(task[k].id)
    BY <1>3
  <2>1. b \in Ids /\ KindOf[b] = "booking" /\ row[b] # Gone /\ b \in used
    BY <1>3 DEF Booked, Of, CatalogueTypeOK
  <2>2. row'[b] # row[b]
    BY <2>1
  <2>3. ASSUME NEW x \in Ids, x # b, NEW r, row' = [row EXCEPT ![x] = r]
        PROVE  FALSE
    BY <1>3, <2>1, <2>2, <2>3 DEF CatalogueTypeOK
  <2>4. ASSUME NEW x \in Ids, OfficeStep(x)
        PROVE  FALSE
    <3>1. ASSUME NEW kind, kind # "booking", Insert(kind, x) \/ Update(kind, x)
          PROVE  FALSE
      <4>1. x # b
        BY <2>1, <3>1 DEF Insert, Update
      <4> QED
        BY <2>3, <3>1, <4>1 DEF Insert, Update
    <3> QED
      BY <2>4, <3>1
         DEF OfficeStep, CreateProvince, CreateDistrictType, CreateDistrict, CreateStop,
             CreateRoute, CreateRouteStop, CreateBus, CreateTrip, UpdateDistrict, UpdateStop,
             UpdateRoute, UpdateRouteStop, UpdateTrip
  <2>5. ASSUME NEW k \in Clerks, ClerkStep(k), ~CommitDelete(k)
        PROVE  FALSE
    <3>1. CASE CommitBook(k)
      <4>1. task[k].id # b /\ task[k].id \in Ids
        BY <1>3, <2>1, <3>1 DEF CommitBook, TasksSound, CatalogueTypeOK, Task
      <4> QED
        BY <2>3, <3>1, <4>1 DEF CommitBook
    <3>2. CASE ~CommitBook(k)
      BY <2>2, <2>5, <3>2
         DEF ClerkStep, DeleteProvince, DeleteDistrictType, DeleteDistrict, DeleteStop,
             DeleteRoute, DeleteRouteStop, DeleteBus, DeleteTrip, BeginDelete, BeginBook,
             GiveUpTask
    <3> QED
      BY <3>1, <3>2
  <2>6. ASSUME NEW k \in Clerks, CommitDelete(k)
        PROVE  ~MayDelete(task[k].id)
    <3>1. task[k].id \in Ids /\ KindOf[task[k].id] # "booking"
      BY <1>3, <2>6 DEF CommitDelete, TasksSound, CatalogueTypeOK, Task
    <3>2. row' = Cascade(task[k].id)
      BY <2>2, <2>6 DEF CommitDelete
    <3>3. b \in Touched(task[k].id)
      BY <1>3, <3>1, <3>2, CascadeTouches
    <3> QED
      BY <1>3, <3>1, <3>3, GuardsCover
  <2>7. ASSUME NEW c \in Booked, EditStops(c), c # b
        PROVE  FALSE
    <3>1. c \in Ids
      BY DEF Booked, Of
    <3> QED
      BY <2>3, <2>7, <3>1 DEF EditStops
  <2> QED
    BY <2>4, <2>5, <2>6, <2>7 DEF CatalogueNext
<1>4. CatalogueTypeOK /\ TasksSound /\ [CatalogueNext]_catalogueVars => [Known]_catalogueVars
  BY <1>3
<1>5. LostInBetween <=> [][Known]_catalogueVars
  BY DEF LostInBetween
<1> QED
  BY <1>1, <1>2, <1>4, <1>5, CatalogueTypes, PTL DEF CatalogueSpec

-----------------------------------------------------------------------------
(* The inductive invariant.                                                *)

\* What a request has written it holds, so nobody else wrote it since.
Placed(e, k) == LET i == job[e].ids[k] IN Lives(i) =>
  /\ held[i] = e
  /\ prio[i] = IF InScope(i, job[e].scope) THEN PrioAt(e, k) ELSE job[e].before[i]

JobSound(e) == job[e] # Nil =>
  /\ job[e].done <= Len(job[e].ids)
  /\ \A k, l \in 1..Len(job[e].ids) : k # l => job[e].ids[k] # job[e].ids[l]
  /\ \A k \in 1..Len(job[e].ids) : home[job[e].ids[k]] # Unborn
  /\ \A k \in 1..job[e].done : Placed(e, k)

ReorderInv ==
  /\ ReorderTypeOK
  /\ \A i \in Items : held[i] # Nil => job[held[i]] # Nil /\ Lives(i)
  /\ \A e \in Editors : JobSound(e)

-----------------------------------------------------------------------------
(* Requests that do not move.                                              *)

\* A step that leaves the request and the rows it holds alone, brings no row
\* back and takes none to before its birth, keeps the request sound.
LEMMA OthersSound ==
  ASSUME ReorderInv, NEW e \in Editors, job'[e] = job[e],
         \A i \in Items : held[i] = e =>
           held'[i] = e /\ prio'[i] = prio[i] /\ home'[i] = home[i],
         \A i \in Items : home[i] # Unborn =>
           home'[i] # Unborn /\ (home'[i] \in Scopes => home[i] \in Scopes)
  PROVE  JobSound(e)'
<1> SUFFICES ASSUME job[e] # Nil
             PROVE  JobSound(e)'
  BY DEF JobSound
<1>1. job[e] \in Job /\ JobSound(e)
  BY DEF ReorderInv, ReorderTypeOK
<1>2. job[e].ids \in Seq(Items) /\ job[e].done \in Nat
  BY <1>1 DEF Job
<1>3. \A k \in 1..Len(job[e].ids) : job[e].ids[k] \in Items
  BY <1>2
<1>4. \A k \in 1..Len(job[e].ids) : home'[job[e].ids[k]] # Unborn
  BY <1>1, <1>3 DEF JobSound
<1>5. ASSUME NEW k \in 1..job[e].done
      PROVE  Placed(e, k)'
  <2> DEFINE i == job[e].ids[k]
  <2>1. k \in 1..Len(job[e].ids)
    BY <1>1, <1>2 DEF JobSound
  <2>2. i \in Items /\ home[i] # Unborn /\ Placed(e, k)
    BY <1>1, <1>3, <2>1 DEF JobSound
  <2>3. CASE Lives(i)'
    <3>1. Lives(i)
      BY <2>2, <2>3 DEF Lives
    <3>2. held[i] = e
      BY <2>2, <3>1 DEF Placed
    <3>3. held'[i] = e /\ prio'[i] = prio[i] /\ home'[i] = home[i]
      BY <2>2, <3>2
    <3> QED
      BY <2>2, <3>1, <3>3 DEF Placed, InScope, Lives, PrioAt
  <2>4. CASE ~Lives(i)'
    BY <2>4 DEF Placed
  <2> QED
    BY <2>3, <2>4
<1> QED
  BY <1>1, <1>4, <1>5 DEF JobSound

-----------------------------------------------------------------------------
(* The requests that reorder.                                              *)

LEMMA BeginSound ==
  ASSUME ReorderInv, NEW e \in Editors, NEW g \in Scopes \cup {Whole}, BeginReorder(e, g)
  PROVE  ReorderInv'
<1> DEFINE S == {i \in Items : InScope(i, g)}
<1>1. PICK ids \in SetToSeqs(S) :
        job' = [job EXCEPT ![e] =
          [ids |-> ids, scope |-> g, done |-> 0, before |-> [i \in Items |-> 0]]]
  BY DEF BeginReorder
<1>2. Cardinality(S) \in Nat
  BY ReorderAssumption, FS_Subset, FS_CardinalityType
<1>3. /\ ids \in Seq(Items) /\ Len(ids) = Cardinality(S)
      /\ \A k, l \in 1..Len(ids) : k # l => ids[k] # ids[l]
      /\ \A k \in 1..Len(ids) : ids[k] \in S
  <2>1. /\ ids \in [1..Cardinality(S) -> S]
        /\ \A k, l \in 1..Cardinality(S) : k # l => ids[k] # ids[l]
    BY DEF SetToSeqs
  <2>2. ids \in Seq(S) /\ Len(ids) = Cardinality(S)
    BY <1>2, <2>1
  <2>3. ids \in Seq(Items)
    BY <2>2
  <2> QED
    BY <2>1, <2>2, <2>3
<1> DEFINE j == [ids |-> ids, scope |-> g, done |-> 0, before |-> [i \in Items |-> 0]]
<1>4. j \in Job
  BY <1>3 DEF Job
<1>5. j # Nil
  BY <1>4, ReorderAssumption
<1>6. job[e] = Nil /\ home' = home /\ prio' = prio /\ held' = held
  BY DEF BeginReorder
<1>7. job' = [job EXCEPT ![e] = j] /\ job'[e] = j
  BY <1>1 DEF ReorderInv, ReorderTypeOK
<1>8. ReorderTypeOK'
  BY <1>4, <1>6, <1>7 DEF ReorderInv, ReorderTypeOK
<1>9. \A i \in Items : held'[i] # Nil => job'[held'[i]] # Nil /\ Lives(i)'
  BY <1>5, <1>6, <1>7 DEF ReorderInv, ReorderTypeOK, Lives
<1>10. JobSound(e)'
  <2>1. j.done = 0 /\ j.ids = ids
    OBVIOUS
  <2>2. \A k \in 1..Len(ids) : home[ids[k]] # Unborn
    BY <1>3, ReorderAssumption DEF InScope, Lives
  <2> HIDE DEF j, S
  <2> QED
    BY <1>2, <1>3, <1>6, <1>7, <2>1, <2>2 DEF JobSound
<1>11. ASSUME NEW f \in Editors, f # e
       PROVE  JobSound(f)'
  BY <1>6, <1>7, <1>11, OthersSound
<1> QED
  BY <1>8, <1>9, <1>10, <1>11 DEF ReorderInv

LEMMA UpdateSound ==
  ASSUME ReorderInv, NEW e \in Editors, UpdateNext(e)
  PROVE  ReorderInv'
<1>1. job[e] \in Job /\ JobSound(e) /\ job[e] # Nil /\ job[e].done < Len(job[e].ids)
  BY DEF UpdateNext, ReorderInv, ReorderTypeOK
<1>2. /\ job[e].ids \in Seq(Items) /\ job[e].done \in Nat /\ job[e].scope \in Scopes \cup {Whole}
      /\ job[e].before \in [Items -> Int]
  BY <1>1 DEF Job
<1>i. NextId(e) \in Items
  <2> PICK ids \in Seq(Items), n \in Nat : ids = job[e].ids /\ n = job[e].done
    BY <1>2
  <2>1. n + 1 \in 1..Len(ids)
    BY <1>1
  <2>2. ids[n + 1] \in Items
    BY <2>1
  <2>3. QED
    BY <2>2 DEF NextId
<1>0. PICK d \in Nat, x \in Items : d = job[e].done /\ x = NextId(e)
  BY <1>2, <1>i
<1>3. x = job[e].ids[d + 1] /\ d + 1 \in 1..Len(job[e].ids)
  BY <1>0, <1>1, <1>2 DEF NextId
<1> DEFINE j == [job[e] EXCEPT !.done = d + 1, !.before = [job[e].before EXCEPT ![x] = prio[x]]]
<1>4. held[x] \in {Nil, e} /\ home' = home
  BY <1>0 DEF UpdateNext
<1>5. /\ prio \in [Items -> Int] /\ held \in [Items -> Editors \cup {Nil}]
      /\ job \in [Editors -> Job \cup {Nil}]
  BY DEF ReorderInv, ReorderTypeOK
<1>6. /\ prio' = [prio EXCEPT ![x] = IF InScope(x, job[e].scope) THEN PrioAt(e, d + 1) ELSE prio[x]]
      /\ held' = [held EXCEPT ![x] = IF Lives(x) THEN e ELSE held[x]]
  BY <1>0, <1>5 DEF UpdateNext
<1>7. job' = [job EXCEPT ![e] = j]
  BY <1>0, <1>5 DEF UpdateNext
<1>8. /\ j \in Job /\ j.ids = job[e].ids /\ j.scope = job[e].scope /\ j.done = d + 1
      /\ j.before = [job[e].before EXCEPT ![x] = prio[x]]
  <2>1. [job[e].before EXCEPT ![x] = prio[x]] \in [Items -> Int]
    BY <1>2, <1>3, <1>5
  <2>2. d + 1 \in Nat
    OBVIOUS
  <2>3. PICK w \in [Items -> Int] : w = [job[e].before EXCEPT ![x] = prio[x]]
    BY <2>1
  <2>4. PICK a \in Job : a = job[e]
    BY <1>1
  <2>5. j = [a EXCEPT !.done = d + 1, !.before = w]
    BY <2>3, <2>4
  <2> HIDE DEF j
  <2>6. j \in Job /\ j.ids = a.ids /\ j.scope = a.scope /\ j.done = d + 1 /\ j.before = w
    BY <2>2, <2>5 DEF Job
  <2> QED
    BY <2>3, <2>4, <2>6
<1> HIDE DEF j
<1>9. job'[e] = j /\ j # Nil /\ \A f \in Editors : f # e => job'[f] = job[f]
  BY <1>5, <1>7, <1>8, ReorderAssumption
<1>10. /\ prio'[x] = (IF InScope(x, job[e].scope) THEN PrioAt(e, d + 1) ELSE prio[x])
       /\ Lives(x) => held'[x] = e
       /\ ~Lives(x) => held'[x] = held[x]
       /\ \A i \in Items : i # x => prio'[i] = prio[i] /\ held'[i] = held[i]
       /\ held'[x] \in {Nil, e}
  BY <1>3, <1>4, <1>5, <1>6
<1>11. ReorderTypeOK'
  <2>1. PrioAt(e, d + 1) \in Nat
    <3>1. Len(job[e].ids) \in Nat /\ d + 1 <= Len(job[e].ids)
      BY <1>2, <1>3
    <3> QED
      BY <1>0, <3>1 DEF PrioAt
  <2>2. prio' \in [Items -> Int]
    BY <1>5, <1>6, <2>1, <1>3
  <2>3. held' \in [Items -> Editors \cup {Nil}]
    BY <1>5, <1>6
  <2>4. job' \in [Editors -> Job \cup {Nil}]
    BY <1>5, <1>7, <1>8
  <2> QED
    BY <1>4, <2>2, <2>3, <2>4 DEF ReorderInv, ReorderTypeOK
<1>12. \A i \in Items : held'[i] # Nil => job'[held'[i]] # Nil /\ Lives(i)'
  BY <1>4, <1>5, <1>9, <1>10 DEF ReorderInv, Lives
<1>13. JobSound(e)'
  <2>1. /\ \A k, l \in 1..Len(j.ids) : k # l => j.ids[k] # j.ids[l]
        /\ \A k \in 1..Len(j.ids) : home'[j.ids[k]] # Unborn
        /\ j.done <= Len(j.ids)
    <3>1. Len(job[e].ids) \in Nat /\ d + 1 <= Len(job[e].ids)
      BY <1>2, <1>3
    <3> QED
      BY <1>1, <1>4, <1>8, <3>1 DEF JobSound
  <2>2. ASSUME NEW k \in 1..j.done
        PROVE  Placed(e, k)'
    <3> DEFINE i == job[e].ids[k]
    <3>1. k \in 1..Len(job[e].ids) /\ i \in Items /\ k \in Nat
      BY <1>2, <1>8, <2>1
    <3>2. CASE k = d + 1
      <4>1. i = x /\ j.before[x] = prio[x]
        BY <1>2, <1>3, <1>8, <3>2
      <4>2. job'[e].ids[k] = x /\ job'[e].before[x] = prio[x] /\ job'[e].scope = job[e].scope
        BY <1>8, <1>9, <4>1
      <4>3. PrioAt(e, k)' = PrioAt(e, d + 1)
        BY <1>8, <1>9, <3>2 DEF PrioAt
      <4>4. InScope(x, job[e].scope) <=> InScope(x, job[e].scope)'
        BY <1>4, <4>2 DEF InScope, Lives
      <4>5. Lives(x)' => held'[x] = e
        BY <1>4, <1>10 DEF Lives
      <4> QED
        BY <1>10, <4>2, <4>3, <4>4, <4>5 DEF Placed
    <3>3. CASE k # d + 1
      <4>1. k \in 1..d
        BY <1>2, <1>8, <3>1, <3>3
      <4>2. Placed(e, k) /\ i # x
        BY <1>0, <1>1, <1>3, <3>1, <3>3, <4>1 DEF JobSound
      <4>3. j.before[i] = job[e].before[i]
        BY <1>2, <1>8, <3>1, <4>2
      <4> QED
        BY <1>4, <1>8, <1>9, <1>10, <3>1, <4>2, <4>3 DEF Placed, InScope, Lives, PrioAt
    <3> QED
      BY <3>2, <3>3
  <2> QED
    BY <1>9, <2>1, <2>2 DEF JobSound
<1>14. ASSUME NEW f \in Editors, f # e
       PROVE  JobSound(f)'
  <2>1. f # Nil
    BY ReorderAssumption
  <2>2. \A i \in Items : held[i] = f =>
          held'[i] = f /\ prio'[i] = prio[i] /\ home'[i] = home[i]
    BY <1>4, <1>10, <1>14, <2>1
  <2> QED
    BY <1>4, <1>9, <1>14, <2>2, OthersSound
<1> QED
  BY <1>11, <1>12, <1>13, <1>14 DEF ReorderInv

\* A request that ends, its priorities kept or undone.
LEMMA EndSound ==
  ASSUME ReorderInv, NEW e \in Editors, EndsJob(e), prio' \in [Items -> Int],
         \A i \in Items : held[i] # e => prio'[i] = prio[i]
  PROVE  ReorderInv'
<1>1. /\ held \in [Items -> Editors \cup {Nil}] /\ job \in [Editors -> Job \cup {Nil}]
      /\ home' = home /\ job' = [job EXCEPT ![e] = Nil] /\ e # Nil
  BY ReorderAssumption DEF ReorderInv, ReorderTypeOK, EndsJob
<1>2. \A i \in Items : held'[i] = IF held[i] = e THEN Nil ELSE held[i]
  BY DEF EndsJob
<1>3. ReorderTypeOK'
  BY <1>1 DEF EndsJob, ReorderInv, ReorderTypeOK
<1>4. job'[e] = Nil /\ \A f \in Editors : f # e => job'[f] = job[f]
  BY <1>1
<1>5. \A i \in Items : held'[i] # Nil => job'[held'[i]] # Nil /\ Lives(i)'
  BY <1>1, <1>2, <1>4 DEF ReorderInv, Lives
<1>6. ASSUME NEW f \in Editors
      PROVE  JobSound(f)'
  <2>1. CASE f = e
    BY <1>4, <2>1 DEF JobSound
  <2>2. CASE f # e
    <3>1. \A i \in Items : held[i] = f =>
            held'[i] = f /\ prio'[i] = prio[i] /\ home'[i] = home[i]
      BY <1>1, <1>2, <2>2
    <3> QED
      BY <1>1, <1>4, <2>2, <3>1, OthersSound
  <2> QED
    BY <2>1, <2>2
<1> QED
  BY <1>3, <1>5, <1>6 DEF ReorderInv

LEMMA UndoSound ==
  ASSUME ReorderInv, NEW e \in Editors, UndoReorder(e)
  PROVE  ReorderInv'
<1>1. job[e] \in Job
  BY DEF UndoReorder, ReorderInv, ReorderTypeOK
<1>2. job[e].before \in [Items -> Int]
  BY <1>1 DEF Job
<1>3. prio' = [i \in Items |-> IF held[i] = e THEN job[e].before[i] ELSE prio[i]]
  BY DEF UndoReorder
<1>4. prio' \in [Items -> Int]
  BY <1>2, <1>3 DEF ReorderInv, ReorderTypeOK
<1> QED
  BY <1>3, <1>4, EndSound DEF UndoReorder

-----------------------------------------------------------------------------
(* The other edits.                                                        *)

LEMMA CommittedInt ==
  ASSUME ReorderInv
  PROVE  \A i \in Items : Committed(i) \in Int
<1> TAKE i \in Items
<1>1. CASE held[i] = Nil
  BY <1>1 DEF Committed, ReorderInv, ReorderTypeOK
<1>2. CASE held[i] # Nil
  <2>1. job[held[i]] \in Job
    BY <1>2 DEF ReorderInv, ReorderTypeOK
  <2>2. job[held[i]].before \in [Items -> Int]
    BY <2>1 DEF Job
  <2> QED
    BY <1>2, <2>2 DEF Committed
<1> QED
  BY <1>1, <1>2

\* A new row comes with some number.
LEMMA AddNumber ==
  ASSUME ReorderInv, NEW x \in Items, NEW g \in Scopes, AddRow(x, g)
  PROVE  \E n \in Int : prio' = [prio EXCEPT ![x] = n]
<1>1. PICK n \in Priorities \cup After({j \in Items : Lives(j)})
                            \cup After({j \in Items : home[j] = g}) :
        prio' = [prio EXCEPT ![x] = n]
  BY DEF AddRow
<1>2. \A S \in SUBSET Items : After(S) \subseteq Int
  BY CommittedInt DEF After
<1>3. n \in Int
  BY <1>1, <1>2, ReorderAssumption
<1> QED
  BY <1>1, <1>3

LEMMA AddSound ==
  ASSUME ReorderInv, NEW x \in Items, NEW g \in Scopes, AddRow(x, g)
  PROVE  ReorderInv'
<1>1. PICK n \in Int : prio' = [prio EXCEPT ![x] = n]
  BY AddNumber
<1>4. /\ home[x] = Unborn /\ home' = [home EXCEPT ![x] = g]
      /\ held' = held /\ job' = job
  BY DEF AddRow
<1>5. ReorderTypeOK'
  BY <1>1, <1>4 DEF ReorderInv, ReorderTypeOK
<1>6. \A i \in Items : i # x => home'[i] = home[i] /\ prio'[i] = prio[i]
  BY <1>1, <1>4 DEF ReorderInv, ReorderTypeOK
<1>7. \A i \in Items : held[i] # Nil => i # x
  BY <1>4, ReorderAssumption DEF ReorderInv, Lives
<1>8. ASSUME NEW e \in Editors
      PROVE  JobSound(e)'
  <2>1. e # Nil
    BY ReorderAssumption
  <2>2. \A i \in Items : held[i] = e =>
          held'[i] = e /\ prio'[i] = prio[i] /\ home'[i] = home[i]
    BY <1>4, <1>6, <1>7, <2>1
  <2>3. \A i \in Items : home[i] # Unborn =>
          home'[i] # Unborn /\ (home'[i] \in Scopes => home[i] \in Scopes)
    BY <1>4, <1>6
  <2> QED
    BY <1>4, <2>2, <2>3, OthersSound
<1>9. \A i \in Items : held'[i] # Nil => job'[held'[i]] # Nil /\ Lives(i)'
  BY <1>4, <1>6, <1>7 DEF ReorderInv, Lives
<1> QED
  BY <1>5, <1>8, <1>9 DEF ReorderInv

\* A row nobody holds is saved, its number and its parent, or goes.
LEMMA LeaveSound ==
  ASSUME ReorderInv, NEW x \in Items, Lives(x), held[x] = Nil,
         NEW g \in Scopes \cup {Deleted}, home' = [home EXCEPT ![x] = g],
         NEW n \in Int, prio' = [prio EXCEPT ![x] = n], UNCHANGED <<held, job>>
  PROVE  ReorderInv'
<1>1. held' = held /\ job' = job
  OBVIOUS
<1>2. home \in [Items -> Scopes \cup {Unborn, Deleted}] /\ prio \in [Items -> Int]
  BY DEF ReorderInv, ReorderTypeOK
<1>3. home'[x] = g /\ \A i \in Items : i # x => home'[i] = home[i] /\ prio'[i] = prio[i]
  BY <1>2
<1>4. ReorderTypeOK'
  BY <1>1, <1>2 DEF ReorderInv, ReorderTypeOK
<1>5. \A i \in Items : held'[i] # Nil => job'[held'[i]] # Nil /\ Lives(i)'
  BY <1>1, <1>3 DEF ReorderInv, Lives
<1>6. ASSUME NEW e \in Editors
      PROVE  JobSound(e)'
  <2>1. e # Nil
    BY ReorderAssumption
  <2>2. \A i \in Items : held[i] = e =>
          held'[i] = e /\ prio'[i] = prio[i] /\ home'[i] = home[i]
    BY <1>1, <1>3, <2>1
  <2>3. \A i \in Items : home[i] # Unborn =>
          home'[i] # Unborn /\ (home'[i] \in Scopes => home[i] \in Scopes)
    BY <1>3, ReorderAssumption DEF Lives
  <2> QED
    BY <1>1, <2>2, <2>3, OthersSound
<1> QED
  BY <1>4, <1>5, <1>6 DEF ReorderInv

-----------------------------------------------------------------------------
(* Theorems on reordering.                                                 *)

LEMMA ReorderStart == ReorderInit => ReorderInv
BY DEF ReorderInit, ReorderInv, ReorderTypeOK, JobSound

LEMMA ReorderStep == ReorderInv /\ [ReorderNext]_reorderVars => ReorderInv'
<1> SUFFICES ASSUME ReorderInv, [ReorderNext]_reorderVars
             PROVE  ReorderInv'
  OBVIOUS
<1>1. ASSUME NEW e \in Editors, NEW g \in Scopes \cup {Whole}, BeginReorder(e, g)
      PROVE  ReorderInv'
  BY <1>1, BeginSound
<1>2. ASSUME NEW e \in Editors, UpdateNext(e)
      PROVE  ReorderInv'
  BY <1>2, UpdateSound
<1>3. ASSUME NEW e \in Editors, CommitReorder(e)
      PROVE  ReorderInv'
  <2>1. prio' = prio /\ prio \in [Items -> Int] /\ EndsJob(e)
    BY <1>3 DEF CommitReorder, ReorderInv, ReorderTypeOK
  <2> QED
    BY <2>1, EndSound
<1>4. ASSUME NEW e \in Editors, UndoReorder(e)
      PROVE  ReorderInv'
  BY <1>4, UndoSound
<1>5. ASSUME NEW i \in Items, RemoveRow(i)
      PROVE  ReorderInv'
  <2>1. prio' = [prio EXCEPT ![i] = prio[i]] /\ prio[i] \in Int
    BY <1>5 DEF RemoveRow, ReorderInv, ReorderTypeOK
  <2> QED
    BY <1>5, <2>1, LeaveSound DEF RemoveRow
<1>6. ASSUME NEW i \in Items, NEW g \in Scopes, AddRow(i, g)
      PROVE  ReorderInv'
  BY <1>6, AddSound
<1>7. ASSUME NEW i \in Items, NEW g \in Scopes, SaveRow(i, g)
      PROVE  ReorderInv'
  <2>1. PICK n \in Int : prio' = [prio EXCEPT ![i] = n]
    BY <1>7, ReorderAssumption DEF SaveRow, ReorderInv, ReorderTypeOK
  <2> QED
    BY <1>7, <2>1, LeaveSound DEF SaveRow
<1>8. CASE UNCHANGED reorderVars
  BY <1>8 DEF reorderVars, ReorderInv, ReorderTypeOK, JobSound, Placed, Lives, InScope, PrioAt
<1> QED
  BY <1>1, <1>2, <1>3, <1>4, <1>5, <1>6, <1>7, <1>8 DEF ReorderNext

\* The strengthening of WrittenStays (reorder.py:38-44, 72-79), among creates
\* and saves that write any priority or parent: what a request has written it
\* holds, its ids differ and none of them is a row to come.
THEOREM ReorderInductive == ReorderSpec => []ReorderInv
<1> QED
  BY ReorderStart, ReorderStep, PTL DEF ReorderSpec

\* A reorder takes effect whole, whatever comes between its updates: other
\* reorders, and creates, saves of a priority or a parent and deletes
\* (reorder.py:38-44, 72-79; routes_admin.py:147-160, 247-264).
THEOREM WrittenAlwaysStays == ReorderSpec => []WrittenStays
<1>1. ReorderInv => WrittenStays
  BY DEF ReorderInv, JobSound, Placed, WrittenStays
<1> QED
  BY <1>1, ReorderInductive, PTL

-----------------------------------------------------------------------------
(* What others see: the refinement of ListOrder.                           *)

\* A row is held by a request that has written it.
HeldWritten == \A i \in Items : held[i] # Nil =>
  \E k \in 1..job[held[i]].done : job[held[i]].ids[k] = i

\* The next row of a request is none it has written.
LEMMA NextIsFresh ==
  ASSUME ReorderInv, HeldWritten, NEW e \in Editors, UpdateNext(e)
  PROVE  /\ NextId(e) \in Items
         /\ held[NextId(e)] = Nil
         /\ job[e] \in Job /\ job[e] # Nil /\ job[e].done \in Nat
         /\ job[e].before \in [Items -> Int]
         /\ job[e].done + 1 \in 1..Len(job[e].ids)
<1>1. job[e] \in Job /\ JobSound(e) /\ job[e] # Nil /\ job[e].done < Len(job[e].ids)
  BY DEF UpdateNext, ReorderInv, ReorderTypeOK
<1>2. job[e].ids \in Seq(Items) /\ job[e].done \in Nat /\ job[e].before \in [Items -> Int]
  BY <1>1 DEF Job
<1>3. PICK ids \in Seq(Items), n \in Nat : ids = job[e].ids /\ n = job[e].done
  BY <1>2
<1>4. n + 1 \in 1..Len(ids) /\ NextId(e) = ids[n + 1]
  BY <1>1, <1>3 DEF NextId
<1>5. ids[n + 1] \in Items
  BY <1>4
<1>6. ASSUME held[NextId(e)] = e
      PROVE  FALSE
  <2>0. \E k \in 1..job[e].done : job[e].ids[k] = NextId(e)
    <3>1. NextId(e) \in Items /\ e # Nil
      BY <1>4, <1>5, ReorderAssumption
    <3> QED
      BY <1>6, <3>1 DEF HeldWritten
  <2>1. PICK k \in 1..n : ids[k] = ids[n + 1]
    BY <1>3, <1>4, <2>0
  <2>2. k \in 1..Len(ids) /\ k # n + 1
    BY <1>4, <2>1
  <2> QED
    BY <1>1, <1>3, <1>4, <2>1, <2>2 DEF JobSound
<1>7. held[NextId(e)] \in {Nil, e}
  BY DEF UpdateNext
<1> QED
  BY <1>1, <1>2, <1>3, <1>4, <1>5, <1>6, <1>7

\* The effect of an update, with its row and number named.
LEMMA UpdateEffect ==
  ASSUME ReorderInv, HeldWritten, NEW e \in Editors, UpdateNext(e),
         NEW x \in Items, x = NextId(e)
  PROVE  /\ job'[e].ids = job[e].ids
         /\ job'[e].scope = job[e].scope
         /\ job'[e] # Nil
         /\ job'[e].done = job[e].done + 1
         /\ job'[e].before = [job[e].before EXCEPT ![x] = prio[x]]
         /\ \A f \in Editors : f # e => job'[f] = job[f]
         /\ held'[x] = IF Lives(x) THEN e ELSE Nil
         /\ ~Lives(x) => prio'[x] = prio[x]
         /\ \A i \in Items : i # x => prio'[i] = prio[i] /\ held'[i] = held[i]
         /\ home' = home
<1>1. /\ held[x] = Nil /\ job[e] \in Job
      /\ prio \in [Items -> Int] /\ held \in [Items -> Editors \cup {Nil}]
      /\ job \in [Editors -> Job \cup {Nil}]
  BY NextIsFresh DEF ReorderInv, ReorderTypeOK
<1>2. job' = [job EXCEPT ![e].done = @ + 1, ![e].before[x] = prio[x]]
  BY DEF UpdateNext
<1>3. PICK a \in Job : a = job[e]
  BY <1>1
<1>4. job' = [job EXCEPT ![e] =
        [a EXCEPT !.done = a.done + 1, !.before = [a.before EXCEPT ![x] = prio[x]]]]
  BY <1>1, <1>2, <1>3
<1>5. job'[e] = [a EXCEPT !.done = a.done + 1, !.before = [a.before EXCEPT ![x] = prio[x]]]
  BY <1>1, <1>4
<1>6. /\ job'[e].ids = a.ids /\ job'[e].scope = a.scope /\ job'[e].done = a.done + 1
      /\ job'[e].before = [a.before EXCEPT ![x] = prio[x]]
      /\ job'[e] \in Job
  <2>1. PICK w \in [Items -> Int] : w = [a.before EXCEPT ![x] = prio[x]]
    BY <1>1 DEF Job
  <2>2. a.done + 1 \in Nat
    BY DEF Job
  <2>3. job'[e] = [a EXCEPT !.done = a.done + 1, !.before = w]
    BY <1>5, <2>1
  <2> QED
    BY <2>1, <2>2, <2>3 DEF Job
<1>7. \A f \in Editors : f # e => job'[f] = job[f]
  BY <1>1, <1>4
<1>8. /\ held'[x] = IF Lives(x) THEN e ELSE Nil
      /\ ~Lives(x) => prio'[x] = prio[x]
      /\ \A i \in Items : i # x => prio'[i] = prio[i] /\ held'[i] = held[i]
      /\ home' = home
  BY <1>1 DEF UpdateNext, InScope
<1>9. job'[e] # Nil
  BY <1>6, ReorderAssumption
<1> QED
  BY <1>3, <1>6, <1>7, <1>8, <1>9

LEMMA HeldStep ==
  ASSUME ReorderInv, HeldWritten, [ReorderNext]_reorderVars
  PROVE  HeldWritten'
<1>t. /\ held \in [Items -> Editors \cup {Nil}] /\ job \in [Editors -> Job \cup {Nil}]
      /\ Nil \notin Editors
  BY ReorderAssumption DEF ReorderInv, ReorderTypeOK
<1>1. ASSUME NEW e \in Editors, NEW g \in Scopes \cup {Whole}, BeginReorder(e, g)
      PROVE  HeldWritten'
  <2>1. held' = held /\ job[e] = Nil /\ \A f \in Editors : f # e => job'[f] = job[f]
    BY <1>1, <1>t DEF BeginReorder
  <2>2. \A i \in Items : held[i] # e
    BY <2>1, <1>t DEF ReorderInv
  <2> QED
    BY <1>t, <2>1, <2>2 DEF HeldWritten
<1>2. ASSUME NEW e \in Editors, UpdateNext(e)
      PROVE  HeldWritten'
  <2>1. PICK x \in Items : x = NextId(e)
    BY <1>2, NextIsFresh
  <2>2. PICK n \in Nat : n = job[e].done /\ x = job[e].ids[n + 1]
    BY <1>2, <2>1, NextIsFresh DEF NextId
  <2> SUFFICES ASSUME NEW i \in Items, held'[i] # Nil
               PROVE  \E k \in 1..job'[held'[i]].done : job'[held'[i]].ids[k] = i
    BY DEF HeldWritten
  <2>3. /\ job'[e].ids = job[e].ids /\ job'[e].done = n + 1
        /\ \A f \in Editors : f # e => job'[f] = job[f]
        /\ held'[x] \in {e, Nil}
        /\ i # x => held'[i] = held[i]
    BY <1>2, <2>1, <2>2, UpdateEffect
  <2>4. CASE i = x
    <3>1. n + 1 \in 1..(n + 1)
      OBVIOUS
    <3> QED
      BY <2>2, <2>3, <2>4, <3>1
  <2>5. CASE i # x
    <3>1. PICK k \in 1..job[held[i]].done : job[held[i]].ids[k] = i
      BY <2>3, <2>5 DEF HeldWritten
    <3>2. CASE held[i] = e
      <4>1. k \in 1..(n + 1)
        BY <2>2, <3>1, <3>2
      <4> QED
        BY <2>3, <2>5, <3>1, <3>2, <4>1
    <3>3. CASE held[i] # e
      BY <1>t, <2>3, <2>5, <3>1, <3>3
    <3> QED
      BY <3>2, <3>3
  <2> QED
    BY <2>4, <2>5
<1>3. ASSUME NEW e \in Editors, EndsJob(e)
      PROVE  HeldWritten'
  <2>1. /\ \A f \in Editors : f # e => job'[f] = job[f]
        /\ \A i \in Items : held'[i] = IF held[i] = e THEN Nil ELSE held[i]
    BY <1>3, <1>t DEF EndsJob
  <2> QED
    BY <1>t, <2>1 DEF HeldWritten
<1>4. ASSUME UNCHANGED <<held, job>>
      PROVE  HeldWritten'
  BY <1>4 DEF HeldWritten
<1> QED
  BY <1>1, <1>2, <1>3, <1>4 DEF ReorderNext, CommitReorder, UndoReorder, AddRow, SaveRow,
     RemoveRow, reorderVars

\* The list counts as the table does.
LEMMA ListCardinality ==
  ASSUME NEW S
  PROVE  Atomic!Cardinality(S) = Cardinality(S)
BY DEF Atomic!Cardinality, Cardinality

LEMMA ListBijection ==
  ASSUME NEW S, NEW T, NEW f \in [S -> T],
         \A x, y \in S : f[x] = f[y] => x = y, \A z \in T : \E x \in S : f[x] = z
  PROVE  f \in Atomic!Bijection(S, T)
BY DEF Atomic!Bijection, Atomic!Injection, Atomic!Surjection, Atomic!IsInjective

\* A request that stays as it is asks for what it asked for.
LEMMA AskedStays ==
  ASSUME NEW e, job'[e] = job[e]
  PROVE  Asked(e)' = Asked(e)
<1>1. RankOf(e)' = RankOf(e)
  <2>1. PICK a : a = job[e]
    OBVIOUS
  <2> QED
    BY <2>1, job'[e] = a DEF RankOf, PrioAt
<1> QED
  BY <1>1 DEF Asked

\* The places of different ids are different, and they are all there are.
LEMMA RanksAreSound ==
  ASSUME NEW ids \in Seq(Items), \A k, l \in 1..Len(ids) : k # l => ids[k] # ids[l],
         NEW rank, rank = [i \in {ids[k] : k \in 1..Len(ids)} |->
           Len(ids) + 1 - CHOOSE k \in 1..Len(ids) : ids[k] = i]
  PROVE  LET S == {ids[k] : k \in 1..Len(ids)} IN
           /\ Cardinality(S) = Len(ids)
           /\ \A k \in 1..Len(ids) : rank[ids[k]] = Len(ids) + 1 - k
           /\ rank \in Atomic!Bijection(S, 1..Atomic!Cardinality(S))
<1> DEFINE n == Len(ids)
           S == {ids[k] : k \in 1..n}
           at == [k \in 1..n |-> ids[k]]
<1>3. n \in Nat /\ S \in SUBSET Items
  OBVIOUS
<1>4. \A k, l \in 1..n : k # l => ids[k] # ids[l]
  OBVIOUS
<1>5. at \in Bijection(1..n, S)
  BY <1>4 DEF Bijection, Injection, Surjection, IsInjective
<1>6. Cardinality(S) = n
  <2>1. ExistsBijection(1..n, S)
    BY <1>5, Fun_ExistsBij
  <2>2. IsFiniteSet(1..n) /\ Cardinality(1..n) = n
    BY <1>3, FS_Interval
  <2> QED
    BY <2>1, <2>2, FS_Bijection
<1>7. \A k \in 1..n : rank[ids[k]] = n + 1 - k
  <2> TAKE k \in 1..n
  <2>1. (CHOOSE l \in 1..n : ids[l] = ids[k]) = k
    BY <1>4
  <2> QED
    BY <2>1
<1>8. rank \in Atomic!Bijection(S, 1..n)
  <2>1. \A i \in S : \E k \in 1..n : i = ids[k] /\ rank[i] = n + 1 - k
    BY <1>7
  <2>2. \A i \in S : rank[i] \in 1..n
    BY <1>3, <2>1
  <2>3. \A i, j \in S : rank[i] = rank[j] => i = j
    <3> SUFFICES ASSUME NEW i \in S, NEW j \in S, rank[i] = rank[j]
                 PROVE  i = j
      OBVIOUS
    <3>1. PICK k \in 1..n : i = ids[k] /\ rank[i] = n + 1 - k
      BY <2>1
    <3>2. PICK l \in 1..n : j = ids[l] /\ rank[j] = n + 1 - l
      BY <2>1
    <3>3. k = l
      BY <1>3, <3>1, <3>2
    <3> QED
      BY <3>1, <3>2, <3>3
  <2>4. \A m \in 1..n : \E i \in S : rank[i] = m
    <3> TAKE m \in 1..n
    <3>1. n + 1 - m \in 1..n /\ n + 1 - (n + 1 - m) = m
      BY <1>3
    <3>2. rank[ids[n + 1 - m]] = m
      BY <1>7, <3>1
    <3> QED
      BY <3>1, <3>2
  <2>5. rank \in [S -> 1..n]
    BY <2>2
  <2> HIDE DEF S, n
  <2> QED
    BY <2>3, <2>4, <2>5, ListBijection
<1>9. Atomic!Cardinality(S) = n
  BY <1>6, ListCardinality
<1> HIDE DEF S, n
<1>10. rank \in Atomic!Bijection(S, 1..Atomic!Cardinality(S))
  BY <1>8, <1>9
<1> QED
  BY <1>6, <1>7, <1>10 DEF S, n

\* A reorder asks for an order of the rows of its list.
LEMMA BeginAsks ==
  ASSUME ReorderInv, NEW e \in Editors, NEW g \in Scopes \cup {Whole}, BeginReorder(e, g)
  PROVE  Atomic!Ask(e, g)
<1> DEFINE S == {i \in Items : InScope(i, g)}
<1>1. PICK ids \in SetToSeqs(S) :
        /\ ids # <<>>
        /\ job' = [job EXCEPT ![e] =
             [ids |-> ids, scope |-> g, done |-> 0, before |-> [i \in Items |-> 0]]]
  BY DEF BeginReorder
<1>2. IsFiniteSet(S) /\ Cardinality(S) \in Nat
  BY ReorderAssumption, FS_Subset, FS_CardinalityType
<1> DEFINE n == Cardinality(S)
           T == {ids[k] : k \in 1..Len(ids)}
<1>3. /\ ids \in Seq(Items) /\ Len(ids) = n
      /\ \A k, l \in 1..Len(ids) : k # l => ids[k] # ids[l]
      /\ T \in SUBSET S
  <2>1. ids \in [1..n -> S] /\ \A k, l \in 1..n : k # l => ids[k] # ids[l]
    BY DEF SetToSeqs
  <2>2. ids \in Seq(S) /\ Len(ids) = n
    BY <1>2, <2>1
  <2>3. ids \in Seq(Items)
    BY <2>2
  <2> QED
    BY <2>1, <2>2, <2>3
<1> DEFINE rank == [i \in T |-> Len(ids) + 1 - CHOOSE k \in 1..Len(ids) : ids[k] = i]
<1>4. Cardinality(T) = n /\ rank \in Atomic!Bijection(T, 1..Atomic!Cardinality(T))
  BY <1>3, RanksAreSound
<1>5. T = S
  BY <1>2, <1>3, <1>4, FS_Subset
<1>6. S # {}
  <2>1. Len(ids) # 0
    BY <1>1, <1>3
  <2>2. 1 \in 1..Len(ids)
    BY <1>3, <2>1
  <2> QED
    BY <1>3, <2>2
<1>7. S = {i \in Items : Atomic!Listed(i, g)}
  BY DEF InScope, Lives, Atomic!Listed, Atomic!Lives
<1> DEFINE j == [ids |-> ids, scope |-> g, done |-> 0, before |-> [i \in Items |-> 0]]
<1>8. j \in Job /\ j # Nil
  <2>1. j \in Job
    BY <1>3 DEF Job
  <2> QED
    BY <2>1, ReorderAssumption
<1>9. /\ job[e] = Nil /\ home' = home /\ prio' = prio /\ held' = held
      /\ job'[e] = j /\ \A f \in Editors : f # e => job'[f] = job[f]
      /\ held \in [Items -> Editors \cup {Nil}] /\ Nil \notin Editors
      /\ \A i \in Items : held[i] # e
  <2>1. job[e] = Nil /\ home' = home /\ prio' = prio /\ held' = held
    BY DEF BeginReorder
  <2>2. job \in [Editors -> Job \cup {Nil}] /\ held \in [Items -> Editors \cup {Nil}]
    BY DEF ReorderInv, ReorderTypeOK
  <2>3. job'[e] = j /\ \A f \in Editors : f # e => job'[f] = job[f]
    BY <1>1, <2>2
  <2>4. Nil \notin Editors
    BY ReorderAssumption
  <2>5. \A i \in Items : held[i] # e
    BY <2>1, <2>4 DEF ReorderInv
  <2> HIDE DEF j
  <2> QED
    BY <2>1, <2>2, <2>3, <2>4, <2>5
<1>10. RankOf(e)' = rank /\ j.scope = g /\ j.done = 0
  <2>1. j.ids = ids /\ j.scope = g /\ j.done = 0
    OBVIOUS
  <2> HIDE DEF j
  <2> QED
    BY <1>9, <2>1 DEF RankOf, PrioAt
<1> HIDE DEF j, rank, T, S, n
<1>11. Asked(e) = {} /\ Asked(e)' = {[scope |-> g, rank |-> rank, step |-> 0]}
  BY <1>8, <1>9, <1>10 DEF Asked
<1>12. \A f \in Editors : f # e => Asked(f)' = Asked(f)
  BY <1>9, AskedStays
<1>13. [f \in Editors |-> Asked(f)]' =
         [[f \in Editors |-> Asked(f)] EXCEPT ![e] = {[scope |-> g, rank |-> rank, step |-> 0]}]
  BY <1>11, <1>12
<1>14. [i \in Items |-> Committed(i)]' = [i \in Items |-> Committed(i)]
  BY <1>9 DEF Committed
<1> QED
  BY <1>4, <1>5, <1>6, <1>7, <1>9, <1>11, <1>13, <1>14 DEF Atomic!Ask

\* An update brings a request on and shows nothing.
LEMMA UpdatePrepares ==
  ASSUME ReorderInv, HeldWritten, NEW e \in Editors, UpdateNext(e)
  PROVE  Atomic!Prepare(e)
<1>t. held \in [Items -> Editors \cup {Nil}] /\ Nil \notin Editors
  BY ReorderAssumption DEF ReorderInv, ReorderTypeOK
<1>1. PICK x \in Items : x = NextId(e)
  BY NextIsFresh
<1>2. /\ job[e].before \in [Items -> Int] /\ held[x] = Nil /\ job[e] # Nil
      /\ job'[e].ids = job[e].ids /\ job'[e].scope = job[e].scope /\ job'[e] # Nil
      /\ job'[e].done = job[e].done + 1
      /\ job'[e].before = [job[e].before EXCEPT ![x] = prio[x]]
      /\ \A f \in Editors : f # e => job'[f] = job[f]
      /\ held'[x] = IF Lives(x) THEN e ELSE Nil
      /\ ~Lives(x) => prio'[x] = prio[x]
      /\ \A i \in Items : i # x => prio'[i] = prio[i] /\ held'[i] = held[i]
      /\ home' = home
  BY <1>1, NextIsFresh, UpdateEffect
<1>3. Committed(x)' = Committed(x)
  BY <1>t, <1>2 DEF Committed
<1>4. \A i \in Items : i # x => job'[e].before[i] = job[e].before[i]
  BY <1>2
<1>5. ASSUME NEW i \in Items, i # x
      PROVE  Committed(i)' = Committed(i)
  <2>1. CASE held[i] = e
    BY <1>t, <1>2, <1>4, <1>5, <2>1 DEF Committed
  <2>2. CASE held[i] # e
    BY <1>t, <1>2, <1>5, <2>2 DEF Committed
  <2> QED
    BY <2>1, <2>2
<1>6. RankOf(e)' = RankOf(e)
  BY <1>2 DEF RankOf, PrioAt
<1> DEFINE r == [scope |-> job[e].scope, rank |-> RankOf(e), step |-> job[e].done]
<1>7. Asked(e) = {r} /\ Asked(e)' = {[r EXCEPT !.step = @ + 1]}
  <2>1. [r EXCEPT !.step = @ + 1] =
          [scope |-> job[e].scope, rank |-> RankOf(e), step |-> job[e].done + 1]
    OBVIOUS
  <2>2. Asked(e) = {r}
    BY <1>2 DEF Asked
  <2>3. Asked(e)' = {[scope |-> job[e].scope, rank |-> RankOf(e), step |-> job[e].done + 1]}
    BY <1>2, <1>6 DEF Asked
  <2> QED
    BY <2>1, <2>2, <2>3
<1>9. \A f \in Editors : f # e => Asked(f)' = Asked(f)
  BY <1>2, AskedStays
<1>10. [f \in Editors |-> Asked(f)]' =
         [[f \in Editors |-> Asked(f)] EXCEPT ![e] = {[r EXCEPT !.step = @ + 1]}]
  BY <1>7, <1>9
<1>11. [i \in Items |-> Committed(i)]' = [i \in Items |-> Committed(i)]
  BY <1>3, <1>5
<1> QED
  BY <1>2, <1>7, <1>10, <1>11 DEF Atomic!Prepare

\* A request that ends is none any more.
LEMMA EndDrops ==
  ASSUME ReorderInv, NEW e \in Editors, job[e] # Nil, EndsJob(e)
  PROVE  /\ \E r : Asked(e) = {r}
         /\ [f \in Editors |-> Asked(f)]' = [[f \in Editors |-> Asked(f)] EXCEPT ![e] = {}]
         /\ home' = home
         /\ \A f \in Editors : f # e => job'[f] = job[f]
         /\ \A i \in Items : held'[i] = IF held[i] = e THEN Nil ELSE held[i]
<1>1. job'[e] = Nil /\ \A f \in Editors : f # e => job'[f] = job[f]
  BY DEF EndsJob, ReorderInv, ReorderTypeOK
<1>2. Asked(e)' = {} /\ \A f \in Editors : f # e => Asked(f)' = Asked(f)
  BY <1>1, AskedStays DEF Asked
<1>3. \E r : Asked(e) = {r}
  BY DEF Asked
<1> QED
  BY <1>1, <1>2, <1>3 DEF EndsJob

\* The rows of a commit get the ranks of their ids.
LEMMA CommitArranges ==
  ASSUME ReorderInv, HeldWritten, NEW e \in Editors, CommitReorder(e)
  PROVE  Atomic!Arrange(e)
<1>1. job[e] \in Job /\ JobSound(e) /\ job[e] # Nil /\ job[e].done = Len(job[e].ids)
  BY DEF CommitReorder, ReorderInv, ReorderTypeOK
<1>2. PICK ids \in Seq(Items), g \in Scopes \cup {Whole} :
        ids = job[e].ids /\ g = job[e].scope
  BY <1>1 DEF Job
<1> DEFINE n == Len(ids)
           S == {ids[k] : k \in 1..n}
<1>3. \A k, l \in 1..n : k # l => ids[k] # ids[l]
  BY <1>1, <1>2 DEF JobSound
<1>4. PICK rank : rank = RankOf(e)
  OBVIOUS
<1>5. rank = [i \in S |-> n + 1 - CHOOSE k \in 1..n : ids[k] = i]
  BY <1>2, <1>4 DEF RankOf, PrioAt
<1>6. \A k \in 1..n : rank[ids[k]] = n + 1 - k
  BY <1>3, <1>5, RanksAreSound
<1>7. DOMAIN rank = S
  BY <1>5
<1>9. /\ held \in [Items -> Editors \cup {Nil}] /\ Nil \notin Editors
      /\ prio' = prio /\ EndsJob(e)
  BY ReorderAssumption DEF ReorderInv, ReorderTypeOK, CommitReorder
<1>10. /\ home' = home
       /\ \A f \in Editors : f # e => job'[f] = job[f]
       /\ \A i \in Items : held'[i] = IF held[i] = e THEN Nil ELSE held[i]
       /\ [f \in Editors |-> Asked(f)]' = [[f \in Editors |-> Asked(f)] EXCEPT ![e] = {}]
  BY <1>1, <1>9, EndDrops
<1>11. ASSUME NEW i \in Items
       PROVE  Committed(i)' = IF i \in S /\ InScope(i, g) THEN rank[i] ELSE Committed(i)
  <2>1. CASE held[i] = e
    <3>1. Committed(i)' = prio[i] /\ Committed(i) = job[e].before[i] /\ Lives(i)
      BY <1>9, <1>10, <2>1 DEF Committed, ReorderInv
    <3>2. PICK k \in 1..n : ids[k] = i
      BY <1>1, <1>2, <1>9, <2>1 DEF HeldWritten
    <3>3. prio[i] = IF InScope(i, g) THEN n + 1 - k ELSE job[e].before[i]
      BY <1>1, <1>2, <3>1, <3>2 DEF JobSound, Placed, PrioAt
    <3>4. i \in S /\ rank[i] = n + 1 - k
      BY <1>6, <3>2
    <3> HIDE DEF S, n
    <3> QED
      BY <3>1, <3>3, <3>4
  <2>2. CASE held[i] # e
    <3>1. Committed(i)' = Committed(i)
      BY <1>9, <1>10, <2>2 DEF Committed
    <3>2. i \in S => ~InScope(i, g)
      BY <1>1, <1>2, <2>2 DEF JobSound, Placed, InScope
    <3> QED
      BY <3>1, <3>2
  <2> QED
    BY <2>1, <2>2
<1> HIDE DEF S, n
<1> DEFINE r == [scope |-> g, rank |-> rank, step |-> job[e].done]
<1>12. Asked(e) = {r} /\ r.rank = rank /\ r.scope = g
  BY <1>1, <1>2, <1>4 DEF Asked
<1> HIDE DEF r
<1>13. [i \in Items |-> Committed(i)]' = [i \in Items |->
         IF i \in DOMAIN r.rank /\ Atomic!Listed(i, r.scope)
         THEN r.rank[i] ELSE [j \in Items |-> Committed(j)][i]]
  <2>1. \A i \in Items : InScope(i, g) <=> Atomic!Listed(i, g)
    BY DEF Atomic!Listed, Atomic!Lives, InScope, Lives
  <2> QED
    BY <1>7, <1>11, <1>12, <2>1
<1> QED
  BY <1>10, <1>12, <1>13 DEF Atomic!Arrange

\* A rollback shows nothing: what the request held is as it was before.
LEMMA UndoWithdraws ==
  ASSUME ReorderInv, NEW e \in Editors, UndoReorder(e)
  PROVE  Atomic!Withdraw(e)
<1>1. /\ held \in [Items -> Editors \cup {Nil}] /\ Nil \notin Editors
      /\ job[e] # Nil /\ EndsJob(e)
      /\ \A i \in Items : prio'[i] = IF held[i] = e THEN job[e].before[i] ELSE prio[i]
  BY ReorderAssumption DEF ReorderInv, ReorderTypeOK, UndoReorder
<1>2. /\ \A f \in Editors : f # e => job'[f] = job[f]
      /\ \A i \in Items : held'[i] = IF held[i] = e THEN Nil ELSE held[i]
  BY <1>1, EndDrops
<1>3. \A i \in Items : Committed(i)' = Committed(i)
  BY <1>1, <1>2 DEF Committed
<1> QED
  BY <1>1, <1>3, EndDrops DEF Atomic!Withdraw

\* A save of a row nobody holds shows at once.
LEMMA SaveShows ==
  ASSUME ReorderInv, NEW x \in Items, NEW g \in Scopes, AddRow(x, g) \/ SaveRow(x, g)
  PROVE  Atomic!Save(x, g)
<1>1. held' = held /\ job' = job /\ home' = [home EXCEPT ![x] = g]
  BY DEF AddRow, SaveRow
<1>2. held[x] = Nil /\ home[x] # Deleted
  <2>1. CASE AddRow(x, g)
    BY <2>1, ReorderAssumption DEF AddRow, ReorderInv, Lives
  <2>2. CASE SaveRow(x, g)
    BY <2>2, ReorderAssumption DEF SaveRow, Lives
  <2> QED
    BY <2>1, <2>2
<1>3. PICK n \in Int : prio' = [prio EXCEPT ![x] = n]
  <2>1. CASE AddRow(x, g)
    BY <2>1, AddNumber
  <2>2. CASE SaveRow(x, g)
    BY <2>2, ReorderAssumption DEF SaveRow, ReorderInv, ReorderTypeOK
  <2> QED
    BY <2>1, <2>2
<1>4. prio'[x] = n /\ \A i \in Items : i # x => prio'[i] = prio[i]
  BY <1>3 DEF ReorderInv, ReorderTypeOK
<1>5. Committed(x)' \in Int
  BY <1>1, <1>2, <1>4 DEF Committed
<1>6. \A i \in Items : i # x => Committed(i)' = Committed(i)
  BY <1>1, <1>4 DEF Committed
<1>7. [f \in Editors |-> Asked(f)]' = [f \in Editors |-> Asked(f)]
  BY <1>1 DEF Asked, RankOf, PrioAt
<1> QED
  BY <1>1, <1>2, <1>5, <1>6, <1>7 DEF Atomic!Save

\* Every step shows as one step of the list or as none.
LEMMA StepShows ==
  ASSUME ReorderInv, HeldWritten, [ReorderNext]_reorderVars
  PROVE  [Atomic!Next]_(Atomic!list)
<1>1. ASSUME UNCHANGED <<prio, held, job>>
      PROVE  /\ [i \in Items |-> Committed(i)]' = [i \in Items |-> Committed(i)]
             /\ [e \in Editors |-> Asked(e)]' = [e \in Editors |-> Asked(e)]
  BY <1>1 DEF Committed, Asked, RankOf, PrioAt
<1>2. ASSUME NEW i \in Items, RemoveRow(i)
      PROVE  Atomic!Remove(i)
  BY <1>1, <1>2 DEF RemoveRow, Atomic!Remove, Atomic!Lives, Lives
<1>3. CASE UNCHANGED reorderVars
  BY <1>1, <1>3 DEF reorderVars, Atomic!list
<1> QED
  BY <1>2, <1>3, BeginAsks, UpdatePrepares, CommitArranges, UndoWithdraws, SaveShows
     DEF ReorderNext, Atomic!Next

\* Reordering implements the list: among creates, saves of a priority or a parent
\* and deletes of the same rows, others see each reorder whole, at its commit, or
\* not at all, and a row that has left the list keeps its place (reorder.py:38-44,
\* 72-79; routes_admin.py:113, 158-159, 239, 259-260).
THEOREM ReorderIsAtomic == ReorderSpec => TakesEffectWhole
<1>1. ReorderInit => HeldWritten
  BY DEF ReorderInit, HeldWritten
<1>2. ReorderInit => Atomic!Init
  BY DEF ReorderInit, Atomic!Init, Committed, Asked
<1>3. ReorderInv /\ HeldWritten /\ [ReorderNext]_reorderVars => HeldWritten'
  BY HeldStep
<1>4. ReorderInv /\ HeldWritten /\ [ReorderNext]_reorderVars => [Atomic!Next]_(Atomic!list)
  BY StepShows
<1> QED
  BY <1>1, <1>2, <1>3, <1>4, ReorderInductive, PTL
     DEF ReorderSpec, TakesEffectWhole, Atomic!Spec

=============================================================================
