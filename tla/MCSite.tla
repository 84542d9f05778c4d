------------------------------- MODULE MCSite -------------------------------
(***************************************************************************)
(* The parts of the site around the bookings, for TLC.                     *)
(***************************************************************************)
EXTENDS Site, TLC

CONSTANTS p1, p2, ty, d1, s1, s2, r1, y1, y2, b1, t1, k1

\* Two limits: the login's key may be used twice in a window, the other once.
TwoOnce == [k \in Keys |-> IF k = "login" THEN 2 ELSE 1]

OneName == [u \in Uploads |-> "scan"]

MCIds == {p1, p2, ty, d1, s1, s2, r1, y1, y2, b1, t1, k1}
MCKindOf ==
  p1 :> "province" @@ p2 :> "province" @@ ty :> "type" @@ d1 :> "district" @@
  s1 :> "stop" @@ s2 :> "stop" @@ r1 :> "route" @@ y1 :> "routeStop" @@
  y2 :> "routeStop" @@ b1 :> "bus" @@ t1 :> "trip" @@ k1 :> "booking"

\* Either a line between two provinces with two stops, and nothing booked yet,
\* or an office that starts from nothing and sets up a smaller line.
NoColumns == [c \in {} |-> Null]
MCLine ==
  p1 :> NoColumns @@ p2 :> NoColumns @@ ty :> NoColumns @@ b1 :> NoColumns @@
  d1 :> [province |-> p1, type |-> ty] @@
  s1 :> [district |-> d1] @@ s2 :> [district |-> d1] @@
  r1 :> [start |-> p1, end |-> p2] @@
  y1 :> [route |-> r1, stop |-> s1] @@ y2 :> [route |-> r1, stop |-> s2] @@
  t1 :> [bus |-> b1, route |-> r1] @@ k1 :> Gone
MCSeeds == {[row |-> MCLine, used |-> MCIds \ {k1}],
            [row |-> [x \in MCIds |-> Gone], used |-> {p2, s2, y2, k1}]}

\* One part moves in a behaviour, and the others start in one state only.
OneAtATime == {{part} : part \in Parts}
StartsOnce ==
  /\ "accounts" \notin moving => orphan = {} /\ account = [e \in Emails |-> Nobody]
  /\ "catalogue" \notin moving => k1 \notin used
  /\ "reorder" \notin moving => home = [i \in Items |-> Unborn]

MCInit == SiteInit /\ StartsOnce
MCSpec == MCInit /\ [][SiteNext]_siteVars

Interchangeable ==
  Permutations(Visitors) \cup Permutations(Passwords)

=============================================================================
