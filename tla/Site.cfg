\* The parts around the bookings, one moving at a time.
SPECIFICATION MCSpec
CONSTANTS
  Movers <- OneAtATime
  \* the rate limiter
  Keys = {"login", "pay"}
  LimitOf <- TwoOnce
  Window = 2
  MaxTime = 5
  \* accounts
  Emails = {m1}
  Visitors = {v1, v2}
  Passwords = {w1, w2}
  MaxCodes = 3
  Nobody = Nobody
  \* the catalogue
  p1 = p1
  p2 = p2
  ty = ty
  d1 = d1
  s1 = s1
  s2 = s2
  r1 = r1
  y1 = y1
  y2 = y2
  b1 = b1
  t1 = t1
  k1 = k1
  Ids <- MCIds
  KindOf <- MCKindOf
  Seeds <- MCSeeds
  Clerks = {c1}
  Gone = Gone
  Null = Null
  \* uploads
  Uploads = {u1, u2}
  NameOf <- OneName
  Folders = {"images"}
  MaxCopies = 2
  MaxCrashes = 1
  NoFile = NoFile
  \* reordering
  Items = {i1, i2}
  Scopes = {g1, g2}
  Whole = Whole
  Editors = {e1, e2}
  Unborn = Unborn
  Deleted = Deleted
  Priorities = {0, 2}
  Nil = Nil
SYMMETRY Interchangeable
INVARIANTS SiteTypeOK WindowBound RefusalsAreDue NewestCodeStands SessionsSound
  UploadKept CopiesBounded
PROPERTIES AccountKept PasswordChanges LostInBetween PublicStays TakesEffectWhole
\* The bounds use up: the clock stops, files and codes run out.
CHECK_DEADLOCK FALSE
