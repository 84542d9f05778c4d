-------------------------- MODULE RateLimiterProofs -------------------------
(* What the rate limiter promises, for any keys, limits and window.        *)
EXTENDS RateLimiter, TLAPS

LEMMA LimiterStarts == LimiterInit => LimiterInv
<1> SUFFICES ASSUME LimiterInit PROVE LimiterInv
  OBVIOUS
<1> USE LimiterAssumption DEF LimiterInit
<1>1. LimiterTypeOK
  BY DEF LimiterTypeOK, Times
<1>2. \A k \in Keys : accepted[k] = <<>> /\ hits[k] = <<>>
  OBVIOUS
<1>3. \A k \in Keys : Len(hits[k]) = 0 /\ Len(accepted[k]) = 0
  BY <1>2
<1>4. \A k \in Keys : DequeIsRecent(k) /\ Sorted(k)
  <2>1. SUFFICES ASSUME NEW k \in Keys PROVE DequeIsRecent(k) /\ Sorted(k)
    OBVIOUS
  <2>2. Dropped(k) = 0
    BY <1>3 DEF Dropped
  <2>3. 1..0 = {} /\ 0 <= LimitOf[k]
    OBVIOUS
  <2>. QED
    BY <1>3, <2>2, <2>3 DEF DequeIsRecent, Sorted
<1>5. WindowBound
  BY <1>3 DEF WindowBound
<1>. QED
  BY <1>1, <1>4, <1>5 DEF LimiterInv

\* What is left after the loop, entry by entry.
LEMMA WhatIsLeft ==
  ASSUME LimiterInv, NEW k \in Keys, NEW n \in 0..Len(hits[k]), Expired(k, n)
  PROVE  /\ Left(k, n) \in Seq(Times)
         /\ Len(Left(k, n)) = Len(hits[k]) - n
         /\ \A i \in 1..(Len(hits[k]) - n) : Left(k, n)[i] = hits[k][n + i]
<1>1. hits[k] \in Seq(Times)
  BY DEF LimiterInv, LimiterTypeOK
<1>. QED
  BY <1>1 DEF Left

\* The rest is the end of the history, and what is gone from it is old.
LEMMA RestIsRecent ==
  ASSUME LimiterInv, NEW k \in Keys, NEW n \in 0..Len(hits[k]), Expired(k, n)
  PROVE  LET h == Len(hits[k])
             a == Len(accepted[k])
         IN  /\ h \in Nat /\ a \in Nat /\ n \in 0..h /\ h <= a /\ h <= LimitOf[k]
             /\ Left(k, n) \in Seq(Times) /\ Len(Left(k, n)) = h - n
             /\ \A i \in 1..(h - n) : Left(k, n)[i] = accepted[k][a - h + n + i]
             /\ \A i \in 1..(a - h + n) : accepted[k][i] < clock - Window
<1> DEFINE h == Len(hits[k])  a == Len(accepted[k])
<1>1. h \in Nat /\ a \in Nat /\ n \in 0..h
  BY DEF LimiterInv, LimiterTypeOK
<1>2. /\ h <= a /\ h <= LimitOf[k]
      /\ \A i \in 1..h : hits[k][i] = accepted[k][a - h + i]
      /\ \A i \in 1..(a - h) : accepted[k][i] < clock - Window
  BY DEF LimiterInv, DequeIsRecent, Dropped
<1>3. \A i \in 1..n : hits[k][i] < clock - Window
  BY DEF Expired
<1>4. /\ Left(k, n) \in Seq(Times)
      /\ Len(Left(k, n)) = h - n
      /\ \A i \in 1..(h - n) : Left(k, n)[i] = hits[k][n + i]
  BY WhatIsLeft
<1> SUFFICES /\ \A i \in 1..(h - n) : Left(k, n)[i] = accepted[k][a - h + n + i]
             /\ \A i \in 1..(a - h + n) : accepted[k][i] < clock - Window
  BY <1>1, <1>2, <1>4
<1> HIDE DEF h, a
<1>5. ASSUME NEW i \in 1..(h - n) PROVE Left(k, n)[i] = accepted[k][a - h + n + i]
  <2>1. n + i \in 1..h /\ a - h + (n + i) = a - h + n + i
    BY <1>1
  <2>. QED
    BY <1>2, <1>4, <2>1
<1>6. ASSUME NEW i \in 1..(a - h + n) PROVE accepted[k][i] < clock - Window
  <2>1. CASE i <= a - h
    BY <1>1, <1>2, <2>1
  <2>2. CASE i > a - h
    <3>1. i - (a - h) \in 1..n /\ i - (a - h) \in 1..h /\ a - h + (i - (a - h)) = i
      BY <1>1, <2>2
    <3>. QED
      BY <1>2, <1>3, <3>1
  <2>. QED
    BY <1>1, <2>1, <2>2
<1>. QED
  BY <1>5, <1>6

\* A step that changes only the key k keeps the rest of the invariant.
LEMMA OtherKeys ==
  ASSUME LimiterInv, NEW k \in Keys, clock' = clock,
         \A j \in Keys : j # k => hits'[j] = hits[j] /\ accepted'[j] = accepted[j]
  PROVE  \A j \in Keys : j # k => (DequeIsRecent(j) /\ Sorted(j))'
BY DEF LimiterInv, DequeIsRecent, Dropped, Sorted

LEMMA RefuseKeeps ==
  ASSUME LimiterInv, NEW k \in Keys, Refuse(k)
  PROVE  LimiterInv'
<1>1. PICK n \in 0..Len(hits[k]) :
        /\ Refused(k, n)
        /\ hits' = [hits EXCEPT ![k] = Left(k, n)]
        /\ UNCHANGED <<clock, accepted>>
  BY DEF Refuse
<1> DEFINE h == Len(hits[k])  a == Len(accepted[k])
<1>2. /\ h \in Nat /\ a \in Nat /\ n \in 0..h /\ h <= a /\ h <= LimitOf[k]
      /\ Left(k, n) \in Seq(Times) /\ Len(Left(k, n)) = h - n
      /\ \A i \in 1..(h - n) : Left(k, n)[i] = accepted[k][a - h + n + i]
      /\ \A i \in 1..(a - h + n) : accepted[k][i] < clock - Window
  BY <1>1, RestIsRecent DEF Refused
<1>3. LimiterTypeOK'
  BY <1>1, <1>2 DEF LimiterInv, LimiterTypeOK
<1>4. hits'[k] = Left(k, n) /\ accepted' = accepted /\ clock' = clock
  BY <1>1 DEF LimiterInv, LimiterTypeOK
<1>5. Dropped(k)' = a - (h - n)
  BY <1>2, <1>4 DEF Dropped
<1>6. Len(hits'[k]) = h - n /\ Len(accepted'[k]) = a
  BY <1>2, <1>4
<1> HIDE DEF h, a
<1>7. a - (h - n) = a - h + n /\ h - n <= a /\ h - n <= LimitOf[k]
  BY <1>2, LimiterAssumption
<1>8. DequeIsRecent(k)'
  BY <1>2, <1>4, <1>5, <1>6, <1>7 DEF DequeIsRecent
<1>9. Sorted(k)'
  BY <1>4 DEF Sorted, LimiterInv
<1>10. \A j \in Keys : (DequeIsRecent(j) /\ Sorted(j))'
  BY <1>1, <1>8, <1>9, OtherKeys DEF LimiterInv, LimiterTypeOK
<1>11. WindowBound'
  BY <1>1 DEF LimiterInv, WindowBound
<1>. QED
  BY <1>3, <1>10, <1>11 DEF LimiterInv

LEMMA LetThroughKeeps ==
  ASSUME LimiterInv, NEW k \in Keys, LetThrough(k)
  PROVE  LimiterInv'
<1>1. PICK n \in 0..Len(hits[k]) :
        /\ Expired(k, n)
        /\ Len(Left(k, n)) < LimitOf[k]
        /\ hits' = [hits EXCEPT ![k] = Append(Left(k, n), clock)]
        /\ accepted' = [accepted EXCEPT ![k] = Append(@, clock)]
        /\ UNCHANGED clock
  BY DEF LetThrough
<1> DEFINE h == Len(hits[k])  a == Len(accepted[k])  lim == LimitOf[k]
<1>2. /\ h \in Nat /\ a \in Nat /\ n \in 0..h /\ h <= a
      /\ Left(k, n) \in Seq(Times) /\ Len(Left(k, n)) = h - n
      /\ \A i \in 1..(h - n) : Left(k, n)[i] = accepted[k][a - h + n + i]
      /\ \A i \in 1..(a - h + n) : accepted[k][i] < clock - Window
  BY <1>1, RestIsRecent
<1>3. hits[k] \in Seq(Times) /\ accepted[k] \in Seq(Times) /\ clock \in Times
  BY DEF LimiterInv, LimiterTypeOK
<1>4. LimiterTypeOK'
  BY <1>1, <1>2, <1>3 DEF LimiterInv, LimiterTypeOK
<1>5. /\ hits'[k] = Append(Left(k, n), clock)
      /\ accepted'[k] = Append(accepted[k], clock)
      /\ clock' = clock
  BY <1>1 DEF LimiterInv, LimiterTypeOK
<1>6. h \in Nat /\ a \in Nat /\ n \in 0..h /\ h <= a /\ lim \in Nat \ {0}
  BY <1>2, LimiterAssumption
<1>7. /\ clock \in Int /\ Window \in Int /\ clock - Window \in Int
      /\ \A i \in 1..a : accepted[k][i] \in Int
  BY <1>3, LimiterAssumption DEF Times
<1>8. /\ Len(hits'[k]) = Len(Left(k, n)) + 1
      /\ \A i \in 1..Len(Left(k, n)) : hits'[k][i] = Left(k, n)[i]
      /\ hits'[k][Len(Left(k, n)) + 1] = clock
  <2>1. Left(k, n) \in Seq(Times)
    BY <1>2
  <2>. QED
    BY <1>3, <1>5, <2>1
<1>9. /\ Len(accepted'[k]) = a + 1
      /\ \A i \in 1..a : accepted'[k][i] = accepted[k][i]
      /\ accepted'[k][a + 1] = clock
  BY <1>3, <1>5
<1>10. h - n < lim
  BY <1>1, <1>2
<1>11. Sorted(k)
  BY DEF LimiterInv
<1>12. Dropped(k)' = Len(accepted'[k]) - Len(hits'[k])
  BY DEF Dropped
<1> HIDE DEF h, a, lim
<1>13. /\ Len(hits'[k]) = h - n + 1
       /\ \A i \in 1..(h - n) : hits'[k][i] = accepted[k][a - h + n + i]
       /\ hits'[k][h - n + 1] = clock
  BY <1>2, <1>8
<1>14. \A i \in 1..(a - h + n) : accepted[k][i] < clock - Window
  BY <1>2
<1>16. Dropped(k)' = a - h + n
  BY <1>6, <1>9, <1>12, <1>13
<1>17. DequeIsRecent(k)'
  <2>1. h - n + 1 <= a + 1 /\ h - n + 1 <= lim
    BY <1>6, <1>10
  <2>2. ASSUME NEW i \in 1..(h - n + 1)
        PROVE  hits'[k][i] = accepted'[k][a - h + n + i]
    <3>1. CASE i = h - n + 1
      <4>1. a - h + n + i = a + 1
        BY <1>6, <3>1
      <4>. QED
        BY <1>9, <1>13, <3>1, <4>1
    <3>2. CASE i # h - n + 1
      <4>1. i \in 1..(h - n) /\ a - h + n + i \in 1..a
        BY <1>6, <3>2
      <4>. QED
        BY <1>9, <1>13, <4>1
    <3>. QED
      BY <3>1, <3>2
  <2>3. ASSUME NEW i \in 1..(a - h + n)
        PROVE  accepted'[k][i] < clock - Window
    <3>1. i \in 1..a
      BY <1>6
    <3>. QED
      BY <1>9, <1>14, <3>1
  <2>. QED
    BY <1>5, <1>9, <1>13, <1>16, <2>1, <2>2, <2>3 DEF DequeIsRecent, lim
<1>18. Sorted(k)'
  <2>1. /\ \A i, j \in 1..a : i <= j => accepted[k][i] <= accepted[k][j]
        /\ \A i \in 1..a : accepted[k][i] <= clock
    BY <1>11 DEF Sorted, a
  <2>2. \A i \in 1..(a + 1) : i \in 1..a \/ i = a + 1
    BY <1>6
  <2>3. ASSUME NEW i \in 1..(a + 1)
        PROVE  accepted'[k][i] <= clock
    <3>1. CASE i = a + 1
      <4>1. accepted'[k][i] = clock /\ clock \in Int
        BY <1>7, <1>9, <3>1
      <4>. QED
        BY <4>1
    <3>2. CASE i \in 1..a
      <4>1. accepted'[k][i] = accepted[k][i]
        BY <1>9, <3>2
      <4>. QED
        BY <2>1, <3>2, <4>1
    <3>. QED
      BY <2>2, <3>1, <3>2
  <2>4. ASSUME NEW i \in 1..(a + 1), NEW j \in 1..(a + 1), i <= j
        PROVE  accepted'[k][i] <= accepted'[k][j]
    <3>1. CASE j = a + 1
      BY <1>9, <2>3, <3>1
    <3>2. CASE j # a + 1
      <4>1. i \in 1..a /\ j \in 1..a
        BY <1>6, <2>4, <3>2
      <4>. QED
        BY <1>9, <2>1, <2>4, <4>1
    <3>. QED
      BY <3>1, <3>2
  <2>. QED
    BY <1>5, <1>9, <2>3, <2>4 DEF Sorted
<1>19. \A j \in Keys : (DequeIsRecent(j) /\ Sorted(j))'
  BY <1>1, <1>17, <1>18, OtherKeys DEF LimiterInv, LimiterTypeOK
<1>20. WindowBound'
  <2>1. \A j \in Keys : j # k => accepted'[j] = accepted[j]
    BY <1>1 DEF LimiterInv, LimiterTypeOK
  <2>2. ASSUME NEW i \in 1..(a + 1), NEW j \in 1..(a + 1), j = i + lim
        PROVE  accepted'[k][j] - accepted'[k][i] > Window
    <3>1. CASE j = a + 1
      <4>1. i \in 1..a /\ i \in 1..(a - h + n)
        BY <1>6, <1>10, <2>2, <3>1
      <4>2. accepted'[k][i] < clock - Window /\ accepted'[k][i] \in Int
        BY <1>7, <1>9, <1>14, <4>1
      <4>. QED
        BY <1>7, <1>9, <3>1, <4>2
    <3>2. CASE j # a + 1
      <4>1. i \in 1..a /\ j \in 1..a
        BY <1>6, <2>2, <3>2
      <4>. QED
        BY <1>9, <2>2, <4>1 DEF LimiterInv, WindowBound, a, lim
    <3>. QED
      BY <3>1, <3>2
  <2>3. \A i, j \in 1..Len(accepted'[k]) :
          j = i + LimitOf[k] => accepted'[k][j] - accepted'[k][i] > Window
    BY <1>9, <2>2 DEF lim
  <2>. QED
    BY <2>1, <2>3 DEF LimiterInv, WindowBound
<1>. QED
  BY <1>4, <1>19, <1>20 DEF LimiterInv

LEMMA TickKeeps ==
  ASSUME LimiterInv, Tick
  PROVE  LimiterInv'
<1>1. hits' = hits /\ accepted' = accepted /\ clock' = clock + 1
  BY DEF Tick
<1>2. clock \in Int /\ Window \in Int
      /\ \A k \in Keys : \A i \in 1..Len(accepted[k]) : accepted[k][i] \in Int
  BY LimiterAssumption DEF LimiterInv, LimiterTypeOK, Times
<1>3. LimiterTypeOK'
  BY LimiterAssumption DEF LimiterInv, LimiterTypeOK, Times, Tick
<1>4. ASSUME NEW k \in Keys PROVE (DequeIsRecent(k) /\ Sorted(k))'
  <2> DEFINE h == Len(hits[k])  a == Len(accepted[k])
  <2>1. h \in Nat /\ a \in Nat /\ Dropped(k) = a - h
    BY DEF LimiterInv, LimiterTypeOK, Dropped
  <2>2. DequeIsRecent(k) /\ Sorted(k)
    BY DEF LimiterInv
  <2>3. /\ h <= a
        /\ \A i \in 1..(a - h) : accepted[k][i] < clock - Window
        /\ \A i \in 1..a : accepted[k][i] <= clock
    BY <2>1, <2>2 DEF DequeIsRecent, Sorted
  <2>4. \A i \in 1..a : accepted[k][i] <= clock + 1
    BY <1>2, <2>3
  <2>5. \A i \in 1..(a - h) : accepted[k][i] < clock + 1 - Window
    <3> HIDE DEF h
    <3>1. \A i \in 1..(a - h) : i \in 1..a
      <4> HIDE DEF a
      <4>. QED
        BY <2>1
    <3>. QED
      BY <1>2, <2>3, <3>1
  <2>6. DequeIsRecent(k)'
    <3>1. /\ Dropped(k)' = a - h /\ Len(hits'[k]) = h /\ Len(accepted'[k]) = a
          /\ accepted'[k] = accepted[k] /\ hits'[k] = hits[k] /\ clock' = clock + 1
      BY <1>1, <2>1 DEF Dropped
    <3>2. \A i \in 1..h : hits[k][i] = accepted[k][a - h + i]
      BY <2>1, <2>2 DEF DequeIsRecent
    <3>3. h <= LimitOf[k]
      BY <2>2 DEF DequeIsRecent
    <3> HIDE DEF h, a
    <3>4. DequeIsRecent(k)' <=>
            /\ Len(hits'[k]) <= Len(accepted'[k])
            /\ Len(hits'[k]) <= LimitOf[k]
            /\ \A i \in 1..Len(hits'[k]) : hits'[k][i] = accepted'[k][Dropped(k)' + i]
            /\ \A i \in 1..Dropped(k)' : accepted'[k][i] < clock' - Window
      BY DEF DequeIsRecent
    <3>5. Len(hits'[k]) <= Len(accepted'[k]) /\ Len(hits'[k]) <= LimitOf[k]
      BY <2>3, <3>1, <3>3
    <3>6. \A i \in 1..Len(hits'[k]) : hits'[k][i] = accepted'[k][Dropped(k)' + i]
      BY <3>1, <3>2
    <3>7. \A i \in 1..Dropped(k)' : accepted'[k][i] < clock' - Window
      <4>1. Dropped(k)' = a - h /\ accepted'[k] = accepted[k]
        BY <3>1
      <4>2. clock' - Window = clock + 1 - Window
        BY <1>1, <1>2
      <4>. QED
        BY <2>5, <4>1, <4>2, Zenon
    <3>. QED
      BY <3>4, <3>5, <3>6, <3>7
  <2>7. Sorted(k)'
    BY <1>1, <2>2, <2>4 DEF Sorted
  <2>. QED
    BY <2>6, <2>7
<1>5. WindowBound'
  BY <1>1 DEF LimiterInv, WindowBound
<1>. QED
  BY <1>3, <1>4, <1>5 DEF LimiterInv

\* The deque is the recent end of the history, at all times (rate_limit.py:15-27).
THEOREM LimiterInductive == LimiterSpec => []LimiterInv
<1>1. LimiterInv /\ [LimiterNext]_limiterVars => LimiterInv'
  <2> SUFFICES ASSUME LimiterInv, [LimiterNext]_limiterVars PROVE LimiterInv'
    OBVIOUS
  <2>1. CASE Tick
    BY <2>1, TickKeeps
  <2>2. ASSUME NEW k \in Keys, Refuse(k) PROVE LimiterInv'
    BY <2>2, RefuseKeeps
  <2>3. ASSUME NEW k \in Keys, LetThrough(k) PROVE LimiterInv'
    BY <2>3, LetThroughKeeps
  <2>4. CASE UNCHANGED limiterVars
    BY <2>4 DEF limiterVars, LimiterInv, LimiterTypeOK, DequeIsRecent, Dropped,
                Sorted, WindowBound
  <2>. QED
    BY <2>1, <2>2, <2>3, <2>4 DEF LimiterNext
<1>. QED
  BY <1>1, LimiterStarts, PTL DEF LimiterSpec

\* No window of any length the endpoints ask for holds more hits than the
\* limit (rate_limit.py:13-28).
THEOREM NeverOverTheLimit == LimiterSpec => []WindowBound
BY LimiterInductive, PTL DEF LimiterInv

LEMMA DueWhenInductive == LimiterInv => RefusalsAreDue
<1> SUFFICES ASSUME LimiterInv, NEW k \in Keys
             PROVE  LET m == Len(accepted[k]) - LimitOf[k] IN
                    (\E n \in 0..Len(hits[k]) : Refused(k, n)) <=>
                      (m >= 0 /\ accepted[k][m + 1] >= clock - Window)
  BY DEF RefusalsAreDue
<1> DEFINE h == Len(hits[k])  a == Len(accepted[k])  lim == LimitOf[k]
<1>1. h \in Nat /\ a \in Nat /\ lim \in Nat \ {0}
  BY LimiterAssumption DEF LimiterInv, LimiterTypeOK
<1>2. /\ clock \in Int /\ Window \in Int /\ clock - Window \in Int
      /\ \A i \in 1..a : accepted[k][i] \in Int
  BY LimiterAssumption DEF LimiterInv, LimiterTypeOK, Times
<1>3. DequeIsRecent(k) /\ Sorted(k)
  BY DEF LimiterInv
<1>4. /\ h <= a /\ h <= lim
      /\ \A i \in 1..h : hits[k][i] = accepted[k][a - h + i]
      /\ \A i \in 1..(a - h) : accepted[k][i] < clock - Window
      /\ \A i, j \in 1..a : i <= j => accepted[k][i] <= accepted[k][j]
  BY <1>3 DEF DequeIsRecent, Sorted, Dropped
<1>5. \A n \in 0..h : Refused(k, n) <=> Expired(k, n) /\ h - n >= lim
  BY WhatIsLeft DEF Refused
<1>6. \A n \in 0..h : Expired(k, n) <=>
        /\ \A i \in 1..n : hits[k][i] < clock - Window
        /\ n < h => hits[k][n + 1] >= clock - Window
  BY DEF Expired
<1> HIDE DEF h, a, lim
<1>7. ASSUME NEW n \in 0..h, Refused(k, n)
      PROVE  a - lim >= 0 /\ accepted[k][a - lim + 1] >= clock - Window
  <2>1. n = 0 /\ h = lim
    BY <1>1, <1>4, <1>5, <1>7
  <2>2. hits[k][1] >= clock - Window
    BY <1>1, <1>6, <1>5, <1>7, <2>1
  <2>3. hits[k][1] = accepted[k][a - h + 1]
    BY <1>1, <1>4, <2>1
  <2>. QED
    BY <1>1, <1>4, <2>1, <2>2, <2>3
<1>8. ASSUME a - lim >= 0, accepted[k][a - lim + 1] >= clock - Window
      PROVE  \E n \in 0..h : Refused(k, n)
  <2>1. a - lim + 1 \in 1..a
    BY <1>1, <1>8
  <2>2. ~(a - lim + 1 \in 1..(a - h))
    BY <1>2, <1>4, <1>8, <2>1
  <2>3. h = lim
    BY <1>1, <1>4, <2>1, <2>2
  <2>4. hits[k][1] >= clock - Window
    BY <1>1, <1>4, <1>8, <2>3
  <2>5. Expired(k, 0) /\ h - 0 >= lim
    BY <1>1, <1>6, <2>3, <2>4
  <2>. QED
    BY <1>1, <1>5, <2>5
<1>. QED
  BY <1>7, <1>8 DEF h, a, lim

\* Nobody is refused for less than the limit in a window, nor let through
\* above it (rate_limit.py:18-25).
THEOREM RefusedWhenDue == LimiterSpec => []RefusalsAreDue
BY LimiterInductive, DueWhenInductive, PTL

=============================================================================
