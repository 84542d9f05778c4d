----------------------------- MODULE StayLedger -----------------------------
(***************************************************************************)
(* What booking a stay promises, with no request, lock or overlap count: a *)
(* stay takes what it asks for in every one of its nights, within the      *)
(* stock, or in none; a cancelled stay is shelved whole and may be revived *)
(* whole, the one way to take without asking the stock.                    *)
(***************************************************************************)
EXTENDS Naturals, FiniteSets

CONSTANTS
  Products,   \* what is booked by the night
  Nights,
  Parties,    \* what one stay may ask for: the set of its rooms, or of its guests
  Closed      \* no stock: the product is gone

VARIABLES
  taken,      \* units taken of a product in a night
  shelved,    \* units of its cancelled bookings
  stock       \* units there are in each night

stays == <<taken, shelved, stock>>

Init ==
  /\ taken = [p \in Products |-> [night \in Nights |-> {}]]
  /\ shelved = [p \in Products |-> [night \in Nights |-> {}]]
  /\ stock \in [Products -> Nat]

Unused(S) == \A p \in Products, night \in Nights :
  S \cap (taken[p][night] \cup shelved[p][night]) = {}

Take(p, S) ==
  /\ stock[p] # Closed
  /\ Unused(S)
  /\ \E N \in SUBSET Nights :
       /\ \A night \in N : Cardinality(taken[p][night] \cup S) <= stock[p]
       /\ taken' = [taken EXCEPT ![p] =
            [night \in Nights |-> IF night \in N THEN @[night] \cup S ELSE @[night]]]
  /\ UNCHANGED <<shelved, stock>>

Shelve(p, S) ==
  /\ taken' = [taken EXCEPT ![p] = [night \in Nights |-> @[night] \ S]]
  /\ shelved' = [shelved EXCEPT ![p] =
       [night \in Nights |-> @[night] \cup (S \cap taken[p][night])]]
  /\ UNCHANGED stock

Revive(p, S) ==
  /\ taken' = [taken EXCEPT ![p] =
       [night \in Nights |-> @[night] \cup (S \cap shelved[p][night])]]
  /\ shelved' = [shelved EXCEPT ![p] = [night \in Nights |-> @[night] \ S]]
  /\ UNCHANGED stock

Restock(p) ==
  /\ stock[p] # Closed /\ stock'[p] \in Nat
  /\ stock' = [stock EXCEPT ![p] = stock'[p]]
  /\ UNCHANGED <<taken, shelved>>

Close(p) ==
  /\ stock[p] # Closed
  /\ stock' = [stock EXCEPT ![p] = Closed]
  /\ taken' = [taken EXCEPT ![p] = [night \in Nights |-> {}]]
  /\ shelved' = [shelved EXCEPT ![p] = [night \in Nights |-> {}]]

Next == \E p \in Products :
  \/ Restock(p) \/ Close(p)
  \/ \E S \in Parties : Take(p, S) \/ Shelve(p, S) \/ Revive(p, S)

Spec == Init /\ [][Next]_stays

=============================================================================
