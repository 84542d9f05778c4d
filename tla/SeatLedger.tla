----------------------------- MODULE SeatLedger -----------------------------
(***************************************************************************)
(* What the booking engine promises of the seats of its departures, with   *)
(* no request, lock or row: seats are sold within the capacity of the      *)
(* departure or not at all; a cancelled booking shelves its seats; and a   *)
(* shelved booking may be revived, which is the one way to sell seats      *)
(* without asking the capacity.                                            *)
(***************************************************************************)
EXTENDS Naturals, FiniteSets

CONSTANTS
  Departures,   \* a trip on a date
  Units         \* what is sold: a seat of a booking

VARIABLES
  sold,         \* seats sold on a departure
  shelved,      \* seats of its cancelled bookings
  capacity      \* seats of the bus that serves it

ledger == <<sold, shelved, capacity>>

Init ==
  /\ sold = [dep \in Departures |-> {}]
  /\ shelved = [dep \in Departures |-> {}]
  /\ capacity \in [Departures -> Nat]

Sell(dep, S) ==
  /\ S \cap (sold[dep] \cup shelved[dep]) = {}
  /\ Cardinality(sold[dep] \cup S) <= capacity[dep]
  /\ sold' = [sold EXCEPT ![dep] = @ \cup S]
  /\ UNCHANGED <<shelved, capacity>>

GiveBack(dep, S) ==
  /\ S \subseteq sold[dep]
  /\ sold' = [sold EXCEPT ![dep] = @ \ S]
  /\ UNCHANGED <<shelved, capacity>>

Shelve(dep, S) ==
  /\ S \subseteq sold[dep]
  /\ sold' = [sold EXCEPT ![dep] = @ \ S]
  /\ shelved' = [shelved EXCEPT ![dep] = @ \cup S]
  /\ UNCHANGED capacity

Revive(dep, S) ==
  /\ S \subseteq shelved[dep]
  /\ sold' = [sold EXCEPT ![dep] = @ \cup S]
  /\ shelved' = [shelved EXCEPT ![dep] = @ \ S]
  /\ UNCHANGED capacity

Resize ==
  /\ capacity' \in [Departures -> Nat]
  /\ UNCHANGED <<sold, shelved>>

Next ==
  \/ \E dep \in Departures, S \in SUBSET Units :
       Sell(dep, S) \/ GiveBack(dep, S) \/ Shelve(dep, S) \/ Revive(dep, S)
  \/ Resize

Spec == Init /\ [][Next]_ledger

=============================================================================
