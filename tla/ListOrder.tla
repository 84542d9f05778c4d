------------------------------ MODULE ListOrder ------------------------------
(***************************************************************************)
(* What reordering promises, with no lock and no single update: while a    *)
(* request is at work nothing shows, and then the rows of its list get     *)
(* their new places in one step, where those that have left the list by    *)
(* then keep the old ones.  Other requests may save any row meanwhile.     *)
(***************************************************************************)
EXTENDS Integers, FiniteSets, Functions

CONSTANTS
  Items,            \* rows a table may have
  Scopes,           \* parents
  Whole,            \* the list of all rows, whatever their parent
  Editors,          \* who may ask for a new order
  Unborn, Deleted   \* where a row is before and after its time

VARIABLES
  home,   \* the parent of each row
  order,  \* the priority of each row
  asked   \* the reorder a request is at, if any, and how far it has come

list == <<home, order, asked>>

Lives(i)     == home[i] \in Scopes
Listed(i, g) == Lives(i) /\ (g = Whole \/ home[i] = g)

Init ==
  /\ home \in [Items -> Scopes \cup {Unborn}]
  /\ order = [i \in Items |-> 0]
  /\ asked = [e \in Editors |-> {}]

\* The rows of a list are to be ranked from their number, the first, to 1.
Ask(e, g) == LET S == {i \in Items : Listed(i, g)} IN
  /\ asked[e] = {}
  /\ S # {}
  /\ \E rank \in Bijection(S, 1..Cardinality(S)) :
       asked' = [asked EXCEPT ![e] = {[scope |-> g, rank |-> rank, step |-> 0]}]
  /\ UNCHANGED <<home, order>>

\* Work on a request shows nothing.
Prepare(e) ==
  /\ \E r \in asked[e] : asked' = [asked EXCEPT ![e] = {[r EXCEPT !.step = @ + 1]}]
  /\ UNCHANGED <<home, order>>

Arrange(e) ==
  /\ \E r \in asked[e] : order' = [i \in Items |->
       IF i \in DOMAIN r.rank /\ Listed(i, r.scope) THEN r.rank[i] ELSE order[i]]
  /\ asked' = [asked EXCEPT ![e] = {}]
  /\ UNCHANGED home

Withdraw(e) ==
  /\ asked[e] # {}
  /\ asked' = [asked EXCEPT ![e] = {}]
  /\ UNCHANGED <<home, order>>

\* A row is created or edited; the form's priority may be any.
Save(i, g) ==
  /\ home[i] # Deleted
  /\ home' = [home EXCEPT ![i] = g]
  /\ \A j \in Items : IF j = i THEN order'[j] \in Int ELSE order'[j] = order[j]
  /\ UNCHANGED asked

Remove(i) ==
  /\ Lives(i)
  /\ home' = [home EXCEPT ![i] = Deleted]
  /\ UNCHANGED <<order, asked>>

Next ==
  \/ \E e \in Editors :
       \/ \E g \in Scopes \cup {Whole} : Ask(e, g)
       \/ Prepare(e) \/ Arrange(e) \/ Withdraw(e)
  \/ \E i \in Items : Remove(i) \/ \E g \in Scopes : Save(i, g)

Spec == Init /\ [][Next]_list

=============================================================================
