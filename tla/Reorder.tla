------------------------------ MODULE Reorder ------------------------------
(***************************************************************************)
(* Reordering a list by hand: the whole of a table, or the rows of one     *)
(* parent (the stops of a route, the routes from a province).  The request *)
(* checks its ids in its snapshot and then updates one row after another;  *)
(* each update takes the lock of its row, reads the latest row, and holds  *)
(* the lock until the commit.  prio is the latest value, committed or not; *)
(* what a rolled back request wrote is undone.                             *)
(***************************************************************************)
EXTENDS Integers, Sequences, FiniteSets, SequencesExt

CONSTANTS
  Items,    \* ids of the table
  Scopes,   \* parents
  Whole,    \* the scope of a reorder of the whole table
  Editors,  \* requests that run at a time
  Unborn, Deleted,  \* ids without a row: not given out yet, used up
  Priorities,  \* bound: priorities a form may ask for
  Nil       \* no request, no owner of a lock

Job == [ids : Seq(Items), scope : Scopes \cup {Whole}, done : Nat,
        before : [Items -> Int]]

ASSUME ReorderAssumption ==
  /\ IsFiniteSet(Items)
  /\ Whole \notin Scopes
  /\ Unborn \notin Scopes /\ Deleted \notin Scopes /\ Unborn # Deleted
  /\ Priorities \subseteq Int
  /\ Nil \notin Editors \cup Job

VARIABLES
  home,  \* the parent of each row
  prio,  \* priority: lists are sorted by it, highest first
  held,  \* the request that holds the lock of a row
  job    \* the reorder a request is in

reorderVars == <<home, prio, held, job>>

Lives(i) == home[i] \in Scopes
InScope(i, g) == Lives(i) /\ (g = Whole \/ home[i] = g)

ReorderTypeOK ==
  /\ home \in [Items -> Scopes \cup {Unborn, Deleted}]
  /\ prio \in [Items -> Int]
  /\ held \in [Items -> Editors \cup {Nil}]
  /\ job \in [Editors -> Job \cup {Nil}]

\* Rows start with the default priority.
ReorderInit ==
  /\ home \in [Items -> Scopes \cup {Unborn}]
  /\ prio = [i \in Items |-> 0]
  /\ held = [i \in Items |-> Nil]
  /\ job = [e \in Editors |-> Nil]

-----------------------------------------------------------------------------
(* reorder_full_table and reorder_scoped.                                  *)

\* The ids are those of the scope, each once.
BeginReorder(e, g) ==
  /\ job[e] = Nil
  /\ \E ids \in SetToSeqs({i \in Items : InScope(i, g)}) :
       /\ ids # <<>>
       /\ job' = [job EXCEPT ![e] =
            [ids |-> ids, scope |-> g, done |-> 0, before |-> [i \in Items |-> 0]]]
  /\ UNCHANGED <<home, prio, held>>

NextId(e) == job[e].ids[job[e].done + 1]

\* The first id gets the highest priority.
PrioAt(e, k) == Len(job[e].ids) + 1 - k

\* Mutant of UpdateNext: each update commits on its own.
UpdateAlone(e) ==
  /\ job[e] # Nil /\ job[e].done < Len(job[e].ids)
  /\ prio' = [prio EXCEPT ![NextId(e)] =
       IF InScope(NextId(e), job[e].scope) THEN PrioAt(e, job[e].done + 1) ELSE @]
  /\ job' = [job EXCEPT ![e].done = @ + 1, ![e].before[NextId(e)] = prio[NextId(e)]]
  /\ UNCHANGED <<home, held>>

\* UPDATE ... WHERE id = i AND scope: a row that left the scope is locked and
\* left alone, a row that is gone matches nothing.
UpdateNext(e) ==
  /\ job[e] # Nil /\ job[e].done < Len(job[e].ids)
  /\ held[NextId(e)] \in {Nil, e}
  /\ prio' = [prio EXCEPT ![NextId(e)] =
       IF InScope(NextId(e), job[e].scope) THEN PrioAt(e, job[e].done + 1) ELSE @]
  /\ held' = [held EXCEPT ![NextId(e)] = IF Lives(NextId(e)) THEN e ELSE @]
  /\ job' = [job EXCEPT ![e].done = @ + 1, ![e].before[NextId(e)] = prio[NextId(e)]]
  /\ UNCHANGED home

EndsJob(e) ==
  /\ job' = [job EXCEPT ![e] = Nil]
  /\ held' = [i \in Items |-> IF held[i] = e THEN Nil ELSE held[i]]
  /\ UNCHANGED home

CommitReorder(e) ==
  /\ job[e] # Nil /\ job[e].done = Len(job[e].ids)
  /\ EndsJob(e)
  /\ UNCHANGED prio

\* A dead client, a lock wait that is too long, or the victim of a deadlock:
\* two reorders may take the same rows in opposite orders.
UndoReorder(e) ==
  /\ job[e] # Nil
  /\ EndsJob(e)
  /\ prio' = [i \in Items |-> IF held[i] = e THEN job[e].before[i] ELSE prio[i]]

-----------------------------------------------------------------------------
(* The other edits of the table; each waits for the row it writes.         *)

Committed(i) == IF held[i] = Nil THEN prio[i] ELSE job[held[i]].before[i]

\* One more than the highest priority of the rows S, as others see them.
After(S) == IF S = {} THEN {1}
  ELSE {Committed(i) + 1 : i \in {j \in S : \A k \in S : Committed(k) <= Committed(j)}}

\* POST: the priority is the form's or comes after those of the table, for a
\* stop of a route after those of its route.  (A maximum that is out of date
\* when the row comes is as if a form had asked for it.)
AddRow(i, g) ==
  /\ home[i] = Unborn
  /\ home' = [home EXCEPT ![i] = g]
  /\ \E n \in Priorities \cup After({j \in Items : Lives(j)})
                         \cup After({j \in Items : home[j] = g}) :
       prio' = [prio EXCEPT ![i] = n]
  /\ UNCHANGED <<held, job>>

\* PUT: the form's priority, if it has one, and its parent, both possibly the
\* old ones.
SaveRow(i, g) ==
  /\ Lives(i) /\ held[i] = Nil
  /\ home' = [home EXCEPT ![i] = g]
  /\ \E n \in Priorities \cup {prio[i]} : prio' = [prio EXCEPT ![i] = n]
  /\ UNCHANGED <<held, job>>

RemoveRow(i) ==
  /\ Lives(i) /\ held[i] = Nil
  /\ home' = [home EXCEPT ![i] = Deleted]
  /\ UNCHANGED <<prio, held, job>>

ReorderNext ==
  \/ \E e \in Editors :
       \/ \E g \in Scopes \cup {Whole} : BeginReorder(e, g)
       \/ UpdateNext(e) \/ CommitReorder(e) \/ UndoReorder(e)
  \/ \E i \in Items : RemoveRow(i) \/ \E g \in Scopes : AddRow(i, g) \/ SaveRow(i, g)

ReorderSpec == ReorderInit /\ [][ReorderNext]_reorderVars

-----------------------------------------------------------------------------
\* A reorder takes effect whole: whatever other reorders, saves of a priority
\* or a parent and deletes do between its updates, the rows it has written keep
\* their new place until it commits, and a row that had left its parent by then
\* keeps the old one (reorder.py:38-44, 72-79).
WrittenStays == \A e \in Editors : job[e] # Nil =>
  \A k \in 1..job[e].done : LET i == job[e].ids[k] IN
    Lives(i) => prio[i] = IF InScope(i, job[e].scope) THEN PrioAt(e, k)
                                                      ELSE job[e].before[i]

\* The place each id of a request is to get.
RankOf(e) == [i \in {job[e].ids[k] : k \in 1..Len(job[e].ids)} |->
                PrioAt(e, CHOOSE k \in 1..Len(job[e].ids) : job[e].ids[k] = i)]

\* The request of an editor, as ListOrder has it.
Asked(e) == IF job[e] = Nil THEN {}
            ELSE {[scope |-> job[e].scope, rank |-> RankOf(e), step |-> job[e].done]}

Atomic == INSTANCE ListOrder WITH
  order <- [i \in Items |-> Committed(i)],
  asked <- [e \in Editors |-> Asked(e)]

\* What others can see of the priorities, the committed ones, changes by a
\* reorder once, when it commits: its updates, one row at a time among those of
\* other reorders, saves of the same rows, deletes and rollbacks, show all at
\* once or not at all (reorder.py:37-44).
TakesEffectWhole == Atomic!Spec

=============================================================================
