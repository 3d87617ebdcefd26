------------------------------ MODULE ReadyList ------------------------------
(***************************************************************************)
(* The ready list of threads/scheduler.cc: a SortedList (lib/list.cc) of   *)
(* threads ordered by Scheduler::Compare, highest priority first.  The     *)
(* operators are pure: they take the priorities and the list as arguments. *)
(***************************************************************************)
EXTENDS Integers, Sequences, FiniteSets

(* The elements of a list. *)
ToSet(list) == {list[i] : i \in 1 .. Len(list)}

(* The list with the item at place k. *)
InsertAt(list, k, item) ==
  [i \in 1 .. Len(list) + 1 |->
     IF i < k THEN list[i] ELSE IF i = k THEN item ELSE list[i-1]]

(* The first of a set of places, or "end" when there is none. *)
FirstPlace(places, end) ==
  IF places = {} THEN end ELSE CHOOSE i \in places : \A j \in places : i <= j

-----------------------------------------------------------------------------
(* Scheduler::Compare.  A negative result means that x goes before y. *)
Compare(priority, x, y) ==
  IF priority[x] > priority[y] THEN -1
  ELSE IF priority[x] = priority[y] THEN 0
  ELSE 1

(* Mutant: the comparison without the case of equal priorities. *)
InsertBeforeEqual(priority, list, item) ==
  LET bigger == {i \in 1 .. Len(list) : Compare(priority, item, list[i]) <= 0}
  IN  InsertAt(list, FirstPlace(bigger, Len(list) + 1), item)

(* Mutant: the list as a plain FIFO list. *)
InsertAtEnd(priority, list, item) == Append(list, item)

(* SortedList::Insert.  The item goes in front of the first element that is *)
(* strictly bigger, and to the end of the list when there is none.          *)
Insert(priority, list, item) ==
  LET bigger == {i \in 1 .. Len(list) : Compare(priority, item, list[i]) < 0}
  IN  InsertAt(list, FirstPlace(bigger, Len(list) + 1), item)

(* What SortedList::SanityCheck tests: no element is bigger than a later one. *)
Sorted(priority, list) ==
  \A i, j \in 1 .. Len(list) :
    i < j => Compare(priority, list[i], list[j]) <= 0

(* No element occurs twice (the ASSERT(!IsInList(item)) of Insert). *)
NoDuplicates(list) ==
  \A i, j \in 1 .. Len(list) : list[i] = list[j] => i = j
=============================================================================
