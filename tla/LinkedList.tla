----------------------------- MODULE LinkedList -----------------------------
(***************************************************************************)
(* List and SortedList (lib/list.cc): elements on the heap that point to   *)
(* the next, with pointers to the first and the last and a count.          *)
(***************************************************************************)
EXTENDS Integers, Sequences, FiniteSets

CONSTANTS
  Item,
  Key,            \* [Item -> Int], what compare compares
  Address         \* where elements are allocated

NULL == 0
AddressAssumption == NULL \notin Address

VARIABLES
  sorted,         \* whether the list is a SortedList
  heap,           \* [address -> item and next], of the elements that are allocated
  first, last, numInList,
  result,         \* what the last operation returned
  abort           \* "no", or who broke an assertion: "caller" or "list"

listVars == <<heap, first, last, numInList>>
vars == <<sorted, heap, first, last, numInList, result, abort>>

Init ==
  /\ sorted \in BOOLEAN
  /\ heap = [a \in {} |-> NULL]
  /\ first = NULL
  /\ last = NULL
  /\ numInList = 0
  /\ result = "none"
  /\ abort = "no"

(* The elements in the order of a walk along next; a corrupt list could have *)
(* a circle, so that the walk is bounded.                                    *)
Walk ==
  LET From[n \in 0 .. Cardinality(Address), ptr \in Address \cup {NULL}] ==
        IF n = 0 \/ ptr = NULL \/ ptr \notin DOMAIN heap THEN <<>> ELSE <<ptr>> \o From[n - 1, heap[ptr].next]
  IN  From[Cardinality(Address), first]

Walked == {Walk[k] : k \in 1 .. Len(Walk)}
IsInList(item) == \E ptr \in Walked : heap[ptr].item = item
IsEmpty == numInList = 0

compare(x, y) == Key[x] - Key[y]

Free == CHOOSE a \in Address \ DOMAIN heap : \A b \in Address \ DOMAIN heap : a <= b

(* The heap with a new element, which is also the next of prev. *)
New(item, next, prev) ==
  [a \in DOMAIN heap \cup {Free} |->
     IF a = Free THEN [item |-> item, next |-> next]
     ELSE IF a = prev THEN [heap[a] EXCEPT !.next = Free] ELSE heap[a]]

Aborts(who) == abort' = who /\ UNCHANGED <<listVars, result>>

(* The end of an insertion. *)
Inserted(item) ==
  /\ numInList' = numInList + 1
  /\ result' = "none"
  /\ abort' = IF \E a \in DOMAIN heap' : heap'[a].item = item THEN abort ELSE "list"

AppendItem(item) ==
  IF IsInList(item) THEN Aborts("caller")
  ELSE /\ heap' = New(item, NULL, last)
       /\ first' = IF IsEmpty THEN Free ELSE first
       /\ last' = Free
       /\ Inserted(item)

PrependItem(item) ==
  IF IsInList(item) THEN Aborts("caller")
  ELSE /\ heap' = New(item, first, NULL)
       /\ first' = Free
       /\ last' = IF IsEmpty THEN Free ELSE last
       /\ Inserted(item)

(* Mutant: equal items are put before the ones that are there. *)
BeforeOrEqual(item, ptr) == compare(item, heap[ptr].item) <= 0

(* Whether an item goes before the element. *)
Before(item, ptr) == compare(item, heap[ptr].item) < 0

(* SortedList::Insert *)
Insert(item) ==
  LET later == {ptr \in Walked : heap[ptr].next # NULL /\ Before(item, heap[ptr].next)}
      ptr == Walk[CHOOSE k \in 1 .. Len(Walk) : Walk[k] \in later /\ \A l \in 1 .. k - 1 : Walk[l] \notin later]
  IN  CASE IsInList(item) -> Aborts("caller")
        [] ~IsInList(item) /\ ~IsEmpty /\ Before(item, first) -> PrependItem(item)
        [] ~IsInList(item) /\ ~IsEmpty /\ ~Before(item, first) /\ later # {} ->
             /\ heap' = New(item, heap[ptr].next, ptr)
             /\ Inserted(item)
             /\ UNCHANGED <<first, last>>
        [] OTHER -> AppendItem(item)

Without(element) == [a \in DOMAIN heap \ {element} |-> heap[a]]

(* Take off the first element. *)
TakeFirst ==
  /\ heap' = Without(first)
  /\ first' = IF first = last THEN NULL ELSE heap[first].next
  /\ last' = IF first = last THEN NULL ELSE last
  /\ numInList' = numInList - 1
  /\ abort' = abort

RemoveFront ==
  IF IsEmpty THEN Aborts("caller")
  ELSE TakeFirst /\ result' = heap[first].item

(* Take off the element after prev. *)
TakeAfter(prev) ==
  LET ptr == heap[prev].next IN
  /\ heap' = [Without(ptr) EXCEPT ![prev].next = heap[ptr].next]
  /\ last' = IF heap[ptr].next = NULL THEN prev ELSE last
  /\ numInList' = numInList - 1
  /\ UNCHANGED <<first, abort>>

Remove(item) ==
  CASE ~IsInList(item) -> Aborts("caller")
    [] IsInList(item) /\ heap[first].item = item -> TakeFirst /\ result' = "none"
    [] OTHER -> \E k \in 1 .. Len(Walk) - 1 :
                  heap[Walk[k + 1]].item = item /\ TakeAfter(Walk[k]) /\ result' = "none"

(* A SortedList hides Append and Prepend. *)
Next ==
  /\ abort = "no"
  /\ sorted' = sorted
  /\ \/ RemoveFront
     \/ \E item \in Item : \/ Remove(item)
                           \/ ~sorted /\ (AppendItem(item) \/ PrependItem(item))
                           \/ sorted /\ Insert(item)

Spec == Init /\ [][Next]_vars

-----------------------------------------------------------------------------
(* Properties.                                                              *)

(* List::SanityCheck and SortedList::SanityCheck *)
SanityCheck ==
  /\ first = NULL => numInList = 0 /\ last = NULL
  /\ first # NULL => /\ Len(Walk) = numInList
                     /\ last = Walk[numInList]
                     /\ last \in DOMAIN heap
                     /\ heap[last].next = NULL
  /\ sorted => \A k \in 1 .. Len(Walk) - 1 : compare(heap[Walk[k]].item, heap[Walk[k + 1]].item) <= 0

(* The first, the last, the count and the links agree after every operation. *)
ListIsSane == SanityCheck /\ abort # "list"

(* Elements are deleted when they leave the list, and not before: what is    *)
(* allocated is what the list reaches.                                       *)
NoElementLeaks == DOMAIN heap = Walked

(* The list is a sequence of its items: in the order they were put, stable   *)
(* among equals if it is sorted.                                             *)
Sequence == INSTANCE ItemSequence WITH
  items <- [k \in 1 .. Len(Walk) |-> heap[Walk[k]].item], ended <- abort # "no"
IsSequence == Sequence!Spec /\ [](ListIsSane /\ NoElementLeaks)
=============================================================================
