---------------------------- MODULE ItemSequence ----------------------------
(***************************************************************************)
(* What a list promises: a sequence of different items.  Every operation   *)
(* is asked for properly, or Nachos is aborted and nothing follows.        *)
(***************************************************************************)
EXTENDS Integers, Sequences

CONSTANTS
  Item,
  Key             \* [Item -> Int], by which a sorted list is ordered

VARIABLES
  sorted,         \* whether the list is a SortedList
  items,
  result,         \* what the last operation returned
  ended           \* Nachos was aborted

Members == {items[k] : k \in 1 .. Len(items)}

(* The first items whose keys are not greater come before it. *)
Place(item) == CHOOSE k \in 0 .. Len(items) :
                 /\ \A l \in 1 .. k : Key[items[l]] <= Key[item]
                 /\ k < Len(items) => Key[items[k + 1]] > Key[item]

Put(item, k) ==
  /\ item \notin Members
  /\ items' = SubSeq(items, 1, k) \o <<item>> \o SubSeq(items, k + 1, Len(items))
  /\ result' = "none"
  /\ ended' = ended

Take(k) ==
  /\ items' = SubSeq(items, 1, k - 1) \o SubSeq(items, k + 1, Len(items))
  /\ ended' = ended

PutLast(item) == ~sorted /\ Put(item, Len(items))
PutFirst(item) == ~sorted /\ Put(item, 0)
PutInOrder(item) == sorted /\ Put(item, Place(item))
TakeFirst == items # <<>> /\ Take(1) /\ result' = Head(items)
TakeItem(item) == \E k \in 1 .. Len(items) : items[k] = item /\ Take(k) /\ result' = "none"
Abort == ended' = TRUE /\ UNCHANGED <<items, result>>

Init == sorted \in BOOLEAN /\ items = <<>> /\ result = "none" /\ ended = FALSE
Next ==
  /\ ~ended
  /\ sorted' = sorted
  /\ \/ \E item \in Item : PutLast(item) \/ PutFirst(item) \/ PutInOrder(item) \/ TakeItem(item)
     \/ TakeFirst
     \/ Abort

Spec == Init /\ [][Next]_<<sorted, items, result, ended>>
=============================================================================
