------------------------------ MODULE KeyedSet ------------------------------
(***************************************************************************)
(* What a hash table promises: a set of items with different keys, from    *)
(* which an item is got by its key.                                        *)
(***************************************************************************)
EXTENDS FiniteSets

CONSTANTS
  Item,
  getKey          \* [Item -> key]

VARIABLES
  items,
  result,         \* the key that was last asked for, and what was returned
  ended           \* Nachos was aborted

None == <<"none", "none">>
WithKey(key) == {item \in items : getKey[item] = key}

Insert(item) ==
  /\ WithKey(getKey[item]) = {}
  /\ items' = items \cup {item}
  /\ result' = None
  /\ ended' = ended

Remove(key) ==
  /\ \E item \in WithKey(key) : items' = items \ {item} /\ result' = <<key, item>>
  /\ ended' = ended

Find(key) ==
  /\ result' \in {key} \X (IF WithKey(key) = {} THEN {"NULL"} ELSE WithKey(key))
  /\ UNCHANGED <<items, ended>>

(* A key that is taken, or is not there, ends Nachos. *)
Abort ==
  /\ ended' = TRUE
  /\ UNCHANGED <<items, result>>

Init == items = {} /\ result = None /\ ended = FALSE
Next ==
  /\ ~ended
  /\ \/ \E item \in Item : Insert(item) \/ Remove(getKey[item]) \/ Find(getKey[item])
     \/ Abort

(* A step, or none *)
Step == [Next]_<<items, result, ended>>

Spec == Init /\ [][Step]_<<items, result, ended>>
=============================================================================
