-------------------------------- MODULE BitSet --------------------------------
(* What a bitmap promises: a set of numbers below numBits. *)
EXTENDS Integers, FiniteSets

CONSTANT numBits

VARIABLES
  marked,
  result          \* what the last operation returned

Bit == 0 .. numBits - 1

Mark(which) == marked' = marked \cup {which} /\ result' = 0
Clear(which) == marked' = marked \ {which} /\ result' = 0
NumClear == result' = Cardinality(Bit \ marked) /\ marked' = marked

FindAndSet ==
  \/ marked = Bit /\ result' = -1 /\ marked' = marked
  \/ \E which \in Bit \ marked :
       /\ 0 .. which - 1 \subseteq marked
       /\ marked' = marked \cup {which}
       /\ result' = which

Init == marked = {} /\ result = 0
Next == NumClear \/ FindAndSet \/ \E which \in Bit : Mark(which) \/ Clear(which)
Spec == Init /\ [][Next]_<<marked, result>>
=============================================================================
