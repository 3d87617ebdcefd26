-------------------------------- MODULE Bitmap --------------------------------
(***************************************************************************)
(* The bitmap (lib/bitmap.cc): bits in the words of an array.  The file    *)
(* system and the page tables use it as a set.                             *)
(***************************************************************************)
EXTENDS Integers, FiniteSets

CONSTANTS numBits, BitsInWord

BitmapAssumption == numBits \in Nat \ {0} /\ BitsInWord \in Nat \ {0}

VARIABLES
  map,            \* [0 .. numWords - 1 -> 0 .. 2^BitsInWord - 1]
  result

vars == <<map, result>>

Bit == 0 .. numBits - 1
numWords == (numBits + BitsInWord - 1) \div BitsInWord

Init == map = [w \in 0 .. numWords - 1 |-> 0] /\ result = 0

Word(which) == which \div BitsInWord
Mask(which) == 2 ^ (which % BitsInWord)
Test(which) == (map[Word(which)] \div Mask(which)) % 2 = 1

(* The word |= the mask *)
With(which) == IF Test(which) THEN map ELSE [map EXCEPT ![Word(which)] = @ + Mask(which)]

Mark(which) == map' = With(which) /\ result' = 0

(* The word &= the inverse of the mask *)
Clear(which) ==
  /\ map' = IF Test(which) THEN [map EXCEPT ![Word(which)] = @ - Mask(which)] ELSE map
  /\ result' = 0

FindAndSet ==
  \/ /\ \A i \in Bit : Test(i)
     /\ result' = -1
     /\ map' = map
  \/ \E i \in Bit :
     /\ ~Test(i)
     /\ \A k \in 0 .. i - 1 : Test(k)
     /\ map' = With(i)
     /\ result' = i

NumClear ==
  LET Count[i \in 0 .. numBits] == IF i = 0 THEN 0 ELSE Count[i - 1] + (IF Test(i - 1) THEN 0 ELSE 1)
  IN  result' = Count[numBits] /\ map' = map

Next == FindAndSet \/ NumClear \/ \E which \in Bit : Mark(which) \/ Clear(which)
Spec == Init /\ [][Next]_vars

-----------------------------------------------------------------------------
(* Properties.                                                              *)

(* The words are a set of numbers. *)
Set == INSTANCE BitSet WITH marked <- {which \in Bit : Test(which)}
IsSet == Set!Spec
=============================================================================
