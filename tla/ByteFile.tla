------------------------------ MODULE ByteFile ------------------------------
(***************************************************************************)
(* What an open file promises: a sequence of bytes, read and written at a  *)
(* position that each handle has for itself, or at one that is given.      *)
(* Growing files are those of the host system (FILESYS_STUB); the others   *)
(* keep the size with which they were created.  Creating a growing file    *)
(* again empties it.                                                       *)
(***************************************************************************)
EXTENDS Integers, Sequences

CONSTANTS
  Handle,   \* the open files
  Byte,     \* the values of a byte; 0 fills a gap
  Chunk,    \* what is written in one request
  Most,     \* the most bytes that one reads
  Far,      \* the last position of a request
  Growing

VARIABLES contents, position, answer

Result(count, bytes) == [count |-> count, bytes |-> bytes]
None == Result(-1, <<>>)
Smaller(m, n) == IF m < n THEN m ELSE n

Read(old, at, n) == SubSeq(old, at + 1, Smaller(at + n, Len(old)))

(* What of the bytes is written, and the contents then. *)
Accepted(old, from, at) ==
  IF Growing THEN from ELSE SubSeq(from, 1, Smaller(Len(from), Len(old) - at))
Overlay(old, from, at) ==
  LET end == at + Len(from) IN
  IF from = <<>> THEN old
  ELSE [i \in 1 .. IF end < Len(old) THEN Len(old) ELSE end |->
         IF i \in at + 1 .. end THEN from[i - at] ELSE IF i <= Len(old) THEN old[i] ELSE 0]

Moves(h, n) == position' = [position EXCEPT ![h] = @ + n]

Reads(old, at, n) == answer' = Result(Len(Read(old, at, n)), Read(old, at, n))

Writes(old, new, at, from) ==
  LET done == Accepted(old, from, at) IN
  answer' = Result(Len(done), <<>>) /\ new = Overlay(old, done, at)

Init == contents \in Seq(Byte) /\ position = [h \in Handle |-> 0] /\ answer = None

(* A call takes the contents from old to new. *)
Call(old, new) ==
  \E h \in Handle :
    \/ /\ new = old
       /\ \E n \in 0 .. Most :
            \/ Reads(old, position[h], n) /\ Moves(h, answer'.count)
            \/ UNCHANGED position /\ \E at \in 0 .. Far : Reads(old, at, n)
    \/ \E from \in Chunk :
         \/ Writes(old, new, position[h], from) /\ Moves(h, answer'.count)
         \/ UNCHANGED position /\ \E at \in 0 .. Far : Writes(old, new, at, from)
    \/ ~Growing /\ new = old /\ UNCHANGED answer
       /\ \E at \in 0 .. Far : position' = [position EXCEPT ![h] = at]
    \/ Growing /\ new = <<>> /\ UNCHANGED <<position, answer>>
    \/ new = old /\ answer' = Result(Len(old), <<>>) /\ UNCHANGED position

(* The caller takes the answer. *)
Return == answer # None /\ answer' = None /\ UNCHANGED <<contents, position>>

Next ==
  \/ LET old == contents
         new == contents'
     IN  answer = None /\ Call(old, new)
  \/ Return

Spec == Init /\ [][Next]_<<contents, position, answer>>
=============================================================================
