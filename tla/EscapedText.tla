----------------------------- MODULE EscapedText -----------------------------
(***************************************************************************)
(* How names and messages are written to the files of a test run (escape   *)
(* and unescape in lib/tut_restartable.h).  A char is a signed byte.       *)
(***************************************************************************)
EXTENDS Integers, Sequences

CONSTANT Texts         \* the texts that are written

VARIABLES
  text,                \* what is written
  line,                \* what is in the file
  read,                \* what is read from it
  pc

vars == <<text, line, read, pc>>

(* Digits and letters *)
Plain == (48 .. 57) \cup (65 .. 90) \cup (97 .. 122)

Backslash == 92
a == 97

(* To an unsigned int, of which only the lower 12 bits reach the result, and *)
(* back to a char.                                                           *)
Unsigned(c) == c % 2 ^ 12
Char(u) == IF u % 256 > 127 THEN (u % 256) - 256 ELSE u % 256

(* Mutant: the character is taken as a positive number and cut. *)
EscapedCut(c) ==
  IF c \in Plain THEN <<c>>
  ELSE <<Backslash, Char(a + ((Unsigned(c) \div 16) % 8)), Char(a + (Unsigned(c) % 16))>>

Escaped(c) ==
  IF c \in Plain THEN <<c>>
  ELSE <<Backslash, Char(a + (Unsigned(c) \div 16)), Char(a + (Unsigned(c) % 16))>>

escape(orig) ==
  LET rc[k \in 0 .. Len(orig)] == IF k = 0 THEN <<>> ELSE rc[k - 1] \o Escaped(orig[k])
  IN  rc[Len(orig)]

Invalid == <<"invalid_argument">>

unescape(orig) ==
  LET From[k \in 1 .. Len(orig) + 1] ==
        IF k > Len(orig) THEN <<>>
        ELSE IF orig[k] # Backslash THEN <<orig[k]>> \o From[k + 1]
        ELSE IF k + 2 > Len(orig) THEN Invalid
        ELSE <<Char((Unsigned(orig[k + 1]) - a) * 16 + Unsigned(orig[k + 2]) - a)>> \o From[k + 3]
  IN  From[1]

Init == text \in Texts /\ line = <<>> /\ read = <<>> /\ pc = "write"

(* serialize and register_execution_ write texts, deserialize and read_log_  *)
(* read them, often in another run of the program.                           *)
Write == pc = "write" /\ line' = escape(text) /\ pc' = "read" /\ UNCHANGED <<text, read>>
Read == pc = "read" /\ read' = unescape(line) /\ pc' = "done" /\ UNCHANGED <<text, line>>

Next == Write \/ Read
Spec == Init /\ [][Next]_vars

-----------------------------------------------------------------------------
(* Properties.                                                              *)

(* What is read is what was written, for every char. *)
RoundTrip == pc = "done" => read = text

(* The text has neither a space nor the end of a line, which separate the    *)
(* parts of a record.                                                        *)
NoSeparator == \A k \in 1 .. Len(line) : line[k] \notin {10, 32}
=============================================================================
