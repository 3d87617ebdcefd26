------------------------------ MODULE CopyFile ------------------------------
(***************************************************************************)
(* The commands -cp and -p (threads/main.cc): Copy writes a file of the    *)
(* host to a new Nachos file of the same length, and Print reads it back,  *)
(* in pieces of TransferSize bytes that need not fit the sectors.  Both    *)
(* give up where a file cannot be opened or created.                       *)
(***************************************************************************)
EXTENDS OpenFile

CONSTANTS
  Texts,         \* what the file of the host may hold
  TransferSize   \* bytes that are moved in one piece

CopyAssumption == OpenFileAssumption /\ TransferSize \in Nat \ {0} /\ Texts \subseteq Seq(Byte)

VARIABLES
  from,     \* the file of the host: it can be opened, and so many bytes can be read
  was,      \* the Nachos file of that name before (not in the code)
  exists,   \* the Nachos file is in the directory
  room,     \* Create finds an entry and sectors
  handle,   \* where main is
  read,     \* bytes that Copy has read
  printed   \* bytes that Print has printed

copyVars == <<vars, from, was, exists, room, handle, read, printed>>

Smaller(m, n) == IF m < n THEN m ELSE n

(* Any file of the host, which may have a place that cannot be read, and any *)
(* Nachos file or none.                                                      *)
InitCopy ==
  /\ Init
  /\ \E there \in BOOLEAN, text \in Texts :
       \E good \in {Len(text) \div 2, Len(text)} : from = [there |-> there, bytes |-> text, good |-> good]
  /\ exists \in BOOLEAN
  /\ was = [there |-> exists, bytes |-> Contents]
  /\ room \in BOOLEAN
  /\ handle = "start"
  /\ read = 0
  /\ printed = <<>>

(* Copy up to its loop.  It returns if the file cannot be opened, or the     *)
(* Nachos file cannot be created; Open finds the file that Create has made   *)
(* (the module FileSystem), so its ASSERT holds.                             *)
CopyStarts ==
  /\ handle = "start"
  /\ IF from.there /\ ~exists /\ room
     THEN /\ exists' = TRUE
          /\ fileLength' = Len(from.bytes)
          /\ data' \in [0 .. LastSector' -> [Offset -> Byte]]
          /\ handle' = "copy"
     ELSE /\ handle' = "print"
          /\ UNCHANGED <<exists, fileLength, data>>
  /\ UNCHANGED <<seekPosition, answer, from, was, room, read, printed>>

(* A round of Copy: ReadPartial of the host's file, which may deliver fewer  *)
(* bytes than asked for, and Write.                                          *)
Copy ==
  /\ handle = "copy"
  /\ \E n \in 1 .. Smaller(TransferSize, from.good - read), garbage \in Garbage :
       /\ read' = read + n
       /\ Write("copy", SubSeq(from.bytes, read + 1, read + n), garbage)
  /\ UNCHANGED <<from, was, exists, room, handle, printed>>

(* ReadPartial delivers nothing, or fails. *)
CopyEnds ==
  /\ handle = "copy"
  /\ read = from.good
  /\ handle' = "print"
  /\ UNCHANGED <<vars, from, was, exists, room, read, printed>>

(* Print up to its loop. *)
PrintStarts ==
  /\ handle = "print"
  /\ handle' = IF exists THEN "printing" ELSE "done"
  /\ UNCHANGED <<vars, from, was, exists, room, read, printed>>

(* Mutant: the end of the file is taken to be a piece that is not full. *)
PrintFullPieces ==
  /\ handle = "printing"
  /\ Read("print", TransferSize)
  /\ printed' = IF answer'.count = TransferSize THEN printed \o answer'.bytes ELSE printed
  /\ handle' = IF answer'.count = TransferSize THEN "printing" ELSE "done"
  /\ UNCHANGED <<from, was, exists, room, read>>

(* A round of Print: Read, until there is nothing. *)
PrintFile ==
  /\ handle = "printing"
  /\ Read("print", TransferSize)
  /\ printed' = printed \o answer'.bytes
  /\ handle' = IF answer'.count > 0 THEN "printing" ELSE "done"
  /\ UNCHANGED <<from, was, exists, room, read>>

NextCopy == CopyStarts \/ Copy \/ CopyEnds \/ PrintStarts \/ PrintFile
CopySpec == InitCopy /\ [][NextCopy]_copyVars

(* The commands come to their end, and Print has shown                       *)
(*   - the file that was there before, unchanged, if there was one;          *)
(*   - the file of the host, as far as it could be read and with its length, *)
(*     if Copy could create the Nachos file, whatever its sectors held and   *)
(*     however the host cut it into pieces;                                  *)
(*   - nothing, if Copy gave up: it leaves no file behind.                   *)
SourceIsPrinted ==
  <>(/\ handle = "done"
     /\ IF was.there THEN printed = was.bytes
        ELSE IF from.there /\ room
        THEN /\ Len(printed) = Len(from.bytes)
             /\ SubSeq(printed, 1, from.good) = SubSeq(from.bytes, 1, from.good)
        ELSE printed = <<>>)
=============================================================================
