-------------------------------- MODULE Files --------------------------------
(***************************************************************************)
(* The file system for TLC: the structures on the disk, open files of the  *)
(* two builds, and the commands that copy and print a file.                *)
(*                                                                         *)
(* The modules share no variable, and each behaviour has the steps of one  *)
(* of them, its "part", while the others stay where they start.            *)
(***************************************************************************)
EXTENDS Integers, Sequences

CONSTANTS f, g, h, NULL

VARIABLES
  part,
  disk, up, op, handles, crashes,
  fileLength, data, seekPosition, answer,
  host, offset, currentOffset, hostAnswer,
  copyLength, copyData, copyPosition, copyAnswer, from, was, exists, room, handle, read, printed

(* Bytes that differ from their neighbours, so that none can be misplaced. *)
Chunks == {[i \in 1 .. n |-> (i + b) % 2] : n \in 0 .. 4, b \in {0, 1}}
ShortChunks == {c \in Chunks : Len(c) <= 2}

(* A text of every length up to one more than two pieces. *)
SomeTexts == {SubSeq(<<1, 0, 0, 1, 1, 0, 1>>, 1, n) : n \in 0 .. 7}

F == INSTANCE FileSystem
  WITH Name <- {f, g, h}, NumSectors <- 9, SectorSize <- 4, NumDirEntries <- 2,
       HalvesPerSector <- 3, Sizes <- {0, 5}, MaxCrashes <- 1

O == INSTANCE OpenFile
  WITH Handle <- {"file"}, Byte <- {0, 1}, SectorSize <- 2, Lengths <- {0, 4, 5},
       Chunk <- Chunks, Most <- 4, Far <- 6

H == INSTANCE StubFile
  WITH Handle <- {"one", "two"}, Byte <- {0, 1}, Chunk <- ShortChunks, Most <- 2, Far <- 2,
       MaxLen <- 3, answer <- hostAnswer

K == INSTANCE CopyFile
  WITH Handle <- {"copy", "print"}, Byte <- {0, 1}, SectorSize <- 2, Lengths <- {0, 3},
       Chunk <- {}, Most <- 3, Far <- 0, Texts <- SomeTexts, TransferSize <- 3,
       fileLength <- copyLength, data <- copyData, seekPosition <- copyPosition, answer <- copyAnswer

ASSUME FilesAssumption ==
  F!FileSystemAssumption /\ O!OpenFileAssumption /\ H!StubAssumption /\ K!CopyAssumption

-----------------------------------------------------------------------------
vF == <<disk, up, op, handles, crashes>>
vO == <<fileLength, data, seekPosition, answer>>
vH == <<host, offset, currentOffset, hostAnswer>>
vK == <<copyLength, copyData, copyPosition, copyAnswer, from, was, exists, room, handle, read, printed>>
vars == <<part, vF, vO, vH, vK>>

(* Every start of the part, one start of the others. *)
Init ==
  /\ part \in {"filesystem", "openfile", "hostfile", "copy"}
  /\ F!Init
  /\ O!Init /\ (part # "openfile" => fileLength = 0)
  /\ H!Init /\ (part # "hostfile" => host = <<>>)
  /\ K!InitCopy /\ (~exists => copyLength = 0)
  /\ part # "copy" => from.there /\ from.bytes = <<>> /\ ~exists /\ room

Next ==
  /\ UNCHANGED part
  /\ \/ part = "filesystem" /\ F!Next /\ UNCHANGED <<vO, vH, vK>>
     \/ part = "openfile" /\ O!Next /\ UNCHANGED <<vF, vH, vK>>
     \/ part = "hostfile" /\ H!Next /\ UNCHANGED <<vF, vO, vK>>
     \/ part = "copy" /\ K!NextCopy /\ UNCHANGED <<vF, vO, vH>>

(* main goes on with its command until it is done. *)
Fairness == WF_vK(part = "copy" /\ K!NextCopy)

Spec == Init /\ [][Next]_vars /\ Fairness

-----------------------------------------------------------------------------
(* Properties, as the modules of the components define them.                *)

(* Until a crash, the map marks exactly the sectors in use, no two files     *)
(* share one, the header that an open file has in memory is the one on the   *)
(* disk, and Create and Remove answer as a set of files of limited size      *)
(* would.                                                                    *)
FilesAreExact == part = "filesystem" => F!MapIsExact /\ F!HandlesAreCurrent /\ F!Answers

(* A crash between two writes loses no sector and no header, and during      *)
(* Create or Remove it spares every other file.                              *)
CrashIsContained == part = "filesystem" => F!CrashIsContained

(* An OpenFile on the Nachos disk is a file of bytes, and so is one of the   *)
(* build with FILESYS_STUB, on a file of the host.                           *)
AreByteFiles ==
  /\ O!File!Init /\ [][part = "openfile" /\ O!File!Next]_vO
  /\ H!File!Init /\ [][part = "hostfile" /\ H!File!Next]_vH

(* The command -cp comes to its end, and then -p, which prints the file that *)
(* was copied, or the one that -cp could not replace.                        *)
SourceIsPrinted == part = "copy" => K!SourceIsPrinted
=============================================================================
