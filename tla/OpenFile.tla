------------------------------ MODULE OpenFile ------------------------------
(***************************************************************************)
(* Open files of the Nachos file system (filesys/openfile.cc): requests    *)
(* for any bytes, served by a disk that transfers whole sectors.  The      *)
(* sectors of the file are numbered here as in the file (ByteToSector).    *)
(***************************************************************************)
EXTENDS Integers, Sequences

CONSTANTS
  Handle,        \* OpenFile objects for one file
  Byte,          \* the values of a byte
  SectorSize,    \* bytes in a sector
  Lengths,       \* of the file
  Chunk,         \* what is written in one request
  Most, Far      \* the most bytes in a request, and the last position

OpenFileAssumption ==
  /\ SectorSize \in Nat \ {0} /\ Lengths \cup {Most, Far} \subseteq Nat
  /\ 0 \in Byte

VARIABLES
  fileLength,    \* FileHeader::numBytes
  data,          \* the sectors of the file
  seekPosition,  \* OpenFile::seekPosition
  answer         \* what a call returns, and None before the next call

vars == <<fileLength, data, seekPosition, answer>>

Result(count, bytes) == [count |-> count, bytes |-> bytes]
None == Result(-1, <<>>)
ReadResult(bytes) == Result(Len(bytes), bytes)

Offset == 0 .. SectorSize - 1
LastSector == (fileLength + SectorSize - 1) \div SectorSize - 1

(* The file is new: its sectors hold what they held. *)
Init ==
  /\ fileLength \in Lengths
  /\ data \in [0 .. LastSector -> [Offset -> Byte]]
  /\ seekPosition = [h \in Handle |-> 0]
  /\ answer = None

(* The request cut at the end of the file; no bytes if it is not in it. *)
Clip(numBytes, position) ==
  IF numBytes <= 0 \/ position >= fileLength THEN 0
  ELSE IF position + numBytes > fileLength THEN fileLength - position
  ELSE numBytes

(* OpenFile::ReadAt: the sectors are read into a buffer, and a part of it is *)
(* copied.                                                                   *)
ReadAt(numBytes, position) ==
  LET n == Clip(numBytes, position)
      first == position \div SectorSize
      last == (position + n - 1) \div SectorSize
      buf == [i \in 0 .. (1 + last - first) * SectorSize - 1 |->
                data[first + (i \div SectorSize)][i % SectorSize]]
  IN  [i \in 1 .. n |-> buf[position - first * SectorSize + i - 1]]

(* Mutant: a last sector that is partly written is not read before. *)
WriteAtBlind(from, position, garbage) ==
  LET n == Clip(Len(from), position)
      first == position \div SectorSize
      last == (position + n - 1) \div SectorSize
      start == position - first * SectorSize
      before == IF start # 0 THEN ReadAt(SectorSize, first * SectorSize) ELSE <<>>
      buf == [i \in 0 .. (1 + last - first) * SectorSize - 1 |->
                IF i \in start .. start + n - 1 THEN from[i - start + 1]
                ELSE IF i < Len(before) THEN before[i + 1]
                ELSE garbage[i % SectorSize]]
  IN  IF n = 0 THEN data
      ELSE [s \in DOMAIN data |->
              IF s \in first .. last THEN [j \in Offset |-> buf[(s - first) * SectorSize + j]]
              ELSE data[s]]

(* OpenFile::WriteAt: the first and the last sector are read where they are  *)
(* written in part only, the bytes are copied into the buffer, which comes   *)
(* uninitialized, and all its sectors are written.                           *)
WriteAt(from, position, garbage) ==
  LET n == Clip(Len(from), position)
      first == position \div SectorSize
      last == (position + n - 1) \div SectorSize
      start == position - first * SectorSize
      firstAligned == start = 0
      lastAligned == position + n = (last + 1) * SectorSize
      before == IF ~firstAligned THEN ReadAt(SectorSize, first * SectorSize) ELSE <<>>
      after == IF ~lastAligned /\ (first # last \/ firstAligned)
               THEN ReadAt(SectorSize, last * SectorSize) ELSE <<>>
      end == (last - first) * SectorSize
      buf == [i \in 0 .. end + SectorSize - 1 |->
                IF i \in start .. start + n - 1 THEN from[i - start + 1]
                ELSE IF i \in end .. end + Len(after) - 1 THEN after[i - end + 1]
                ELSE IF i < Len(before) THEN before[i + 1]
                ELSE garbage[i % SectorSize]]
  IN  IF n = 0 THEN data
      ELSE [s \in DOMAIN data |->
              IF s \in first .. last THEN [j \in Offset |-> buf[(s - first) * SectorSize + j]]
              ELSE data[s]]

(* What a sector of the buffer holds by chance. *)
Garbage == [Offset -> Byte]

(* OpenFile::Read, and ReadAt by itself *)
Read(h, n) ==
  /\ answer' = ReadResult(ReadAt(n, seekPosition[h]))
  /\ seekPosition' = [seekPosition EXCEPT ![h] = @ + Len(ReadAt(n, seekPosition[h]))]
  /\ UNCHANGED <<fileLength, data>>

DoReadAt(n, position) ==
  answer' = ReadResult(ReadAt(n, position)) /\ UNCHANGED <<fileLength, data, seekPosition>>

(* OpenFile::Write, and WriteAt by itself *)
Write(h, from, garbage) ==
  /\ answer' = Result(Clip(Len(from), seekPosition[h]), <<>>)
  /\ data' = WriteAt(from, seekPosition[h], garbage)
  /\ seekPosition' = [seekPosition EXCEPT ![h] = @ + Clip(Len(from), seekPosition[h])]
  /\ UNCHANGED fileLength

DoWriteAt(from, position, garbage) ==
  /\ answer' = Result(Clip(Len(from), position), <<>>)
  /\ data' = WriteAt(from, position, garbage)
  /\ UNCHANGED <<fileLength, seekPosition>>

(* OpenFile::Seek and OpenFile::Length *)
Seek(h, position) ==
  seekPosition' = [seekPosition EXCEPT ![h] = position] /\ UNCHANGED <<fileLength, data, answer>>
Length == answer' = Result(fileLength, <<>>) /\ UNCHANGED <<fileLength, data, seekPosition>>

(* The caller takes the answer. *)
Return == answer # None /\ answer' = None /\ UNCHANGED <<fileLength, data, seekPosition>>

Call ==
  \/ \E h \in Handle :
       \/ \E n \in 0 .. Most : Read(h, n)
       \/ \E from \in Chunk, garbage \in Garbage : Write(h, from, garbage)
       \/ \E position \in 0 .. Far : Seek(h, position)
  \/ \E position \in 0 .. Far :
       \/ \E n \in 0 .. Most : DoReadAt(n, position)
       \/ \E from \in Chunk, garbage \in Garbage : DoWriteAt(from, position, garbage)
  \/ Length

Next == (answer = None /\ Call) \/ Return

Spec == Init /\ [][Next]_vars

-----------------------------------------------------------------------------
(* The bytes of the file, of the sectors that hold them. *)
Contents == [i \in 1 .. fileLength |-> data[(i - 1) \div SectorSize][(i - 1) % SectorSize]]

File == INSTANCE ByteFile WITH contents <- Contents, position <- seekPosition, Growing <- FALSE

(* Every call does to the bytes of the file what a file of bytes promises:   *)
(* whatever the request's borders are, no other byte is touched, and what    *)
(* the buffer held by chance does not show.                                  *)
IsByteFile == File!Init /\ [][File!Next]_vars
=============================================================================
