------------------------------ MODULE StubFile ------------------------------
(***************************************************************************)
(* Open files of the build with FILESYS_STUB (filesys/openfile.h and       *)
(* filesys.h): calls of the host system, through the wrappers of           *)
(* lib/sysdep.cc.  The host keeps an offset for every descriptor, which    *)
(* each call moves; the file's own position is kept beside it.             *)
(***************************************************************************)
EXTENDS Integers, Sequences

CONSTANTS
  Handle,   \* OpenFile objects for one file
  Byte,     \* the values of a byte
  Chunk,    \* what is written in one request
  Most,     \* the most bytes that one reads
  Far,      \* the last position of a request
  MaxLen    \* the longest file that is looked at

StubAssumption == {Most, Far, MaxLen} \subseteq Nat /\ 0 \in Byte

VARIABLES
  host,           \* the file of the host
  offset,         \* the host's offset of each descriptor
  currentOffset,  \* OpenFile::currentOffset
  answer          \* what a call returns, and None before the next call

vars == <<host, offset, currentOffset, answer>>

Result(count, bytes) == [count |-> count, bytes |-> bytes]
None == Result(-1, <<>>)

Init ==
  /\ host \in UNION {[1 .. n -> Byte] : n \in 0 .. 1}
  /\ offset = [h \in Handle |-> 0]
  /\ currentOffset = [h \in Handle |-> 0]
  /\ answer = None

(* Read through a descriptor at an offset: what there is. *)
ReadPartial(at, n) ==
  SubSeq(host, at + 1, IF at + n < Len(host) THEN at + n ELSE Len(host))

(* Write at an offset: the file grows, and a gap is filled with zeros. *)
WriteFile(at, from) ==
  LET end == at + Len(from) IN
  IF from = <<>> THEN host
  ELSE [i \in 1 .. IF end < Len(host) THEN Len(host) ELSE end |->
         IF i \in at + 1 .. end THEN from[i - at] ELSE IF i <= Len(host) THEN host[i] ELSE 0]

(* OpenFile::ReadAt: Lseek and ReadPartial. *)
ReadAt(h, n, position) ==
  /\ answer' = Result(Len(ReadPartial(position, n)), ReadPartial(position, n))
  /\ offset' = [offset EXCEPT ![h] = position + Len(ReadPartial(position, n))]
  /\ UNCHANGED host

(* OpenFile::WriteAt: Lseek and WriteFile. *)
WriteAt(h, from, position) ==
  /\ position + Len(from) <= MaxLen
  /\ answer' = Result(Len(from), <<>>)
  /\ host' = WriteFile(position, from)
  /\ offset' = [offset EXCEPT ![h] = position + Len(from)]

(* OpenFile::Read *)
Read(h, n) ==
  /\ ReadAt(h, n, currentOffset[h])
  /\ currentOffset' = [currentOffset EXCEPT ![h] = @ + Len(ReadPartial(currentOffset[h], n))]

(* OpenFile::Write *)
Write(h, from) ==
  /\ WriteAt(h, from, currentOffset[h])
  /\ currentOffset' = [currentOffset EXCEPT ![h] = @ + Len(from)]

(* OpenFile::Length: Lseek to the end, and Tell. *)
Length(h) ==
  /\ offset' = [offset EXCEPT ![h] = Len(host)]
  /\ answer' = Result(Len(host), <<>>)
  /\ UNCHANGED <<host, currentOffset>>

(* FileSystem::Create of the name again: OpenForWrite truncates the file. *)
Create ==
  /\ host' = <<>>
  /\ UNCHANGED <<offset, currentOffset, answer>>

(* The caller takes the answer. *)
Return == answer # None /\ answer' = None /\ UNCHANGED <<host, offset, currentOffset>>

Call ==
  \/ \E h \in Handle :
       \/ \E n \in 0 .. Most :
            Read(h, n) \/ \E at \in 0 .. Far : ReadAt(h, n, at) /\ UNCHANGED currentOffset
       \/ \E from \in Chunk :
            Write(h, from) \/ \E at \in 0 .. Far : WriteAt(h, from, at) /\ UNCHANGED currentOffset
       \/ Length(h)
  \/ Create

Next == (answer = None /\ Call) \/ Return

Spec == Init /\ [][Next]_vars

-----------------------------------------------------------------------------
File == INSTANCE ByteFile WITH contents <- host, position <- currentOffset, Growing <- TRUE

(* Every call does what a file of bytes promises: the position of an open    *)
(* file is its own, wherever ReadAt, WriteAt, Length and the other handles   *)
(* leave the host's offset.                                                  *)
IsByteFile == File!Init /\ [][File!Next]_vars
=============================================================================
