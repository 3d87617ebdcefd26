------------------------------ MODULE SynchDisk ------------------------------
(***************************************************************************)
(* The synchronous disk (filesys/synchdisk.cc) on the simulated disk       *)
(* (machine/disk.cc), whose sectors are kept in a file of the host behind  *)
(* a magic number.  The file survives when the machine stops.              *)
(***************************************************************************)
EXTENDS SynchDevice, FiniteSets

CONSTANTS
  NumSectors,
  Value,   \* what a sector can contain
  Magic    \* MagicNumber

Sector == 0 .. NumSectors - 1

DiskAssumption ==
  /\ DeviceAssumption
  /\ NumSectors \in Nat \ {0}
  /\ {Magic, NULL} \cap Value = {}
  /\ NULL \notin [sector : Sector, write : Value \cup {NULL}]

VARIABLES
  file,    \* the host's file, in units of a sector: the magic number is at 0
  up,      \* the machine runs
  call,    \* the call that a thread is in
  data     \* the thread's buffer

synchDiskVars == <<deviceVars, file, up, call, data>>

(* Disk::Disk when the file does not exist: the magic number, and zeroes. *)
InitSynchDisk ==
  /\ DeviceInit
  /\ up = TRUE
  /\ \E zero \in Value : file = [i \in 0 .. NumSectors |-> IF i = 0 THEN Magic ELSE zero]
  /\ call = [t \in Thread |-> NULL]
  /\ data = [t \in Thread |-> NULL]

(* Mutant: Lseek leaves out MagicSize. *)
PositionAtStart(s) == s

(* Where a sector is in the file. *)
Position(s) == 1 + s

-----------------------------------------------------------------------------
(* A thread calls ReadSector, or WriteSector with v. *)
Call(t, s, v) ==
  /\ Enter(t)
  /\ call' = [call EXCEPT ![t] = [sector |-> s, write |-> v]]
  /\ data' = [data EXCEPT ![t] = NULL]
  /\ UNCHANGED <<file, up>>

(* Disk::ReadRequest: the data is there at once, the interrupt comes later. *)
ReadRequest(t) ==
  /\ call[t] # NULL /\ call[t].write = NULL
  /\ Request(t)
  /\ data' = [data EXCEPT ![t] = file[Position(call[t].sector)]]
  /\ UNCHANGED <<file, up, call>>

(* Disk::WriteRequest *)
WriteRequest(t) ==
  /\ call[t] # NULL /\ call[t].write # NULL
  /\ Request(t)
  /\ file' = [file EXCEPT ![Position(call[t].sector)] = call[t].write]
  /\ data' = [data EXCEPT ![t] = call[t].write]
  /\ UNCHANGED <<up, call>>

(* Mutant: the lock is released before the interrupt has come. *)
ReleaseEarly(t) ==
  /\ lockHolder' = (IF lockHolder = t THEN NULL ELSE lockHolder)
  /\ place[t] \in {"wait", "release"}
  /\ place' = [place EXCEPT ![t] = "out"]
  /\ call' = [call EXCEPT ![t] = NULL]
  /\ data' = [data EXCEPT ![t] = NULL]
  /\ UNCHANGED <<semaphore, active, failed, file, up>>

(* The end of ReadSector and WriteSector. *)
SectorDone(t) ==
  /\ Release(t)
  /\ call' = [call EXCEPT ![t] = NULL]
  /\ data' = [data EXCEPT ![t] = NULL]
  /\ UNCHANGED <<file, up>>

(* SynchDisk::ReadSector and WriteSector, after the call. *)
SectorIO(t) ==
  \/ /\ Acquire(t) \/ P(t)
     /\ UNCHANGED <<file, up, call, data>>
  \/ ReadRequest(t)
  \/ WriteRequest(t)
  \/ SectorDone(t)

(* Disk::CallBack and SynchDisk::CallBack *)
CallBack == Interrupt /\ UNCHANGED <<file, up, call, data>>

(* The machine stops, and all that is not in the file is gone. *)
Crash ==
  /\ up' = FALSE
  /\ lockHolder' = NULL /\ semaphore' = 0 /\ active' = FALSE
  /\ place' = [t \in Thread |-> "out"]
  /\ call' = [t \in Thread |-> NULL]
  /\ data' = [t \in Thread |-> NULL]
  /\ UNCHANGED <<file, failed>>

(* Disk::Disk when the file exists: the magic number is checked. *)
Boot ==
  /\ ~up
  /\ up' = TRUE
  /\ failed' = (file[0] # Magic)
  /\ UNCHANGED <<lockHolder, semaphore, active, place, file, call, data>>

Running ==
  \/ \E t \in Thread :
       \/ \E s \in Sector, v \in Value \cup {NULL} : Call(t, s, v)
       \/ SectorIO(t)
  \/ CallBack

NextSynchDisk ==
  /\ ~failed
  /\ \/ up /\ Running
     \/ up /\ Crash
     \/ Boot

SpecSynchDisk == InitSynchDisk /\ [][NextSynchDisk]_synchDiskVars

-----------------------------------------------------------------------------
(* Properties.                                                              *)

Store == INSTANCE SectorStore
  WITH store <- [s \in Sector |-> file[1 + s]],
       result <- [t \in Thread |-> IF place[t] \in {"wait", "release"} THEN data[t] ELSE NULL]

(* ReadSector and WriteSector are atomic, and a write that has returned is  *)
(* not lost in a crash: the file system may treat sectors as variables.     *)
ImplementsStore == Store!Spec
=============================================================================
