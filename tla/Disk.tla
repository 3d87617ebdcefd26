-------------------------------- MODULE Disk --------------------------------
(***************************************************************************)
(* The time a disk request takes (machine/disk.cc): seek, rotation and     *)
(* transfer, with a track buffer that keeps what has passed under the head *)
(* since it arrived on the track.                                          *)
(*                                                                         *)
(* The code computes the latency in closed form when it gets the request.  *)
(* The reference is the turning disk itself: at time k * RotationTime the  *)
(* sectors with offset k % SectorsPerTrack begin to pass under the head.   *)
(***************************************************************************)
EXTENDS Integers

CONSTANTS
  SectorsPerTrack, NumTracks,  \* disk.h
  RotationTime,                \* stats.h: the time in which one sector passes
  SeekTime,                    \* stats.h: the time to move past one track
  MaxDiskTicks                     \* bound on the time, for model checking

DiskTimeAssumption ==
  {SectorsPerTrack, NumTracks, RotationTime, SeekTime, MaxDiskTicks} \subseteq Nat \ {0}

DiskSector == 0 .. SectorsPerTrack * NumTracks - 1

VARIABLES
  diskTicks,    \* Statistics::totalTicks
  lastSector,    \* Disk::lastSector
  bufferInit,    \* Disk::bufferInit
  diskActive,        \* Disk::active
  doneAt,        \* when the interrupt of the request is due
  request,       \* the request: when it came, the sector, reading or writing
  onTrackSince   \* when the head arrived on its track (not in the code)

diskVars == <<diskTicks, lastSector, bufferInit, diskActive, doneAt, request, onTrackSince>>

Abs(n) == IF n < 0 THEN -n ELSE n
Track(s) == s \div SectorsPerTrack

(* Disk::TimeToSeek, its result *)
Seek(s) == Abs(Track(s) - Track(lastSector)) * SeekTime

(* Disk::TimeToSeek, *rotation: the wait for the beginning of a sector. *)
Rotation(s) ==
  LET over == (diskTicks + Seek(s)) % RotationTime
  IN  IF over > 0 THEN RotationTime - over ELSE 0

(* Disk::ModuloDiff *)
ModuloDiff(to, from) ==
  ((to % SectorsPerTrack) - (from % SectorsPerTrack) + SectorsPerTrack) % SectorsPerTrack

TimeAfter(s) == diskTicks + Seek(s) + Rotation(s)

(* Disk::ComputeLatency, the test for the track buffer. *)
InTrackBuffer(s) ==
  /\ Seek(s) = 0
  /\ (TimeAfter(s) - bufferInit) \div RotationTime > ModuloDiff(s, bufferInit \div RotationTime)

(* Disk::ComputeLatency *)
ComputeLatency(s, writing) ==
  IF ~writing /\ InTrackBuffer(s)
  THEN RotationTime
  ELSE Seek(s) + Rotation(s)
       + ModuloDiff(s, TimeAfter(s) \div RotationTime) * RotationTime + RotationTime

(* Mutant: the track buffer is not emptied when the head moves. *)
KeepTrackBuffer(s) ==
  /\ UNCHANGED bufferInit
  /\ lastSector' = s

(* Disk::UpdateLast *)
UpdateLast(s) ==
  /\ bufferInit' = IF Seek(s) # 0 THEN TimeAfter(s) ELSE bufferInit
  /\ lastSector' = s

InitDisk ==
  /\ diskTicks = 0 /\ lastSector = 0 /\ bufferInit = 0
  /\ diskActive = FALSE /\ doneAt = 0
  /\ request = [at |-> 0, sector |-> 0, writing |-> FALSE]
  /\ onTrackSince = 0

-----------------------------------------------------------------------------
(* Disk::ReadRequest and WriteRequest, as far as time is concerned. *)
DiskRequest(s, writing) ==
  /\ ~diskActive
  /\ diskActive' = TRUE
  /\ doneAt' = diskTicks + ComputeLatency(s, writing)
  /\ UpdateLast(s)
  /\ request' = [at |-> diskTicks, sector |-> s, writing |-> writing]
  /\ onTrackSince' = IF Track(s) # Track(lastSector) THEN diskTicks + Seek(s) ELSE onTrackSince
  /\ UNCHANGED diskTicks

(* Disk::CallBack *)
DiskCallBack ==
  /\ diskActive
  /\ doneAt <= MaxDiskTicks
  /\ diskTicks' = doneAt
  /\ diskActive' = FALSE
  /\ UNCHANGED <<lastSector, bufferInit, doneAt, request, onTrackSince>>

(* Time passes between two requests. *)
Tick ==
  /\ ~diskActive
  /\ diskTicks < MaxDiskTicks
  /\ diskTicks' = diskTicks + 1
  /\ UNCHANGED <<lastSector, bufferInit, diskActive, doneAt, request, onTrackSince>>

NextDisk == (\E s \in DiskSector, w \in BOOLEAN : DiskRequest(s, w)) \/ DiskCallBack \/ Tick

SpecDisk == InitDisk /\ [][NextDisk]_diskVars

-----------------------------------------------------------------------------
(* Properties.                                                              *)

(* All of sector s passes under the head between the times from and to. *)
Passes(s, from, to) ==
  \E k \in 0 .. to \div RotationTime :
    /\ from <= k * RotationTime
    /\ (k + 1) * RotationTime <= to
    /\ k % SectorsPerTrack = s % SectorsPerTrack

(* When the request is done if the track buffer does not help: the first time *)
(* that all of the sector has passed after the head has reached the track.    *)
FirstPass(t) ==
  LET arrival == IF onTrackSince > request.at THEN onTrackSince ELSE request.at
  IN  Passes(request.sector, arrival, t) /\ ~Passes(request.sector, arrival, t - 1)

(* A request is never done before the disk can have done it: a write when    *)
(* its sector has passed under the head, a read also when the sector has     *)
(* passed since the head arrived on the track, and then it takes the time of *)
(* one transfer.  A read of a sector that has passed already is served from  *)
(* the track buffer, however long ago that was.  ComputeLatency agrees with  *)
(* the turning disk.                                                         *)
LatencyIsPhysical ==
  diskActive =>
    /\ \/ FirstPass(doneAt)
       \/ /\ ~request.writing
          /\ doneAt = request.at + RotationTime
          /\ Passes(request.sector, onTrackSince, doneAt)
    /\ ~request.writing /\ Passes(request.sector, onTrackSince, request.at)
         => doneAt <= request.at + RotationTime
=============================================================================
