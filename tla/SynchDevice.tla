----------------------------- MODULE SynchDevice -----------------------------
(***************************************************************************)
(* The protocol that makes an asynchronous device synchronous, as SynchDisk, *)
(* SynchConsoleOutput and PostOfficeOutput use it: take the lock, send the *)
(* request to the device, wait on a semaphore for the interrupt, release   *)
(* the lock.  The device takes one request at a time.                      *)
(*                                                                         *)
(* The lock and the semaphore are atomic here; Monitor and Semaphores show *)
(* that the code of threads/synch.cc makes them so.                        *)
(***************************************************************************)
EXTENDS Naturals

CONSTANTS Thread, NULL

DeviceAssumption == NULL \notin Thread

VARIABLES
  lockHolder,  \* the thread that has the lock
  semaphore,   \* the value of the semaphore
  active,      \* the device's flag: Disk::active, ConsoleOutput::putBusy
  place,       \* where a thread is in its call
  failed       \* the device's ASSERT has failed

deviceVars == <<lockHolder, semaphore, active, place, failed>>

DeviceInit ==
  /\ lockHolder = NULL
  /\ semaphore = 0
  /\ active = FALSE
  /\ place = [t \in Thread |-> "out"]
  /\ failed = FALSE

(* The call, up to lock->Acquire(). *)
Enter(t) ==
  /\ place[t] = "out"
  /\ place' = [place EXCEPT ![t] = "acquire"]
  /\ UNCHANGED <<lockHolder, semaphore, active, failed>>

Acquire(t) ==
  /\ place[t] = "acquire"
  /\ lockHolder = NULL
  /\ lockHolder' = t
  /\ place' = [place EXCEPT ![t] = "request"]
  /\ UNCHANGED <<semaphore, active, failed>>

(* The request, which asserts that the device is not active. *)
Request(t) ==
  /\ place[t] = "request"
  /\ failed' = active
  /\ active' = TRUE
  /\ place' = [place EXCEPT ![t] = "wait"]
  /\ UNCHANGED <<lockHolder, semaphore>>

(* semaphore->P() *)
P(t) ==
  /\ place[t] = "wait"
  /\ semaphore > 0
  /\ semaphore' = semaphore - 1
  /\ place' = [place EXCEPT ![t] = "release"]
  /\ UNCHANGED <<lockHolder, active, failed>>

(* lock->Release(), and the return. *)
Release(t) ==
  /\ place[t] = "release"
  /\ lockHolder' = NULL
  /\ place' = [place EXCEPT ![t] = "out"]
  /\ UNCHANGED <<semaphore, active, failed>>

(* The interrupt: the device is no longer active, and CallBack calls V. *)
Interrupt ==
  /\ active
  /\ active' = FALSE
  /\ semaphore' = semaphore + 1
  /\ UNCHANGED <<lockHolder, place, failed>>

-----------------------------------------------------------------------------
(* Properties.                                                              *)

(* The device is never given a request while it is active, and nobody waits *)
(* for an interrupt that is another thread's or has been taken already: as  *)
(* long as a thread waits, its interrupt is to come or has come, exactly    *)
(* once.                                                                    *)
OneRequestAtATime ==
  /\ ~failed
  /\ \A t \in Thread :
       place[t] = "wait" => lockHolder = t /\ semaphore = (IF active THEN 0 ELSE 1)
  /\ (\A t \in Thread : place[t] # "wait") => ~active /\ semaphore = 0
=============================================================================
