---------------------------- MODULE MCSemaphores ----------------------------
(* Instances of Semaphores for TLC: a semaphore that only threads use and *)
(* one that a device's interrupt handler signals.                         *)
EXTENDS Semaphores

CONSTANTS m, a, b, mutex, device

(* As in Lock and in SynchDisk. *)
Values == [s \in Semaphore |-> IF s = mutex THEN 1 ELSE 0]
=============================================================================
