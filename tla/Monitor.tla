------------------------------- MODULE Monitor -------------------------------
(***************************************************************************)
(* A Lock and a Condition of threads/synch.cc, built from semaphores.      *)
(*                                                                         *)
(* A thread can lose the CPU wherever P or V enables interrupts again      *)
(* (Threads shows that it can be preempted there), so a step here reaches  *)
(* from one P or V to the next, and the threads' steps interleave freely.  *)
(* The semaphores behave as in Semaphores: a V takes the first thread off  *)
(* the queue and counts, and the woken thread tests the value again.       *)
(***************************************************************************)
EXTENDS Integers, Sequences, FiniteSets, Functions

CONSTANTS Thread, NULL

ASSUME MonitorAssumption == NULL \notin Thread

VARIABLES
  lockValue,   \* Lock::semaphore->value
  lockQueue,   \* Lock::semaphore->queue
  lockHolder,  \* Lock::lockHolder
  waitQueue,   \* Condition::waitQueue; a waiter is named by its thread
  waiter,      \* the values of the semaphores that Condition::Wait builds
  pc           \* where a thread is in the operations below

monitorVars == <<lockValue, lockQueue, lockHolder, waitQueue, waiter, pc>>

(* "out" outside of the operations; "lockQueued" asleep in Acquire;        *)
(* "lockWoken" woken there; "acquired" P has returned to Acquire; "in" has *)
(* the lock; "broadcast" in the loop of Broadcast; "released" in Wait,     *)
(* after Release; "asleep" and "woken" in the P of its waiter; "relock" in *)
(* Wait, about to Acquire.                                                 *)
PC == {"out", "lockQueued", "lockWoken", "acquired", "in", "broadcast",
       "released", "asleep", "woken", "relock"}

MonitorInit ==
  /\ lockValue = 1
  /\ lockQueue = <<>>
  /\ lockHolder = NULL
  /\ waitQueue = <<>>
  /\ waiter = [t \in Thread |-> 0]
  /\ pc = [t \in Thread |-> "out"]

-----------------------------------------------------------------------------
(* P on the lock's semaphore, or its loop after a wakeup. *)
PLock(t) ==
  \/ /\ lockValue # 0
     /\ lockValue' = lockValue - 1
     /\ pc' = [pc EXCEPT ![t] = "acquired"]
     /\ UNCHANGED lockQueue
  \/ /\ lockValue = 0
     /\ lockQueue' = Append(lockQueue, t)
     /\ pc' = [pc EXCEPT ![t] = "lockQueued"]
     /\ UNCHANGED lockValue

(* Lock::Acquire, called by a thread or by Condition::Wait. *)
Acquire(t) ==
  /\ pc[t] \in {"out", "relock"}
  /\ PLock(t)
  /\ UNCHANGED <<lockHolder, waitQueue, waiter>>

(* Mutant: P does not test the value again after a wakeup. *)
AcquireUntested(t) ==
  /\ pc[t] = "lockWoken"
  /\ lockValue' = lockValue - 1
  /\ pc' = [pc EXCEPT ![t] = "acquired"]
  /\ UNCHANGED <<lockQueue, lockHolder, waitQueue, waiter>>

AcquireAgain(t) ==
  /\ pc[t] = "lockWoken"
  /\ PLock(t)
  /\ UNCHANGED <<lockHolder, waitQueue, waiter>>

(* The end of Lock::Acquire. *)
Acquired(t) ==
  /\ pc[t] = "acquired"
  /\ lockHolder' = t
  /\ pc' = [pc EXCEPT ![t] = "in"]
  /\ UNCHANGED <<lockValue, lockQueue, waitQueue, waiter>>

(* Lock::Release, after which t is at "place". *)
Unlock(t, place) ==
  /\ lockHolder = t
  /\ lockHolder' = NULL
  /\ lockValue' = lockValue + 1
  /\ lockQueue' = IF lockQueue = <<>> THEN <<>> ELSE Tail(lockQueue)
  /\ pc' = [u \in Thread |->
              IF u = t THEN place
              ELSE IF lockQueue # <<>> /\ u = Head(lockQueue) THEN "lockWoken"
              ELSE pc[u]]

Release(t) ==
  /\ pc[t] = "in"
  /\ Unlock(t, "out")
  /\ UNCHANGED <<waitQueue, waiter>>

(* Condition::Wait, up to and with the Release. *)
Wait(t) ==
  /\ pc[t] = "in"
  /\ waiter' = [waiter EXCEPT ![t] = 0]
  /\ waitQueue' = Append(waitQueue, t)
  /\ Unlock(t, "released")

(* Mutant: Wait goes to sleep without a look at the waiter's value. *)
WaitSleeps(t) ==
  /\ pc[t] = "released"
  /\ pc' = [pc EXCEPT ![t] = "asleep"]
  /\ UNCHANGED <<lockValue, lockQueue, lockHolder, waitQueue, waiter>>

(* P on the waiter; nobody else uses it, so that its loop ends at once. *)
WaitP(t) ==
  \/ /\ pc[t] \in {"released", "woken"}
     /\ waiter[t] # 0
     /\ waiter' = [waiter EXCEPT ![t] = @ - 1]
     /\ pc' = [pc EXCEPT ![t] = "relock"]
     /\ UNCHANGED <<lockValue, lockQueue, lockHolder, waitQueue>>
  \/ /\ pc[t] \in {"released", "woken"}
     /\ waiter[t] = 0
     /\ pc' = [pc EXCEPT ![t] = "asleep"]
     /\ UNCHANGED <<lockValue, lockQueue, lockHolder, waitQueue, waiter>>

(* Mutant: a signal reaches only a thread that already sleeps, as if the *)
(* waiter did not count.                                                 *)
SignalSleeping(t) ==
  IF waitQueue = <<>> THEN UNCHANGED monitorVars
  ELSE LET u == Head(waitQueue) IN
       /\ waitQueue' = Tail(waitQueue)
       /\ waiter' = [waiter EXCEPT ![u] = IF pc[u] = "asleep" THEN @ + 1 ELSE @]
       /\ pc' = [pc EXCEPT ![u] = IF @ = "asleep" THEN "woken" ELSE @]
       /\ UNCHANGED <<lockValue, lockQueue, lockHolder>>

(* Condition::Signal: the V on the first waiter, if there is one. *)
SignalFirst(t) ==
  IF waitQueue = <<>> THEN UNCHANGED monitorVars
  ELSE LET u == Head(waitQueue) IN
       /\ waitQueue' = Tail(waitQueue)
       /\ waiter' = [waiter EXCEPT ![u] = @ + 1]
       /\ pc' = [pc EXCEPT ![u] = IF @ = "asleep" THEN "woken" ELSE @]
       /\ UNCHANGED <<lockValue, lockQueue, lockHolder>>

Signal(t) ==
  /\ pc[t] = "in"
  /\ lockHolder = t
  /\ SignalFirst(t)

(* Condition::Broadcast *)
Broadcast(t) ==
  /\ pc[t] = "in"
  /\ pc' = [pc EXCEPT ![t] = "broadcast"]
  /\ UNCHANGED <<lockValue, lockQueue, lockHolder, waitQueue, waiter>>

BroadcastLoop(t) ==
  /\ pc[t] = "broadcast"
  /\ waitQueue # <<>>
  /\ lockHolder = t
  /\ SignalFirst(t)

BroadcastEnds(t) ==
  /\ pc[t] = "broadcast"
  /\ waitQueue = <<>>
  /\ pc' = [pc EXCEPT ![t] = "in"]
  /\ UNCHANGED <<lockValue, lockQueue, lockHolder, waitQueue, waiter>>

(* The steps inside of Acquire and Wait. *)
Continue(t) ==
  \/ AcquireAgain(t)
  \/ Acquired(t)
  \/ WaitP(t)
  \/ pc[t] = "relock" /\ Acquire(t)

-----------------------------------------------------------------------------
(* Threads that use the monitor in any way its interface allows.            *)
MonitorNext ==
  \E t \in Thread :
    \/ pc[t] = "out" /\ Acquire(t)
    \/ Continue(t)
    \/ Release(t)
    \/ Wait(t)
    \/ Signal(t)
    \/ Broadcast(t)
    \/ BroadcastLoop(t)
    \/ BroadcastEnds(t)

MonitorSpec == MonitorInit /\ [][MonitorNext]_monitorVars

(* A thread inside of Acquire or Wait goes on, and one with the lock gives *)
(* it up: the CPU is shared among threads of equal priority.               *)
MonitorFairSpec ==
  /\ MonitorSpec
  /\ \A t \in Thread :
       WF_monitorVars(Continue(t) \/ Release(t) \/ BroadcastLoop(t) \/ BroadcastEnds(t))

-----------------------------------------------------------------------------
(* Properties.                                                              *)

MonitorTypeOK ==
  /\ lockValue \in {0, 1}
  /\ lockQueue \in Seq(Thread)
  /\ lockHolder \in Thread \cup {NULL}
  /\ waitQueue \in Seq(Thread)
  /\ waiter \in [Thread -> {0, 1}]
  /\ pc \in [Thread -> PC]

(* The threads that have the lock: P has returned to them, and they have not *)
(* called V.                                                                 *)
Owners == {t \in Thread : pc[t] \in {"acquired", "in", "broadcast"}}

(* At most one thread has the lock, it is the one that lockHolder names as *)
(* soon as Acquire returns, and the lock is free otherwise: the ASSERTs    *)
(* IsHeldByCurrentThread of Release, Wait and Signal hold.                 *)
MutualExclusion ==
  /\ Cardinality(Owners) = 1 - lockValue
  /\ \A t \in Thread : pc[t] \in {"in", "broadcast"} <=> lockHolder = t

(* A thread waits for a signal exactly as long as its waiter is queued: a  *)
(* signal sent between the Release in Wait and the sleep is kept by the    *)
(* waiter's value, and none is left over when the waiter is deleted.       *)
NoSignalLost ==
  \A t \in Thread :
    /\ t \in Range(waitQueue) <=> pc[t] \in {"released", "asleep", "woken"} /\ waiter[t] = 0
    /\ pc[t] = "asleep" => t \in Range(waitQueue)
    /\ pc[t] \notin {"released", "asleep", "woken"} => waiter[t] = 0

(* Where a thread is, in the terms of MesaMonitor: a thread in Wait whose *)
(* waiter was signalled is already trying for the lock.                    *)
Where(t) ==
  IF pc[t] = "out" THEN "out"
  ELSE IF pc[t] \in {"acquired", "in", "broadcast"} THEN "inside"
  ELSE IF pc[t] \in {"released", "asleep", "woken"} /\ waiter[t] = 0 THEN "waiting"
  ELSE "entering"

Mesa == INSTANCE MesaMonitor WITH where <- [t \in Thread |-> Where(t)]

(* Lock and Condition do what synch.h says: Wait releases the lock and goes *)
(* to sleep as if in one step, although the code does it in two with the    *)
(* interrupts enabled between them, and the lock excludes.                  *)
ImplementsMesa == Mesa!Spec

(* A signalled thread gets on with Acquire and does not sleep on. *)
SignalledRuns ==
  \A t \in Thread :
    (pc[t] \in {"released", "woken"} /\ waiter[t] = 1) ~> (pc[t] \in {"relock", "lockQueued", "acquired"})
=============================================================================
