----------------------------- MODULE Semaphores -----------------------------
(***************************************************************************)
(* The semaphores of threads/synch.cc on the kernel threads of Threads.    *)
(*                                                                         *)
(* Threads leaves open which thread a V wakes and when a P blocks.  Here   *)
(* every semaphore has its value and its queue, and P and V of threads and *)
(* the V of interrupt handlers are the steps of Threads that the code      *)
(* takes.  "waiting" of Threads is the union of the queues.                *)
(***************************************************************************)
EXTENDS Threads

CONSTANTS
  Semaphore,     \* the semaphores, built before the first P or V
  InitialValue,  \* the values they are built with
  HandlerSem,    \* the semaphores on which interrupt handlers call V
  MaxValue       \* bound on the values, for model checking

ASSUME SemaphoreAssumption ==
  /\ IsFiniteSet(Thread)
  /\ NULL \notin Semaphore
  /\ InitialValue \in [Semaphore -> Nat]
  /\ HandlerSem \subseteq Semaphore
  /\ MaxValue \in Nat

VARIABLES
  value,  \* Semaphore::value
  queue,  \* Semaphore::queue
  want    \* the semaphore whose P is on the stack of a thread that slept in it

semVars == <<value, queue, want>>
allVars == <<vars, semVars>>

SemInit ==
  /\ Init
  /\ value = InitialValue
  /\ queue = [s \in Semaphore |-> <<>>]
  /\ want = [t \in Thread |-> NULL]

-----------------------------------------------------------------------------
(* Semaphore::P that does not wait. *)
P(t, s) ==
  /\ value[s] # 0
  /\ Call(t)
  /\ value' = [value EXCEPT ![s] = @ - 1]
  /\ UNCHANGED <<queue, want>>

(* Semaphore::P that waits: the thread goes to the end of the queue. *)
PWaits(t, s) ==
  /\ value[s] = 0
  /\ Block(t)
  /\ queue' = [queue EXCEPT ![s] = Append(@, t)]
  /\ want' = [want EXCEPT ![t] = s]
  /\ UNCHANGED value

(* The loop of P, after Sleep: the value is zero again. *)
PWaitsAgain(t) ==
  /\ BlockAgain(t)
  /\ value[want[t]] = 0
  /\ queue' = [queue EXCEPT ![want[t]] = Append(@, t)]
  /\ UNCHANGED <<value, want>>

(* The loop of P ends: the thread takes its turn. *)
PEnds(t) ==
  /\ PReturns(t)
  /\ value[want[t]] # 0
  /\ value' = [value EXCEPT ![want[t]] = @ - 1]
  /\ want' = [want EXCEPT ![t] = NULL]
  /\ UNCHANGED queue

(* The effect of V on the semaphore when a thread waits. *)
WakeFirst(s) ==
  /\ value[s] < MaxValue
  /\ value' = [value EXCEPT ![s] = @ + 1]
  /\ queue' = [queue EXCEPT ![s] = Tail(@)]
  /\ UNCHANGED want

(* The effect of V on the semaphore when no thread waits. *)
CountOnly(s) ==
  /\ value[s] < MaxValue
  /\ value' = [value EXCEPT ![s] = @ + 1]
  /\ UNCHANGED <<queue, want>>

(* Mutant: V wakes a thread only when the value was zero. *)
VWakesAtZero(t, s) ==
  \/ /\ queue[s] # <<>> /\ value[s] = 0
     /\ Wake(t, Head(queue[s]))
     /\ WakeFirst(s)
  \/ /\ queue[s] = <<>> \/ value[s] > 0
     /\ Call(t)
     /\ CountOnly(s)

(* Semaphore::V called by a thread. *)
V(t, s) ==
  \/ /\ queue[s] # <<>>
     /\ Wake(t, Head(queue[s]))
     /\ WakeFirst(s)
  \/ /\ queue[s] = <<>>
     /\ Call(t)
     /\ CountOnly(s)

(* Semaphore::V called by an interrupt handler. *)
HandlerV(t, s) ==
  /\ s \in HandlerSem
  /\ \/ /\ queue[s] # <<>>
        /\ DeviceInterrupt(t, Head(queue[s]))
        /\ WakeFirst(s)
     \/ /\ queue[s] = <<>>
        /\ DeviceInterruptNoWaiter(t)
        /\ CountOnly(s)

(* The steps of Threads that are not about semaphores. *)
OtherStep(t) ==
  /\ \/ \E u \in Thread, p \in PriorityArgs : New(t, u, p)
     \/ NewAborts(t)
     \/ \E u \in Thread : NewDefault(t, u) \/ Fork(t, u)
     \/ Yield(t) \/ Finish(t) \/ Halt(t)
     \/ Begin(t) \/ YieldReturns(t) \/ SleepReturns(t)
     \/ TimerInterrupt(t) \/ TickYields(t) \/ TickReturns(t)
     \/ IdleEnds(t) \/ IdleAgain(t)
     \/ UserStep(t)
  /\ UNCHANGED semVars

SemNext ==
  \/ \E t \in Thread :
       \/ \E s \in Semaphore : P(t, s) \/ PWaits(t, s) \/ V(t, s) \/ HandlerV(t, s)
       \/ PWaitsAgain(t)
       \/ PEnds(t)
       \/ OtherStep(t)
  \/ Stopped /\ UNCHANGED semVars

SemSpec == SemInit /\ [][SemNext]_allVars

-----------------------------------------------------------------------------
(* Properties.                                                              *)

(* In particular no value is ever negative: whoever takes the unit that a V *)
(* left, the loop of P keeps the woken thread from taking it again.         *)
SemTypeOK ==
  /\ value \in [Semaphore -> Nat]
  /\ queue \in [Semaphore -> Seq(Thread)]
  /\ want \in [Thread -> Semaphore \cup {NULL}]

(* The queues hold exactly the threads that sleep in P, each once and on the *)
(* queue of the semaphore it wants, so that the ASSERT(!IsInList(item)) of   *)
(* List::Append holds and a V wakes a thread of its own semaphore.           *)
QueueConsistent ==
  \A s \in Semaphore :
    /\ NoDuplicates(queue[s])
    /\ ToSet(queue[s]) = {t \in waiting : want[t] = s}

(* The threads that a V has taken off the queue of s and that have not yet *)
(* tested the value again.                                                 *)
Woken(s) == {t \in Thread : want[t] = s /\ t \notin waiting}

(* No wakeup is lost: while threads wait, every unit of the value is matched *)
(* by a thread that is on its way out of P.  In particular no thread waits   *)
(* on a semaphore with a positive value unless one was already woken.        *)
NoLostWakeup ==
  \A s \in Semaphore : queue[s] # <<>> => value[s] <= Cardinality(Woken(s))
=============================================================================
