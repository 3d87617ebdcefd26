-------------------------- MODULE SemaphoresProofs --------------------------
(***************************************************************************)
(* Proofs about Semaphores, for every set of threads and of semaphores.    *)
(*                                                                         *)
(* Every step of Semaphores is a step of Threads, so that what is proved   *)
(* of Threads holds here too.  With it the invariant SemInv is inductive:  *)
(* WantInv says which threads are inside P, and without it nothing would   *)
(* relate a queue to the states of its threads.                            *)
(***************************************************************************)
EXTENDS Semaphores, ThreadsProofs, FiniteSetTheorems

(* A thread wants a semaphore from the time it first sleeps in P until P *)
(* returns.                                                              *)
WantInv ==
  \A t \in Thread : want[t] # NULL <=> pc[t] \in {"sleep", "idle", "woken"}

SemInv == SemTypeOK /\ WantInv /\ QueueConsistent /\ NoLostWakeup

-----------------------------------------------------------------------------
(* Semaphores implements Threads.                                           *)

(* Every step of Semaphores is a step of Threads. *)
LEMMA StepImplements ==
  ASSUME SemTypeOK, [SemNext]_allVars
  PROVE  [Next]_vars
<1>h. ASSUME NEW s \in Semaphore, queue[s] # <<>> PROVE Head(queue[s]) \in Thread
  BY <1>h DEF SemTypeOK
<1>1. ASSUME NEW t \in Thread, NEW s \in Semaphore, P(t, s) \/ PWaits(t, s) PROVE Next
  BY <1>1, Zenon DEF P, PWaits, Next, ThreadStep
<1>2. ASSUME NEW t \in Thread, NEW s \in Semaphore, V(t, s) PROVE Next
  BY <1>2, <1>h, Zenon DEF V, Next, ThreadStep
<1>3. ASSUME NEW t \in Thread, NEW s \in Semaphore, HandlerV(t, s) PROVE Next
  BY <1>3, <1>h, Zenon DEF HandlerV, Next, InterruptStep
<1>4. ASSUME NEW t \in Thread, PWaitsAgain(t) \/ PEnds(t) PROVE Next
  BY <1>4, Zenon DEF PWaitsAgain, PEnds, Next, SwitchStep
<1>5. ASSUME NEW t \in Thread, OtherStep(t) PROVE Next
  BY <1>5, Zenon DEF OtherStep, Next, ThreadStep, SwitchStep, InterruptStep
<1>6. CASE Stopped /\ UNCHANGED semVars
  BY <1>6 DEF Next
<1>7. CASE UNCHANGED allVars
  BY <1>7 DEF allVars
<1> QED BY <1>1, <1>2, <1>3, <1>4, <1>5, <1>6, <1>7, Zenon DEF SemNext

-----------------------------------------------------------------------------
(* The invariant of the semaphores.                                         *)

(* Only the steps of P change which threads are inside P. *)
LEMMA OtherWant ==
  ASSUME TypeOK, SchedInv, WantInv, NEW t \in Thread, OtherStep(t)
  PROVE  WantInv' /\ waiting' = waiting
<1> DEFINE Q == {"sleep", "idle", "woken"}
           Same == (\A x \in Thread : pc'[x] \in Q <=> pc[x] \in Q) /\ waiting' = waiting
<1>a. pc \in [Thread -> PC]
  BY Zenon DEF TypeOK
<1>b. want' = want
  BY DEF OtherStep, semVars
<1> SUFFICES Same
  BY <1>b DEF WantInv
<1>1. ASSUME NEW u \in Thread, NEW p \in PriorityArgs, New(t, u, p) PROVE Same
  BY <1>1, Zenon DEF New, Construct, stackVars
<1>2. CASE NewAborts(t)
  BY <1>2, <1>a DEF NewAborts, Runs
<1>3. ASSUME NEW u \in Thread, NewDefault(t, u) PROVE Same
  BY <1>3, Zenon DEF NewDefault, Construct, stackVars
<1>4. ASSUME NEW u \in Thread, Fork(t, u) PROVE Same
  <2>1. pc[u] \in {"fresh", "finished"}
    BY <1>4, Zenon DEF Fork, SchedInv, PlaceInv
  <2> QED BY <1>4, <1>a, <2>1, Zenon DEF Fork, Runs
<1>5. CASE Yield(t)
  BY <1>5, <1>a, Zenon DEF Yield, Runs
<1>6. CASE Finish(t)
  BY <1>6, <1>a, Zenon DEF Finish, Runs, Sleep
<1>7. CASE Halt(t)
  BY <1>7, <1>a, Zenon DEF Halt, Runs, threadVars
<1>8. CASE Begin(t) \/ YieldReturns(t)
  BY <1>8, <1>a, Zenon DEF Begin, YieldReturns, RestoreLevel
<1>9. CASE SleepReturns(t)
  BY <1>9, <1>a DEF SleepReturns
<1>10. CASE TimerInterrupt(t) \/ IdleAgain(t)
  BY <1>10, Zenon DEF TimerInterrupt, IdleAgain, threadVars, stackVars
<1>11. CASE TickYields(t) \/ TickReturns(t)
  BY <1>11, <1>a, Zenon DEF TickYields, TickReturns, threadVars
<1>12. CASE IdleEnds(t)
  BY <1>12, <1>a, Zenon DEF IdleEnds
<1>13. CASE UserStep(t)
  BY <1>13, <1>a, Zenon DEF UserStep, Execute, UserInstruction, RaiseException, Enter,
     FaultReturns, SyscallReturns, UnexpectedException, Runs, threadVars
<1> QED
  BY <1>1, <1>2, <1>3, <1>4, <1>5, <1>6, <1>7, <1>8, <1>9, <1>10, <1>11, <1>12, <1>13
     DEF OtherStep

(* The steps of P and V keep the types. *)
LEMMA SemTypeStep ==
  ASSUME SemTypeOK, [SemNext]_allVars
  PROVE  SemTypeOK'
<1>a. /\ value \in [Semaphore -> Nat]
      /\ queue \in [Semaphore -> Seq(Thread)]
      /\ want \in [Thread -> Semaphore \cup {NULL}]
  BY DEF SemTypeOK
<1>b. ASSUME NEW s, value[s] # 0 PROVE [value EXCEPT ![s] = @ - 1] \in [Semaphore -> Nat]
  <2>1. CASE s \in Semaphore
    <3>1. value[s] - 1 \in Nat
      BY <1>a, <1>b, <2>1
    <3> QED BY <1>a, <3>1, Zenon
  <2>2. CASE s \notin Semaphore
    BY <1>a, <2>2, Zenon
  <2> QED BY <2>1, <2>2
<1>c. ASSUME NEW s, NEW t \in Thread
      PROVE  [queue EXCEPT ![s] = Append(@, t)] \in [Semaphore -> Seq(Thread)]
  <2>1. CASE s \in Semaphore
    <3>1. Append(queue[s], t) \in Seq(Thread)
      BY <1>a, <2>1
    <3> QED BY <1>a, <3>1, Zenon
  <2>2. CASE s \notin Semaphore
    BY <1>a, <2>2, Zenon
  <2> QED BY <2>1, <2>2
<1>0. ASSUME NEW t \in Thread, NEW s \in Semaphore, P(t, s) PROVE SemTypeOK'
  BY <1>0, <1>a, <1>b, Zenon DEF P, SemTypeOK
<1>1. ASSUME NEW t \in Thread, NEW s \in Semaphore, PWaits(t, s) PROVE SemTypeOK'
  BY <1>1, <1>a, <1>c, Zenon DEF PWaits, SemTypeOK
<1>2. ASSUME NEW s \in Semaphore, CountOnly(s) PROVE SemTypeOK'
  BY <1>2 DEF CountOnly, SemTypeOK
<1>3. ASSUME NEW s \in Semaphore, queue[s] # <<>>, WakeFirst(s) PROVE SemTypeOK'
  BY <1>3 DEF WakeFirst, SemTypeOK
<1>4. ASSUME NEW t \in Thread, PWaitsAgain(t) PROVE SemTypeOK'
  BY <1>4, <1>a, <1>c, Zenon DEF PWaitsAgain, SemTypeOK
<1>6. ASSUME NEW t \in Thread, PEnds(t) PROVE SemTypeOK'
  BY <1>6, <1>a, <1>b, Zenon DEF PEnds, SemTypeOK
<1>5. CASE UNCHANGED semVars
  BY <1>5 DEF semVars, SemTypeOK
<1> QED BY <1>0, <1>6, <1>1, <1>2, <1>3, <1>4, <1>5, Zenon DEF SemNext, V, HandlerV, OtherStep, allVars

(* The threads on their way out of P can be counted. *)
LEMMA WokenFinite ==
  ASSUME NEW s
  PROVE  IsFiniteSet(Woken(s)) /\ Cardinality(Woken(s)) \in Nat
<1>1. Woken(s) \in SUBSET Thread
  BY DEF Woken
<1>2. IsFiniteSet(Woken(s))
  BY <1>1, FS_Subset, SemaphoreAssumption DEF SemaphoreAssumption
<1> QED BY <1>2, FS_CardinalityType

(* A step that moves no thread, and adds to a value only where none waits. *)
LEMMA CountEffect ==
  ASSUME SemTypeOK, SemTypeOK', QueueConsistent, NoLostWakeup,
         waiting' = waiting, want' = want, queue' = queue,
         \A s \in Semaphore : queue[s] # <<>> => value'[s] <= value[s]
  PROVE  QueueConsistent' /\ NoLostWakeup'
<1>1. QueueConsistent'
  BY DEF QueueConsistent
<1>2. ASSUME NEW s \in Semaphore, queue'[s] # <<>>
      PROVE  value'[s] <= Cardinality(Woken(s)')
  <2>1. Woken(s)' = Woken(s)
    BY DEF Woken
  <2>2. value[s] \in Nat /\ value'[s] \in Nat
    BY DEF SemTypeOK
  <2>3. value[s] <= Cardinality(Woken(s)) /\ value'[s] <= value[s]
    BY <1>2 DEF NoLostWakeup
  <2> QED BY <2>1, <2>2, <2>3, WokenFinite
<1> QED BY <1>1, <1>2 DEF NoLostWakeup

(* V with a waiting thread: the value and the threads on their way out of P *)
(* both grow by one.                                                        *)
LEMMA WakeEffect ==
  ASSUME SemTypeOK, SemTypeOK', QueueConsistent, NoLostWakeup, NEW s \in Semaphore,
         queue[s] # <<>>, WakeFirst(s), waiting' = waiting \ {Head(queue[s])}
  PROVE  QueueConsistent' /\ NoLostWakeup'
<1> DEFINE u == Head(queue[s])
<1>1. queue[s] \in Seq(Thread) /\ NoDuplicates(queue[s])
  BY Zenon DEF SemTypeOK, QueueConsistent
<1>2. /\ u \in ToSet(queue[s])
      /\ u \in Thread
      /\ ToSet(Tail(queue[s])) = ToSet(queue[s]) \ {u}
      /\ NoDuplicates(Tail(queue[s]))
  BY <1>1, TailCorrect, Zenon
<1>3. waiting' = waiting \ {u}
  OBVIOUS
<1> HIDE DEF u
<1>4. u \in waiting /\ want[u] = s
  BY <1>2, Zenon DEF QueueConsistent
<1>5. /\ want' = want
      /\ queue'[s] = Tail(queue[s])
      /\ \A x \in Semaphore \ {s} : queue'[x] = queue[x] /\ value'[x] = value[x]
      /\ value'[s] = value[s] + 1
  BY Zenon DEF WakeFirst, SemTypeOK
<1>6. ASSUME NEW x \in Semaphore
      PROVE  NoDuplicates(queue'[x]) /\ ToSet(queue'[x]) = {t \in waiting' : want'[t] = x}
  <2>1. NoDuplicates(queue[x]) /\ ToSet(queue[x]) = {t \in waiting : want[t] = x}
    BY DEF QueueConsistent
  <2>2. CASE x = s
    BY <1>2, <1>3, <1>5, <2>1, <2>2, Zenon
  <2>3. CASE x # s
    BY <1>3, <1>4, <1>5, <2>1, <2>3
  <2> QED BY <2>2, <2>3, Zenon
<1>7. ASSUME NEW x \in Semaphore, queue'[x] # <<>>
      PROVE  value'[x] <= Cardinality(Woken(x)')
  <2>1. CASE x = s
    <3>1. Woken(s)' = Woken(s) \cup {u} /\ u \notin Woken(s)
      BY <1>2, <1>3, <1>4, <1>5 DEF Woken
    <3>2. Cardinality(Woken(s) \cup {u}) = Cardinality(Woken(s)) + 1
      BY <3>1, WokenFinite, FS_AddElement, Zenon
    <3>3. value[s] <= Cardinality(Woken(s)) /\ value[s] \in Nat
      BY DEF NoLostWakeup, SemTypeOK
    <3>4. Cardinality(Woken(s)) \in Nat
      BY WokenFinite
    <3>5. value'[x] = value[s] + 1 /\ Cardinality(Woken(x)') = Cardinality(Woken(s)) + 1
      BY <1>5, <2>1, <3>1, <3>2, Zenon
    <3> QED BY <3>3, <3>4, <3>5
  <2>2. CASE x # s
    <3>1. Woken(x)' = Woken(x)
      BY <1>3, <1>4, <1>5, <2>2, Zenon DEF Woken
    <3> QED BY <1>5, <1>7, <2>2, <3>1, Zenon DEF NoLostWakeup
  <2> QED BY <2>1, <2>2
<1> QED BY <1>6, <1>7, Zenon DEF QueueConsistent, NoLostWakeup

(* P that sleeps, for the first time or again: the value is zero. *)
LEMMA SleepEffect ==
  ASSUME SemTypeOK, QueueConsistent, NoLostWakeup, waiting \subseteq Thread,
         NEW s \in Semaphore, NEW t \in Thread, t \notin waiting, want[t] \in {s, NULL},
         value[s] = 0, value' = value, waiting' = waiting \cup {t},
         want' = [want EXCEPT ![t] = s],
         queue' = [queue EXCEPT ![s] = Append(@, t)]
  PROVE  QueueConsistent' /\ NoLostWakeup'
<1>1. /\ queue[s] \in Seq(Thread)
      /\ NoDuplicates(queue[s])
      /\ t \notin ToSet(queue[s])
  BY Zenon DEF SemTypeOK, QueueConsistent
<1>2. /\ ToSet(Append(queue[s], t)) = ToSet(queue[s]) \cup {t}
      /\ NoDuplicates(Append(queue[s], t))
  BY <1>1, AppendCorrect
<1>3. /\ want'[t] = s
      /\ \A x \in Thread \ {t} : want'[x] = want[x]
      /\ queue'[s] = Append(queue[s], t)
      /\ \A x \in Semaphore \ {s} : queue'[x] = queue[x]
  BY Zenon DEF SemTypeOK
<1>4. NULL \notin Semaphore
  BY SemaphoreAssumption, Zenon DEF SemaphoreAssumption
<1>5. ASSUME NEW x \in Semaphore
      PROVE  NoDuplicates(queue'[x]) /\ ToSet(queue'[x]) = {y \in waiting' : want'[y] = x}
  <2>1. NoDuplicates(queue[x]) /\ ToSet(queue[x]) = {y \in waiting : want[y] = x}
    BY Zenon DEF QueueConsistent
  <2>2. CASE x = s
    BY <1>2, <1>3, <2>1, <2>2
  <2>3. CASE x # s
    BY <1>3, <2>1, <2>3
  <2> QED BY <2>2, <2>3, Zenon
<1>6. ASSUME NEW x \in Semaphore, queue'[x] # <<>>
      PROVE  value'[x] <= Cardinality(Woken(x)')
  <2>1. CASE x = s
    <3>1. IsFiniteSet(Woken(s)')
      <4>1. Woken(s)' \in SUBSET Thread
        BY Zenon DEF Woken
      <4> QED BY <4>1, FS_Subset, SemaphoreAssumption, Zenon DEF SemaphoreAssumption
    <3>2. Cardinality(Woken(s)') \in Nat
      BY <3>1, FS_CardinalityType, Zenon
    <3> QED BY <2>1, <3>2
  <2>2. CASE x # s
    <3>1. Woken(x)' = Woken(x)
      BY <1>3, <1>4, <2>2, Zenon DEF Woken
    <3> QED BY <1>3, <1>6, <2>2, <3>1, Zenon DEF NoLostWakeup
  <2> QED BY <2>1, <2>2, Zenon
<1> QED BY <1>5, <1>6, Zenon DEF QueueConsistent, NoLostWakeup

(* The end of P: the value and the threads on their way out of P both *)
(* shrink by one.                                                     *)
LEMMA TakeEffect ==
  ASSUME SemTypeOK, QueueConsistent, NoLostWakeup, waiting \subseteq Thread,
         NEW s \in Semaphore, NEW t \in Thread, t \notin waiting, want[t] = s,
         value' = [value EXCEPT ![s] = @ - 1], waiting' = waiting,
         want' = [want EXCEPT ![t] = NULL], queue' = queue
  PROVE  QueueConsistent' /\ NoLostWakeup'
<1>1. /\ want'[t] = NULL
      /\ \A x \in Thread \ {t} : want'[x] = want[x]
      /\ value'[s] = value[s] - 1
      /\ \A x \in Semaphore \ {s} : value'[x] = value[x]
  BY DEF SemTypeOK
<1>2. NULL \notin Semaphore
  BY SemaphoreAssumption DEF SemaphoreAssumption
<1>3. ASSUME NEW x \in Semaphore
      PROVE  NoDuplicates(queue'[x]) /\ ToSet(queue'[x]) = {y \in waiting' : want'[y] = x}
  BY <1>1, Zenon DEF QueueConsistent
<1>4. ASSUME NEW x \in Semaphore, queue'[x] # <<>>
      PROVE  value'[x] <= Cardinality(Woken(x)')
  <2>1. CASE x = s
    <3>1. Woken(s)' = Woken(s) \ {t} /\ t \in Woken(s)
      BY <1>1, <1>2 DEF Woken
    <3>2. Cardinality(Woken(s) \ {t}) = Cardinality(Woken(s)) - 1
      BY <3>1, WokenFinite, FS_RemoveElement, Zenon
    <3>3. value[s] <= Cardinality(Woken(s)) /\ value[s] \in Nat
      BY <1>4, <2>1 DEF NoLostWakeup, SemTypeOK
    <3>4. Cardinality(Woken(s)) \in Nat
      BY WokenFinite
    <3>5. value'[x] = value[s] - 1 /\ Cardinality(Woken(x)') = Cardinality(Woken(s)) - 1
      BY <1>1, <2>1, <3>1, <3>2, Zenon
    <3> QED BY <3>3, <3>4, <3>5
  <2>2. CASE x # s
    <3>1. Woken(x)' = Woken(x)
      BY <1>1, <1>2, <2>2, Zenon DEF Woken
    <3> QED BY <1>1, <1>4, <2>2, <3>1, Zenon DEF NoLostWakeup
  <2> QED BY <2>1, <2>2, Zenon
<1> QED BY <1>3, <1>4, Zenon DEF QueueConsistent, NoLostWakeup

(* Every step keeps SemInv. *)
LEMMA SemStep ==
  ASSUME IInv, SemInv, [SemNext]_allVars
  PROVE  SemInv'
<1>a. /\ TypeOK /\ SchedInv
      /\ SemTypeOK /\ WantInv /\ QueueConsistent /\ NoLostWakeup
  BY DEF IInv, SemInv
<1>b. SemTypeOK'
  BY <1>a, SemTypeStep
<1>c. /\ pc \in [Thread -> PC]
      /\ waiting \subseteq Thread
      /\ \A x \in waiting : pc[x] \in {"sleep", "idle"}
      /\ want \in [Thread -> Semaphore \cup {NULL}]
      /\ value \in [Semaphore -> Nat]
  BY <1>a, Zenon DEF TypeOK, SchedInv, WaitInv, SemTypeOK
<1>d. NULL \notin Semaphore
  BY SemaphoreAssumption DEF SemaphoreAssumption
<1>1. ASSUME NEW t \in Thread, NEW s \in Semaphore, P(t, s) PROVE SemInv'
  <2>1. WantInv'
    BY <1>1, <1>a, <1>c, Zenon DEF P, Call, InKernel, Runs, RestoreLevel, WantInv
  <2>2. /\ waiting' = waiting /\ want' = want /\ queue' = queue
        /\ \A x \in Semaphore : value'[x] <= value[x]
    BY <1>1, <1>c DEF P, Call, threadVars
  <2> QED BY <1>a, <1>b, <2>1, <2>2, CountEffect, Zenon DEF SemInv
<1>2. ASSUME NEW t \in Thread, NEW s \in Semaphore, PWaits(t, s) PROVE SemInv'
  <2>1. WantInv'
    BY <1>2, <1>a, <1>c, <1>d, Zenon DEF PWaits, Block, InKernel, Runs, Sleep, WantInv
  <2>2. t \notin waiting /\ want[t] = NULL
    BY <1>2, <1>a, <1>c, Zenon DEF PWaits, Block, InKernel, Runs, WantInv
  <2>3. /\ value[s] = 0 /\ value' = value /\ waiting' = waiting \cup {t}
        /\ want' = [want EXCEPT ![t] = s]
        /\ queue' = [queue EXCEPT ![s] = Append(@, t)]
    BY <1>2 DEF PWaits, Block
  <2> QED BY <1>a, <1>b, <1>c, <2>1, <2>2, <2>3, SleepEffect, Zenon DEF SemInv
<1>3. ASSUME NEW t \in Thread, NEW s \in Semaphore, V(t, s) PROVE SemInv'
  <2>1. WantInv'
    BY <1>3, <1>a, <1>c, Zenon DEF V, Call, Wake, WakeFirst, CountOnly, InKernel, Runs,
       RestoreLevel, WantInv
  <2>2. CASE queue[s] # <<>>
    <3>1. WakeFirst(s) /\ waiting' = waiting \ {Head(queue[s])}
      BY <1>3, <2>2, Zenon DEF V, Wake
    <3> QED BY <1>a, <1>b, <2>1, <2>2, <3>1, WakeEffect DEF SemInv
  <2>3. CASE queue[s] = <<>>
    <3>1. /\ waiting' = waiting /\ want' = want /\ queue' = queue
          /\ \A x \in Semaphore : queue[x] # <<>> => value'[x] <= value[x]
      BY <1>3, <1>c, <2>3 DEF V, Call, CountOnly, threadVars
    <3> QED BY <1>a, <1>b, <2>1, <3>1, CountEffect DEF SemInv
  <2> QED BY <2>2, <2>3
<1>4. ASSUME NEW t \in Thread, NEW s \in Semaphore, HandlerV(t, s) PROVE SemInv'
  <2>1. WantInv'
    BY <1>4, <1>a, Zenon DEF HandlerV, DeviceInterrupt, DeviceInterruptNoWaiter, WakeFirst,
       CountOnly, stackVars, WantInv
  <2>2. CASE queue[s] # <<>>
    <3>1. WakeFirst(s) /\ waiting' = waiting \ {Head(queue[s])}
      BY <1>4, <2>2, Zenon DEF HandlerV, DeviceInterrupt
    <3> QED BY <1>a, <1>b, <2>1, <2>2, <3>1, WakeEffect DEF SemInv
  <2>3. CASE queue[s] = <<>>
    <3>1. /\ waiting' = waiting /\ want' = want /\ queue' = queue
          /\ \A x \in Semaphore : queue[x] # <<>> => value'[x] <= value[x]
      BY <1>4, <1>c, <2>3 DEF HandlerV, DeviceInterruptNoWaiter, CountOnly, threadVars
    <3> QED BY <1>a, <1>b, <2>1, <3>1, CountEffect DEF SemInv
  <2> QED BY <2>2, <2>3
<1>5. ASSUME NEW t \in Thread, PWaitsAgain(t) PROVE SemInv'
  <2>1. WantInv'
    BY <1>5, <1>a, <1>c, Zenon DEF PWaitsAgain, BlockAgain, Sleep, WantInv
  <2>2. t \notin waiting /\ want[t] \in Semaphore
    BY <1>5, <1>a, <1>c, Zenon DEF PWaitsAgain, BlockAgain, WantInv
  <2>3. /\ value[want[t]] = 0 /\ value' = value /\ waiting' = waiting \cup {t}
        /\ want' = [want EXCEPT ![t] = want[t]]
        /\ queue' = [queue EXCEPT ![want[t]] = Append(@, t)]
    BY <1>5, <1>c, Zenon DEF PWaitsAgain, BlockAgain
  <2> QED BY <1>a, <1>b, <1>c, <2>1, <2>2, <2>3, SleepEffect, Zenon DEF SemInv
<1>6. ASSUME NEW t \in Thread, PEnds(t) PROVE SemInv'
  <2>1. WantInv'
    BY <1>6, <1>a, <1>c, Zenon DEF PEnds, PReturns, RestoreLevel, WantInv
  <2>2. t \notin waiting /\ want[t] \in Semaphore
    BY <1>6, <1>a, <1>c, Zenon DEF PEnds, PReturns, WantInv
  <2>3. /\ value' = [value EXCEPT ![want[t]] = @ - 1] /\ waiting' = waiting
        /\ want' = [want EXCEPT ![t] = NULL] /\ queue' = queue
    BY <1>6, Zenon DEF PEnds, PReturns, threadVars
  <2> QED BY <1>a, <1>b, <1>c, <2>1, <2>2, <2>3, TakeEffect, Zenon DEF SemInv
<1>7. ASSUME NEW t \in Thread, OtherStep(t) PROVE SemInv'
  <2>1. WantInv' /\ waiting' = waiting
    BY <1>7, <1>a, OtherWant
  <2>2. want' = want /\ queue' = queue /\ \A x \in Semaphore : value'[x] <= value[x]
    BY <1>7, <1>c DEF OtherStep, semVars
  <2> QED BY <1>a, <1>b, <2>1, <2>2, CountEffect, Zenon DEF SemInv
<1>8. CASE (Stopped /\ UNCHANGED semVars) \/ UNCHANGED allVars
  <2>1. /\ waiting' = waiting /\ pc' = pc /\ want' = want /\ queue' = queue
        /\ \A x \in Semaphore : value'[x] <= value[x]
    BY <1>8, <1>c DEF Stopped, allVars, semVars, vars, threadVars, stackVars
  <2> QED BY <1>a, <1>b, <2>1, CountEffect, Zenon DEF SemInv, WantInv
<1> QED BY <1>1, <1>2, <1>3, <1>4, <1>5, <1>6, <1>7, <1>8 DEF SemNext

(* The semaphores as they are built satisfy the invariant. *)
LEMMA SemInitInv ==
  ASSUME SemInit
  PROVE  IInv /\ SemInv
<1>1. IInv
  BY InitIInv DEF SemInit
<1>2. SemTypeOK
  <2>1. <<>> \in Seq(Thread)
    OBVIOUS
  <2> QED BY <2>1, SemaphoreAssumption DEF SemInit, SemTypeOK, SemaphoreAssumption
<1>3. WantInv
  BY Zenon DEF SemInit, Init, WantInv
<1>4. QueueConsistent
  <2>1. ToSet(<<>>) = {} /\ NoDuplicates(<<>>)
    BY DEF ToSet, NoDuplicates
  <2>2. waiting = {} /\ \A s \in Semaphore : queue[s] = <<>>
    BY Zenon DEF SemInit, Init
  <2> QED BY <2>1, <2>2 DEF QueueConsistent
<1>5. NoLostWakeup
  BY DEF SemInit, NoLostWakeup
<1> QED BY <1>1, <1>2, <1>3, <1>4, <1>5 DEF SemInv

(* The invariants of the threads and of the semaphores are inductive together. *)
THEOREM SemInductive == SemSpec => [](IInv /\ SemInv)
<1>1. IInv /\ SemInv /\ [SemNext]_allVars => (IInv /\ SemInv)'
  <2> SUFFICES ASSUME IInv, SemInv, [SemNext]_allVars
               PROVE  IInv' /\ SemInv'
    OBVIOUS
  <2>1. [Next]_vars
    BY StepImplements DEF SemInv
  <2>2. IInv'
    BY <2>1, IInvStep
  <2> QED BY <2>2, SemStep
<1> QED BY <1>1, SemInitInv, PTL DEF SemSpec

(* The semaphores, whatever order the threads and the interrupt handlers call *)
(* P and V in, do to the threads only what Threads allows.  So every theorem  *)
(* of ThreadsProofs holds for SemSpec.                                        *)
THEOREM ImplementsThreads == SemSpec => Spec
<1>1. SemInit => Init
  BY DEF SemInit
<1>2. SemInv /\ [SemNext]_allVars => [Next]_vars
  BY StepImplements DEF SemInv
<1> QED BY <1>1, <1>2, SemInductive, PTL DEF SemSpec, Spec

(* SemTypeOK; in particular Semaphore::P never takes a value below zero. *)
THEOREM SemTypeInvariant == SemSpec => []SemTypeOK
<1>1. SemInv => SemTypeOK
  BY DEF SemInv
<1> QED BY <1>1, SemInductive, PTL

(* QueueConsistent: the queues hold exactly the threads asleep in P. *)
THEOREM QueueInvariant == SemSpec => []QueueConsistent
<1>1. SemInv => QueueConsistent
  BY DEF SemInv
<1> QED BY <1>1, SemInductive, PTL

(* NoLostWakeup: for any number of threads and any barging at the P's, no *)
(* thread is left asleep on a value that nobody is on the way to take.    *)
THEOREM WakeupInvariant == SemSpec => []NoLostWakeup
<1>1. SemInv => NoLostWakeup
  BY DEF SemInv
<1> QED BY <1>1, SemInductive, PTL
=============================================================================
