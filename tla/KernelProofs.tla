---------------------------- MODULE KernelProofs ----------------------------
(***************************************************************************)
(* Proofs about KernelStart, for every command line; about Monitor, for    *)
(* every set of threads (the lock excludes, no signal is lost, Lock and    *)
(* Condition implement MesaMonitor); and about SynchList, for every finite *)
(* set of threads, every set of items and every choice of operations.      *)
(*                                                                         *)
(* KernelInv says which parts of the kernel live: PartsAreLive alone does  *)
(* not tell how far the making and the deleting have come.                 *)
(*                                                                         *)
(* MutualExclusion and NoSignalLost are not inductive: they do not say     *)
(* that the thread a Release takes off the lock's queue was asleep there,  *)
(* nor that a thread is queued only once.  LockQueueInv and the injective  *)
(* queues of MonInv do.                                                    *)
(*                                                                         *)
(* Every step of SynchList is a step of Monitor, so MonInv holds there     *)
(* too.  OpInv ties the place of a thread in the monitor to the operation  *)
(* it is in: only consumers wait for the condition, and a producer between *)
(* its Signal and its Release has the lock.                                *)
(***************************************************************************)
EXTENDS KernelStart, SynchList, TLAPS

-----------------------------------------------------------------------------
(* The start and the end of the kernel. *)

(* The parts that there are. *)
AllParts == {Parts[k] : k \in 1 .. 12}

(* Initialize has made the k-th part, and a deletion has come past it. *)
Made(k) == /\ mainAt \notin {"main", "kernel", "aborted"}
           /\ mainAt = "initialize" => k < turn
Gone(k) == k > 1 /\ ((mainAt = "deleting" /\ k <= turn) \/ k <= handler)

(* The first d parts that ~Kernel deletes have been deleted, in its order. *)
FreedUpTo(d) ==
  freed \in Seq(AllParts) /\ Len(freed) = d /\ \A k \in 1 .. d : freed[k] = Deleted[k]

(* The inductive invariant: the parts that live are those that are made and  *)
(* not deleted, by Halt or by ctl-C.                                          *)
KernelInv ==
  /\ mainAt \in {"main", "kernel", "aborted", "initialize", "jobs", "user", "deleting", "exit"}
  /\ handler \in 0 .. 12 /\ turn \in 1 .. 13
  /\ handler # 0 => mainAt \in {"jobs", "user", "deleting", "exit"}
  /\ mainAt \in {"main", "kernel"} => turn = 1 /\ using = {}
  /\ mainAt = "deleting" => turn <= 12
  /\ live \subseteq AllParts
  /\ mainAt # "exit" => \A k \in 1 .. 12 : Parts[k] \in live <=> Made(k) /\ ~Gone(k)
  /\ mainAt = "exit" => live = {"currentThread"}
  /\ mainAt \in {"initialize", "jobs", "user"} /\ handler = 0 => using \subseteq live
  /\ handler = 0 /\ mainAt # "exit" => FreedUpTo(IF mainAt = "deleting" THEN turn - 1 ELSE 0)
  /\ handler # 0 /\ mainAt \in {"jobs", "user"} => FreedUpTo(handler - 1)

(* The parts by their numbers. *)
LEMMA PartNames ==
  /\ Len(Parts) = 12 /\ Len(Deleted) = 11 /\ Len(Jobs) = 9
  /\ Parts[1] = "currentThread" /\ Parts[2] = "stats" /\ Parts[3] = "interrupt"
  /\ Parts[4] = "scheduler" /\ Parts[5] = "alarm" /\ Parts[6] = "machine"
  /\ Parts[7] = "synchConsoleIn" /\ Parts[8] = "synchConsoleOut" /\ Parts[9] = "synchDisk"
  /\ Parts[10] = "fileSystem" /\ Parts[11] = "postOfficeIn" /\ Parts[12] = "postOfficeOut"
BY DEF Parts, Deleted, Jobs

(* ~Kernel deletes all but the first. *)
LEMMA DeletedParts == \A k \in 1 .. 11 : Deleted[k] = Parts[k + 1]
BY DEF Parts, Deleted

(* No part is there twice. *)
LEMMA PartsDiffer == \A j, k \in 1 .. 12 : Parts[j] = Parts[k] => j = k
<1> SUFFICES ASSUME NEW j \in 1 .. 12, NEW k \in 1 .. 12, j < k PROVE Parts[j] # Parts[k]
  OBVIOUS
<1>1. k \in {2, 3, 4, 5, 6, 7, 8, 9, 10, 11, 12} /\ j \in {1, 2, 3, 4, 5, 6, 7, 8, 9, 10, 11}
  OBVIOUS
<1> QED BY <1>1, PartNames

(* The constructors reach only parts that are made before. *)
LEMMA ReachesEarlier ==
  ASSUME NEW t \in 1 .. 12
  PROVE  \A x \in Reaches(Parts[t]) : \E k \in 1 .. (t - 1) : x = Parts[k]
<1>1. t \in {1, 2, 3, 4, 5, 6, 7, 8, 9, 10, 11, 12}
  OBVIOUS
<1>2. CASE t \in {5, 7}
  <2>1. Reaches(Parts[t]) = {"interrupt", "stats"}
    BY <1>2, PartNames DEF Reaches
  <2>2. 2 \in 1 .. (t - 1) /\ 3 \in 1 .. (t - 1)
    BY <1>2
  <2> QED BY <2>1, <2>2, PartNames
<1>3. CASE t = 10
  <2>1. Reaches(Parts[t]) \subseteq DiskIO
    BY <1>3, PartNames DEF Reaches
  <2>2. {1, 2, 3, 4, 6, 9} \subseteq 1 .. (t - 1)
    BY <1>3
  <2> QED BY <2>1, <2>2, PartNames DEF DiskIO
<1>4. CASE t = 11
  <2>1. Reaches(Parts[t]) = {"interrupt", "stats", "scheduler"}
    BY <1>4, PartNames DEF Reaches
  <2>2. {2, 3, 4} \subseteq 1 .. (t - 1)
    BY <1>4
  <2> QED BY <2>1, <2>2, PartNames
<1>5. CASE t \in {1, 2, 3, 4, 6, 8, 9, 12}
  <2>1. Reaches(Parts[t]) = {}
    BY <1>5, PartNames DEF Reaches
  <2> QED BY <2>1
<1> QED BY <1>1, <1>2, <1>3, <1>4, <1>5

(* What main does goes through parts of the kernel. *)
LEMMA NeedsParts == \A job : Needs(job) \subseteq AllParts
<1>1. {"currentThread", "stats", "interrupt", "scheduler", "machine", "synchConsoleIn", "synchConsoleOut",
       "synchDisk", "fileSystem", "postOfficeIn", "postOfficeOut"} \subseteq AllParts
  <2>1. {1, 2, 3, 4, 6, 7, 8, 9, 10, 11, 12} \subseteq 1 .. 12
    OBVIOUS
  <2> QED BY <2>1, PartNames DEF AllParts
<1> QED BY <1>1 DEF Needs, DiskIO

(* The invariant holds at the start. *)
LEMMA KernelInit == InitKernel => KernelInv
BY DEF InitKernel, KernelInv, Made, Gone, FreedUpTo, AllParts

(* Reading the command line keeps it. *)
LEMMA ReadingKeeps ==
  ASSUME KernelInv, MainReads \/ KernelReads \/ EndOfLine
  PROVE  KernelInv'
<1>1. /\ UNCHANGED <<live, turn, using, handler, freed>>
      /\ mainAt \in {"main", "kernel"}
      /\ mainAt' \in {"main", "kernel", "aborted", "initialize"}
  BY Zenon DEF MainReads, KernelReads, EndOfLine, ReadArg
<1>2. handler = 0 /\ turn = 1 /\ using = {} /\ FreedUpTo(0)
  BY <1>1 DEF KernelInv
<1>3. \A k \in 1 .. 12 : Parts[k] \notin live
  BY <1>1 DEF KernelInv, Made
<1>4. \A k \in 1 .. 12 : ~Made(k)'
  BY <1>1, <1>2 DEF Made
<1>5. FreedUpTo(0)'
  BY <1>1, <1>2 DEF FreedUpTo
<1>6. mainAt' \notin {"jobs", "user", "deleting", "exit"}
  BY <1>1
<1> QED BY <1>1, <1>2, <1>3, <1>4, <1>5, <1>6, Zenon DEF KernelInv

(* Initialize keeps it. *)
LEMMA InitializeKeeps ==
  ASSUME KernelInv, Initialize
  PROVE  KernelInv'
<1>1. mainAt = "initialize" /\ handler = 0 /\ UNCHANGED <<handler, freed>> /\ turn \in 1 .. 13
        /\ live \subseteq AllParts /\ FreedUpTo(0)
        /\ \A k \in 1 .. 12 : Parts[k] \in live <=> k < turn
  BY DEF Initialize, Undisturbed, KernelInv, Made, Gone
<1>2. FreedUpTo(0)'
  BY <1>1 DEF FreedUpTo
<1>3. CASE turn <= Len(Parts)
  <2>1. /\ using' = Reaches(Parts[turn]) /\ live' = live \cup {Parts[turn]}
        /\ turn' = turn + 1 /\ mainAt' = "initialize" /\ turn \in 1 .. 12
    BY <1>1, <1>3, PartNames DEF Initialize
  <2>2. \A k \in 1 .. 12 : Parts[k] \in live' <=> k < turn'
    BY <1>1, <2>1, PartsDiffer
  <2>3. using' \subseteq live'
    <3>1. \A x \in using' : \E k \in 1 .. 12 : x = Parts[k] /\ k < turn
      BY <2>1, ReachesEarlier
    <3> QED BY <1>1, <2>1, <3>1
  <2>4. live' \subseteq AllParts
    BY <1>1, <2>1 DEF AllParts
  <2> QED BY <1>1, <1>2, <2>1, <2>2, <2>3, <2>4 DEF KernelInv, Made, Gone
<1>4. CASE turn > Len(Parts)
  <2>1. mainAt' = "jobs" /\ turn' = 1 /\ using' = {"interrupt"} /\ live' = live /\ turn = 13
    BY <1>1, <1>4, PartNames DEF Initialize
  <2>2. \A k \in 1 .. 12 : Parts[k] \in live
    BY <1>1, <2>1
  <2>3. using' \subseteq live'
    BY <2>1, <2>2, PartNames
  <2> QED BY <1>1, <1>2, <2>1, <2>2, <2>3 DEF KernelInv, Made, Gone
<1>5. Len(Parts) = 12
  BY PartNames
<1> QED BY <1>1, <1>3, <1>4, <1>5

(* main's jobs keep it, and the call of Halt. *)
LEMMA JobsKeep ==
  ASSUME KernelInv, DoJob \/ Halt
  PROVE  KernelInv'
<1>1. /\ mainAt \in {"jobs", "user"} /\ handler = 0 /\ UNCHANGED <<live, handler, freed>>
      /\ live \subseteq AllParts /\ FreedUpTo(0) /\ using \subseteq live
      /\ \A k \in 1 .. 12 : Parts[k] \in live
  <2>1. mainAt \in {"jobs", "user"} /\ handler = 0 /\ UNCHANGED <<live, handler, freed>>
    BY Zenon DEF DoJob, Halt, Undisturbed
  <2>2. \A k \in 1 .. 12 : Made(k) /\ ~Gone(k)
    BY <2>1 DEF Made, Gone
  <2> QED BY <2>1, <2>2 DEF KernelInv
<1>2. FreedUpTo(0)' /\ AllParts \subseteq live
  BY <1>1 DEF FreedUpTo, AllParts
<1>3. CASE DoJob
  <2>1. /\ mainAt' \in {"jobs", "user"} /\ turn' \in 1 .. 13
        /\ using' = using \/ using' = Needs(Jobs[turn])
    BY <1>3, PartNames DEF DoJob, KernelInv
  <2>2. using' \subseteq live'
    BY <1>1, <1>2, <2>1, NeedsParts
  <2> QED BY <1>1, <1>2, <2>1, <2>2, Zenon DEF KernelInv, Made, Gone
<1>4. CASE Halt
  <2>1. mainAt' = "deleting" /\ turn' = 1
    BY <1>4 DEF Halt
  <2> QED BY <1>1, <1>2, <2>1 DEF KernelInv, Made, Gone
<1> QED BY <1>3, <1>4

(* A deletion adds to those that were before it. *)
LEMMA OneMoreFreed ==
  ASSUME NEW d \in 0 .. 10, FreedUpTo(d), freed' = Append(freed, Deleted[d + 1])
  PROVE  FreedUpTo(d + 1)'
<1>1. Deleted[d + 1] \in AllParts
  <2>1. d + 1 \in 1 .. 11 /\ (d + 1) + 1 \in 1 .. 12
    OBVIOUS
  <2> QED BY <2>1, DeletedParts DEF AllParts
<1> QED BY <1>1 DEF FreedUpTo

(* A deletion takes one part away. *)
LEMMA OneLessLives ==
  ASSUME NEW d \in 1 .. 11, live' = live \ {Deleted[d]}
  PROVE  \A k \in 1 .. 12 : Parts[k] \in live' <=> Parts[k] \in live /\ k # d + 1
BY DeletedParts, PartsDiffer

(* ~Kernel keeps it, whoever runs it. *)
LEMMA DeletionKeeps ==
  ASSUME KernelInv, HaltDeletes \/ CleanupDeletes
  PROVE  KernelInv'
<1>0. Len(Deleted) = 11 /\ Parts[1] = "currentThread"
  BY PartNames
<1>1. CASE HaltDeletes
  <2>1. mainAt = "deleting" /\ handler = 0 /\ handler' = 0 /\ turn \in 1 .. 12
    BY <1>1 DEF HaltDeletes, Undisturbed, KernelInv
  <2>2. FreedUpTo(turn - 1) /\ live \subseteq AllParts
          /\ \A k \in 1 .. 12 : Parts[k] \in live <=> ~ (k > 1 /\ k <= turn)
    BY <2>1 DEF KernelInv, Made, Gone
  <2>3. CASE turn <= 11
    <3>1. Delete(turn) /\ turn' = turn + 1 /\ mainAt' = "deleting"
      BY <1>0, <1>1, <2>1, <2>3 DEF HaltDeletes
    <3>2. \A k \in 1 .. 12 : Parts[k] \in live' <=> ~ (k > 1 /\ k <= turn + 1)
      <4>1. PICK d \in 1 .. 11 : d = turn
        BY <2>1, <2>3
      <4>2. \A k \in 1 .. 12 : Parts[k] \in live' <=> Parts[k] \in live /\ k # d + 1
        BY <3>1, <4>1, OneLessLives, Zenon DEF Delete
      <4> QED BY <2>1, <2>2, <4>1, <4>2
    <3>3. FreedUpTo(turn - 1)'
      <4>1. PICK d \in 0 .. 10 : d = turn - 1
        BY <2>1, <2>3
      <4>2. Deleted[turn] = Deleted[d + 1] /\ turn' - 1 = d + 1
        BY <2>1, <3>1, <4>1
      <4>3. FreedUpTo(d) /\ freed' = Append(freed, Deleted[d + 1]) => FreedUpTo(d + 1)'
        BY OneMoreFreed
      <4> QED BY <2>2, <3>1, <4>1, <4>2, <4>3, Zenon DEF Delete, FreedUpTo
    <3>4. live' \subseteq AllParts
      BY <2>2, <3>1 DEF Delete, AllParts
    <3> QED BY <2>1, <2>3, <3>1, <3>2, <3>3, <3>4 DEF KernelInv, Made, Gone
  <2>4. CASE turn = 12
    <3>1. mainAt' = "exit" /\ UNCHANGED <<turn, live>>
      BY <1>0, <1>1, <2>4 DEF HaltDeletes
    <3>2. live = {"currentThread"}
      BY <1>0, <2>2, <2>4 DEF AllParts
    <3> QED BY <2>1, <2>2, <3>1, <3>2, Zenon DEF KernelInv
  <2> QED BY <2>1, <2>3, <2>4
<1>2. CASE CleanupDeletes
  <2>1. mainAt \in {"jobs", "user", "deleting"} /\ handler \in 1 .. 12 /\ turn' = turn /\ turn \in 1 .. 13
    BY <1>2 DEF CleanupDeletes, Undisturbed, KernelInv
  <2>2. /\ mainAt \in {"jobs", "user"} => FreedUpTo(handler - 1)
        /\ mainAt = "deleting" => turn <= 12
        /\ live \subseteq AllParts
        /\ \A k \in 1 .. 12 : Parts[k] \in live <=> ~Gone(k)
    BY <2>1 DEF KernelInv, Made
  <2>3. CASE handler <= 11
    <3>1. Delete(handler) /\ handler' = handler + 1 /\ mainAt' = mainAt
      BY <1>0, <1>2, <2>1, <2>3 DEF CleanupDeletes
    <3>2. \A k \in 1 .. 12 : Parts[k] \in live' <=> ~Gone(k)'
      <4>1. \A k \in 1 .. 12 : Parts[k] \in live' <=> Parts[k] \in live /\ k # handler + 1
        <5>1. PICK d \in 1 .. 11 : d = handler
          BY <2>1, <2>3
        <5> QED BY <3>1, <5>1, OneLessLives, Zenon DEF Delete
      <4>2. \A k \in 1 .. 12 : Gone(k)' <=> Gone(k) \/ k = handler + 1
        BY <2>1, <3>1 DEF Gone
      <4> QED BY <2>2, <4>1, <4>2
    <3>3. mainAt \in {"jobs", "user"} => FreedUpTo(handler - 1)'
      <4>1. PICK d \in 0 .. 10 : d = handler - 1
        BY <2>1, <2>3
      <4>2. Deleted[handler] = Deleted[d + 1] /\ handler' - 1 = d + 1
        BY <2>1, <3>1, <4>1
      <4>3. FreedUpTo(d) /\ freed' = Append(freed, Deleted[d + 1]) => FreedUpTo(d + 1)'
        BY OneMoreFreed
      <4> QED BY <2>2, <3>1, <4>1, <4>2, <4>3, Zenon DEF Delete, FreedUpTo
    <3>4. live' \subseteq AllParts
      BY <2>2, <3>1 DEF Delete, AllParts
    <3>5. \A k \in 1 .. 12 : Made(k)'
      BY <2>1, <3>1 DEF Made
    <3> QED BY <2>1, <2>2, <2>3, <3>1, <3>2, <3>3, <3>4, <3>5 DEF KernelInv
  <2>4. CASE handler = 12
    <3>1. mainAt' = "exit" /\ UNCHANGED <<handler, live>>
      BY <1>0, <1>2, <2>4 DEF CleanupDeletes
    <3>2. live = {"currentThread"}
      BY <1>0, <2>2, <2>4 DEF AllParts, Gone
    <3> QED BY <2>1, <2>2, <3>1, <3>2, Zenon DEF KernelInv
  <2> QED BY <2>1, <2>3, <2>4
<1> QED BY <1>1, <1>2

(* Every step keeps the invariant. *)
LEMMA KernelStep == KernelInv /\ [NextKernel]_kernelVars => KernelInv'
<1> SUFFICES ASSUME KernelInv, [NextKernel]_kernelVars PROVE KernelInv'
  OBVIOUS
<1>1. CASE Interrupted
  <2>1. /\ mainAt \in {"jobs", "user", "deleting"} /\ handler = 0 /\ handler' = 1
        /\ UNCHANGED <<mainAt, live, turn, using, freed>>
    BY <1>1 DEF Interrupted, Undisturbed
  <2>2. \A k \in 1 .. 12 : (Made(k)' <=> Made(k)) /\ (Gone(k)' <=> Gone(k))
    BY <2>1 DEF Made, Gone
  <2>3. mainAt \in {"jobs", "user"} => FreedUpTo(0)'
    BY <2>1 DEF KernelInv, FreedUpTo
  <2> QED BY <2>1, <2>2, <2>3 DEF KernelInv
<1>2. CASE UNCHANGED kernelVars
  BY <1>2, Zenon DEF kernelVars, KernelInv, Made, Gone, FreedUpTo
<1> QED BY <1>1, <1>2, ReadingKeeps, InitializeKeeps, JobsKeep, DeletionKeeps DEF NextKernel

(* The start and the commands of main use only parts that are made, and Halt  *)
(* or ctl-C deletes every part once, for every command line and whenever     *)
(* ctl-C comes.                                                               *)
THEOREM PartsLive == SpecKernel => []PartsAreLive
<1>1. KernelInv => PartsAreLive
  <2> SUFFICES ASSUME KernelInv, mainAt # "exit", mainAt = "deleting" => Undisturbed
               PROVE  IsInjective(freed)
    BY DEF KernelInv, PartsAreLive, Undisturbed
  <2>1. PICK d \in 0 .. 11 : FreedUpTo(d)
    <3>1. CASE handler = 0 /\ mainAt = "deleting"
      BY <3>1 DEF KernelInv
    <3>2. CASE handler = 0 /\ mainAt # "deleting"
      BY <3>2 DEF KernelInv
    <3>3. CASE handler # 0
      BY <3>3 DEF KernelInv, Undisturbed
    <3> QED BY <3>1, <3>2, <3>3
  <2>2. \A j \in DOMAIN freed : j \in 1 .. 11 /\ freed[j] = Deleted[j]
    BY <2>1 DEF FreedUpTo
  <2>3. \A j, k \in 1 .. 11 : Deleted[j] = Deleted[k] => j = k
    BY DeletedParts, PartsDiffer
  <2> QED BY <2>2, <2>3, Zenon DEF IsInjective
<1> QED BY <1>1, KernelInit, KernelStep, PTL DEF SpecKernel

-----------------------------------------------------------------------------
(* The invariant of the lock and the condition. *)

(* Without Cardinality: the lock is free and nobody has it, or it is busy and *)
(* exactly one thread does.                                                   *)
LockInv ==
  \/ lockValue = 1 /\ Owners = {}
  \/ lockValue = 0 /\ \E t \in Thread : Owners = {t}

HolderInv ==
  \A t \in Thread : pc[t] \in {"in", "broadcast"} <=> lockHolder = t

(* Who is on the lock's queue sleeps in Acquire. *)
LockQueueInv ==
  /\ IsInjective(lockQueue)
  /\ \A t \in Range(lockQueue) : pc[t] = "lockQueued"

WaitQueueInv == IsInjective(waitQueue)

MonInv ==
  MonitorTypeOK /\ LockInv /\ HolderInv /\ LockQueueInv /\ WaitQueueInv /\ NoSignalLost

-----------------------------------------------------------------------------
(* Queues.                                                                  *)

(* What joining a queue does to it: List::Append of a thread. *)
LEMMA AppendProps ==
  ASSUME NEW T, NEW q \in Seq(T), NEW x \in T
  PROVE  /\ Append(q, x) \in Seq(T)
         /\ Range(Append(q, x)) = Range(q) \cup {x}
         /\ IsInjective(q) /\ x \notin Range(q) => IsInjective(Append(q, x))
<1>1. Append(q, x) \in Seq(T)
  OBVIOUS
<1> DEFINE r == Append(q, x)
<1>a. /\ DOMAIN r = DOMAIN q \cup {Len(q) + 1}
      /\ r[Len(q) + 1] = x
      /\ \A i \in DOMAIN q : r[i] = q[i]
  OBVIOUS
<1>2. Range(r) = Range(q) \cup {x}
  <2> HIDE DEF r
  <2>1. ASSUME NEW y PROVE y \in Range(r) <=> y \in Range(q) \cup {x}
    BY <1>a, Zenon DEF Range
  <2> QED BY <2>1, Zenon
<1>3. ASSUME IsInjective(q), x \notin Range(q) PROVE IsInjective(Append(q, x))
  BY <1>3 DEF Range, IsInjective
<1> QED BY <1>1, <1>2, <1>3

(* What leaving a queue at the front does to it: List::RemoveFront. *)
LEMMA TailProps ==
  ASSUME NEW T, NEW q \in Seq(T), q # <<>>
  PROVE  /\ Tail(q) \in Seq(T)
         /\ Head(q) \in T
         /\ Head(q) \in Range(q)
         /\ Range(Tail(q)) \subseteq Range(q)
         /\ Range(q) = Range(Tail(q)) \cup {Head(q)}
         /\ IsInjective(q) => IsInjective(Tail(q)) /\ Head(q) \notin Range(Tail(q))
<1>1. Tail(q) \in Seq(T) /\ Head(q) \in T /\ Len(q) > 0
  OBVIOUS
<1>2. Head(q) = q[1] /\ 1 \in DOMAIN q
  BY <1>1
<1>3. \A i \in DOMAIN Tail(q) : i + 1 \in DOMAIN q /\ Tail(q)[i] = q[i + 1]
  OBVIOUS
<1>4. Head(q) \in Range(q)
  BY <1>2 DEF Range
<1>5. Range(Tail(q)) \subseteq Range(q)
  BY <1>3 DEF Range
<1>6. ASSUME NEW y \in Range(q) PROVE y \in Range(Tail(q)) \cup {Head(q)}
  <2>1. PICK i \in DOMAIN q : y = q[i]
    BY <1>6 DEF Range
  <2>2. CASE i = 1
    BY <1>2, <2>1, <2>2
  <2>3. CASE i # 1
    <3>1. i - 1 \in DOMAIN Tail(q) /\ Tail(q)[i - 1] = q[i]
      BY <2>1, <2>3
    <3> QED BY <2>1, <3>1 DEF Range
  <2> QED BY <2>2, <2>3
<1>7. ASSUME IsInjective(q)
      PROVE  IsInjective(Tail(q)) /\ Head(q) \notin Range(Tail(q))
  <2>1. IsInjective(Tail(q))
    <3> SUFFICES ASSUME NEW i \in DOMAIN Tail(q), NEW j \in DOMAIN Tail(q),
                        Tail(q)[i] = Tail(q)[j]
                 PROVE  i = j
      BY DEF IsInjective
    <3>1. q[i + 1] = q[j + 1] /\ i + 1 \in DOMAIN q /\ j + 1 \in DOMAIN q
      BY <1>3
    <3>2. i + 1 = j + 1
      BY <3>1, <1>7 DEF IsInjective
    <3>3. i \in Nat /\ j \in Nat
      BY <1>1
    <3> QED BY <3>2, <3>3
  <2>2. Head(q) \notin Range(Tail(q))
    <3> SUFFICES ASSUME NEW i \in DOMAIN Tail(q), Tail(q)[i] = Head(q)
                 PROVE  FALSE
      BY DEF Range
    <3>1. i + 1 = 1
      BY <1>2, <1>3, <1>7 DEF IsInjective
    <3>2. i \in Nat /\ i >= 1
      BY <1>1
    <3> QED BY <3>1, <3>2
  <2> QED BY <2>1, <2>2
<1> QED BY <1>1, <1>4, <1>5, <1>6, <1>7

-----------------------------------------------------------------------------
(* The invariant.                                                           *)

(* The new lock is free and nobody waits. *)
LEMMA MonitorInitInv == MonitorInit => MonInv
<1> SUFFICES ASSUME MonitorInit PROVE MonInv
  OBVIOUS
<1> USE DEF MonitorInit
<1>1. MonitorTypeOK
  BY DEF MonitorTypeOK, PC
<1>2. LockInv
  BY DEF LockInv, Owners
<1>3. HolderInv
  BY MonitorAssumption DEF HolderInv
<1>4. LockQueueInv /\ WaitQueueInv /\ NoSignalLost
  BY DEF LockQueueInv, WaitQueueInv, NoSignalLost, Range, IsInjective
<1> QED BY <1>1, <1>2, <1>3, <1>4 DEF MonInv

(* Every step of a thread keeps the types.                                   *)
LEMMA MonitorTypeStep ==
  ASSUME MonInv, MonitorNext
  PROVE  MonitorTypeOK'
<1> USE DEF MonInv, MonitorTypeOK, PC
<1>1. ASSUME NEW t \in Thread, PLock(t), UNCHANGED <<lockHolder, waitQueue, waiter>>
      PROVE  MonitorTypeOK'
  <2>1. CASE lockValue # 0
    <3>1. lockValue' \in {0, 1} /\ lockQueue' = lockQueue
      BY <1>1, <2>1 DEF PLock
    <3>2. pc' \in [Thread -> PC]
      BY <1>1, <2>1, Zenon DEF PLock
    <3> QED BY <1>1, <3>1, <3>2
  <2>2. CASE lockValue = 0
    <3>a. lockValue' = 0 /\ lockQueue' = Append(lockQueue, t)
      BY <1>1, <2>2 DEF PLock
    <3>1. lockValue' \in {0, 1} /\ lockQueue' \in Seq(Thread)
      BY <3>a, AppendProps
    <3>2. pc' \in [Thread -> PC]
      BY <1>1, <2>2, Zenon DEF PLock
    <3> QED BY <1>1, <3>1, <3>2
  <2> QED BY <2>1, <2>2
<1>2. ASSUME NEW t \in Thread, Acquired(t) PROVE MonitorTypeOK'
  BY <1>2 DEF Acquired
<1>3. ASSUME NEW t \in Thread, NEW place \in PC, Unlock(t, place),
             pc[t] \in {"in", "broadcast"}
      PROVE  /\ lockValue' \in {0, 1} /\ lockQueue' \in Seq(Thread)
             /\ lockHolder' \in Thread \cup {NULL} /\ pc' \in [Thread -> PC]
  <2>1. lockValue = 0
    BY <1>3 DEF LockInv, Owners
  <2> QED BY <1>3, <2>1 DEF Unlock
<1>4. ASSUME NEW t \in Thread, Release(t) PROVE MonitorTypeOK'
  BY <1>3, <1>4, Zenon DEF Release
<1>5. ASSUME NEW t \in Thread, Wait(t) PROVE MonitorTypeOK'
  BY <1>3, <1>5 DEF Wait
<1>6. ASSUME NEW t \in Thread, WaitP(t) PROVE MonitorTypeOK'
  BY <1>6 DEF WaitP
<1>7. ASSUME NEW t \in Thread, SignalFirst(t) PROVE MonitorTypeOK'
  <2>1. CASE waitQueue = <<>>
    BY <1>7, <2>1 DEF SignalFirst, monitorVars
  <2>2. CASE waitQueue # <<>>
    <3>1. /\ Head(waitQueue) \in Thread /\ Tail(waitQueue) \in Seq(Thread)
          /\ Head(waitQueue) \in Range(waitQueue)
      BY <2>2, TailProps
    <3>2. waiter[Head(waitQueue)] = 0
      BY <3>1 DEF NoSignalLost
    <3> DEFINE u == Head(waitQueue)
    <3>3. /\ waitQueue' = Tail(waitQueue)
          /\ waiter' = [waiter EXCEPT ![u] = waiter[u] + 1]
          /\ pc' = [pc EXCEPT ![u] = IF pc[u] = "asleep" THEN "woken" ELSE pc[u]]
          /\ UNCHANGED <<lockValue, lockQueue, lockHolder>>
      BY <1>7, <2>2, Zenon DEF SignalFirst
    <3>4. waiter[u] + 1 = 1
      BY <3>2
    <3> HIDE DEF u
    <3>5. waiter' \in [Thread -> {0, 1}]
      BY <3>3, <3>4, Zenon
    <3>6. pc' \in [Thread -> PC]
      BY <3>3, Zenon
    <3> QED BY <3>1, <3>3, <3>5, <3>6, Zenon
  <2> QED BY <2>1, <2>2
<1>8. ASSUME NEW t \in Thread, Broadcast(t) \/ BroadcastEnds(t) PROVE MonitorTypeOK'
  BY <1>8 DEF Broadcast, BroadcastEnds
<1> QED
  BY <1>1, <1>2, <1>4, <1>5, <1>6, <1>7, <1>8, Zenon
     DEF MonitorNext, Continue, Acquire, AcquireAgain, Signal, BroadcastLoop
(* P on the lock: in Acquire and after a wakeup there.                       *)
LEMMA PLockStep ==
  ASSUME MonInv, NEW t \in Thread, pc[t] \in {"out", "relock", "lockWoken"},
         PLock(t), UNCHANGED <<lockHolder, waitQueue, waiter>>
  PROVE  LockInv' /\ HolderInv' /\ LockQueueInv' /\ WaitQueueInv' /\ NoSignalLost'
<1>a. /\ pc \in [Thread -> PC] /\ lockQueue \in Seq(Thread) /\ lockValue \in {0, 1}
      /\ LockInv /\ HolderInv /\ LockQueueInv /\ WaitQueueInv /\ NoSignalLost
  BY DEF MonInv, MonitorTypeOK
<1>b. \E p \in {"acquired", "lockQueued"} : pc' = [pc EXCEPT ![t] = p]
  BY DEF PLock
<1>c. \A u \in Thread : u # t => pc'[u] = pc[u]
  BY <1>a, <1>b
<1>d. Range(lockQueue) \subseteq Thread /\ t \notin Range(lockQueue)
  BY <1>a DEF LockQueueInv, Range
<1>1. HolderInv'
  BY <1>a, <1>b, <1>c DEF HolderInv
<1>2. WaitQueueInv'
  BY <1>a DEF WaitQueueInv
<1>3. NoSignalLost'
  BY <1>a, <1>b, <1>c DEF NoSignalLost
<1>4. CASE lockValue # 0
  <2>1. pc'[t] = "acquired" /\ lockValue' = 0 /\ lockQueue' = lockQueue
    BY <1>4, <1>a DEF PLock
  <2>2. Owners = {}
    BY <1>4, <1>a DEF LockInv
  <2>3. Owners' = {t}
    BY <2>1, <2>2, <1>c DEF Owners
  <2>4. LockInv'
    BY <2>1, <2>3 DEF LockInv
  <2>5. LockQueueInv'
    BY <2>1, <1>a, <1>c, <1>d DEF LockQueueInv
  <2> QED BY <1>1, <1>2, <1>3, <2>4, <2>5
<1>5. CASE lockValue = 0
  <2>1. pc'[t] = "lockQueued" /\ lockValue' = 0 /\ lockQueue' = Append(lockQueue, t)
    BY <1>5, <1>a DEF PLock
  <2>2. Owners' = Owners
    BY <2>1, <1>c DEF Owners
  <2>3. LockInv'
    BY <1>5, <2>1, <2>2, <1>a DEF LockInv
  <2>5. IsInjective(lockQueue') /\ Range(lockQueue') = Range(lockQueue) \cup {t}
    BY <2>1, <1>a, <1>d, AppendProps DEF LockQueueInv
  <2>7. LockQueueInv'
    BY <2>1, <2>5, <1>a, <1>c, <1>d, Zenon DEF LockQueueInv
  <2> QED BY <1>1, <1>2, <1>3, <2>3, <2>7
<1> QED BY <1>4, <1>5

(* V on the lock: what Release and Wait have in common.  The thread it wakes   *)
(* was asleep in Acquire.                                                    *)
LEMMA UnlockStep ==
  ASSUME MonInv, NEW t \in Thread, pc[t] = "in",
         NEW place \in {"out", "released"}, Unlock(t, place)
  PROVE  /\ LockInv' /\ HolderInv' /\ LockQueueInv'
         /\ pc'[t] = place
         /\ \A u \in Thread : u # t =>
               pc'[u] = pc[u] \/ (pc[u] = "lockQueued" /\ pc'[u] = "lockWoken")
<1>a. /\ pc \in [Thread -> PC] /\ lockQueue \in Seq(Thread) /\ lockValue \in {0, 1}
      /\ LockInv /\ HolderInv /\ LockQueueInv
  BY DEF MonInv, MonitorTypeOK
<1>b. /\ lockHolder' = NULL /\ lockValue' = lockValue + 1
      /\ lockQueue' = IF lockQueue = <<>> THEN <<>> ELSE Tail(lockQueue)
      /\ pc'[t] = place
      /\ \A u \in Thread : u # t =>
           pc'[u] = IF lockQueue # <<>> /\ u = Head(lockQueue) THEN "lockWoken" ELSE pc[u]
  BY DEF Unlock
<1>c. lockQueue # <<>> => pc[Head(lockQueue)] = "lockQueued" /\ Head(lockQueue) \in Thread
  BY <1>a, TailProps DEF LockQueueInv
<1>1. \A u \in Thread : u # t =>
        pc'[u] = pc[u] \/ (pc[u] = "lockQueued" /\ pc'[u] = "lockWoken")
  BY <1>b, <1>c
<1>2. Owners = {t} /\ lockValue = 0
  BY <1>a DEF LockInv, Owners
<1>3. Owners' = {}
  BY <1>b, <1>1, <1>2 DEF Owners
<1>4. LockInv'
  BY <1>b, <1>2, <1>3 DEF LockInv
<1>5. HolderInv'
  <2>1. \A u \in Thread : pc'[u] \notin {"in", "broadcast"}
    BY <1>3 DEF Owners
  <2> QED BY <1>b, <2>1, MonitorAssumption DEF HolderInv
<1>6. LockQueueInv'
  <2>1. CASE lockQueue = <<>>
    BY <1>b, <2>1 DEF LockQueueInv, Range, IsInjective
  <2>2. CASE lockQueue # <<>>
    <3>1. /\ IsInjective(Tail(lockQueue)) /\ Head(lockQueue) \notin Range(Tail(lockQueue))
          /\ Range(Tail(lockQueue)) \subseteq Range(lockQueue)
          /\ Tail(lockQueue) \in Seq(Thread)
      BY <1>a, <2>2, TailProps DEF LockQueueInv
    <3>2. Range(Tail(lockQueue)) \subseteq Thread
      BY <3>1 DEF Range
    <3>3. ASSUME NEW u \in Range(Tail(lockQueue)) PROVE pc'[u] = "lockQueued"
      <4>1. u # t /\ u # Head(lockQueue) /\ u \in Thread /\ pc[u] = "lockQueued"
        BY <1>a, <3>1, <3>2 DEF LockQueueInv
      <4> QED BY <1>b, <4>1
    <3>4. lockQueue' = Tail(lockQueue)
      BY <1>b, <2>2
    <3> QED BY <3>1, <3>3, <3>4 DEF LockQueueInv
  <2> QED BY <2>1, <2>2
<1> QED BY <1>b, <1>1, <1>4, <1>5, <1>6, Zenon
(* V on a waiter: Signal, and each turn of Broadcast.  Only the first waiter   *)
(* is touched, and it is waiting.                                            *)
LEMMA SignalFacts ==
  ASSUME MonInv, NEW t \in Thread, SignalFirst(t), waitQueue # <<>>
  PROVE  LET u == Head(waitQueue) IN
         /\ u \in Thread /\ waiter[u] = 0 /\ pc[u] \in {"released", "asleep", "woken"}
         /\ waitQueue' = Tail(waitQueue)
         /\ IsInjective(waitQueue')
         /\ Range(waitQueue') = Range(waitQueue) \ {u}
         /\ waiter'[u] = 1
         /\ pc'[u] = IF pc[u] = "asleep" THEN "woken" ELSE pc[u]
         /\ \A x \in Thread : x # u => waiter'[x] = waiter[x] /\ pc'[x] = pc[x]
         /\ UNCHANGED <<lockValue, lockQueue, lockHolder>>
<1> DEFINE u == Head(waitQueue)
<1>a. /\ pc \in [Thread -> PC] /\ waiter \in [Thread -> {0, 1}] /\ waitQueue \in Seq(Thread)
      /\ WaitQueueInv /\ NoSignalLost
  BY DEF MonInv, MonitorTypeOK
<1>1. /\ u \in Thread /\ u \in Range(waitQueue)
      /\ Range(waitQueue) = Range(Tail(waitQueue)) \cup {u}
      /\ IsInjective(Tail(waitQueue)) /\ u \notin Range(Tail(waitQueue))
  BY <1>a, TailProps DEF WaitQueueInv
<1>2. /\ waitQueue' = Tail(waitQueue)
      /\ waiter' = [waiter EXCEPT ![u] = waiter[u] + 1]
      /\ pc' = [pc EXCEPT ![u] = IF pc[u] = "asleep" THEN "woken" ELSE pc[u]]
      /\ UNCHANGED <<lockValue, lockQueue, lockHolder>>
  BY DEF SignalFirst
<1>3. waiter[u] = 0 /\ pc[u] \in {"released", "asleep", "woken"}
  BY <1>a, <1>1 DEF NoSignalLost
<1> HIDE DEF u
<1>4. waiter'[u] = 1
  BY <1>a, <1>1, <1>2, <1>3
<1>5. /\ pc'[u] = IF pc[u] = "asleep" THEN "woken" ELSE pc[u]
      /\ \A x \in Thread : x # u => waiter'[x] = waiter[x] /\ pc'[x] = pc[x]
  BY <1>a, <1>1, <1>2
<1>6. Range(waitQueue') = Range(waitQueue) \ {u} /\ IsInjective(waitQueue')
  BY <1>1, <1>2
<1> QED BY <1>1, <1>2, <1>3, <1>4, <1>5, <1>6, Zenon DEF u

(* A signal moves its thread from the queue to a counted wakeup. *)
LEMMA SignalStep ==
  ASSUME MonInv, NEW t \in Thread, SignalFirst(t)
  PROVE  LockInv' /\ HolderInv' /\ LockQueueInv' /\ WaitQueueInv' /\ NoSignalLost'
<1>a. /\ LockInv /\ HolderInv /\ LockQueueInv /\ WaitQueueInv /\ NoSignalLost
      /\ lockQueue \in Seq(Thread)
  BY DEF MonInv, MonitorTypeOK
<1>1. CASE waitQueue = <<>>
  BY <1>1, <1>a, Zenon DEF SignalFirst, monitorVars, LockInv, Owners, HolderInv, LockQueueInv,
     WaitQueueInv, NoSignalLost
<1>2. CASE waitQueue # <<>>
  <2> DEFINE u == Head(waitQueue)
  <2>1. /\ u \in Thread /\ waiter[u] = 0 /\ pc[u] \in {"released", "asleep", "woken"}
        /\ IsInjective(waitQueue')
        /\ Range(waitQueue') = Range(waitQueue) \ {u}
        /\ waiter'[u] = 1
        /\ pc'[u] = IF pc[u] = "asleep" THEN "woken" ELSE pc[u]
        /\ \A x \in Thread : x # u => waiter'[x] = waiter[x] /\ pc'[x] = pc[x]
        /\ UNCHANGED <<lockValue, lockQueue, lockHolder>>
    BY <1>2, SignalFacts, Zenon
  <2> HIDE DEF u
  <2>2. Owners' = Owners
    BY <2>1 DEF Owners
  <2>3. LockInv'
    BY <1>a, <2>1, <2>2 DEF LockInv
  <2>4. HolderInv'
    BY <1>a, <2>1 DEF HolderInv
  <2>5. LockQueueInv'
    <3>1. Range(lockQueue) \subseteq Thread
      BY <1>a DEF Range
    <3> QED BY <1>a, <2>1, <3>1, Zenon DEF LockQueueInv
  <2>6. WaitQueueInv'
    BY <2>1 DEF WaitQueueInv
  <2>7. NoSignalLost'
    <3> SUFFICES ASSUME NEW x \in Thread
                 PROVE  /\ x \in Range(waitQueue') <=>
                             pc'[x] \in {"released", "asleep", "woken"} /\ waiter'[x] = 0
                        /\ pc'[x] = "asleep" => x \in Range(waitQueue')
                        /\ pc'[x] \notin {"released", "asleep", "woken"} => waiter'[x] = 0
      BY DEF NoSignalLost
    <3>1. CASE x = u
      BY <2>1, <3>1
    <3>2. CASE x # u
      BY <1>a, <2>1, <3>2, Zenon DEF NoSignalLost
    <3> QED BY <3>1, <3>2
  <2> QED BY <2>3, <2>4, <2>5, <2>6, <2>7
<1> QED BY <1>1, <1>2
(* The steps that move one thread and change neither queue: Acquired, the P on *)
(* a waiter, and the ends of Broadcast.                                      *)
LEMMA MoveStep ==
  ASSUME MonInv, NEW t \in Thread,
         Acquired(t) \/ WaitP(t) \/ Broadcast(t) \/ BroadcastEnds(t)
  PROVE  LockInv' /\ HolderInv' /\ LockQueueInv' /\ WaitQueueInv' /\ NoSignalLost'
<1>a. /\ pc \in [Thread -> PC] /\ waiter \in [Thread -> {0, 1}] /\ lockQueue \in Seq(Thread)
      /\ LockInv /\ HolderInv /\ LockQueueInv /\ WaitQueueInv /\ NoSignalLost
  BY DEF MonInv, MonitorTypeOK
<1>b. lockQueue' = lockQueue /\ waitQueue' = waitQueue /\ lockValue' = lockValue
  BY DEF Acquired, WaitP, Broadcast, BroadcastEnds
<1>c. /\ \A u \in Thread : u # t => pc'[u] = pc[u] /\ waiter'[u] = waiter[u]
      /\ pc[t] # "lockQueued"
  BY <1>a, Zenon DEF Acquired, WaitP, Broadcast, BroadcastEnds
<1>1. LockQueueInv'
  <2>1. Range(lockQueue) \subseteq Thread
    BY <1>a DEF Range
  <2> QED BY <1>a, <1>b, <1>c, <2>1, Zenon DEF LockQueueInv
<1>2. WaitQueueInv'
  BY <1>a, <1>b DEF WaitQueueInv
<1>3. CASE Acquired(t)
  <2>1. pc[t] = "acquired" /\ pc'[t] = "in" /\ lockHolder' = t /\ waiter' = waiter
    BY <1>3, <1>a DEF Acquired
  <2>2. Owners = {t} /\ Owners' = Owners
    BY <2>1, <1>a, <1>c DEF LockInv, Owners
  <2>3. LockInv'
    BY <1>a, <1>b, <2>2 DEF LockInv
  <2>4. HolderInv'
    BY <2>1, <2>2, <1>c DEF HolderInv, Owners
  <2>5. NoSignalLost'
    BY <1>a, <1>b, <1>c, <2>1, Zenon DEF NoSignalLost
  <2> QED BY <1>1, <1>2, <2>3, <2>4, <2>5
<1>4. CASE Broadcast(t) \/ BroadcastEnds(t)
  <2>1. /\ pc[t] \in {"in", "broadcast"} /\ pc'[t] \in {"in", "broadcast"}
        /\ lockHolder' = lockHolder /\ waiter' = waiter
    BY <1>4, <1>a, Zenon DEF Broadcast, BroadcastEnds
  <2>2. Owners' = Owners
    BY <2>1, <1>c DEF Owners
  <2>3. LockInv' /\ HolderInv'
    BY <1>a, <1>b, <1>c, <2>1, <2>2, Zenon DEF LockInv, HolderInv
  <2>4. NoSignalLost'
    BY <1>a, <1>b, <1>c, <2>1, Zenon DEF NoSignalLost
  <2> QED BY <1>1, <1>2, <2>3, <2>4
<1>5. CASE WaitP(t)
  <2>1. /\ pc[t] \in {"released", "woken"} /\ lockHolder' = lockHolder
        /\ \/ waiter[t] # 0 /\ waiter'[t] = 0 /\ pc'[t] = "relock"
           \/ waiter[t] = 0 /\ waiter'[t] = 0 /\ pc'[t] = "asleep"
    BY <1>5, <1>a DEF WaitP
  <2>2. Owners' = Owners
    BY <2>1, <1>c DEF Owners
  <2>3. LockInv' /\ HolderInv'
    BY <1>a, <1>b, <1>c, <2>1, <2>2, Zenon DEF LockInv, HolderInv
  <2>4. NoSignalLost'
    <3> SUFFICES ASSUME NEW x \in Thread
                 PROVE  /\ x \in Range(waitQueue') <=>
                             pc'[x] \in {"released", "asleep", "woken"} /\ waiter'[x] = 0
                        /\ pc'[x] = "asleep" => x \in Range(waitQueue')
                        /\ pc'[x] \notin {"released", "asleep", "woken"} => waiter'[x] = 0
      BY DEF NoSignalLost
    <3>1. CASE x = t
      BY <1>a, <1>b, <2>1, <3>1, Zenon DEF NoSignalLost
    <3>2. CASE x # t
      BY <1>a, <1>b, <1>c, <3>2, Zenon DEF NoSignalLost
    <3> QED BY <3>1, <3>2
  <2> QED BY <1>1, <1>2, <2>3, <2>4
<1> QED BY <1>3, <1>4, <1>5

(* Release and Wait. *)
LEMMA UnlockingStep ==
  ASSUME MonInv, NEW t \in Thread, Release(t) \/ Wait(t)
  PROVE  LockInv' /\ HolderInv' /\ LockQueueInv' /\ WaitQueueInv' /\ NoSignalLost'
<1>a. /\ pc \in [Thread -> PC] /\ waiter \in [Thread -> {0, 1}] /\ waitQueue \in Seq(Thread)
      /\ WaitQueueInv /\ NoSignalLost /\ pc[t] = "in"
  BY DEF MonInv, MonitorTypeOK, Release, Wait
<1>1. CASE Release(t)
  <2>1. /\ LockInv' /\ HolderInv' /\ LockQueueInv' /\ pc'[t] = "out"
        /\ \A u \in Thread : u # t =>
              pc'[u] = pc[u] \/ (pc[u] = "lockQueued" /\ pc'[u] = "lockWoken")
        /\ waitQueue' = waitQueue /\ waiter' = waiter
    BY <1>1, <1>a, UnlockStep DEF Release
  <2>2. WaitQueueInv' /\ NoSignalLost'
    BY <1>a, <2>1 DEF WaitQueueInv, NoSignalLost
  <2> QED BY <2>1, <2>2
<1>2. CASE Wait(t)
  <2>1. /\ LockInv' /\ HolderInv' /\ LockQueueInv' /\ pc'[t] = "released"
        /\ \A u \in Thread : u # t =>
              pc'[u] = pc[u] \/ (pc[u] = "lockQueued" /\ pc'[u] = "lockWoken")
    BY <1>2, <1>a, UnlockStep, Zenon DEF Wait
  <2>2. /\ waitQueue' = Append(waitQueue, t)
        /\ waiter'[t] = 0 /\ \A u \in Thread : u # t => waiter'[u] = waiter[u]
    BY <1>2, <1>a DEF Wait
  <2>3. t \notin Range(waitQueue)
    BY <1>a DEF NoSignalLost
  <2>4. IsInjective(waitQueue') /\ Range(waitQueue') = Range(waitQueue) \cup {t}
    BY <1>a, <2>2, <2>3, AppendProps DEF WaitQueueInv
  <2>5. NoSignalLost'
    <3> SUFFICES ASSUME NEW x \in Thread
                 PROVE  /\ x \in Range(waitQueue') <=>
                             pc'[x] \in {"released", "asleep", "woken"} /\ waiter'[x] = 0
                        /\ pc'[x] = "asleep" => x \in Range(waitQueue')
                        /\ pc'[x] \notin {"released", "asleep", "woken"} => waiter'[x] = 0
      BY DEF NoSignalLost
    <3>1. CASE x = t
      BY <2>1, <2>2, <2>4, <3>1, Zenon
    <3>2. CASE x # t
      BY <1>a, <2>1, <2>2, <2>4, <3>2, Zenon DEF NoSignalLost
    <3> QED BY <3>1, <3>2
  <2> QED BY <2>1, <2>4, <2>5 DEF WaitQueueInv
<1> QED BY <1>1, <1>2

(* Every step of a thread in the monitor keeps the invariant. *)
LEMMA MonitorStep ==
  ASSUME MonInv, [MonitorNext]_monitorVars
  PROVE  MonInv'
<1> DEFINE Kept == LockInv' /\ HolderInv' /\ LockQueueInv' /\ WaitQueueInv' /\ NoSignalLost'
<1>1. CASE UNCHANGED monitorVars
  BY <1>1, Zenon DEF monitorVars, MonInv, MonitorTypeOK, LockInv, Owners, HolderInv, LockQueueInv,
     WaitQueueInv, NoSignalLost
<1>2. CASE MonitorNext
  <2>1. MonitorTypeOK'
    BY <1>2, MonitorTypeStep
  <2>2. Kept
    <3>1. ASSUME NEW t \in Thread, Acquire(t) \/ AcquireAgain(t) PROVE Kept
      BY <3>1, PLockStep DEF Acquire, AcquireAgain
    <3>2. ASSUME NEW t \in Thread, Acquired(t) \/ WaitP(t) \/ Broadcast(t) \/ BroadcastEnds(t)
          PROVE  Kept
      BY <3>2, MoveStep
    <3>3. ASSUME NEW t \in Thread, Release(t) \/ Wait(t) PROVE Kept
      BY <3>3, UnlockingStep
    <3>4. ASSUME NEW t \in Thread, Signal(t) \/ BroadcastLoop(t) PROVE Kept
      BY <3>4, SignalStep DEF Signal, BroadcastLoop
    <3> HIDE DEF Kept
    <3> QED BY <1>2, <3>1, <3>2, <3>3, <3>4, Zenon DEF MonitorNext, Continue
  <2> QED BY <2>1, <2>2 DEF MonInv
<1> QED BY <1>1, <1>2
(* The invariant of Lock and Condition, for any number of threads that use them *)
(* in any way their interface allows.                                       *)
THEOREM MonitorInductive == MonitorSpec => []MonInv
<1>1. MonInv /\ [MonitorNext]_monitorVars => MonInv'
  BY MonitorStep
<1> QED BY MonitorInitInv, <1>1, PTL DEF MonitorSpec

(* Type correctness: the lock's semaphore and every waiter stay at 0 or 1. *)
THEOREM MonitorTypeInvariant == MonitorSpec => []MonitorTypeOK
<1>1. MonInv => MonitorTypeOK
  BY DEF MonInv
<1> QED BY MonitorInductive, <1>1, PTL

(* No signal is lost between the Release in Condition::Wait and the sleep.   *)
THEOREM SignalInvariant == MonitorSpec => []NoSignalLost
<1>1. MonInv => NoSignalLost
  BY DEF MonInv
<1> QED BY MonitorInductive, <1>1, PTL

-----------------------------------------------------------------------------
(* The refinement.  A step of one thread is a step of MesaMonitor when it      *)
(* changes where that thread is, and a stutter when it does not.             *)

(* What a step has to do to be a step of MesaMonitor that moves t. *)
LEMMA MovesOne ==
  ASSUME NEW t \in Thread, NEW w,
         Where(t)' = w, \A x \in Thread : x # t => Where(x)' = Where(x)
  PROVE  [x \in Thread |-> Where(x)]' = [[x \in Thread |-> Where(x)] EXCEPT ![t] = w]
BY Zenon

(* Acquire, and the P after a wakeup in it. *)
LEMMA PLockRefines ==
  ASSUME MonInv, NEW t \in Thread, pc[t] \in {"out", "relock", "lockWoken"},
         PLock(t), UNCHANGED <<lockHolder, waitQueue, waiter>>
  PROVE  [Mesa!Next]_([x \in Thread |-> Where(x)])
<1>a. pc \in [Thread -> PC] /\ lockValue \in {0, 1} /\ LockInv
  BY DEF MonInv, MonitorTypeOK
<1>b. \E p \in {"acquired", "lockQueued"} : pc' = [pc EXCEPT ![t] = p]
  BY DEF PLock
<1>c. \A u \in Thread : u # t => pc'[u] = pc[u]
  BY <1>a, <1>b
<1>1. \A u \in Thread : u # t => Where(u)' = Where(u)
  BY <1>c DEF Where
<1>2. CASE lockValue # 0
  <2>1. Where(t)' = "inside"
    BY <1>a, <1>2 DEF PLock, Where
  <2>2. Where(t) \in {"out", "entering"}
    BY DEF Where
  <2>3. \A u \in Thread : Where(u) # "inside"
    BY <1>a, <1>2 DEF LockInv, Owners, Where
  <2>4. [x \in Thread |-> Where(x)]' = [[x \in Thread |-> Where(x)] EXCEPT ![t] = "inside"]
    BY <1>1, <2>1, MovesOne
  <2>5. Mesa!Take(t)
    BY <2>2, <2>3, <2>4 DEF Mesa!Take
  <2> QED BY <2>5 DEF Mesa!Next
<1>3. CASE lockValue = 0
  <2>1. Where(t)' = "entering"
    BY <1>a, <1>3 DEF PLock, Where
  <2>2. [x \in Thread |-> Where(x)]' = [[x \in Thread |-> Where(x)] EXCEPT ![t] = "entering"]
    BY <1>1, <2>1, MovesOne
  <2>3. CASE pc[t] = "out"
    <3>1. Where(t) = "out"
      BY <2>3 DEF Where
    <3>2. Mesa!Enter(t)
      BY <2>2, <3>1 DEF Mesa!Enter
    <3> QED BY <3>2 DEF Mesa!Next
  <2>4. CASE pc[t] # "out"
    <3>1. Where(t) = "entering"
      BY <2>4 DEF Where
    <3> QED BY <2>2, <3>1, Zenon
  <2> QED BY <2>3, <2>4
<1> QED BY <1>a, <1>2, <1>3

(* Release, and Wait, which gives the lock up and waits as if in one step.    *)
LEMMA UnlockRefines ==
  ASSUME MonInv, NEW t \in Thread, Release(t) \/ Wait(t)
  PROVE  Mesa!Release(t) \/ Mesa!Wait(t)
<1>a. pc \in [Thread -> PC] /\ waiter \in [Thread -> {0, 1}] /\ pc[t] = "in"
  BY DEF MonInv, MonitorTypeOK, Release, Wait
<1>b. Where(t) = "inside"
  BY <1>a DEF Where
<1>1. CASE Release(t)
  <2>1. /\ pc'[t] = "out"
        /\ \A u \in Thread : u # t =>
              pc'[u] = pc[u] \/ (pc[u] = "lockQueued" /\ pc'[u] = "lockWoken")
        /\ waiter' = waiter
    BY <1>1, <1>a, UnlockStep DEF Release
  <2>2. Where(t)' = "out" /\ \A u \in Thread : u # t => Where(u)' = Where(u)
    BY <2>1 DEF Where
  <2>3. [x \in Thread |-> Where(x)]' = [[x \in Thread |-> Where(x)] EXCEPT ![t] = "out"]
    BY <2>2, MovesOne
  <2> QED BY <1>b, <2>3 DEF Mesa!Release
<1>2. CASE Wait(t)
  <2>1. /\ pc'[t] = "released"
        /\ \A u \in Thread : u # t =>
              pc'[u] = pc[u] \/ (pc[u] = "lockQueued" /\ pc'[u] = "lockWoken")
        /\ waiter'[t] = 0 /\ \A u \in Thread : u # t => waiter'[u] = waiter[u]
    BY <1>2, <1>a, UnlockStep, Zenon DEF Wait
  <2>2. Where(t)' = "waiting" /\ \A u \in Thread : u # t => Where(u)' = Where(u)
    BY <2>1 DEF Where
  <2>3. [x \in Thread |-> Where(x)]' = [[x \in Thread |-> Where(x)] EXCEPT ![t] = "waiting"]
    BY <2>2, MovesOne
  <2> QED BY <1>b, <2>3 DEF Mesa!Wait
<1> QED BY <1>1, <1>2

(* Signal and each turn of Broadcast: one waiting thread tries for the lock.  *)
LEMMA SignalRefines ==
  ASSUME MonInv, NEW t \in Thread, pc[t] \in {"in", "broadcast"}, SignalFirst(t)
  PROVE  [Mesa!Next]_([x \in Thread |-> Where(x)])
<1>1. CASE waitQueue = <<>>
  <2>1. pc' = pc /\ waiter' = waiter
    BY <1>1 DEF SignalFirst, monitorVars
  <2> QED BY <2>1 DEF Where
<1>2. CASE waitQueue # <<>>
  <2>1. PICK u \in Thread :
        /\ waiter[u] = 0 /\ pc[u] \in {"released", "asleep", "woken"}
        /\ waiter'[u] = 1
        /\ pc'[u] = IF pc[u] = "asleep" THEN "woken" ELSE pc[u]
        /\ \A x \in Thread : x # u => waiter'[x] = waiter[x] /\ pc'[x] = pc[x]
    BY <1>2, SignalFacts, Zenon
  <2>2. Where(u) = "waiting" /\ Where(u)' = "entering" /\ Where(t) = "inside"
    BY <2>1 DEF Where
  <2>3. \A x \in Thread : x # u => Where(x)' = Where(x)
    BY <2>1 DEF Where
  <2>4. [x \in Thread |-> Where(x)]' = [[x \in Thread |-> Where(x)] EXCEPT ![u] = "entering"]
    BY <2>1, <2>2, <2>3, MovesOne, Zenon
  <2>5. Mesa!Signal(t, u)
    BY <2>1, <2>2, <2>4, Zenon DEF Mesa!Signal
  <2> QED BY <2>1, <2>5 DEF Mesa!Next
<1> QED BY <1>1, <1>2

(* Lock and Condition, built from semaphores in several steps each, do what    *)
(* synch.h promises of them in one.                                         *)
THEOREM MonitorRefinesMesa == MonitorSpec => ImplementsMesa
<1> DEFINE w == [t \in Thread |-> Where(t)]
<1>1. MonitorInit => Mesa!Init
  BY DEF MonitorInit, Mesa!Init, Where
<1>2. ASSUME MonInv, [MonitorNext]_monitorVars PROVE [Mesa!Next]_w
  <2> DEFINE Refined == [Mesa!Next]_w
  <2>1. CASE UNCHANGED monitorVars
    BY <2>1 DEF monitorVars, Where
  <2>2. ASSUME NEW t \in Thread, Acquire(t) \/ AcquireAgain(t) PROVE Refined
    BY <1>2, <2>2, PLockRefines DEF Acquire, AcquireAgain
  <2>3. ASSUME NEW t \in Thread, Acquired(t) \/ WaitP(t) \/ Broadcast(t) \/ BroadcastEnds(t)
        PROVE  Refined
    <3>1. pc \in [Thread -> PC] /\ waiter \in [Thread -> {0, 1}]
      BY <1>2 DEF MonInv, MonitorTypeOK
    <3>2. \A x \in Thread : Where(x)' = Where(x)
      BY <2>3, <3>1, Zenon DEF Acquired, WaitP, Broadcast, BroadcastEnds, Where
    <3> QED BY <3>2
  <2>4. ASSUME NEW t \in Thread, Release(t) \/ Wait(t) PROVE Refined
    BY <1>2, <2>4, UnlockRefines DEF Mesa!Next
  <2>5. ASSUME NEW t \in Thread, Signal(t) \/ BroadcastLoop(t) PROVE Refined
    BY <1>2, <2>5, SignalRefines DEF Signal, BroadcastLoop
  <2> HIDE DEF Refined
  <2>6. ASSUME MonitorNext PROVE Refined
    BY <2>2, <2>3, <2>4, <2>5, <2>6, Zenon DEF MonitorNext, Continue
  <2> QED BY <1>2, <2>1, <2>6 DEF Refined
<1>3. MonInv /\ [MonitorNext]_monitorVars => [Mesa!Next]_w
  BY <1>2
<1> QED
  BY MonitorInductive, <1>1, <1>3, PTL DEF MonitorSpec, ImplementsMesa, Mesa!Spec

-----------------------------------------------------------------------------
(* The synchronized list. *)

OpInv ==
  \A t \in Thread :
    /\ pc[t] = "out" <=> op[t] = "none"
    /\ pc[t] # "broadcast"
    /\ pc[t] \in {"released", "asleep", "woken", "relock"} => op[t] = "RemoveFront"
    /\ op[t] = "Appended" => pc[t] = "in"
    /\ op[t] = "Append" => item[t] \in Item

ListInv == MonInv /\ TypeOK /\ OpInv /\ ItemsHaveTakers

-----------------------------------------------------------------------------
(* SynchList calls its lock and its condition only as Monitor's threads may:  *)
(* a thread acquires from outside, and waits, signals and releases inside.   *)
LEMMA UsesMonitor ==
  ASSUME OpInv, [Next]_vars
  PROVE  [MonitorNext]_monitorVars
<1>1. CASE UNCHANGED vars
  BY <1>1 DEF vars, monitorVars
<1>2. ASSUME NEW t \in Thread, NEW name, NEW x, Start(t, name, x) PROVE MonitorNext
  <2>1. pc[t] = "out" /\ Acquire(t)
    BY <1>2 DEF Start, OpInv
  <2> QED BY <2>1 DEF MonitorNext
<1>3. ASSUME NEW t \in Thread, Step(t) PROVE [MonitorNext]_monitorVars
  <2>1. CASE Continue(t)
    BY <2>1 DEF MonitorNext
  <2>2. CASE Append1(t)
    BY <2>2 DEF Append1, MonitorNext
  <2>3. CASE AppendAborts(t)
    BY <2>3 DEF AppendAborts
  <2>4. CASE Append2(t)
    BY <2>4 DEF Append2, MonitorNext
  <2>5. CASE RemoveWaits(t)
    BY <2>5 DEF RemoveWaits, MonitorNext
  <2>6. CASE RemoveFront(t)
    BY <2>6 DEF RemoveFront, MonitorNext
  <2> QED BY <1>3, <2>1, <2>2, <2>3, <2>4, <2>5, <2>6, Zenon DEF Step
<1> QED BY <1>1, <1>2, <1>3 DEF Next

(* The place in the monitor of the threads that do not take the step: only the *)
(* ones that a V wakes move, and they stay in the same operation.            *)
LEMMA OthersStay ==
  ASSUME MonInv, NEW t \in Thread, NEW u \in Thread, u # t,
         Acquire(t) \/ Continue(t) \/ Release(t) \/ Wait(t) \/ Signal(t)
  PROVE  \/ pc'[u] = pc[u]
         \/ pc[u] = "lockQueued" /\ pc'[u] = "lockWoken"
         \/ pc[u] = "asleep" /\ pc'[u] = "woken"
<1>a. pc \in [Thread -> PC]
  BY DEF MonInv, MonitorTypeOK
<1>1. CASE Acquire(t) \/ AcquireAgain(t)
  BY <1>1, <1>a, Zenon DEF Acquire, AcquireAgain, PLock
<1>2. CASE Acquired(t) \/ WaitP(t)
  BY <1>2, <1>a, Zenon DEF Acquired, WaitP
<1>3. CASE Release(t)
  BY <1>3, UnlockStep DEF Release
<1>4. CASE Wait(t)
  BY <1>4, UnlockStep, Zenon DEF Wait
<1>5. CASE Signal(t)
  <2>1. CASE waitQueue = <<>>
    BY <1>5, <2>1, Zenon DEF Signal, SignalFirst, monitorVars
  <2>2. CASE waitQueue # <<>>
    BY <1>5, <2>2, SignalFacts, Zenon DEF Signal
  <2> QED BY <2>1, <2>2
<1> QED BY <1>1, <1>2, <1>3, <1>4, <1>5, Zenon DEF Continue

-----------------------------------------------------------------------------
(* What a call of Next does, action by action. *)
LEMMA NextCases ==
  ASSUME Next
  PROVE  \E t \in Thread :
           \/ \E x \in Item : Start(t, "Append", x)
           \/ \E name \in {"RemoveFront", "Apply"} : Start(t, name, NULL)
           \/ Continue(t) /\ UNCHANGED <<list, op, item, aborted>>
           \/ Append1(t) \/ AppendAborts(t) \/ Append2(t)
           \/ RemoveWaits(t) \/ RemoveFront(t)
BY SynchListAssumption DEF Next, Step

(* Every action keeps the types of the list's own variables. *)
LEMMA ListTypeStep ==
  ASSUME TypeOK, OpInv, MonitorTypeOK', Next
  PROVE  TypeOK'
<1> USE DEF TypeOK, Op
<1>1. PICK t \in Thread :
           \/ \E x \in Item : Start(t, "Append", x)
           \/ \E name \in {"RemoveFront", "Apply"} : Start(t, name, NULL)
           \/ Continue(t) /\ UNCHANGED <<list, op, item, aborted>>
           \/ Append1(t) \/ AppendAborts(t) \/ Append2(t)
           \/ RemoveWaits(t) \/ RemoveFront(t)
  BY NextCases
<1>2. ASSUME NEW x \in Item, Start(t, "Append", x) PROVE TypeOK'
  BY <1>2 DEF Start
<1>3. ASSUME NEW name \in {"RemoveFront", "Apply"}, Start(t, name, NULL) PROVE TypeOK'
  BY <1>3 DEF Start
<1>4. CASE Continue(t) /\ UNCHANGED <<list, op, item, aborted>>
  BY <1>4
<1>5. CASE Append1(t)
  <2>1. item[t] \in Item
    BY <1>5 DEF Append1, OpInv
  <2> QED BY <1>5, <2>1, AppendProps, Zenon DEF Append1
<1>6. CASE AppendAborts(t)
  BY <1>6 DEF AppendAborts
<1>7. CASE Append2(t)
  BY <1>7 DEF Append2
<1>8. CASE RemoveWaits(t)
  BY <1>8 DEF RemoveWaits
<1>9. CASE RemoveFront(t)
  <2>1. Tail(list) \in Seq(Item) /\ Head(list) \in Item
    BY <1>9, TailProps, Zenon DEF RemoveFront
  <2> QED BY <1>9, <2>1 DEF RemoveFront
<1> QED BY <1>1, <1>2, <1>3, <1>4, <1>5, <1>6, <1>7, <1>8, <1>9, Zenon

(* Where the step leaves the thread that takes it. *)
LEMMA OwnPlace ==
  ASSUME MonInv, NEW t \in Thread
  PROVE  /\ Acquire(t) => pc'[t] \in {"acquired", "lockQueued"}
         /\ Continue(t) =>
              /\ pc[t] \in {"lockWoken", "acquired", "released", "woken", "relock"}
              /\ pc'[t] \in {"acquired", "lockQueued", "in", "relock", "asleep"}
              /\ pc[t] \in {"lockWoken", "acquired"} => pc'[t] \in {"acquired", "lockQueued", "in"}
         /\ Release(t) => pc'[t] = "out"
         /\ Wait(t) => pc'[t] = "released"
         /\ Signal(t) => pc[t] = "in" /\ pc'[t] = "in"
<1>a. pc \in [Thread -> PC]
  BY DEF MonInv, MonitorTypeOK
<1>1. Acquire(t) => pc'[t] \in {"acquired", "lockQueued"}
  BY <1>a DEF Acquire, PLock
<1>2. Continue(t) =>
        /\ pc[t] \in {"lockWoken", "acquired", "released", "woken", "relock"}
        /\ pc'[t] \in {"acquired", "lockQueued", "in", "relock", "asleep"}
        /\ pc[t] \in {"lockWoken", "acquired"} => pc'[t] \in {"acquired", "lockQueued", "in"}
  BY <1>a, Zenon DEF Continue, AcquireAgain, Acquired, WaitP, Acquire, PLock
<1>3. Release(t) => pc'[t] = "out"
  BY UnlockStep DEF Release
<1>4. Wait(t) => pc'[t] = "released"
  BY UnlockStep DEF Wait
<1>5. Signal(t) => pc[t] = "in" /\ pc'[t] = "in"
  <2>1. CASE waitQueue = <<>>
    BY <2>1 DEF Signal, SignalFirst, monitorVars
  <2>2. CASE waitQueue # <<>>
    BY <2>2, SignalFacts, Zenon DEF Signal
  <2> QED BY <2>1, <2>2
<1> QED BY <1>1, <1>2, <1>3, <1>4, <1>5, Zenon

(* Every action keeps the operations and the places in the monitor together. *)
LEMMA OpStep ==
  ASSUME MonInv, TypeOK, OpInv, Next
  PROVE  OpInv'
<1>a. op \in [Thread -> Op] /\ item \in [Thread -> Item \cup {NULL}]
  BY DEF TypeOK
<1>1. PICK t \in Thread :
           \/ \E x \in Item : Start(t, "Append", x)
           \/ \E name \in {"RemoveFront", "Apply"} : Start(t, name, NULL)
           \/ Continue(t) /\ UNCHANGED <<list, op, item, aborted>>
           \/ Append1(t) \/ AppendAborts(t) \/ Append2(t)
           \/ RemoveWaits(t) \/ RemoveFront(t)
  BY NextCases
<1> DEFINE Good(u) ==
      /\ pc[u] = "out" <=> op[u] = "none"
      /\ pc[u] # "broadcast"
      /\ pc[u] \in {"released", "asleep", "woken", "relock"} => op[u] = "RemoveFront"
      /\ op[u] = "Appended" => pc[u] = "in"
      /\ op[u] = "Append" => item[u] \in Item
<1>b. \A u \in Thread : Good(u)
  BY DEF OpInv
<1>2. CASE AppendAborts(t)
  BY <1>2 DEF AppendAborts, OpInv, monitorVars
<1>3. CASE ~AppendAborts(t)
  <2>1. Acquire(t) \/ Continue(t) \/ Release(t) \/ Wait(t) \/ Signal(t)
    BY <1>1, <1>3, Zenon DEF Start, Append1, Append2, RemoveWaits, RemoveFront
  <2>2. \A u \in Thread : u # t => op'[u] = op[u] /\ item'[u] = item[u]
    BY <1>1, <1>a, Zenon DEF Start, Append1, AppendAborts, Append2, RemoveWaits, RemoveFront
  <2>3. ASSUME NEW u \in Thread, u # t PROVE Good(u)'
    <3>1. \/ pc'[u] = pc[u]
          \/ pc[u] = "lockQueued" /\ pc'[u] = "lockWoken"
          \/ pc[u] = "asleep" /\ pc'[u] = "woken"
      BY <2>1, <2>3, OthersStay, Zenon
    <3> QED BY <3>1, <2>2, <2>3, <1>b, Zenon
  <2>4. Good(t)'
    <3>1. ASSUME NEW x \in Item, Start(t, "Append", x) PROVE Good(t)'
      BY <3>1, <1>a, OwnPlace, Zenon DEF Start
    <3>2. ASSUME NEW name \in {"RemoveFront", "Apply"}, Start(t, name, NULL) PROVE Good(t)'
      BY <3>2, <1>a, OwnPlace, Zenon DEF Start
    <3>3. CASE Continue(t) /\ UNCHANGED <<list, op, item, aborted>>
      BY <3>3, <1>b, OwnPlace, Zenon
    <3>4. CASE Append1(t)
      BY <3>4, <1>a, OwnPlace, Zenon DEF Append1
    <3>5. CASE Append2(t)
      BY <3>5, <1>a, OwnPlace, Zenon DEF Append2
    <3>6. CASE RemoveWaits(t)
      BY <3>6, <1>a, OwnPlace, Zenon DEF RemoveWaits
    <3>7. CASE RemoveFront(t)
      BY <3>7, <1>a, OwnPlace, Zenon DEF RemoveFront
    <3> QED BY <1>1, <1>3, <3>1, <3>2, <3>3, <3>4, <3>5, <3>6, <3>7, Zenon
  <2> QED BY <2>3, <2>4, Zenon DEF OpInv
<1> QED BY <1>2, <1>3

-----------------------------------------------------------------------------
(* What needs the cardinality of a set. *)

INSTANCE FiniteSetTheorems

(* One thread at a time has the lock, and lockHolder names it: the ASSERTs of  *)
(* Release, Wait and Signal hold.                                           *)
THEOREM MutualExclusionInvariant == MonitorSpec => []MutualExclusion
<1>1. MonInv => MutualExclusion
  <2> SUFFICES ASSUME MonInv PROVE MutualExclusion
    OBVIOUS
  <2>1. Cardinality(Owners) = 1 - lockValue
    <3>1. CASE lockValue = 1 /\ Owners = {}
      BY <3>1, FS_EmptySet
    <3>2. ASSUME NEW t \in Thread, lockValue = 0, Owners = {t}
          PROVE  Cardinality(Owners) = 1 - lockValue
      BY <3>2, FS_Singleton
    <3> QED BY <3>1, <3>2 DEF MonInv, LockInv
  <2> QED BY <2>1 DEF MonInv, HolderInv, MutualExclusion
<1> QED BY MonitorInductive, <1>1, PTL

(* A set of consumers on their way that keeps its members, loses one or gains *)
(* one.                                                                      *)
LEMMA SignalledCounts ==
  ASSUME NEW S \in SUBSET Thread, NEW R \in SUBSET Thread
  PROVE  /\ Cardinality(S) \in Nat
         /\ S \subseteq R => Cardinality(S) <= Cardinality(R)
         /\ \A t \in Thread : t \notin S /\ S \cup {t} \subseteq R =>
              Cardinality(S) + 1 <= Cardinality(R)
         /\ \A t \in Thread : S \ {t} \subseteq R => Cardinality(S) - 1 <= Cardinality(R)
<1>1. IsFiniteSet(S) /\ IsFiniteSet(R)
  BY SynchListAssumption, FS_Subset
<1>2. Cardinality(S) \in Nat /\ Cardinality(R) \in Nat
  BY <1>1, FS_CardinalityType
<1>3. S \subseteq R => Cardinality(S) <= Cardinality(R)
  BY <1>1, FS_Subset
<1>4. ASSUME NEW t \in Thread, t \notin S, S \cup {t} \subseteq R
      PROVE  Cardinality(S) + 1 <= Cardinality(R)
  <2>1. IsFiniteSet(S \cup {t}) /\ Cardinality(S \cup {t}) = Cardinality(S) + 1
    BY <1>1, <1>4, FS_AddElement
  <2> QED BY <1>1, <1>4, <2>1, FS_Subset
<1>5. ASSUME NEW t \in Thread, S \ {t} \subseteq R
      PROVE  Cardinality(S) - 1 <= Cardinality(R)
  <2>1. /\ IsFiniteSet(S \ {t})
        /\ Cardinality(S \ {t}) = IF t \in S THEN Cardinality(S) - 1 ELSE Cardinality(S)
    BY <1>1, FS_RemoveElement
  <2>2. Cardinality(S \ {t}) <= Cardinality(R)
    BY <1>1, <1>5, FS_Subset
  <2> QED BY <1>2, <2>1, <2>2
<1> QED BY <1>2, <1>3, <1>4, <1>5, Zenon

(* A step that neither signals nor waits nor takes an item leaves every      *)
(* consumer that is on its way on its way.                                  *)
LEMMA QuietStep ==
  ASSUME ItemsHaveTakers, list \in Seq(Item), UNCHANGED <<list, waitQueue>>,
         \A u \in Thread : u \in Signalled => op'[u] = "RemoveFront" /\ pc'[u] # "out"
  PROVE  ItemsHaveTakers'
<1>1. Signalled \subseteq Signalled' /\ Signalled \in SUBSET Thread /\ Signalled' \in SUBSET Thread
  BY DEF Signalled
<1>2. /\ Cardinality(Signalled) \in Nat /\ Cardinality(Signalled') \in Nat
      /\ Cardinality(Signalled) <= Cardinality(Signalled')
  BY <1>1, SignalledCounts
<1>3. Len(list) \in Nat
  OBVIOUS
<1>4. Cardinality(Signalled)' = Cardinality(Signalled')
  OBVIOUS
<1> QED BY <1>2, <1>3, <1>4 DEF ItemsHaveTakers

(* Append: the item comes with the consumer that its Signal wakes. *)
LEMMA AppendTakers ==
  ASSUME MonInv, TypeOK, OpInv, ItemsHaveTakers, NEW t \in Thread, Append1(t)
  PROVE  ItemsHaveTakers'
<1>a. list \in Seq(Item) /\ op \in [Thread -> Op] /\ waitQueue \in Seq(Thread) /\ item[t] \in Item
  BY Zenon DEF TypeOK, MonitorTypeOK, OpInv, Append1
<1>b. Signal(t) /\ SignalFirst(t) /\ pc[t] = "in" /\ op[t] = "Append"
  <2>1. Signal(t) /\ op[t] = "Append"
    BY DEF Append1
  <2> QED BY <2>1, Zenon DEF Signal
<1>1. CASE waitQueue = <<>>
  BY <1>1, <1>b DEF SignalFirst, monitorVars, ItemsHaveTakers
<1>2. CASE waitQueue # <<>>
  <2>1. PICK u \in Thread :
          /\ u \in Range(waitQueue) /\ pc[u] \in {"released", "asleep", "woken"}
          /\ Range(waitQueue') = Range(waitQueue) \ {u}
          /\ pc'[u] # "out"
          /\ \A x \in Thread : x # u => pc'[x] = pc[x]
    BY <1>2, <1>a, <1>b, SignalFacts, TailProps, Zenon
  <2>2. op[u] = "RemoveFront" /\ \A x \in Thread : x # t => op'[x] = op[x]
    BY <2>1, <1>a, Zenon DEF OpInv, Append1
  <2>3. u # t /\ u \notin Signalled /\ t \notin Signalled
    BY <2>1, <1>b, Zenon DEF Signalled
  <2>4. ASSUME NEW x \in Signalled \cup {u} PROVE x \in Signalled'
    <3>1. x \in Thread /\ x # t
      BY <2>3, <2>4 DEF Signalled
    <3>2. op'[x] = "RemoveFront"
      BY <3>1, <2>2, <2>4 DEF Signalled
    <3>3. x \notin Range(waitQueue')
      BY <2>1, <2>4 DEF Signalled
    <3>4. pc'[x] # "out"
      BY <2>1, <2>4, <3>1 DEF Signalled
    <3>5. Range(waitQueue)' = Range(waitQueue')
      BY DEF Range
    <3> QED BY <3>1, <3>2, <3>3, <3>4, <3>5 DEF Signalled
  <2>5. Signalled \in SUBSET Thread /\ Signalled' \in SUBSET Thread
    BY DEF Signalled
  <2>6. Signalled \cup {u} \subseteq Signalled'
    BY <2>4
  <2>7. /\ Cardinality(Signalled) \in Nat /\ Cardinality(Signalled') \in Nat
        /\ Cardinality(Signalled) + 1 <= Cardinality(Signalled')
    BY <2>3, <2>5, <2>6, SignalledCounts
  <2>8. Len(list') = Len(list) + 1 /\ Len(list) \in Nat
    BY <1>a DEF Append1
  <2>9. Len(list) <= Cardinality(Signalled)
    BY <1>2 DEF ItemsHaveTakers
  <2>10. Len(list') <= Cardinality(Signalled')
    BY <2>7, <2>8, <2>9
  <2>11. Len(list)' = Len(list') /\ Cardinality(Signalled)' = Cardinality(Signalled')
    OBVIOUS
  <2> QED BY <2>10, <2>11 DEF ItemsHaveTakers
<1> QED BY <1>1, <1>2

(* RemoveFront: the consumer that leaves takes one item with it. *)
LEMMA RemoveTakers ==
  ASSUME MonInv, TypeOK, ItemsHaveTakers, NEW t \in Thread, RemoveFront(t)
  PROVE  ItemsHaveTakers'
<1>a. list \in Seq(Item) /\ list # <<>> /\ op \in [Thread -> Op] /\ Release(t) /\ pc[t] = "in"
      /\ waitQueue' = waitQueue
  <2>1. list \in Seq(Item) /\ op \in [Thread -> Op]
    BY Zenon DEF TypeOK
  <2>2. list # <<>> /\ Release(t)
    BY DEF RemoveFront
  <2>3. pc[t] = "in" /\ waitQueue' = waitQueue
    BY <2>2 DEF Release
  <2> QED BY <2>1, <2>2, <2>3, Zenon
<1>1. ASSUME NEW x \in Signalled \ {t} PROVE x \in Signalled'
  <2>1. x \in Thread /\ x # t /\ pc[x] # "out" /\ op[x] = "RemoveFront"
    BY <1>1 DEF Signalled
  <2>2. pc'[x] # "out"
    BY <2>1, <1>a, OthersStay, Zenon
  <2>3. op'[x] = "RemoveFront"
    BY <2>1, <1>a DEF RemoveFront
  <2> QED BY <1>1, <1>a, <2>1, <2>2, <2>3 DEF Signalled
<1>2. Signalled \in SUBSET Thread /\ Signalled' \in SUBSET Thread /\ Signalled \ {t} \subseteq Signalled'
  BY <1>1, Zenon DEF Signalled
<1>3. /\ Cardinality(Signalled) \in Nat /\ Cardinality(Signalled') \in Nat
      /\ Cardinality(Signalled) - 1 <= Cardinality(Signalled')
  BY <1>2, SignalledCounts
<1>4. Len(list') = Len(list) - 1 /\ Len(list) \in Nat
  BY <1>a DEF RemoveFront
<1>5. Len(list)' = Len(list') /\ Cardinality(Signalled)' = Cardinality(Signalled')
  OBVIOUS
<1> QED BY <1>a, <1>3, <1>4, <1>5 DEF ItemsHaveTakers

(* The other actions, and with them all of Next. *)
LEMMA TakersStep ==
  ASSUME MonInv, TypeOK, OpInv, ItemsHaveTakers, Next
  PROVE  ItemsHaveTakers'
<1>a. list \in Seq(Item) /\ op \in [Thread -> Op]
  BY DEF TypeOK
<1>1. PICK t \in Thread :
           \/ \E x \in Item : Start(t, "Append", x)
           \/ \E name \in {"RemoveFront", "Apply"} : Start(t, name, NULL)
           \/ Continue(t) /\ UNCHANGED <<list, op, item, aborted>>
           \/ Append1(t) \/ AppendAborts(t) \/ Append2(t)
           \/ RemoveWaits(t) \/ RemoveFront(t)
  BY NextCases
<1>2. ASSUME NEW name, NEW x, Start(t, name, x) PROVE ItemsHaveTakers'
  <2>1. Acquire(t) /\ op[t] = "none" /\ UNCHANGED <<list, waitQueue>>
        /\ op' = [op EXCEPT ![t] = name]
    BY <1>2 DEF Start, Acquire
  <2>2. ASSUME NEW u \in Thread, u \in Signalled
        PROVE  op'[u] = "RemoveFront" /\ pc'[u] # "out"
    <3>1. u # t /\ pc[u] # "out" /\ op[u] = "RemoveFront"
      BY <2>1, <2>2 DEF Signalled
    <3> QED BY <3>1, <2>1, <1>a, OthersStay, Zenon
  <2> QED BY <2>1, <2>2, <1>a, QuietStep
<1>3. CASE Continue(t) /\ UNCHANGED <<list, op, item, aborted>>
  <2>1. UNCHANGED waitQueue
    BY <1>3, Zenon DEF Continue, AcquireAgain, Acquired, WaitP, Acquire
  <2>2. ASSUME NEW u \in Thread, u \in Signalled
        PROVE  op'[u] = "RemoveFront" /\ pc'[u] # "out"
    <3>1. pc[u] # "out" /\ op[u] = "RemoveFront"
      BY <2>2 DEF Signalled
    <3> QED BY <3>1, <1>3, OthersStay, OwnPlace, Zenon
  <2> QED BY <1>3, <2>1, <2>2, <1>a, QuietStep
<1>4. CASE AppendAborts(t)
  <2>1. UNCHANGED <<list, waitQueue, op, pc>>
    BY <1>4 DEF AppendAborts, monitorVars
  <2>2. \A u \in Thread : u \in Signalled => op'[u] = "RemoveFront" /\ pc'[u] # "out"
    BY <2>1 DEF Signalled
  <2> QED BY <2>1, <2>2, <1>a, QuietStep
<1>5. CASE Append2(t)
  <2>1. Release(t) /\ op[t] # "RemoveFront" /\ UNCHANGED <<list, waitQueue>>
        /\ op' = [op EXCEPT ![t] = "none"]
    <3>1. Release(t) /\ op[t] # "RemoveFront" /\ op' = [op EXCEPT ![t] = "none"] /\ UNCHANGED list
      BY <1>5 DEF Append2
    <3>2. UNCHANGED waitQueue
      BY <3>1 DEF Release
    <3> QED BY <3>1, <3>2, Zenon
  <2>2. ASSUME NEW u \in Thread, u \in Signalled
        PROVE  op'[u] = "RemoveFront" /\ pc'[u] # "out"
    <3>1. u # t /\ pc[u] # "out" /\ op[u] = "RemoveFront"
      BY <2>1, <2>2 DEF Signalled
    <3> QED BY <3>1, <2>1, <1>a, OthersStay, Zenon
  <2> QED BY <2>1, <2>2, <1>a, QuietStep
<1>6. CASE RemoveWaits(t)
  <2>1. Len(list') = 0
    BY <1>6 DEF RemoveWaits
  <2>2. Cardinality(Signalled') \in Nat
    <3>1. Signalled' \in SUBSET Thread
      BY DEF Signalled
    <3> QED BY <3>1, SignalledCounts
  <2>3. Len(list)' = Len(list') /\ Cardinality(Signalled)' = Cardinality(Signalled')
    OBVIOUS
  <2> QED BY <2>1, <2>2, <2>3 DEF ItemsHaveTakers
<1> QED BY <1>1, <1>2, <1>3, <1>4, <1>5, <1>6, AppendTakers, RemoveTakers

-----------------------------------------------------------------------------
(* The invariant of SynchList::Append, RemoveFront and Apply, called by any  *)
(* threads in any order.                                                    *)
THEOREM ListInductive == Spec => []ListInv
<1>1. Init => ListInv
  <2> SUFFICES ASSUME Init PROVE ListInv
    OBVIOUS
  <2>1. MonInv
    BY MonitorInitInv DEF Init
  <2>2. TypeOK
    <3>1. op \in [Thread -> Op] /\ item \in [Thread -> Item \cup {NULL}]
      BY DEF Init, Op
    <3>2. list \in Seq(Item)
      BY DEF Init
    <3>3. aborted \in BOOLEAN
      BY Zenon DEF Init
    <3> QED BY <2>1, <3>1, <3>2, <3>3, Zenon DEF TypeOK, MonInv
  <2>3. OpInv
    BY DEF Init, MonitorInit, OpInv
  <2>4. ItemsHaveTakers
    BY DEF Init, MonitorInit, ItemsHaveTakers
  <2> QED BY <2>1, <2>2, <2>3, <2>4 DEF ListInv
<1>2. ListInv /\ [Next]_vars => ListInv'
  <2> SUFFICES ASSUME ListInv, [Next]_vars PROVE ListInv'
    OBVIOUS
  <2>1. MonInv'
    BY UsesMonitor, MonitorStep DEF ListInv
  <2>2. CASE Next
    <3>1. TypeOK'
      BY <2>1, <2>2, ListTypeStep DEF ListInv, MonInv
    <3> QED BY <2>1, <2>2, <3>1, OpStep, TakersStep DEF ListInv
  <2>3. CASE UNCHANGED vars
    BY <2>1, <2>3, Zenon DEF ListInv, vars, monitorVars, TypeOK, MonitorTypeOK, OpInv,
       ItemsHaveTakers, Signalled
  <2> QED BY <2>2, <2>3
<1> QED BY <1>1, <1>2, PTL DEF Spec

(* Type correctness of the list, its lock and its condition. *)
THEOREM ListTypeInvariant == Spec => []TypeOK
<1>1. ListInv => TypeOK
  BY DEF ListInv
<1> QED BY <1>1, ListInductive, PTL

(* No lost wakeup in SynchList, although RemoveFront tests the list again    *)
(* after its Wait and another consumer may have taken the item: while one   *)
(* waits, every item has a consumer on its way.                             *)
THEOREM ItemsHaveTakersInvariant == Spec => []ItemsHaveTakers
<1>1. ListInv => ItemsHaveTakers
  BY DEF ListInv
<1> QED BY <1>1, ListInductive, PTL

(* Nobody changes the list between the Signal of Append and its Release. *)
THEOREM AppendAtomic == Spec => AppendIsAtomic
<1>1. ListInv /\ [Next]_vars => [\A t \in Thread : op[t] = "Appended" => list' = list]_vars
  <2> SUFFICES ASSUME ListInv, Next, NEW t \in Thread, op[t] = "Appended"
               PROVE  list' = list
    OBVIOUS
  <2>1. lockHolder = t
    BY DEF ListInv, OpInv, MonInv, HolderInv
  <2>2. ASSUME NEW u \in Thread, Append1(u) \/ RemoveFront(u) PROVE FALSE
    BY <2>1, <2>2, Zenon DEF Append1, RemoveFront, Signal, Release, Unlock
  <2> QED BY <2>2, NextCases, Zenon DEF Start, AppendAborts, Append2, RemoveWaits
<1> QED BY <1>1, ListInductive, PTL DEF Spec, AppendIsAtomic
=============================================================================
