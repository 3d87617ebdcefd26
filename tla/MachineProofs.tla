--------------------------- MODULE MachineProofs ----------------------------
(***************************************************************************)
(* Proofs about the machine and the calls of the programs it runs:         *)
(* Interrupts, for all devices, delays and handlers; the latency of Disk,  *)
(* for every geometry; and SystemCalls, for every memory, size of the      *)
(* array, sequence of calls and ends of the children.                      *)
(*                                                                         *)
(* ClockInv says what the list of pending interrupts is like between the   *)
(* steps, DiskTimeInv what Disk::bufferInit means, CallInv what the        *)
(* machine holds while a call is served, and JoinInv how many children     *)
(* there can be.                                                           *)
(***************************************************************************)
EXTENDS Interrupts, Disk, SystemCalls, TLAPS

-----------------------------------------------------------------------------
(* Lists. *)

(* A set of natural numbers that is not empty has a least element. *)
LeastExists == \A S \in SUBSET Nat : S # {} => \E m \in S : \A n \in S : m <= n

(* What a list of T is after e was put at place k of s. *)
IsInserted(T, s, k, e, new) ==
  /\ new \in Seq(T) /\ Len(new) = Len(s) + 1
  /\ \A i \in 1 .. Len(s) + 1 :
       new[i] = IF i < k THEN s[i] ELSE IF i = k THEN e ELSE s[i - 1]

(* InsertAt puts the element at its place and shifts the rest by one. *)
LEMMA InsertAtProps ==
  ASSUME NEW T, NEW s \in Seq(T), NEW e \in T, NEW k \in 1 .. Len(s) + 1
  PROVE  IsInserted(T, s, k, e, InsertAt(s, k, e))
<1>1. ASSUME NEW i \in 1 .. Len(s) + 1
      PROVE  (IF i < k THEN s[i] ELSE IF i = k THEN e ELSE s[i - 1]) \in T
  OBVIOUS
<1>2. Len(s) + 1 \in Nat
  OBVIOUS
<1> QED BY <1>1, <1>2 DEF InsertAt, IsInserted

(* What List::RemoveFront leaves. *)
LEMMA WithoutFirst ==
  ASSUME NEW T, NEW s \in Seq(T), s # <<>>
  PROVE  /\ Head(s) = s[1] /\ Tail(s) \in Seq(T)
         /\ Len(Tail(s)) = Len(s) - 1 /\ Len(s) \in Nat
         /\ \A i \in 1 .. Len(Tail(s)) : Tail(s)[i] = s[i + 1]
OBVIOUS

-----------------------------------------------------------------------------
(* The simulated interrupts. *)

(* The constants of the simulation, no overflow of Statistics::totalTicks, *)
(* and the fact about numbers above.                                       *)
ClockAssumption == LeastExists /\ InterruptAssumption /\ NoOverflow

(* A PendingInterrupt. *)
Pending == [type : Requested \cup Polling \cup {"timer"}, when : Nat, due : Nat]

(* Interrupt::pending is sorted by time. *)
SortedByTime(list) == \A i, j \in 1 .. Len(list) : i < j => list[i].when <= list[j].when

(* int addition is exact below IntMax. *)
LEMMA PlusExact == ASSUME IntMax \in Nat, NEW x \in Nat, NEW y \in Nat, x + y <= IntMax
  PROVE Plus(x, y) = x + y
<1>1. \A m \in Nat \ {0} : \A k \in 0 .. m - 1 : k % m = k
  OBVIOUS
<1> QED BY <1>1 DEF Plus

(* new is sorted, and has x and what is in list and nothing else. *)
IsSortedWith(list, x, new) ==
  /\ new \in Seq(Pending)
  /\ SortedByTime(new)
  /\ \A i \in 1 .. Len(new) : new[i] = x \/ \E j \in 1 .. Len(list) : new[i] = list[j]
  /\ \A j \in 1 .. Len(list) : \E i \in 1 .. Len(new) : new[i] = list[j]
  /\ \E i \in 1 .. Len(new) : new[i] = x

(* SortedList::Insert of an interrupt keeps the list sorted, and adds that *)
(* interrupt and nothing else.                                             *)
LEMMA InsertByTimeKeeps ==
  ASSUME LeastExists, NEW list \in Seq(Pending), SortedByTime(list), NEW x \in Pending
  PROVE  IsSortedWith(list, x, InsertByTime(list, x))
<1> DEFINE later == {i \in 1 .. Len(list) : list[i].when > x.when}
           k == FirstPlace(later, Len(list) + 1)
           new == InsertAt(list, k, x)
<1>1. x.when \in Nat /\ \A i \in 1 .. Len(list) : list[i] \in Pending /\ list[i].when \in Nat
  <2>1. \A i \in 1 .. Len(list) : list[i] \in Pending
    OBVIOUS
  <2> QED BY <2>1 DEF Pending
<1>2. /\ k \in 1 .. Len(list) + 1
      /\ \A i \in 1 .. k - 1 : i \in 1 .. Len(list) /\ list[i].when <= x.when
      /\ k <= Len(list) => x.when < list[k].when
  <2>1. CASE later = {}
    BY <1>1, <2>1 DEF FirstPlace
  <2>2. CASE later # {}
    <3>1. \E m \in later : \A n \in later : m <= n
      <4>1. later \in SUBSET Nat
        OBVIOUS
      <4> HIDE DEF later
      <4> QED BY <2>2, <4>1 DEF LeastExists
    <3>2. k = CHOOSE m \in later : \A n \in later : m <= n
      BY <2>2, Zenon DEF FirstPlace
    <3>3. k \in later /\ \A n \in later : k <= n
      <4> HIDE DEF later, k
      <4> QED BY <3>1, <3>2
    <3> HIDE DEF k
    <3> QED BY <1>1, <3>3
  <2> QED BY <2>1, <2>2, Zenon
<1>3. InsertByTime(list, x) = new
  BY Zenon DEF InsertByTime
<1> HIDE DEF k
<1>b. /\ k \in 1 .. Len(list) + 1
      /\ new \in Seq(Pending)
      /\ Len(new) = Len(list) + 1
      /\ \A i \in 1 .. Len(list) + 1 :
           new[i] = IF i < k THEN list[i] ELSE IF i = k THEN x ELSE list[i - 1]
  <2>1. k \in 1 .. Len(list) + 1
    BY <1>2
  <2> HIDE DEF Pending
  <2>2. IsInserted(Pending, list, k, x, new)
    BY <2>1, InsertAtProps DEF new
  <2> QED BY <2>1, <2>2, Zenon DEF IsInserted
<1>c. \A i \in 1 .. Len(list) : list[i].when <= x.when <=> i < k
  <2> TAKE i \in 1 .. Len(list)
  <2>1. CASE i < k
    BY <1>2, <2>1
  <2>2. CASE i >= k
    <3>1. k \in 1 .. Len(list) /\ list[k].when <= list[i].when
      BY <1>1, <1>2, <2>2 DEF SortedByTime
    <3> QED BY <1>1, <1>2, <2>2, <3>1
  <2> QED BY <1>2, <2>1, <2>2
<1> HIDE DEF new, later
<1>5. SortedByTime(new)
  <2> SUFFICES ASSUME NEW i \in 1 .. Len(new), NEW j \in 1 .. Len(new), i < j
               PROVE  new[i].when <= new[j].when
    BY DEF SortedByTime
  <2>1. CASE j < k
    <3>1. new[i] = list[i] /\ new[j] = list[j] /\ i \in 1 .. Len(list) /\ j \in 1 .. Len(list)
      BY <1>b, <2>1
    <3> QED BY <3>1 DEF SortedByTime
  <2>2. CASE j = k
    BY <1>b, <1>c, <2>2
  <2>3. CASE j > k /\ i < k
    <3>1. new[i] = list[i] /\ new[j] = list[j - 1] /\ i <= j - 1
      BY <1>b, <2>3
    <3>2. list[i].when <= list[j - 1].when
      <4>1. CASE i = j - 1
        BY <1>1, <1>b, <4>1
      <4>2. CASE i < j - 1
        <5>1. i \in 1 .. Len(list) /\ j - 1 \in 1 .. Len(list)
          BY <1>b, <2>3
        <5> QED BY <4>2, <5>1 DEF SortedByTime
      <4> QED BY <3>1, <4>1, <4>2
    <3> QED BY <3>1, <3>2
  <2>4. CASE j > k /\ i = k
    <3>1. new[i] = x /\ new[j] = list[j - 1] /\ j - 1 \in 1 .. Len(list) /\ ~ (j - 1 < k)
      BY <1>b, <2>4
    <3>2. ~ (list[j - 1].when <= x.when)
      BY <1>c, <3>1
    <3> QED BY <1>1, <3>1, <3>2
  <2>5. CASE i > k
    <3>1. new[i] = list[i - 1] /\ new[j] = list[j - 1] /\ i - 1 < j - 1
      BY <1>b, <2>5
    <3>2. i - 1 \in 1 .. Len(list) /\ j - 1 \in 1 .. Len(list)
      BY <1>b, <2>5
    <3> QED BY <3>1, <3>2 DEF SortedByTime
  <2> QED BY <1>b, <1>c, <2>1, <2>2, <2>3, <2>4, <2>5
<1>6. \A i \in 1 .. Len(new) : new[i] = x \/ \E j \in 1 .. Len(list) : new[i] = list[j]
  <2> TAKE i \in 1 .. Len(new)
  <2>1. CASE i < k
    <3>1. i \in 1 .. Len(list) /\ new[i] = list[i]
      BY <1>b, <2>1
    <3> QED BY <3>1
  <2>2. CASE i > k
    <3>1. i - 1 \in 1 .. Len(list) /\ new[i] = list[i - 1]
      BY <1>b, <2>2
    <3> QED BY <3>1
  <2>3. CASE i = k
    BY <1>b, <2>3
  <2> QED BY <1>b, <2>1, <2>2, <2>3
<1>7. \A j \in 1 .. Len(list) : \E i \in 1 .. Len(new) : new[i] = list[j]
  <2> TAKE j \in 1 .. Len(list)
  <2>1. CASE j < k
    <3>1. j \in 1 .. Len(new) /\ new[j] = list[j]
      BY <1>b, <2>1
    <3> QED BY <3>1
  <2>2. CASE j >= k
    <3>1. j + 1 \in 1 .. Len(new) /\ new[j + 1] = list[j]
      BY <1>b, <2>2
    <3> QED BY <3>1
  <2> QED BY <1>b, <2>1, <2>2
<1>8. \E i \in 1 .. Len(new) : new[i] = x
  BY <1>b, <1>c
<1> QED BY <1>3, <1>b, <1>5, <1>6, <1>7, <1>8, Zenon DEF IsSortedWith

(* A list of interrupts as Interrupt::Schedule leaves it: sorted, due when it *)
(* was asked for, and none due for a tick or longer.                          *)
Queue(list, t) ==
  /\ list \in Seq(Pending) /\ SortedByTime(list)
  /\ \A i \in 1 .. Len(list) : list[i].when = list[i].due /\ t - SystemTick < list[i].due

(* The timer's next interrupt is pending. *)
HasTimer(list) == \E i \in 1 .. Len(list) : list[i].type = "timer"

(* The inductive invariant of the interrupts: in code no interrupt is due,  *)
(* and while handlers run the first one is; the timer's interrupt is always *)
(* pending, so that Idle finds one.                                         *)
ClockInv ==
  /\ ClockAssumption
  /\ now \in Nat /\ now <= MaxTicks /\ totalTicks = now
  /\ Queue(pending, now) /\ HasTimer(pending)
  /\ ~intFailed
  /\ intPlace \in {"code", "handlers"}
  /\ intPlace = "code" => \A i \in 1 .. Len(pending) : now < pending[i].due
  /\ intPlace = "handlers" => Head(pending).due <= now

(* Timer::Timer schedules the first interrupt. *)
LEMMA ClockInit == ClockAssumption /\ InitInterrupts => ClockInv
<1> SUFFICES ASSUME ClockAssumption, InitInterrupts PROVE ClockInv
  OBVIOUS
<1>1. PICK d \in TimerDelays : pending = <<[type |-> "timer", when |-> d, due |-> d]>>
  BY DEF InitInterrupts
<1>2. d \in Nat \ {0} /\ SystemTick \in Nat \ {0} /\ MaxTicks \in Nat
  BY DEF ClockAssumption, InterruptAssumption, NoOverflow, TimerDelays
<1>3. [type |-> "timer", when |-> d, due |-> d] \in Pending
  BY <1>2 DEF Pending
<1>4. pending \in Seq(Pending) /\ Len(pending) = 1
        /\ pending[1] = [type |-> "timer", when |-> d, due |-> d]
  BY <1>1, <1>3
<1> QED BY <1>2, <1>4 DEF InitInterrupts, ClockInv, Queue, HasTimer, SortedByTime

(* Interrupt::Schedule keeps the queue, and what it adds is later than now. *)
LEMMA ScheduleKeeps ==
  ASSUME ClockInv, NEW list, Queue(list, now),
         NEW dev \in Requested \cup Polling \cup {"timer"}, NEW d \in Delay \cup TimerDelays,
         Schedule(list, dev, d)
  PROVE  /\ Queue(pending', now) /\ ~intFailed'
         /\ HasTimer(list) \/ dev = "timer" => HasTimer(pending')
         /\ \A i \in 1 .. Len(pending') : now < pending'[i].due \/ \E j \in 1 .. Len(list) :
              pending'[i] = list[j]
<1> DEFINE e == Entry(dev, d)
<1>0. LeastExists
  BY DEF ClockInv, ClockAssumption
<1>1. d \in Nat \ {0} /\ now \in Nat /\ now + d <= IntMax /\ IntMax \in Nat
        /\ SystemTick \in Nat \ {0}
  BY DEF ClockInv, ClockAssumption, InterruptAssumption, NoOverflow, TimerDelays
<1>2. e = [type |-> dev, when |-> now + d, due |-> now + d]
  BY <1>1, PlusExact DEF Entry, ClockInv
<1>3. e \in Pending
  BY <1>1, <1>2 DEF Pending
<1>4. list \in Seq(Pending) /\ SortedByTime(list)
  BY DEF Queue
<1>5. pending' = InsertByTime(list, e) /\ intFailed' = (d <= 0)
  BY DEF Schedule
<1> HIDE DEF e
<1>6. /\ pending' \in Seq(Pending)
      /\ SortedByTime(pending')
      /\ \A i \in 1 .. Len(pending') : pending'[i] = e \/ \E j \in 1 .. Len(list) :
           pending'[i] = list[j]
      /\ \A j \in 1 .. Len(list) : \E i \in 1 .. Len(pending') : pending'[i] = list[j]
      /\ \E i \in 1 .. Len(pending') : pending'[i] = e
  <2>1. IsSortedWith(list, e, pending')
    BY <1>0, <1>3, <1>4, <1>5, InsertByTimeKeeps
  <2> QED BY <2>1, Zenon DEF IsSortedWith
<1>7. e.type = dev /\ e.when = e.due /\ e.due = now + d
  BY <1>2
<1>8. Queue(pending', now)
  <2> SUFFICES ASSUME NEW i \in 1 .. Len(pending')
               PROVE  pending'[i].when = pending'[i].due /\ now - SystemTick < pending'[i].due
    BY <1>6 DEF Queue
  <2>1. CASE pending'[i] = e
    BY <1>1, <1>7, <2>1
  <2>2. ASSUME NEW j \in 1 .. Len(list), pending'[i] = list[j]
        PROVE  pending'[i].when = pending'[i].due /\ now - SystemTick < pending'[i].due
    BY <2>2 DEF Queue
  <2> QED BY <1>6, <2>1, <2>2
<1>9. HasTimer(list) \/ dev = "timer" => HasTimer(pending')
  BY <1>6, <1>7 DEF HasTimer
<1>10. \A i \in 1 .. Len(pending') : now < pending'[i].due \/ \E j \in 1 .. Len(list) :
         pending'[i] = list[j]
  BY <1>1, <1>6, <1>7
<1>11. ~ (d <= 0)
  BY <1>1
<1>12. ~intFailed'
  BY <1>5, <1>11, Zenon
<1> QED BY <1>8, <1>9, <1>10, <1>12

(* The times of the interrupts in a queue. *)
LEMMA QueueElements ==
  ASSUME NEW list, NEW t \in Nat, Queue(list, t)
  PROVE  \A i \in 1 .. Len(list) :
           list[i].when \in Nat /\ list[i].due = list[i].when /\ t - SystemTick < list[i].due
<1>1. \A i \in 1 .. Len(list) : list[i] \in Pending
  BY DEF Queue
<1>2. \A i \in 1 .. Len(list) : list[i].when \in Nat
  BY <1>1 DEF Pending
<1> QED BY <1>2 DEF Queue

(* Interrupt::CheckIfDue looks only at the first interrupt: when that one is *)
(* not due, none is.                                                         *)
LEMMA DueOrLater ==
  ASSUME NEW list, NEW t \in Nat, Queue(list, t), HasTimer(list)
  PROVE  /\ list # <<>>
         /\ Due(list, t) => Head(list).due <= t
         /\ ~Due(list, t) => \A i \in 1 .. Len(list) : t < list[i].due
<1>1. list \in Seq(Pending) /\ Len(list) > 0 /\ Head(list) = list[1] /\ 1 \in 1 .. Len(list)
  BY DEF Queue, HasTimer
<1>2. \A i \in 1 .. Len(list) : list[i].when \in Nat /\ list[i].due = list[i].when
  BY QueueElements
<1>3. \A i \in 1 .. Len(list) : list[1].when <= list[i].when
  BY <1>1, <1>2 DEF Queue, SortedByTime
<1> QED BY <1>1, <1>2, <1>3 DEF Due

(* CheckIfDue takes the first interrupt off, and the rest is still a queue. *)
LEMMA RemoveFirstKeeps ==
  ASSUME NEW list, NEW t \in Nat, Queue(list, t), list # <<>>
  PROVE  /\ Queue(Tail(list), t)
         /\ \A i \in 1 .. Len(Tail(list)) : \E j \in 1 .. Len(list) : Tail(list)[i] = list[j]
         /\ HasTimer(list) /\ Head(list).type # "timer" => HasTimer(Tail(list))
<1> DEFINE rest == Tail(list)
<1>1. list \in Seq(Pending)
  BY DEF Queue
<1>2. /\ rest \in Seq(Pending) /\ Len(rest) = Len(list) - 1 /\ Len(list) \in Nat
      /\ \A i \in 1 .. Len(rest) : rest[i] = list[i + 1]
      /\ Head(list) = list[1]
  BY <1>1, WithoutFirst
<1> HIDE DEF rest
<1>3. \A i \in 1 .. Len(rest) : i + 1 \in 1 .. Len(list)
  BY <1>2
<1>4. SortedByTime(rest)
  BY <1>2, <1>3 DEF Queue, SortedByTime
<1>5. \A i \in 1 .. Len(rest) : rest[i].when = rest[i].due /\ t - SystemTick < rest[i].due
  BY <1>2, <1>3 DEF Queue
<1>6. \A i \in 1 .. Len(rest) : \E j \in 1 .. Len(list) : rest[i] = list[j]
  BY <1>2, <1>3
<1>7. ASSUME HasTimer(list), Head(list).type # "timer" PROVE HasTimer(rest)
  <2>1. PICK i \in 1 .. Len(list) : list[i].type = "timer"
    BY <1>7 DEF HasTimer
  <2>2. i # 1
    BY <1>2, <1>7, <2>1
  <2>3. i - 1 \in 1 .. Len(rest)
    BY <1>2, <2>2
  <2>4. rest[i - 1] = list[i]
    BY <1>2, <2>3
  <2> QED BY <2>1, <2>3, <2>4 DEF HasTimer
<1>8. Queue(rest, t)
  BY <1>2, <1>4, <1>5 DEF Queue
<1> QED BY <1>6, <1>7, <1>8 DEF rest

(* A step that neither moves the clock nor schedules nor delivers keeps the *)
(* invariant.                                                               *)
LEMMA SamePending ==
  ASSUME ClockInv, UNCHANGED <<now, totalTicks, pending, intPlace, intFailed>>
  PROVE  ClockInv'
BY Zenon DEF ClockInv, ClockAssumption, InterruptAssumption, NoOverflow, TimerDelays, Queue,
  HasTimer, SortedByTime, Pending

(* A request to a device, which schedules its interrupt, keeps the invariant. *)
LEMMA RequestKeeps ==
  ASSUME ClockInv, NEW dev \in Requested \cup Polling, RequestInterrupt(dev)
  PROVE  ClockInv'
<1>1. PICK d \in Delay : Schedule(pending, dev, d)
  BY DEF RequestInterrupt
<1>2. Queue(pending, now) /\ HasTimer(pending) /\ intPlace = "code"
        /\ UNCHANGED <<now, totalTicks, intPlace>>
  BY DEF ClockInv, RequestInterrupt
<1>3. /\ Queue(pending', now) /\ ~intFailed'
      /\ HasTimer(pending')
      /\ \A i \in 1 .. Len(pending') : now < pending'[i].due \/ \E j \in 1 .. Len(pending) :
           pending'[i] = pending[j]
  BY <1>1, <1>2, ScheduleKeeps
<1>4. \A i \in 1 .. Len(pending') : now < pending'[i].due
  BY <1>2, <1>3 DEF ClockInv
<1>5. Queue(pending, now)'
  BY <1>2, <1>3, Zenon DEF Queue, SortedByTime
<1>6. HasTimer(pending)'
  BY <1>3 DEF HasTimer
<1> QED BY <1>2, <1>3, <1>4, <1>5, <1>6, Zenon DEF ClockInv

(* Interrupt::OneTick moves the clock by a tick, after which the handlers of *)
(* all interrupts that are due run.                                          *)
LEMMA OneTickKeeps ==
  ASSUME ClockInv, OneTick
  PROVE  ClockInv'
<1> DEFINE tick == IF status = "SystemMode" THEN SystemTick ELSE UserTick
<1>1. /\ now \in Nat /\ MaxTicks \in Nat /\ IntMax \in Nat /\ MaxTicks <= IntMax
      /\ SystemTick \in Nat \ {0} /\ tick \in 1 .. SystemTick
  <2>1. /\ now \in Nat /\ MaxTicks \in Nat /\ IntMax \in Nat /\ MaxTicks <= IntMax
        /\ SystemTick \in Nat \ {0} /\ UserTick \in Nat \ {0} /\ UserTick <= SystemTick
    <3>1. ClockAssumption /\ now \in Nat
      BY DEF ClockInv
    <3>2. {SystemTick, UserTick, MaxTicks, IntMax} \subseteq Nat \ {0}
      BY <3>1 DEF ClockAssumption, InterruptAssumption
    <3>3. MaxTicks + 0 <= IntMax /\ UserTick <= SystemTick
      BY <3>1 DEF ClockAssumption, InterruptAssumption, NoOverflow
    <3> QED BY <3>1, <3>2, <3>3
  <2> QED BY <2>1
<1>2. /\ intPlace = "code" /\ now' = now + tick /\ now' <= MaxTicks
           /\ totalTicks' = Plus(now, tick)
      /\ intPlace' = IF Due(pending, totalTicks') THEN "handlers" ELSE "code"
      /\ UNCHANGED <<pending, intFailed>>
  BY DEF OneTick, ClockInv
<1> HIDE DEF tick
<1>3. now' \in Nat /\ totalTicks' = now'
  BY <1>1, <1>2, PlusExact
<1>4. Queue(pending, now')
  <2>1. Queue(pending, now) /\ \A i \in 1 .. Len(pending) : now < pending[i].due
    BY <1>2 DEF ClockInv
  <2>2. \A i \in 1 .. Len(pending) : pending[i].due \in Nat
    BY <1>1, <2>1, QueueElements
  <2>3. \A i \in 1 .. Len(pending) : now' - SystemTick < pending[i].due
    BY <1>1, <1>2, <2>1, <2>2
  <2> QED BY <2>1, <2>3 DEF Queue
<1>5. HasTimer(pending) /\ ~intFailed
  BY DEF ClockInv
<1>6. /\ Due(pending, now') => Head(pending).due <= now'
      /\ ~Due(pending, now') => \A i \in 1 .. Len(pending) : now' < pending[i].due
  BY <1>3, <1>4, <1>5, DueOrLater
<1> QED BY <1>2, <1>3, <1>4, <1>5, <1>6, Zenon DEF ClockInv, ClockAssumption, InterruptAssumption,
      NoOverflow, TimerDelays, Queue, HasTimer, SortedByTime

(* Interrupt::Idle moves the clock to the first interrupt, never past one. *)
LEMMA IdleKeeps ==
  ASSUME ClockInv, Idle
  PROVE  ClockInv'
<1>1. now \in Nat /\ totalTicks = now /\ Queue(pending, now) /\ HasTimer(pending) /\ ~intFailed
        /\ MaxTicks \in Nat /\ SystemTick \in Nat \ {0}
  BY DEF ClockInv, ClockAssumption, InterruptAssumption
<1>2. pending # <<>> /\ Head(pending) = pending[1] /\ 1 \in 1 .. Len(pending)
  BY <1>1, DueOrLater DEF HasTimer, Queue
<1>3. intPlace = "code" /\ \A i \in 1 .. Len(pending) : now < pending[i].due
  BY DEF Idle, ClockInv
<1>4. \A i \in 1 .. Len(pending) : pending[i].when \in Nat /\ pending[i].due = pending[i].when
  BY <1>1, QueueElements
<1>5. ~Due(pending, totalTicks)
  BY <1>1, <1>2, <1>3, <1>4 DEF Due
<1>6. /\ now' = now + (Head(pending).when - now) /\ now' <= MaxTicks
      /\ totalTicks' = Head(pending).when
      /\ intPlace' = "handlers" /\ UNCHANGED <<pending, intFailed>>
  BY <1>1, <1>2, <1>5 DEF Idle
<1>7. now' = Head(pending).due /\ totalTicks' = now' /\ now' \in Nat
  BY <1>1, <1>2, <1>4, <1>6
<1>8. \A i \in 1 .. Len(pending) : now' <= pending[i].due
  BY <1>1, <1>2, <1>4, <1>7 DEF Queue, SortedByTime
<1>9. Queue(pending, now')
  BY <1>1, <1>4, <1>7, <1>8 DEF Queue
<1>10. Queue(pending, now)' /\ HasTimer(pending)'
  BY <1>1, <1>6, <1>9, Zenon DEF Queue, HasTimer, SortedByTime
<1>11. ClockAssumption
  BY DEF ClockInv
<1>12. Head(pending').due <= now'
  BY <1>6, <1>7
<1> QED BY <1>1, <1>6, <1>7, <1>10, <1>11, <1>12, Zenon DEF ClockInv, ClockAssumption,
      InterruptAssumption, NoOverflow, TimerDelays

(* A handler that runs in CheckIfDue, and may schedule interrupts, keeps the *)
(* invariant.                                                                *)
LEMMA HandlerKeeps ==
  ASSUME ClockInv, Handler
  PROVE  ClockInv'
<1> DEFINE rest == Tail(pending)
<1>1. now \in Nat /\ totalTicks = now /\ Queue(pending, now) /\ HasTimer(pending) /\ ~intFailed
        /\ pending # <<>> /\ UNCHANGED <<now, totalTicks>>
  BY DueOrLater DEF ClockInv, Handler
<1>2. /\ Queue(rest, now)
      /\ Head(pending).type # "timer" => HasTimer(rest)
  BY <1>1, RemoveFirstKeeps
<1>3. "timer" \notin Requested \cup Polling
  BY DEF ClockInv, ClockAssumption, InterruptAssumption
<1> HIDE DEF rest
<1>4. Queue(pending', now) /\ HasTimer(pending') /\ ~intFailed'
  <2>1. CASE TimerCallBack
    <3>1. PICK d \in TimerDelays : Schedule(rest, "timer", d)
      BY <2>1 DEF TimerCallBack, rest
    <3> QED BY <1>2, <3>1, ScheduleKeeps
  <2>2. CASE Head(pending).type \in Requested \cup Polling /\ pending' = rest
          /\ UNCHANGED intFailed
    BY <1>1, <1>2, <1>3, <2>2
  <2>3. ASSUME Head(pending).type \in Polling, NEW d \in Delay,
          Schedule(rest, Head(pending).type, d)
        PROVE  Queue(pending', now) /\ HasTimer(pending') /\ ~intFailed'
    <3>1. HasTimer(rest)
      BY <1>2, <1>3, <2>3
    <3>2. PICK dev \in Polling : dev = Head(pending).type
      BY <2>3
    <3> QED BY <1>2, <2>3, <3>1, <3>2, ScheduleKeeps, Zenon
  <2> QED BY <2>1, <2>2, <2>3, Zenon DEF Handler, DeviceCallBack, rest
<1>5. /\ Due(pending', now) => Head(pending').due <= now
      /\ ~Due(pending', now) => \A i \in 1 .. Len(pending') : now < pending'[i].due
  BY <1>1, <1>4, DueOrLater
<1>6. intPlace' = IF Due(pending', now) THEN "handlers" ELSE "code"
  BY <1>1 DEF Handler, Leave
<1> QED BY <1>1, <1>4, <1>5, <1>6, Zenon DEF ClockInv, ClockAssumption, InterruptAssumption,
      NoOverflow, TimerDelays, Queue, HasTimer, SortedByTime

(* Every step keeps the invariant. *)
LEMMA ClockStep == ClockInv /\ [NextInterrupts]_interruptVars => ClockInv'
<1> SUFFICES ASSUME ClockInv, [NextInterrupts]_interruptVars PROVE ClockInv'
  OBVIOUS
<1>1. ASSUME NEW dev \in Requested \cup Polling, RequestInterrupt(dev) PROVE ClockInv'
  BY <1>1, RequestKeeps
<1>2. CASE SetStatus \/ YieldTaken \/ UNCHANGED interruptVars
  BY <1>2, SamePending DEF SetStatus, YieldTaken, interruptVars
<1> QED BY <1>1, <1>2, OneTickKeeps, IdleKeeps, HandlerKeeps DEF NextInterrupts

-----------------------------------------------------------------------------
(* The timing of the disk. *)

(* Division with remainder. *)
LEMMA DivMod ==
  ASSUME NEW n \in Nat, NEW R \in Nat, R > 0
  PROVE  n \div R \in Nat /\ n % R \in 0 .. R-1 /\ n = (n \div R) * R + (n % R)
  OBVIOUS

(* Quotient and remainder are unique. *)
LEMMA ModUnique ==
  ASSUME NEW a \in Nat, NEW r \in Nat, NEW R \in Nat, R > 0, r < R
  PROVE  (a * R + r) % R = r /\ (a * R + r) \div R = a
<1> DEFINE n == a * R + r
           q == n \div R
           s == n % R
<1>1. n \in Nat
  OBVIOUS
<1> HIDE DEF n
<1>2. q \in Nat /\ s \in 0 .. R-1 /\ n = q * R + s
  BY <1>1, DivMod
<1> HIDE DEF q, s
<1>3. a * R + r = q * R + s
  BY <1>2 DEF n
<1>4. ASSUME a < q PROVE FALSE
  <2>1. (q - a) * R >= R BY <1>2, <1>4
  <2> QED BY <1>2, <1>3, <2>1
<1>5. ASSUME q < a PROVE FALSE
  <2>1. (a - q) * R >= R BY <1>2, <1>5
  <2> QED BY <1>2, <1>3, <2>1
<1>6. q = a /\ s = r
  BY <1>2, <1>3, <1>4, <1>5
<1> QED BY <1>6 DEF q, s, n

(* Two numbers that are equal modulo S, and not equal, are S apart. *)
LEMMA Congruent ==
  ASSUME NEW a \in Nat, NEW b \in Nat, NEW S \in Nat, S > 0, a % S = b % S, a < b
  PROVE  b - a >= S
<1> DEFINE p == a \div S
           q == b \div S
           r == a % S
<1>1. p \in Nat /\ q \in Nat /\ r \in Nat /\ a = p * S + r /\ b = q * S + r
  BY DivMod
<1> HIDE DEF p, q, r
<1>2. p * S < q * S
  BY <1>1
<1>3. p < q
  BY <1>1, <1>2
<1>4. (q - p) * S >= S
  BY <1>1, <1>3
<1> QED BY <1>1, <1>4

(* Rounding up to a multiple of R, as Disk::TimeToSeek does to the start of a *)
(* sector.                                                                    *)
LEMMA RoundUp ==
  ASSUME NEW n \in Nat, NEW R \in Nat, R > 0
  PROVE  \E a \in Nat : /\ n + (IF n % R > 0 THEN R - (n % R) ELSE 0) = a * R
                        /\ n <= a * R /\ a * R < n + R
<1> DEFINE q == n \div R
           r == n % R
<1>1. q \in Nat /\ r \in 0 .. R-1 /\ n = q * R + r /\ q * R \in Nat
  BY DivMod
<1> HIDE DEF q
<1> SUFFICES \E a \in Nat : n + (IF r > 0 THEN R - r ELSE 0) = a * R /\ n <= a * R
      /\ a * R < n + R
  OBVIOUS
<1> HIDE DEF r
<1>2. CASE r = 0
  <2> q \in Nat
    BY <1>1
  <2> WITNESS q \in Nat
  <2> QED BY <1>1, <1>2
<1>3. CASE r > 0
  <2>1. q + 1 \in Nat /\ (q + 1) * R = q * R + R
    BY <1>1
  <2> q + 1 \in Nat
    BY <1>1
  <2> WITNESS q + 1 \in Nat
  <2> QED BY <1>1, <1>3, <2>1
<1> QED BY <1>1, <1>2, <1>3

(* Disk::ModuloDiff is the number of sectors from y to x on a turning track. *)
LEMMA Difference ==
  ASSUME NEW x \in Nat, NEW y \in Nat, NEW S \in Nat, S > 0
  PROVE  /\ ((x % S) - (y % S) + S) % S \in 0 .. S - 1
         /\ (y + (((x % S) - (y % S) + S) % S)) % S = x % S
<1> DEFINE u == x % S
           v == y % S
           q == y \div S
           e == u - v + S
<1>1. u \in 0 .. S-1 /\ v \in 0 .. S-1 /\ q \in Nat /\ y = q * S + v
  BY DivMod
<1> SUFFICES e % S \in 0 .. S - 1 /\ (y + (e % S)) % S = u
  OBVIOUS
<1> HIDE DEF u, v, q
<1>2. CASE u < v
  <2>1. e \in Nat /\ e < S /\ e = 0 * S + e
    BY <1>1, <1>2
  <2> HIDE DEF e
  <2>2. (0 * S + e) % S = e
    BY <2>1, ModUnique
  <2>3. e % S = e
    BY <2>1, <2>2
  <2>4. y + e = (q + 1) * S + u
    BY <1>1 DEF e
  <2>5. ((q + 1) * S + u) % S = u
    BY <1>1, ModUnique
  <2> QED BY <2>1, <2>3, <2>4, <2>5
<1>3. CASE u >= v
  <2>1. u - v \in Nat /\ u - v < S /\ e = 1 * S + (u - v)
    BY <1>1, <1>3
  <2> HIDE DEF e
  <2>2. (1 * S + (u - v)) % S = u - v
    BY <2>1, ModUnique
  <2>3. e % S = u - v
    BY <2>1, <2>2
  <2>4. y + (u - v) = q * S + u
    BY <1>1
  <2>5. (q * S + u) % S = u
    BY <1>1, ModUnique
  <2> QED BY <2>1, <2>3, <2>4, <2>5
<1> QED BY <1>1, <1>2, <1>3

(* When the track buffer began is the first start of a sector after the head *)
(* came to the track, which was before the present, or will be before the    *)
(* request is done.                                                          *)
HeadInv ==
  /\ diskTicks \in Nat /\ onTrackSince \in Nat /\ doneAt \in Nat
  /\ diskActive \in BOOLEAN
  /\ lastSector \in DiskSector
  /\ \E b \in Nat : /\ bufferInit = b * RotationTime
                    /\ onTrackSince <= bufferInit /\ bufferInit < onTrackSince + RotationTime
  /\ IF diskActive THEN onTrackSince <= doneAt ELSE onTrackSince <= diskTicks

(* The inductive invariant of the timing of the disk. *)
DiskTimeInv == DiskTimeAssumption /\ HeadInv /\ LatencyIsPhysical

(* The geometry of the disk as inequalities. *)
LEMMA SizesPositive ==
  ASSUME DiskTimeAssumption
  PROVE  /\ RotationTime \in Nat /\ RotationTime > 0
         /\ SectorsPerTrack \in Nat /\ SectorsPerTrack > 0
         /\ SeekTime \in Nat /\ SeekTime > 0
         /\ NumTracks \in Nat /\ NumTracks > 0
<1>1. RotationTime \in Nat \ {0} /\ SectorsPerTrack \in Nat \ {0} /\ SeekTime \in Nat \ {0}
        /\ NumTracks \in Nat \ {0}
  BY DEF DiskTimeAssumption
<1> QED BY <1>1

(* Disk::TimeToSeek: the head is over the track after the seek, and the *)
(* code's time after is the next start of a sector.                     *)
LEMMA Arrival ==
  ASSUME DiskTimeAssumption, HeadInv, NEW s \in DiskSector
  PROVE  /\ Seek(s) \in Nat
         /\ Seek(s) = 0 <=> Track(s) = Track(lastSector)
         /\ \E a \in Nat : /\ TimeAfter(s) = a * RotationTime
                           /\ diskTicks + Seek(s) <= a * RotationTime
                           /\ a * RotationTime < diskTicks + Seek(s) + RotationTime
<1>1. RotationTime \in Nat /\ RotationTime > 0 /\ SectorsPerTrack \in Nat
        /\ SectorsPerTrack > 0 /\ SeekTime \in Nat /\ SeekTime > 0 /\ NumTracks \in Nat
  BY SizesPositive
<1>2. s \in Nat /\ lastSector \in Nat /\ diskTicks \in Nat
  BY <1>1 DEF DiskSector, HeadInv
<1>3. Track(s) \in Nat /\ Track(lastSector) \in Nat
  BY <1>1, <1>2, DivMod DEF Track
<1>4. Seek(s) \in Nat /\ (Seek(s) = 0 <=> Track(s) = Track(lastSector))
  <2> DEFINE x == Track(s)
             y == Track(lastSector)
             d == Abs(x - y)
  <2>1. d \in Nat /\ (d = 0 <=> x = y)
    BY <1>3 DEF Abs
  <2>2. Seek(s) = d * SeekTime
    BY DEF Seek
  <2> HIDE DEF d
  <2>3. d * SeekTime \in Nat /\ (d * SeekTime = 0 <=> d = 0)
    BY <1>1, <2>1
  <2> QED BY <2>1, <2>2, <2>3
<1>5. diskTicks + Seek(s) \in Nat
  BY <1>2, <1>4
<1> DEFINE n == diskTicks + Seek(s)
<1>6. TimeAfter(s) = n + (IF n % RotationTime > 0 THEN RotationTime - (n % RotationTime)
        ELSE 0)
  BY DEF TimeAfter, Rotation
<1> HIDE DEF n
<1>7. n \in Nat
  BY <1>5 DEF n
<1>8. \E a \in Nat : /\ n + (IF n % RotationTime > 0 THEN RotationTime - (n % RotationTime)
                          ELSE 0) = a * RotationTime
                     /\ n <= a * RotationTime /\ a * RotationTime < n + RotationTime
  BY <1>1, <1>7, RoundUp, Zenon
<1> QED BY <1>4, <1>6, <1>8, Zenon DEF n

(* ModuloDiff counts to the first pass of the sector that begins at the start *)
(* a of a sector or later.                                                    *)
LEMMA FirstPassAt ==
  ASSUME DiskTimeAssumption, NEW s \in Nat, NEW from \in Nat, NEW a \in Nat,
         from <= a * RotationTime, a * RotationTime < from + RotationTime
  PROVE  LET k == a + ModuloDiff(s, a) IN
         /\ k \in Nat /\ k * RotationTime = a * RotationTime + ModuloDiff(s, a) * RotationTime
         /\ \A to \in Nat : (k + 1) * RotationTime <= to => Passes(s, from, to)
         /\ \A to \in Int : Passes(s, from, to) => (k + 1) * RotationTime <= to
<1> DEFINE R == RotationTime
           S == SectorsPerTrack
           d == ModuloDiff(s, a)
           k == a + d
<1>1. R \in Nat /\ R > 0 /\ S \in Nat /\ S > 0
  BY SizesPositive
<1>2. d \in 0 .. S - 1 /\ (a + d) % S = s % S
  BY <1>1, Difference, Zenon DEF ModuloDiff
<1> HIDE DEF d
<1>3. k \in Nat /\ k * R = a * R + d * R /\ (k + 1) * R = k * R + R /\ a * R <= k * R
        /\ k * R \in Nat
  BY <1>1, <1>2
<1> HIDE DEF k
<1>4. ASSUME NEW to \in Nat, (k + 1) * R <= to PROVE Passes(s, from, to)
  <2>1. k \in 0 .. to \div R
    <3> DEFINE q == to \div R
               r == to % R
    <3>1. q \in Nat /\ r \in 0 .. R - 1 /\ to = q * R + r
      BY <1>1, DivMod
    <3> HIDE DEF q, r
    <3>2. k * R < (q + 1) * R
      BY <1>1, <1>3, <1>4, <3>1
    <3>3. k < q + 1
      BY <1>1, <1>3, <3>1, <3>2
    <3>4. k \in 0 .. q
      BY <1>3, <3>1, <3>3
    <3> QED BY <3>4 DEF q
  <2>2. from <= k * R /\ k % S = s % S
    BY <1>1, <1>2, <1>3 DEF k
  <2> QED BY <1>4, <2>1, <2>2 DEF Passes
<1>5. ASSUME NEW to \in Int, Passes(s, from, to) PROVE (k + 1) * R <= to
  <2>1. PICK j \in 0 .. to \div R : from <= j * R /\ (j + 1) * R <= to /\ j % S = s % S
    BY <1>5 DEF Passes
  <2>2. j \in Nat
    OBVIOUS
  <2>3. (a - 1) * R < j * R
    BY <1>1, <2>1, <2>2
  <2>4. a - 1 < j
    BY <1>1, <2>2, <2>3
  <2>5. ASSUME j < k PROVE FALSE
    <3>1. j % S = k % S
      BY <1>2, <2>1 DEF k
    <3>2. k - j >= S
      BY <1>1, <1>3, <2>2, <2>5, <3>1, Congruent, Zenon
    <3> QED BY <1>1, <1>2, <2>2, <2>4, <3>2 DEF k
  <2>6. k + 1 <= j + 1
    BY <1>3, <2>2, <2>5
  <2>7. (k + 1) * R <= (j + 1) * R
    BY <1>1, <1>3, <2>2, <2>6
  <2> QED BY <1>1, <1>3, <2>1, <2>2, <2>7
<1>6. /\ k \in Nat /\ k * R = a * R + d * R
      /\ \A to \in Nat : (k + 1) * R <= to => Passes(s, from, to)
      /\ \A to \in Int : Passes(s, from, to) => (k + 1) * R <= to
  BY <1>3, <1>4, <1>5
<1> QED BY <1>6 DEF k, d

(* Disk::ReadRequest and WriteRequest: the latency that ComputeLatency *)
(* computes is that of a turning disk with a track buffer.             *)
LEMMA RequestIsPhysical ==
  ASSUME DiskTimeInv, NEW s \in DiskSector, NEW w \in BOOLEAN, DiskRequest(s, w)
  PROVE  HeadInv' /\ LatencyIsPhysical'
<1> DEFINE R == RotationTime
           seek == Seek(s)
           over == diskTicks + seek
<1>1. R \in Nat /\ R > 0 /\ DiskTimeAssumption
  BY SizesPositive DEF DiskTimeInv
<1>2. /\ seek \in Nat
      /\ seek = 0 <=> Track(s) = Track(lastSector)
      /\ \E a \in Nat : TimeAfter(s) = a * R /\ over <= a * R /\ a * R < over + R
  BY Arrival DEF DiskTimeInv
<1>3. PICK a \in Nat : TimeAfter(s) = a * R /\ over <= a * R /\ a * R < over + R
  BY <1>2
<1>4. HeadInv /\ diskTicks \in Nat /\ onTrackSince \in Nat /\ s \in Nat
  BY SizesPositive DEF DiskTimeInv, HeadInv, DiskSector
<1>5. PICK b \in Nat : bufferInit = b * R /\ onTrackSince <= b * R /\ b * R < onTrackSince + R
  BY <1>4 DEF HeadInv
<1>6. ~diskActive /\ onTrackSince <= diskTicks
  BY <1>4 DEF HeadInv, DiskRequest
<1>7. /\ diskActive' = TRUE /\ doneAt' = diskTicks + ComputeLatency(s, w)
      /\ request' = [at |-> diskTicks, sector |-> s, writing |-> w]
      /\ onTrackSince' = IF seek # 0 THEN over ELSE onTrackSince
      /\ bufferInit' = IF seek # 0 THEN a * R ELSE bufferInit
      /\ lastSector' = s /\ diskTicks' = diskTicks
  BY <1>2, <1>3, Zenon DEF DiskRequest, UpdateLast
<1> DEFINE k == a + ModuloDiff(s, a)
           j == b + ModuloDiff(s, b)
<1>8. /\ k \in Nat /\ k * R = a * R + ModuloDiff(s, a) * R
      /\ \A to \in Nat : (k + 1) * R <= to => Passes(s, over, to)
      /\ \A to \in Int : Passes(s, over, to) => (k + 1) * R <= to
  <2>1. over \in Nat
    BY <1>2, <1>4
  <2> HIDE DEF over
  <2> QED BY <1>1, <1>3, <1>4, <2>1, FirstPassAt, Zenon
<1>9. /\ j \in Nat
      /\ \A to \in Nat : (j + 1) * R <= to => Passes(s, onTrackSince, to)
      /\ \A to \in Int : Passes(s, onTrackSince, to) => (j + 1) * R <= to
  BY <1>1, <1>4, <1>5, FirstPassAt, Zenon
<1>10. ModuloDiff(s, a) \in Nat /\ ModuloDiff(s, b) \in Nat
  BY <1>4, SizesPositive, Difference, <1>1 DEF ModuloDiff
<1>11. /\ (k + 1) * R = k * R + R /\ a * R <= k * R /\ k * R \in Nat /\ a * R \in Nat
  BY <1>1, <1>8, <1>10
<1>12. InTrackBuffer(s) <=> seek = 0 /\ j + 1 <= a
  <2>1. (a * R) \div R = a /\ (b * R) \div R = b
    <3>1. (a * R + 0) \div R = a /\ (b * R + 0) \div R = b
      BY <1>1, ModUnique
    <3> QED BY <1>1, <3>1
  <2>2. ASSUME seek = 0 PROVE (TimeAfter(s) - bufferInit) \div R = a - b
    <3>1. b * R < (a + 1) * R
      BY <1>1, <1>3, <1>4, <1>5, <1>6, <2>2
    <3>2. a - b \in Nat
      BY <1>1, <3>1
    <3>3. ((a - b) * R + 0) \div R = a - b
      BY <1>1, <3>2, ModUnique
    <3>4. TimeAfter(s) - bufferInit = (a - b) * R + 0
      BY <1>1, <1>3, <1>5
    <3> QED BY <3>3, <3>4
  <2>3. bufferInit \div R = b
    BY <1>5, <2>1
  <2> QED BY <1>10, <2>2, <2>3 DEF InTrackBuffer
<1>13. ~(~w /\ InTrackBuffer(s)) => doneAt' = (k + 1) * R
  <2>1. (a * R) \div R = a
    <3>1. (a * R + 0) \div R = a
      BY <1>1, ModUnique
    <3> QED BY <1>1, <3>1
  <2>2. ModuloDiff(s, TimeAfter(s) \div R) = ModuloDiff(s, a)
    BY <1>3, <2>1
  <2>3. ASSUME ~(~w /\ InTrackBuffer(s))
        PROVE  ComputeLatency(s, w) = seek + Rotation(s) + ModuloDiff(s, a) * R + R
    BY <2>2, <2>3 DEF ComputeLatency
  <2>4. diskTicks + seek + Rotation(s) = a * R
    BY <1>3 DEF TimeAfter
  <2>5. Rotation(s) \in Int
    <3>1. over % R \in Int
      BY <1>1, <1>2, <1>4, DivMod
    <3> QED BY <1>1, <3>1 DEF Rotation
  <2>6. ModuloDiff(s, a) * R \in Int
    BY <1>1, <1>10
  <2> QED BY <1>1, <1>2, <1>4, <1>7, <1>8, <1>11, <2>3, <2>4, <2>5, <2>6
<1>14. ~w /\ InTrackBuffer(s) => doneAt' = diskTicks + R
  BY <1>7 DEF ComputeLatency
<1> HIDE DEF k, j
<1>15. doneAt' \in Nat /\ onTrackSince' \in Nat /\ onTrackSince' <= doneAt'
  <2>1. CASE ~w /\ InTrackBuffer(s)
    BY <1>1, <1>4, <1>6, <1>7, <1>12, <1>14, <2>1
  <2>2. CASE ~(~w /\ InTrackBuffer(s))
    <3>1. doneAt' = k * R + R /\ over <= k * R /\ over \in Nat /\ diskTicks <= over
      BY <1>2, <1>3, <1>4, <1>11, <1>13, <2>2
    <3> HIDE DEF over
    <3> QED BY <1>1, <1>4, <1>6, <1>7, <1>11, <3>1
  <2> QED BY <2>1, <2>2
<1>16. HeadInv'
  <2>1. \E c \in Nat : bufferInit' = c * R /\ onTrackSince' <= bufferInit'
          /\ bufferInit' < onTrackSince' + R
    BY <1>3, <1>5, <1>7, Zenon
  <2> QED BY <1>4, <1>7, <1>15, <2>1, Zenon DEF HeadInv
<1>17. (IF onTrackSince' > diskTicks THEN onTrackSince' ELSE diskTicks) = over
  BY <1>2, <1>4, <1>6, <1>7
<1>18. FirstPass(doneAt)' \/ (~w /\ doneAt' = diskTicks + R
         /\ Passes(s, onTrackSince', doneAt'))
  <2>1. CASE ~w /\ InTrackBuffer(s)
    <3>1. seek = 0 /\ j + 1 <= a
      BY <1>12, <2>1
    <3>2. (j + 1) * R <= a * R
      BY <1>1, <1>9, <3>1
    <3>3. (j + 1) * R <= diskTicks + R
      BY <1>1, <1>3, <1>4, <1>9, <1>11, <3>1, <3>2
    <3>4. diskTicks + R \in Nat
      BY <1>1, <1>4
    <3> QED BY <1>7, <1>9, <1>14, <2>1, <3>1, <3>3, <3>4, Zenon
  <2>2. CASE ~(~w /\ InTrackBuffer(s))
    <3>1. doneAt' = (k + 1) * R /\ doneAt' \in Nat
      BY <1>13, <1>15, <2>2
    <3>2. Passes(s, over, doneAt') /\ ~Passes(s, over, doneAt' - 1)
      BY <1>8, <3>1
    <3> QED BY <1>7, <1>17, <3>2, Zenon DEF FirstPass
  <2> QED BY <2>1, <2>2
<1>19. ~w /\ Passes(s, onTrackSince', diskTicks) => doneAt' <= diskTicks + R
  <2> SUFFICES ASSUME ~w, Passes(s, onTrackSince', diskTicks) PROVE doneAt' = diskTicks + R
    BY <1>1, <1>4, <1>15
  <2>1. seek = 0
    <3> SUFFICES ASSUME seek # 0 PROVE FALSE
      OBVIOUS
    <3>1. Passes(s, over, diskTicks)
      BY <1>7
    <3>2. (k + 1) * R <= diskTicks
      BY <1>4, <1>8, <3>1
    <3> QED BY <1>1, <1>2, <1>3, <1>4, <1>11, <3>2
  <2>2. Passes(s, onTrackSince, diskTicks)
    BY <1>7, <2>1
  <2>3. (j + 1) * R <= diskTicks
    BY <1>4, <1>9, <2>2
  <2>4. (j + 1) * R <= a * R
    BY <1>1, <1>3, <1>4, <1>9, <1>11, <2>1, <2>3
  <2>5. j + 1 <= a
    BY <1>1, <1>9, <2>4
  <2> QED BY <1>12, <1>14, <2>1, <2>5
<1>20. LatencyIsPhysical'
  BY <1>7, <1>18, <1>19, Zenon DEF LatencyIsPhysical
<1> QED BY <1>16, <1>20

(* Every step keeps the invariant. *)
LEMMA DiskTimeStep == DiskTimeInv /\ [NextDisk]_diskVars => DiskTimeInv'
<1> SUFFICES ASSUME DiskTimeInv, [NextDisk]_diskVars PROVE DiskTimeInv'
  OBVIOUS
<1>1. DiskTimeAssumption'
  BY DEF DiskTimeInv, DiskTimeAssumption
<1>2. ASSUME NEW s \in DiskSector, NEW w \in BOOLEAN, DiskRequest(s, w) PROVE DiskTimeInv'
  BY <1>1, <1>2, RequestIsPhysical DEF DiskTimeInv
<1>3. CASE DiskCallBack
  BY <1>1, <1>3, Zenon DEF DiskTimeInv, HeadInv, LatencyIsPhysical, DiskCallBack, DiskSector
<1>4. CASE Tick
  BY <1>1, <1>4 DEF DiskTimeInv, HeadInv, LatencyIsPhysical, Tick, DiskSector
<1>5. CASE UNCHANGED diskVars
  BY <1>1, <1>5, Zenon DEF DiskTimeInv, HeadInv, LatencyIsPhysical, FirstPass, Passes, diskVars,
    DiskSector
<1> QED BY <1>2, <1>3, <1>4, <1>5 DEF NextDisk

(* For every geometry, Disk::ComputeLatency gives a request the time that a *)
(* turning disk would take: the sector passes the head completely once the  *)
(* seek is over, at the first time that it does, or, for a read of what the *)
(* track buffer has, after the time of one transfer.                        *)
THEOREM DiskIsPhysical == DiskTimeAssumption /\ SpecDisk => []LatencyIsPhysical
<1>1. DiskTimeAssumption /\ InitDisk => DiskTimeInv
  <2> SUFFICES ASSUME DiskTimeAssumption, InitDisk PROVE DiskTimeInv
    OBVIOUS
  <2>1. RotationTime \in Nat /\ RotationTime > 0 /\ SectorsPerTrack \in Nat
          /\ SectorsPerTrack > 0 /\ NumTracks \in Nat /\ NumTracks > 0
    BY SizesPositive
  <2>2. 0 \in DiskSector
    BY <2>1 DEF DiskSector
  <2>3. bufferInit = 0 * RotationTime /\ onTrackSince <= bufferInit
          /\ bufferInit < onTrackSince + RotationTime
    BY <2>1 DEF InitDisk
  <2>4. \E b \in Nat : bufferInit = b * RotationTime
    BY <2>3
  <2>5. HeadInv
    BY <2>2, <2>3, <2>4, Zenon DEF HeadInv, InitDisk
  <2> QED BY <2>5 DEF DiskTimeInv, InitDisk, LatencyIsPhysical
<1>2. DiskTimeInv => LatencyIsPhysical
  BY DEF DiskTimeInv
<1> QED BY <1>1, <1>2, DiskTimeStep, PTL DEF SpecDisk

-----------------------------------------------------------------------------
(* The system calls. *)

(* The registers of a program that makes calls. *)
Registers ==
  [r2 : Int, r4 : Int, r5 : Int, r6 : Int, pc : Int, nextPC : Int, prevPC : Int]

(* The inductive invariant: while a call is served, the registers are those  *)
(* with which the program trapped.                                            *)
CallInv ==
  /\ SystemCallAssumption
  /\ mem \in Memories
  /\ mode \in {"user", "call", "halted", "aborted"}
  /\ calls \in Nat
  /\ DOMAIN children \subseteq Pid
  /\ regs \in Registers
  /\ trap \in Registers
  /\ trap.r2 = SC_Write => trap.r4 \in DOMAIN mem /\ trap.r5 \in Nat
  /\ mode = "call" => regs = trap
  /\ ResumesAfterCall
  /\ WriteShowsBuffer

(* Turns is the first turn that ends the loop. *)
LEMMA TurnsIsFirst ==
  ASSUME LeastExists, SystemCallAssumption, NEW seen
  PROVE  /\ Turns(seen) \in 1 .. BufferSize + 1
         /\ Turns(seen) # BufferSize + 1 => seen[Turns(seen)] = 0
         /\ \A n \in 1 .. BufferSize : seen[n] = 0 => Turns(seen) <= n
<1> DEFINE ends == {n \in 1 .. BufferSize : seen[n] = 0} \cup {BufferSize + 1}
<1>1. BufferSize \in Nat \ {0}
  BY DEF SystemCallAssumption
<1>2. ends \in SUBSET Nat /\ ends # {}
  BY <1>1
<1>3. Turns(seen) = CHOOSE n \in ends : \A k \in ends : n <= k
  BY DEF Turns
<1>4. Turns(seen) \in ends /\ \A k \in ends : Turns(seen) <= k
  <2> HIDE DEF ends
  <2>1. \E n \in ends : \A k \in ends : n <= k
    BY <1>2 DEF LeastExists
  <2> QED BY <1>3, <2>1
<1> QED BY <1>1, <1>4

(* No turn of the loop finds an address that is not the program's. *)
NoFault(buf) == \A n \in 1 .. Turns(Seen(buf)) : Seen(buf)[n] # Fault

(* There is no zero byte before the n-th of the buffer. *)
NonZero(buf, n) == \A k \in 1 .. n - 1 : mem[buf + k - 1] # 0

(* The loop of SysWrite ends at the zero byte of a string: in the array, and  *)
(* not before the string has been read.                                       *)
LEMMA LoopReadsString ==
  ASSUME LeastExists, SystemCallAssumption, NEW buf \in Nat, IsString(buf), NoFault(buf),
         NEW n \in 1 .. BufferSize, NonZero(buf, n)
  PROVE  /\ Turns(Seen(buf)) <= BufferSize
         /\ n <= Turns(Seen(buf))
         /\ Seen(buf)[n] = mem[buf + n - 1]
<1> DEFINE seen == Seen(buf)
           turns == Turns(seen)
<1>1. BufferSize \in Nat \ {0}
  BY DEF SystemCallAssumption
<1>2. \A k \in 1 .. BufferSize + 1 :
         seen[k] = IF buf + k - 1 \in DOMAIN mem THEN mem[buf + k - 1] ELSE Fault
  BY Zenon DEF Seen
<1>3. /\ turns \in 1 .. BufferSize + 1
      /\ turns # BufferSize + 1 => seen[turns] = 0
      /\ \A k \in 1 .. BufferSize : seen[k] = 0 => turns <= k
  BY TurnsIsFirst
<1>4. \A k \in 1 .. turns : seen[k] # Fault
  BY DEF NoFault
<1> HIDE DEF seen, turns
<1>5. turns <= BufferSize /\ seen[turns] = 0
  <2>1. PICK z \in 1 .. BufferSize : buf + z - 1 \in DOMAIN mem /\ mem[buf + z - 1] = 0
    BY DEF IsString
  <2>2. z \in 1 .. BufferSize + 1
    BY <1>1
  <2>3. seen[z] = 0
    BY <1>2, <2>1, <2>2, Zenon
  <2> QED BY <1>1, <1>3, <2>3
<1>6. n <= turns
  <2> SUFFICES ASSUME turns < n PROVE FALSE
    BY <1>1, <1>3
  <2>1. turns \in 1 .. n - 1
    BY <1>1, <1>3
  <2>2. seen[turns] = mem[buf + turns - 1]
    BY <1>2, <1>3, <1>5 DEF Fault
  <2> QED BY <1>5, <2>1, <2>2 DEF NonZero
<1>7. seen[n] # Fault /\ n \in 1 .. BufferSize + 1
  BY <1>1, <1>3, <1>4, <1>6
<1>8. seen[n] = mem[buf + n - 1]
  BY <1>2, <1>7, Zenon
<1> QED BY <1>5, <1>6, <1>8 DEF seen, turns

(* The invariant holds at the start. *)
LEMMA CallsInit == SystemCallAssumption /\ InitCalls => CallInv
<1> SUFFICES ASSUME SystemCallAssumption, InitCalls PROVE CallInv
  OBVIOUS
<1>1. regs \in Registers /\ trap = regs /\ regs.r2 # SC_Write
  BY DEF InitCalls, Registers, SC_Write
<1>2. calls = 0 /\ mode = "user" /\ mem \in Memories
  BY DEF InitCalls
<1>3. DOMAIN children \subseteq Pid
  BY DEF InitCalls
<1> QED BY <1>1, <1>2, <1>3 DEF CallInv, ResumesAfterCall, WriteShowsBuffer

(* The registers with a result and new program counters. *)
NewRegisters(r, a, b, c, d) == [r EXCEPT !.r2 = a, !.prevPC = b, !.pc = c, !.nextPC = d]

(* They are registers. *)
LEMMA NewRegistersProps ==
  ASSUME NEW r \in Registers, NEW a \in Int, NEW b \in Int, NEW c \in Int, NEW d \in Int
  PROVE  LET new == NewRegisters(r, a, b, c, d) IN
         new \in Registers /\ new.r2 = a /\ new.prevPC = b /\ new.pc = c /\ new.nextPC = d
<1> DEFINE x == [r EXCEPT !.r2 = a]
           y == [x EXCEPT !.prevPC = b]
           z == [y EXCEPT !.pc = c]
           w == [z EXCEPT !.nextPC = d]
<1>1. x \in Registers /\ x.r2 = a
  BY DEF Registers
<1> HIDE DEF x
<1>2. y \in Registers /\ y.r2 = a /\ y.prevPC = b
  BY <1>1 DEF Registers
<1> HIDE DEF y
<1>3. z \in Registers /\ z.r2 = a /\ z.prevPC = b /\ z.pc = c
  BY <1>2 DEF Registers
<1> HIDE DEF z
<1>4. w \in Registers /\ w.r2 = a /\ w.prevPC = b /\ w.pc = c /\ w.nextPC = d
  BY <1>3 DEF Registers
<1>5. NewRegisters(r, a, b, c, d) = w
  BY DEF NewRegisters, x, y, z
<1> QED BY <1>4, <1>5

(* The next instruction, when a call returns. *)
LEMMA Resumes ==
  ASSUME NEW r \in Registers, NEW result \in Int
  PROVE  /\ IncrementPC(r, result) \in Registers
         /\ IncrementPC(r, result).r2 = result
         /\ IncrementPC(r, result).pc = r.nextPC
         /\ IncrementPC(r, result).nextPC = r.nextPC + 4
         /\ IncrementPC(r, result).prevPC = r.pc
<1> DEFINE new == IncrementPC(r, result)
<1>1. r.pc \in Int /\ r.nextPC \in Int /\ r.nextPC + 4 \in Int
  BY DEF Registers
<1>2. /\ new \in Registers /\ new.r2 = result /\ new.prevPC = r.pc /\ new.pc = r.nextPC
      /\ new.nextPC = r.nextPC + 4
  <2>1. new = NewRegisters(r, result, r.pc, r.nextPC, r.nextPC + 4)
    BY DEF IncrementPC, NewRegisters
  <2> HIDE DEF new
  <2> QED BY <1>1, <2>1, NewRegistersProps
<1> QED BY <1>2

(* A call that is not Write, and returns, keeps the invariant. *)
LEMMA ReturnKeeps ==
  ASSUME CallInv, mode = "call", NEW result \in Int, Return(result), regs.r2 # SC_Write,
         UNCHANGED <<mem, trap, calls>>, DOMAIN children' \subseteq Pid
  PROVE  CallInv'
<1>1. regs \in Registers /\ trap = regs /\ trap' = trap /\ mem' = mem /\ calls' = calls
  BY Zenon DEF CallInv
<1>2. regs' = IncrementPC(regs, result) /\ mode' = "user"
  BY DEF Return
<1>3. ResumesAfterCall'
  BY <1>1, <1>2, Resumes DEF ResumesAfterCall
<1>4. WriteShowsBuffer'
  BY <1>1 DEF WriteShowsBuffer
<1>5. regs' \in Registers
  BY <1>1, <1>2, Resumes
<1> QED BY <1>1, <1>2, <1>3, <1>4, <1>5, Zenon DEF CallInv

(* So does Write. *)
LEMMA WriteKeeps ==
  ASSUME LeastExists, CallInv, Write
  PROVE  CallInv'
<1>1. /\ regs \in Registers /\ trap = regs /\ trap' = trap /\ mem' = mem /\ calls' = calls
      /\ children' = children /\ regs.r2 = SC_Write /\ mode = "call" /\ SystemCallAssumption
      /\ regs.r4 \in DOMAIN mem /\ regs.r5 \in Nat
  BY Zenon DEF CallInv, Write, Calling
<1>2. regs.r4 \in Nat
  <2>1. \E last \in DOMAIN mem : last \in Nat /\ mem \in [0 .. last -> 0 .. 255]
    BY <1>1, Zenon DEF CallInv, SystemCallAssumption
  <2> QED BY <1>1, <2>1
<1> DEFINE seen == Seen(regs.r4)
           turns == Turns(seen)
<1>3. \/ mode' = "aborted" /\ UNCHANGED <<regs, output>>
      \/ NoFault(regs.r4) /\ output' \in Buffers(seen, turns, regs.r5) /\ Return(regs.r5)
  BY Zenon DEF Write, NoFault
<1>4. CASE mode' = "aborted" /\ UNCHANGED <<regs, output>>
  BY <1>1, <1>4, Zenon DEF CallInv, ResumesAfterCall, WriteShowsBuffer
<1>5. CASE NoFault(regs.r4) /\ output' \in Buffers(seen, turns, regs.r5) /\ Return(regs.r5)
  <2>1. regs' = IncrementPC(regs, regs.r5) /\ mode' = "user"
    BY <1>5 DEF Return
  <2>2. ResumesAfterCall' /\ regs' \in Registers
    <3>1. regs.r5 \in Int
      BY <1>1
    <3> QED BY <1>1, <2>1, <3>1, Resumes, Zenon DEF ResumesAfterCall
  <2>3. WriteShowsBuffer'
    <3> SUFFICES ASSUME regs.r5 <= BufferSize, IsString(regs.r4),
                        NEW n \in 1 .. regs.r5, NonZero(regs.r4, n)
                 PROVE  output'[n] = mem[regs.r4 + n - 1]
      BY <1>1, Zenon DEF WriteShowsBuffer, IsString, NonZero
    <3>1. n \in 1 .. BufferSize
      <4>1. BufferSize \in Nat /\ regs.r5 \in Nat
        BY <1>1, Zenon DEF SystemCallAssumption
      <4> HIDE DEF seen, turns
      <4> QED BY ONLY <4>1, regs.r5 <= BufferSize, n \in 1 .. regs.r5
    <3>2. turns <= BufferSize /\ n <= turns /\ seen[n] = mem[regs.r4 + n - 1]
      BY <1>1, <1>2, <1>5, <3>1, LoopReadsString
    <3>3. output' = [x \in 1 .. regs.r5 |-> IF x <= turns THEN seen[x] ELSE Undefined]
      BY <1>5, <3>2, Zenon DEF Buffers
    <3> HIDE DEF seen, turns
    <3> QED BY <3>2, <3>3, Zenon
  <2> QED BY <1>1, <2>1, <2>2, <2>3, Zenon DEF CallInv
<1> QED BY <1>3, <1>4, <1>5, Zenon

(* A trap keeps the invariant. *)
LEMMA TrapKeeps ==
  ASSUME CallInv, Trap
  PROVE  CallInv'
<1>0. PICK last \in Nat : mem \in [0 .. last -> 0 .. 255]
  BY Zenon DEF CallInv, SystemCallAssumption
<1>1. PICK call \in {SC_Halt, SC_Add, SC_Write, SC_Read, SC_Exec, SC_Join, 1}, next \in {4, 40} :
         \E r4 \in CASE call = SC_Add -> Operand [] call = SC_Join -> {-1, ExecResult} \cup Pid [] OTHER -> DOMAIN mem,
            r5 \in IF call = SC_Add THEN Operand ELSE IF call \in {SC_Read, SC_Write} THEN WriteSize ELSE {0} :
           regs' = [r2 |-> call, r4 |-> r4, r5 |-> r5, r6 |-> 1, pc |-> 0, nextPC |-> next, prevPC |-> 0]
  BY Zenon DEF Trap
<1>2. PICK r4 \in CASE call = SC_Add -> Operand [] call = SC_Join -> {-1, ExecResult} \cup Pid [] OTHER -> DOMAIN mem,
           r5 \in IF call = SC_Add THEN Operand ELSE IF call \in {SC_Read, SC_Write} THEN WriteSize ELSE {0} :
         regs' = [r2 |-> call, r4 |-> r4, r5 |-> r5, r6 |-> 1, pc |-> 0, nextPC |-> next, prevPC |-> 0]
  BY <1>1
<1>3. /\ call \in Int /\ r4 \in Int /\ r5 \in Int
      /\ call = SC_Write => r4 \in DOMAIN mem /\ r5 \in Nat
  BY <1>0 DEF CallInv, SystemCallAssumption, ExecResult, SC_Halt, SC_Add, SC_Write, SC_Read, SC_Exec, SC_Join
<1>4. regs' \in Registers /\ regs'.r2 = call /\ regs'.r4 = r4 /\ regs'.r5 = r5
  BY <1>2, <1>3 DEF Registers
<1>5. /\ trap' = regs' /\ mode' = "call" /\ mem' = mem
      /\ children' = children /\ calls' \in Nat
  BY DEF Trap, CallInv
<1> QED BY <1>3, <1>4, <1>5, Zenon DEF CallInv, ResumesAfterCall, WriteShowsBuffer

(* Every step keeps the invariant. *)
LEMMA CallsStep == LeastExists /\ CallInv /\ [NextCalls]_callVars => CallInv'
<1> SUFFICES ASSUME LeastExists, CallInv, [NextCalls]_callVars PROVE CallInv'
  OBVIOUS
<1>r. regs.r4 \in Int /\ regs.r5 \in Int /\ regs.pc \in Int
  BY DEF CallInv, Registers
<1>1. CASE SysHalt \/ Unexpected
  <2>1. mode' \in {"halted", "aborted"} /\ UNCHANGED <<children, regs, mem, trap, calls>>
    BY <1>1, Zenon DEF SysHalt, Unexpected
  <2> QED BY <2>1, Zenon DEF CallInv, ResumesAfterCall, WriteShowsBuffer
<1>2. CASE Add
  <2>1. mode = "call" /\ regs.r2 # SC_Write /\ UNCHANGED <<children, mem, trap, calls>> /\ trap = regs
          /\ regs \in Registers /\ mode' = "user" /\ regs.r2 = SC_Add
    BY <1>2 DEF Add, Calling, SC_Add, SC_Write, CallInv
  <2>2. regs' \in Registers /\ regs'.pc = regs.pc + 4 /\ regs'.nextPC = regs.pc + 8 /\ regs'.prevPC = regs.pc
    <3>1. regs.r4 + regs.r5 \in Int /\ regs.pc \in Int /\ regs.pc + 4 \in Int /\ regs.pc + 8 \in Int
      BY <1>r
    <3>2. regs' = NewRegisters(regs, regs.r4 + regs.r5, regs.pc, regs.pc + 4, regs.pc + 8)
      BY <1>2 DEF Add, SysAdd, NewRegisters
    <3> QED BY <2>1, <3>1, <3>2, NewRegistersProps
  <2>3. ResumesAfterCall'
    <3>1. regs.nextPC = regs.pc + 4 => regs'.pc = regs.nextPC /\ regs'.nextPC = regs.nextPC + 4
      BY <1>r, <2>2
    <3>2. trap' = regs
      BY <2>1
    <3> QED BY <2>1, <2>2, <3>1, <3>2, Zenon DEF ResumesAfterCall
  <2>4. WriteShowsBuffer'
    BY <2>1 DEF WriteShowsBuffer
  <2> QED BY <2>1, <2>2, <2>3, <2>4, Zenon DEF CallInv
<1>3. CASE Read
  BY <1>3, ReturnKeeps DEF Read, Calling, SC_Read, SC_Write, SysRead, CallInv
<1>4. CASE Exec
  <2>1. DOMAIN children' \subseteq Pid
    BY <1>4, Zenon DEF Exec, SysExec, With, Fresh, CallInv
  <2> QED BY <1>4, <2>1, ReturnKeeps DEF Exec, Calling, ExecResult, SC_Exec, SC_Write
<1>5. CASE Join
  <2>1. mode = "call" /\ regs.r2 # SC_Write /\ UNCHANGED <<mem, trap, calls>>
    BY <1>5 DEF Join, Calling, SC_Join, SC_Write
  <2>2. PICK result : Return(result) /\ (result = -1 \/ result \in Awaited(regs.r4))
    BY <1>5 DEF Join, SysJoin, WaitEnds
  <2>3. result \in Int
    <3>1. Awaited(regs.r4) \subseteq Pid /\ Pid \subseteq Int
      BY DEF Awaited, CallInv, SystemCallAssumption
    <3>2. -1 \in Int
      OBVIOUS
    <3> QED BY <2>2, <3>1, <3>2, Zenon
  <2>4. DOMAIN children' \subseteq Pid
    BY <1>5, Zenon DEF Join, SysJoin, Without, CallInv
  <2> QED BY <2>1, <2>2, <2>3, <2>4, ReturnKeeps, Zenon
<1>6. CASE Exit \/ UNCHANGED callVars
  <2>1. UNCHANGED <<regs, mem, mode, output, calls, trap>>
    BY <1>6 DEF Exit, callVars
  <2>2. DOMAIN children' \subseteq Pid
    BY <1>6, Zenon DEF Exit, callVars, ChildExit, With, CallInv
  <2> QED BY <2>1, <2>2, Zenon DEF CallInv, ResumesAfterCall, WriteShowsBuffer, IsString
<1> QED BY <1>1, <1>2, <1>3, <1>4, <1>5, <1>6, WriteKeeps, TrapKeeps, Zenon DEF NextCalls

-----------------------------------------------------------------------------
(* Interrupts in time, and calls that are served. *)

INSTANCE WellFoundedInduction

(* LeastExists is a theorem; it is used for the position at which             *)
(* SortedList::Insert stops its search, and for the turn at which SysWrite's *)
(* loop over the buffer ends.                                                *)
LEMMA LeastNat ==
  ASSUME NEW S \in SUBSET Nat, S # {}
  PROVE  \E m \in S : \A n \in S : m <= n
<1> DEFINE Less == {ss \in Nat \X Nat : ss[1] < ss[2]}
<1>1. OpToRel(<, Nat) = Less
  BY Zenon DEF OpToRel
<1>2. IsWellFoundedOn(Less, Nat)
  BY NatLessThanWellFounded, <1>1, Zenon
<1> HIDE DEF Less
<1>3. \E x \in S : \A y \in S : ~ (<<y, x>> \in Less)
  BY <1>2, WFMin, Zenon
<1>4. ASSUME NEW x \in Nat, NEW y \in Nat, y < x
      PROVE  <<y, x>> \in Less
  <2>1. <<y, x>> \in Nat \X Nat
    OBVIOUS
  <2>2. <<y, x>>[1] < <<y, x>>[2]
    BY <1>4
  <2> QED BY <2>1, <2>2, Zenon DEF Less
<1>5. PICK m \in S : \A y \in S : ~ (<<y, m>> \in Less)
  BY <1>3
<1>6. ASSUME NEW n \in S PROVE m <= n
  <2>1. ~ (n < m)
    BY <1>4, <1>5, Zenon
  <2> QED BY <2>1
<1> QED
  BY <1>6

(* Every interrupt is delivered in the order of its time and at most one tick *)
(* late, none before its time, and Interrupt::Schedule never asserts, for all *)
(* devices, delays and handlers.                                              *)
THEOREM InterruptsInTime == InterruptAssumption /\ NoOverflow /\ SpecInterrupts => []DeliveredInTime
<1>1. ClockInv => DeliveredInTime
  <2> SUFFICES ASSUME ClockInv PROVE DeliveredInTime
    OBVIOUS
  <2>1. now \in Nat /\ SystemTick \in Nat /\ Queue(pending, now) /\ HasTimer(pending)
    BY Zenon DEF ClockInv, ClockAssumption, InterruptAssumption
  <2>2. pending # <<>> /\ DOMAIN pending = 1 .. Len(pending) /\ Head(pending) = pending[1]
          /\ 1 \in 1 .. Len(pending)
    BY <2>1, DueOrLater DEF Queue, HasTimer
  <2>3. \A i \in 1 .. Len(pending) : pending[i].when \in Nat /\ pending[i].due
          = pending[i].when /\ now - SystemTick < pending[i].due
    BY <2>1, QueueElements, Zenon
  <2>4. \A i \in 1 .. Len(pending) : pending[1].due <= pending[i].due
    BY <2>1, <2>2, <2>3 DEF Queue, SortedByTime
  <2> QED BY <2>1, <2>2, <2>3, <2>4, Zenon DEF ClockInv, DeliveredInTime
<1>2. LeastExists
  BY LeastNat DEF LeastExists
<1> QED BY <1>1, <1>2, ClockInit, ClockStep, PTL DEF SpecInterrupts, ClockAssumption

(* Whatever it writes and adds, a user program finds its call served: it goes *)
(* on behind the call, and Write has put out the buffer.                      *)
THEOREM CallsServed == SystemCallAssumption /\ SpecCalls => []CallIsServed
<1>1. LeastExists
  BY LeastNat DEF LeastExists
<1>2. CallInv => CallIsServed
  BY DEF CallInv, CallIsServed
<1> QED BY <1>1, <1>2, CallsInit, CallsStep, PTL DEF SpecCalls

-----------------------------------------------------------------------------
(* Exec and Join. *)

INSTANCE FiniteSetTheorems

(* The children are finitely many, and no more than the program owes. *)
JoinInv ==
  /\ owed \in Nat
  /\ IsFiniteSet(DOMAIN children)
  /\ JoinAwaitsExec

(* Exec adds at most one child, and counts it.                                *)
LEMMA ExecKeeps ==
  ASSUME JoinInv, Exec
  PROVE  JoinInv'
<1>1. owed' = owed + 1 /\ owed' \in Nat
  BY DEF Exec, JoinInv
<1>2. Cardinality(DOMAIN children) \in Nat /\ Cardinality(DOMAIN children) <= owed
  BY FS_CardinalityType, Zenon DEF JoinInv, JoinAwaitsExec
<1>3. CASE children' = children
  <2>1. Cardinality(DOMAIN children) <= owed'
    BY <1>1, <1>2 DEF JoinInv
  <2> QED BY <1>1, <1>3, <2>1, Zenon DEF JoinInv, JoinAwaitsExec
<1>4. ASSUME NEW p \in Fresh, children' = With(p, "running")
      PROVE  JoinInv'
  <2>1. DOMAIN children' = DOMAIN children \cup {p} /\ p \notin DOMAIN children
    BY <1>4, Zenon DEF With, Fresh
  <2>2. /\ IsFiniteSet(DOMAIN children \cup {p})
        /\ Cardinality(DOMAIN children \cup {p}) = Cardinality(DOMAIN children) + 1
    BY <2>1, FS_AddElement, Zenon DEF JoinInv
  <2>3. Cardinality(DOMAIN children) + 1 <= owed'
    BY <1>1, <1>2 DEF JoinInv
  <2> QED BY <1>1, <2>1, <2>2, <2>3, Zenon DEF JoinInv, JoinAwaitsExec
<1> QED BY <1>3, <1>4, Zenon DEF Exec, SysExec

(* Join takes a child away, or there was none: what Exec gave is any child to *)
(* waitpid.                                                                   *)
LEMMA JoinKeeps ==
  ASSUME JoinInv, Join
  PROVE  JoinInv'
<1>1. owed \in Nat /\ owed' = IF regs.r4 = ExecResult /\ owed > 0 THEN owed - 1 ELSE owed
  BY DEF Join, JoinInv
<1>2. owed' \in Nat
  BY <1>1
<1>3. Cardinality(DOMAIN children) \in Nat /\ Cardinality(DOMAIN children) <= owed
  BY FS_CardinalityType, Zenon DEF JoinInv, JoinAwaitsExec
<1>4. CASE WaitFails(regs.r4) /\ children' = children
  <2>1. regs.r4 = ExecResult => DOMAIN children = {}
    BY <1>4 DEF WaitFails, Awaited, ExecResult
  <2>2. regs.r4 = ExecResult => Cardinality(DOMAIN children) = 0
    BY <2>1, FS_EmptySet, Zenon
  <2>3. Cardinality(DOMAIN children) <= owed'
    BY <1>1, <1>3, <2>2
  <2> QED BY <1>2, <1>4, <2>3, Zenon DEF JoinInv, JoinAwaitsExec
<1>5. ASSUME NEW p \in DOMAIN children, children' = Without(p)
      PROVE  JoinInv'
  <2>1. DOMAIN children' = DOMAIN children \ {p}
    BY <1>5, Zenon DEF Without
  <2>2. /\ IsFiniteSet(DOMAIN children \ {p})
        /\ Cardinality(DOMAIN children \ {p}) = Cardinality(DOMAIN children) - 1
    BY FS_RemoveElement, Zenon DEF JoinInv
  <2>3. Cardinality(DOMAIN children) - 1 <= owed'
    BY <1>1, <1>3
  <2> QED BY <1>2, <2>1, <2>2, <2>3, Zenon DEF JoinInv, JoinAwaitsExec
<1> QED BY <1>4, <1>5, Zenon DEF Join, SysJoin

(* Every step keeps the invariant; the end of a child leaves it a child.      *)
LEMMA JoinStep == JoinInv /\ [NextCalls]_callVars => JoinInv'
<1> SUFFICES ASSUME JoinInv, [NextCalls]_callVars PROVE JoinInv'
  OBVIOUS
<1>1. CASE Exit
  <2>1. DOMAIN children' = DOMAIN children /\ owed' = owed
    BY <1>1, Zenon DEF Exit, ChildExit, With
  <2> QED BY <2>1, Zenon DEF JoinInv, JoinAwaitsExec
<1>2. CASE Trap \/ SysHalt \/ Add \/ Write \/ Read \/ Unexpected \/ UNCHANGED callVars
  <2>1. children' = children /\ owed' = owed
    BY <1>2, Zenon DEF Trap, SysHalt, Add, Write, Read, Unexpected, callVars
  <2> QED BY <2>1, Zenon DEF JoinInv, JoinAwaitsExec
<1> QED BY <1>1, <1>2, ExecKeeps, JoinKeeps, Zenon DEF NextCalls

(* A program that has joined what each Exec gave it has no child left, for    *)
(* any number of children, calls and ends of children between them.           *)
THEOREM JoinsAwaitExec == SpecCalls => []JoinAwaitsExec
<1>1. InitCalls => JoinInv
  <2> SUFFICES ASSUME InitCalls PROVE JoinInv
    OBVIOUS
  <2>1. owed = 0 /\ DOMAIN children = {}
    BY DEF InitCalls
  <2>2. Cardinality(DOMAIN children) = 0 /\ IsFiniteSet(DOMAIN children)
    BY <2>1, FS_EmptySet, Zenon
  <2> QED BY <2>1, <2>2 DEF JoinInv, JoinAwaitsExec
<1>2. JoinInv => JoinAwaitsExec
  BY DEF JoinInv
<1> QED BY <1>1, <1>2, JoinStep, PTL DEF SpecCalls
=============================================================================
