-------------------------- MODULE SchedulerProofs ---------------------------
(***************************************************************************)
(* The inductive invariant of Threads, and proofs that every step keeps    *)
(* the types and the scheduler's part of it, for ready lists of every      *)
(* length.                                                                 *)
(*                                                                         *)
(* The invariant is TypeOK and four parts, each with the properties it     *)
(* implies: SchedInv (what the queues, the states of the threads and their *)
(* places in the code have to do with each other), IntInv (the interrupt   *)
(* level), ModeInv (the machine status) and UserInv (whose registers and   *)
(* page table the machine holds).                                          *)
(***************************************************************************)
EXTENDS Threads, WellFoundedInduction, TLAPS

-----------------------------------------------------------------------------
(* The inductive invariant. *)

(* A thread is where its state says it is.  Only the current thread is in    *)
(* the middle of its code; all others are at a switch, or not yet started,   *)
(* or finished.                                                              *)
PlaceInv ==
  /\ \A t \in Thread \ {currentThread} : pc[t] \in {"fresh", "yield", "sleep", "finished"}
  /\ pc[currentThread] # "finished"
  /\ \A t \in Thread : status[t] = "RUNNING" => t = currentThread
  /\ pc[currentThread] \notin {"idle", "finishIdle"} => status[currentThread] = "RUNNING"
  /\ pc[currentThread] = "idle" => status[currentThread] \in {"BLOCKED", "READY"}
  /\ pc[currentThread] = "finishIdle" => status[currentThread] = "BLOCKED"
  /\ \A t \in Thread : status[t] = "READY" => pc[t] \in {"fresh", "yield", "sleep", "idle"}
  /\ \A t \in Thread : status[t] \in {"FREE", "JUST_CREATED"} => pc[t] \in {"fresh", "finished"}

WaitInv == \A t \in waiting : status[t] = "BLOCKED" /\ pc[t] \in {"sleep", "idle"}

DestroyInv ==
  toBeDestroyed # NULL =>
    /\ toBeDestroyed # currentThread
    /\ status[toBeDestroyed] = "BLOCKED"
    /\ pc[toBeDestroyed] = "finished"
    /\ pc[currentThread] \in {"fresh", "yield", "sleep"}

SchedInv ==
  /\ ReadyListConsistent
  /\ PlaceInv
  /\ WaitInv
  /\ DestroyInv

(* A thread is switched out with its saved level IntOn, and handlers run *)
(* only in OneTick and in Idle.                                          *)
IntInv ==
  /\ \A t \in Thread : oldLevel[t] = "IntOn"
  /\ pc[currentThread] = "run" => level = "IntOn"
  /\ inHandler => pc[currentThread] \in {"tick", "idle", "finishIdle"}
  /\ yieldOnReturn => inHandler /\ pc[currentThread] = "tick"

(* The machine status that belongs to code outside of SysWrite's loop. *)
ModeOf(f) == IF f = "user" THEN "UserMode" ELSE "SystemMode"

(* The status fits what the current thread does: SystemMode at a switch,   *)
(* and what OneTick found, unless it has remembered it, while it runs.      *)
CurrentMode ==
  /\ pc[currentThread] \in {"idle", "finishIdle"} => machineStatus = "IdleMode"
  /\ pc[currentThread] \in {"fresh", "yield", "sleep", "woken"} => machineStatus = "SystemMode"
  /\ pc[currentThread] = "run" /\ frame[currentThread] # "copy" =>
       machineStatus = ModeOf(frame[currentThread])
  /\ pc[currentThread] = "tick" =>
       machineStatus = IF oldStatus[currentThread] = NULL
                       THEN ModeOf(frame[currentThread]) ELSE "SystemMode"

(* What a thread's stack holds: a OneTick that yielded remembers the status *)
(* of the code it returns to, and only that code can be at such a place.    *)
StackMode(t) ==
  /\ oldStatus[t] # NULL => /\ oldStatus[t] = ModeOf(frame[t])
                            /\ pc[t] \in {"tick", "yield"}
  /\ pc[t] \in {"tick", "yield"} => frame[t] \notin {"copy", "syscall"}
  /\ pc[t] = "yield" /\ oldStatus[t] = NULL => frame[t] = "kernel"
  /\ pc[t] \in {"sleep", "woken", "idle"} => frame[t] \in {"kernel", "fault", "copyFault"}
  /\ pc[t] \in {"fresh", "finished", "finishIdle"} => frame[t] = "kernel"

ModeInv == CurrentMode /\ \A t \in Thread : StackMode(t)

(* A thread with a user program that is not executing has its registers in *)
(* userRegisters, and one that is has them in the machine.                 *)
UserInv ==
  \A t \in Thread :
    frame[t] # "kernel" =>
      /\ space[t]
      /\ pc[t] \in {"yield", "sleep"} => userRegisters[t] = t
      /\ t = currentThread /\ pc[t] \in {"run", "tick", "woken", "idle"} =>
           regs = t /\ pageTable = t

IInv == TypeOK /\ SchedInv /\ IntInv /\ ModeInv /\ UserInv

-----------------------------------------------------------------------------
(* The ready list, for lists of every length. *)

(* A set of natural numbers that is not empty has a least element (used for *)
(* the position at which SortedList::Insert stops its search).              *)
LEMMA LeastNat ==
  ASSUME NEW S \in SUBSET Nat, S # {}
  PROVE  \E m \in S : \A n \in S : m <= n
<1> DEFINE Less == {ss \in Nat \X Nat : ss[1] < ss[2]}
<1>1. OpToRel(<, Nat) = Less
  BY Zenon DEF OpToRel
<1>2. IsWellFoundedOn(Less, Nat)
  BY NatLessThanWellFounded, <1>1, Zenon
<1> HIDE DEF Less
<1>3. \E x \in S : \A y \in S : ~ (<<y, x>> \in Less)
  BY <1>2, WFMin, Zenon
<1>4. ASSUME NEW x \in Nat, NEW y \in Nat, y < x
      PROVE  <<y, x>> \in Less
  <2>1. <<y, x>> \in Nat \X Nat
    OBVIOUS
  <2>2. <<y, x>>[1] < <<y, x>>[2]
    BY <1>4
  <2> QED BY <2>1, <2>2, Zenon DEF Less
<1>5. PICK m \in S : \A y \in S : ~ (<<y, m>> \in Less)
  BY <1>3
<1>6. ASSUME NEW n \in S PROVE m <= n
  <2>1. ~ (n < m)
    BY <1>4, <1>5, Zenon
  <2> QED BY <2>1
<1> QED
  BY <1>6

(* InsertAt puts the element at its place and shifts the rest by one. *)
LEMMA InsertAtProps ==
  ASSUME NEW T, NEW s \in Seq(T), NEW e \in T, NEW k \in 1 .. Len(s) + 1
  PROVE  /\ InsertAt(s, k, e) \in Seq(T)
         /\ Len(InsertAt(s, k, e)) = Len(s) + 1
         /\ \A i \in 1 .. Len(s) + 1 :
              InsertAt(s, k, e)[i] = IF i < k THEN s[i]
                                     ELSE IF i = k THEN e ELSE s[i-1]
<1>1. ASSUME NEW i \in 1 .. Len(s) + 1
      PROVE  (IF i < k THEN s[i] ELSE IF i = k THEN e ELSE s[i-1]) \in T
  OBVIOUS
<1>2. Len(s) + 1 \in Nat
  OBVIOUS
<1> QED BY <1>1, <1>2 DEF InsertAt

(* Where SortedList::Insert puts the item: there is a position k such that  *)
(* nothing in front of it is bigger than the item, and the element at k, if *)
(* there is one, is.                                                        *)
LEMMA InsertPosition ==
  ASSUME NEW T, NEW rank \in [T -> Int], NEW list \in Seq(T), NEW item \in T
  PROVE  \E k \in 1 .. Len(list) + 1 :
           /\ Insert(rank, list, item) = InsertAt(list, k, item)
           /\ \A i \in 1 .. k - 1 : rank[item] <= rank[list[i]]
           /\ k <= Len(list) => rank[item] > rank[list[k]]
<1> DEFINE I == {i \in 1 .. Len(list) : Compare(rank, item, list[i]) < 0}
           j == FirstPlace(I, Len(list) + 1)
<1>1. Insert(rank, list, item) = InsertAt(list, j, item)
  BY Zenon DEF Insert
<1>2. \A i \in 1 .. Len(list) : i \in I <=> rank[item] > rank[list[i]]
  BY DEF Compare
<1>3. CASE I = {}
  <2>1. j = Len(list) + 1
    BY <1>3 DEF FirstPlace
  <2>2. ASSUME NEW i \in 1 .. Len(list) PROVE rank[item] <= rank[list[i]]
    <3>1. ~ (rank[item] > rank[list[i]])
      BY <1>2, <1>3, Zenon
    <3>2. list[i] \in T
      OBVIOUS
    <3>3. rank[item] \in Int /\ rank[list[i]] \in Int
      BY <3>2
    <3> QED BY <3>1, <3>3
  <2> HIDE DEF j
  <2>3. j \in 1 .. Len(list) + 1 /\ ~ (j <= Len(list))
    BY <2>1
  <2>4. \A i \in 1 .. j - 1 : rank[item] <= rank[list[i]]
    BY <2>1, <2>2
  <2> QED BY <1>1, <2>3, <2>4, Zenon
<1>4. CASE I # {}
  <2>1. I \in SUBSET Nat
    OBVIOUS
  <2> HIDE DEF I
  <2>2. \E m \in I : \A n \in I : m <= n
    BY <1>4, <2>1, LeastNat, Zenon
  <2>3. j \in I /\ \A n \in I : j <= n
    BY <1>4, <2>2, Zenon DEF FirstPlace
  <2> HIDE DEF j
  <2>4. j \in 1 .. Len(list)
    BY <2>3 DEF I
  <2>5. ASSUME NEW i \in 1 .. j - 1 PROVE rank[item] <= rank[list[i]]
    <3>1. i \in 1 .. Len(list) /\ ~ (j <= i)
      BY <2>4
    <3>2. ~ (rank[item] > rank[list[i]])
      BY <1>2, <2>3, <3>1, Zenon
    <3>3. list[i] \in T
      BY <3>1
    <3>4. rank[item] \in Int /\ rank[list[i]] \in Int
      BY <3>3
    <3> QED BY <3>2, <3>4
  <2>6. rank[item] > rank[list[j]]
    BY <1>2, <2>3, <2>4, Zenon
  <2>7. j \in 1 .. Len(list) + 1
    BY <2>4
  <2> QED BY <1>1, <2>5, <2>6, <2>7, Zenon
<1> QED BY <1>3, <1>4, Zenon

(* The elements of a sequence are its values at the positions it has. *)
LEMMA ToSetMember ==
  ASSUME NEW T, NEW s \in Seq(T), NEW x
  PROVE  x \in ToSet(s) <=> \E i \in 1 .. Len(s) : x = s[i]
  BY Zenon DEF ToSet

(* Sorted, in terms of the priorities. *)
LEMMA SortedMeaning ==
  ASSUME NEW T, NEW rank \in [T -> Int], NEW list \in Seq(T)
  PROVE  Sorted(rank, list) <=>
           \A i, j \in 1 .. Len(list) : i < j => rank[list[j]] <= rank[list[i]]
<1>1. \A i \in 1 .. Len(list) : rank[list[i]] \in Int
  <2>1. \A i \in 1 .. Len(list) : list[i] \in T
    OBVIOUS
  <2> QED BY <2>1
<1>2. \A i, j \in 1 .. Len(list) :
        Compare(rank, list[i], list[j]) <= 0 <=> rank[list[j]] <= rank[list[i]]
  BY <1>1 DEF Compare
<1> QED BY <1>2, Zenon DEF Sorted

(* Inserting e at place k of f, which has n places, keeps f in order when e is *)
(* between the values in front of k and the rest.                              *)
LEMMA ShiftKeepsOrder ==
  ASSUME NEW n \in Nat, NEW k \in 1 .. n + 1, NEW f, NEW g, NEW e \in Int,
         \A i \in 1 .. n + 1 : g[i] = IF i < k THEN f[i] ELSE IF i = k THEN e ELSE f[i-1],
         \A i \in 1 .. n : f[i] \in Int,
         \A i, j \in 1 .. n : i < j => f[j] <= f[i],
         \A i \in 1 .. k - 1 : e <= f[i],
         k <= n => f[k] < e
  PROVE  \A i, j \in 1 .. n + 1 : i < j => g[j] <= g[i]
<1>1. \A i \in k .. n : f[i] <= e
  OBVIOUS
<1>2. SUFFICES ASSUME NEW i \in 1 .. n + 1, NEW j \in 1 .. n + 1, i < j
               PROVE  g[j] <= g[i]
  OBVIOUS
<1>3. CASE j < k
  BY <1>2, <1>3
<1>4. CASE j = k
  BY <1>2, <1>4
<1>5. CASE j > k /\ i < k
  BY <1>2, <1>5
<1>6. CASE j > k /\ i = k
  BY <1>1, <1>2, <1>6
<1>7. CASE j > k /\ i > k
  BY <1>2, <1>7
<1> QED BY <1>3, <1>4, <1>5, <1>6, <1>7

(* SortedList::Insert adds the item and keeps the list sorted and free of   *)
(* duplicates.                                                              *)
THEOREM InsertCorrect ==
  ASSUME NEW T, NEW rank \in [T -> Int], NEW list \in Seq(T), NEW item \in T
  PROVE  /\ Insert(rank, list, item) \in Seq(T)
         /\ Insert(rank, list, item) # <<>>
         /\ ToSet(Insert(rank, list, item)) = ToSet(list) \cup {item}
         /\ NoDuplicates(list) /\ item \notin ToSet(list) =>
              NoDuplicates(Insert(rank, list, item))
         /\ Sorted(rank, list) => Sorted(rank, Insert(rank, list, item))
<1> DEFINE new == Insert(rank, list, item)
           n == Len(list)
<1>1. PICK k \in 1 .. n + 1 :
        /\ new = InsertAt(list, k, item)
        /\ \A i \in 1 .. k - 1 : rank[item] <= rank[list[i]]
        /\ k <= n => rank[item] > rank[list[k]]
  BY InsertPosition, Zenon
<1> HIDE DEF new
<1>2. /\ new \in Seq(T)
      /\ Len(new) = n + 1
      /\ \A i \in 1 .. n + 1 :
           new[i] = IF i < k THEN list[i] ELSE IF i = k THEN item ELSE list[i-1]
  <2> DEFINE ins == InsertAt(list, k, item)
  <2>1. /\ ins \in Seq(T)
        /\ Len(ins) = n + 1
        /\ \A i \in 1 .. n + 1 :
             ins[i] = IF i < k THEN list[i] ELSE IF i = k THEN item ELSE list[i-1]
    BY InsertAtProps
  <2>2. new = ins
    BY <1>1
  <2> HIDE DEF ins
  <2> QED BY <2>1, <2>2, Zenon
<1>3. n \in Nat
  OBVIOUS
<1>4. \A x : x \in ToSet(list) <=> \E i \in 1 .. n : x = list[i]
  BY ToSetMember, Zenon
<1>5. \A x : x \in ToSet(new) <=> \E i \in 1 .. n + 1 : x = new[i]
  <2>1. \A x : x \in ToSet(new) <=> \E i \in 1 .. Len(new) : x = new[i]
    BY <1>2, ToSetMember, Zenon
  <2> QED BY <1>2, <2>1
<1>6. new # <<>>
  BY <1>2, <1>3
<1>7. Sorted(rank, list) <=>
        \A i, j \in 1 .. n : i < j => rank[list[j]] <= rank[list[i]]
  BY SortedMeaning, Zenon
<1>8. Sorted(rank, new) <=>
        \A i, j \in 1 .. n + 1 : i < j => rank[new[j]] <= rank[new[i]]
  BY <1>2, SortedMeaning, Zenon
<1>9. rank[item] \in Int /\ \A i \in 1 .. n : rank[list[i]] \in Int
  <2>1. \A i \in 1 .. n : list[i] \in T
    OBVIOUS
  <2> QED BY <2>1
<1>10. NoDuplicates(list) <=> \A i, j \in 1 .. n : list[i] = list[j] => i = j
  BY Zenon DEF NoDuplicates
<1>11. NoDuplicates(new) <=> \A i, j \in 1 .. n + 1 : new[i] = new[j] => i = j
  BY <1>2, Zenon DEF NoDuplicates
<1> HIDE DEF n
<1>12. ToSet(new) = ToSet(list) \cup {item}
  <2>1. \A i \in 1 .. n : IF i < k THEN i \in 1 .. n + 1 /\ new[i] = list[i]
                                   ELSE i + 1 \in 1 .. n + 1 /\ new[i+1] = list[i]
    <3>1. SUFFICES ASSUME NEW i \in 1 .. n
                   PROVE  IF i < k THEN i \in 1 .. n + 1 /\ new[i] = list[i]
                                   ELSE i + 1 \in 1 .. n + 1 /\ new[i+1] = list[i]
      OBVIOUS
    <3>2. CASE i < k
      <4>1. i \in 1 .. n + 1
        BY <1>3
      <4> QED BY <1>2, <3>2, <4>1, Zenon
    <3>3. CASE ~ (i < k)
      <4>1. i + 1 \in 1 .. n + 1 /\ ~ (i + 1 < k) /\ i + 1 # k /\ (i + 1) - 1 = i
        BY <1>3, <3>3
      <4>2. new[i+1] = list[(i + 1) - 1]
        BY <1>2, <4>1
      <4> QED BY <3>3, <4>1, <4>2
    <3> QED BY <3>2, <3>3
  <2>2. ASSUME NEW x \in ToSet(new) PROVE x \in ToSet(list) \cup {item}
    <3>1. PICK i \in 1 .. n + 1 : x = new[i]
      BY <1>5
    <3>2. i < k => i \in 1 .. n
      BY <1>3
    <3>3. i > k => i - 1 \in 1 .. n
      BY <1>3
    <3> QED BY <1>2, <1>3, <1>4, <3>1, <3>2, <3>3
  <2>3. ASSUME NEW x \in ToSet(list) PROVE x \in ToSet(new)
    <3>1. PICK i \in 1 .. n : x = list[i]
      BY <1>4
    <3> QED BY <1>5, <2>1, <3>1, Zenon
  <2>4. item \in ToSet(new)
    <3>1. new[k] = item
      BY <1>2, <1>3
    <3> QED BY <1>5, <3>1, Zenon
  <2> QED BY <2>2, <2>3, <2>4, Zenon
<1>13. ASSUME NoDuplicates(list), item \notin ToSet(list)
       PROVE  NoDuplicates(new)
  <2>1. \A i \in 1 .. n : list[i] # item
    BY <1>4, <1>13, Zenon
  <2>2. \A i, j \in 1 .. n : list[i] = list[j] => i = j
    BY <1>10, <1>13, Zenon
  <2>3. \A i \in 1 .. n + 1 :
          new[i] = IF i < k THEN list[i] ELSE IF i = k THEN item ELSE list[i-1]
    BY <1>2
  <2>4. ASSUME NEW i \in 1 .. n + 1, NEW j \in 1 .. n + 1, new[i] = new[j], i < j
        PROVE  FALSE
    <3>1. CASE j < k
      <4>1. i \in 1 .. n /\ j \in 1 .. n /\ i < k /\ i # j
        BY <1>3, <2>4, <3>1
      <4>2. new[i] = list[i] /\ new[j] = list[j]
        BY <2>3, <3>1, <4>1, Zenon
      <4> QED BY <2>2, <2>4, <4>1, <4>2, Zenon
    <3>2. CASE j = k
      <4>1. i \in 1 .. n /\ i < k /\ ~ (j < k)
        BY <1>3, <2>4, <3>2
      <4>2. new[i] = list[i] /\ new[j] = item
        BY <2>3, <3>2, <4>1, Zenon
      <4> QED BY <2>1, <2>4, <4>1, <4>2, Zenon
    <3>3. CASE j > k /\ i = k
      <4>1. j - 1 \in 1 .. n /\ ~ (j < k) /\ j # k /\ ~ (i < k)
        BY <1>3, <3>3
      <4>2. new[i] = item /\ new[j] = list[j-1]
        BY <2>3, <3>3, <4>1, Zenon
      <4> QED BY <2>1, <2>4, <4>1, <4>2, Zenon
    <3>4. CASE j > k /\ i < k
      <4>1. new[i] = list[i] /\ new[j] = list[j-1] /\ i \in 1 .. n /\ j-1 \in 1 .. n
        BY <1>3, <2>3, <3>4
      <4>2. i = j - 1
        BY <2>2, <2>4, <4>1, Zenon
      <4> QED BY <1>3, <3>4, <4>2
    <3>5. CASE j > k /\ i > k
      <4>1. new[i] = list[i-1] /\ new[j] = list[j-1] /\ i-1 \in 1 .. n /\ j-1 \in 1 .. n
        BY <1>3, <2>3, <3>5
      <4>2. i - 1 = j - 1
        BY <2>2, <2>4, <4>1, Zenon
      <4> QED BY <1>3, <2>4, <4>2
    <3> QED BY <1>3, <3>1, <3>2, <3>3, <3>4, <3>5, <2>4
  <2>5. \A i, j \in 1 .. n + 1 : i = j \/ i < j \/ j < i
    BY <1>3
  <2> QED BY <1>11, <2>4, <2>5, Zenon
<1>14. ASSUME Sorted(rank, list) PROVE Sorted(rank, new)
  <2> DEFINE f == [i \in 1 .. n |-> rank[list[i]]]
             g == [i \in 1 .. n + 1 |-> rank[new[i]]]
  <2>1. \A i \in 1 .. n : f[i] = rank[list[i]]
    OBVIOUS
  <2>2. \A i \in 1 .. n + 1 : g[i] = rank[new[i]]
    OBVIOUS
  <2> HIDE DEF f, g
  <2>3. ASSUME NEW i \in 1 .. n + 1
        PROVE  g[i] = IF i < k THEN f[i] ELSE IF i = k THEN rank[item] ELSE f[i-1]
    <3>1. CASE i < k
      <4>1. i \in 1 .. n
        BY <1>3, <3>1
      <4>2. new[i] = list[i]
        BY <1>2, <3>1
      <4> QED BY <2>1, <2>2, <3>1, <4>1, <4>2, Zenon
    <3>2. CASE i = k
      <4>1. new[i] = item
        BY <1>2, <1>3, <3>2
      <4> QED BY <1>3, <2>2, <3>2, <4>1
    <3>3. CASE i > k
      <4>1. i - 1 \in 1 .. n /\ ~ (i < k) /\ i # k
        BY <1>3, <3>3
      <4>2. new[i] = list[i-1]
        BY <1>2, <4>1
      <4> QED BY <2>1, <2>2, <4>1, <4>2, Zenon
    <3> QED BY <1>3, <3>1, <3>2, <3>3
  <2>4. \A i \in 1 .. n : f[i] \in Int
    BY <1>9, <2>1
  <2>5. \A i, j \in 1 .. n : i < j => f[j] <= f[i]
    BY <1>7, <1>14, <2>1, Zenon
  <2>6. \A i \in 1 .. k - 1 : rank[item] <= f[i]
    <3>1. \A i \in 1 .. k - 1 : i \in 1 .. n
      BY <1>3
    <3> QED BY <1>1, <2>1, <3>1, Zenon
  <2>7. k <= n => f[k] < rank[item]
    BY <1>1, <1>3, <1>9, <2>1
  <2>8. \A i, j \in 1 .. n + 1 : i < j => g[j] <= g[i]
    BY <1>3, <1>9, <2>3, <2>4, <2>5, <2>6, <2>7, ShiftKeepsOrder, Zenon
  <2> QED BY <1>8, <2>2, <2>8, Zenon
<1> QED BY <1>2, <1>6, <1>12, <1>13, <1>14, Zenon DEF new

(* List::RemoveFront takes the first element and keeps the others. *)
LEMMA TailCorrect ==
  ASSUME NEW T, NEW list \in Seq(T), list # <<>>, NoDuplicates(list)
  PROVE  /\ Head(list) \in ToSet(list)
         /\ Head(list) \in T
         /\ Tail(list) \in Seq(T)
         /\ ToSet(Tail(list)) = ToSet(list) \ {Head(list)}
         /\ NoDuplicates(Tail(list))
<1> DEFINE rest == Tail(list)
           hd == Head(list)
           n == Len(list)
<1>1. /\ hd = list[1]
      /\ n \in Nat \ {0}
      /\ rest \in Seq(T)
      /\ Len(rest) = n - 1
      /\ \A i \in 1 .. n - 1 : rest[i] = list[i+1]
      /\ \A i \in 1 .. n : list[i] \in T
  OBVIOUS
<1> HIDE DEF rest, hd
<1>2. \A x : x \in ToSet(list) <=> \E i \in 1 .. n : x = list[i]
  BY ToSetMember, Zenon
<1>3. \A x : x \in ToSet(rest) <=> \E i \in 1 .. n - 1 : x = rest[i]
  <2>1. \A x : x \in ToSet(rest) <=> \E i \in 1 .. Len(rest) : x = rest[i]
    BY <1>1, ToSetMember, Zenon
  <2> QED BY <1>1, <2>1
<1>6. \A i, j \in 1 .. n : list[i] = list[j] => i = j
  BY Zenon DEF NoDuplicates
<1>7. NoDuplicates(rest) <=> \A i, j \in 1 .. n - 1 : rest[i] = rest[j] => i = j
  BY <1>1, Zenon DEF NoDuplicates
<1> HIDE DEF n
<1>8. \A i \in 1 .. n - 1 : i + 1 \in 1 .. n /\ i + 1 # 1 /\ rest[i] = list[i+1]
  BY <1>1
<1>9. 1 \in 1 .. n
  BY <1>1
<1>10. hd \in ToSet(list) /\ hd \in T
  BY <1>1, <1>2, <1>9, Zenon
<1>11. ToSet(rest) = ToSet(list) \ {hd}
  <2>1. ASSUME NEW x \in ToSet(rest) PROVE x \in ToSet(list) /\ x # hd
    <3>1. PICK i \in 1 .. n - 1 : x = rest[i]
      BY <1>3
    <3>2. i + 1 \in 1 .. n /\ i + 1 # 1 /\ x = list[i+1]
      BY <1>8, <3>1
    <3>3. list[i+1] # list[1]
      BY <1>6, <1>9, <3>2, Zenon
    <3> QED BY <1>1, <1>2, <3>2, <3>3, Zenon
  <2>2. ASSUME NEW x \in ToSet(list), x # hd PROVE x \in ToSet(rest)
    <3>1. PICK i \in 1 .. n : x = list[i]
      BY <1>2
    <3>2. i # 1
      BY <1>1, <2>2, <3>1
    <3>3. i - 1 \in 1 .. n - 1 /\ rest[i-1] = list[i]
      BY <1>1, <3>2
    <3> QED BY <1>3, <3>1, <3>3, Zenon
  <2> QED BY <2>1, <2>2, Zenon
<1>12. NoDuplicates(rest)
  <2>1. ASSUME NEW i \in 1 .. n - 1, NEW j \in 1 .. n - 1, rest[i] = rest[j]
        PROVE  i = j
    <3>1. i + 1 = j + 1
      BY <1>6, <1>8, <2>1, Zenon
    <3> QED BY <1>1, <3>1
  <2> QED BY <1>7, <2>1, Zenon
<1> QED BY <1>1, <1>10, <1>11, <1>12, Zenon DEF rest, hd

(* List::Append adds an element at the end. *)
LEMMA AppendCorrect ==
  ASSUME NEW T, NEW list \in Seq(T), NEW item \in T
  PROVE  /\ Append(list, item) \in Seq(T)
         /\ Append(list, item) # <<>>
         /\ ToSet(Append(list, item)) = ToSet(list) \cup {item}
         /\ NoDuplicates(list) /\ item \notin ToSet(list) =>
              NoDuplicates(Append(list, item))
<1> DEFINE new == Append(list, item)
           n == Len(list)
<1>1. /\ new \in Seq(T)
      /\ n \in Nat
      /\ Len(new) = n + 1
      /\ new[n+1] = item
      /\ \A i \in 1 .. n : new[i] = list[i]
  OBVIOUS
<1>2. \A x : x \in ToSet(list) <=> \E i \in 1 .. n : x = list[i]
  BY ToSetMember, Zenon
<1> HIDE DEF new
<1>3. \A x : x \in ToSet(new) <=> \E i \in 1 .. n + 1 : x = new[i]
  <2>1. \A x : x \in ToSet(new) <=> \E i \in 1 .. Len(new) : x = new[i]
    BY <1>1, ToSetMember, Zenon
  <2> QED BY <1>1, <2>1
<1>4. NoDuplicates(list) <=> \A i, j \in 1 .. n : list[i] = list[j] => i = j
  BY Zenon DEF NoDuplicates
<1>5. NoDuplicates(new) <=> \A i, j \in 1 .. n + 1 : new[i] = new[j] => i = j
  BY <1>1, Zenon DEF NoDuplicates
<1> HIDE DEF n
<1>6. \A i \in 1 .. n + 1 : i \in 1 .. n \/ i = n + 1
  BY <1>1
<1>7. \A i \in 1 .. n : i \in 1 .. n + 1
  BY <1>1
<1>8. n + 1 \in 1 .. n + 1
  BY <1>1
<1>9. ToSet(new) = ToSet(list) \cup {item}
  <2>1. ASSUME NEW x \in ToSet(new) PROVE x \in ToSet(list) \cup {item}
    <3>1. PICK i \in 1 .. n + 1 : x = new[i]
      BY <1>3
    <3>2. i \in 1 .. n => x \in ToSet(list)
      BY <1>1, <1>2, <3>1, Zenon
    <3> QED BY <1>1, <1>6, <3>1, <3>2, Zenon
  <2>2. ASSUME NEW x \in ToSet(list) PROVE x \in ToSet(new)
    BY <1>1, <1>2, <1>3, <1>7, Zenon
  <2>3. item \in ToSet(new)
    BY <1>1, <1>3, <1>8, Zenon
  <2> QED BY <2>1, <2>2, <2>3, Zenon
<1>10. ASSUME NoDuplicates(list), item \notin ToSet(list),
              NEW i \in 1 .. n + 1, NEW j \in 1 .. n + 1, new[i] = new[j]
       PROVE  i = j
  <2>1. CASE i \in 1 .. n /\ j \in 1 .. n
    BY <1>1, <1>4, <1>10, <2>1, Zenon
  <2>2. CASE i \in 1 .. n /\ j = n + 1
    BY <1>1, <1>2, <1>10, <2>2, Zenon
  <2>3. CASE i = n + 1 /\ j \in 1 .. n
    BY <1>1, <1>2, <1>10, <2>3, Zenon
  <2> QED BY <1>6, <2>1, <2>2, <2>3
<1>11. new # <<>>
  BY <1>1
<1> QED BY <1>1, <1>5, <1>9, <1>10, <1>11, Zenon DEF new

(* RemoveFront of a list that is not empty: the first element has the highest *)
(* priority, and the rest is the list without it.                             *)
THEOREM RemoveFrontCorrect ==
  ASSUME NEW T, NEW rank \in [T -> Int], NEW list \in Seq(T), list # <<>>,
         NoDuplicates(list), Sorted(rank, list)
  PROVE  /\ Head(list) \in ToSet(list)
         /\ Head(list) \in T
         /\ Tail(list) \in Seq(T)
         /\ ToSet(Tail(list)) = ToSet(list) \ {Head(list)}
         /\ NoDuplicates(Tail(list))
         /\ Sorted(rank, Tail(list))
         /\ \A x \in ToSet(list) : rank[x] <= rank[Head(list)]
<1> DEFINE rest == Tail(list)
           hd == Head(list)
           n == Len(list)
<1>1. /\ hd = list[1]
      /\ n \in Nat \ {0}
      /\ rest \in Seq(T)
      /\ Len(rest) = n - 1
      /\ \A i \in 1 .. n - 1 : rest[i] = list[i+1]
      /\ \A i \in 1 .. n : list[i] \in T
  OBVIOUS
<1> HIDE DEF rest, hd
<1>2. \A x : x \in ToSet(list) <=> \E i \in 1 .. n : x = list[i]
  BY ToSetMember, Zenon
<1>3. \A i, j \in 1 .. n : i < j => rank[list[j]] <= rank[list[i]]
  BY SortedMeaning, Zenon
<1>4. Sorted(rank, rest) <=>
        \A i, j \in 1 .. n - 1 : i < j => rank[rest[j]] <= rank[rest[i]]
  BY <1>1, SortedMeaning, Zenon
<1> HIDE DEF n
<1>5. \A i \in 1 .. n - 1 : i + 1 \in 1 .. n /\ rest[i] = list[i+1]
  BY <1>1
<1>6. 1 \in 1 .. n
  BY <1>1
<1>7. /\ hd \in ToSet(list)
       /\ hd \in T
       /\ ToSet(rest) = ToSet(list) \ {hd}
       /\ NoDuplicates(rest)
  BY TailCorrect, Zenon DEF rest, hd
<1>8. Sorted(rank, rest)
  <2>1. ASSUME NEW i \in 1 .. n - 1, NEW j \in 1 .. n - 1, i < j
        PROVE  rank[rest[j]] <= rank[rest[i]]
    <3>1. i + 1 < j + 1
      BY <1>1, <2>1
    <3> QED BY <1>3, <1>5, <3>1, Zenon
  <2> QED BY <1>4, <2>1, Zenon
<1>9. ASSUME NEW x \in ToSet(list) PROVE rank[x] <= rank[hd]
  <2>1. PICK i \in 1 .. n : x = list[i]
    BY <1>2
  <2>2. CASE i = 1
    <3>1. rank[hd] \in Int
      BY <1>7
    <3> QED BY <1>1, <2>1, <2>2, <3>1
  <2>3. CASE i # 1
    <3>1. 1 < i
      BY <1>1, <2>3
    <3> QED BY <1>1, <1>3, <1>6, <2>1, <3>1, Zenon
  <2> QED BY <2>2, <2>3
<1> QED BY <1>1, <1>7, <1>8, <1>9, Zenon DEF rest, hd

-----------------------------------------------------------------------------
(* The scheduler's operations.                                              *)

(* A ready list that fits the states st of the threads. *)
Fits(st, list) ==
  /\ list \in Seq(Thread)
  /\ NoDuplicates(list)
  /\ Sorted(priority, list)
  /\ \A x \in Thread : st[x] = "READY" <=> x \in ToSet(list)

(* Thread::setPriority keeps the priority in its range. *)
LEMMA ClampRange ==
  ASSUME NEW p \in Int
  PROVE  ClampPriority(p) \in 1 .. 7
BY DEF ClampPriority

(* The ready list fits the states of the threads. *)
LEMMA ReadyListFits ==
  ASSUME TypeOK, ReadyListConsistent
  PROVE  Fits(status, readyList)
BY DEF TypeOK, ReadyListConsistent, Fits

(* So it does after Scheduler::ReadyToRun of a thread that was not ready. *)
LEMMA ReadyToRunFits ==
  ASSUME TypeOK, ReadyListConsistent, NEW u \in Thread, status[u] # "READY"
  PROVE  /\ Fits([status EXCEPT ![u] = "READY"], Insert(priority, readyList, u))
         /\ Insert(priority, readyList, u) # <<>>
<1> DEFINE new == Insert(priority, readyList, u)
<1>1. priority \in [Thread -> Int] /\ readyList \in Seq(Thread)
  BY DEF TypeOK
<1>2. u \notin ToSet(readyList)
  BY DEF ReadyListConsistent
<1>3. /\ new \in Seq(Thread)
      /\ new # <<>>
      /\ ToSet(new) = ToSet(readyList) \cup {u}
      /\ NoDuplicates(new)
      /\ Sorted(priority, new)
  <2>1. NoDuplicates(readyList) /\ Sorted(priority, readyList)
    BY DEF ReadyListConsistent
  <2>2. /\ new \in Seq(Thread)
        /\ new # <<>>
        /\ ToSet(new) = ToSet(readyList) \cup {u}
        /\ NoDuplicates(readyList) /\ u \notin ToSet(readyList) => NoDuplicates(new)
        /\ Sorted(priority, readyList) => Sorted(priority, new)
    BY <1>1, InsertCorrect, Zenon
  <2> HIDE DEF new
  <2> QED BY <1>2, <2>1, <2>2
<1> HIDE DEF new
<1>4. \A x \in Thread : [status EXCEPT ![u] = "READY"][x] = "READY" <=> x \in ToSet(new)
  BY <1>3, Zenon DEF TypeOK, ReadyListConsistent
<1> QED BY <1>3, <1>4 DEF Fits, new

(* What Scheduler::Run dispatches: a READY thread, of the highest priority *)
(* there is, which is the only one to leave the ready list.                *)
LEMMA RunDispatches ==
  ASSUME TypeOK, NEW t \in Thread, NEW st \in [Thread -> Status], NEW list,
         NEW finishing \in BOOLEAN, Fits(st, list), list # <<>>,
         Run(t, st, list, finishing), priority' = priority
  PROVE  /\ currentThread' \in Thread
         /\ st[currentThread'] = "READY"
         /\ status' = [st EXCEPT ![currentThread'] = "RUNNING"]
         /\ readyList' \in Seq(Thread)
         /\ ReadyListConsistent'
         /\ status' \in [Thread -> Status]
         /\ toBeDestroyed' \in Thread \cup {NULL}
         /\ userRegisters' \in [Thread -> Thread \cup {NULL}]
         /\ \A x \in Thread : st[x] = "READY" => priority[x] <= priority[currentThread']
<1> DEFINE h == Head(list)
           r == Tail(list)
<1>1. currentThread' = h /\ readyList' = r /\ status' = [st EXCEPT ![h] = "RUNNING"]
  BY DEF Run
<1>2. priority \in [Thread -> Int]
  BY DEF TypeOK
<1>3. /\ h \in ToSet(list)
      /\ h \in Thread
      /\ r \in Seq(Thread)
      /\ ToSet(r) = ToSet(list) \ {h}
      /\ NoDuplicates(r)
      /\ Sorted(priority, r)
      /\ \A x \in ToSet(list) : priority[x] <= priority[h]
  BY <1>2, RemoveFrontCorrect, Zenon DEF Fits
<1> HIDE DEF h, r
<1>4. st[h] = "READY"
  BY <1>3 DEF Fits
<1>5. \A x \in Thread : status'[x] = "READY" <=> x \in ToSet(r)
  BY <1>1, <1>3 DEF Fits
<1>6. ReadyListConsistent'
  BY <1>1, <1>3, <1>5, Zenon DEF ReadyListConsistent
<1>7. \A x \in Thread : st[x] = "READY" => priority[x] <= priority[h]
  BY <1>3 DEF Fits
<1>8. status' \in [Thread -> Status]
  BY <1>1, Zenon DEF Status
<1>9. /\ toBeDestroyed' \in Thread \cup {NULL}
      /\ userRegisters' \in [Thread -> Thread \cup {NULL}]
  BY DEF Run, TypeOK
<1> QED BY <1>1, <1>3, <1>4, <1>6, <1>7, <1>8, <1>9, Zenon

(* A switch away from the current thread t, which is left at place q of its *)
(* code, by whichever routine, keeps SchedInv.                              *)
LEMMA SwitchSched ==
  ASSUME TypeOK, SchedInv, toBeDestroyed = NULL,
         NEW t \in Thread, t = currentThread,
         NEW st \in [Thread -> Status], NEW list, NEW finishing \in BOOLEAN,
         NEW q \in {"yield", "sleep", "finished"},
         Fits(st, list), list # <<>>,
         Run(t, st, list, finishing), priority' = priority,
         pc' = [pc EXCEPT ![t] = q],
         finishing <=> q = "finished",
         st[t] \in {"READY", "BLOCKED"}, st[t] = "READY" => q # "finished",
         \A x \in Thread \ {t} : st[x] = status[x],
         waiting' \subseteq waiting \cup {t},
         t \in waiting' => st[t] = "BLOCKED" /\ q = "sleep"
  PROVE  SchedInv'
<1>1. /\ currentThread' \in Thread
      /\ st[currentThread'] = "READY"
      /\ status' = [st EXCEPT ![currentThread'] = "RUNNING"]
      /\ ReadyListConsistent'
  BY RunDispatches, Zenon
<1>2. pc' \in [Thread -> PC] /\ pc'[t] = q /\ \A x \in Thread \ {t} : pc'[x] = pc[x]
  BY Zenon DEF TypeOK, PC
<1>3. pc'[currentThread'] \in {"fresh", "yield", "sleep"}
  <2>1. CASE currentThread' = t
    BY <1>1, <1>2, <2>1, Zenon
  <2>2. CASE currentThread' # t
    <3>1. status[currentThread'] = "READY" /\ pc'[currentThread'] = pc[currentThread']
      BY <1>1, <1>2, <2>2, Zenon
    <3> QED BY <1>1, <2>2, <3>1, Zenon DEF SchedInv, PlaceInv
  <2> QED BY <2>1, <2>2, Zenon
<1>4. \A x \in Thread : status'[x] = IF x = currentThread' THEN "RUNNING" ELSE st[x]
  BY <1>1
<1>5. PlaceInv'
  <2>1. \A x \in Thread \ {t} : pc[x] \in {"fresh", "yield", "sleep", "finished"}
    BY Zenon DEF SchedInv, PlaceInv
  <2>2. \A x \in Thread \ {currentThread'} :
          pc'[x] \in {"fresh", "yield", "sleep", "finished"}
    BY <1>2, <2>1, Zenon
  <2>3. \A x \in Thread : status'[x] = "RUNNING" => x = currentThread'
    BY <1>4, Zenon DEF SchedInv, PlaceInv
  <2>4. \A x \in Thread : status'[x] = "READY" => pc'[x] \in {"fresh", "yield", "sleep", "idle"}
    BY <1>2, <1>4 DEF SchedInv, PlaceInv
  <2>5. \A x \in Thread : status'[x] \in {"FREE", "JUST_CREATED"} =>
                            pc'[x] \in {"fresh", "finished"}
    BY <1>2, <1>4 DEF SchedInv, PlaceInv
  <2>6. status'[currentThread'] = "RUNNING"
    BY <1>1, <1>4, Zenon
  <2> QED BY <1>3, <2>2, <2>3, <2>4, <2>5, <2>6, Zenon DEF PlaceInv
<1>6. WaitInv'
  <2>1. \A x \in waiting' : x \in Thread /\ st[x] = "BLOCKED"
    BY Zenon DEF SchedInv, WaitInv, TypeOK
  <2>2. \A x \in waiting' : pc'[x] \in {"sleep", "idle"}
    BY <1>2, <2>1, Zenon DEF SchedInv, WaitInv
  <2>3. \A x \in waiting' : status'[x] = "BLOCKED"
    BY <1>1, <1>4, <2>1, Zenon
  <2> QED BY <2>2, <2>3, Zenon DEF WaitInv
<1>7. DestroyInv'
  <2>1. CASE finishing
    <3>1. toBeDestroyed' = t /\ st[t] = "BLOCKED"
      BY <2>1 DEF Run
    <3> QED BY <1>1, <1>2, <1>3, <1>4, <2>1, <3>1, Zenon DEF DestroyInv
  <2>2. CASE ~ finishing
    <3>1. toBeDestroyed' = NULL
      BY <2>2 DEF Run
    <3> QED BY <3>1 DEF DestroyInv
  <2> QED BY <2>1, <2>2
<1> QED BY <1>1, <1>5, <1>6, <1>7, Zenon DEF SchedInv

(* Thread::Yield, called by the thread or by OneTick, keeps SchedInv. *)
LEMMA YieldSched ==
  ASSUME TypeOK, SchedInv, NEW t \in Thread, t = currentThread,
         pc[t] \in {"run", "tick"},
         Run(t, [status EXCEPT ![t] = "READY"], Insert(priority, readyList, t), FALSE),
         priority' = priority, waiting' = waiting, pc' = [pc EXCEPT ![t] = "yield"]
  PROVE  SchedInv'
<1> DEFINE st == [status EXCEPT ![t] = "READY"]
           list == Insert(priority, readyList, t)
<1>1. status[t] = "RUNNING" /\ toBeDestroyed = NULL /\ t \notin waiting
  BY DEF SchedInv, PlaceInv, DestroyInv, WaitInv
<1>2. Fits(st, list) /\ list # <<>>
  BY <1>1, ReadyToRunFits, Zenon DEF SchedInv
<1>3. st \in [Thread -> Status] /\ st[t] = "READY" /\ \A x \in Thread \ {t} : st[x] = status[x]
  BY DEF TypeOK, Status
<1>4. Run(t, st, list, FALSE)
  BY Zenon
<1> HIDE DEF st, list
<1> QED BY <1>1, <1>2, <1>3, <1>4, SwitchSched, Zenon

(* Thread::Sleep of a thread that runs keeps SchedInv, whether it switches *)
(* or idles.                                                               *)
LEMMA SleepSched ==
  ASSUME TypeOK, SchedInv, NEW t \in Thread, t = currentThread,
         pc[t] \in {"run", "woken"}, NEW finishing \in BOOLEAN, NEW old,
         Sleep(t, finishing, old),
         waiting' = IF finishing THEN waiting ELSE waiting \cup {t}
  PROVE  SchedInv'
<1> DEFINE st == [status EXCEPT ![t] = "BLOCKED"]
           q == IF finishing THEN "finished" ELSE "sleep"
<1>1. status[t] = "RUNNING" /\ toBeDestroyed = NULL /\ t \notin waiting
  BY DEF SchedInv, PlaceInv, DestroyInv, WaitInv
<1>2. st \in [Thread -> Status] /\ st[t] = "BLOCKED" /\ \A x \in Thread \ {t} : st[x] = status[x]
  BY DEF TypeOK, Status
<1>3. Fits(st, readyList)
  BY <1>1, <1>2, ReadyListFits, Zenon DEF SchedInv, Fits
<1>4. priority' = priority
  BY DEF Sleep
<1>5. CASE readyList # <<>>
  <2>1. Run(t, st, readyList, finishing) /\ pc' = [pc EXCEPT ![t] = q]
    BY <1>5 DEF Sleep
  <2>2. q \in {"yield", "sleep", "finished"} /\ (finishing <=> q = "finished")
    OBVIOUS
  <2>3. waiting' \subseteq waiting \cup {t} /\ (t \in waiting' => q = "sleep")
    BY <1>1
  <2> HIDE DEF st, q
  <2> QED BY <1>1, <1>2, <1>3, <1>4, <1>5, <2>1, <2>2, <2>3, SwitchSched, Zenon
<1>6. CASE readyList = <<>>
  <2>1. /\ status' = st
        /\ pc' = [pc EXCEPT ![t] = IF finishing THEN "finishIdle" ELSE "idle"]
        /\ readyList' = readyList
        /\ currentThread' = currentThread
        /\ toBeDestroyed' = NULL
    BY <1>1, <1>6, Zenon DEF Sleep, schedVars
  <2>2. ReadyListConsistent'
    BY <1>2, <1>3, <1>4, <2>1, Zenon DEF Fits, ReadyListConsistent
  <2>3. PlaceInv'
    BY <1>1, <1>2, <2>1 DEF SchedInv, PlaceInv, TypeOK
  <2>4. WaitInv'
    BY <1>1, <1>2, <2>1 DEF SchedInv, WaitInv, TypeOK
  <2>5. DestroyInv'
    BY <2>1 DEF DestroyInv
  <2> QED BY <2>2, <2>3, <2>4, <2>5 DEF SchedInv
<1> QED BY <1>5, <1>6

(* Scheduler::ReadyToRun of a thread that is forked or woken, with the steps *)
(* of the caller on its own stack.                                           *)
LEMMA ReadySched ==
  ASSUME TypeOK, SchedInv, NEW u \in Thread,
         \/ status[u] = "JUST_CREATED" /\ pc'[u] = "fresh"
         \/ u \in waiting /\ pc'[u] = pc[u],
         status' = [status EXCEPT ![u] = "READY"],
         readyList' = Insert(priority, readyList, u),
         pc' \in [Thread -> PC],
         \A x \in Thread \ {u, currentThread} : pc'[x] = pc[x],
         pc'[currentThread] = pc[currentThread] \/
           (pc[currentThread] = "run" /\ pc'[currentThread] \in {"run", "tick"}),
         waiting' = waiting \ {u}, priority' = priority,
         currentThread' = currentThread, toBeDestroyed' = toBeDestroyed,
         pc[currentThread] \in {"run", "tick", "idle", "finishIdle"}
  PROVE  SchedInv'
<1>1. toBeDestroyed = NULL /\ status[u] # "READY"
  BY DEF SchedInv, DestroyInv, WaitInv
<1>2. ReadyListConsistent'
  <2>1. Fits(status', readyList')
    BY <1>1, ReadyToRunFits, Zenon DEF SchedInv
  <2> QED BY <2>1, Zenon DEF Fits, ReadyListConsistent
<1>3. \A x \in Thread : status'[x] = IF x = u THEN "READY" ELSE status[x]
  BY Zenon DEF TypeOK
<1>4. PlaceInv'
  <2>1. /\ status[u] \in {"JUST_CREATED", "BLOCKED"}
        /\ pc'[u] \in {"fresh", "sleep", "idle"}
        /\ u = currentThread => pc[u] = "idle"
    BY Zenon DEF SchedInv, PlaceInv, WaitInv
  <2>2. currentThread \in Thread
    BY DEF TypeOK
  <2> QED BY <1>3, <2>1, <2>2 DEF SchedInv, PlaceInv
<1>5. WaitInv'
  BY <1>3, Zenon DEF SchedInv, WaitInv, PlaceInv, TypeOK
<1>6. DestroyInv'
  BY <1>1 DEF DestroyInv
<1> QED BY <1>2, <1>4, <1>5, <1>6, Zenon DEF SchedInv

(* A new thread, which is on no list, may have any priority. *)
LEMMA ConstructSorted ==
  ASSUME TypeOK, ReadyListConsistent, NEW u \in Thread, status[u] # "READY",
         priority' \in [Thread -> Int],
         \A x \in Thread \ {u} : priority'[x] = priority[x]
  PROVE  Sorted(priority', readyList)
<1>1. \A i \in 1 .. Len(readyList) : readyList[i] \in Thread /\ readyList[i] # u
  <2>1. \A i \in 1 .. Len(readyList) : readyList[i] \in Thread
    BY DEF TypeOK
  <2>2. u \notin ToSet(readyList)
    BY DEF ReadyListConsistent
  <2>3. \A i \in 1 .. Len(readyList) : readyList[i] \in ToSet(readyList)
    BY ToSetMember, Zenon DEF TypeOK
  <2> QED BY <2>1, <2>2, <2>3, Zenon
<1>2. \A i, j \in 1 .. Len(readyList) :
        Compare(priority', readyList[i], readyList[j])
          = Compare(priority, readyList[i], readyList[j])
  BY <1>1, Zenon DEF Compare
<1> QED BY <1>2, Zenon DEF Sorted, ReadyListConsistent

(* Every step keeps SchedInv. *)
LEMMA SchedStep ==
  ASSUME TypeOK, SchedInv, [Next]_vars
  PROVE  SchedInv'
<1>1. ASSUME NEW t \in Thread, NEW u \in Thread, NEW p \in PriorityArgs, New(t, u, p) PROVE SchedInv'
  <2>1. priority' \in [Thread -> Int]
    BY <1>1, ClampRange, ThreadAssumption DEF New, Construct, TypeOK,
       ThreadAssumption
  <2>2. Sorted(priority', readyList)
    BY <1>1, <2>1, ConstructSorted, Zenon DEF New, Construct, SchedInv, TypeOK
  <2>3. ReadyListConsistent'
    BY <1>1, <2>2, Zenon DEF New, Construct, schedVars, SchedInv,
       ReadyListConsistent, TypeOK
  <2>4. PlaceInv' /\ WaitInv' /\ DestroyInv'
    BY <1>1 DEF New, Construct, Runs, schedVars, stackVars, SchedInv,
       PlaceInv, WaitInv, DestroyInv, TypeOK
  <2> QED BY <2>3, <2>4 DEF SchedInv
<1>2. ASSUME NEW t \in Thread, NewAborts(t) PROVE SchedInv'
  BY <1>2 DEF NewAborts, Runs, threadVars, schedVars, stackVars, SchedInv,
     ReadyListConsistent, PlaceInv, WaitInv, DestroyInv, TypeOK
<1>3. ASSUME NEW t \in Thread, NEW u \in Thread, NewDefault(t, u) PROVE SchedInv'
  <2>1. priority' \in [Thread -> Int]
    BY <1>3 DEF NewDefault, Construct, ClampPriority, TypeOK
  <2>2. Sorted(priority', readyList)
    BY <1>3, <2>1, ConstructSorted, Zenon DEF NewDefault, Construct, SchedInv,
       TypeOK
  <2>3. ReadyListConsistent'
    BY <1>3, <2>2, Zenon DEF NewDefault, Construct, schedVars, SchedInv,
       ReadyListConsistent, TypeOK
  <2>4. PlaceInv' /\ WaitInv' /\ DestroyInv'
    BY <1>3 DEF NewDefault, Construct, Runs, schedVars, stackVars, SchedInv,
       PlaceInv, WaitInv, DestroyInv, TypeOK
  <2> QED BY <2>3, <2>4 DEF SchedInv
<1>4. ASSUME NEW t \in Thread, NEW u \in Thread, Fork(t, u) PROVE SchedInv'
  <2>1. pc' \in [Thread -> PC]
    BY <1>4, Zenon DEF Fork, Runs, stackVars, TypeOK, PC
  <2>2. u # currentThread \/ pc[currentThread] = "idle"
    BY <1>4, Zenon DEF Fork, Runs, SchedInv, PlaceInv, WaitInv
  <2>3. waiting' = waiting \ {u}
    BY <1>4, Zenon DEF Fork, Runs, SchedInv, WaitInv
  <2> QED
    BY <1>4, <2>1, <2>2, <2>3, ReadySched, Zenon DEF Fork, Runs, stackVars, TypeOK
<1>5. ASSUME NEW t \in Thread, Yield(t) PROVE SchedInv'
  BY <1>5, YieldSched, Zenon DEF Yield, Runs
<1>6. ASSUME NEW t \in Thread, Call(t) PROVE SchedInv'
  BY <1>6 DEF Call, InKernel, Runs, RestoreLevel, threadVars, schedVars,
     stackVars, SchedInv, ReadyListConsistent, PlaceInv, WaitInv,
     DestroyInv, TypeOK
<1>7. ASSUME NEW t \in Thread, Block(t) PROVE SchedInv'
  BY <1>7, SleepSched, Zenon DEF Block, InKernel, Runs
<1>8. ASSUME NEW t \in Thread, NEW u \in Thread, Wake(t, u) PROVE SchedInv'
  <2>1. pc' \in [Thread -> PC]
    BY <1>8, Zenon DEF Wake, InKernel, Runs, RestoreLevel, stackVars, TypeOK, PC
  <2>2. u # currentThread \/ pc[currentThread] = "idle"
    BY <1>8, Zenon DEF Wake, InKernel, Runs, RestoreLevel, SchedInv, PlaceInv,
       WaitInv
  <2>3. waiting' = waiting \ {u}
    BY <1>8 DEF Wake, InKernel, Runs, RestoreLevel, SchedInv, WaitInv
  <2> QED
    BY <1>8, <2>1, <2>2, <2>3, ReadySched, Zenon DEF Wake, InKernel, Runs,
       RestoreLevel, stackVars, TypeOK
<1>9. ASSUME NEW t \in Thread, Finish(t) PROVE SchedInv'
  BY <1>9, SleepSched, Zenon DEF Finish, Runs
<1>10. ASSUME NEW t \in Thread, Halt(t) PROVE SchedInv'
  BY <1>10 DEF Halt, Runs, threadVars, schedVars, stackVars, SchedInv,
     ReadyListConsistent, PlaceInv, WaitInv, DestroyInv, TypeOK
<1>11. ASSUME NEW t \in Thread, Begin(t) PROVE SchedInv'
  <2>1. ReadyListConsistent'
    BY <1>11, Zenon DEF Begin, CheckToBeDestroyed, SchedInv, ReadyListConsistent,
       DestroyInv, TypeOK
  <2>2. PlaceInv' /\ WaitInv' /\ DestroyInv'
    BY <1>11, ThreadAssumption DEF Begin, CheckToBeDestroyed, RestoreLevel,
       SchedInv, PlaceInv, WaitInv, DestroyInv, TypeOK
  <2> QED BY <2>1, <2>2 DEF SchedInv
<1>12. ASSUME NEW t \in Thread, YieldReturns(t) PROVE SchedInv'
  <2>1. ReadyListConsistent'
    BY <1>12, Zenon DEF YieldReturns, CheckToBeDestroyed, SchedInv,
       ReadyListConsistent, DestroyInv, TypeOK
  <2>2. PlaceInv' /\ WaitInv' /\ DestroyInv'
    BY <1>12, ThreadAssumption DEF YieldReturns, CheckToBeDestroyed,
       RestoreLevel, SchedInv, PlaceInv, WaitInv, DestroyInv, TypeOK
  <2> QED BY <2>1, <2>2 DEF SchedInv
<1>13. ASSUME NEW t \in Thread, SleepReturns(t) PROVE SchedInv'
  <2>1. ReadyListConsistent'
    BY <1>13, Zenon DEF SleepReturns, CheckToBeDestroyed, SchedInv,
       ReadyListConsistent, DestroyInv, TypeOK
  <2>2. PlaceInv' /\ WaitInv' /\ DestroyInv'
    BY <1>13, ThreadAssumption DEF SleepReturns, CheckToBeDestroyed,
       SchedInv, PlaceInv, WaitInv, DestroyInv, TypeOK
  <2> QED BY <2>1, <2>2 DEF SchedInv
<1>14. ASSUME NEW t \in Thread, BlockAgain(t) PROVE SchedInv'
  BY <1>14, SleepSched, Zenon DEF BlockAgain
<1>15. ASSUME NEW t \in Thread, PReturns(t) PROVE SchedInv'
  BY <1>15 DEF PReturns, RestoreLevel, threadVars, schedVars, stackVars,
     SchedInv, ReadyListConsistent, PlaceInv, WaitInv, DestroyInv, TypeOK
<1>16. ASSUME NEW t \in Thread, TimerInterrupt(t) PROVE SchedInv'
  BY <1>16, Zenon DEF TimerInterrupt, MayInterrupt, threadVars, schedVars,
     stackVars, SchedInv, ReadyListConsistent, PlaceInv, WaitInv,
     DestroyInv, TypeOK
<1>17. ASSUME NEW t \in Thread, NEW u \in Thread, DeviceInterrupt(t, u) PROVE SchedInv'
  <2>1. pc' \in [Thread -> PC]
    BY <1>17, Zenon DEF DeviceInterrupt, MayInterrupt, stackVars, TypeOK, PC
  <2>2. u # currentThread \/ pc[currentThread] = "idle"
    BY <1>17, Zenon DEF DeviceInterrupt, MayInterrupt, SchedInv, PlaceInv, WaitInv
  <2>3. waiting' = waiting \ {u}
    BY <1>17, Zenon DEF DeviceInterrupt
  <2> QED
    BY <1>17, <2>1, <2>2, <2>3, ReadySched, Zenon DEF DeviceInterrupt,
       MayInterrupt, stackVars, TypeOK
<1>18. ASSUME NEW t \in Thread, DeviceInterruptNoWaiter(t) PROVE SchedInv'
  BY <1>18, Zenon DEF DeviceInterruptNoWaiter, MayInterrupt, threadVars, schedVars,
     stackVars, SchedInv, ReadyListConsistent, PlaceInv, WaitInv,
     DestroyInv, TypeOK
<1>19. ASSUME NEW t \in Thread, TickYields(t) PROVE SchedInv'
  BY <1>19, YieldSched, Zenon DEF TickYields
<1>20. ASSUME NEW t \in Thread, TickReturns(t) PROVE SchedInv'
  BY <1>20 DEF TickReturns, threadVars, schedVars, stackVars, SchedInv,
     ReadyListConsistent, PlaceInv, WaitInv, DestroyInv, TypeOK
<1>21. ASSUME NEW t \in Thread, IdleEnds(t) PROVE SchedInv'
  <2> DEFINE q == IF pc[t] = "finishIdle" THEN "finished" ELSE "sleep"
             fin == (pc[t] = "finishIdle")
  <2>1. /\ t = currentThread
        /\ Run(t, status, readyList, fin)
        /\ pc' = [pc EXCEPT ![t] = q]
        /\ priority' = priority
        /\ waiting' = waiting
        /\ readyList # <<>>
    BY <1>21 DEF IdleEnds
  <2>2. /\ toBeDestroyed = NULL
        /\ status[t] \in {"READY", "BLOCKED"}
        /\ status[t] = "READY" => q # "finished"
        /\ t \in waiting => status[t] = "BLOCKED" /\ q = "sleep"
    BY <1>21, Zenon DEF IdleEnds, SchedInv, PlaceInv, WaitInv, DestroyInv
  <2>3. /\ q \in {"yield", "sleep", "finished"}
        /\ fin \in BOOLEAN
        /\ fin <=> q = "finished"
    OBVIOUS
  <2>4. Fits(status, readyList) /\ status \in [Thread -> Status]
    BY ReadyListFits, Zenon DEF SchedInv, TypeOK
  <2> HIDE DEF q, fin
  <2> QED BY <2>1, <2>2, <2>3, <2>4, SwitchSched, Zenon
<1>22. ASSUME NEW t \in Thread, IdleAgain(t) PROVE SchedInv'
  BY <1>22, Zenon DEF IdleAgain, threadVars, schedVars, stackVars, SchedInv,
     ReadyListConsistent, PlaceInv, WaitInv, DestroyInv, TypeOK
<1>23. ASSUME NEW t \in Thread, Execute(t) PROVE SchedInv'
  BY <1>23, Zenon DEF Execute, Runs, threadVars, schedVars, stackVars, SchedInv,
     ReadyListConsistent, PlaceInv, WaitInv, DestroyInv, TypeOK
<1>24. ASSUME NEW t \in Thread, UserInstruction(t) PROVE SchedInv'
  BY <1>24 DEF UserInstruction, Runs, threadVars, schedVars, stackVars,
     SchedInv, ReadyListConsistent, PlaceInv, WaitInv, DestroyInv, TypeOK
<1>25. ASSUME NEW t \in Thread, RaiseException(t) PROVE SchedInv'
  BY <1>25 DEF RaiseException, Enter, Runs, threadVars, schedVars,
     stackVars, SchedInv, ReadyListConsistent, PlaceInv, WaitInv,
     DestroyInv, TypeOK
<1>26. ASSUME NEW t \in Thread, FaultReturns(t) PROVE SchedInv'
  BY <1>26, Zenon DEF FaultReturns, Runs, threadVars, schedVars, stackVars,
     SchedInv, ReadyListConsistent, PlaceInv, WaitInv, DestroyInv, TypeOK
<1>27. ASSUME NEW t \in Thread, SyscallReturns(t) PROVE SchedInv'
  BY <1>27 DEF SyscallReturns, Runs, threadVars, schedVars, stackVars,
     SchedInv, ReadyListConsistent, PlaceInv, WaitInv, DestroyInv, TypeOK
<1>28. ASSUME NEW t \in Thread, UnexpectedException(t) PROVE SchedInv'
  BY <1>28 DEF UnexpectedException, Runs, threadVars, schedVars, stackVars,
     SchedInv, ReadyListConsistent, PlaceInv, WaitInv, DestroyInv, TypeOK
<1>29. CASE UNCHANGED vars
  BY <1>29, Zenon DEF vars, threadVars, schedVars, intVars, stackVars, userVars,
     SchedInv, ReadyListConsistent, PlaceInv, WaitInv, DestroyInv, TypeOK
<1> QED
  BY <1>1, <1>2, <1>3, <1>4, <1>5, <1>6, <1>7, <1>8, <1>9, <1>10, <1>11,
     <1>12, <1>13, <1>14, <1>15, <1>16, <1>17, <1>18, <1>19, <1>20, <1>21,
     <1>22, <1>23, <1>24, <1>25, <1>26, <1>27, <1>28, <1>29 DEF Next,
     ThreadStep, SwitchStep, InterruptStep, UserStep, Stopped

-----------------------------------------------------------------------------
(* Types.                                                                   *)

(* Thread::Sleep keeps the types. *)
LEMMA SleepType ==
  ASSUME TypeOK, SchedInv, NEW t \in Thread, t = currentThread,
         pc[t] \in {"run", "woken"}, NEW finishing \in BOOLEAN,
         NEW old \in {"IntOn", "IntOff"}, Sleep(t, finishing, old),
         waiting' \subseteq Thread
  PROVE  TypeOK'
<1> DEFINE st == [status EXCEPT ![t] = "BLOCKED"]
<1>1. st \in [Thread -> Status]
  BY DEF TypeOK, Status
<1>2. Fits(st, readyList)
  BY ReadyListFits, Zenon DEF SchedInv, PlaceInv, Fits, TypeOK
<1>3. priority' = priority
  BY DEF Sleep
<1>4. CASE readyList # <<>>
  <2>1. Run(t, st, readyList, finishing)
    BY <1>4 DEF Sleep
  <2> HIDE DEF st
  <2>2. /\ currentThread' \in Thread
        /\ status' \in [Thread -> Status]
        /\ readyList' \in Seq(Thread)
        /\ toBeDestroyed' \in Thread \cup {NULL}
        /\ userRegisters' \in [Thread -> Thread \cup {NULL}]
    BY <1>1, <1>2, <1>3, <1>4, <2>1, RunDispatches, Zenon
  <2>3. space' = space /\ regs' = regs /\ pageTable' = pageTable
    BY <2>1 DEF Run
  <2>4. pc' \in [Thread -> PC] /\ machineStatus' = machineStatus
    BY <1>4, Zenon DEF Sleep, TypeOK, PC
  <2> QED BY <2>2, <2>3, <2>4, Zenon DEF Sleep, TypeOK
<1>5. CASE readyList = <<>>
  BY <1>1, <1>5, Zenon DEF Sleep, schedVars, userVars, TypeOK, PC, MachineStatus
<1> QED BY <1>4, <1>5

(* Every step keeps the types. *)
LEMMA TypeStep ==
  ASSUME TypeOK, SchedInv, [Next]_vars
  PROVE  TypeOK'
<1>1. ASSUME NEW t \in Thread, NEW u \in Thread, NEW p \in PriorityArgs, New(t, u, p) PROVE TypeOK'
  BY <1>1, ClampRange, ThreadAssumption DEF New, Runs, Construct,
     ThreadAssumption, threadVars, schedVars, intVars, stackVars, userVars,
     PC, Frame, Status, MachineStatus, TypeOK
<1>2. ASSUME NEW t \in Thread, NewAborts(t) PROVE TypeOK'
  BY <1>2 DEF NewAborts, Runs, threadVars, schedVars, intVars, stackVars,
     userVars, PC, Frame, Status, MachineStatus, TypeOK
<1>3. ASSUME NEW t \in Thread, NEW u \in Thread, NewDefault(t, u) PROVE TypeOK'
  BY <1>3 DEF NewDefault, Runs, Construct, ClampPriority, threadVars,
     schedVars, intVars, stackVars, userVars, PC, Frame, Status,
     MachineStatus, TypeOK
<1>4. ASSUME NEW t \in Thread, NEW u \in Thread, Fork(t, u) PROVE TypeOK'
  <2>1. readyList' \in Seq(Thread)
    BY <1>4, ReadyToRunFits, Zenon DEF Fork, SchedInv, WaitInv, Fits
  <2> QED
    BY <1>4, <2>1, Zenon DEF Fork, Runs, threadVars, schedVars, intVars, stackVars,
       userVars, PC, Frame, Status, TypeOK
<1>5. ASSUME NEW t \in Thread, Yield(t) PROVE TypeOK'
  <2> DEFINE st == [status EXCEPT ![t] = "READY"]
             list == Insert(priority, readyList, t)
  <2>1. st \in [Thread -> Status]
    BY DEF TypeOK, Status
  <2>2. Fits(st, list) /\ list # <<>>
    BY <1>5, ReadyToRunFits, Zenon DEF Yield, Runs, SchedInv, PlaceInv
  <2>3. Run(t, st, list, FALSE) /\ priority' = priority
    BY <1>5, Zenon DEF Yield
  <2> HIDE DEF st, list
  <2>4. /\ currentThread' \in Thread
        /\ status' \in [Thread -> Status]
        /\ readyList' \in Seq(Thread)
        /\ toBeDestroyed' \in Thread \cup {NULL}
        /\ userRegisters' \in [Thread -> Thread \cup {NULL}]
    BY <2>1, <2>2, <2>3, RunDispatches, Zenon
  <2>5. space' = space /\ regs' = regs /\ pageTable' = pageTable
    BY <2>3 DEF Run
  <2> QED
    BY <1>5, <2>4, <2>5, Zenon DEF Yield, TypeOK, PC, MachineStatus
<1>6. ASSUME NEW t \in Thread, Call(t) PROVE TypeOK'
  BY <1>6, Zenon DEF Call, InKernel, Runs, RestoreLevel, threadVars, schedVars,
     intVars, stackVars, userVars, PC, Frame, Status, MachineStatus, TypeOK
<1>7. ASSUME NEW t \in Thread, Block(t) PROVE TypeOK'
  BY <1>7, SleepType, Zenon DEF Block, InKernel, Runs, TypeOK
<1>8. ASSUME NEW t \in Thread, NEW u \in Thread, Wake(t, u) PROVE TypeOK'
  <2>1. readyList' \in Seq(Thread)
    BY <1>8, ReadyToRunFits, Zenon DEF Wake, SchedInv, WaitInv, Fits
  <2> QED
    BY <1>8, <2>1, Zenon DEF Wake, InKernel, Runs, RestoreLevel, threadVars,
       schedVars, intVars, stackVars, userVars, PC, Frame, Status, TypeOK
<1>9. ASSUME NEW t \in Thread, Finish(t) PROVE TypeOK'
  BY <1>9, SleepType, Zenon DEF Finish, Runs, TypeOK
<1>10. ASSUME NEW t \in Thread, Halt(t) PROVE TypeOK'
  BY <1>10, Zenon DEF Halt, Runs, threadVars, schedVars, intVars, stackVars,
     userVars, PC, Frame, Status, MachineStatus, TypeOK
<1>11. ASSUME NEW t \in Thread, Begin(t) PROVE TypeOK'
  BY <1>11, Zenon DEF Begin, CheckToBeDestroyed, RestoreLevel, threadVars,
     schedVars, intVars, stackVars, userVars, PC, Frame, Status,
     MachineStatus, TypeOK
<1>12. ASSUME NEW t \in Thread, YieldReturns(t) PROVE TypeOK'
  BY <1>12, Zenon DEF YieldReturns, CheckToBeDestroyed, RestoreUserState,
     RestoreLevel, threadVars, schedVars, intVars, stackVars, userVars, PC,
     Frame, Status, MachineStatus, TypeOK
<1>13. ASSUME NEW t \in Thread, SleepReturns(t) PROVE TypeOK'
  BY <1>13, Zenon DEF SleepReturns, CheckToBeDestroyed, RestoreUserState,
     threadVars, schedVars, intVars, stackVars, userVars, PC, Frame, Status,
     MachineStatus, TypeOK
<1>14. ASSUME NEW t \in Thread, BlockAgain(t) PROVE TypeOK'
  BY <1>14, SleepType, Zenon DEF BlockAgain, TypeOK
<1>15. ASSUME NEW t \in Thread, PReturns(t) PROVE TypeOK'
  BY <1>15, Zenon DEF PReturns, RestoreLevel, threadVars, schedVars, intVars,
     stackVars, userVars, PC, Frame, Status, MachineStatus, TypeOK
<1>16. ASSUME NEW t \in Thread, TimerInterrupt(t) PROVE TypeOK'
  BY <1>16, Zenon DEF TimerInterrupt, MayInterrupt, threadVars, schedVars, intVars,
     stackVars, userVars, PC, Frame, Status, MachineStatus, TypeOK
<1>17. ASSUME NEW t \in Thread, NEW u \in Thread, DeviceInterrupt(t, u) PROVE TypeOK'
  <2>1. readyList' \in Seq(Thread)
    BY <1>17, ReadyToRunFits, Zenon DEF DeviceInterrupt, SchedInv, WaitInv, Fits
  <2> QED
    BY <1>17, <2>1, Zenon DEF DeviceInterrupt, MayInterrupt, threadVars, schedVars,
       intVars, stackVars, userVars, PC, Frame, Status, TypeOK
<1>18. ASSUME NEW t \in Thread, DeviceInterruptNoWaiter(t) PROVE TypeOK'
  BY <1>18, Zenon DEF DeviceInterruptNoWaiter, MayInterrupt, threadVars, schedVars,
     intVars, stackVars, userVars, PC, Frame, Status, MachineStatus, TypeOK
<1>19. ASSUME NEW t \in Thread, TickYields(t) PROVE TypeOK'
  <2> DEFINE st == [status EXCEPT ![t] = "READY"]
             list == Insert(priority, readyList, t)
  <2>1. st \in [Thread -> Status]
    BY DEF TypeOK, Status
  <2>2. Fits(st, list) /\ list # <<>>
    BY <1>19, ReadyToRunFits, Zenon DEF TickYields, SchedInv, PlaceInv
  <2>3. Run(t, st, list, FALSE) /\ priority' = priority
    BY <1>19, Zenon DEF TickYields
  <2> HIDE DEF st, list
  <2>4. /\ currentThread' \in Thread
        /\ status' \in [Thread -> Status]
        /\ readyList' \in Seq(Thread)
        /\ toBeDestroyed' \in Thread \cup {NULL}
        /\ userRegisters' \in [Thread -> Thread \cup {NULL}]
    BY <2>1, <2>2, <2>3, RunDispatches, Zenon
  <2>5. space' = space /\ regs' = regs /\ pageTable' = pageTable
    BY <2>3 DEF Run
  <2> QED
    BY <1>19, <2>4, <2>5, Zenon DEF TickYields, TypeOK, PC, MachineStatus
<1>20. ASSUME NEW t \in Thread, TickReturns(t) PROVE TypeOK'
  BY <1>20, Zenon DEF TickReturns, threadVars, schedVars, intVars, stackVars,
     userVars, PC, Frame, Status, MachineStatus, TypeOK
<1>21. ASSUME NEW t \in Thread, IdleEnds(t) PROVE TypeOK'
  <2> DEFINE fin == (pc[t] = "finishIdle")
  <2>1. Run(t, status, readyList, fin) /\ priority' = priority /\ readyList # <<>>
    BY <1>21 DEF IdleEnds
  <2>2. fin \in BOOLEAN
    OBVIOUS
  <2> HIDE DEF fin
  <2>3. Fits(status, readyList) /\ status \in [Thread -> Status]
    BY ReadyListFits, Zenon DEF SchedInv, TypeOK
  <2>4. /\ currentThread' \in Thread
        /\ status' \in [Thread -> Status]
        /\ readyList' \in Seq(Thread)
        /\ toBeDestroyed' \in Thread \cup {NULL}
        /\ userRegisters' \in [Thread -> Thread \cup {NULL}]
    BY <2>1, <2>2, <2>3, RunDispatches, Zenon
  <2>5. space' = space /\ regs' = regs /\ pageTable' = pageTable
    BY <2>1 DEF Run
  <2> QED
    BY <1>21, <2>4, <2>5, Zenon DEF IdleEnds, TypeOK, PC, MachineStatus
<1>22. ASSUME NEW t \in Thread, IdleAgain(t) PROVE TypeOK'
  BY <1>22, Zenon DEF IdleAgain, threadVars, schedVars, intVars, stackVars,
     userVars, PC, Frame, Status, MachineStatus, TypeOK
<1>23. ASSUME NEW t \in Thread, Execute(t) PROVE TypeOK'
  BY <1>23, Zenon DEF Execute, Runs, threadVars, schedVars, intVars, stackVars,
     userVars, PC, Frame, Status, MachineStatus, TypeOK
<1>24. ASSUME NEW t \in Thread, UserInstruction(t) PROVE TypeOK'
  BY <1>24, Zenon DEF UserInstruction, Runs, threadVars, schedVars, intVars,
     stackVars, userVars, PC, Frame, Status, MachineStatus, TypeOK
<1>25. ASSUME NEW t \in Thread, RaiseException(t) PROVE TypeOK'
  BY <1>25 DEF RaiseException, Enter, Runs, threadVars, schedVars, intVars,
     stackVars, userVars, PC, Frame, Status, MachineStatus, TypeOK
<1>26. ASSUME NEW t \in Thread, FaultReturns(t) PROVE TypeOK'
  BY <1>26, Zenon DEF FaultReturns, Runs, threadVars, schedVars, intVars,
     stackVars, userVars, PC, Frame, Status, MachineStatus, TypeOK
<1>27. ASSUME NEW t \in Thread, SyscallReturns(t) PROVE TypeOK'
  BY <1>27, Zenon DEF SyscallReturns, Runs, threadVars, schedVars, intVars,
     stackVars, userVars, PC, Frame, Status, MachineStatus, TypeOK
<1>28. ASSUME NEW t \in Thread, UnexpectedException(t) PROVE TypeOK'
  BY <1>28, Zenon DEF UnexpectedException, Runs, threadVars, schedVars, intVars,
     stackVars, userVars, PC, Frame, Status, MachineStatus, TypeOK
<1>29. CASE UNCHANGED vars
  BY <1>29, Zenon DEF vars, threadVars, schedVars, intVars, stackVars, userVars,
     TypeOK
<1> QED
  BY <1>1, <1>2, <1>3, <1>4, <1>5, <1>6, <1>7, <1>8, <1>9, <1>10, <1>11,
     <1>12, <1>13, <1>14, <1>15, <1>16, <1>17, <1>18, <1>19, <1>20, <1>21,
     <1>22, <1>23, <1>24, <1>25, <1>26, <1>27, <1>28, <1>29 DEF Next,
     ThreadStep, SwitchStep, InterruptStep, UserStep, Stopped
=============================================================================
