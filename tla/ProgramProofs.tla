--------------------------- MODULE ProgramProofs ----------------------------
(***************************************************************************)
(* Proofs about Paging, for every number and size of the pages, every      *)
(* program that fits and every sequence of accesses.                       *)
(*                                                                         *)
(* PagingInv is the inductive invariant.  What it needs besides the two    *)
(* properties is UseInv: page faults take frames from the space that does  *)
(* not run, so that no dirty page loses its frame.                         *)
(***************************************************************************)
EXTENDS Paging, TLAPS

-----------------------------------------------------------------------------
(* Division. *)

(* Division with remainder. *)
LEMMA DivMod ==
  ASSUME NEW n \in Nat, NEW R \in Nat, R > 0
  PROVE  n \div R \in Nat /\ n % R \in 0 .. R-1 /\ n = (n \div R) * R + (n % R)
OBVIOUS

(* Multiplication by a positive number keeps the order. *)
LEMMA Multiples ==
  ASSUME NEW a \in Nat, NEW b \in Nat, NEW R \in Nat, R > 0
  PROVE  (a <= b <=> a * R <= b * R) /\ (a < b <=> a * R < b * R) /\ a * R \in Nat
    /\ (a + 1) * R = a * R + R
OBVIOUS

(* Quotient and remainder are unique. *)
LEMMA ModUnique ==
  ASSUME NEW a \in Nat, NEW r \in Nat, NEW R \in Nat, R > 0, r < R
  PROVE  (a * R + r) % R = r /\ (a * R + r) \div R = a
<1> DEFINE n == a * R + r
           q == n \div R
           s == n % R
<1>1. n \in Nat
OBVIOUS
<1> HIDE DEF n
<1>2. q \in Nat /\ s \in 0 .. R-1 /\ n = q * R + s
  BY <1>1, DivMod
<1> HIDE DEF q, s
<1>3. a * R + r = q * R + s
  BY <1>2 DEF n
<1>4. ASSUME a < q PROVE FALSE
  <2>1. (q - a) * R >= R BY <1>2, <1>4
  <2> QED BY <1>2, <1>3, <2>1
<1>5. ASSUME q < a PROVE FALSE
  <2>1. (a - q) * R >= R BY <1>2, <1>5
  <2> QED BY <1>2, <1>3, <2>1
<1>6. q = a /\ s = r
  BY <1>2, <1>3, <1>4, <1>5
<1> QED BY <1>6 DEF q, s, n

-----------------------------------------------------------------------------
(* The invariant. *)

(* An entry of Machine::GlobalPageTable. *)
GlobalEntry == [virNum : Int, refPageTable : {0, 1, 2}, useStamp : Nat]

(* An entry of a page table. *)
TableEntry == [physicalPage : Frame \cup {-1}, valid : BOOLEAN, dirty : BOOLEAN]

(* What the program may expect of its memory before it has run: the bytes of *)
(* its segments.                                                             *)
FirstSight == [a \in 0 .. numPages * PageSize - 1 |->
                 IF InFile(a) = Unknown THEN Unknown ELSE Program[InFile(a)]]

(* The types of the variables; nothing but the handler writes the program's *)
(* file, and it never does.                                                 *)
PagingType ==
  /\ globalPageTable \in [Frame -> GlobalEntry]
  /\ pageTable \in [{1, 2} -> [Page -> TableEntry]]
  /\ mainMemory = [a \in Address |-> mainMemory[a]]
  /\ file = Program
  /\ step \in 1 .. 5
  /\ expected = [a \in 0 .. numPages * PageSize - 1 |-> expected[a]]

(* A frame belongs to the page whose entry names it, and to no other page. *)
Agree(tables, global) ==
  /\ \A s \in {1, 2}, v \in Page :
       tables[s][v].valid /\ tables[s][v].physicalPage # -1 =>
         /\ global[tables[s][v].physicalPage].virNum = v
         /\ global[tables[s][v].physicalPage].refPageTable = s
  /\ \A p \in Frame :
       global[p].refPageTable # 0 =>
         /\ global[p].virNum \in Page
         /\ tables[global[p].refPageTable][global[p].virNum].valid
         /\ tables[global[p].refPageTable][global[p].virNum].physicalPage = p

(* The first space has all frames until the second one takes them; a frame of *)
(* the second one has been used, so the frame with the fewest uses is one of  *)
(* the first as long as there is any.                                         *)
UseInv ==
  /\ \A p \in Frame : globalPageTable[p].refPageTable \in (IF step = 1 THEN {0} ELSE {1, 2})
  /\ \A p \in Frame : globalPageTable[p].refPageTable = 2 <=> globalPageTable[p].useStamp > 0
  /\ \A v \in Page : pageTable[2][v].valid /\ ~pageTable[1][v].dirty
  /\ step \in {1, 2, 3} => \A v \in Page : pageTable[2][v].physicalPage = -1

(* What a read of the byte a would return: the byte in the frame of its page, *)
(* or what the page fault handler would bring from the file.                  *)
ByteIn(tables, memory, a) ==
  IF tables[2][a \div PageSize].valid /\ tables[2][a \div PageSize].physicalPage # -1
  THEN memory[tables[2][a \div PageSize].physicalPage * PageSize + (a % PageSize)]
  ELSE IF InFile(a) = -1 THEN -1 ELSE Program[InFile(a)]

(* The program would read what it expects, at every address. *)
Sees(tables, memory) ==
  \A a \in 0 .. numPages * PageSize - 1 : expected[a] # -1 => ByteIn(tables, memory, a)
    = expected[a]

(* Once the second space runs, it sees what it expects. *)
SeenInv == IF step \in {1, 2, 3} THEN expected = FirstSight ELSE Sees(pageTable, mainMemory)

(* Frames that have different pages have all pages: there are as many entries *)
(* in a page table as there are frames.                                       *)
AsManyFramesAsPages ==
  \A f \in [Frame -> Page] :
    (\A p, q \in Frame : f[p] = f[q] => p = q) => \A v \in Page : \E p \in Frame : f[p] = v

(* A set of natural numbers that is not empty has a least element. *)
LeastExists == \A S \in SUBSET Nat : S # {} => \E m \in S : \A n \in S : m <= n

(* Two facts about finite sets of numbers, which the invariant carries along; *)
(* they are proved at the end.                                                *)
Counting == LeastExists /\ AsManyFramesAsPages

(* The inductive invariant of paging. *)
PagingInv ==
  /\ PagingAssumption /\ Counting /\ PagingType /\ Agree(pageTable, globalPageTable)
  /\ UseInv /\ SeenInv /\ retry = "NoException"

(* What a page table that agrees with the frames says of a page of a space. *)
LEMMA AgreeEntry ==
  ASSUME NEW t, NEW g, Agree(t, g), NEW s \in {1, 2}, NEW v \in Page,
         t[s][v].valid, t[s][v].physicalPage # -1
  PROVE  g[t[s][v].physicalPage].virNum = v /\ g[t[s][v].physicalPage].refPageTable = s
BY DEF Agree

(* And what it says of a frame. *)
LEMMA AgreeFrame ==
  ASSUME NEW t, NEW g, Agree(t, g), NEW p \in Frame, g[p].refPageTable # 0
  PROVE  /\ g[p].virNum \in Page
         /\ t[g[p].refPageTable][g[p].virNum].valid
         /\ t[g[p].refPageTable][g[p].virNum].physicalPage = p
BY DEF Agree

(* A program that fits into memory has no more pages than there are frames. *)
LEMMA PageSizes ==
  ASSUME PagingAssumption
  PROVE  /\ NumPhysPages \in Nat /\ NumPhysPages > 0
         /\ PageSize \in Nat /\ PageSize > 0
         /\ UserSpace \in Nat /\ UserSpace > 0
         /\ numPages \in Nat /\ numPages <= NumPhysPages
<1>1. NumPhysPages \in Nat \ {0} /\ PageSize \in Nat \ {0} /\ UserSpace \in Nat \ {0}
  BY DEF PagingAssumption
<1>2. NumPhysPages \in Nat /\ NumPhysPages > 0 /\ PageSize \in Nat /\ PageSize > 0
        /\ UserSpace \in Nat /\ UserSpace > 0
  BY <1>1
<1> DEFINE n == UserSpace + PageSize - 1
           q == n \div PageSize
           r == n % PageSize
<1>3. n \in Nat
  BY <1>2
<1>4. q \in Nat /\ r \in 0 .. PageSize - 1 /\ n = q * PageSize + r
  BY <1>2, <1>3, DivMod
<1>5. q = numPages
  BY DEF numPages
<1> HIDE DEF q, r
<1>6. q * PageSize < (NumPhysPages + 1) * PageSize
  BY <1>2, <1>4 DEF PagingAssumption
<1>7. q < NumPhysPages + 1
  BY <1>2, <1>4, <1>6
<1> QED BY <1>2, <1>4, <1>5, <1>7

(* Every byte of memory is at one place of one frame. *)
LEMMA PlaceInMemory ==
  ASSUME PagingAssumption, NEW p \in Frame, NEW o \in 0 .. PageSize - 1
  PROVE  /\ p * PageSize + o \in Address
         /\ (p * PageSize + o) \div PageSize = p
         /\ (p * PageSize + o) % PageSize = o
<1>1. PageSize \in Nat /\ PageSize > 0 /\ NumPhysPages \in Nat /\ p \in Nat
        /\ p + 1 <= NumPhysPages /\ o \in Nat /\ o < PageSize
  BY PageSizes DEF Frame
<1>2. (p + 1) * PageSize <= NumPhysPages * PageSize
  BY <1>1
<1>3. p * PageSize \in Nat /\ (p + 1) * PageSize = p * PageSize + PageSize
  BY <1>1
<1>4. p * PageSize + o \in Address
  BY <1>1, <1>2, <1>3 DEF Address
<1> QED BY <1>1, <1>4, ModUnique

(* Machine::findFreeByLRU finds a frame with the fewest uses. *)
LEMMA LeastUsed ==
  ASSUME PagingInv, NEW q \in Frame
  PROVE  LET p == FindFreeByLRU(globalPageTable) IN
         p \in Frame /\ globalPageTable[p].useStamp <= globalPageTable[q].useStamp
<1> DEFINE use(p) == globalPageTable[p].useStamp
           A == {p \in Frame : \A r \in Frame : use(p) <= use(r)}
           U == {use(p) : p \in Frame}
<1>1. \A p \in Frame : use(p) \in Nat
  BY DEF PagingInv, PagingType, GlobalEntry
<1>2. U \in SUBSET Nat /\ U # {}
  BY <1>1
<1>3. \E m \in U : \A n \in U : m <= n
  <2> HIDE DEF U
  <2> QED BY <1>2 DEF PagingInv, Counting, LeastExists
<1>4. A # {}
  BY <1>3
<1>5. A \in SUBSET Nat
  BY DEF Frame
<1>6. FindFreeByLRU(globalPageTable) = Least(A)
  BY DEF FindFreeByLRU
<1>7. Least(A) \in A
  <2> HIDE DEF A
  <2>1. \E m \in A : \A n \in A : m <= n
    BY <1>4, <1>5 DEF PagingInv, Counting, LeastExists
  <2> QED BY <2>1, Zenon DEF Least
<1> QED BY <1>6, <1>7

(* The invariant holds when the machine has been made. *)
LEMMA PagingInit == PagingAssumption /\ Counting /\ InitPaging => PagingInv
<1> SUFFICES ASSUME PagingAssumption, Counting, InitPaging PROVE PagingInv
  OBVIOUS
<1>1. PagingType
  BY DEF InitPaging, Global, Entry, Nobody, PagingType, GlobalEntry, TableEntry
<1>2. Agree(pageTable, globalPageTable)
  BY DEF InitPaging, Global, Entry, Nobody, Agree
<1>3. UseInv
  BY DEF InitPaging, Global, Entry, Nobody, UseInv
<1>4. SeenInv
  BY DEF InitPaging, SeenInv, FirstSight
<1> QED BY <1>1, <1>2, <1>3, <1>4 DEF PagingInv, InitPaging

(* AddrSpace::Load of the first space gives every frame to a page of its own. *)
LEMMA FirstLoad ==
  ASSUME PagingInv, step = 1, Load
  PROVE  \E frame \in [Page -> Frame \cup {-1}], owner \in [Frame -> Page] :
           /\ pageTable' = [pageTable EXCEPT ![1] = [v \in Page |-> Entry(frame[v])]]
           /\ globalPageTable' = [p \in Frame |-> Global(owner[p], 1)]
           /\ \A p \in Frame : frame[owner[p]] = p
           /\ \A v \in Page : frame[v] # -1 => owner[frame[v]] = v
<1> DEFINE free == {p \in Frame : globalPageTable[p].refPageTable = Nobody}
<1>1. free = Frame
  BY DEF PagingInv, UseInv, Nobody
<1> HIDE DEF free
<1>2. PICK frame \in [Page -> free \cup {-1}] :
        /\ \A v, w \in Page : v < w /\ frame[w] # -1 => frame[v] \in 0 .. frame[w] - 1
        /\ \A p \in free : \E v \in Page : frame[v] = p
        /\ pageTable' = [pageTable EXCEPT ![step] = [v \in Page |-> Entry(frame[v])]]
        /\ globalPageTable' = [p \in Frame |-> IF p \in free THEN Global(CHOOSE v \in Page :
             frame[v] = p, step)
                                               ELSE globalPageTable[p]]
  BY Zenon DEF Load, free
<1> DEFINE owner == [p \in Frame |-> CHOOSE v \in Page : frame[v] = p]
<1>3. \A p \in Frame : owner[p] \in Page /\ frame[owner[p]] = p
  BY <1>1, <1>2
<1>4. owner \in [Frame -> Page]
  BY <1>3
<1>5. globalPageTable' = [p \in Frame |-> Global(owner[p], 1)]
  BY <1>1, <1>2
<1> HIDE DEF owner
<1>6. \A v \in Page : v \in Nat
  BY DEF Page, Frame
<1>7. \A v, w \in Page : frame[v] = frame[w] /\ frame[v] # -1 => v = w
  <2>1. \A v, w \in Page : v < w /\ frame[w] # -1 => frame[v] # frame[w]
    BY <1>1, <1>2 DEF Frame
  <2> QED BY <1>6, <2>1
<1>8. \A v \in Page : frame[v] # -1 => owner[frame[v]] = v
  BY <1>1, <1>2, <1>3, <1>7
<1>9. frame \in [Page -> Frame \cup {-1}]
  BY <1>1
<1>10. pageTable' = [pageTable EXCEPT ![1] = [v \in Page |-> Entry(frame[v])]]
  BY <1>2
<1> QED BY <1>3, <1>4, <1>5, <1>8, <1>9, <1>10, Zenon

(* AddrSpace::Load keeps the invariant, for the first space and for the *)
(* second one, which finds no free frame.                               *)
LEMMA LoadKeeps ==
  ASSUME PagingInv, Load
  PROVE  PagingInv'
<1>0. /\ PagingAssumption' /\ Counting' /\ retry' = "NoException" /\ file' = file
           /\ expected' = expected
      /\ step' = (IF step = 1 THEN 2 ELSE 3)
  BY Zenon DEF PagingInv, PagingAssumption, Counting, Load
<1>m. mainMemory' = [a \in Address |-> mainMemory'[a]]
  BY Zenon DEF Load
<1>s. SeenInv'
  BY <1>0, Zenon DEF PagingInv, SeenInv, Load, FirstSight
<1>1. CASE step = 1
  <2>0. PICK frame \in [Page -> Frame \cup {-1}], owner \in [Frame -> Page] :
           /\ pageTable' = [pageTable EXCEPT ![1] = [v \in Page |-> Entry(frame[v])]]
           /\ globalPageTable' = [p \in Frame |-> Global(owner[p], 1)]
           /\ \A p \in Frame : frame[owner[p]] = p
           /\ \A v \in Page : frame[v] # -1 => owner[frame[v]] = v
    BY <1>1, FirstLoad
  <2>1. step' = 2
    BY <1>0, <1>1
  <2>2. NumPhysPages \in Nat /\ \A p \in Frame : p # -1 /\ p \in Int
    BY PageSizes DEF PagingInv, Frame
  <2>3. PagingType'
    <3>1. \A v \in Page : Entry(frame[v]) \in TableEntry
      BY <2>0 DEF Entry, TableEntry
    <3>2. pageTable' \in [{1, 2} -> [Page -> TableEntry]]
      BY <2>0, <3>1 DEF PagingInv, PagingType
    <3>3. \A p \in Frame : Global(owner[p], 1) \in GlobalEntry
      BY <2>0, <2>2 DEF Global, GlobalEntry, Page
    <3>4. globalPageTable' \in [Frame -> GlobalEntry]
      BY <2>0, <3>3, Zenon
    <3>5. step' \in 1 .. 5
      BY <2>1
    <3> QED BY <1>0, <1>m, <3>2, <3>4, <3>5, Zenon DEF PagingInv, PagingType
  <2>a. \A v : /\ Entry(v).physicalPage = v /\ Entry(v).valid /\ ~Entry(v).dirty
               /\ Global(v, 1).virNum = v /\ Global(v, 1).refPageTable = 1
                    /\ Global(v, 1).useStamp = 0
    BY DEF Entry, Global
  <2>b. \A v \in Page : pageTable'[1][v] = Entry(frame[v]) /\ pageTable'[2][v] = pageTable[2][v]
    BY <2>0 DEF PagingInv, PagingType
  <2>c. \A p \in Frame : globalPageTable'[p] = Global(owner[p], 1)
    BY <2>0
  <2>d. \A v \in Page : /\ pageTable'[1][v].physicalPage = frame[v] /\ pageTable'[1][v].valid
                             /\ ~pageTable'[1][v].dirty
                        /\ pageTable'[2][v].physicalPage = -1 /\ pageTable'[2][v].valid
    BY <1>1, <2>a, <2>b DEF PagingInv, UseInv
  <2>e. \A p \in Frame : /\ globalPageTable'[p].virNum = owner[p]
                              /\ globalPageTable'[p].refPageTable = 1
                         /\ globalPageTable'[p].useStamp = 0
    BY <2>a, <2>c
  <2>4. Agree(pageTable, globalPageTable)'
    <3>1. ASSUME NEW v \in Page, frame[v] # -1
          PROVE  globalPageTable'[frame[v]].virNum = v
            /\ globalPageTable'[frame[v]].refPageTable = 1
      BY <2>0, <2>e, <3>1
    <3>2. ASSUME NEW p \in Frame
          PROVE  owner[p] \in Page /\ pageTable'[1][owner[p]].valid
            /\ pageTable'[1][owner[p]].physicalPage = p
      BY <2>0, <2>d
    <3>3. ASSUME NEW s \in {1, 2}, NEW v \in Page, pageTable'[s][v].valid,
                 pageTable'[s][v].physicalPage # -1
          PROVE  /\ globalPageTable'[pageTable'[s][v].physicalPage].virNum = v
                 /\ globalPageTable'[pageTable'[s][v].physicalPage].refPageTable = s
      <4>1. s = 1
        BY <2>d, <3>3, Zenon
      <4>2. pageTable'[s][v].physicalPage = frame[v]
        BY <2>d, <4>1, Zenon
      <4> QED BY <3>1, <3>3, <4>1, <4>2, Zenon
    <3>4. ASSUME NEW p \in Frame
          PROVE  /\ globalPageTable'[p].virNum \in Page
                 /\ pageTable'[globalPageTable'[p].refPageTable][globalPageTable'[p].virNum].valid
                 /\ pageTable'[globalPageTable'[p].refPageTable][globalPageTable'[p].virNum].physicalPage
                      = p
      BY <2>e, <3>2, Zenon
    <3> QED BY <3>3, <3>4, Zenon DEF Agree
  <2>5. UseInv'
    BY <2>1, <2>d, <2>e DEF UseInv
  <2> QED BY <1>0, <1>s, <2>3, <2>4, <2>5 DEF PagingInv
<1>2. CASE step # 1
  <2> DEFINE free == {p \in Frame : globalPageTable[p].refPageTable = Nobody}
  <2>0. step = 2 /\ step' = 3
    BY <1>0, <1>2, Zenon DEF Load
  <2>1. free = {}
    BY <1>2 DEF PagingInv, UseInv, Nobody
  <2> HIDE DEF free
  <2>2. PICK frame \in [Page -> free \cup {-1}] :
        /\ pageTable' = [pageTable EXCEPT ![step] = [v \in Page |-> Entry(frame[v])]]
        /\ globalPageTable' = [p \in Frame |-> IF p \in free THEN Global(CHOOSE v \in Page :
             frame[v] = p, step)
                                               ELSE globalPageTable[p]]
    BY Zenon DEF Load, free
  <2>4. pageTable' = [pageTable EXCEPT ![2] = [v \in Page |-> Entry(-1)]]
    BY <2>0, <2>1, <2>2, Zenon
  <2>5. globalPageTable' = [p \in Frame |-> globalPageTable[p]]
    BY <2>1, <2>2
  <2>6. globalPageTable' = globalPageTable
    BY <2>5 DEF PagingInv, PagingType
  <2>7. PagingType'
    BY <1>0, <1>m, <2>0, <2>4, <2>6 DEF PagingInv, PagingType, TableEntry, Entry
  <2>8. Agree(pageTable, globalPageTable)'
    <3>1. \A v \in Page : pageTable'[1][v] = pageTable[1][v] /\ pageTable'[2][v].physicalPage
            = -1
      BY <2>4 DEF PagingInv, PagingType, Entry
    <3>2. \A p \in Frame : globalPageTable[p].refPageTable = 1
      <4>1. \A p \in Frame : p # -1
        BY PageSizes DEF Frame, PagingInv
      <4>2. ASSUME NEW p \in Frame, globalPageTable[p].refPageTable = 2 PROVE FALSE
        <5>1. globalPageTable[p].refPageTable # 0
          BY <4>2
        <5>2. globalPageTable[p].virNum \in Page
                /\ pageTable[2][globalPageTable[p].virNum].physicalPage = p
          BY <4>2, <5>1, Zenon DEF PagingInv, Agree
        <5> QED BY <2>0, <4>1, <5>2 DEF PagingInv, UseInv
      <4> QED BY <2>0, <4>2 DEF PagingInv, UseInv
    <3>3. ASSUME NEW s \in {1, 2}, NEW v \in Page, pageTable'[s][v].valid,
                 pageTable'[s][v].physicalPage # -1
          PROVE  /\ globalPageTable'[pageTable'[s][v].physicalPage].virNum = v
                 /\ globalPageTable'[pageTable'[s][v].physicalPage].refPageTable = s
      <4>1. s = 1
        BY <3>1, <3>3, Zenon
      <4>2. pageTable'[s][v] = pageTable[s][v]
        BY <3>1, <4>1, Zenon
      <4>3. Agree(pageTable, globalPageTable)
        BY DEF PagingInv
      <4>4. pageTable[s][v].valid /\ pageTable[s][v].physicalPage # -1
        BY <3>3, <4>2, Zenon
      <4>5. /\ globalPageTable[pageTable[s][v].physicalPage].virNum = v
            /\ globalPageTable[pageTable[s][v].physicalPage].refPageTable = s
        BY <4>3, <4>4, AgreeEntry
      <4> QED BY <2>6, <4>2, <4>5, Zenon
    <3>4. ASSUME NEW p \in Frame, globalPageTable'[p].refPageTable # 0
          PROVE  /\ globalPageTable'[p].virNum \in Page
                 /\ pageTable'[globalPageTable'[p].refPageTable][globalPageTable'[p].virNum].valid
                 /\ pageTable'[globalPageTable'[p].refPageTable][globalPageTable'[p].virNum].physicalPage
                      = p
      <4>1. globalPageTable[p].virNum \in Page
              /\ pageTable[1][globalPageTable[p].virNum].valid
              /\ pageTable[1][globalPageTable[p].virNum].physicalPage = p
        BY <2>6, <3>2, <3>4, Zenon DEF PagingInv, Agree
      <4>2. globalPageTable'[p].refPageTable = 1 /\ globalPageTable'[p].virNum
              = globalPageTable[p].virNum
        BY <2>6, <3>2, Zenon
      <4>3. pageTable'[1][globalPageTable[p].virNum] = pageTable[1][globalPageTable[p].virNum]
        BY <3>1, <4>1, Zenon
      <4> QED BY <4>1, <4>2, <4>3, Zenon
    <3> QED BY <3>3, <3>4, Zenon DEF Agree
  <2>9. UseInv'
    BY <2>0, <2>4, <2>6 DEF PagingInv, PagingType, UseInv, Entry
  <2> QED BY <1>0, <1>s, <2>7, <2>8, <2>9 DEF PagingInv
<1> QED BY <1>1, <1>2

-----------------------------------------------------------------------------
(* The page fault handler. *)

(* While a page of the running space has no frame, some frame is not of that *)
(* space.                                                                    *)
LEMMA PageWithoutFrame ==
  ASSUME PagingInv, NEW vpn \in Page, pageTable[2][vpn].physicalPage = -1
  PROVE  \E q \in Frame : globalPageTable[q].refPageTable # 2
<1> SUFFICES ASSUME \A q \in Frame : globalPageTable[q].refPageTable = 2 PROVE FALSE
  OBVIOUS
<1> DEFINE f == [p \in Frame |-> globalPageTable[p].virNum]
<1>1. NumPhysPages \in Nat /\ NumPhysPages > 0 /\ \A p \in Frame : p # -1
  BY PageSizes DEF PagingInv, Frame
<1>4. \A p \in Frame : globalPageTable[p].virNum \in Page
        /\ pageTable[2][globalPageTable[p].virNum].physicalPage = p
  <2>1. \A p \in Frame : globalPageTable[p].refPageTable # 0
    OBVIOUS
  <2> QED BY <2>1, Zenon DEF PagingInv, Agree
<1>5. f \in [Frame -> Page] /\ \A p, q \in Frame : f[p] = f[q] => p = q
  BY <1>4
<1>6. PICK p \in Frame : f[p] = vpn
  <2> HIDE DEF f
  <2> QED BY <1>5 DEF PagingInv, Counting, AsManyFramesAsPages
<1> QED BY <1>1, <1>4, <1>6

(* The handler has given the frame phy, which was that of the first space's *)
(* page old, to the page vpn of the second, and left the file alone.         *)
IdleFrameTaken(m, vpn, phy, old) ==
  /\ phy = FindFreeByLRU(globalPageTable)
  /\ globalPageTable[phy].refPageTable = 1 /\ globalPageTable[phy].virNum = old
  /\ m.global = [globalPageTable EXCEPT ![phy] = Global(vpn, 2)]
  /\ m.tables = [pageTable EXCEPT ![1][old].valid = FALSE, ![2][vpn] = Entry(phy)]
  /\ m.file = file
  /\ m.memory = [a \in Address |->
       LET vAddr == vpn * PageSize + (a % PageSize)
       IN  IF a \div PageSize = phy /\ InFile(vAddr) # Unknown
           THEN file[InFile(vAddr)] ELSE mainMemory[a]]

(* So the page fault handler takes a frame of the first space, which is not *)
(* dirty: nothing is written back over the program.                         *)
LEMMA FaultTakesIdleFrame ==
  ASSUME PagingInv, step = 4, NEW vpn \in Page, pageTable[2][vpn].physicalPage = -1
  PROVE  \E phy \in Frame, old \in Page : IdleFrameTaken(PageFault(vpn), vpn, phy, old)
<1> DEFINE phy == FindFreeByLRU(globalPageTable)
           old == globalPageTable[phy].virNum
<1>1. PICK q \in Frame : globalPageTable[q].refPageTable # 2
  BY PageWithoutFrame
<1>2. globalPageTable[q].useStamp = 0 /\ globalPageTable[q].useStamp \in Nat
  BY <1>1 DEF PagingInv, UseInv, PagingType, GlobalEntry
<1>3. phy \in Frame /\ globalPageTable[phy].useStamp <= globalPageTable[q].useStamp
  BY LeastUsed
<1> HIDE DEF phy
<1>4. globalPageTable[phy].useStamp \in Nat /\ globalPageTable[phy].refPageTable = 1
  BY <1>2, <1>3 DEF PagingInv, UseInv, PagingType, GlobalEntry
<1>5. old \in Page
  <2>1. globalPageTable[phy].refPageTable # 0
    BY <1>4
  <2> QED BY <1>3, <2>1, Zenon DEF PagingInv, Agree
<1>6. ~pageTable[1][old].dirty
  BY <1>5 DEF PagingInv, UseInv
<1>f. file = [o \in DOMAIN file |-> file[o]]
  BY DEF PagingInv, PagingType, PagingAssumption
<1> DEFINE start == old * PageSize
           written == [o \in DOMAIN file |->
                         IF pageTable[globalPageTable[phy].refPageTable][old].dirty
                           /\ o \in start .. start + PageSize - 1
                         THEN mainMemory[phy * PageSize + o - start] ELSE file[o]]
           memory == [a \in Address |->
                LET vAddr == vpn * PageSize + (a % PageSize)
                IN  IF a \div PageSize = phy /\ InFile(vAddr) # Unknown
                  THEN written[InFile(vAddr)] ELSE mainMemory[a]]
<1>7. PageFault(vpn)
        = [global |-> [globalPageTable EXCEPT ![phy] = Global(vpn, 2)],
           memory |-> memory,
           tables |-> [pageTable EXCEPT ![globalPageTable[phy].refPageTable][old].valid
             = FALSE, ![2][vpn] = Entry(phy)],
           file |-> written]
  BY Zenon DEF PageFault, phy
<1>8. written = file
  BY <1>4, <1>6, <1>f
<1>9. LET m == PageFault(vpn) IN
           /\ m.global = [globalPageTable EXCEPT ![phy] = Global(vpn, 2)]
           /\ m.tables = [pageTable EXCEPT ![1][old].valid = FALSE, ![2][vpn] = Entry(phy)]
           /\ m.file = file
           /\ m.memory = [a \in Address |->
                LET vAddr == vpn * PageSize + (a % PageSize)
                IN  IF a \div PageSize = phy /\ InFile(vAddr) # Unknown
                  THEN file[InFile(vAddr)] ELSE mainMemory[a]]
  <2> HIDE DEF written
  <2> QED BY <1>4, <1>7, <1>8
<1>10. phy = FindFreeByLRU(globalPageTable) /\ globalPageTable[phy].virNum = old
  BY DEF phy
<1>11. IdleFrameTaken(PageFault(vpn), vpn, phy, old)
  BY <1>4, <1>9, <1>10, Zenon DEF IdleFrameTaken
<1> HIDE DEF old
<1> QED BY <1>3, <1>5, <1>11, Zenon

(* The page of a byte, and its place in the page. *)
LEMMA ByteOfPage ==
  ASSUME PagingAssumption, NEW a \in 0 .. numPages * PageSize - 1
  PROVE  /\ a \div PageSize \in Page /\ a \div PageSize < numPages
         /\ a % PageSize \in 0 .. PageSize - 1
              /\ a = (a \div PageSize) * PageSize + (a % PageSize)
<1>1. PageSize \in Nat /\ PageSize > 0 /\ numPages \in Nat /\ numPages <= NumPhysPages
        /\ NumPhysPages \in Nat
  BY PageSizes
<1> DEFINE q == a \div PageSize
           r == a % PageSize
<1>2. a \in Nat /\ numPages * PageSize \in Nat
  BY <1>1
<1>3. q \in Nat /\ r \in 0 .. PageSize - 1 /\ a = q * PageSize + r
  BY <1>1, <1>2, DivMod
<1> HIDE DEF q, r
<1>4. q * PageSize < numPages * PageSize
  BY <1>1, <1>2, <1>3
<1>5. q < numPages
  BY <1>1, <1>3, <1>4
<1>6. q \in Page
  BY <1>1, <1>3, <1>5 DEF Page, Frame
<1> QED BY <1>3, <1>5, <1>6 DEF q, r

(* After the handler and its retry of Translate: the page vpn has the frame, *)
(* the tables agree, and the program sees what it expects.                   *)
Usable(T, G, M, vpn, frame) ==
  /\ T \in [{1, 2} -> [Page -> TableEntry]] /\ G \in [Frame -> GlobalEntry]
  /\ T[2][vpn].physicalPage = frame /\ T[2][vpn].valid
  /\ Agree(T, G)
  /\ G[frame].refPageTable = 2
  /\ \A p \in Frame : /\ G[p].refPageTable \in {1, 2}
                      /\ p # frame => (G[p].refPageTable = 2 <=> G[p].useStamp > 0)
  /\ \A v \in Page : T[2][v].valid /\ ~T[1][v].dirty
  /\ Sees(T, M)

(* A page that has a frame is usable as it is. *)
LEMMA ResidentPage ==
  ASSUME PagingInv, step = 4, NEW vpn \in Page, pageTable[2][vpn].physicalPage # -1
  PROVE  \E frame \in Frame : Usable(pageTable, globalPageTable, mainMemory, vpn, frame)
<1> DEFINE frame == pageTable[2][vpn].physicalPage
<1>1. frame \in Frame
  BY DEF PagingInv, PagingType, TableEntry
<1>2. pageTable[2][vpn].valid
  BY DEF PagingInv, UseInv
<1>3. globalPageTable[frame].refPageTable = 2
  BY <1>2, Zenon DEF PagingInv, Agree
<1>5. Usable(pageTable, globalPageTable, mainMemory, vpn, frame)
  BY <1>1, <1>2, <1>3, Zenon DEF PagingInv, PagingType, UseInv, SeenInv, Usable
<1> QED BY <1>1, <1>5

(* Taking the frame from a page changes nothing but whether its entry is *)
(* valid.                                                                *)
LEMMA EntryClosed ==
  ASSUME NEW t \in [Page -> TableEntry], NEW old \in Page
  PROVE  LET u == [t EXCEPT ![old].valid = FALSE] IN
         /\ u \in [Page -> TableEntry]
         /\ \A v \in Page : v # old => u[v] = t[v]
         /\ u[old].physicalPage = t[old].physicalPage /\ u[old].dirty = t[old].dirty
              /\ u[old].valid = FALSE
<1> DEFINE u == [t EXCEPT ![old].valid = FALSE]
           e == [t[old] EXCEPT !.valid = FALSE]
<1>1. t[old] \in TableEntry
  OBVIOUS
<1>2. e \in TableEntry /\ e.physicalPage = t[old].physicalPage /\ e.dirty = t[old].dirty
        /\ e.valid = FALSE
  BY <1>1, Zenon DEF TableEntry
<1>3. u = [t EXCEPT ![old] = e]
  BY Zenon
<1> HIDE DEF e, u
<1>4. /\ u \in [Page -> TableEntry]
      /\ \A v \in Page : v # old => u[v] = t[v]
      /\ u[old].physicalPage = t[old].physicalPage /\ u[old].dirty = t[old].dirty
           /\ u[old].valid = FALSE
  BY <1>2, <1>3
<1> QED BY <1>4, Zenon DEF u

(* The page tables of the two address spaces. *)
Tables == [{1, 2} -> [Page -> TableEntry]]

(* What the handler does to the tables: the entry of the first space's page *)
(* old is no longer valid, and the page vpn of the second has the entry e.  *)
Moved(pt, T, old, vpn, e) ==
  /\ T \in Tables
  /\ \A v \in Page : v # old => T[1][v] = pt[1][v]
  /\ \A v \in Page : v # vpn => T[2][v] = pt[2][v]
  /\ T[2][vpn] = e
  /\ T[1][old].physicalPage = pt[1][old].physicalPage /\ T[1][old].dirty = pt[1][old].dirty
       /\ T[1][old].valid = FALSE

(* The assignments of the handler do that. *)
LEMMA TwoTables ==
  \A pt \in Tables, old \in Page, vpn \in Page, e \in TableEntry :
    \A T : T = [pt EXCEPT ![1][old].valid = FALSE, ![2][vpn] = e] => Moved(pt, T, old, vpn, e)
<1>0. SUFFICES ASSUME NEW pt \in [{1, 2} -> [Page -> TableEntry]], NEW old \in Page,
        NEW vpn \in Page, NEW e \in TableEntry,
                      NEW T, T = [pt EXCEPT ![1][old].valid = FALSE, ![2][vpn] = e]
               PROVE  Moved(pt, T, old, vpn, e)
  BY Zenon DEF Tables
<1> DEFINE t == pt[1]
           u == [t EXCEPT ![old].valid = FALSE]
           w == [pt[2] EXCEPT ![vpn] = e]
<1>1. t \in [Page -> TableEntry]
  OBVIOUS
<1>2. /\ u \in [Page -> TableEntry]
      /\ \A v \in Page : v # old => u[v] = t[v]
      /\ u[old].physicalPage = t[old].physicalPage /\ u[old].dirty = t[old].dirty
           /\ u[old].valid = FALSE
  <2> HIDE DEF t
  <2> QED BY <1>1, EntryClosed, Zenon
<1>3. w \in [Page -> TableEntry] /\ w[vpn] = e /\ \A v \in Page : v # vpn => w[v] = pt[2][v]
  OBVIOUS
<1> DEFINE V == [pt EXCEPT ![1] = u]
<1>4. V \in [{1, 2} -> [Page -> TableEntry]] /\ V[1] = u /\ V[2] = pt[2]
  <2> HIDE DEF u
  <2> QED BY <1>2
<1>5. T = [V EXCEPT ![2] = [@ EXCEPT ![vpn] = e]]
  BY <1>0, Zenon
<1> HIDE DEF u, V
<1>6. T = [V EXCEPT ![2] = w]
  BY <1>4, <1>5
<1> HIDE DEF w
<1>7. T \in [{1, 2} -> [Page -> TableEntry]] /\ T[1] = u /\ T[2] = w
  BY <1>3, <1>4, <1>6
<1> QED BY <1>2, <1>3, <1>7 DEF Moved, Tables

(* The page fault handler brings the page: it is usable afterwards, and the *)
(* file is as it was.                                                       *)
LEMMA FaultBringsPage ==
  ASSUME PagingInv, step = 4, NEW vpn \in Page, pageTable[2][vpn].physicalPage = -1
  PROVE  LET m == PageFault(vpn) IN
         m.file = Program /\ \E frame \in Frame :
           Usable(m.tables, m.global, m.memory, vpn, frame)
<1> DEFINE m == PageFault(vpn)
           T == m.tables
           G == m.global
           M == m.memory
<1>0. PICK phy \in Frame, old \in Page : IdleFrameTaken(m, vpn, phy, old)
  BY FaultTakesIdleFrame, Zenon
<1> HIDE DEF m
<1>1. /\ globalPageTable[phy].refPageTable = 1 /\ globalPageTable[phy].virNum = old
      /\ G = [globalPageTable EXCEPT ![phy] = Global(vpn, 2)]
      /\ m.file = file
      /\ M = [a \in Address |->
                LET vAddr == vpn * PageSize + (a % PageSize)
                IN  IF a \div PageSize = phy /\ InFile(vAddr) # Unknown
                  THEN file[InFile(vAddr)] ELSE mainMemory[a]]
  BY <1>0, Zenon DEF IdleFrameTaken
<1>t. T = [pageTable EXCEPT ![1][old].valid = FALSE, ![2][vpn] = Entry(phy)]
  BY <1>0, Zenon DEF IdleFrameTaken
<1> HIDE DEF T, G, M
<1>2. /\ pageTable \in [{1, 2} -> [Page -> TableEntry]]
           /\ globalPageTable \in [Frame -> GlobalEntry]
      /\ Agree(pageTable, globalPageTable) /\ UseInv /\ PagingAssumption /\ file = Program
           /\ Sees(pageTable, mainMemory)
  BY DEF PagingInv, PagingType, SeenInv
<1>n. \A p \in Frame : p # -1
  BY <1>2, PageSizes DEF Frame
<1>a. Agree(pageTable, globalPageTable) /\ globalPageTable[phy].refPageTable = 1
  BY <1>1, <1>2, Zenon
<1>o. globalPageTable[phy].refPageTable # 2 /\ globalPageTable[phy].refPageTable # 0
  <2>1. globalPageTable[phy].refPageTable = 1
    BY <1>a, Zenon
  <2> QED BY <2>1
<1>4. /\ Entry(phy) = [physicalPage |-> phy, valid |-> TRUE, dirty |-> FALSE]
      /\ Global(vpn, 2) = [virNum |-> vpn, refPageTable |-> 2, useStamp |-> 0]
      /\ Entry(phy) \in TableEntry /\ Global(vpn, 2) \in GlobalEntry
  BY <1>2, PageSizes DEF Entry, Global, TableEntry, GlobalEntry, Page, Frame
<1>3. /\ T \in [{1, 2} -> [Page -> TableEntry]]
      /\ \A v \in Page : v # old => T[1][v] = pageTable[1][v]
      /\ \A v \in Page : v # vpn => T[2][v] = pageTable[2][v]
      /\ T[2][vpn] = Entry(phy)
      /\ T[1][old].physicalPage = pageTable[1][old].physicalPage /\ T[1][old].dirty
           = pageTable[1][old].dirty /\ T[1][old].valid = FALSE
  <2> DEFINE e == Entry(phy)
  <2>1. T = [pageTable EXCEPT ![1][old].valid = FALSE, ![2][vpn] = e]
    BY <1>t, Zenon
  <2> HIDE DEF e
  <2>2. e \in TableEntry
    BY <1>4 DEF e
  <2>3. pageTable \in Tables
    BY <1>2 DEF Tables
  <2>4. Moved(pageTable, T, old, vpn, e)
    BY <2>1, <2>2, <2>3, TwoTables, Zenon
  <2> QED BY <2>4 DEF e, Moved, Tables
<1>g. /\ \A p \in Frame : p # phy => G[p] = globalPageTable[p]
      /\ G[phy] = Global(vpn, 2)
      /\ G = [p \in Frame |-> G[p]]
  BY <1>1, <1>2, Zenon
<1>5. /\ ~T[1][old].valid /\ ~T[1][old].dirty /\ T[1][old] \in TableEntry
  BY <1>2, <1>3, <1>g DEF UseInv
<1>6. T \in [{1, 2} -> [Page -> TableEntry]]
  BY <1>3
<1>7. G \in [Frame -> GlobalEntry]
  <2>1. \A p \in Frame : G[p] \in GlobalEntry
    BY <1>2, <1>3, <1>g, <1>4, Zenon
  <2> QED BY <1>3, <1>g, <2>1
<1>8. pageTable[1][old].valid /\ pageTable[1][old].physicalPage = phy
  <2>1. globalPageTable[phy].virNum = old
    BY <1>1, Zenon
  <2> QED BY <1>a, <1>o, <2>1, Zenon DEF Agree
<1>e. /\ T[2][vpn].physicalPage = phy /\ T[2][vpn].valid
      /\ G[phy].virNum = vpn /\ G[phy].refPageTable = 2
  BY <1>3, <1>g, <1>4
<1>9. Agree(T, G)
  <2>1. ASSUME NEW v \in Page, T[1][v].valid, T[1][v].physicalPage # -1
        PROVE  /\ G[T[1][v].physicalPage].virNum = v
               /\ G[T[1][v].physicalPage].refPageTable = 1
    <3>1. v # old
      BY <1>5, <2>1
    <3>2. T[1][v] = pageTable[1][v] /\ pageTable[1][v].physicalPage \in Frame
      BY <1>2, <1>3, <1>g, <2>1, <3>1, Zenon DEF TableEntry
    <3>3. globalPageTable[pageTable[1][v].physicalPage].virNum = v
            /\ globalPageTable[pageTable[1][v].physicalPage].refPageTable = 1
      BY <1>a, <2>1, <3>2, AgreeEntry
    <3>4. pageTable[1][v].physicalPage # phy
      BY <1>1, <3>1, <3>3, Zenon
    <3> QED BY <1>3, <1>g, <3>2, <3>3, <3>4, Zenon
  <2>2. ASSUME NEW v \in Page, T[2][v].valid, T[2][v].physicalPage # -1
        PROVE  /\ G[T[2][v].physicalPage].virNum = v
               /\ G[T[2][v].physicalPage].refPageTable = 2
    <3>1. CASE v = vpn
      BY <1>e, <3>1, Zenon
    <3>2. CASE v # vpn
      <4>1. T[2][v] = pageTable[2][v] /\ pageTable[2][v].physicalPage \in Frame
        BY <1>2, <1>3, <1>g, <2>2, <3>2, Zenon DEF TableEntry
      <4>2. globalPageTable[pageTable[2][v].physicalPage].virNum = v
              /\ globalPageTable[pageTable[2][v].physicalPage].refPageTable = 2
        BY <1>a, <2>2, <4>1, AgreeEntry
      <4>3. pageTable[2][v].physicalPage # phy
        BY <1>o, <4>2, Zenon
      <4> QED BY <1>3, <1>g, <4>1, <4>2, <4>3, Zenon
    <3> QED BY <3>1, <3>2, Zenon
  <2>3. ASSUME NEW p \in Frame, G[p].refPageTable # 0
        PROVE  /\ G[p].virNum \in Page
               /\ T[G[p].refPageTable][G[p].virNum].valid
               /\ T[G[p].refPageTable][G[p].virNum].physicalPage = p
    <3>1. CASE p = phy
      BY <1>e, <3>1, Zenon
    <3>2. CASE p # phy
      <4> DEFINE g == globalPageTable[p]
      <4>1. G[p] = g /\ g.refPageTable \in {1, 2}
        BY <1>2, <1>3, <1>g, <2>3, <3>2 DEF GlobalEntry
      <4>2. g.virNum \in Page /\ pageTable[g.refPageTable][g.virNum].valid
              /\ pageTable[g.refPageTable][g.virNum].physicalPage = p
        BY <1>a, <2>3, <4>1, Zenon DEF Agree
      <4> HIDE DEF g
      <4>3. CASE g.refPageTable = 1
        <5>1. g.virNum # old
          BY <1>8, <3>2, <4>2, <4>3
        <5>2. T[1][g.virNum] = pageTable[1][g.virNum]
          BY <1>3, <4>2, <5>1, Zenon
        <5> QED BY <4>1, <4>2, <4>3, <5>2, Zenon
      <4>4. CASE g.refPageTable = 2
        <5>1. g.virNum # vpn
          BY <1>n, <4>2, <4>4
        <5>2. T[2][g.virNum] = pageTable[2][g.virNum]
          BY <1>3, <4>2, <5>1, Zenon
        <5> QED BY <4>1, <4>2, <4>4, <5>2, Zenon
      <4> QED BY <4>1, <4>3, <4>4, Zenon
    <3> QED BY <3>1, <3>2, Zenon
  <2>4. ASSUME NEW s \in {1, 2}, NEW v \in Page, T[s][v].valid, T[s][v].physicalPage # -1
        PROVE  /\ G[T[s][v].physicalPage].virNum = v
               /\ G[T[s][v].physicalPage].refPageTable = s
    <3>1. CASE s = 1
      BY <2>1, <2>4, <3>1, Zenon
    <3>2. CASE s = 2
      BY <2>2, <2>4, <3>2, Zenon
    <3> QED BY <3>1, <3>2, Zenon
  <2>5. \A s \in {1, 2}, v \in Page : T[s][v].valid /\ T[s][v].physicalPage # -1 =>
          /\ G[T[s][v].physicalPage].virNum = v
          /\ G[T[s][v].physicalPage].refPageTable = s
    BY <2>4, Zenon
  <2>6. \A p \in Frame : G[p].refPageTable # 0 =>
          /\ G[p].virNum \in Page
          /\ T[G[p].refPageTable][G[p].virNum].valid
          /\ T[G[p].refPageTable][G[p].virNum].physicalPage = p
    BY <2>3, Zenon
  <2> QED BY <2>5, <2>6, Zenon DEF Agree
<1>10. \A p \in Frame : /\ G[p].refPageTable \in {1, 2}
                        /\ p # phy => (G[p].refPageTable = 2 <=> G[p].useStamp > 0)
  BY <1>2, <1>3, <1>g, <1>4 DEF UseInv
<1>11. \A v \in Page : T[2][v].valid /\ ~T[1][v].dirty
  BY <1>2, <1>3, <1>g, <1>4, <1>5 DEF UseInv
<1>12. Sees(T, M)
  <2> SUFFICES ASSUME NEW a \in 0 .. numPages * PageSize - 1, expected[a] # -1
               PROVE  ByteIn(T, M, a) = expected[a]
    BY DEF Sees
  <2> DEFINE v == a \div PageSize
             o == a % PageSize
  <2>1. v \in Page /\ o \in 0 .. PageSize - 1 /\ a = v * PageSize + o
    BY <1>2, ByteOfPage
  <2>2. ByteIn(pageTable, mainMemory, a) = expected[a]
    BY <1>2 DEF Sees
  <2>3. CASE v = vpn
    <3>1. ByteIn(pageTable, mainMemory, a) = IF InFile(a) = -1 THEN -1 ELSE Program[InFile(a)]
      BY <2>3, Zenon DEF ByteIn
    <3>2. InFile(a) # -1 /\ expected[a] = Program[InFile(a)]
      BY <2>2, <3>1
    <3>3. ByteIn(T, M, a) = M[phy * PageSize + o]
      BY <1>e, <1>n, <2>3, Zenon DEF ByteIn
    <3>4. phy * PageSize + o \in Address /\ (phy * PageSize + o) \div PageSize = phy
            /\ (phy * PageSize + o) % PageSize = o
      BY <1>2, <2>1, PlaceInMemory
    <3> HIDE DEF v, o
    <3>5. M[phy * PageSize + o] = Program[InFile(a)]
      BY <1>1, <1>2, <2>1, <2>3, <3>2, <3>4, Zenon DEF Unknown
    <3> QED BY <3>2, <3>3, <3>5
  <2>4. CASE v # vpn
    <3>1. T[2][v] = pageTable[2][v] /\ pageTable[2][v] \in TableEntry /\ pageTable[2][v].valid
      BY <1>2, <1>3, <1>g, <2>1, <2>4 DEF UseInv
    <3>2. CASE pageTable[2][v].physicalPage = -1
      BY <2>2, <3>1, <3>2, Zenon DEF ByteIn
    <3>3. CASE pageTable[2][v].physicalPage # -1
      <4> DEFINE r == pageTable[2][v].physicalPage
      <4>1. r \in Frame /\ globalPageTable[r].refPageTable = 2
        BY <1>2, <2>1, <3>1, <3>3, Zenon DEF TableEntry, Agree
      <4>2. r # phy
        BY <1>o, <4>1, Zenon
      <4>3. r * PageSize + o \in Address /\ (r * PageSize + o) \div PageSize = r
        BY <1>2, <2>1, <4>1, PlaceInMemory, Zenon
      <4>4. ByteIn(T, M, a) = M[r * PageSize + o] /\ ByteIn(pageTable, mainMemory, a)
              = mainMemory[r * PageSize + o]
        BY <3>1, <3>3, Zenon DEF ByteIn
      <4> HIDE DEF r, v, o
      <4>5. M[r * PageSize + o] = mainMemory[r * PageSize + o]
        BY <1>1, <4>2, <4>3, Zenon
      <4> QED BY <2>2, <4>4, <4>5
    <3> QED BY <3>2, <3>3
  <2> QED BY <2>3, <2>4
<1>13. T[2][vpn].physicalPage = phy /\ T[2][vpn].valid /\ G[phy].refPageTable = 2
  BY <1>2, <1>3, <1>g, <1>4
<1>14. Usable(T, G, M, vpn, phy)
  BY <1>6, <1>7, <1>9, <1>10, <1>11, <1>12, <1>13, Zenon DEF Usable
<1> QED BY <1>1, <1>2, <1>14, Zenon DEF T, G, M, m

-----------------------------------------------------------------------------
(* Accesses to memory. *)

(* An aligned access of a size that divides PageSize lies in one page. *)
LEMMA Aligned ==
  ASSUME PagingAssumption, NEW size \in Size, NEW vAddr \in Nat, vAddr % size = 0
  PROVE  size \in Nat /\ size > 0 /\ (vAddr % PageSize) + size <= PageSize
<1>1. size \in Nat /\ size > 0 /\ PageSize % size = 0 /\ PageSize \in Nat /\ PageSize > 0
  <2>1. size \in Nat \ {0} /\ PageSize % size = 0
    BY DEF PagingAssumption
  <2> QED BY <2>1, PageSizes
<1> DEFINE c == PageSize \div size
           d == vAddr \div size
           q == vAddr \div PageSize
           o == vAddr % PageSize
<1>2. c \in Nat /\ PageSize = c * size + (PageSize % size)
  BY <1>1, DivMod
<1>3. d \in Nat /\ vAddr = d * size + (vAddr % size)
  BY <1>1, DivMod
<1>4. q \in Nat /\ o \in 0 .. PageSize - 1 /\ vAddr = q * PageSize + o
  BY <1>1, DivMod
<1> HIDE DEF c, d, q, o
<1>5. PageSize = c * size /\ vAddr = d * size
  <2>1. c * size \in Nat /\ d * size \in Nat
    BY <1>1, <1>2, <1>3
  <2> QED BY <1>1, <1>2, <1>3, <2>1
<1> DEFINE k == d - q * c
<1>6. k \in Int /\ q * PageSize = (q * c) * size /\ q * c \in Nat
  BY <1>1, <1>2, <1>3, <1>4, <1>5
<1>7. o = k * size
  <2>1. o = d * size - (q * c) * size
    BY <1>1, <1>3, <1>4, <1>5, <1>6
  <2> QED BY <1>1, <1>3, <1>6, <2>1
<1> HIDE DEF k
<1>8. k < c
  <2>1. k * size < c * size
    BY <1>1, <1>4, <1>5, <1>7
  <2> QED BY <1>1, <1>2, <1>6, <2>1
<1>9. (k + 1) * size <= c * size
  BY <1>1, <1>2, <1>6, <1>8
<1>10. (k + 1) * size = k * size + size
  BY <1>1, <1>6
<1>11. o + size <= PageSize
  BY <1>1, <1>2, <1>4, <1>5, <1>6, <1>7, <1>9, <1>10
<1> QED BY <1>1, <1>11 DEF o

(* The tables U are T, except that the page vpn may have become dirty. *)
Touched(T, U, vpn) ==
  /\ U \in Tables /\ U[1] = T[1]
  /\ \A v \in Page : U[2][v].physicalPage = T[2][v].physicalPage /\ U[2][v].valid
       = T[2][v].valid

(* Translate's assignment to dirty does that. *)
LEMMA TableTouched ==
  \A T \in Tables, vpn \in Page, writing \in BOOLEAN :
    \A U : U = [T EXCEPT ![2][vpn].dirty = @ \/ writing] => Touched(T, U, vpn)
<1>0. SUFFICES ASSUME NEW T \in Tables, NEW vpn \in Page, NEW writing \in BOOLEAN,
                      NEW U, U = [T EXCEPT ![2][vpn].dirty = @ \/ writing]
               PROVE  Touched(T, U, vpn)
  BY Zenon
<1> DEFINE t == T[2]
           d == t[vpn].dirty \/ writing
           e == [t[vpn] EXCEPT !.dirty = d]
           w == [t EXCEPT ![vpn] = e]
<1>1. T \in [{1, 2} -> [Page -> TableEntry]]
  BY DEF Tables
<1>2. U = [T EXCEPT ![2] = w]
  BY <1>0, Zenon
<1>3. t \in [Page -> TableEntry] /\ t[vpn] \in TableEntry
  BY <1>1
<1>4. d \in BOOLEAN
  BY Zenon
<1> HIDE DEF d, t
<1>5. e \in TableEntry /\ e.physicalPage = t[vpn].physicalPage /\ e.valid = t[vpn].valid
  BY <1>3, <1>4 DEF TableEntry
<1> HIDE DEF e
<1>6. w \in [Page -> TableEntry] /\ \A v \in Page : w[v].physicalPage = t[v].physicalPage
        /\ w[v].valid = t[v].valid
  BY <1>3, <1>5
<1> HIDE DEF w
<1>7. U \in [{1, 2} -> [Page -> TableEntry]] /\ U[1] = T[1] /\ U[2] = w
  BY <1>1, <1>2, <1>6
<1> QED BY <1>6, <1>7 DEF Touched, Tables, t

(* All bytes of an aligned access are in the same page. *)
LEMMA AccessElsewhere ==
  ASSUME PagingAssumption, NEW size \in Size, NEW vAddr \in Nat, vAddr % size = 0,
         NEW a \in 0 .. numPages * PageSize - 1, a \in vAddr .. vAddr + size - 1
  PROVE  a \div PageSize = vAddr \div PageSize
<1> DEFINE q == vAddr \div PageSize
           w == vAddr % PageSize
           o == w + (a - vAddr)
<1>1. PageSize \in Nat /\ PageSize > 0
  BY PageSizes
<1>2. size \in Nat /\ size > 0 /\ w + size <= PageSize
  BY Aligned
<1>3. q \in Nat /\ w \in 0 .. PageSize - 1 /\ vAddr = q * PageSize + w
  BY <1>1, DivMod
<1> HIDE DEF q, w
<1>4. o \in Nat /\ o < PageSize /\ q * PageSize \in Nat
  BY <1>1, <1>2, <1>3
<1>5. a = q * PageSize + o
  BY <1>1, <1>2, <1>3, <1>4
<1> HIDE DEF o
<1>6. (q * PageSize + o) \div PageSize = q
  BY <1>1, <1>3, <1>4, ModUnique
<1> QED BY <1>5, <1>6 DEF q

(* A byte of memory is written by an access to the frame just when it is the *)
(* place of one of the bytes accessed.                                       *)
LEMMA AccessInPage ==
  ASSUME PagingAssumption, NEW size \in Size, NEW vAddr \in Nat, vAddr % size = 0,
         NEW vpn \in Page, vpn = vAddr \div PageSize,
         NEW frame \in Frame, NEW a \in 0 .. numPages * PageSize - 1, NEW r \in Frame,
         r = frame <=> a \div PageSize = vpn
  PROVE  (r * PageSize + (a % PageSize)) - frame * PageSize - (vAddr % PageSize) \in 0 .. size - 1
           <=> a \in vAddr .. vAddr + size - 1
<1> DEFINE v == a \div PageSize
           o == a % PageSize
           w == vAddr % PageSize
<1>1. PageSize \in Nat /\ PageSize > 0
  BY PageSizes
<1>2. size \in Nat /\ size > 0 /\ w + size <= PageSize
  BY Aligned
<1>3. w \in 0 .. PageSize - 1 /\ vAddr = vpn * PageSize + w
  BY <1>1, DivMod
<1>4. v \in Page /\ o \in 0 .. PageSize - 1 /\ a = v * PageSize + o
  BY ByteOfPage
<1>5. vpn \in Nat /\ v \in Nat /\ frame \in Nat /\ r \in Nat
  BY <1>4, PageSizes DEF Page, Frame
<1>6. r = frame <=> v = vpn
  OBVIOUS
<1> HIDE DEF v, o, w
<1>7. /\ vpn * PageSize \in Nat /\ v * PageSize \in Nat /\ frame * PageSize \in Nat
           /\ r * PageSize \in Nat
  BY <1>1, <1>5
<1>8. CASE v = vpn
  BY <1>1, <1>2, <1>3, <1>4, <1>5, <1>6, <1>7, <1>8 DEF o, w
<1>9. CASE v # vpn
  <2>1. \A m, n \in Nat : m < n => m * PageSize + PageSize <= n * PageSize
    <3> TAKE m, n \in Nat
    <3> HAVE m < n
    <3>1. (m + 1) * PageSize <= n * PageSize /\ (m + 1) * PageSize = m * PageSize + PageSize
      BY <1>1, Multiples
    <3> QED BY <3>1
  <2>2. v * PageSize + PageSize <= vpn * PageSize \/ vpn * PageSize + PageSize <= v * PageSize
    BY <1>5, <1>9, <2>1
  <2>3. r * PageSize + PageSize <= frame * PageSize
          \/ frame * PageSize + PageSize <= r * PageSize
    BY <1>5, <1>6, <1>9, <2>1
  <2>4. ~(a \in vAddr .. vAddr + size - 1)
    BY <1>1, <1>2, <1>3, <1>4, <1>7, <2>2
  <2>5. ~((r * PageSize + o) - frame * PageSize - w \in 0 .. size - 1)
    BY <1>1, <1>2, <1>3, <1>4, <1>7, <2>3
  <2> QED BY <2>4, <2>5 DEF o, w
<1> QED BY <1>8, <1>9

(* The global table H is G with one more use of the frame. *)
Counted(G, H, frame) ==
  /\ H \in [Frame -> GlobalEntry]
  /\ \A p \in Frame : H[p].virNum = G[p].virNum /\ H[p].refPageTable = G[p].refPageTable
       /\ (p # frame => H[p].useStamp = G[p].useStamp)
  /\ H[frame].useStamp > 0

(* Translate's count of the uses does that. *)
LEMMA UseCounted ==
  \A G \in [Frame -> GlobalEntry], frame \in Frame :
    \A H : H = [G EXCEPT ![frame].useStamp = @ + 1] => Counted(G, H, frame)
<1>0. SUFFICES ASSUME NEW G \in [Frame -> GlobalEntry], NEW frame \in Frame,
                      NEW H, H = [G EXCEPT ![frame].useStamp = @ + 1]
               PROVE  Counted(G, H, frame)
  BY Zenon
<1> DEFINE e == [G[frame] EXCEPT !.useStamp = @ + 1]
<1>1. G[frame] \in GlobalEntry
  OBVIOUS
<1>2. e \in GlobalEntry /\ e.virNum = G[frame].virNum /\ e.refPageTable
        = G[frame].refPageTable /\ e.useStamp > 0
  BY <1>1 DEF GlobalEntry
<1>3. H = [G EXCEPT ![frame] = e]
  BY <1>0, Zenon
<1> HIDE DEF e
<1> QED BY <1>2, <1>3 DEF Counted

(* An access to a usable page, as the machine does it. *)
Accessed(T, G, M, vAddr, size, vpn, frame, writing, value) ==
  /\ Usable(T, G, M, vpn, frame)
  /\ step = 4 /\ vAddr % size = 0 /\ vpn = vAddr \div PageSize
  /\ Counted(G, globalPageTable', frame) /\ Touched(T, pageTable', vpn)
  /\ mainMemory' = [a \in Address |->
       IF writing /\ a - frame * PageSize - (vAddr % PageSize) \in 0 .. size - 1 THEN value
         ELSE M[a]]
  /\ expected' = [a \in DOMAIN expected |->
       IF writing /\ a \in vAddr .. vAddr + size - 1 THEN value ELSE expected[a]]
  /\ file' = Program /\ step' = step /\ retry' = "NoException"

(* An access to a usable page keeps the invariant. *)
LEMMA AccessKeeps ==
  ASSUME PagingInv
  PROVE  \A vAddr \in Nat, size \in Size, vpn \in Page, frame \in Frame, writing \in BOOLEAN :
           \A T, G, M, value : Accessed(T, G, M, vAddr, size, vpn, frame, writing, value)
             => PagingInv'
<1> SUFFICES ASSUME NEW vAddr \in Nat, NEW size \in Size, NEW vpn \in Page,
      NEW frame \in Frame, NEW writing \in BOOLEAN,
                    NEW T, NEW G, NEW M, NEW value,
                      Accessed(T, G, M, vAddr, size, vpn, frame, writing, value)
             PROVE  PagingInv'
  BY Zenon
<1> /\ Usable(T, G, M, vpn, frame)
    /\ step = 4 /\ vAddr % size = 0 /\ vpn = vAddr \div PageSize
    /\ Counted(G, globalPageTable', frame) /\ Touched(T, pageTable', vpn)
    /\ mainMemory' = [a \in Address |->
         IF writing /\ a - frame * PageSize - (vAddr % PageSize) \in 0 .. size - 1
           THEN value ELSE M[a]]
    /\ expected' = [a \in DOMAIN expected |->
         IF writing /\ a \in vAddr .. vAddr + size - 1 THEN value ELSE expected[a]]
    /\ file' = Program /\ step' = step /\ retry' = "NoException"
  BY Zenon DEF Accessed
<1>1. /\ T \in [{1, 2} -> [Page -> TableEntry]] /\ G \in [Frame -> GlobalEntry]
      /\ T[2][vpn].physicalPage = frame /\ T[2][vpn].valid
      /\ G[frame].refPageTable = 2
      /\ \A p \in Frame : /\ G[p].refPageTable \in {1, 2}
                          /\ p # frame => (G[p].refPageTable = 2 <=> G[p].useStamp > 0)
  BY Zenon DEF Usable
<1>a. Agree(T, G) /\ Sees(T, M) /\ \A v \in Page : T[2][v].valid /\ ~T[1][v].dirty
  BY Zenon DEF Usable
<1>2. pageTable' \in [{1, 2} -> [Page -> TableEntry]] /\ pageTable'[1] = T[1]
      /\ \A v \in Page : pageTable'[2][v].physicalPage = T[2][v].physicalPage
           /\ pageTable'[2][v].valid = T[2][v].valid
  BY Zenon DEF Touched, Tables
<1>3. /\ globalPageTable' \in [Frame -> GlobalEntry]
      /\ \A p \in Frame : /\ globalPageTable'[p].virNum = G[p].virNum
                               /\ globalPageTable'[p].refPageTable = G[p].refPageTable
                          /\ p # frame => globalPageTable'[p].useStamp = G[p].useStamp
      /\ globalPageTable'[frame].useStamp > 0
  BY DEF Counted
<1>4. PagingAssumption /\ PagingType
        /\ expected = [a \in 0 .. numPages * PageSize - 1 |-> expected[a]]
  BY DEF PagingInv, PagingType
<1>5. PagingType'
  <2>1. mainMemory' = [a \in Address |-> mainMemory'[a]]
    OBVIOUS
  <2>2. DOMAIN expected = 0 .. numPages * PageSize - 1
    BY <1>4
  <2>3. expected' = [a \in 0 .. numPages * PageSize - 1 |-> expected'[a]]
    BY <2>2
  <2>4. step' \in 1 .. 5
    OBVIOUS
  <2> QED BY <1>2, <1>3, <2>1, <2>3, <2>4, Zenon DEF PagingType
<1>6. Agree(pageTable', globalPageTable')
  <2> DEFINE U == pageTable'
             H == globalPageTable'
  <2>u. U \in [{1, 2} -> [Page -> TableEntry]] /\ U[1] = T[1]
        /\ \A v \in Page : U[2][v].physicalPage = T[2][v].physicalPage /\ U[2][v].valid
             = T[2][v].valid
    BY <1>2, Zenon
  <2>h. \A p \in Frame : H[p].virNum = G[p].virNum /\ H[p].refPageTable = G[p].refPageTable
    BY <1>3, Zenon
  <2> HIDE DEF U, H
  <2>1. ASSUME NEW s \in {1, 2}, NEW v \in Page, U[s][v].valid, U[s][v].physicalPage # -1
        PROVE  /\ H[U[s][v].physicalPage].virNum = v
               /\ H[U[s][v].physicalPage].refPageTable = s
    <3>1. U[s][v].valid = T[s][v].valid /\ U[s][v].physicalPage = T[s][v].physicalPage
      BY <2>u, Zenon
    <3>2. U[s][v].physicalPage \in Frame
      BY <2>u, <2>1 DEF TableEntry
    <3>3. G[T[s][v].physicalPage].virNum = v /\ G[T[s][v].physicalPage].refPageTable = s
      BY <1>a, <2>1, <3>1, Zenon DEF Agree
    <3> QED BY <2>h, <3>1, <3>2, <3>3, Zenon
  <2>2. ASSUME NEW p \in Frame, H[p].refPageTable # 0
        PROVE  /\ H[p].virNum \in Page
               /\ U[H[p].refPageTable][H[p].virNum].valid
               /\ U[H[p].refPageTable][H[p].virNum].physicalPage = p
    <3> DEFINE g == G[p]
    <3>1. H[p].virNum = g.virNum /\ H[p].refPageTable = g.refPageTable
            /\ g.refPageTable \in {1, 2}
      <4>1. g.refPageTable \in {1, 2}
        BY <1>1, Zenon
      <4> QED BY <2>h, <4>1, Zenon
    <3>2. g.virNum \in Page /\ T[g.refPageTable][g.virNum].valid
            /\ T[g.refPageTable][g.virNum].physicalPage = p
      <4>1. g.refPageTable # 0
        BY <3>1
      <4> QED BY <1>a, <4>1, Zenon DEF Agree
    <3> HIDE DEF g
    <3>3. CASE g.refPageTable = 1
      BY <2>u, <3>1, <3>2, <3>3
    <3>4. CASE g.refPageTable = 2
      <4> DEFINE w == g.virNum
      <4>1. w \in Page /\ T[2][w].valid /\ T[2][w].physicalPage = p
        BY <3>2, <3>4, Zenon
      <4> HIDE DEF w
      <4>2. U[2][w].valid /\ U[2][w].physicalPage = p
        BY <2>u, <4>1, Zenon
      <4> QED BY <3>1, <3>4, <4>1, <4>2, Zenon DEF w
    <3> QED BY <3>1, <3>3, <3>4, Zenon
  <2>3. Agree(U, H)
    BY <2>1, <2>2, Zenon DEF Agree
  <2> QED BY <2>3 DEF U, H
<1>7. UseInv'
  <2>1. \A p \in Frame : globalPageTable'[p].refPageTable \in {1, 2}
    BY <1>1, <1>3, Zenon
  <2>2. \A p \in Frame : globalPageTable'[p].refPageTable = 2
          <=> globalPageTable'[p].useStamp > 0
    BY <1>1, <1>3
  <2>3. \A v \in Page : pageTable'[2][v].valid /\ ~pageTable'[1][v].dirty
    BY <1>2, <1>a, Zenon
  <2>4. step' = 4
    OBVIOUS
  <2> QED BY <2>1, <2>2, <2>3, <2>4 DEF UseInv
<1>8. SeenInv'
  <2> SUFFICES ASSUME NEW a \in 0 .. numPages * PageSize - 1, expected'[a] # -1
               PROVE  ByteIn(pageTable', mainMemory', a) = expected'[a]
    <3>1. ~ (step' \in {1, 2, 3})
      OBVIOUS
    <3> QED BY <3>1, Zenon DEF SeenInv, Sees, ByteIn
  <2> DEFINE v == a \div PageSize
             o == a % PageSize
             r == T[2][v].physicalPage
  <2>1. v \in Page /\ o \in 0 .. PageSize - 1
    BY <1>4, ByteOfPage, Zenon
  <2>2. T[2][v] \in TableEntry /\ T[2][v].valid
    BY <1>1, <1>a, <2>1, Zenon
  <2>3. pageTable'[2][v].physicalPage = r /\ pageTable'[2][v].valid
    BY <1>2, <2>1, <2>2, Zenon
  <2>4. expected[a] # -1 => ByteIn(T, M, a) = expected[a]
    BY <1>a, Zenon DEF Sees
  <2>5. a \in DOMAIN expected
    BY <1>4
  <2>6. expected'[a] = IF writing /\ a \in vAddr .. vAddr + size - 1 THEN value ELSE expected[a]
    BY <2>5
  <2>7. CASE r = -1
    <3>1. v # vpn
      BY <1>1, <1>4, <2>7, PageSizes DEF Frame
    <3>2. ~(a \in vAddr .. vAddr + size - 1)
      BY <1>4, <3>1, AccessElsewhere
    <3>3. ByteIn(pageTable', mainMemory', a) = ByteIn(T, M, a)
      BY <2>2, <2>3, <2>7, Zenon DEF ByteIn
    <3> QED BY <2>4, <2>6, <3>2, <3>3, Zenon
  <2>8. CASE r # -1
    <3>1. r \in Frame
      BY <2>2, <2>8, Zenon DEF TableEntry
    <3>2. r = frame <=> v = vpn
      <4>1. G[r].virNum = v /\ G[frame].virNum = vpn
        <5>1. frame # -1
          BY <1>4, PageSizes DEF Frame
        <5>2. \A w \in Page : T[2][w].valid /\ T[2][w].physicalPage # -1
                => G[T[2][w].physicalPage].virNum = w
          BY <1>a, Zenon DEF Agree
        <5> QED BY <1>1, <2>1, <2>2, <2>8, <5>1, <5>2, Zenon
      <4> QED BY <1>1, <4>1, Zenon
    <3>3. (r * PageSize + o) - frame * PageSize - (vAddr % PageSize) \in 0 .. size - 1
            <=> a \in vAddr .. vAddr + size - 1
      BY <1>4, <3>1, <3>2, AccessInPage, Zenon
    <3>4. r * PageSize + o \in Address
      BY <1>4, <2>1, <3>1, PlaceInMemory, Zenon
    <3>5. ByteIn(pageTable', mainMemory', a) = mainMemory'[r * PageSize + o]
            /\ ByteIn(T, M, a) = M[r * PageSize + o]
      BY <2>2, <2>3, <2>8, Zenon DEF ByteIn
    <3> HIDE DEF r, o, v
    <3>6. mainMemory'[r * PageSize + o] = IF writing /\ a \in vAddr .. vAddr + size - 1
            THEN value ELSE M[r * PageSize + o]
      <4> DEFINE b == r * PageSize + o
      <4>1. b - frame * PageSize - (vAddr % PageSize) \in 0 .. size - 1
              <=> a \in vAddr .. vAddr + size - 1
        BY <3>3, Zenon DEF b
      <4>2. b \in Address
        BY <3>4
      <4> HIDE DEF b
      <4>3. mainMemory'[b] = IF writing
              /\ b - frame * PageSize - (vAddr % PageSize) \in 0 .. size - 1 THEN value
                   ELSE M[b]
        BY <4>2
      <4>4. mainMemory'[b] = IF writing /\ a \in vAddr .. vAddr + size - 1 THEN value ELSE M[b]
        BY <4>1, <4>3, Zenon
      <4> QED BY <4>4, Zenon DEF b
    <3> QED BY <2>4, <2>6, <3>5, <3>6, Zenon
  <2> QED BY <2>7, <2>8, Zenon
<1>9. PagingAssumption' /\ Counting'
  BY <1>4 DEF PagingInv
<1> QED BY <1>5, <1>6, <1>7, <1>8, <1>9, Zenon DEF PagingInv

(* Machine::ReadMem and WriteMem keep the invariant, whether they find the *)
(* page in memory or the handler brings it.                                *)
LEMMA AccessStep ==
  ASSUME PagingInv, NEW vAddr \in Address, NEW size \in Size, NEW writing \in BOOLEAN,
    NEW value,
         Access(vAddr, size, writing, value)
  PROVE  PagingInv'
<1> DEFINE vpn == vAddr \div PageSize
           first == Translate(pageTable[2], vAddr, size)
           m == IF first = "PageFaultException" THEN PageFault(vpn) ELSE Memory
           T == m.tables
           G == m.global
           M == m.memory
           frame == T[2][vpn].physicalPage
<1>1. /\ step = 4 /\ first # "AddressErrorException"
      /\ retry' = Translate(T[2], vAddr, size)
      /\ globalPageTable' = [G EXCEPT ![frame].useStamp = @ + 1]
      /\ pageTable' = [T EXCEPT ![2][vpn].dirty = @ \/ writing]
      /\ mainMemory' = [a \in Address |->
           IF writing /\ a - frame * PageSize - (vAddr % PageSize) \in 0 .. size - 1
             THEN value ELSE M[a]]
      /\ file' = m.file
      /\ expected' = [a \in DOMAIN expected |->
           IF writing /\ a \in vAddr .. vAddr + size - 1 THEN value ELSE expected[a]]
      /\ step' = step
  BY Zenon DEF Access, Running
<1>2. PagingAssumption /\ UseInv /\ file = Program
  BY DEF PagingInv, PagingType
<1>3. PageSize \in Nat /\ PageSize > 0 /\ NumPhysPages \in Nat /\ numPages \in Nat
        /\ numPages <= NumPhysPages
  BY <1>2, PageSizes
<1>4. vAddr \in Nat /\ vpn \in Nat
  <2>1. vAddr \in Nat
    BY <1>3 DEF Address
  <2> QED BY <1>3, <2>1, DivMod
<1>5. vAddr % size = 0 /\ vpn < numPages
  <2>1. ~(vAddr % size # 0 \/ vAddr \div PageSize >= numPages)
    BY <1>1, Zenon DEF Translate
  <2> QED BY <1>3, <1>4, <2>1
<1>6. vpn \in Page
  BY <1>3, <1>4, <1>5 DEF Page, Frame
<1>7. first = "PageFaultException" <=> pageTable[2][vpn].physicalPage = -1
  <2>1. pageTable[2][vpn].valid
    BY <1>2, <1>6 DEF UseInv
  <2> QED BY <1>1, <2>1, Zenon DEF Translate
<1> HIDE DEF first, vpn
<1>8. m.file = Program /\ \E f \in Frame : Usable(m.tables, m.global, m.memory, vpn, f)
  <2>1. CASE first = "PageFaultException"
    <3>1. pageTable[2][vpn].physicalPage = -1
      BY <1>7, <2>1
    <3>2. m = PageFault(vpn)
      BY <2>1, Zenon
    <3>3. PageFault(vpn).file = Program
            /\ \E f \in Frame : Usable(PageFault(vpn).tables, PageFault(vpn).global,
                 PageFault(vpn).memory, vpn, f)
      BY <1>1, <1>6, <3>1, FaultBringsPage, Zenon
    <3> QED BY <3>2, <3>3, Zenon
  <2>2. CASE first # "PageFaultException"
    <3>1. pageTable[2][vpn].physicalPage # -1
      BY <1>7, <2>2
    <3>2. m = Memory
      BY <2>2, Zenon
    <3>3. m.file = file /\ m.tables = pageTable /\ m.global = globalPageTable
            /\ m.memory = mainMemory
      BY <3>2 DEF Memory
    <3>4. \E f \in Frame : Usable(pageTable, globalPageTable, mainMemory, vpn, f)
      BY <1>1, <1>6, <3>1, ResidentPage, Zenon
    <3> QED BY <1>2, <3>3, <3>4, Zenon
  <2> QED BY <2>1, <2>2
<1>9. PICK f \in Frame : Usable(T, G, M, vpn, f)
  BY <1>8, Zenon
<1>10. file' = Program
  BY <1>1, <1>8, Zenon
<1> HIDE DEF m, T, G, M
<1>11. T \in Tables /\ G \in [Frame -> GlobalEntry] /\ frame = f /\ T[2][vpn].valid
  BY <1>9 DEF Usable, Tables
<1>12. frame # -1
  BY <1>3, <1>11 DEF Frame
<1>13. retry' = "NoException"
  <2>1. retry' = Translate(T[2], vAddr, size)
    BY <1>1, Zenon
  <2> QED BY <1>3, <1>4, <1>5, <1>11, <1>12, <2>1 DEF Translate, vpn
<1> HIDE DEF frame
<1>14. Counted(G, globalPageTable', frame)
  BY <1>1, <1>11, UseCounted, Zenon
<1>15. Touched(T, pageTable', vpn)
  BY <1>1, <1>6, <1>11, TableTouched, Zenon
<1>16. vpn = vAddr \div PageSize
  BY DEF vpn
<1>17. step = 4 /\ step' = step /\ frame \in Frame /\ Usable(T, G, M, vpn, frame)
  BY <1>1, <1>9, <1>11, Zenon
<1>18. /\ mainMemory' = [a \in Address |->
           IF writing /\ a - frame * PageSize - (vAddr % PageSize) \in 0 .. size - 1
             THEN value ELSE M[a]]
       /\ expected' = [a \in DOMAIN expected |->
           IF writing /\ a \in vAddr .. vAddr + size - 1 THEN value ELSE expected[a]]
  BY <1>1, Zenon
<1>19. Accessed(T, G, M, vAddr, size, vpn, frame, writing, value)
  BY <1>5, <1>10, <1>13, <1>14, <1>15, <1>16, <1>17, <1>18, Zenon DEF Accessed
<1>20. frame \in Frame
  BY <1>17
<1> QED BY <1>4, <1>6, <1>19, <1>20, AccessKeeps, Zenon

(* Every step keeps the invariant. *)
LEMMA PagingStep ==
  ASSUME PagingInv, [NextPaging]_pagingVars
  PROVE  PagingInv'
<1>1. CASE Load
  BY <1>1, LoadKeeps
<1>2. CASE Execute
  <2>1. step = 3 /\ step' = 4 /\ UNCHANGED <<globalPageTable, mainMemory, pageTable, file,
          retry, expected>>
    BY <1>2 DEF Execute
  <2>2. PagingType'
    BY <2>1 DEF PagingInv, PagingType
  <2>3. UseInv'
    BY <2>1 DEF PagingInv, UseInv
  <2>4. \A v \in Page : pageTable[2][v].physicalPage = -1
    BY <2>1 DEF PagingInv, UseInv
  <2>5. expected = FirstSight
    BY <2>1 DEF PagingInv, SeenInv
  <2>6. Sees(pageTable, mainMemory)
    <3> SUFFICES ASSUME NEW a \in 0 .. numPages * PageSize - 1
                 PROVE  ByteIn(pageTable, mainMemory, a) = expected[a]
      BY DEF Sees
    <3>1. a \div PageSize \in Page
      BY ByteOfPage DEF PagingInv
    <3> QED BY <2>4, <2>5, <3>1, Zenon DEF ByteIn, FirstSight, Unknown
  <2>7. SeenInv'
    <3>1. Sees(pageTable, mainMemory)'
      BY <2>1, <2>6, Zenon DEF Sees, ByteIn
    <3> QED BY <2>1, <3>1 DEF SeenInv
  <2>8. (Agree(pageTable, globalPageTable) /\ PagingAssumption /\ Counting
          /\ retry = "NoException")'
    BY <2>1 DEF PagingInv
  <2> QED BY <2>2, <2>3, <2>7, <2>8 DEF PagingInv
<1>3. ASSUME NEW vAddr \in Address, NEW size \in Size, ReadMem(vAddr, size)
      PROVE  PagingInv'
  BY <1>3, AccessStep, Zenon DEF ReadMem
<1>4. ASSUME NEW vAddr \in Address, NEW size \in Size, NEW value \in Value,
        WriteMem(vAddr, size, value)
      PROVE  PagingInv'
  BY <1>4, AccessStep, Zenon DEF WriteMem
<1>5. ASSUME NEW vAddr \in Address, NEW size \in Size, AddressError(vAddr, size)
      PROVE  PagingInv'
  <2>1. step = 4 /\ step' = 5 /\ UNCHANGED <<globalPageTable, mainMemory, pageTable, file,
          retry, expected>>
    BY <1>5 DEF AddressError, Running
  <2>2. PagingType'
    BY <2>1 DEF PagingInv, PagingType
  <2>3. UseInv'
    BY <2>1 DEF PagingInv, UseInv
  <2>4. Sees(pageTable, mainMemory)'
    <3>1. Sees(pageTable, mainMemory)
      BY <2>1 DEF PagingInv, SeenInv
    <3> QED BY <2>1, <3>1, Zenon DEF Sees, ByteIn
  <2>5. (SeenInv /\ Agree(pageTable, globalPageTable) /\ PagingAssumption /\ Counting
          /\ retry = "NoException")'
    BY <2>1, <2>4 DEF PagingInv, SeenInv
  <2> QED BY <2>2, <2>3, <2>5 DEF PagingInv
<1>6. CASE UNCHANGED pagingVars
  <2>1. UNCHANGED <<globalPageTable, mainMemory, pageTable, file, step, retry, expected>>
    BY <1>6 DEF pagingVars
  <2>2. PagingType'
    BY <2>1 DEF PagingInv, PagingType
  <2>3. UseInv'
    BY <2>1 DEF PagingInv, UseInv
  <2>4. SeenInv'
    BY <2>1, Zenon DEF PagingInv, SeenInv, Sees, ByteIn, FirstSight
  <2>5. (Agree(pageTable, globalPageTable) /\ PagingAssumption /\ Counting
          /\ retry = "NoException")'
    BY <2>1 DEF PagingInv
  <2> QED BY <2>2, <2>3, <2>4, <2>5 DEF PagingInv
<1> QED BY <1>1, <1>2, <1>3, <1>4, <1>5, <1>6 DEF NextPaging

(* Both translations, the machine's and the address space's, and the global *)
(* table agree.                                                             *)
LEMMA PagingTablesAgree ==
  ASSUME PagingInv
  PROVE  TablesAgree
<1>1. Agree(pageTable, globalPageTable) /\ UseInv /\ PagingAssumption
  BY DEF PagingInv
<1>2. ASSUME Running
      PROVE  FindFreeFrame(globalPageTable) = -1
  BY <1>1, <1>2 DEF UseInv, FindFreeFrame, Running, Nobody
<1>3. ASSUME Running, NEW a \in Address
      PROVE  Translate(pageTable[2], a, 1) = SpaceTranslate(pageTable[2], a)
  <2>1. a \in Nat
    BY <1>1, PageSizes DEF Address
  <2>2. a % 1 = 0
    BY <2>1
  <2> DEFINE v == a \div PageSize
  <2>3. v \in Nat /\ numPages \in Nat
    BY <1>1, <2>1, PageSizes, DivMod
  <2>4. v < numPages => pageTable[2][v].valid
    <3>1. v < numPages => v \in Page
      BY <1>1, <2>3, PageSizes DEF Page, Frame
    <3> QED BY <1>1, <3>1 DEF UseInv
  <2> QED BY <2>2, <2>3, <2>4, Zenon DEF Translate, SpaceTranslate
<1> QED BY <1>1, <1>2, <1>3, Zenon DEF TablesAgree, Agree, Nobody

(* What the program reads is what it expects. *)
LEMMA PagingReadSeesWrite ==
  ASSUME PagingInv
  PROVE  ReadSeesWrite
<1>1. retry = "NoException" /\ file = Program /\ DOMAIN expected = 0 .. numPages * PageSize - 1
  BY DEF PagingInv, PagingType
<1>2. ASSUME Running, NEW a \in DOMAIN expected, expected[a] # Unknown
      PROVE  ByteAt(a) = expected[a]
  <2>1. ByteIn(pageTable, mainMemory, a) = expected[a]
    BY <1>1, <1>2 DEF PagingInv, SeenInv, Sees, Running, Unknown
  <2>2. ByteAt(a) = ByteIn(pageTable, mainMemory, a)
    BY <1>1 DEF ByteAt, ByteIn, Unknown
  <2> QED BY <2>1, <2>2
<1> QED BY <1>1, <1>2 DEF ReadSeesWrite

-----------------------------------------------------------------------------
(* Counting, and the theorem. *)

INSTANCE WellFoundedInduction

INSTANCE FiniteSetTheorems

(* A set of natural numbers that is not empty has a least element. *)
LEMMA LeastNat ==
  ASSUME NEW S \in SUBSET Nat, S # {}
  PROVE  \E m \in S : \A n \in S : m <= n
<1> DEFINE Less == {ss \in Nat \X Nat : ss[1] < ss[2]}
<1>1. OpToRel(<, Nat) = Less
  BY Zenon DEF OpToRel
<1>2. IsWellFoundedOn(Less, Nat)
  BY NatLessThanWellFounded, <1>1, Zenon
<1> HIDE DEF Less
<1>3. \E x \in S : \A y \in S : ~ (<<y, x>> \in Less)
  BY <1>2, WFMin, Zenon
<1>4. ASSUME NEW x \in Nat, NEW y \in Nat, y < x
      PROVE  <<y, x>> \in Less
  <2>1. <<y, x>> \in Nat \X Nat
    OBVIOUS
  <2>2. <<y, x>>[1] < <<y, x>>[2]
    BY <1>4
  <2> QED BY <2>1, <2>2, Zenon DEF Less
<1>5. PICK m \in S : \A y \in S : ~ (<<y, m>> \in Less)
  BY <1>3
<1>6. ASSUME NEW n \in S PROVE m <= n
  <2>1. ~ (n < m)
    BY <1>4, <1>5, Zenon
  <2> QED BY <2>1
<1> QED
  BY <1>6

(* Frames that have different pages have all of them. *)
LEMMA PagesAndFrames == PagingAssumption => AsManyFramesAsPages
<1> SUFFICES ASSUME PagingAssumption, NEW f \in [Frame -> Page], \A p, q \in Frame : f[p]
      = f[q] => p = q,
                    NEW vpn \in Page, \A p \in Frame : f[p] # vpn
             PROVE  FALSE
  BY DEF AsManyFramesAsPages
<1> DEFINE T == Page \ {vpn}
<1>1. NumPhysPages \in Nat /\ NumPhysPages > 0
  BY PageSizes
<1>2. IsFiniteSet(Frame) /\ Cardinality(Frame) = NumPhysPages
  BY <1>1, FS_Interval DEF Frame
<1>3. IsFiniteSet(T) /\ Cardinality(T) = NumPhysPages - 1
  BY <1>2, FS_RemoveElement DEF Page
<1>5. f \in [Frame -> T]
  OBVIOUS
<1>6. \E x, y \in Frame : x # y /\ f[x] = f[y]
  <2>1. Cardinality(T) < Cardinality(Frame)
    BY <1>1, <1>2, <1>3
  <2> HIDE DEF T
  <2> QED BY <1>2, <1>3, <1>5, <2>1, FS_PigeonHole
<1> QED BY <1>6

(* The invariant is inductive. *)
LEMMA PagingInductive == PagingAssumption /\ SpecPaging => []PagingInv
<1>1. PagingAssumption /\ InitPaging => PagingInv
  <2>1. LeastExists
    BY LeastNat DEF LeastExists
  <2> QED BY <2>1, PagingInit, PagesAndFrames DEF Counting
<1>2. PagingInv /\ [NextPaging]_pagingVars => PagingInv'
  BY PagingStep
<1> QED BY <1>1, <1>2, PTL DEF SpecPaging

(* For every number of frames, page size, program and sequence of accesses by *)
(* the second of two address spaces, the page tables and the global table     *)
(* agree, and so do the translations of the machine and of AddrSpace: a frame *)
(* is never the frame of two pages, and no page keeps a frame that was taken  *)
(* from it.                                                                   *)
THEOREM PagingTables == PagingAssumption /\ SpecPaging => []TablesAgree
BY PagingInductive, PagingTablesAgree, PTL

(* For all of them, a read returns what was last written, or what the program *)
(* file has: no page is lost when its frame is taken, no write reaches the    *)
(* file, and the retry after a page fault succeeds.                           *)
THEOREM PagingReads == PagingAssumption /\ SpecPaging => []ReadSeesWrite
BY PagingInductive, PagingReadSeesWrite, PTL
=============================================================================
