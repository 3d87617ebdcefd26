------------------------------- MODULE Paging -------------------------------
(***************************************************************************)
(* Virtual memory (machine/translate.cc, machine.cc, userprog/addrspace.cc *)
(* and the page fault handler in exception.cc).  As main does it, the      *)
(* program is loaded into two address spaces, and the second one runs.     *)
(*                                                                         *)
(* The page tables have an entry for every frame of the machine.  Memory   *)
(* and the program's file are cells of a byte.  There is no TLB (USE_TLB). *)
(***************************************************************************)
EXTENDS Integers

CONSTANTS
  NumPhysPages, PageSize,
  Segments,     \* the segments in the order of the handler's tests: virtualAddr, size, inFileAddr
  Program,      \* the file's bytes, from offset 0
  UserSpace,    \* bytes of code, data and stack
  Size,         \* sizes of accesses
  Value,        \* bytes that the program writes
  MaxStamp      \* a bound: accesses to one frame

PagingAssumption ==
  /\ {NumPhysPages, PageSize, UserSpace, MaxStamp} \subseteq Nat \ {0}
  /\ UserSpace <= NumPhysPages * PageSize
  /\ \A size \in Size : size \in Nat \ {0} /\ PageSize % size = 0
  /\ Program = [o \in DOMAIN Program |-> Program[o]]

VARIABLES
  globalPageTable,   \* Machine::GlobalPageTable
  mainMemory,        \* the bytes of the frames
  pageTable,         \* of the two address spaces
  file,              \* the program's file on the disk
  step,              \* main: which space is loaded next, then "run" or "aborted"
  retry,             \* what Translate says after the page fault was handled
  expected           \* what the program knows of its memory (not in the code)

pagingVars == <<globalPageTable, mainMemory, pageTable, file, step, retry, expected>>

Frame == 0 .. NumPhysPages - 1
Page == Frame
numPages == (UserSpace + PageSize - 1) \div PageSize
Address == 0 .. NumPhysPages * PageSize - 1
Unknown == -1
Nobody == 0
Least(S) == CHOOSE n \in S : \A m \in S : n <= m

Entry(frame) == [physicalPage |-> frame, valid |-> TRUE, dirty |-> FALSE]
Global(vir, ref) == [virNum |-> vir, refPageTable |-> ref, useStamp |-> 0]

(* The offset in the file of a byte of the program, Unknown for a byte that  *)
(* is in no segment.                                                         *)
InFile(vAddr) ==
  LET in == {i \in DOMAIN Segments :
               vAddr >= Segments[i].virtualAddr /\ vAddr < Segments[i].virtualAddr + Segments[i].size}
  IN  IF in = {} THEN Unknown
      ELSE Segments[Least(in)].inFileAddr + vAddr - Segments[Least(in)].virtualAddr

(* The constructor of Machine. *)
InitPaging ==
  /\ globalPageTable = [p \in Frame |-> Global(-1, Nobody)]
  /\ mainMemory = [a \in Address |-> 0]
  /\ pageTable = [s \in {1, 2} |-> [v \in Page |-> Entry(-1)]]
  /\ file = Program
  /\ step = 1
  /\ retry = "NoException"
  /\ expected = [a \in 0 .. numPages * PageSize - 1 |->
                   IF InFile(a) = Unknown THEN Unknown ELSE Program[InFile(a)]]

(* Machine::findFreeFrame, -1 where there is none. *)
FindFreeFrame(global) ==
  LET free == {p \in Frame : global[p].refPageTable = Nobody} IN IF free = {} THEN -1 ELSE Least(free)

(* Mutant: the wrong comparison. *)
FindMostUsed(global) ==
  Least({p \in Frame : \A q \in Frame : global[p].useStamp >= global[q].useStamp})

(* Machine::findFreeByLRU: the first frame with the fewest uses. *)
FindFreeByLRU(global) ==
  Least({p \in Frame : \A q \in Frame : global[p].useStamp <= global[q].useStamp})

(* AddrSpace::Load of a file that is there and a program that fits: every    *)
(* entry of the page table takes the next free frame while there are any,    *)
(* and the bytes of the segments whose pages have one are read.              *)
Load ==
  /\ step \in {1, 2}
  /\ LET free == {p \in Frame : globalPageTable[p].refPageTable = Nobody} IN
     \E frame \in [Page -> free \cup {-1}] :
       LET owner(p) == CHOOSE v \in Page : frame[v] = p IN
       /\ \A v, w \in Page : v < w /\ frame[w] # -1 => frame[v] \in 0 .. frame[w] - 1
       /\ \A p \in free : \E v \in Page : frame[v] = p
       /\ pageTable' = [pageTable EXCEPT ![step] = [v \in Page |-> Entry(frame[v])]]
       /\ globalPageTable' = [p \in Frame |-> IF p \in free THEN Global(owner(p), step) ELSE globalPageTable[p]]
       /\ mainMemory' = [a \in Address |->
            LET p == a \div PageSize
                vAddr == owner(p) * PageSize + (a % PageSize)
            IN  IF p \in free /\ InFile(vAddr) # Unknown THEN file[InFile(vAddr)] ELSE mainMemory[a]]
  /\ step' = IF step = 1 THEN 2 ELSE 3
  /\ UNCHANGED <<file, retry, expected>>

(* AddrSpace::Execute of the second space. *)
Execute ==
  /\ step = 3
  /\ step' = 4
  /\ UNCHANGED <<globalPageTable, mainMemory, pageTable, file, retry, expected>>

Running == step = 4

(* Machine::Translate: what it returns; no page is read-only, and no frame   *)
(* beyond memory.                                                            *)
Translate(table, vAddr, size) ==
  LET vpn == vAddr \div PageSize IN
  IF vAddr % size # 0 \/ vpn >= numPages THEN "AddressErrorException"
  ELSE IF ~table[vpn].valid \/ table[vpn].physicalPage = -1 THEN "PageFaultException"
  ELSE "NoException"

(* AddrSpace::Translate: what it returns. *)
SpaceTranslate(table, vAddr) ==
  LET vpn == vAddr \div PageSize IN
  IF vpn >= numPages THEN "AddressErrorException"
  ELSE IF table[vpn].physicalPage = -1 \/ ~table[vpn].valid THEN "PageFaultException"
  ELSE "NoException"

Memory == [global |-> globalPageTable, memory |-> mainMemory, tables |-> pageTable, file |-> file]

(* Mutant: the entry of the page that loses its frame stays valid. *)
PageFaultKeepsVictim(vpn) ==
  LET phy == FindFreeByLRU(globalPageTable)
  IN  [global |-> [globalPageTable EXCEPT ![phy] = Global(vpn, 2)],
       memory |-> [a \in Address |->
          LET vAddr == vpn * PageSize + (a % PageSize)
          IN  IF a \div PageSize = phy /\ InFile(vAddr) # Unknown THEN file[InFile(vAddr)] ELSE mainMemory[a]],
       tables |-> [pageTable EXCEPT ![2][vpn] = Entry(phy)],
       file |-> file]

(* The page fault handler where no frame is free (NoFreeFrame): the page     *)
(* with the fewest uses is written back if it is dirty, to its page number   *)
(* times PageSize in the file; the bytes of the page that lie in a segment   *)
(* are read, the others stay; the tables are changed.                        *)
PageFault(vpn) ==
  LET phy == FindFreeByLRU(globalPageTable)
      old == globalPageTable[phy]
      victim == pageTable[old.refPageTable][old.virNum]
      start == old.virNum * PageSize
      written == [o \in DOMAIN file |->
                    IF victim.dirty /\ o \in start .. start + PageSize - 1
                    THEN mainMemory[phy * PageSize + o - start] ELSE file[o]]
  IN  [global |-> [globalPageTable EXCEPT ![phy] = Global(vpn, 2)],
       memory |-> [a \in Address |->
          LET vAddr == vpn * PageSize + (a % PageSize)
          IN  IF a \div PageSize = phy /\ InFile(vAddr) # Unknown THEN written[InFile(vAddr)] ELSE mainMemory[a]],
       tables |-> [pageTable EXCEPT ![old.refPageTable][old.virNum].valid = FALSE, ![2][vpn] = Entry(phy)],
       file |-> written]

(* ReadMem and WriteMem: a page fault is handled, and the translation is     *)
(* tried again; what it returns then is not looked at.                       *)
Access(vAddr, size, writing, value) ==
  LET vpn == vAddr \div PageSize
      first == Translate(pageTable[2], vAddr, size)
      m == IF first = "PageFaultException" THEN PageFault(vpn) ELSE Memory
      frame == m.tables[2][vpn].physicalPage
  IN  /\ Running
      /\ first # "AddressErrorException"
      /\ m.global[frame].useStamp < MaxStamp
      /\ retry' = Translate(m.tables[2], vAddr, size)
      /\ globalPageTable' = [m.global EXCEPT ![frame].useStamp = @ + 1]
      /\ pageTable' = [m.tables EXCEPT ![2][vpn].dirty = @ \/ writing]
      /\ mainMemory' = [a \in Address |->
           IF writing /\ a - frame * PageSize - (vAddr % PageSize) \in 0 .. size - 1 THEN value ELSE m.memory[a]]
      /\ file' = m.file
      /\ expected' = [a \in DOMAIN expected |->
           IF writing /\ a \in vAddr .. vAddr + size - 1 THEN value ELSE expected[a]]
      /\ UNCHANGED step

ReadMem(vAddr, size) == Access(vAddr, size, FALSE, 0)
WriteMem(vAddr, size, value) == Access(vAddr, size, TRUE, value)

(* Any other exception ends in ASSERTNOTREACHED. *)
AddressError(vAddr, size) ==
  /\ Running
  /\ Translate(pageTable[2], vAddr, size) = "AddressErrorException"
  /\ step' = 5
  /\ UNCHANGED <<globalPageTable, mainMemory, pageTable, file, retry, expected>>

NextPaging ==
  \/ Load
  \/ Execute
  \/ \E vAddr \in Address, size \in Size :
       \/ ReadMem(vAddr, size)
       \/ \E value \in Value : WriteMem(vAddr, size, value)
       \/ AddressError(vAddr, size)

SpecPaging == InitPaging /\ [][NextPaging]_pagingVars

-----------------------------------------------------------------------------
(* Properties.                                                              *)

(* The two kinds of tables agree: a page that can be used has a frame of its *)
(* own, which the global table knows to be this page's, and every page that  *)
(* the global table knows of can be used.  While a program runs no frame is  *)
(* free: the fault handler sets vir, the page that loses its frame, only when *)
(* it finds none free, and uses it in any case.  And the two translations, of *)
(* the machine and of the address space, agree on every byte.                *)
TablesAgree ==
  /\ \A s \in {1, 2}, v \in Page :
       LET e == pageTable[s][v] IN
       e.valid /\ e.physicalPage # -1 =>
         globalPageTable[e.physicalPage].virNum = v /\ globalPageTable[e.physicalPage].refPageTable = s
  /\ \A p \in Frame :
       LET g == globalPageTable[p] IN
       g.refPageTable # Nobody =>
         pageTable[g.refPageTable][g.virNum].valid /\ pageTable[g.refPageTable][g.virNum].physicalPage = p
  /\ Running =>
       /\ FindFreeFrame(globalPageTable) = -1
       /\ \A a \in Address : Translate(pageTable[2], a, 1) = SpaceTranslate(pageTable[2], a)

(* What a byte of the running program is now, or will be once its page has   *)
(* been brought in.                                                          *)
ByteAt(a) ==
  LET e == pageTable[2][a \div PageSize] IN
  IF e.valid /\ e.physicalPage # -1 THEN mainMemory[e.physicalPage * PageSize + (a % PageSize)]
  ELSE IF InFile(a) = Unknown THEN Unknown ELSE file[InFile(a)]

(* The program finds its code and data, and what it has written last,        *)
(* however its pages come and go: the pages of the other space always go     *)
(* first, so that what is wrong with writing back does not show.  When        *)
(* ReadMem or WriteMem goes on after a page fault the page is there, so that *)
(* the result of the second Translate may be ignored.                        *)
ReadSeesWrite ==
  /\ retry = "NoException"
  /\ Running => \A a \in DOMAIN expected : expected[a] # Unknown => ByteAt(a) = expected[a]
=============================================================================
