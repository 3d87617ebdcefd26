---------------------------- MODULE DeviceProofs ----------------------------
(***************************************************************************)
(* Proofs about what is written: to a file by coff2noff (CoffToNoff, for   *)
(* every number, size and order of the sections), to the disk and to the   *)
(* display (SynchDevice, SynchDisk and Console, for any number of threads, *)
(* sectors and keys).                                                      *)
(*                                                                         *)
(* CoffInv is the inductive invariant of coff2noff.  DeviceInv is the      *)
(* invariant of the protocol that SynchDisk and the display share.  The    *)
(* invariants of the two are that one and what each keeps besides:         *)
(* DiskInv, and ConsoleInv with EndInv.                                    *)
(***************************************************************************)
EXTENDS CoffToNoff, SynchDisk, TLAPS

-----------------------------------------------------------------------------
(* coff2noff. *)

(* The segments with contents in the file, and a segment's entry. *)
FileSegments == {"code", "initData", "readonlyData"}
Segment == FileSegments \cup {"uninitData"}
Header == [virtualAddr : Int, inFileAddr : Int, size : Nat]

(* The n-th section has been copied to its segment. *)
Entry(s) == noffH[SegmentOf[s.s_name]]
InFile(n, at, size) ==
  \A k \in 1 .. size : /\ at + (k - 1) \in DOMAIN noff.bytes
                       /\ noff.bytes[at + (k - 1)] = <<n, k>>
CopiedAs(n, s) ==
  /\ s.s_name \in {".text", ".data", ".rdata"}
  /\ Entry(s).virtualAddr = s.s_paddr /\ Entry(s).size = s.s_size
  /\ InFile(n, Entry(s).inFileAddr, s.s_size)
HasContents(s) == s.s_size # 0 /\ s.s_name # ".bss"
Copied(n) == HasContents(coff.sections[n]) => CopiedAs(n, coff.sections[n])

(* The header is at the front of the file. *)
HeaderWritten ==
  \A k \in 1 .. HeaderSize : noff.bytes[k - 1] = <<0, k>>

(* The segments lie between the header and inNoffFile, and do not overlap. *)
SegmentsApart ==
  /\ \A seg \in FileSegments : noffH[seg].size # 0 =>
       HeaderSize <= noffH[seg].inFileAddr /\ noffH[seg].inFileAddr + noffH[seg].size <= inNoffFile
  /\ \A a, b \in FileSegments : a # b => Offsets(a) \cap Offsets(b) = {}

(* A file, with whatever bytes. *)
IsFile(f) == \E there, truncated, bytes :
  f = [there |-> there, truncated |-> truncated, bytes |-> bytes]

(* The types of coff2noff's variables. *)
CoffType ==
  /\ CoffAssumption
  /\ coff.sections \in Seq(Section) /\ Linked(coff.sections)
  /\ coffAt \in {"open", "headers", "segments", "exit"}
  /\ section \in Nat \ {0}
  /\ inNoffFile \in Nat /\ HeaderSize <= inNoffFile
  /\ noffH \in [Segment -> Header]
  /\ IsFile(noff)

(* The inductive invariant. *)
CoffInv ==
  /\ CoffType
  /\ status = IF coffAt = "exit" THEN status ELSE -1
  /\ coffAt = "open" => ~noff.truncated
  /\ coffAt \in {"open", "headers"} => section = 1
  /\ status = 1 /\ noff.there => ~noff.truncated
  /\ coffAt = "segments" /\ fdOut # -1 => fdOut = inNoffFile
  /\ SegmentsApart
  /\ status # 1 => \A n \in 1 .. (section - 1) : n \in 1 .. Len(coff.sections) => Copied(n)
  /\ status = 0 => HeaderWritten /\ section > Len(coff.sections)

(* The names of the sections. *)
LEMMA SegmentNames ==
  /\ DOMAIN SegmentOf = {".text", ".data", ".rdata", ".bss"}
  /\ SegmentOf[".text"] = "code" /\ SegmentOf[".data"] = "initData"
  /\ SegmentOf[".rdata"] = "readonlyData" /\ SegmentOf[".bss"] = "uninitData"
BY DEF SegmentOf

(* A section's size and address. *)
LEMMA SectionFields ==
  ASSUME CoffAssumption, NEW s \in Section
  PROVE  s.s_size \in Nat /\ s.s_paddr \in Nat
BY Zenon DEF Section, CoffAssumption

(* The file's bytes after a write of L bytes of section n, at a position. *)
Put(bytes, at, n, L) == Written(bytes, at, [k \in 1 .. L |-> <<n, k>>])

(* It holds those bytes there, and what it held before elsewhere. *)
IsPut(bytes, at, n, L, new) ==
  /\ \A k \in 1 .. L : at + (k - 1) \in DOMAIN new /\ new[at + (k - 1)] = <<n, k>>
  /\ \A p \in DOMAIN bytes :
       p \in DOMAIN new /\ (p \in Int /\ (p < at \/ p >= at + L) => new[p] = bytes[p])

(* The bytes that a write puts into the file, and those it leaves alone. *)
LEMMA WrittenProps ==
  ASSUME NEW bytes, NEW at \in Nat, NEW L \in Nat, NEW n
  PROVE  IsPut(bytes, at, n, L, Put(bytes, at, n, L))
<1> DEFINE contents == [k \in 1 .. L |-> <<n, k>>]
           new == Written(bytes, at, contents)
<1>1. Len(contents) = L /\ \A k \in 1 .. L : contents[k] = <<n, k>>
  OBVIOUS
<1> HIDE DEF contents
<1>2. DOMAIN new = DOMAIN bytes \cup {at + k : k \in 0 .. (L - 1)}
  BY <1>1 DEF Written
<1>3. \A p \in DOMAIN new : new[p] = IF p \in at .. (at + L - 1) THEN contents[(p - at) + 1] ELSE bytes[p]
  BY <1>1 DEF Written
<1> HIDE DEF new
<1>4. ASSUME NEW k \in 1 .. L PROVE at + (k - 1) \in DOMAIN new /\ new[at + (k - 1)] = <<n, k>>
  <2>1. k - 1 \in 0 .. (L - 1) /\ at + (k - 1) \in at .. (at + L - 1) /\ ((at + (k - 1)) - at) + 1 = k
    OBVIOUS
  <2> QED BY <1>1, <1>2, <1>3, <2>1, Zenon
<1>5. ASSUME NEW p \in DOMAIN bytes
      PROVE  p \in DOMAIN new /\ (p \in Int /\ (p < at \/ p >= at + L) => new[p] = bytes[p])
  BY <1>2, <1>3
<1> QED BY <1>4, <1>5, Zenon DEF new, contents, Put, IsPut

(* The invariant holds at the start. *)
LEMMA CoffInit == CoffAssumption /\ InitCoff => CoffInv
<1> SUFFICES ASSUME CoffAssumption, InitCoff PROVE CoffInv
  OBVIOUS
<1>1. coff.sections \in Seq(Section) /\ Linked(coff.sections)
  <2>1. PICK k \in 0 .. MaxSections : coff.sections \in [1 .. k -> Section]
    BY DEF InitCoff
  <2>2. Linked(coff.sections)
    BY DEF InitCoff
  <2> QED BY <2>1, <2>2 DEF CoffAssumption
<1>2. /\ noffH \in [Segment -> Header]
      /\ \A seg \in FileSegments : noffH[seg].size = 0 /\ noffH[seg].inFileAddr = -1
  BY DEF InitCoff, Segment, Header, FileSegments, Junk
<1>3. SegmentsApart
  <2>1. \A seg \in FileSegments : Offsets(seg) = {}
    BY <1>2 DEF Offsets
  <2> QED BY <1>2, <2>1 DEF SegmentsApart
<1>4. ~noff.truncated /\ CoffType
  <2>1. PICK there \in BOOLEAN : noff = [there |-> there, truncated |-> FALSE, bytes |-> << >>]
    BY Zenon DEF InitCoff
  <2>2. IsFile(noff)
    BY <2>1, Zenon DEF IsFile
  <2> QED BY <1>1, <1>2, <2>1, <2>2 DEF InitCoff, CoffType, CoffAssumption
<1> QED BY <1>3, <1>4 DEF InitCoff, CoffInv

(* A failure keeps it: the output file is removed. *)
LEMMA FailKeeps ==
  ASSUME CoffInv, Fail
  PROVE  CoffInv'
<1>1. PICK there, truncated, bytes :
         noff = [there |-> there, truncated |-> truncated, bytes |-> bytes]
  BY Zenon DEF CoffInv, CoffType, IsFile
<1>2. noff' = [there |-> FALSE, truncated |-> truncated, bytes |-> bytes]
  BY <1>1, Zenon DEF Fail
<1>3. coffAt' = "exit" /\ status' = 1 /\ UNCHANGED <<coff, section, noffH, inNoffFile, fdOut>>
  BY DEF Fail
<1>4. CoffType'
  <2>1. IsFile(noff')
    BY <1>2, Zenon DEF IsFile
  <2> QED BY <1>3, <2>1 DEF CoffInv, CoffType
<1>5. SegmentsApart'
  BY <1>3, Zenon DEF CoffInv, SegmentsApart, Offsets
<1> QED BY <1>2, <1>3, <1>4, <1>5 DEF CoffInv

(* Opening the files keeps it. *)
LEMMA OpenKeeps ==
  ASSUME CoffInv, OpenFiles
  PROVE  CoffInv'
<1>1. /\ coffAt = "open" /\ section = 1 /\ ~noff.truncated /\ status = -1
      /\ UNCHANGED <<coff, section, noffH, inNoffFile>>
  BY DEF CoffInv, OpenFiles
<1>2. \/ coffAt' = "exit" /\ status' = 1 /\ noff' = noff
      \/ coffAt' = "headers" /\ status' = -1
           /\ (noff' = noff \/ noff' = [there |-> TRUE, truncated |-> TRUE, bytes |-> << >>])
  BY <1>1 DEF OpenFiles
<1>3. CoffType'
  <2>1. IsFile(noff')
    <3>1. CASE noff' = noff
      BY <3>1 DEF CoffInv, CoffType
    <3>2. CASE noff' = [there |-> TRUE, truncated |-> TRUE, bytes |-> << >>]
      BY <3>2, Zenon DEF IsFile
    <3> QED BY <1>2, <3>1, <3>2
  <2> QED BY <1>1, <1>2, <2>1 DEF CoffInv, CoffType
<1>4. SegmentsApart'
  BY <1>1, Zenon DEF CoffInv, SegmentsApart, Offsets
<1> QED BY <1>1, <1>2, <1>3, <1>4 DEF CoffInv

(* So does a section that is not copied: an empty one, or uninitialised data. *)
LEMMA SkipKeeps ==
  ASSUME CoffInv, coffAt = "segments", section <= Len(coff.sections),
         coff.sections[section].s_size = 0 \/ coff.sections[section].s_name = ".bss",
         section' = section + 1, UNCHANGED <<coff, coffAt, inNoffFile, fdOut, noff, status>>,
         noffH' \in [Segment -> Header], \A seg \in FileSegments : noffH'[seg] = noffH[seg]
  PROVE  CoffInv'
<1>1. status = -1 /\ section \in Nat \ {0}
  BY DEF CoffInv, CoffType
<1>2. CoffType'
  BY DEF CoffInv, CoffType
<1>3. SegmentsApart'
  BY Zenon DEF CoffInv, SegmentsApart, Offsets
<1>4. ASSUME NEW n \in 1 .. (section' - 1), n \in 1 .. Len(coff.sections) PROVE Copied(n)'
  <2>1. CASE n = section
    BY <2>1 DEF Copied, HasContents
  <2>2. CASE n # section
    <3>1. Copied(n)
      BY <1>1, <1>4, <2>2 DEF CoffInv
    <3>2. \A name \in {".text", ".data", ".rdata"} : SegmentOf[name] \in FileSegments
      BY SegmentNames DEF FileSegments
    <3> QED BY <3>1, <3>2, Zenon DEF Copied, CopiedAs, Entry, InFile
  <2> QED BY <2>1, <2>2
<1> QED BY <1>1, <1>2, <1>3, <1>4 DEF CoffInv

(* Copying a section keeps it: the contents go behind all that was copied     *)
(* before, and no section before it has its name.                             *)
LEMMA CopyKeeps ==
  ASSUME CoffInv, coffAt = "segments", section <= Len(coff.sections),
         coff.sections[section].s_size # 0,
         coff.sections[section].s_name \in {".text", ".data", ".rdata"},
         CopySegment(coff.sections[section], SegmentOf[coff.sections[section].s_name]),
         ~Fail
  PROVE  CoffInv'
<1>s. PICK s : s = coff.sections[section]
  OBVIOUS
<1>g. PICK seg : seg = SegmentOf[s.s_name]
  OBVIOUS
<1>1. /\ status = -1 /\ section \in 1 .. Len(coff.sections) /\ CoffType /\ CoffAssumption
      /\ fdOut = inNoffFile /\ inNoffFile \in Nat /\ HeaderSize \in Nat /\ HeaderSize <= inNoffFile
      /\ Linked(coff.sections) /\ coff.sections \in Seq(Section)
  BY DEF CoffInv, CoffType, CoffAssumption, CopySegment
<1>2. s \in Section /\ s.s_size \in Nat \ {0} /\ s.s_paddr \in Nat
  <2>1. s \in Section
    BY <1>s, <1>1
  <2> QED BY <1>s, <1>1, <2>1, SectionFields, Zenon
<1>3. seg \in FileSegments
  BY <1>s, <1>g, SegmentNames, Zenon DEF FileSegments
<1>4. /\ noffH' = [noffH EXCEPT ![seg] = [virtualAddr |-> s.s_paddr, inFileAddr |-> inNoffFile, size |-> s.s_size]]
      /\ noff' = [noff EXCEPT !.bytes = Written(noff.bytes, fdOut, Contents(section))]
      /\ fdOut' = fdOut + s.s_size /\ inNoffFile' = inNoffFile + s.s_size /\ section' = section + 1
      /\ UNCHANGED <<coff, coffAt, status>>
  BY <1>s, <1>g, Zenon DEF CopySegment
<1>5. noff'.bytes = Written(noff.bytes, inNoffFile, [k \in 1 .. s.s_size |-> <<section, k>>]) /\ IsFile(noff')
  <2>1. PICK there, truncated, bytes :
           noff = [there |-> there, truncated |-> truncated, bytes |-> bytes]
    BY <1>1, Zenon DEF CoffType, IsFile
  <2>2. noff' = [there |-> there, truncated |-> truncated,
                 bytes |-> Written(noff.bytes, fdOut, Contents(section))]
    BY <1>4, <2>1, Zenon
  <2>3. IsFile(noff')
    BY <2>2, Zenon DEF IsFile
  <2> QED BY <1>s, <1>1, <2>2, <2>3, Zenon DEF Contents
<1>n. PICK i : i = section
  OBVIOUS
<1>a. PICK at : at = inNoffFile
  OBVIOUS
<1>6. /\ InFile(i, at, s.s_size)'
      /\ \A p \in DOMAIN noff.bytes : p \in DOMAIN noff'.bytes
           /\ (p \in Int /\ p < at => noff'.bytes[p] = noff.bytes[p])
  <2>1. noff'.bytes = Put(noff.bytes, at, i, s.s_size) /\ at \in Nat /\ s.s_size \in Nat
    BY <1>n, <1>a, <1>1, <1>2, <1>5, Zenon DEF Put
  <2>2. IsPut(noff.bytes, at, i, s.s_size, noff'.bytes)
    BY <2>1, WrittenProps, Zenon
  <2>3. InFile(i, at, s.s_size)'
    BY <2>2, Zenon DEF InFile, IsPut
  <2> QED BY <2>2, <2>3, Zenon DEF IsPut
<1>7. /\ noffH' \in [Segment -> Header]
      /\ noffH'[seg] = [virtualAddr |-> s.s_paddr, inFileAddr |-> inNoffFile, size |-> s.s_size]
      /\ \A other \in Segment \ {seg} : noffH'[other] = noffH[other]
  <2>1. [virtualAddr |-> s.s_paddr, inFileAddr |-> inNoffFile, size |-> s.s_size] \in Header
    BY <1>1, <1>2 DEF Header
  <2>2. noffH \in [Segment -> Header] /\ seg \in Segment
    BY <1>1, <1>3, Zenon DEF CoffType, Segment
  <2> QED BY <1>4, <2>1, <2>2, Zenon
<1>8. CoffType'
  BY <1>1, <1>2, <1>4, <1>5, <1>7 DEF CoffType
<1>9. SegmentsApart'
  <2>1. \A a \in FileSegments : noffH[a].inFileAddr \in Int /\ noffH[a].size \in Nat /\ a \in Segment
    BY <1>1, Zenon DEF CoffType, Header, Segment
  <2>2. ASSUME NEW a \in FileSegments, noffH'[a].size # 0
        PROVE  HeaderSize <= noffH'[a].inFileAddr /\ noffH'[a].inFileAddr + noffH'[a].size <= inNoffFile'
    <3>1. CASE a = seg
      BY <1>1, <1>2, <1>4, <1>7, <3>1
    <3>2. CASE a # seg
      BY <1>1, <1>2, <1>4, <1>7, <2>1, <2>2, <3>2 DEF CoffInv, SegmentsApart
    <3> QED BY <3>1, <3>2, Zenon
  <2>3. ASSUME NEW a \in FileSegments, a # seg
        PROVE  Offsets(a)' = Offsets(a) /\ \A x \in Offsets(a) : x < inNoffFile
    <3>1. noffH'[a] = noffH[a]
      BY <1>7, <2>1, <2>3, Zenon
    <3>2. \A x \in Offsets(a) : x < inNoffFile
      <4>1. CASE noffH[a].size = 0
        BY <2>1, <4>1 DEF Offsets
      <4>2. CASE noffH[a].size # 0
        BY <1>1, <2>1, <4>2 DEF CoffInv, SegmentsApart, Offsets
      <4> QED BY <4>1, <4>2, Zenon
    <3> QED BY <3>1, <3>2, Zenon DEF Offsets
  <2>4. \A x \in Offsets(seg)' : x >= inNoffFile
    BY <1>1, <1>2, <1>4, <1>7 DEF Offsets
  <2>5. ASSUME NEW a \in FileSegments, NEW b \in FileSegments, a # b
        PROVE  Offsets(a)' \cap Offsets(b)' = {}
    <3>0. \A c \in FileSegments : Offsets(c) \subseteq Int
      BY <2>1 DEF Offsets
    <3>1. CASE a # seg /\ b # seg
      BY <2>3, <2>5, <3>1, Zenon DEF CoffInv, SegmentsApart
    <3>2. CASE a = seg
      BY <1>1, <2>3, <2>4, <2>5, <3>0, <3>2
    <3>3. CASE b = seg
      BY <1>1, <2>3, <2>4, <2>5, <3>0, <3>3
    <3> QED BY <3>1, <3>2, <3>3, Zenon
  <2> QED BY <2>2, <2>5, Zenon DEF SegmentsApart
<1>10. ASSUME NEW n \in 1 .. section, n \in 1 .. Len(coff.sections) PROVE Copied(n)'
  <2>1. CASE n = section
    <3>1. coff'.sections[n] = s /\ n = i /\ Entry(s)' = noffH'[seg]
      BY <1>n, <1>s, <1>g, <1>4, <2>1, Zenon DEF Entry
    <3>2. CopiedAs(i, s)'
      BY <1>s, <1>a, <1>6, <1>7, <3>1 DEF CopiedAs
    <3> QED BY <3>1, <3>2, Zenon DEF Copied
  <2>2. CASE n # section
    <3>t. PICK t : t = coff.sections[n]
      OBVIOUS
    <3> SUFFICES ASSUME HasContents(t) PROVE CopiedAs(n, t)'
      BY <1>4, <3>t, Zenon DEF Copied
    <3>1. CopiedAs(n, t)
      BY <1>1, <1>10, <2>2, <3>t DEF CoffInv, Copied
    <3>2. t \in Section /\ t.s_size \in Nat /\ t.s_name \in {".text", ".data", ".rdata"} /\ t.s_size # 0
      <4>1. t \in Section
        BY <1>1, <1>10, <3>t
      <4> QED BY <1>1, <3>1, <4>1, SectionFields, Zenon DEF CopiedAs, HasContents
    <3>3. t.s_name # s.s_name
      BY <1>s, <1>1, <1>10, <2>2, <3>t, <3>2, Zenon DEF Linked
    <3>o. PICK old : old = SegmentOf[t.s_name]
      OBVIOUS
    <3>4. old # seg /\ old \in FileSegments
      BY <1>s, <1>g, <3>o, <3>2, <3>3, SegmentNames, Zenon DEF FileSegments
    <3>5. /\ noffH'[old] = noffH[old] /\ noffH[old].inFileAddr \in Int /\ noffH[old].size = t.s_size
          /\ Entry(t) = noffH[old] /\ Entry(t)' = noffH'[old]
      <4>1. old \in Segment
        BY <3>4 DEF Segment
      <4> QED BY <1>1, <1>7, <3>o, <3>1, <3>4, <4>1, Zenon DEF Entry, CopiedAs, CoffType, Header
    <3>6. noffH[old].inFileAddr + t.s_size <= at
      BY <1>a, <3>2, <3>4, <3>5, Zenon DEF CoffInv, SegmentsApart
    <3>7. InFile(n, noffH[old].inFileAddr, t.s_size)'
      <4>f. PICK from : from = noffH[old].inFileAddr
        OBVIOUS
      <4>0. InFile(n, from, t.s_size)
        BY <4>f, <3>1, <3>5, Zenon DEF CopiedAs
      <4>1. \A k \in 1 .. t.s_size : from + (k - 1) \in Int /\ from + (k - 1) < at
        BY <1>a, <1>1, <3>2, <3>5, <3>6, <4>f
      <4>2. InFile(n, from, t.s_size)'
        BY <1>6, <4>0, <4>1, Zenon DEF InFile
      <4> QED BY <3>5, <4>f, <4>2, Zenon DEF InFile
    <3> QED BY <3>1, <3>5, <3>7, Zenon DEF CopiedAs, InFile
  <2> QED BY <2>1, <2>2
<1>11. section' - 1 = section
  BY <1>1, <1>4
<1> QED BY <1>1, <1>4, <1>8, <1>9, <1>10, <1>11 DEF CoffInv

(* Writing the header keeps it: the segments lie behind it. *)
LEMMA HeaderKeeps ==
  ASSUME CoffInv, WriteHeader, ~Fail
  PROVE  CoffInv'
<1>1. /\ coffAt' = "exit" /\ status' = 0 /\ section > Len(coff.sections) /\ status = -1
      /\ noff' = [noff EXCEPT !.bytes = Put(noff.bytes, 0, 0, HeaderSize)]
      /\ UNCHANGED <<coff, section, noffH, inNoffFile>>
  BY DEF WriteHeader, CoffInv, Put
<1>2. CoffType /\ CoffAssumption /\ HeaderSize \in Nat /\ section \in Nat
  BY DEF CoffInv, CoffType, CoffAssumption
<1>3. noff'.bytes = Put(noff.bytes, 0, 0, HeaderSize) /\ IsFile(noff')
  <2>1. PICK there, truncated, bytes :
           noff = [there |-> there, truncated |-> truncated, bytes |-> bytes]
    BY <1>2, Zenon DEF CoffType, IsFile
  <2>2. noff' = [there |-> there, truncated |-> truncated, bytes |-> Put(noff.bytes, 0, 0, HeaderSize)]
    BY <1>1, <2>1
  <2>3. IsFile(noff')
    BY <2>2, Zenon DEF IsFile
  <2> QED BY <2>2, <2>3
<1>4. IsPut(noff.bytes, 0, 0, HeaderSize, noff'.bytes)
  BY <1>2, <1>3, WrittenProps
<1>5. HeaderWritten'
  <2>1. \A k \in 1 .. HeaderSize : 0 + (k - 1) = k - 1
    BY <1>2
  <2> QED BY <1>4, <2>1 DEF HeaderWritten, IsPut
<1>6. CoffType'
  BY <1>1, <1>2, <1>3 DEF CoffType
<1>7. SegmentsApart'
  BY <1>1 DEF CoffInv, SegmentsApart, Offsets
<1>8. ASSUME NEW n \in 1 .. (section - 1), n \in 1 .. Len(coff.sections) PROVE Copied(n)'
  <2>t. PICK t : t = coff.sections[n]
    OBVIOUS
  <2> SUFFICES ASSUME HasContents(t) PROVE CopiedAs(n, t)'
    BY <1>1, <2>t DEF Copied
  <2>1. CopiedAs(n, t)
    BY <1>1, <1>8, <2>t DEF CoffInv, Copied
  <2>2. t \in Section /\ t.s_size \in Nat /\ t.s_size # 0
    <3>1. t \in Section
      BY <1>2, <1>8, <2>t DEF CoffType
    <3> QED BY <1>2, <3>1, SectionFields DEF HasContents
  <2>3. SegmentOf[t.s_name] \in FileSegments
    BY <2>1, SegmentNames DEF CopiedAs, FileSegments
  <2>f. PICK from : from = Entry(t).inFileAddr
    OBVIOUS
  <2>4. from \in Int /\ from >= HeaderSize /\ Entry(t)' = Entry(t)
    <3>1. Entry(t) \in Header /\ Entry(t).size # 0
      BY <1>2, <2>1, <2>2, <2>3, Zenon DEF Entry, CopiedAs, CoffType, Segment
    <3> QED BY <1>1, <1>2, <2>f, <2>3, <3>1, Zenon DEF Entry, Header, CoffInv, SegmentsApart
  <2>5. InFile(n, from, t.s_size)
    BY <2>f, <2>1 DEF CopiedAs
  <2>6. \A k \in 1 .. t.s_size : from + (k - 1) \in Int /\ from + (k - 1) >= 0 + HeaderSize
    BY <1>2, <2>2, <2>4
  <2>7. InFile(n, from, t.s_size)'
    BY <1>4, <2>5, <2>6, Zenon DEF InFile, IsPut
  <2> QED BY <2>f, <2>1, <2>4, <2>7 DEF CopiedAs
<1> QED BY <1>1, <1>2, <1>5, <1>6, <1>7, <1>8 DEF CoffInv

(* A section of uninitialised data changes no other segment. *)
LEMMA BssKeeps ==
  ASSUME CoffInv, coffAt = "segments", section <= Len(coff.sections),
         coff.sections[section].s_name = ".bss", AddBss(coff.sections[section]), ~Fail
  PROVE  CoffInv'
<1>1. PICK s : s = coff.sections[section]
  OBVIOUS
<1>2. s.s_size \in Nat /\ s.s_paddr \in Nat
  <2>1. s \in Section /\ CoffAssumption
    BY <1>1 DEF CoffInv, CoffType
  <2> QED BY <2>1, SectionFields
<1>3. /\ section' = section + 1 /\ UNCHANGED <<coff, coffAt, inNoffFile, fdOut, noff, status>>
      /\ \E new \in Header : noffH' = [noffH EXCEPT !.uninitData = new]
  <2>1. PICK u : u = noffH.uninitData
    OBVIOUS
  <2>2. u \in Header
    BY <2>1 DEF CoffInv, CoffType, Segment
  <2>3. [u EXCEPT !.size = @ + s.s_size] \in Header
    BY <1>2, <2>2 DEF Header
  <2>4. [virtualAddr |-> s.s_paddr, inFileAddr |-> u.inFileAddr, size |-> s.s_size] \in Header
    BY <1>2, <2>2 DEF Header
  <2> QED BY <1>1, <2>1, <2>3, <2>4, Zenon DEF AddBss
<1>4. noffH' \in [Segment -> Header] /\ \A seg \in FileSegments : noffH'[seg] = noffH[seg]
  BY <1>3 DEF CoffInv, CoffType, Segment, FileSegments
<1> QED BY <1>3, <1>4, SkipKeeps

(* Every step keeps the invariant. *)
LEMMA CoffStep == CoffInv /\ [NextCoff]_coffVars => CoffInv'
<1> SUFFICES ASSUME CoffInv, [NextCoff]_coffVars PROVE CoffInv'
  OBVIOUS
<1>1. CASE Fail
  BY <1>1, FailKeeps
<1>2. CASE ~Fail /\ ReadHeaders
  <2>1. /\ coffAt' = "segments" /\ fdOut' = (IF fdOut = -1 THEN -1 ELSE inNoffFile) /\ status = -1
        /\ UNCHANGED <<coff, section, noffH, inNoffFile, noff, status>> /\ section = 1
    BY <1>2 DEF ReadHeaders, CoffInv
  <2>2. CoffType'
    BY <2>1 DEF CoffInv, CoffType
  <2>3. SegmentsApart'
    BY <2>1, Zenon DEF CoffInv, SegmentsApart, Offsets
  <2> QED BY <2>1, <2>2, <2>3 DEF CoffInv
<1>3. CASE ~Fail /\ LoadSection
  <2>1. coffAt = "segments" /\ section <= Len(coff.sections)
    BY <1>3, Zenon DEF LoadSection
  <2>2. CASE /\ coff.sections[section].s_size = 0
             /\ section' = section + 1
             /\ UNCHANGED <<coff, coffAt, noffH, inNoffFile, fdOut, noff, status>>
    BY <2>1, <2>2, SkipKeeps, Zenon DEF CoffInv, CoffType
  <2>3. CASE /\ coff.sections[section].s_size # 0
             /\ coff.sections[section].s_name \in DOMAIN SegmentOf \ {".bss"}
             /\ CopySegment(coff.sections[section], SegmentOf[coff.sections[section].s_name])
    <3>1. coff.sections[section].s_name \in {".text", ".data", ".rdata"}
      BY <2>3, SegmentNames, Zenon
    <3> QED BY <1>3, <2>1, <2>3, <3>1, CopyKeeps, Zenon
  <2>4. CASE coff.sections[section].s_name = ".bss" /\ AddBss(coff.sections[section])
    BY <1>3, <2>1, <2>4, BssKeeps
  <2> QED BY <1>3, <2>2, <2>3, <2>4, Zenon DEF LoadSection
<1>4. CASE UNCHANGED coffVars
  <2>1. CoffType' /\ SegmentsApart'
    BY <1>4, Zenon DEF coffVars, CoffInv, CoffType, SegmentsApart, Offsets
  <2>2. HeaderWritten' = HeaderWritten /\ \A n : Copied(n)' = Copied(n)
    BY <1>4 DEF coffVars, HeaderWritten, Copied, CopiedAs, Entry, InFile
  <2> QED BY <1>4, <2>1, <2>2 DEF coffVars, CoffInv
<1> QED BY <1>1, <1>2, <1>3, <1>4, OpenKeeps, HeaderKeeps DEF NextCoff

(* What coff2noff writes is what it read, wherever and however large the      *)
(* sections are, and a conversion that fails leaves no half of a file.        *)
THEOREM NoffFaithful == CoffAssumption /\ SpecCoff => []NoffIsFaithful
<1>1. CoffInv => NoffIsFaithful
  <2> SUFFICES ASSUME CoffInv, status = 0 PROVE NoffIsFaithful
    BY Zenon DEF CoffInv, NoffIsFaithful
  <2>1. /\ HeaderWritten /\ SegmentsApart
        /\ \A n \in 1 .. Len(coff.sections) : Copied(n)
    BY DEF CoffInv, CoffType
  <2>2. ASSUME NEW n \in 1 .. Len(coff.sections), HasContents(coff.sections[n])
        PROVE  LET s == coff.sections[n]
                   h == noffH[SegmentOf[s.s_name]] IN
               /\ h.virtualAddr = s.s_paddr /\ h.size = s.s_size
               /\ \A k \in 1 .. s.s_size : noff.bytes[h.inFileAddr + k - 1] = <<n, k>>
    <3>1. PICK s : s = coff.sections[n]
      OBVIOUS
    <3>2. PICK h : h = noffH[SegmentOf[s.s_name]]
      OBVIOUS
    <3>3. /\ s.s_name \in {".text", ".data", ".rdata"} /\ h.virtualAddr = s.s_paddr /\ h.size = s.s_size
          /\ InFile(n, h.inFileAddr, s.s_size)
      BY <2>1, <2>2, <3>1, <3>2, Zenon DEF Copied, CopiedAs, Entry
    <3>4. h.inFileAddr \in Int
      BY <3>2, <3>3, SegmentNames, Zenon DEF CoffInv, CoffType, Segment, FileSegments, Header
    <3>5. \A k \in 1 .. s.s_size : h.inFileAddr + (k - 1) = h.inFileAddr + k - 1
      BY <3>4
    <3>6. \A k \in 1 .. s.s_size : noff.bytes[h.inFileAddr + k - 1] = <<n, k>>
      BY <3>3, <3>5, Zenon DEF InFile
    <3> QED BY <3>1, <3>2, <3>3, <3>6, Zenon
  <2>3. /\ \A k \in 1 .. HeaderSize : noff.bytes[k - 1] = <<0, k>>
        /\ \A a, b \in {"code", "initData", "readonlyData"} : a # b => Offsets(a) \cap Offsets(b) = {}
    BY <2>1, Zenon DEF HeaderWritten, SegmentsApart, FileSegments
  <2>4. status # 1
    OBVIOUS
  <2> QED BY <2>2, <2>3, <2>4, Zenon DEF NoffIsFaithful, HasContents
<1> QED BY <1>1, CoffInit, CoffStep, PTL DEF SpecCoff

-----------------------------------------------------------------------------
(* The protocol of a synchronous device. *)

(* Where a thread is in a call of a synchronous device. *)
Place == {"out", "acquire", "request", "wait", "release"}

(* The inductive invariant of the protocol: who is past Acquire has the lock, *)
(* and as long as one waits its interrupt is to come or has come.             *)
DeviceInv ==
  /\ DeviceAssumption
  /\ place \in [Thread -> Place] /\ semaphore \in Nat /\ active \in BOOLEAN
  /\ ~failed
  /\ \A t \in Thread : place[t] \in {"request", "wait", "release"} => lockHolder = t
  /\ \A t \in Thread : place[t] = "wait" => semaphore = IF active THEN 0 ELSE 1
  /\ (\A t \in Thread : place[t] # "wait") => ~active /\ semaphore = 0

(* The invariant holds when nobody is in a call. *)
LEMMA DeviceStart == DeviceAssumption /\ DeviceInit => DeviceInv
<1> SUFFICES ASSUME DeviceAssumption, DeviceInit PROVE DeviceInv
  OBVIOUS
<1>1. \A t \in Thread : place[t] = "out"
  BY DEF DeviceInit
<1>2. ~failed /\ ~active /\ semaphore = 0
  BY DEF DeviceInit
<1>3. place \in [Thread -> Place] /\ active \in BOOLEAN
  BY Zenon DEF DeviceInit, Place
<1> QED BY <1>1, <1>2, <1>3 DEF DeviceInv

(* Every step of a call keeps the invariant: a request finds the device idle, *)
(* because nobody else is past Acquire.                                       *)
LEMMA DeviceStep ==
  ASSUME DeviceInv, NEW t \in Thread,
         Enter(t) \/ Acquire(t) \/ Request(t) \/ P(t) \/ Release(t)
  PROVE  DeviceInv'
<1> USE DEF DeviceInv, Place, DeviceAssumption
<1>1. CASE Enter(t)
  BY <1>1 DEF Enter
<1>2. CASE Acquire(t)
  BY <1>2 DEF Acquire
<1>3. CASE Request(t)
  <2>1. \A u \in Thread : place[u] # "wait"
    BY <1>3 DEF Request
  <2> QED BY <1>3, <2>1 DEF Request
<1>4. CASE P(t)
  <2>1. \A u \in Thread \ {t} : place[u] # "wait"
    BY <1>4 DEF P
  <2> QED BY <1>4, <2>1 DEF P
<1>5. CASE Release(t)
  <2>1. \A u \in Thread : place[u] # "wait" /\ (u # t
          => place[u] \notin {"request", "wait", "release"})
    BY <1>5 DEF Release
  <2>2. ~active' /\ semaphore' = 0 /\ ~failed'
    BY <1>5, <2>1 DEF Release
  <2>3. \A u \in Thread : place'[u] \notin {"request", "wait", "release"}
    BY <1>5, <2>1 DEF Release
  <2> QED BY <1>5, <2>2, <2>3 DEF Release
<1> QED BY <1>1, <1>2, <1>3, <1>4, <1>5, Zenon

(* The interrupt keeps it: somebody waits, and the semaphore goes from 0 to *)
(* 1.                                                                       *)
LEMMA DeviceInterrupt ==
  ASSUME DeviceInv, Interrupt
  PROVE  DeviceInv'
<1> USE DEF DeviceInv, Place, DeviceAssumption
<1>1. PICK u \in Thread : place[u] = "wait"
  BY DEF Interrupt
<1>2. active' = FALSE /\ semaphore' = 1 /\ UNCHANGED <<lockHolder, place, failed>>
  BY <1>1 DEF Interrupt
<1> QED BY <1>1, <1>2, Zenon

(* The invariant implies that there is one request at a time. *)
LEMMA DeviceSafe == DeviceInv => OneRequestAtATime
BY DEF DeviceInv, OneRequestAtATime

-----------------------------------------------------------------------------
(* The synchronous disk. *)

(* A call of ReadSector, whose write is NULL, or of WriteSector. *)
Transfer == [sector : Sector, write : Value \cup {NULL}]

(* The inductive invariant of SynchDisk: the protocol's, and what the host's *)
(* file and the buffers of the threads contain.                              *)
DiskInv ==
  /\ DiskAssumption
  /\ DeviceInv
  /\ up \in BOOLEAN
  /\ file \in [0 .. NumSectors -> Value \cup {Magic}]
  /\ call \in [Thread -> Transfer \cup {NULL}]
  /\ data \in [Thread -> Value \cup {NULL}]
  /\ file[0] = Magic
  /\ \A s \in Sector : file[1 + s] \in Value
  /\ \A t \in Thread : call[t] = NULL <=> place[t] = "out"
  /\ \A t \in Thread : place[t] \in {"wait", "release"} => data[t] \in Value

(* Disk::Disk makes a file that satisfies it. *)
LEMMA SynchDiskInit == DiskAssumption /\ InitSynchDisk => DiskInv
<1> SUFFICES ASSUME DiskAssumption, InitSynchDisk PROVE DiskInv
  OBVIOUS
<1>1. PICK zero \in Value : file = [i \in 0 .. NumSectors |-> IF i = 0 THEN Magic ELSE zero]
  BY DEF InitSynchDisk
<1>2. /\ file \in [0 .. NumSectors -> Value \cup {Magic}] /\ file[0] = Magic
      /\ \A s \in Sector : file[1 + s] \in Value
  BY <1>1 DEF DiskAssumption, Sector
<1>3. DeviceInv /\ \A t \in Thread : place[t] = "out"
  BY DeviceStart DEF DiskAssumption, InitSynchDisk, DeviceInit
<1> QED BY <1>2, <1>3 DEF InitSynchDisk, DiskInv

(* Every step of SynchDisk, a crash and a restart of the machine included, *)
(* keeps the invariant.                                                    *)
LEMMA SynchDiskStep == DiskInv /\ [NextSynchDisk]_synchDiskVars => DiskInv'
<1> SUFFICES ASSUME DiskInv, [NextSynchDisk]_synchDiskVars PROVE DiskInv'
  OBVIOUS
<1>a. /\ DeviceInv /\ place \in [Thread -> Place] /\ NumSectors \in Nat
      /\ NULL \notin Transfer /\ NULL \notin Value
      /\ DiskAssumption
  BY DEF DiskInv, DeviceInv, DiskAssumption, Transfer
<1>1. ASSUME NEW t \in Thread, NEW s \in Sector, NEW v \in Value \cup {NULL},
        Call(t, s, v)
      PROVE  DiskInv'
  <2>1. DeviceInv'
    BY <1>1, <1>a, DeviceStep, Zenon DEF Call, Enter
  <2>2. [sector |-> s, write |-> v] \in Transfer
    BY <1>1 DEF Transfer
  <2> QED BY <1>1, <1>a, <2>1, <2>2, Zenon DEF DiskInv, Call, Enter
<1>2. ASSUME NEW t \in Thread, Acquire(t) \/ P(t), UNCHANGED <<file, up, call, data>>
      PROVE  DiskInv'
  <2>1. DeviceInv'
    BY <1>2, <1>a, DeviceStep DEF Acquire, P
  <2> QED BY <1>2, <1>a, <2>1, Zenon DEF DiskInv, Acquire, P
<1>3. ASSUME NEW t \in Thread, ReadRequest(t) PROVE DiskInv'
  <2>1. DeviceInv'
    BY <1>3, <1>a, DeviceStep, Zenon DEF ReadRequest, Request
  <2>2. call[t] \in Transfer /\ file[1 + call[t].sector] \in Value
    BY <1>3 DEF DiskInv, ReadRequest, Transfer
  <2> QED BY <1>3, <1>a, <2>1, <2>2, Zenon DEF DiskInv, ReadRequest, Request, Position
<1>4. ASSUME NEW t \in Thread, WriteRequest(t) PROVE DiskInv'
  <2>1. DeviceInv'
    BY <1>4, <1>a, DeviceStep, Zenon DEF WriteRequest, Request
  <2>2. call[t].sector \in 0 .. NumSectors - 1 /\ call[t].write \in Value
    BY <1>4 DEF DiskInv, WriteRequest, Transfer, Sector
  <2>3. file' = [file EXCEPT ![1 + call[t].sector] = call[t].write]
    BY <1>4 DEF WriteRequest, Position
  <2>4. /\ file' \in [0 .. NumSectors -> Value \cup {Magic}] /\ file'[0] = Magic
        /\ \A s \in Sector : file'[1 + s] \in Value
    BY <1>a, <2>2, <2>3 DEF DiskInv, Sector
  <2> QED BY <1>4, <1>a, <2>1, <2>2, <2>4, Zenon DEF DiskInv, WriteRequest, Request
<1>5. ASSUME NEW t \in Thread, SectorDone(t) PROVE DiskInv'
  <2>1. DeviceInv'
    BY <1>5, <1>a, DeviceStep, Zenon DEF SectorDone, Release
  <2> QED BY <1>5, <1>a, <2>1, Zenon DEF DiskInv, SectorDone, Release
<1>6. CASE CallBack
  <2>1. DeviceInv'
    BY <1>6, <1>a, DeviceInterrupt, Zenon DEF CallBack, Interrupt
  <2> QED BY <1>6, <1>a, <2>1 DEF DiskInv, CallBack, Interrupt
<1>7. CASE Crash
  <2>1. DeviceInv'
    BY <1>7, <1>a, Zenon DEF DeviceInv, Place, DeviceAssumption, Crash
  <2> QED BY <1>7, <1>a, <2>1, Zenon DEF DiskInv, Crash
<1>8. CASE Boot
  <2>1. DeviceInv'
    BY <1>8, <1>a, Zenon DEF DiskInv, DeviceInv, Place, DeviceAssumption, Boot
  <2> QED BY <1>8, <1>a, <2>1 DEF DiskInv, Boot
<1>9. CASE UNCHANGED synchDiskVars
  BY <1>9 DEF synchDiskVars, deviceVars, DiskInv, DeviceInv, Place, DeviceAssumption
<1> QED
  BY <1>1, <1>2, <1>3, <1>4, <1>5, <1>6, <1>7, <1>8, <1>9, Zenon
     DEF NextSynchDisk, Running, SectorIO

(* SynchDisk::ReadSector and WriteSector give the disk one request at a time, *)
(* and the interrupt that a thread waits for is its own, for any number of    *)
(* threads and sectors, even when the machine crashes and boots in between.   *)
THEOREM SynchDiskRequests == DiskAssumption /\ SpecSynchDisk => []OneRequestAtATime
<1>1. DiskInv => OneRequestAtATime
  BY DeviceSafe DEF DiskInv, OneRequestAtATime
<1> QED BY <1>1, SynchDiskInit, SynchDiskStep, PTL DEF SpecSynchDisk

(* An empty disk is an empty sector store. *)
LEMMA StoreInit == DiskInv /\ InitSynchDisk => Store!Init
BY DEF DiskInv, InitSynchDisk, DeviceInit, Store!Init, Sector

(* Every step of SynchDisk is a step of SectorStore or changes nothing of it: *)
(* a call takes effect when its request reaches the disk.                     *)
LEMMA StoreStep == DiskInv /\ DiskInv' /\ [NextSynchDisk]_synchDiskVars => [Store!Next]_Store!vars
<1> SUFFICES ASSUME DiskInv, DiskInv', [NextSynchDisk]_synchDiskVars PROVE [Store!Next]_Store!vars
  OBVIOUS
<1> USE DEF DiskInv, Transfer, DiskAssumption, DeviceInv, Place
<1>1. ASSUME NEW t \in Thread, NEW s \in Sector, NEW v \in Value \cup {NULL},
        Call(t, s, v) PROVE Store!Invoke(t)
  <2>1. call[t] = NULL /\ UNCHANGED file
    BY <1>1, Zenon DEF Call, Enter
  <2>2. call' = [call EXCEPT ![t] = [sector |-> s, write |-> v]]
    BY <1>1, Zenon DEF Call
  <2>3. [u \in Thread |-> IF place'[u] \in {"wait", "release"} THEN data'[u] ELSE NULL]
          = [u \in Thread |-> IF place[u] \in {"wait", "release"} THEN data[u] ELSE NULL]
    <3>0. /\ place \in [Thread -> Place] /\ data \in [Thread -> Value \cup {NULL}]
          /\ place[t] = "out" /\ place' = [place EXCEPT ![t] = "acquire"]
          /\ data' = [data EXCEPT ![t] = NULL]
      BY <1>1, Zenon DEF Call, Enter
    <3> HIDE DEF DiskInv, DeviceInv, Place
    <3>1. ASSUME NEW u \in Thread
          PROVE  (IF place'[u] \in {"wait", "release"} THEN data'[u] ELSE NULL)
                   = (IF place[u] \in {"wait", "release"} THEN data[u] ELSE NULL)
      <4>1. CASE u = t
        <5>1. place[u] = "out" /\ place'[u] = "acquire"
          BY <3>0, <4>1, Zenon
        <5> QED BY <5>1, Zenon
      <4>2. CASE u # t
        <5>1. place'[u] = place[u] /\ data'[u] = data[u]
          BY <3>0, <4>2, Zenon
        <5> QED BY <5>1, Zenon
      <4> QED BY <4>1, <4>2, Zenon
    <3> QED BY <3>1, Zenon
  <2> QED BY <2>1, <2>2, <2>3, Zenon DEF Store!Invoke
<1>2. ASSUME NEW t \in Thread, Acquire(t) \/ P(t),
        UNCHANGED <<file, up, call, data>> PROVE UNCHANGED Store!vars
  BY <1>2 DEF Acquire, P, Store!vars
<1>4. ASSUME NEW t \in Thread, ReadRequest(t) PROVE Store!TakeEffect(t)
  <2> DEFINE s == call[t].sector
  <2>1. s \in Sector /\ call[t] # NULL /\ call[t].write = NULL
    BY <1>4 DEF ReadRequest
  <2>2. [i \in Sector |-> file[1 + i]] \in [Sector -> Value]
    BY Zenon
  <2>3. [u \in Thread |-> IF place'[u] \in {"wait", "release"} THEN data'[u] ELSE NULL]
          = [[u \in Thread |-> IF place[u] \in {"wait", "release"} THEN data[u] ELSE NULL]
              EXCEPT ![t] = file[1 + s]]
    BY <1>4, Zenon DEF ReadRequest, Request, Position
  <2>4. UNCHANGED <<file, call>> /\ place[t] = "request"
    BY <1>4, Zenon DEF ReadRequest, Request
  <2> QED BY <2>1, <2>2, <2>3, <2>4, Zenon DEF Store!TakeEffect
<1>5. ASSUME NEW t \in Thread, WriteRequest(t) PROVE Store!TakeEffect(t)
  <2> DEFINE s == call[t].sector
             v == call[t].write
  <2>1. s \in Sector /\ call[t] # NULL /\ v # NULL
    BY <1>5 DEF WriteRequest
  <2>2. [i \in Sector |-> file'[1 + i]] = [[i \in Sector |-> file[1 + i]] EXCEPT ![s] = v]
    <3>1. file' = [file EXCEPT ![1 + s] = v]
      BY <1>5, Zenon DEF WriteRequest, Position
    <3>2. \A i \in Sector : file'[1 + i] = IF i = s THEN v ELSE file[1 + i]
      BY <2>1, <3>1 DEF Sector
    <3> HIDE DEF DiskInv, DeviceInv
    <3> QED BY <2>1, <3>2, Zenon
  <2>3. [u \in Thread |-> IF place'[u] \in {"wait", "release"} THEN data'[u] ELSE NULL]
          = [[u \in Thread |-> IF place[u] \in {"wait", "release"} THEN data[u] ELSE NULL]
              EXCEPT ![t] = v]
    BY <1>5, Zenon DEF WriteRequest, Request
  <2>4. UNCHANGED call /\ place[t] = "request"
    BY <1>5, Zenon DEF WriteRequest, Request
  <2> QED BY <2>1, <2>2, <2>3, <2>4, Zenon DEF Store!TakeEffect
<1>6. ASSUME NEW t \in Thread, SectorDone(t) PROVE Store!Return(t)
  BY <1>6, Zenon DEF SectorDone, Release, Store!Return
<1>7. CASE CallBack
  BY <1>7, Zenon DEF CallBack, Interrupt, Store!vars
<1>8. CASE Crash
  BY <1>8, Zenon DEF Crash, Store!Crash, Store!Next
<1>9. CASE Boot
  BY <1>9, Zenon DEF Boot, Store!vars
<1>10. CASE UNCHANGED synchDiskVars
  BY <1>10, Zenon DEF synchDiskVars, deviceVars, Store!vars
<1> QED BY <1>1, <1>2, <1>4, <1>5, <1>6, <1>7, <1>8, <1>9, <1>10, Zenon
      DEF NextSynchDisk, Running, SectorIO, Store!Next

(* SynchDisk on the simulated disk implements SectorStore: every read returns *)
(* what the last write of the sector wrote, calls take effect at one instant  *)
(* between their beginning and their end, and what was written survives a     *)
(* crash.                                                                     *)
THEOREM SynchDiskIsStore == DiskAssumption /\ SpecSynchDisk => ImplementsStore
BY SynchDiskInit, SynchDiskStep, StoreInit, StoreStep, PTL DEF SpecSynchDisk, ImplementsStore,
  Store!Spec

-----------------------------------------------------------------------------
(* The console. *)

CONSTANTS Char, EOF, Texts

VARIABLES text, typed, incoming, polling, waitFor, inHolder, at, ch, display

C == INSTANCE Console

(* What is left of the input when a key has been read. *)
LEMMA FirstKey ==
  ASSUME NEW T, NEW s \in Seq(T), s # <<>>
  PROVE  /\ Head(s) \in T /\ Tail(s) \in Seq(T) /\ Head(s) = s[1]
         /\ Len(Tail(s)) = Len(s) - 1 /\ Len(s) \in Nat \ {0}
         /\ \A i \in 1 .. Len(Tail(s)) : Tail(s)[i] = s[i + 1]
OBVIOUS

(* What can be read from the host: a character, or EOF. *)
Key == Char \cup {EOF}

(* The types of the console's state. *)
ConsoleType ==
  /\ text \in Seq(Key) /\ typed \in Seq(Key) /\ display \in Seq(Key)
  /\ incoming \in Key /\ ch \in [Thread -> Key]
  /\ polling \in BOOLEAN /\ waitFor \in {0, 1}
  /\ at \in [Thread -> {"absent", "acquire", "wait", "get", "echo", "finished"}]

(* Who waits for a key or takes it has the lock of SynchConsoleInput; between *)
(* the interrupt and GetChar no poll is pending, so that no key overwrites    *)
(* the one that waits.                                                        *)
KeyboardInv ==
  /\ \A t \in Thread : at[t] \in {"wait", "get"} => inHolder = t
  /\ \A t \in Thread : at[t] = "get" => ~polling /\ waitFor = 0
  /\ polling => incoming = EOF /\ waitFor = 0

(* The inductive invariant of the console: the display's protocol and the *)
(* keyboard.                                                              *)
ConsoleInv ==
  /\ C!ConsoleAssumption
  /\ DeviceInv
  /\ ConsoleType
  /\ KeyboardInv
  /\ \A t \in Thread : at[t] # "echo" => place[t] = "out"

(* It holds when the console is made. *)
LEMMA ConsoleInit == C!ConsoleAssumption /\ C!Init => ConsoleInv
<1> SUFFICES ASSUME C!ConsoleAssumption, C!Init PROVE ConsoleInv
  OBVIOUS
<1>1. DeviceInv /\ \A t \in Thread : place[t] = "out"
  BY DeviceStart DEF C!ConsoleAssumption, C!DeviceAssumption, DeviceAssumption, C!Init,
     C!DeviceInit, DeviceInit
<1>2. PICK users \in SUBSET Thread \ {{}} :
        at = [t \in Thread |-> IF t \in users THEN "acquire" ELSE "absent"]
  BY Zenon DEF C!Init
<1>3. ConsoleType
  BY <1>2 DEF C!Init, C!ConsoleAssumption, ConsoleType, Key
<1>4. KeyboardInv
  BY <1>2 DEF C!Init, KeyboardInv
<1> QED BY <1>1, <1>3, <1>4 DEF ConsoleInv

(* ConsoleInput::CallBack finds the device empty, and keeps the invariant. *)
LEMMA KeyCallBackKeeps ==
  ASSUME ConsoleInv, C!KeyCallBack
  PROVE  ConsoleInv'
<1>1. incoming = EOF /\ waitFor = 0 /\ \A t \in Thread : at[t] # "get"
  BY DEF C!KeyCallBack, ConsoleInv, KeyboardInv
<1>2. ~failed'
  BY <1>1, Zenon DEF C!KeyCallBack, ConsoleInv, DeviceInv
<1>3. DeviceInv'
  BY <1>2, Zenon DEF C!KeyCallBack, ConsoleInv, DeviceInv, DeviceAssumption, Place
<1>4. ConsoleType'
  <2>1. incoming' \in Key /\ typed' \in Seq(Key)
    <3>1. CASE typed = <<>>
      BY <3>1 DEF C!KeyCallBack, ConsoleInv, ConsoleType
    <3>2. CASE typed # <<>>
      <4>1. typed \in Seq(Key) /\ incoming' = Head(typed) /\ typed' = Tail(typed)
        BY <3>2 DEF C!KeyCallBack, ConsoleInv, ConsoleType
      <4> QED BY <3>2, <4>1, FirstKey
    <3> QED BY <3>1, <3>2
  <2>2. polling' = FALSE /\ waitFor' = 1 /\ UNCHANGED <<text, display, ch, at>>
    BY <1>1 DEF C!KeyCallBack
  <2> QED BY <2>1, <2>2, Zenon DEF ConsoleInv, ConsoleType
<1>5. KeyboardInv'
  BY <1>1 DEF C!KeyCallBack, ConsoleInv, ConsoleType, KeyboardInv
<1> QED BY <1>3, <1>4, <1>5, Zenon DEF C!KeyCallBack, ConsoleInv

(* Every step of a thread in ConsoleTest keeps the invariant. *)
LEMMA EchoKeeps ==
  ASSUME ConsoleInv, NEW t \in Thread, C!Echo(t)
  PROVE  ConsoleInv'
<1>a. /\ DeviceInv /\ ConsoleType /\ KeyboardInv /\ C!ConsoleAssumption
      /\ place \in [Thread -> Place] /\ NULL \notin Thread
      /\ \A u \in Thread : at[u] # "echo" => place[u] = "out"
  BY DEF ConsoleInv, DeviceInv, DeviceAssumption
<1>1. ASSUME UNCHANGED C!deviceVars PROVE DeviceInv' /\ place' = place
  BY <1>1, <1>a, Zenon DEF C!deviceVars, DeviceInv, DeviceAssumption, Place
<1>2. CASE C!GetCharAcquire(t)
  <2>1. DeviceInv' /\ place' = place
    BY <1>1, <1>2 DEF C!GetCharAcquire
  <2>2. ConsoleType'
    BY <1>a, <1>2 DEF C!GetCharAcquire, ConsoleType
  <2>3. KeyboardInv'
    BY <1>a, <1>2, Zenon DEF C!GetCharAcquire, ConsoleType, KeyboardInv
  <2> QED BY <1>a, <1>2, <2>1, <2>2, <2>3, Zenon DEF C!GetCharAcquire, ConsoleInv, ConsoleType
<1>3. CASE C!GetCharP(t)
  <2>1. DeviceInv' /\ place' = place
    BY <1>1, <1>3 DEF C!GetCharP
  <2>2. ConsoleType'
    BY <1>a, <1>3 DEF C!GetCharP, ConsoleType
  <2>3. KeyboardInv'
    BY <1>a, <1>3 DEF C!GetCharP, ConsoleType, KeyboardInv
  <2> QED BY <1>a, <1>3, <2>1, <2>2, <2>3, Zenon DEF C!GetCharP, ConsoleInv, ConsoleType
<1>4. CASE C!GetChar(t)
  <2>1. DeviceInv' /\ place' = place
    BY <1>1, <1>4 DEF C!GetChar
  <2>2. ConsoleType'
    BY <1>a, <1>4, Zenon DEF C!GetChar, ConsoleType, Key
  <2>3. KeyboardInv'
    <3>1. \A u \in Thread \ {t} : at[u] \notin {"wait", "get"}
      BY <1>a, <1>4 DEF C!GetChar, KeyboardInv
    <3> QED BY <1>a, <1>4, <3>1, Zenon DEF C!GetChar, ConsoleType, KeyboardInv
  <2> QED BY <1>a, <1>4, <2>1, <2>2, <2>3, Zenon DEF C!GetChar, ConsoleInv, ConsoleType
<1>5. CASE C!PutChar(t)
  <2>1. CASE (C!Enter(t) \/ C!Acquire(t) \/ C!P(t)) /\ UNCHANGED <<C!inputVars, display>>
    <3>1. DeviceInv'
      BY <1>a, <2>1, DeviceStep, Zenon DEF C!Enter, C!Acquire, C!P, Enter, Acquire, P
    <3>2. ConsoleType' /\ KeyboardInv'
      BY <1>a, <2>1, Zenon DEF C!inputVars, ConsoleType, KeyboardInv
    <3> QED BY <1>a, <1>5, <2>1, <3>1, <3>2, Zenon DEF C!PutChar, C!inputVars, C!Enter, C!Acquire,
          C!P, ConsoleInv
  <2>2. CASE C!Request(t) /\ display' = Append(display, ch[t]) /\ UNCHANGED C!inputVars
    <3>1. DeviceInv'
      BY <1>a, <2>2, DeviceStep, Zenon DEF C!Request, Request
    <3>2. ConsoleType' /\ KeyboardInv'
      BY <1>a, <2>2 DEF C!inputVars, ConsoleType, KeyboardInv
    <3> QED BY <1>a, <1>5, <2>2, <3>1, <3>2, Zenon DEF C!PutChar, C!inputVars, C!Request, ConsoleInv
  <2>3. CASE /\ C!Release(t)
             /\ at' = [at EXCEPT ![t] = "acquire"]
             /\ ch' = [ch EXCEPT ![t] = EOF]
             /\ UNCHANGED <<text, typed, incoming, polling, waitFor, inHolder, display>>
    <3>1. DeviceInv'
      BY <1>a, <2>3, DeviceStep, Zenon DEF C!Release, Release
    <3>2. ConsoleType'
      BY <1>a, <2>3, Zenon DEF ConsoleType, Key
    <3>3. KeyboardInv'
      BY <1>a, <2>3, Zenon DEF ConsoleType, KeyboardInv
    <3> QED BY <1>a, <2>3, <3>1, <3>2, <3>3, Zenon DEF C!Release, ConsoleInv, ConsoleType
  <2> QED BY <1>5, <2>1, <2>2, <2>3, Zenon DEF C!PutChar
<1> QED BY <1>2, <1>3, <1>4, <1>5 DEF C!Echo

(* Every step keeps the invariant. *)
LEMMA ConsoleStep == ConsoleInv /\ [C!Next]_C!vars => ConsoleInv'
<1> SUFFICES ASSUME ConsoleInv, [C!Next]_C!vars PROVE ConsoleInv'
  OBVIOUS
<1>1. CASE C!PutCallBack
  <2>1. DeviceInv'
    BY <1>1, DeviceInterrupt, Zenon DEF C!PutCallBack, C!Interrupt, Interrupt, ConsoleInv
  <2> QED BY <1>1, <2>1, Zenon DEF C!PutCallBack, C!Interrupt, C!inputVars, ConsoleInv, ConsoleType,
        KeyboardInv
<1>2. CASE UNCHANGED C!vars
  BY <1>2, Zenon DEF C!vars, C!inputVars, C!deviceVars, ConsoleInv, ConsoleType, KeyboardInv,
    DeviceInv, DeviceAssumption, Place
<1> QED BY <1>1, <1>2, KeyCallBackKeeps, EchoKeeps DEF C!Next

(* SynchConsoleOutput::PutChar gives the display one character at a time, and *)
(* ConsoleInput::CallBack never finds the previous key still there, for any   *)
(* number of threads.                                                         *)
THEOREM ConsoleRequests == C!ConsoleAssumption /\ C!Spec => []C!OneRequestAtATime
<1>1. ConsoleInv => C!OneRequestAtATime
  BY DeviceSafe DEF ConsoleInv, C!OneRequestAtATime, OneRequestAtATime
<1> QED BY <1>1, ConsoleInit, ConsoleStep, PTL DEF C!Spec

(* The input has no byte 0xFF, which the char EOF cannot be told from. *)
PlainText == Texts \subseteq Seq(Char)

(* A thread has been told that the input is at its end. *)
Finished == \E t \in Thread : at[t] = "finished"

(* The inductive invariant for the end of the input: once EOF has been    *)
(* delivered nothing is left, and EOF is in the device after an interrupt *)
(* only when nothing is left.                                             *)
EndInv ==
  /\ typed \in Seq(Char)
  /\ Finished => typed = <<>> /\ incoming = EOF /\ ~polling /\ waitFor = 0 /\ \A t \in Thread :
       at[t] # "get"
  /\ waitFor = 1 \/ (\E t \in Thread : at[t] = "get") => (incoming = EOF => typed = <<>>)

(* It holds at the start, when nobody has read anything. *)
LEMMA EndInit == PlainText /\ C!Init => EndInv
<1> SUFFICES ASSUME PlainText, C!Init PROVE EndInv
  OBVIOUS
<1>1. PICK users \in SUBSET Thread \ {{}} :
        at = [t \in Thread |-> IF t \in users THEN "acquire" ELSE "absent"]
  BY DEF C!Init
<1> QED BY <1>1 DEF C!Init, PlainText, EndInv, Finished

(* Every step keeps it. *)
LEMMA EndStep == ConsoleInv /\ EndInv /\ [C!Next]_C!vars => EndInv'
<1> SUFFICES ASSUME ConsoleInv, EndInv, [C!Next]_C!vars PROVE EndInv'
  OBVIOUS
<1>a. ConsoleType /\ KeyboardInv /\ EOF \notin Char
  BY DEF ConsoleInv, C!ConsoleAssumption
<1>1. CASE C!KeyCallBack
  <2>1. ~Finished /\ (\A t \in Thread : at[t] # "get") /\ UNCHANGED at
    BY <1>1, <1>a, Zenon DEF C!KeyCallBack, EndInv, KeyboardInv, Finished
  <2>2. CASE typed = <<>>
    BY <1>1, <1>a, <2>1, <2>2, Zenon DEF C!KeyCallBack, EndInv, Finished
  <2>3. CASE typed # <<>>
    <3>1. Head(typed) \in Char /\ Tail(typed) \in Seq(Char)
      BY <2>3, FirstKey DEF EndInv
    <3> QED BY <1>1, <1>a, <2>1, <2>3, <3>1, Zenon DEF C!KeyCallBack, EndInv, Finished
  <2> QED BY <2>2, <2>3
<1>2. ASSUME NEW t \in Thread, C!GetCharAcquire(t) PROVE EndInv'
  BY <1>2, <1>a, Zenon DEF C!GetCharAcquire, ConsoleType, EndInv, Finished
<1>3. ASSUME NEW t \in Thread, C!GetCharP(t) PROVE EndInv'
  BY <1>3, <1>a DEF C!GetCharP, ConsoleType, EndInv, Finished
<1>4. ASSUME NEW t \in Thread, C!GetChar(t) PROVE EndInv'
  <2>1. ~polling /\ waitFor = 0 /\ ~Finished /\ \A u \in Thread \ {t} : at[u] # "get"
    BY <1>4, <1>a, Zenon DEF C!GetChar, KeyboardInv, EndInv
  <2>2. \A u \in Thread : at'[u] # "get"
    BY <1>4, <1>a, <2>1, Zenon DEF C!GetChar, ConsoleType
  <2>3. CASE incoming = EOF
    BY <1>4, <2>1, <2>2, <2>3, Zenon DEF C!GetChar, EndInv, Finished
  <2>4. CASE incoming # EOF
    <3>1. ~Finished'
      BY <1>4, <1>a, <2>1, <2>4, Zenon DEF C!GetChar, Finished, ConsoleType
    <3> QED BY <1>4, <2>1, <2>2, <3>1 DEF C!GetChar, EndInv
  <2> QED BY <2>3, <2>4
<1>5. ASSUME NEW t \in Thread, C!PutChar(t) PROVE EndInv'
  <2>1. UNCHANGED <<typed, incoming, polling, waitFor>>
    BY <1>5 DEF C!PutChar, C!inputVars
  <2>2. \A u \in Thread : (at'[u] = "get" <=> at[u] = "get") /\ (at'[u] = "finished"
          <=> at[u] = "finished")
    BY <1>5, <1>a, Zenon DEF C!PutChar, C!inputVars, ConsoleType
  <2> QED BY <2>1, <2>2 DEF EndInv, Finished
<1>6. CASE C!PutCallBack \/ UNCHANGED C!vars
  BY <1>6 DEF C!PutCallBack, C!vars, C!inputVars, EndInv, Finished
<1> QED BY <1>1, <1>2, <1>3, <1>4, <1>5, <1>6, Zenon DEF C!Next, C!Echo

(* For inputs without the byte 0xFF, GetChar returns EOF only when all that *)
(* was typed has been read: it waits for the interrupt before it looks.     *)
THEOREM ConsoleEof == C!ConsoleAssumption /\ PlainText /\ C!Spec => []C!EofIsTheEnd
<1>1. EndInv => C!EofIsTheEnd
  BY DEF EndInv, Finished, C!EofIsTheEnd
<1> QED BY <1>1, ConsoleInit, ConsoleStep, EndInit, EndStep, PTL DEF C!Spec

-----------------------------------------------------------------------------
(* The keys between the keyboard and the display. *)

INSTANCE FiniteSetTheorems

(* Where a key is in a sequence of keys. *)
Places(c, s) == {i \in 1 .. Len(s) : s[i] = c}

(* Count is the number of the places. *)
LEMMA CountIsCardinality ==
  ASSUME NEW T, NEW s \in Seq(T), NEW c
  PROVE  /\ C!Count(c, s) = Cardinality(Places(c, s)) 
         /\ C!Count(c, s) \in Nat /\ IsFiniteSet(Places(c, s))
<1>1. DOMAIN s = 1 .. Len(s) /\ Len(s) \in Nat
  OBVIOUS
<1>2. C!Count(c, s) = Cardinality(Places(c, s))
  BY <1>1, Zenon DEF C!Count, C!Cardinality, Cardinality, Places
<1>3. IsFiniteSet(1 .. Len(s))
  BY <1>1, FS_Interval
<1>4. IsFiniteSet(Places(c, s))
  BY <1>3, FS_Subset DEF Places
<1>5. Cardinality(Places(c, s)) \in Nat
  BY <1>4, FS_CardinalityType
<1> QED BY <1>2, <1>4, <1>5

(* PutChar adds one character to the display. *)
LEMMA CountAppend ==
  ASSUME NEW T, NEW s \in Seq(T), NEW e \in T, NEW c
  PROVE  C!Count(c, Append(s, e)) = C!Count(c, s) + IF e = c THEN 1 ELSE 0
<1> DEFINE n == Len(s) + 1
<1>1. /\ Append(s, e) \in Seq(T) /\ Len(Append(s, e)) = n
      /\ \A i \in 1 .. Len(s) : Append(s, e)[i] = s[i]
      /\ Append(s, e)[n] = e
  OBVIOUS
<1>2. Places(c, Append(s, e)) = IF e = c THEN Places(c, s) \cup {n} ELSE Places(c, s)
  BY <1>1 DEF Places
<1>3. n \notin Places(c, s)
  BY DEF Places
<1>4. IsFiniteSet(Places(c, s))
  BY CountIsCardinality
<1>5. Cardinality(Places(c, s) \cup {n}) = Cardinality(Places(c, s)) + 1
  BY <1>3, <1>4, FS_AddElement, Zenon
<1>6. C!Count(c, Append(s, e)) = Cardinality(Places(c, Append(s, e)))
  BY <1>1, CountIsCardinality, Zenon
<1>7. C!Count(c, s) = Cardinality(Places(c, s)) /\ C!Count(c, s) \in Nat
  BY CountIsCardinality
<1> QED BY <1>2, <1>5, <1>6, <1>7

(* A read takes one key off the input. *)
LEMMA CountTail ==
  ASSUME NEW T, NEW s \in Seq(T), s # <<>>, NEW c
  PROVE  C!Count(c, s) = C!Count(c, Tail(s)) + IF Head(s) = c THEN 1 ELSE 0
<1> DEFINE A == Places(c, s) \ {1}
           B == Places(c, Tail(s))
           f == [i \in B |-> i + 1]
<1>1. /\ Tail(s) \in Seq(T) /\ Len(Tail(s)) = Len(s) - 1 /\ Len(s) \in Nat \ {0}
      /\ \A i \in 1 .. Len(Tail(s)) : Tail(s)[i] = s[i + 1]
      /\ Head(s) = s[1]
  BY FirstKey
<1>2. IsFiniteSet(B) /\ IsFiniteSet(Places(c, s)) /\ C!Count(c, s)
        = Cardinality(Places(c, s)) /\ C!Count(c, s) \in Nat
      /\ C!Count(c, Tail(s)) = Cardinality(B) /\ Cardinality(B) \in Nat
  BY <1>1, CountIsCardinality, Zenon
<1>3. f \in Bijection(B, A)
  <2>1. \A i \in B : i + 1 \in A
    BY <1>1 DEF Places
  <2>2. \A j \in A : j - 1 \in B /\ j = (j - 1) + 1
    BY <1>1 DEF Places
  <2>3. B \subseteq Nat
    BY DEF Places
  <2> HIDE DEF A, B
  <2>4. f \in [B -> A]
    BY <2>1
  <2>5. \A i, j \in B : f[i] = f[j] => i = j
    BY <2>3
  <2>6. \A j \in A : \E i \in B : f[i] = j
    BY <2>2
  <2> QED BY <2>4, <2>5, <2>6 DEF Bijection, Injection, Surjection, IsInjective
<1>4. Cardinality(A) = Cardinality(B)
  <2> HIDE DEF f, A, B
  <2>1. ExistsBijection(B, A)
    BY <1>3 DEF ExistsBijection
  <2> QED BY <1>2, <2>1, FS_Bijection
<1>5. Cardinality(A) = IF 1 \in Places(c, s) THEN Cardinality(Places(c, s)) - 1
        ELSE Cardinality(Places(c, s))
  BY <1>2, FS_RemoveElement, Zenon
<1>6. 1 \in Places(c, s) <=> Head(s) = c
  BY <1>1 DEF Places
<1> HIDE DEF A, B
<1> QED BY <1>2, <1>4, <1>5, <1>6

(* The threads that have the key c and have not given it to the display. *)
Carried(c) == {t \in Thread : ch[t] = c /\ at[t] = "echo"
  /\ place[t] \in {"out", "acquire", "request"}}

(* Every key c that was read is in the device, in a thread or on the display. *)
Balance(c) ==
  C!Count(c, text) - C!Count(c, typed) =
    C!Count(c, display) + (IF incoming = c THEN 1 ELSE 0) + Cardinality(Carried(c))

(* NoKeyLost is the balance of every character. *)
LEMMA NoKeyLostMeaning == C!NoKeyLost <=> \A c \in Char : Balance(c)
BY Zenon DEF C!NoKeyLost, Balance, Carried, C!Cardinality, Cardinality

(* What Balance adds up are numbers. *)
LEMMA CountsAreNat ==
  ASSUME ConsoleInv, IsFiniteSet(Thread), NEW c
  PROVE  /\ C!Count(c, text) \in Nat /\ C!Count(c, typed) \in Nat /\ C!Count(c, display) \in Nat
         /\ IsFiniteSet(Carried(c)) /\ Cardinality(Carried(c)) \in Nat
<1>1. Carried(c) \in SUBSET Thread
  BY DEF Carried
<1>2. IsFiniteSet(Carried(c))
  BY <1>1, FS_Subset
<1> QED BY <1>2, FS_CardinalityType, CountIsCardinality, Zenon DEF ConsoleInv, ConsoleType

(* Nothing has been read at the start. *)
LEMMA BalanceInit == C!ConsoleAssumption /\ IsFiniteSet(Thread) /\ C!Init => C!NoKeyLost
<1> SUFFICES ASSUME C!ConsoleAssumption, IsFiniteSet(Thread), C!Init, NEW c \in Char
      PROVE Balance(c)
  BY NoKeyLostMeaning
<1>1. ConsoleInv /\ typed = text /\ display = <<>> /\ incoming = EOF /\ EOF \notin Char
  BY ConsoleInit, Zenon DEF C!Init, C!ConsoleAssumption
<1>2. C!Count(c, text) \in Nat
  BY <1>1, CountsAreNat
<1>3. Carried(c) = {}
  <2>1. PICK users \in SUBSET Thread \ {{}} :
          at = [t \in Thread |-> IF t \in users THEN "acquire" ELSE "absent"]
    BY Zenon DEF C!Init
  <2> QED BY <2>1 DEF Carried
<1>4. C!Count(c, <<>>) = 0
  <2>1. <<>> \in Seq(Char) /\ Places(c, <<>>) = {}
    BY DEF Places
  <2> QED BY <2>1, CountIsCardinality, FS_EmptySet, Zenon
<1> QED BY <1>1, <1>2, <1>3, <1>4, FS_EmptySet DEF Balance

(* Every step keeps the balance.  No key is overwritten in the device,  *)
(* because ConsoleInput::CallBack finds it empty, and none is displayed *)
(* twice.                                                               *)
LEMMA BalanceStep ==
  ASSUME ConsoleInv, IsFiniteSet(Thread), C!NoKeyLost, [C!Next]_C!vars
  PROVE  C!NoKeyLost'
<1>0. (C!NoKeyLost <=> \A c \in Char : Balance(c))'
  BY NoKeyLostMeaning, PTL
<1> SUFFICES ASSUME NEW c \in Char PROVE Balance(c)'
  BY <1>0
<1>a. /\ ConsoleType /\ KeyboardInv /\ c # EOF /\ place \in [Thread -> Place]
      /\ \A u \in Thread : at[u] # "echo" => place[u] = "out"
  BY DEF ConsoleInv, C!ConsoleAssumption, DeviceInv
<1>b. Balance(c)
  BY NoKeyLostMeaning
<1>c. /\ C!Count(c, text) \in Nat /\ C!Count(c, typed) \in Nat /\ C!Count(c, display) \in Nat
      /\ IsFiniteSet(Carried(c)) /\ Cardinality(Carried(c)) \in Nat
  BY CountsAreNat
<1>1. CASE C!KeyCallBack
  <2>1. incoming = EOF /\ UNCHANGED <<text, display>> /\ Carried(c)' = Carried(c)
    BY <1>1, <1>a, Zenon DEF C!KeyCallBack, KeyboardInv, Carried
  <2>2. CASE typed = <<>>
    BY <1>1, <1>b, <2>1, <2>2, Zenon DEF C!KeyCallBack, Balance
  <2>3. CASE typed # <<>>
    <3>1. C!Count(c, typed) = C!Count(c, Tail(typed)) + IF Head(typed) = c THEN 1 ELSE 0
      BY <1>a, <2>3, CountTail DEF ConsoleType
    <3>2. C!Count(c, Tail(typed)) \in Nat
      BY <1>a, <2>3, FirstKey, CountIsCardinality, Zenon DEF ConsoleType
    <3>3. incoming' = Head(typed) /\ typed' = Tail(typed)
      BY <1>1, <2>3 DEF C!KeyCallBack
    <3> QED BY <1>a, <1>b, <1>c, <2>1, <3>1, <3>2, <3>3 DEF Balance
  <2> QED BY <2>2, <2>3
<1>2. ASSUME NEW t \in Thread, C!GetCharAcquire(t) \/ C!GetCharP(t) PROVE Balance(c)'
  <2>1. UNCHANGED <<text, typed, incoming, display, ch, place>>
    BY <1>2, Zenon DEF C!GetCharAcquire, C!GetCharP, C!deviceVars
  <2>2. Carried(c)' = Carried(c)
    BY <1>2, <1>a, <2>1, Zenon DEF C!GetCharAcquire, C!GetCharP, ConsoleType, Carried
  <2> QED BY <1>b, <2>1, <2>2 DEF Balance
<1>3. ASSUME NEW t \in Thread, C!GetChar(t) PROVE Balance(c)'
  <2>1. t \notin Carried(c) /\ place[t] = "out"
    BY <1>3, <1>a, Zenon DEF C!GetChar, Carried
  <2>2. UNCHANGED <<text, typed, display, place>> /\ incoming' = EOF
    BY <1>3 DEF C!GetChar, C!deviceVars
  <2>3. Carried(c)' = IF incoming = c THEN Carried(c) \cup {t} ELSE Carried(c)
    BY <1>3, <1>a, <2>1, <2>2, Zenon DEF C!GetChar, ConsoleType, Carried
  <2>4. Cardinality(Carried(c) \cup {t}) = Cardinality(Carried(c)) + 1
    BY <1>c, <2>1, FS_AddElement, Zenon
  <2> QED BY <1>a, <1>b, <1>c, <2>2, <2>3, <2>4 DEF Balance
<1>4. ASSUME NEW t \in Thread, at[t] = "echo", C!Enter(t) \/ C!Acquire(t) \/ C!P(t),
        UNCHANGED <<C!inputVars, display>>
      PROVE  Balance(c)'
  <2>1. Carried(c)' = Carried(c)
    BY <1>4, <1>a, Zenon DEF C!Enter, C!Acquire, C!P, C!inputVars, Carried
  <2> QED BY <1>4, <1>b, <2>1, Zenon DEF C!inputVars, Balance
<1>5. ASSUME NEW t \in Thread, at[t] = "echo", C!Request(t), display' = Append(display, ch[t]),
        UNCHANGED C!inputVars
      PROVE  Balance(c)'
  <2>1. Carried(c)' = Carried(c) \ {t} /\ (t \in Carried(c) <=> ch[t] = c)
    BY <1>5, <1>a, Zenon DEF C!Request, C!inputVars, Carried
  <2>2. Cardinality(Carried(c) \ {t}) = IF t \in Carried(c)
          THEN Cardinality(Carried(c)) - 1 ELSE Cardinality(Carried(c))
    BY <1>c, FS_RemoveElement, Zenon
  <2>3. C!Count(c, display') = C!Count(c, display) + IF ch[t] = c THEN 1 ELSE 0
    BY <1>5, <1>a, CountAppend DEF ConsoleType
  <2>4. UNCHANGED <<text, typed, incoming>>
    BY <1>5 DEF C!inputVars
  <2>5. PICK n, d, r, k : /\ n = C!Count(c, text) - C!Count(c, typed)
                          /\ d = C!Count(c, display) /\ k = Cardinality(Carried(c))
                          /\ r = IF incoming = c THEN 1 ELSE 0
    BY Zenon
  <2>6. n = d + r + k /\ n \in Int /\ d \in Int /\ r \in Int /\ k \in Int
    BY <1>b, <1>c, <2>5 DEF Balance
  <2>7. PICK d2, k2 : d2 = C!Count(c, display') /\ k2 = Cardinality(Carried(c)')
    BY Zenon
  <2>8. CASE ch[t] = c
    <3>1. d2 = d + 1 /\ k2 = k - 1
      BY <2>1, <2>2, <2>3, <2>5, <2>7, <2>8
    <3>2. n = d2 + r + k2
      BY <2>6, <3>1
    <3> QED BY <2>4, <2>5, <2>7, <3>2, Zenon DEF Balance
  <2>9. CASE ch[t] # c
    <3>1. d2 = d + 0 /\ k2 = k
      BY <2>1, <2>2, <2>3, <2>5, <2>7, <2>9, Zenon
    <3>2. n = d2 + r + k2
      BY <2>6, <3>1
    <3> QED BY <2>4, <2>5, <2>7, <3>2, Zenon DEF Balance
  <2> QED BY <2>8, <2>9
<1>6. ASSUME NEW t \in Thread, at[t] = "echo", C!Release(t), at' = [at EXCEPT ![t] = "acquire"],
             ch' = [ch EXCEPT ![t] = EOF],
               UNCHANGED <<text, typed, incoming, polling, waitFor, inHolder, display>>
      PROVE  Balance(c)'
  <2>1. Carried(c)' = Carried(c)
    BY <1>6, <1>a, Zenon DEF C!Release, ConsoleType, Carried
  <2> QED BY <1>6, <1>b, <2>1, Zenon DEF Balance
<1>7. CASE C!PutCallBack \/ UNCHANGED C!vars
  <2>1. UNCHANGED <<text, typed, incoming, display, ch, at, place>>
    BY <1>7, Zenon DEF C!PutCallBack, C!Interrupt, C!vars, C!inputVars, C!deviceVars
  <2> QED BY <1>b, <2>1, Zenon DEF Balance, Carried
<1> QED BY <1>1, <1>2, <1>3, <1>4, <1>5, <1>6, <1>7, Zenon DEF C!Next, C!Echo, C!PutChar

(* Every key that was read from the host is in exactly one place, for any *)
(* finite number of threads: in the device, in a thread on its way to the *)
(* display, or displayed.                                                 *)
THEOREM ConsoleKeys == C!ConsoleAssumption /\ IsFiniteSet(Thread) /\ C!Spec => []C!NoKeyLost
<1> SUFFICES ASSUME C!ConsoleAssumption, IsFiniteSet(Thread)
             PROVE  C!Spec => []C!NoKeyLost
  OBVIOUS
<1>1. C!Init => ConsoleInv /\ C!NoKeyLost
  BY ConsoleInit, BalanceInit
<1>2. ConsoleInv /\ C!NoKeyLost /\ [C!Next]_C!vars => ConsoleInv' /\ C!NoKeyLost'
  BY ConsoleStep, BalanceStep
<1> QED BY <1>1, <1>2, PTL DEF C!Spec
=============================================================================
