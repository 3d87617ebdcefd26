----------------------------- MODULE FileSystem -----------------------------
(***************************************************************************)
(* The file system on the disk (filesys/filesys.cc, directory.cc,          *)
(* filehdr.cc, pbitmap.cc): a map of free sectors and one directory, both  *)
(* kept in files, and a header sector for every file.                      *)
(*                                                                         *)
(* An operation reads what it needs, changes it in memory and writes it    *)
(* back one sector at a time; Nachos may stop between two of these writes. *)
(* As the code says, there is one operation at a time.  A sector holds     *)
(* what was written to it: a header, the map or a part of the directory,   *)
(* whose entries are cut in two (use and header sector; name) because one  *)
(* lies across the border of two sectors: 128 bytes hold 6.4 entries.      *)
(***************************************************************************)
EXTENDS Integers, Sequences, Functions, FiniteSetsExt, TLC

CONSTANTS
  Name,              \* file names
  NumSectors,        \* sectors of the disk
  SectorSize,        \* bytes in a sector
  NumDirEntries,     \* entries of the directory
  HalvesPerSector,   \* how many halves of entries a sector holds
  Sizes,             \* sizes that files are created with: a header has room for them
  MaxCrashes,        \* how often Nachos may stop
  NULL

FileSystemAssumption ==
  /\ {NumSectors, SectorSize, NumDirEntries, HalvesPerSector} \subseteq Nat \ {0}
  /\ Sizes \subseteq Nat
  /\ MaxCrashes \in Nat
  /\ NULL \notin Name

VARIABLES
  disk,      \* what the sectors hold
  up,        \* Nachos is running, with freeMapFile and directoryFile open
  op,        \* the operation: what it has still to write, and what it will return
  handles,   \* the open files: the header in memory, and the name it was opened by
  crashes    \* how often Nachos has stopped: 0, 1 or more

vars == <<disk, up, op, handles, crashes>>

SE == INSTANCE SequencesExt

Sector == 0 .. NumSectors - 1
FreeMapSector == 0
DirectorySector == 1
DivRoundUp(n, s) == (n + s - 1) \div s

Header(bytes, sectors) == [kind |-> "header", bytes |-> bytes, sectors |-> sectors]
Free == [inUse |-> FALSE, sector |-> 0, name |-> NULL]
Idle == [kind |-> "idle", name |-> NULL, size |-> 0, ok |-> TRUE, writes |-> <<>>, before |-> {}]

-----------------------------------------------------------------------------
(* The map of free sectors in memory is the set of the marked ones. *)

NumClear(marked) == NumSectors - Cardinality(marked)

(* Mutant: the bit is found and not set when it is the last one. *)
FindLastUnset(marked) ==
  LET s == Min(Sector \ marked)
  IN  [sector |-> s, marked |-> IF s = NumSectors - 1 THEN marked ELSE marked \cup {s}]

(* Bitmap::FindAndSet where a bit is clear. *)
FindAndSet(marked) ==
  LET s == Min(Sector \ marked) IN [sector |-> s, marked |-> marked \cup {s}]

(* FileHeader::Allocate: the first free sectors, by FindAndSet.  There is   *)
(* no test against NumDirect.                                               *)
Allocate(marked, fileSize) ==
  LET n == DivRoundUp(fileSize, SectorSize)
      taken[i \in 0 .. n] == IF i = 0 THEN [sector |-> -1, marked |-> marked]
                             ELSE FindAndSet(taken[i - 1].marked)
  IN  IF NumClear(marked) < n THEN [ok |-> FALSE, header |-> NULL, marked |-> marked]
      ELSE [ok |-> TRUE, header |-> Header(fileSize, [i \in 1 .. n |-> taken[i].sector]),
            marked |-> taken[n].marked]

(* FileHeader::Deallocate; its ASSERT is AssertMarked. *)
Deallocate(marked, header) == marked \ Range(header.sectors)
AssertMarked(marked, header) == Range(header.sectors) \subseteq marked

(* Directory::FindIndex, 0 when the name is not there. *)
FindIndex(table, name) ==
  LET at == {i \in DOMAIN table : table[i].inUse /\ table[i].name = name}
  IN  IF at = {} THEN 0 ELSE Min(at)

(* Directory::Find *)
Find(table, name) == LET i == FindIndex(table, name) IN IF i = 0 THEN -1 ELSE table[i].sector

(* Directory::Add *)
Add(table, name, sector) ==
  LET unused == {i \in DOMAIN table : ~table[i].inUse}
  IN  IF FindIndex(table, name) # 0 \/ unused = {} THEN [ok |-> FALSE, table |-> table]
      ELSE [ok |-> TRUE,
            table |-> [table EXCEPT ![Min(unused)] = [inUse |-> TRUE, sector |-> sector, name |-> name]]]

(* Directory::Remove of a name that is there: the name itself stays. *)
DirectoryRemove(table, name) == [table EXCEPT ![FindIndex(table, name)].inUse = FALSE]

-----------------------------------------------------------------------------
(* The two files: read through their headers, and written sector by sector. *)

MapData == disk[FreeMapSector].sectors[1]
DirData == disk[DirectorySector].sectors
FreeMap == disk[MapData].marked

(* Directory::FetchFrom: the entries are put together from their halves. *)
Directory ==
  LET halves == SE!FlattenSeq([i \in DOMAIN DirData |-> disk[DirData[i]].halves])
  IN  [i \in 1 .. NumDirEntries |-> halves[2 * i - 1] @@ halves[2 * i]]

(* PersistentBitmap::WriteBack *)
WriteMap(at, marked) == << <<at, [kind |-> "map", marked |-> marked]>> >>

(* Directory::WriteBack *)
WriteDirectory(at, table) ==
  LET halves == [i \in 1 .. 2 * NumDirEntries |->
                   LET e == table[(i + 1) \div 2]
                   IN  IF i % 2 = 1 THEN [inUse |-> e.inUse, sector |-> e.sector] ELSE [name |-> e.name]]
      upTo(i) == Min({i * HalvesPerSector, 2 * NumDirEntries})
  IN  [i \in DOMAIN at |->
        <<at[i], [kind |-> "directory", halves |-> SubSeq(halves, upTo(i - 1) + 1, upTo(i))]>>]

(* The constructor that formats the disk: what it writes, in order. *)
Format ==
  LET map == Allocate({FreeMapSector, DirectorySector}, SectorSize)
      dir == Allocate(map.marked, DivRoundUp(2 * NumDirEntries, HalvesPerSector) * SectorSize)
  IN  << <<FreeMapSector, map.header>>, <<DirectorySector, dir.header>> >>
      \o WriteMap(map.header.sectors[1], dir.marked)
      \o WriteDirectory(dir.header.sectors, [i \in 1 .. NumDirEntries |-> Free])

(* A disk just created by the simulation: zeros. *)
Init ==
  /\ disk = [s \in Sector |-> [kind |-> "zero"]]
  /\ up = TRUE
  /\ op = [Idle EXCEPT !.kind = "format", !.writes = Format]
  /\ handles = {}
  /\ crashes = 0

-----------------------------------------------------------------------------
(* What is on the disk, by name: for the properties. *)
Entries == {e \in Range(Directory) : e.inUse}
Files == {[name |-> e.name, sector |-> e.sector, header |-> disk[e.sector]] : e \in Entries}

Begin(kind, name, size, ok, writes) ==
  op' = [kind |-> kind, name |-> name, size |-> size, ok |-> ok, writes |-> writes, before |-> Files]

Ready == up /\ op = Idle

(* Mutant: the header is written after the directory. *)
CreateHeaderLast(name, size) ==
  LET fs == FindAndSet(FreeMap)
      add == Add(Directory, name, fs.sector)
      new == Allocate(fs.marked, size)
      ok == Find(Directory, name) = -1 /\ NumClear(FreeMap) > 0 /\ add.ok /\ new.ok
  IN  /\ Ready
      /\ Begin("create", name, size, ok,
               IF ~ok THEN <<>>
               ELSE WriteDirectory(DirData, add.table) \o << <<fs.sector, new.header>> >>
                    \o WriteMap(MapData, new.marked))
      /\ UNCHANGED <<disk, up, handles, crashes>>

(* FileSystem::Create up to its first write. *)
Create(name, size) ==
  LET fs == FindAndSet(FreeMap)
      add == Add(Directory, name, fs.sector)
      new == Allocate(fs.marked, size)
      ok == Find(Directory, name) = -1 /\ NumClear(FreeMap) > 0 /\ add.ok /\ new.ok
  IN  /\ Ready
      /\ Begin("create", name, size, ok,
               IF ~ok THEN <<>>
               ELSE << <<fs.sector, new.header>> >> \o WriteDirectory(DirData, add.table)
                    \o WriteMap(MapData, new.marked))
      /\ UNCHANGED <<disk, up, handles, crashes>>

(* FileSystem::Open, with the constructor of OpenFile. *)
Open(name) ==
  /\ Ready
  /\ Find(Directory, name) >= 0
  /\ handles' = handles \cup {[name |-> name, header |-> disk[Find(Directory, name)]]}
  /\ UNCHANGED <<disk, up, op, crashes>>

(* The handle is deleted. *)
Close(h) ==
  /\ Ready
  /\ handles' = handles \ {h}
  /\ UNCHANGED <<disk, up, op, crashes>>

(* FileSystem::Remove up to its first write; the handles of the file stay    *)
(* open, but count no longer.                                               *)
Remove(name) ==
  LET sector == Find(Directory, name)
      header == disk[sector]
      marked == Deallocate(FreeMap, header) \ {sector}
  IN  /\ Ready
      /\ IF sector = -1
         THEN Begin("remove", name, 0, FALSE, <<>>)
         ELSE /\ AssertMarked(FreeMap, header)
              /\ Begin("remove", name, 0, TRUE,
                       WriteMap(MapData, marked)
                       \o WriteDirectory(DirData, DirectoryRemove(Directory, name)))
      /\ handles' = {h \in handles : h.name # name}
      /\ UNCHANGED <<disk, up, crashes>>

(* SynchDisk::WriteSector of the next sector. *)
Write ==
  /\ up
  /\ op.writes # <<>>
  /\ disk' = [disk EXCEPT ![Head(op.writes)[1]] = Head(op.writes)[2]]
  /\ op' = [op EXCEPT !.writes = Tail(@)]
  /\ UNCHANGED <<up, handles, crashes>>

Return ==
  /\ up
  /\ op # Idle
  /\ op.writes = <<>>
  /\ op' = Idle
  /\ UNCHANGED <<disk, up, handles, crashes>>

(* The ASSERT of Deallocate fails. *)
Abort(name) ==
  LET sector == Find(Directory, name) IN
  /\ Ready
  /\ sector # -1
  /\ ~AssertMarked(FreeMap, disk[sector])
  /\ up' = FALSE
  /\ handles' = {}
  /\ crashes' = 2
  /\ UNCHANGED <<disk, op>>

(* Nachos stops: what has not been written is gone. *)
Crash ==
  /\ up
  /\ crashes < MaxCrashes
  /\ op.kind # "format"
  /\ crashes' = crashes + 1
  /\ up' = FALSE
  /\ op' = [op EXCEPT !.writes = <<>>]
  /\ handles' = {}
  /\ UNCHANGED disk

(* The constructor that does not format. *)
Boot ==
  /\ ~up
  /\ up' = TRUE
  /\ op' = Idle
  /\ UNCHANGED <<disk, handles, crashes>>

Next ==
  \/ \E n \in Name :
       \/ \E size \in Sizes : Create(n, size)
       \/ Open(n) \/ Remove(n) \/ Abort(n)
  \/ \E h \in handles : Close(h)
  \/ Write \/ Return \/ Crash \/ Boot

Spec == Init /\ [][Next]_vars

-----------------------------------------------------------------------------
(* Properties.                                                              *)

Formatted == op.kind # "format"
Sectors(f) == {f.sector} \cup Range(f.header.sectors)
System == {FreeMapSector, DirectorySector, MapData} \cup Range(DirData)
Owned == System \cup UNION {Sectors(f) : f \in Files}

(* Between two operations, and until the first crash, the map marks exactly  *)
(* the sectors of the system and of the files, and no two files share one:   *)
(* nothing is lost over any sequence of Create and Remove.                   *)
MapIsExact ==
  Formatted /\ op = Idle /\ crashes = 0 =>
    /\ FreeMap = Owned
    /\ Cardinality(FreeMap) = Cardinality(System) +
         FoldSet(LAMBDA f, n : n + Cardinality(Sectors(f)), 0, Files)

(* The border of two sectors lies in the i-th entry: between its header      *)
(* sector and its name.                                                      *)
AcrossBorder(i) == (2 * i - 1) % HalvesPerSector = 0

(* The file that Create has made, whole, in sectors of its own, and under    *)
(* its name.  The entry across a border may still have the name of the file  *)
(* that was removed from it.                                                 *)
IsNewFile(file, others) ==
  /\ op.kind = "create" /\ op.ok
  /\ file.header.bytes = op.size
  /\ Cardinality(Sectors(file)) = 1 + DivRoundUp(op.size, SectorSize)
  /\ Sectors(file) \cap (System \cup UNION {Sectors(f) : f \in others}) = {}
  /\ \/ file.name = op.name
     \/ \E i \in DOMAIN Directory : AcrossBorder(i) /\ Directory[i].sector = file.sector

(* Between whatever two writes Nachos stops for the first time, every entry  *)
(* in use leads to a header, and no sector is lost: what the map marks       *)
(* belongs to some file.  If it stops in Create or Remove, every other file  *)
(* is found under its name as it was, its sectors are still marked, and      *)
(* there is at most one more: the file itself as it was, or the new one.     *)
(* filesys.cc says only that such a stop "may corrupt the disk"; this is how *)
(* far that goes.  (The one file may be left with sectors that the map has   *)
(* as free, or with a stale name, and what is done after the restart may     *)
(* then do more harm: the code does not try to recover.)                     *)
CrashIsContained ==
  ~up /\ crashes = 1 =>
    /\ \A f \in Files : f.header.kind = "header"
    /\ FreeMap \subseteq Owned
    /\ op # Idle =>
         LET others == {f \in op.before : f.name # op.name}
         IN  /\ others \subseteq Files
             /\ \A f \in others : Find(Directory, f.name) = f.sector
             /\ System \cup UNION {Sectors(f) : f \in others} \subseteq FreeMap
             /\ Cardinality(Files \ others) <= 1
             /\ \A f \in Files \ others : f \in op.before \/ IsNewFile(f, others)

(* The answer of Create and Remove, and the directory that they leave, are   *)
(* those of a set of files with so many entries and so many sectors.         *)
Answers ==
  op # Idle /\ Formatted /\ up /\ op.writes = <<>> /\ crashes = 0 =>
    LET there == \E f \in op.before : f.name = op.name
        used == Cardinality(System) + FoldSet(LAMBDA f, n : n + Cardinality(Sectors(f)), 0, op.before)
        fits == used + 1 + DivRoundUp(op.size, SectorSize) <= NumSectors
        Sized(F) == {<<f.name, f.header.bytes>> : f \in F}
    IN  CASE op.kind = "create" ->
               /\ op.ok <=> ~there /\ Cardinality(op.before) < NumDirEntries /\ fits
               /\ Sized(Files) = Sized(op.before) \cup (IF op.ok THEN {<<op.name, op.size>>} ELSE {})
          [] op.kind = "remove" ->
               /\ op.ok <=> there
               /\ Files = {f \in op.before : f.name # op.name}

(* The header that an open file has in memory is the one on the disk until   *)
(* the file is removed.                                                      *)
HandlesAreCurrent ==
  Formatted /\ up /\ crashes = 0 =>
    \A h \in handles : \E f \in Files : f.name = h.name /\ f.header = h.header
=============================================================================
