----------------------------- MODULE CoffToNoff -----------------------------
(***************************************************************************)
(* coff2noff, the program that turns the linker's COFF file into the NOFF  *)
(* file AddrSpace::Load reads (src/coff2noff/coff2noff.c).  A section's    *)
(* contents are the pairs <<number of the section, offset>>, so that what  *)
(* lands where in the output can be told apart.  The host may refuse the   *)
(* output file, may come to the end of the input in any read, and may fail *)
(* any write.  The build defines RDATA, on a little-endian host.           *)
(***************************************************************************)
EXTENDS Integers, Sequences

CONSTANTS
  HeaderSize,    \* sizeof(NoffHeader)
  Sizes,         \* the sizes a section may have
  Addresses,     \* the addresses it may be linked at
  MaxSections    \* bound: the sections of a COFF file

CoffAssumption ==
  /\ HeaderSize \in Nat \ {0}
  /\ Sizes \subseteq Nat
  /\ Addresses \subseteq Nat
  /\ MaxSections \in Nat

VARIABLES
  coff,          \* the input: which magic number is right, and its section headers
  coffAt,        \* where main is
  section,       \* main's loop over the sections
  noffH,         \* the header under construction, by segment
  inNoffFile,    \* where the next segment goes
  fdOut,         \* the output's file position, -1 when open refused it
  noff,          \* the output file: is it there, did we truncate it, its bytes
  status         \* the exit status, -1 while running

coffVars == <<coff, coffAt, section, noffH, inNoffFile, fdOut, noff, status>>

(* The names main compares s_name with, and the header's segment for each.  *)
SegmentOf ==
  [s_name \in {".text", ".data", ".rdata", ".bss"} |->
     CASE s_name = ".text" -> "code"           [] s_name = ".data" -> "initData"
       [] s_name = ".rdata" -> "readonlyData"  [] s_name = ".bss" -> "uninitData"]

Section == [s_name : DOMAIN SegmentOf \cup {".comment"},
            s_paddr : Addresses, s_size : Sizes]

(* The COFF files coff2noff is documented to accept: at most one section of  *)
(* each kind, apart from the uninitialised data.                            *)
Linked(s) ==
  \A m, n \in 1..Len(s) :
    m # n /\ s[m].s_name = s[n].s_name => s[m].s_name = ".bss"

(* A field main leaves uninitialised holds whatever the stack held; no       *)
(* property looks at one.                                                   *)
Junk == -1

Contents(n) == [k \in 1..coff.sections[n].s_size |-> <<n, k>>]

InitCoff ==
  /\ coff \in [magic : {"good", "badFile", "badSystem"},
               sections : {s \in UNION {[1..k -> Section] : k \in 0..MaxSections} : Linked(s)}]
  /\ coffAt = "open" /\ section = 1 /\ status = -1
  /\ noffH = [seg \in {"code", "initData", "readonlyData", "uninitData"} |->
               [virtualAddr |-> Junk, inFileAddr |-> Junk, size |-> 0]]
  /\ inNoffFile = HeaderSize
  /\ fdOut = -1
  /\ \E there \in BOOLEAN :
       noff = [there |-> there, truncated |-> FALSE, bytes |-> << >>]

(* exit(1), which past the opening of the files always follows an unlink.   *)
Fail ==
  /\ coffAt' = "exit" /\ status' = 1
  /\ noff' = [noff EXCEPT !.there = FALSE]
  /\ UNCHANGED <<coff, section, noffH, inNoffFile, fdOut>>

(* write(fdOut, data): the bytes replace those at the file position.         *)
Written(bytes, at, data) ==
  [p \in DOMAIN bytes \cup {at + k : k \in 0..(Len(data) - 1)} |->
     IF p \in at..(at + Len(data) - 1) THEN data[(p - at) + 1] ELSE bytes[p]]

(* open(argv[1]) and open(argv[2]).  The second check tests fdIn again, so a *)
(* refused output is only noticed by the first write; main goes on with -1. *)
OpenFiles ==
  /\ coffAt = "open"
  /\ \/ /\ coffAt' = "exit" /\ status' = 1          \* no input file
        /\ UNCHANGED <<fdOut, noff>>
     \/ /\ coffAt' = "headers" /\ fdOut' = -1       \* no output file, unnoticed
        /\ UNCHANGED <<noff, status>>
     \/ /\ coffAt' = "headers" /\ fdOut' = 0
        /\ noff' = [there |-> TRUE, truncated |-> TRUE, bytes |-> << >>]
        /\ UNCHANGED status
  /\ UNCHANGED <<coff, section, noffH, inNoffFile>>

(* The two headers and the section headers are read and checked; any read    *)
(* may find the file too short.                                             *)
ReadHeaders ==
  /\ coffAt = "headers"
  /\ \/ Fail
     \/ /\ coff.magic = "good"
        /\ coffAt' = "segments"
        /\ fdOut' = IF fdOut = -1 THEN -1 ELSE inNoffFile      \* lseek
        /\ UNCHANGED <<coff, section, noffH, inNoffFile, noff, status>>

(* Mutant: the place of the next segment is not advanced. *)
CopySegment_SamePlace(s, seg) ==
  \/ Fail
  \/ /\ fdOut # -1
     /\ noffH' = [noffH EXCEPT ![seg] = [virtualAddr |-> s.s_paddr,
                                         inFileAddr |-> inNoffFile,
                                         size |-> s.s_size]]
     /\ noff' = [noff EXCEPT !.bytes = Written(noff.bytes, fdOut, Contents(section))]
     /\ fdOut' = fdOut + s.s_size
     /\ section' = section + 1
     /\ UNCHANGED <<coff, coffAt, inNoffFile, status>>

(* .text, .data and .rdata: the segment is where the output stands, and its  *)
(* contents are copied there.                                               *)
CopySegment(s, seg) ==
  \/ Fail                                       \* too short, or cannot write
  \/ /\ fdOut # -1
     /\ noffH' = [noffH EXCEPT ![seg] = [virtualAddr |-> s.s_paddr,
                                         inFileAddr |-> inNoffFile,
                                         size |-> s.s_size]]
     /\ noff' = [noff EXCEPT !.bytes = Written(noff.bytes, fdOut, Contents(section))]
     /\ fdOut' = fdOut + s.s_size
     /\ inNoffFile' = inNoffFile + s.s_size
     /\ section' = section + 1
     /\ UNCHANGED <<coff, coffAt, status>>

(* .bss: nothing is copied.  A second one is refused when it follows the      *)
(* first immediately, and added to the first's size when it does not.        *)
AddBss(s) ==
  LET u == noffH.uninitData IN
  \/ /\ u.size # 0
     /\ s.s_paddr = u.virtualAddr + u.size
     /\ Fail
  \/ /\ u.size # 0 => s.s_paddr # u.virtualAddr + u.size
     /\ noffH' = IF u.size # 0
                 THEN [noffH EXCEPT !.uninitData = [u EXCEPT !.size = @ + s.s_size]]
                 ELSE [noffH EXCEPT !.uninitData =
                         [virtualAddr |-> s.s_paddr, inFileAddr |-> u.inFileAddr,
                          size |-> s.s_size]]
     /\ section' = section + 1
     /\ UNCHANGED <<coff, coffAt, inNoffFile, fdOut, noff, status>>

(* One turn of main's loop. *)
LoadSection ==
  /\ coffAt = "segments" /\ section <= Len(coff.sections)
  /\ LET s == coff.sections[section] IN
     \/ /\ s.s_size = 0
        /\ section' = section + 1
        /\ UNCHANGED <<coff, coffAt, noffH, inNoffFile, fdOut, noff, status>>
     \/ /\ s.s_size # 0 /\ s.s_name \in DOMAIN SegmentOf \ {".bss"}
        /\ CopySegment(s, SegmentOf[s.s_name])
     \/ /\ s.s_size # 0 /\ s.s_name = ".bss"
        /\ AddBss(s)
     \/ /\ s.s_size # 0 /\ s.s_name \notin DOMAIN SegmentOf
        /\ Fail

(* The header goes to the front of the file; exit(0).                       *)
WriteHeader ==
  /\ coffAt = "segments" /\ section > Len(coff.sections)
  /\ \/ Fail
     \/ /\ fdOut # -1
        /\ noff' = [noff EXCEPT !.bytes =
             Written(noff.bytes, 0, [k \in 1..HeaderSize |-> <<0, k>>])]
        /\ fdOut' = HeaderSize
        /\ coffAt' = "exit" /\ status' = 0
        /\ UNCHANGED <<coff, section, noffH, inNoffFile>>

NextCoff == OpenFiles \/ ReadHeaders \/ LoadSection \/ WriteHeader

SpecCoff == InitCoff /\ [][NextCoff]_coffVars

-----------------------------------------------------------------------------

Offsets(seg) == noffH[seg].inFileAddr..(noffH[seg].inFileAddr + noffH[seg].size - 1)

(* What AddrSpace::Load relies on when it reads the file this program wrote:  *)
(* once the program has succeeded, every section with contents is found      *)
(* through the header, with its own address, size and bytes, and the header   *)
(* itself is whole; segments that are read from the file do not overlap.  A  *)
(* conversion that fails leaves no output it began to write: every exit(1)   *)
(* after the output was opened comes with an unlink, the ones inside Read    *)
(* and Write included, so make never finds half a program.                   *)
NoffIsFaithful ==
  /\ status = 1 /\ noff.there => ~noff.truncated
  /\ status = 0 =>
       /\ \A k \in 1..HeaderSize : noff.bytes[k - 1] = <<0, k>>
       /\ \A n \in 1..Len(coff.sections) :
            LET s == coff.sections[n] IN
            s.s_size # 0 /\ s.s_name # ".bss" =>
              LET h == noffH[SegmentOf[s.s_name]] IN
              /\ h.virtualAddr = s.s_paddr /\ h.size = s.s_size
              /\ \A k \in 1..s.s_size : noff.bytes[h.inFileAddr + (k - 1)] = <<n, k>>
       /\ \A a, b \in {"code", "initData", "readonlyData"} :
            a # b => Offsets(a) \cap Offsets(b) = {}
=============================================================================
