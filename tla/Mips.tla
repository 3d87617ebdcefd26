-------------------------------- MODULE Mips --------------------------------
(***************************************************************************)
(* The processor that runs user programs (machine/mipssim.cc, mipssim.h).  *)
(*                                                                         *)
(* A word has four bytes of B bits; in the code B is 8.  Masks and shifts  *)
(* are scaled with B: a half word has 2 * B bits, a shift amount is less   *)
(* than the width of a word.  Register values are signed.  The fields of   *)
(* an instruction are kept apart, imm is its lower half (or a J target).   *)
(* The program may write to its code, so that any instruction can be found *)
(* at any address; byte order is that of the host, little endian.          *)
(***************************************************************************)
EXTENDS Integers, Sequences, Bitwise

CONSTANTS
  B,            \* bits of a byte
  MemorySize,   \* bytes of the address space
  Tests         \* by name: states of the machine at the start, the instructions
                \* that are executed and, a bound, how many of them

VARIABLES
  test,         \* the name of the test
  m,            \* the machine: r, hi, lo, pc, nextPC, prevPC, loadReg, loadValue, badVAddr, mem, status
  past          \* the instructions executed and the machine before each (not in the code)

vars == <<test, m, past>>

R31 == 31
Width == 4 * B
Byte == 0 .. 2^B - 1
MaxInt == 2^(Width - 1) - 1
MinInt == -(2^(Width - 1))
InRange(x) == MinInt <= x /\ x <= MaxInt

Unsigned(x) == x % 2^Width
Signed(x) == LET u == Unsigned(x) IN IF u > MaxInt THEN u - 2^Width ELSE u
SignExtend(x, bits) == IF x % 2^bits >= 2^(bits - 1) THEN (x % 2^bits) - 2^bits ELSE x % 2^bits

BitAnd(a, b) == Signed(Unsigned(a) & Unsigned(b))
BitOr(a, b) == Signed(Unsigned(a) | Unsigned(b))
BitXor(a, b) == Signed(Unsigned(a) ^^ Unsigned(b))
Half(x) == x % 2^(2 * B)
IndexToAddr(x) == Signed(4 * x)

-----------------------------------------------------------------------------
(* Decoding.                                                                 *)

UnimpRow == <<"UNIMP", "UNIMP", "UNIMP", "UNIMP">>
ResRow == <<"RES", "RES", "RES", "RES">>

opTable ==
  <<"SPECIAL", "BCOND", "J", "JAL", "BEQ", "BNE", "BLEZ", "BGTZ", "ADDI", "ADDIU", "SLTI", "SLTIU",
    "ANDI", "ORI", "XORI", "LUI">> \o UnimpRow \o ResRow \o ResRow \o ResRow \o
  <<"LB", "LH", "LWL", "LW", "LBU", "LHU", "LWR", "RES", "SB", "SH", "SWL", "SW",
    "RES", "RES", "SWR", "RES">> \o UnimpRow \o ResRow \o UnimpRow \o ResRow

specialTable ==
  <<"SLL", "RES", "SRL", "SRA", "SLLV", "RES", "SRLV", "SRAV", "JR", "JALR", "RES", "RES",
    "SYSCALL", "UNIMP", "RES", "RES", "MFHI", "MTHI", "MFLO", "MTLO">> \o ResRow \o
  <<"MULT", "MULTU", "DIV", "DIVU">> \o ResRow \o
  <<"ADD", "ADDU", "SUB", "SUBU", "AND", "OR", "XOR", "NOR", "RES", "RES", "SLT", "SLTU">> \o
  ResRow \o ResRow \o ResRow \o ResRow \o ResRow

(* The numbers of the operations: the place in this list. *)
OpCodes ==
  <<"ADD", "ADDI", "ADDIU", "ADDU", "AND", "ANDI", "BEQ", "BGEZ", "BGEZAL", "BGTZ", "BLEZ", "BLTZ",
    "BLTZAL", "BNE", "15", "DIV", "DIVU", "J", "JAL", "JALR", "JR", "LB", "LBU", "LH", "LHU", "LUI",
    "LW", "LWL", "LWR", "30", "MFHI", "MFLO", "33", "MTHI", "MTLO", "MULT", "MULTU", "NOR", "OR",
    "ORI", "RFE", "SB", "SH", "SLL", "SLLV", "SLT", "SLTI", "SLTIU", "SLTU", "SRA", "SRAV", "SRL",
    "SRLV", "SUB", "SUBU", "SW", "SWL", "SWR", "XOR", "XORI", "SYSCALL", "UNIMP", "RES">>

Bcond(rt) ==
  CASE rt = 0 -> "BLTZ" [] rt = 1 -> "BGEZ" [] rt = 16 -> "BLTZAL" [] rt = 17 -> "BGEZAL" [] OTHER -> "UNIMP"

(* Instruction::Decode. *)
Decode(value) ==
  LET first == opTable[value.op + 1]
  IN  [opCode |-> CASE first = "SPECIAL" -> specialTable[value.funct + 1]
                    [] first = "BCOND" -> Bcond(value.rt)
                    [] OTHER -> first,
       rs |-> value.rs, rt |-> value.rt, rd |-> value.rd,
       extra |-> CASE first = "SPECIAL" -> value.shamt
                   [] first \in {"J", "JAL"} -> value.imm
                   [] OTHER -> SignExtend(value.imm, 2 * B)]
-----------------------------------------------------------------------------
(* Memory, exceptions and the effects of an instruction.                     *)

Reachable(addr, size) == addr % size = 0 /\ addr >= 0 /\ addr + size <= MemorySize

(* Machine::ReadMem: a byte is signed, a half word is not. *)
ReadMem(mem, addr, size) ==
  CASE size = 1 -> SignExtend(mem[addr], B)
    [] size = 2 -> mem[addr] + 2^B * mem[addr + 1]
    [] size = 4 -> Signed(mem[addr] + 2^B * (mem[addr + 1] + 2^B * (mem[addr + 2] + 2^B * mem[addr + 3])))

(* Machine::WriteMem *)
WriteMem(mem, addr, size, value) ==
  [a \in DOMAIN mem |-> IF a \in addr .. addr + size - 1
                        THEN (Unsigned(value) \div 2^(B * (a - addr))) % 2^B ELSE mem[a]]

(* Machine::DelayedLoad *)
DelayedLoad(c, nextReg, nextValue) ==
  [c EXCEPT !.r = [@ EXCEPT ![c.loadReg] = c.loadValue, ![0] = 0], !.loadReg = nextReg, !.loadValue = nextValue]

(* Machine::RaiseException up to the call of ExceptionHandler. *)
RaiseException(c, which, badVAddr) == [DelayedLoad(c, 0, 0) EXCEPT !.badVAddr = badVAddr, !.status = which]

Effect(c, pcAfter, reg, value) == [c |-> c, pcAfter |-> pcAfter, loadReg |-> reg, loadValue |-> value]
Finish(c) == Effect(c, Signed(c.nextPC + 4), 0, 0)
Put(c, reg, value) == Finish([c EXCEPT !.r[reg] = Signed(value)])
HiLo(c, hi, lo) == Finish([c EXCEPT !.hi = Signed(hi), !.lo = Signed(lo)])
LoadLater(c, reg, value) == Effect(c, Signed(c.nextPC + 4), reg, value)
Jump(c, target) == Effect(c, Signed(target), 0, 0)
Trap(c, which, badVAddr) == Finish(RaiseException(c, which, badVAddr))
Link(c, reg) == [c EXCEPT !.r[reg] = Signed(c.nextPC + 4)]
Store(c, addr, size, value) ==
  IF Reachable(addr, size) THEN Finish([c EXCEPT !.mem = WriteMem(@, addr, size, value)])
  ELSE Trap(c, "AddressErrorException", addr)
Truth(p) == IF p THEN 1 ELSE 0

-----------------------------------------------------------------------------
(* The instructions, in the order of the switch in OneInstruction.           *)

(* Mutant: the result is stored before the overflow is noticed. *)
AddsEarly(c, i, a, b) ==
  LET sum == Signed(a + b) IN
  CASE i.opCode = "ADD" -> IF (a < 0) = (b < 0) /\ (a < 0) # (sum < 0)
                           THEN Trap([c EXCEPT !.r[i.rd] = sum], "OverflowException", 0) ELSE Put(c, i.rd, sum)
    [] OTHER -> Finish(c)

Adds(c, i, a, b) ==
  LET sum == Signed(a + b)
      sumi == Signed(a + i.extra)
  IN  CASE i.opCode = "ADD" -> IF (a < 0) = (b < 0) /\ (a < 0) # (sum < 0)
                               THEN Trap(c, "OverflowException", 0) ELSE Put(c, i.rd, sum)
        [] i.opCode = "ADDI" -> IF (a < 0) = (i.extra < 0) /\ (i.extra < 0) # (sumi < 0)
                                THEN Trap(c, "OverflowException", 0) ELSE Put(c, i.rt, sumi)
        [] i.opCode = "ADDIU" -> Put(c, i.rt, sumi)
        [] i.opCode = "ADDU" -> Put(c, i.rd, sum)
        [] i.opCode = "AND" -> Put(c, i.rd, BitAnd(a, b))
        [] i.opCode = "ANDI" -> Put(c, i.rt, BitAnd(a, Half(i.extra)))

Branches(c, i, a, b) ==
  LET linked == IF i.opCode \in {"BGEZAL", "BLTZAL"} THEN Link(c, R31) ELSE c
      x == linked.r[i.rs]
      taken == CASE i.opCode = "BEQ" -> a = b
                 [] i.opCode \in {"BGEZAL", "BGEZ"} -> x >= 0
                 [] i.opCode = "BGTZ" -> a > 0
                 [] i.opCode = "BLEZ" -> a <= 0
                 [] i.opCode \in {"BLTZAL", "BLTZ"} -> x < 0
                 [] i.opCode = "BNE" -> a # b
  IN  IF taken THEN Jump(linked, c.nextPC + IndexToAddr(i.extra)) ELSE Finish(linked)

(* The division of C rounds to zero. *)
Quotient(a, b) ==
  LET q == (IF a < 0 THEN -a ELSE a) \div (IF b < 0 THEN -b ELSE b) IN IF (a < 0) = (b < 0) THEN q ELSE -q

(* The smallest number divided by -1 is undefined in C and stops the host    *)
(* process.                                                                  *)
Divides(c, i, a, b) ==
  CASE b = 0 -> HiLo(c, 0, 0)
    [] b # 0 /\ i.opCode = "DIVU" -> HiLo(c, Unsigned(a) % Unsigned(b), Unsigned(a) \div Unsigned(b))
    [] b = -1 /\ a = MinInt /\ i.opCode = "DIV" -> Finish([c EXCEPT !.status = "HostTrap"])
    [] OTHER -> HiLo(c, a - b * Quotient(a, b), Quotient(a, b))

Jumps(c, i) ==
  LET linked == CASE i.opCode = "JAL" -> Link(c, R31) [] i.opCode = "JALR" -> Link(c, i.rd) [] OTHER -> c
      region == 2^(Width - (B \div 2))
      pcAfter == Unsigned(c.nextPC + 4)
  IN  IF i.opCode \in {"J", "JAL"} THEN Jump(linked, pcAfter - (pcAfter % region) + 4 * i.extra)
      ELSE Jump(linked, linked.r[i.rs])

Loads(c, i, a) ==
  LET tmp == Signed(a + i.extra)
      size == CASE i.opCode \in {"LB", "LBU"} -> 1 [] i.opCode \in {"LH", "LHU"} -> 2 [] OTHER -> 4
  IN  IF i.opCode = "LUI" THEN Put(c, i.rt, i.extra * 2^(2 * B))
      ELSE IF ~Reachable(tmp, size) THEN Trap(c, "AddressErrorException", tmp)
      ELSE LET value == ReadMem(c.mem, tmp, size)
           IN  LoadLater(c, i.rt, CASE i.opCode = "LBU" -> value % 2^B
                                    [] i.opCode = "LH" -> SignExtend(value, 2 * B)
                                    [] OTHER -> value)

LowBytes(x, n) == Unsigned(x) % 2^(n * B)
HighBytes(x, n) == Unsigned(x) - LowBytes(x, 4 - n)

(* Mutant: the load that is under way is not seen. *)
LoadsPartNotSeen(c, i, a) ==
  LET tmp == Signed(a + i.extra)
      byte == tmp % 4
      old == c.r[i.rt]
  IN  IF ~Reachable(tmp - byte, 4) THEN Trap(c, "AddressErrorException", tmp - byte)
      ELSE LET value == ReadMem(c.mem, tmp - byte, 4)
           IN  LoadLater(c, i.rt, Signed(
                 IF i.opCode = "LWL" THEN LowBytes(old, 3 - byte) + value * 2^((3 - byte) * B)
                 ELSE HighBytes(old, byte) + Unsigned(value) \div 2^(byte * B)))

(* LWL and LWR: a part of a word, joined with the other part even where that *)
(* is still under way.                                                       *)
LoadsPart(c, i, a) ==
  LET tmp == Signed(a + i.extra)
      byte == tmp % 4
      old == IF c.loadReg = i.rt THEN c.loadValue ELSE c.r[i.rt]
  IN  IF ~Reachable(tmp - byte, 4) THEN Trap(c, "AddressErrorException", tmp - byte)
      ELSE LET value == ReadMem(c.mem, tmp - byte, 4)
           IN  LoadLater(c, i.rt, Signed(
                 IF i.opCode = "LWL" THEN LowBytes(old, 3 - byte) + value * 2^((3 - byte) * B)
                 ELSE HighBytes(old, byte) + Unsigned(value) \div 2^(byte * B)))

(* Mutant: no carry from the lower to the upper word. *)
MultiplyNoCarry(a, b) ==
  LET RECURSIVE Loop(_, _, _, _, _)
      Loop(n, bHi, bLo, hi, lo) ==
        IF n = Width THEN <<hi, lo>>
        ELSE LET one == (Unsigned(a) \div 2^n) % 2 = 1
             IN  Loop(n + 1, Unsigned(2 * bHi) + Truth(bLo > MaxInt), Unsigned(2 * bLo),
                      IF one THEN Unsigned(hi + bHi) ELSE hi, IF one THEN Unsigned(lo + bLo) ELSE lo)
  IN  Loop(0, 0, Unsigned(b), 0, 0)

(* The loop of Mult: the bits of a from the lowest, b shifted in two words.  *)
(* That a is shifted with its sign does not matter to its Width bits, and    *)
(* the loop may end early when no bit is left.                               *)
Multiply(a, b) ==
  LET RECURSIVE Loop(_, _, _, _, _)
      Loop(n, bHi, bLo, hi, lo) ==
        IF n = Width \/ Unsigned(a) \div 2^n = 0 THEN <<hi, lo>>
        ELSE LET one == (Unsigned(a) \div 2^n) % 2 = 1
                 sum == Unsigned(lo + bLo)
             IN  Loop(n + 1, Unsigned(2 * bHi) + Truth(bLo > MaxInt), Unsigned(2 * bLo),
                      IF one THEN Unsigned(hi + Truth(sum < bLo) + bHi) ELSE hi, IF one THEN sum ELSE lo)
  IN  Loop(0, 0, Unsigned(b), 0, 0)

(* Mult: the signs are taken off and put back on the double word. *)
Mult(c, a, b, signedArith) ==
  LET abs(x) == IF signedArith /\ x < 0 THEN Signed(-x) ELSE x
      negative == signedArith /\ (a < 0) # (b < 0)
      p == Multiply(abs(a), abs(b))
      lo == Unsigned(-p[2])
  IN  IF a = 0 \/ b = 0 THEN HiLo(c, 0, 0)
      ELSE IF negative THEN HiLo(c, -1 - p[1] + Truth(lo = 0), lo)
      ELSE HiLo(c, p[1], p[2])

MovesAndMult(c, i, a, b) ==
  CASE i.opCode = "MFHI" -> Put(c, i.rd, c.hi)
    [] i.opCode = "MFLO" -> Put(c, i.rd, c.lo)
    [] i.opCode = "MTHI" -> HiLo(c, a, c.lo)
    [] i.opCode = "MTLO" -> HiLo(c, c.hi, a)
    [] i.opCode = "MULT" -> Mult(c, a, b, TRUE)
    [] i.opCode = "MULTU" -> Mult(c, a, b, FALSE)

Ors(c, i, a, b) ==
  CASE i.opCode = "NOR" -> Put(c, i.rd, -1 - BitOr(a, b))
    [] i.opCode = "OR" -> Put(c, i.rd, BitOr(a, b))
    [] i.opCode = "ORI" -> Put(c, i.rt, BitOr(a, Half(i.extra)))

(* SB, SH and SW *)
Stores(c, i, a, b) ==
  Store(c, Signed(a + i.extra), CASE i.opCode = "SB" -> 1 [] i.opCode = "SH" -> 2 [] OTHER -> 4, b)

ShiftsLeftAndSets(c, i, a, b) ==
  CASE i.opCode = "SLL" -> Put(c, i.rd, b * 2^i.extra)
    [] i.opCode = "SLLV" -> Put(c, i.rd, b * 2^(a % Width))
    [] i.opCode = "SLT" -> Put(c, i.rd, Truth(a < b))
    [] i.opCode = "SLTI" -> Put(c, i.rt, Truth(a < i.extra))
    [] i.opCode = "SLTIU" -> Put(c, i.rt, Truth(Unsigned(a) < Unsigned(i.extra)))
    [] i.opCode = "SLTU" -> Put(c, i.rd, Truth(Unsigned(a) < Unsigned(b)))

(* tmp is an int: SRL and SRLV copy the sign, as SRA and SRAV do. *)
ShiftsRight(c, i, a, b) ==
  Put(c, i.rd, b \div 2^(IF i.opCode \in {"SRA", "SRL"} THEN i.extra ELSE a % Width))

Subtracts(c, i, a, b) ==
  LET diff == Signed(a - b) IN
  IF i.opCode = "SUB" /\ (a < 0) # (b < 0) /\ (a < 0) # (diff < 0) THEN Trap(c, "OverflowException", 0)
  ELSE Put(c, i.rd, diff)

(* SWL and SWR *)
StoresPart(c, i, a, b) ==
  LET tmp == Signed(a + i.extra)
      byte == tmp % 4
  IN  IF ~Reachable(tmp - byte, 4) THEN Trap(c, "AddressErrorException", tmp - byte)
      ELSE LET value == ReadMem(c.mem, tmp - byte, 4)
           IN  Store(c, tmp - byte, 4,
                 IF i.opCode = "SWL" THEN HighBytes(value, 3 - byte) + Unsigned(b) \div 2^((3 - byte) * B)
                 ELSE LowBytes(value, byte) + b * 2^(byte * B))

Others(c, i, a, b) ==
  CASE i.opCode = "SYSCALL" -> Trap(c, "SyscallException", 0)
    [] i.opCode = "XOR" -> Put(c, i.rd, BitXor(a, b))
    [] i.opCode = "XORI" -> Put(c, i.rt, BitXor(a, Half(i.extra)))
    [] i.opCode \in {"RES", "UNIMP"} -> Trap(c, "IllegalInstrException", 0)

(* Machine::OneInstruction: the switch.  The default asserts FALSE. *)
Execute(c, i) ==
  LET a == c.r[i.rs]
      b == c.r[i.rt]
  IN  CASE i.opCode \in {"ADD", "ADDI", "ADDIU", "ADDU", "AND", "ANDI"} -> Adds(c, i, a, b)
        [] i.opCode \in {"BEQ", "BGEZ", "BGEZAL", "BGTZ", "BLEZ", "BLTZ", "BLTZAL", "BNE"} -> Branches(c, i, a, b)
        [] i.opCode \in {"DIV", "DIVU"} -> Divides(c, i, a, b)
        [] i.opCode \in {"J", "JAL", "JALR", "JR"} -> Jumps(c, i)
        [] i.opCode \in {"LB", "LBU", "LH", "LHU", "LUI", "LW"} -> Loads(c, i, a)
        [] i.opCode \in {"LWL", "LWR"} -> LoadsPart(c, i, a)
        [] i.opCode \in {"MFHI", "MFLO", "MTHI", "MTLO", "MULT", "MULTU"} -> MovesAndMult(c, i, a, b)
        [] i.opCode \in {"NOR", "OR", "ORI"} -> Ors(c, i, a, b)
        [] i.opCode \in {"SB", "SH", "SW"} -> Stores(c, i, a, b)
        [] i.opCode \in {"SLL", "SLLV", "SLT", "SLTI", "SLTIU", "SLTU"} -> ShiftsLeftAndSets(c, i, a, b)
        [] i.opCode \in {"SRA", "SRAV", "SRL", "SRLV"} -> ShiftsRight(c, i, a, b)
        [] i.opCode \in {"SUB", "SUBU"} -> Subtracts(c, i, a, b)
        [] i.opCode \in {"SWL", "SWR"} -> StoresPart(c, i, a, b)
        [] i.opCode \in {"SYSCALL", "XOR", "XORI", "RES", "UNIMP"} -> Others(c, i, a, b)
        [] OTHER -> Finish([c EXCEPT !.status = "ASSERT"])

(* The rest of OneInstruction: a delayed load is done and the program        *)
(* counters advance, unless there was an exception.                          *)
OneInstruction(value) ==
  /\ m.status = "run"
  /\ Reachable(m.pc, 4)
  /\ LET e == Execute(m, Decode(value))
         done == DelayedLoad(e.c, e.loadReg, e.loadValue)
     IN  m' = IF e.c.status # "run" THEN e.c
              ELSE [done EXCEPT !.prevPC = m.pc, !.pc = m.nextPC, !.nextPC = e.pcAfter]
  /\ past' = Append(past, [i |-> Decode(value), before |-> m])

(* The fetch fails, and there is no instruction. *)
NoInstruction == [opCode |-> "none", rs |-> 0, rt |-> 0, rd |-> 0, extra |-> 0]

BadFetch ==
  /\ m.status = "run"
  /\ ~Reachable(m.pc, 4)
  /\ m' = RaiseException(m, "AddressErrorException", m.pc)
  /\ past' = Append(past, [i |-> NoInstruction, before |-> m])

(* The initial registers are those of AddrSpace::InitRegisters, or what a    *)
(* program has made of them.                                                 *)
Init ==
  /\ test \in DOMAIN Tests
  /\ m \in Tests[test].start
  /\ past = <<>>

(* Machine::Run *)
Next ==
  /\ Len(past) < Tests[test].steps
  /\ \/ \E value \in Tests[test].code : OneInstruction(value)
     \/ BadFetch
  /\ UNCHANGED test

Spec == Init /\ [][Next]_vars

-----------------------------------------------------------------------------
(* Properties.                                                              *)

Steps == Len(past)
(* The instruction that was executed n steps ago, 1 for the last one. *)
Ago(n) == past[Steps + 1 - n]
Op(n) == Ago(n).i.opCode
BaseOf(n) == Ago(n).before.r[Ago(n).i.rs] + Ago(n).i.extra

(* The pair LWL and LWR, in either order, loads a word from any address,     *)
(* although the second runs before the first has reached the register.       *)
UnalignedLoad ==
  \A l, r \in {1, 2} :
    /\ Steps >= 2
    /\ m.status = "run"
    /\ l # r
    /\ Op(l) = "LWL"
    /\ Op(r) = "LWR"
    /\ Ago(1).i.rt = Ago(2).i.rt
    /\ Ago(1).i.rt # 0
    /\ BaseOf(l) = BaseOf(r) + 3
    => LET x == BaseOf(r) IN
       /\ m.loadReg = Ago(1).i.rt
       /\ m.loadValue = ReadMem([k \in 0 .. 3 |-> m.mem[x + k]], 0, 4)

(* The pair SWL and SWR stores a word to any address, and nothing else. *)
UnalignedStore ==
  \A l, r \in {1, 2} :
    /\ Steps >= 2
    /\ m.status = "run"
    /\ l # r
    /\ Op(l) = "SWL"
    /\ Op(r) = "SWR"
    /\ Ago(1).before.r[Ago(1).i.rt] = Ago(2).before.r[Ago(2).i.rt]
    /\ BaseOf(l) = BaseOf(r) + 3
    => m.mem = WriteMem(Ago(2).before.mem, BaseOf(r), 4, Ago(1).before.r[Ago(1).i.rt])

Branching == {"BEQ", "BGEZ", "BGEZAL", "BGTZ", "BLEZ", "BLTZ", "BLTZAL", "BNE", "J", "JAL", "JALR", "JR"}

(* A call and the return to its link register, each with a delay slot, go on *)
(* after the delay slot of the call.                                         *)
SubroutineReturns ==
  /\ Steps >= 4
  /\ m.status = "run"
  /\ Op(4) \in {"JAL", "BGEZAL", "BLTZAL"}
  /\ Ago(4).before.nextPC = Ago(4).before.pc + 4
  /\ Op(3) \notin Branching
  /\ Ago(3).before.r[R31] = Ago(2).before.r[R31]
  /\ Op(2) = "JR"
  /\ Ago(2).i.rs = R31
  /\ Op(1) \notin Branching
  => m.pc = Ago(4).before.pc + 8

(* Whatever bits are fetched, the instruction is executed or raises an       *)
(* exception: the ASSERT for an operation without a case is never reached.   *)
(* And an exception leaves the machine as it was before the instruction, its *)
(* program counters included, but for a delayed load, which is done: the     *)
(* kernel sees no half of an instruction and can have it executed again.     *)
ExceptionsArePrecise ==
  /\ m.status # "ASSERT"
  /\ m.status # "run" =>
       LET b == Ago(1).before IN
       /\ <<m.pc, m.nextPC, m.prevPC>> = <<b.pc, b.nextPC, b.prevPC>>
       /\ <<m.hi, m.lo, m.mem>> = <<b.hi, b.lo, b.mem>>
       /\ m.r = [b.r EXCEPT ![b.loadReg] = b.loadValue, ![0] = 0]

(* What a compiler writes as one operation works as one, whatever is in the  *)
(* delay slots: loads and stores of words that are not aligned, and a call   *)
(* with its return.                                                          *)
SequencesWork == UnalignedLoad /\ UnalignedStore /\ SubroutineReturns

(* The arithmetic of the last instruction, where no load is under way: sums  *)
(* and differences are exact or an overflow, products are exact in two       *)
(* words, a quotient has its remainder, comparisons compare numbers.         *)
ArithmeticIsExact ==
  Steps > 0 =>
    LET b == Ago(1).before
        i == Ago(1).i
        x == b.r[i.rs]
        y == b.r[i.rt]
        Exact(v, reg) == IF InRange(v) THEN m.status = "run" /\ m.r[reg] = v ELSE m.status = "OverflowException"
    IN  b.loadReg = 0 /\ i.rd # 0 /\ i.rt # 0 =>
        CASE i.opCode = "ADD" -> Exact(x + y, i.rd)
          [] i.opCode = "ADDI" -> Exact(x + i.extra, i.rt)
          [] i.opCode = "SUB" -> Exact(x - y, i.rd)
          [] i.opCode = "MULT" -> m.hi * 2^Width + Unsigned(m.lo) = x * y
          [] i.opCode = "MULTU" -> Unsigned(m.hi) * 2^Width + Unsigned(m.lo) = Unsigned(x) * Unsigned(y)
          [] i.opCode = "DIV" -> y # 0 /\ m.status = "run" =>
               x = m.lo * y + m.hi /\ m.hi * x >= 0 /\ m.hi * m.hi < y * y
          [] i.opCode = "DIVU" -> y # 0 => Unsigned(x) = Unsigned(m.lo) * Unsigned(y) + Unsigned(m.hi)
          [] i.opCode = "SLTU" -> (m.r[i.rd] = 1) = (Unsigned(x) < Unsigned(y))
          [] OTHER -> TRUE
=============================================================================
