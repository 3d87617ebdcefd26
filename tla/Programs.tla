------------------------------ MODULE Programs ------------------------------
(***************************************************************************)
(* From the command line to a running user program, for TLC: the start and *)
(* the end of the kernel, the conversion of the program's file, its pages, *)
(* the instructions of the processor, and the system calls.                *)
(*                                                                         *)
(* The modules share no variable, and each behaviour has the steps of one  *)
(* of them, its "part", while the others stay where they start.            *)
(***************************************************************************)
EXTENDS KernelStart, CoffToNoff, Paging, SystemCalls

VARIABLES part, test, m, past

-----------------------------------------------------------------------------
(* A program with a header of one byte, then code, read-only data and data:  *)
(* their borders lie inside pages.                                           *)
Seg(virtualAddr, size, inFileAddr) ==
  [virtualAddr |-> virtualAddr, size |-> size, inFileAddr |-> inFileAddr]
Image == [o \in 0 .. 4 |-> 10 + o]

ASegments == <<Seg(0, 2, 1), Seg(3, 1, 4), Seg(2, 1, 3)>>

(* Memories with a zero byte near the start or at the end. *)
SomeMemories == {[a \in 0 .. 3 |-> IF a = zero THEN 0 ELSE a + 1] : zero \in {1, 3}}

-----------------------------------------------------------------------------
(* Instructions for a processor with bytes of two bits. *)
D == INSTANCE Mips WITH B <- 2, MemorySize <- 32, Tests <- <<>>

Instr(op, rs, rt, rd, shamt, funct, imm) ==
  [op |-> op, rs |-> rs, rt |-> rt, rd |-> rd, shamt |-> shamt, funct |-> funct, imm |-> imm % 16]
IType(opCode, rs, rt, imm) ==
  Instr((CHOOSE k \in DOMAIN D!opTable : D!opTable[k] = opCode) - 1, rs, rt, 0, 0, 0, imm)
RType(opCode, rs, rt, rd, shamt) ==
  Instr(0, rs, rt, rd, shamt, (CHOOSE k \in DOMAIN D!specialTable : D!specialTable[k] = opCode) - 1, 0)

Machine(r) ==
  [r |-> r, hi |-> 0, lo |-> 0, pc |-> 0, nextPC |-> 4, prevPC |-> 0, loadReg |-> 0, loadValue |-> 0,
   badVAddr |-> 0, mem |-> [a \in 0 .. 31 |-> (a + a \div 4) % 4], status |-> "run"]
Regs == {0, 1, 2, 3, 31}

(* Sequences: pieces of words at an address that is not aligned, calls,      *)
(* loads that change the base, overflow and traps.                           *)
Sequences4 ==
  {IType("LWL", 1, 2, 3), IType("LWR", 1, 2, 0), IType("SWL", 1, 2, 3), IType("SWR", 1, 2, 0),
   IType("LWR", 1, 0, 0), IType("LB", 1, 1, 4), IType("ADDIU", 1, 1, 1), RType("ADD", 2, 2, 2, 0),
   IType("JAL", 0, 0, 3), RType("JR", 31, 0, 0, 0), RType("JR", 1, 0, 0, 0), Instr(1, 2, 17, 0, 0, 0, 2),
   IType("LH", 1, 2, 0), RType("SYSCALL", 0, 0, 0, 0)}

(* Every operation, and operands around the borders of their range. *)
Corner == {-128, -127, -86, -65, -64, -16, -3, -1, 0, 1, 3, 16, 63, 64, 85, 127}
EveryOperation ==
  {RType(D!specialTable[k], 1, 2, 3, 3) : k \in DOMAIN D!specialTable} \cup
  {IType(D!opTable[k], 1, 2, imm) : k \in DOMAIN D!opTable \ {1}, imm \in {-8, 7}}

(* All values of the fields that choose the operation. *)
Encodings ==
  {Instr(0, 1, 2, 3, 1, funct, 0) : funct \in 0 .. 63} \cup {Instr(1, 1, rt, 3, 0, 0, 1) : rt \in 0 .. 31}
    \cup {Instr(op, 1, 2, 3, 0, 0, 1) : op \in 2 .. 63}

Tests ==
  [sequences |-> [start |-> {Machine([x \in Regs |-> CASE x = 1 -> 5 [] x = 2 -> 77 [] OTHER -> 0])},
                  code |-> Sequences4, steps |-> 4],
   values |-> [start |-> {Machine([x \in Regs |-> CASE x = 1 -> v [] x = 2 -> w [] OTHER -> 0]) :
                            v, w \in Corner},
               code |-> EveryOperation, steps |-> 1],
   encodings |-> [start |-> {Machine([x \in 0 .. 31 |-> IF x = 1 THEN v ELSE 0]) : v \in {-1, 5}},
                  code |-> Encodings, steps |-> 1]]

M == INSTANCE Mips WITH B <- 2, MemorySize <- 32

ASSUME ProgramsAssumption ==
  CoffAssumption /\ PagingAssumption /\ SystemCallAssumption

-----------------------------------------------------------------------------
mipsVars == <<test, m, past>>
vars == <<part, kernelVars, coffVars, pagingVars, mipsVars, callVars>>

(* Every start of the part, one start of the others. *)
Init ==
  /\ part \in {"start", "coff", "paging", "mips", "syscalls"}
  /\ part = "start" \/ (args = <<>> /\ stub = FALSE)
  /\ part = "coff" \/ coff = [magic |-> "good", sections |-> <<>>]
  /\ part = "mips" \/ test = "sequences"
  /\ InitKernel
  /\ InitCoff /\ (part # "coff" => noff.there)
  /\ InitPaging
  /\ M!Init
  /\ InitCalls /\ (part # "syscalls" => mem[1] = 0)

Next ==
  /\ UNCHANGED part
  /\ \/ part = "start" /\ NextKernel /\ UNCHANGED <<coffVars, pagingVars, mipsVars, callVars>>
     \/ part = "coff" /\ NextCoff /\ UNCHANGED <<kernelVars, pagingVars, mipsVars, callVars>>
     \/ part = "paging" /\ NextPaging /\ UNCHANGED <<kernelVars, coffVars, mipsVars, callVars>>
     \/ part = "mips" /\ M!Next /\ UNCHANGED <<kernelVars, coffVars, pagingVars, callVars>>
     \/ part = "syscalls" /\ NextCalls /\ UNCHANGED <<kernelVars, coffVars, pagingVars, mipsVars>>

Spec == Init /\ [][Next]_vars

-----------------------------------------------------------------------------
(* Properties.  DoesWhatWasAsked, PartsAreLive, NoffIsFaithful, TablesAgree, *)
(* ReadSeesWrite, CallIsServed and JoinAwaitsExec are those of the modules    *)
(* above; a component that takes no step is in a state that it starts in.    *)

(* Loads and stores at any address, and calls, work across delay slots. *)
SequencesWork == part = "mips" => M!SequencesWork

(* Every word is executed or raises an exception, and the kernel sees no     *)
(* half of an instruction.                                                   *)
ExceptionsArePrecise == part = "mips" => M!ExceptionsArePrecise

(* Results are exact, or an overflow is reported. *)
ArithmeticIsExact == part = "mips" => M!ArithmeticIsExact
=============================================================================
