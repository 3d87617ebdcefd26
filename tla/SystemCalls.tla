----------------------------- MODULE SystemCalls -----------------------------
(***************************************************************************)
(* The system calls (ExceptionHandler in userprog/exception.cc, and        *)
(* userprog/ksyscall.h).  A program puts the call's number and arguments   *)
(* into registers and traps; a trap may be in the delay slot of a branch.  *)
(* Addresses of the program mean nothing to the host: read and execvp fail *)
(* there with EFAULT.                                                      *)
(***************************************************************************)
EXTENDS Integers, FiniteSets, Sequences

CONSTANTS
  Pid,           \* process numbers of children on the host, greater than 1
  Memories,      \* possible contents of the program's memory: [0 .. n -> byte]
  BufferSize,    \* of SysWrite, 128 in the code
  WriteSize,     \* sizes that the program asks for
  Operand,       \* numbers that the program adds
  MaxCalls       \* a bound: system calls made

SystemCallAssumption ==
  /\ BufferSize \in Nat \ {0}
  /\ Pid \subseteq Nat \ {0, 1}
  /\ \A m \in Memories : \E last \in DOMAIN m : last \in Nat /\ m \in [0 .. last -> 0 .. 255]
  /\ WriteSize \subseteq Nat
  /\ Operand \subseteq Int
  /\ MaxCalls \in Nat

VARIABLES
  children,      \* the children not waited for: [pid -> "running" or "zombie"]
  regs,          \* r2, r4, r5, r6, pc, nextPC, prevPC
  mem,           \* the program's memory
  mode,          \* "user", "call", "halted" or "aborted"
  output,        \* what the last write put out
  calls,
  trap,          \* the registers when the last call was made (not in the code)
  owed           \* Execs whose result has not been joined (not in the code)

callVars == <<children, regs, mem, mode, output, calls, trap, owed>>

SC_Halt == 0
SC_Exec == 2
SC_Join == 3
SC_Read == 7
SC_Write == 8
SC_Add == 42
Fault == -3         \* no byte: the address is not the program's
Undefined == -2     \* a byte of a local array that was never set

-----------------------------------------------------------------------------
(* The host's processes: fork, exit and waitpid.  A child is running until   *)
(* it exits, then a zombie until it is waited for.                           *)

Fresh == Pid \ DOMAIN children
With(pid, state) == [p \in DOMAIN children \cup {pid} |-> IF p = pid THEN state ELSE children[p]]
Without(pid) == [p \in DOMAIN children \ {pid} |-> children[p]]

(* Those that waitpid(id) waits for: -1 and 0 are any child. *)
Awaited(id) == IF id \in {-1, 0} THEN DOMAIN children ELSE DOMAIN children \cap {id}

(* waitpid returns -1 at once when there is nothing to wait for, and the     *)
(* number of a child that has ended otherwise.                               *)
WaitFails(id) == Awaited(id) = {}
WaitEnds(id, pid) == pid \in Awaited(id) /\ children[pid] = "zombie"

ChildExit(pid) ==
  /\ pid \in DOMAIN children
  /\ children[pid] = "running"
  /\ children' = With(pid, "zombie")

-----------------------------------------------------------------------------
InitCalls ==
  /\ children = [p \in {} |-> "running"]
  /\ mem \in Memories
  /\ regs = [r2 |-> 0, r4 |-> 0, r5 |-> 0, r6 |-> 0, pc |-> 0, nextPC |-> 4, prevPC |-> 0]
  /\ mode = "user"
  /\ output = <<>>
  /\ calls = 0
  /\ trap = regs
  /\ owed = 0

(* Mutant: the value of a comparison that is true in the parent. *)
ExecFlag == 1

(* In SysExec pid is the value of a comparison, 0 in the parent, whether     *)
(* there is a child or not: the parent returns -1.                           *)
ExecResult == -1

(* The program comes to a SYSCALL instruction, or to one in a delay slot. *)
Trap ==
  /\ mode = "user"
  /\ calls < MaxCalls
  /\ \E call \in {SC_Halt, SC_Add, SC_Write, SC_Read, SC_Exec, SC_Join, 1}, next \in {4, 40} :
       \E r4 \in CASE call = SC_Add -> Operand [] call = SC_Join -> {-1, ExecResult} \cup Pid [] OTHER -> DOMAIN mem,
          r5 \in IF call = SC_Add THEN Operand ELSE IF call \in {SC_Read, SC_Write} THEN WriteSize ELSE {0} :
         regs' = [r2 |-> call, r4 |-> r4, r5 |-> r5, r6 |-> 1, pc |-> 0, nextPC |-> next, prevPC |-> 0]
  /\ mode' = "call"
  /\ calls' = calls + 1
  /\ trap' = regs'
  /\ UNCHANGED <<children, mem, output, owed>>

(* incrementPC, after the result is put into r2. *)
IncrementPC(r, result) == [r EXCEPT !.r2 = result, !.prevPC = r.pc, !.pc = r.nextPC, !.nextPC = r.nextPC + 4]

Calling(call) == mode = "call" /\ regs.r2 = call
Return(result) == regs' = IncrementPC(regs, result) /\ mode' = "user"

SysHalt ==
  /\ Calling(SC_Halt)
  /\ mode' = "halted"
  /\ UNCHANGED <<children, regs, mem, output, calls, trap, owed>>

SysAdd(op1, op2) == op1 + op2

Add ==
  /\ Calling(SC_Add)
  /\ regs' = [regs EXCEPT !.r2 = SysAdd(regs.r4, regs.r5), !.prevPC = regs.pc, !.pc = regs.pc + 4, !.nextPC = regs.pc + 8]
  /\ mode' = "user"
  /\ UNCHANGED <<children, mem, output, calls, trap, owed>>

(* The bytes that ReadMem delivers to SysWrite's loop, up to one more than   *)
(* the array has.  A page that is not in memory is brought there and the     *)
(* address translated again, before ReadMem returns (the module Paging).     *)
Seen(buf) == [n \in 1 .. BufferSize + 1 |-> IF buf + n - 1 \in DOMAIN mem THEN mem[buf + n - 1] ELSE Fault]

(* Mutant: the loop ends when the last byte of the array is left. *)
TurnsOneLess(seen) ==
  LET ends == {n \in 1 .. BufferSize : seen[n] = 0} \cup {BufferSize - 1}
  IN  CHOOSE n \in ends : \A k \in ends : n <= k

(* The number of turns: up to a zero byte. *)
Turns(seen) ==
  LET ends == {n \in 1 .. BufferSize : seen[n] = 0} \cup {BufferSize + 1}
  IN  CHOOSE n \in ends : \A k \in ends : n <= k

(* The bytes that SysWrite may hand to the host after the given turns: what  *)
(* the loop has put into the array, and what was on the stack beside it.  A  *)
(* turn too many writes behind the array.  Built as the Makefile says, that  *)
(* is the low byte of count, and the loop goes on at another place.          *)
Buffers(seen, turns, size) ==
  IF turns <= BufferSize
  THEN {[n \in 1 .. size |-> IF n <= turns THEN seen[n] ELSE Undefined]}
  ELSE [1 .. size -> {mem[a] : a \in DOMAIN mem} \cup {Undefined}]

(* An address that the program does not have is an exception that ends       *)
(* Nachos.  So may the write behind the array.                               *)
Write ==
  /\ Calling(SC_Write)
  /\ LET seen == Seen(regs.r4)
         turns == Turns(seen)
     IN  \/ /\ turns > BufferSize \/ \E n \in 1 .. turns : seen[n] = Fault
            /\ mode' = "aborted"
            /\ UNCHANGED <<regs, output>>
         \/ /\ \A n \in 1 .. turns : seen[n] # Fault
            /\ output' \in Buffers(seen, turns, regs.r5)
            /\ Return(regs.r5)
  /\ UNCHANGED <<children, mem, calls, trap, owed>>

SysRead == -1

Read ==
  /\ Calling(SC_Read)
  /\ Return(SysRead)
  /\ UNCHANGED <<children, mem, output, calls, trap, owed>>

(* fork, which may fail.  The child is bash or exits. *)
SysExec ==
  \/ \E p \in Fresh : children' = With(p, "running")
  \/ children' = children

Exec ==
  /\ Calling(SC_Exec)
  /\ SysExec
  /\ Return(ExecResult)
  /\ owed' = owed + 1
  /\ UNCHANGED <<mem, output, calls, trap>>

SysJoin(pid) ==
  \/ WaitFails(pid) /\ Return(-1) /\ children' = children
  \/ \E p \in DOMAIN children : WaitEnds(pid, p) /\ Return(p) /\ children' = Without(p)

Join ==
  /\ Calling(SC_Join)
  /\ SysJoin(regs.r4)
  /\ owed' = IF regs.r4 = ExecResult /\ owed > 0 THEN owed - 1 ELSE owed
  /\ UNCHANGED <<mem, output, calls, trap>>

(* Every other call ends in ASSERTNOTREACHED. *)
Unexpected ==
  /\ mode = "call"
  /\ regs.r2 \notin {SC_Halt, SC_Add, SC_Write, SC_Read, SC_Exec, SC_Join}
  /\ mode' = "aborted"
  /\ UNCHANGED <<children, regs, mem, output, calls, trap, owed>>

Exit == \E p \in Pid : ChildExit(p) /\ UNCHANGED <<regs, mem, mode, output, calls, trap, owed>>

NextCalls == Trap \/ SysHalt \/ Add \/ Write \/ Read \/ Exec \/ Join \/ Unexpected \/ Exit
SpecCalls == InitCalls /\ [][NextCalls]_callVars

-----------------------------------------------------------------------------
(* Properties.                                                              *)

(* A call goes on where the machine would go on after any other instruction, *)
(* the target of the branch if it is in a delay slot.  (Only Add, which sets *)
(* the program counters itself, goes on at pc + 4 there.)                    *)
ResumesAfterCall ==
  mode = "user" /\ calls > 0 /\ (trap.r2 = SC_Add => trap.nextPC = trap.pc + 4) =>
    regs.pc = trap.nextPC /\ regs.nextPC = trap.nextPC + 4 /\ regs.prevPC = trap.pc

(* There is a zero byte at buf or in the bytes after it that SysWrite's      *)
(* array has room for.                                                       *)
IsString(buf) == \E n \in 1 .. BufferSize : buf + n - 1 \in DOMAIN mem /\ mem[buf + n - 1] = 0

(* Write puts out a string that fits into SysWrite's array up to its zero    *)
(* byte, wherever in the program's memory it ends.                           *)
WriteShowsBuffer ==
  LET buf == trap.r4
      size == trap.r5
  IN  mode = "user" /\ calls > 0 /\ trap.r2 = SC_Write /\ size <= BufferSize /\ IsString(buf) =>
        \A n \in 1 .. size :
          (\A k \in 1 .. n - 1 : mem[buf + k - 1] # 0) => output[n] = mem[buf + n - 1]

(* What the user program finds when a call has returned. *)
CallIsServed == ResumesAfterCall /\ WriteShowsBuffer

(* A program that has joined what each Exec gave it has no child left, still *)
(* running or not waited for, however its children's ends fall between its   *)
(* calls: "Only return once the user program id has finished" (syscall.h).   *)
(* Exec gives no process number, and Join waits all the same, because -1 is  *)
(* any child to waitpid.                                                     *)
JoinAwaitsExec == Cardinality(DOMAIN children) <= owed
=============================================================================
