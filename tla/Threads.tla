------------------------------- MODULE Threads -------------------------------
(***************************************************************************)
(* Kernel threads on the one simulated CPU: threads/thread.cc,             *)
(* threads/scheduler.cc, the interrupt level and the tick of               *)
(* machine/interrupt.cc, time slicing (threads/alarm.cc) and the switch    *)
(* between kernel and user code (machine/machine.cc, machine/mipssim.cc,   *)
(* userprog/addrspace.cc).                                                 *)
(*                                                                         *)
(* The CPU runs one thread, currentThread.  Kernel code gives it up only   *)
(* where the code re-enables interrupts (Interrupt::SetLevel calls         *)
(* OneTick, which runs the due interrupt handlers and may yield) and in    *)
(* Thread::Sleep; user code can be preempted after every instruction.      *)
(* Everything between two such points is one action.  What a thread does   *)
(* is left open: it makes any of the kernel's calls in any order.          *)
(***************************************************************************)
EXTENDS ReadyList

CONSTANTS
  Thread,        \* the Thread objects there is memory for
  Main,          \* the thread that Kernel::Initialize builds for main()
  NULL,          \* the null pointer
  PriorityArgs,  \* values passed as the priority of a new thread
  MaxThreadNum,  \* MAX_THREAD_NUM
  UserThreads    \* the threads whose code may run a user program

(* Values of Interrupt::status. *)
MachineStatus == {"IdleMode", "SystemMode", "UserMode"}

ASSUME ThreadAssumption ==
  /\ Main \in Thread
  /\ NULL \notin Thread \cup MachineStatus
  /\ PriorityArgs \subseteq Int
  /\ MaxThreadNum \in Nat
  /\ UserThreads \subseteq Thread

VARIABLES
  status,         \* Thread::status; "FREE" when the object is not allocated
  priority,       \* Thread::priority
  threadNum,      \* Thread::threadNum
  waiting,        \* the threads on the queue of some semaphore
  readyList,      \* Scheduler::readyList
  currentThread,  \* Kernel::currentThread
  toBeDestroyed,  \* Scheduler::toBeDestroyed
  level,          \* Interrupt::level
  machineStatus,  \* Interrupt::status
  inHandler,      \* Interrupt::inHandler
  yieldOnReturn,  \* Interrupt::yieldOnReturn
  pc,             \* the innermost kernel routine on the thread's stack
  frame,          \* the code that the thread's kernel calls return to
  oldLevel,       \* local variable of Thread::Yield and Semaphore::P
  oldStatus,      \* local variable of the outermost OneTick that yielded
  space,          \* whether Thread::space is set
  regs,           \* whose user registers Machine::registers holds
  pageTable,      \* whose page table Machine::pageTable is
  userRegisters   \* Thread::userRegisters, and AddrSpace::s_reg beside it

threadVars == <<status, priority, threadNum, waiting>>
schedVars  == <<readyList, currentThread, toBeDestroyed>>
intVars    == <<level, machineStatus, inHandler, yieldOnReturn>>
stackVars  == <<pc, frame, oldLevel, oldStatus>>
userVars   == <<space, regs, pageTable, userRegisters>>
vars       == <<threadVars, schedVars, intVars, stackVars, userVars>>

-----------------------------------------------------------------------------
(* pc: "run" executing its own code; "tick" in OneTick, interrupt handlers  *)
(* may run; "fresh" forked, will start in ThreadRoot; "yield" and "sleep"   *)
(* switched out in Thread::Yield or Thread::Sleep; "woken" back from Sleep  *)
(* in the loop of Semaphore::P; "idle" and "finishIdle" in the loop of      *)
(* Thread::Sleep with nothing to run; "finished" after the last switch;     *)
(* "halted" and "aborted" the program has ended in this thread.             *)
PC == {"run", "tick", "fresh", "yield", "sleep", "woken", "idle",
       "finishIdle", "finished", "halted", "aborted"}

(* frame: "kernel" kernel code of a thread; "user" Machine::Run executing   *)
(* user instructions; "fault" the page fault handler of an instruction;     *)
(* "syscall" the handler of a system call; "copy" the handler of Write, in  *)
(* the loop of SysWrite that reads user memory; "copyFault" the page fault  *)
(* handler raised by that loop.                                             *)
Frame == {"kernel", "user", "fault", "syscall", "copy", "copyFault"}

Status == {"FREE", "JUST_CREATED", "RUNNING", "READY", "BLOCKED"}

(* Thread::setPriority *)
ClampPriority(p) == IF p > 7 THEN 7 ELSE IF p < 1 THEN 1 ELSE p

(* The state at the end of Kernel::Initialize. *)
Init ==
  /\ status = [t \in Thread |-> IF t = Main THEN "RUNNING" ELSE "FREE"]
  /\ priority = [t \in Thread |-> ClampPriority(0)]
  /\ threadNum = 0
  /\ waiting = {}
  /\ readyList = <<>>
  /\ currentThread = Main
  /\ toBeDestroyed = NULL
  /\ level = "IntOn"
  /\ machineStatus = "SystemMode"
  /\ inHandler = FALSE
  /\ yieldOnReturn = FALSE
  /\ pc = [t \in Thread |-> IF t = Main THEN "run" ELSE "fresh"]
  /\ frame = [t \in Thread |-> "kernel"]
  /\ oldLevel = [t \in Thread |-> "IntOn"]
  /\ oldStatus = [t \in Thread |-> NULL]
  /\ space = [t \in Thread |-> FALSE]
  /\ regs = NULL
  /\ pageTable = NULL
  /\ userRegisters = [t \in Thread |-> NULL]

-----------------------------------------------------------------------------
(* Parts of the handlers.                                                   *)

(* t executes code, of the given kinds. *)
Runs(t, kinds) ==
  /\ currentThread = t
  /\ pc[t] = "run"
  /\ frame[t] \in kinds

(* Code that may use semaphores: kernel code, and the page fault handler,   *)
(* which reads the program's file (through SynchDisk, when the file system  *)
(* is on the simulated disk).                                               *)
InKernel(t) == Runs(t, {"kernel", "fault", "copyFault"})

(* Both constructors of Thread; the object gets its stack in Fork. *)
Construct(u, p) ==
  /\ status[u] = "FREE"
  /\ status' = [status EXCEPT ![u] = "JUST_CREATED"]
  /\ priority' = [priority EXCEPT ![u] = ClampPriority(p)]
  /\ space' = [space EXCEPT ![u] = FALSE]
  /\ UNCHANGED <<waiting, schedVars, intVars, stackVars, regs, pageTable, userRegisters>>

(* Interrupt::SetLevel(old), called with interrupts off.  If it enables      *)
(* interrupts, OneTick begins, and its first act is to turn them off again. *)
RestoreLevel(t, old) ==
  /\ level' = "IntOff"
  /\ pc' = [pc EXCEPT ![t] = IF old = "IntOn" THEN "tick" ELSE "run"]

(* Mutant: the registers of a user program are not saved. *)
RunUnsaved(t, st, list, finishing) ==
  /\ toBeDestroyed' = IF finishing THEN t ELSE toBeDestroyed
  /\ currentThread' = Head(list)
  /\ status' = [st EXCEPT ![Head(list)] = "RUNNING"]
  /\ readyList' = Tail(list)
  /\ UNCHANGED <<space, regs, pageTable, userRegisters>>

(* FindNextToRun, which found a thread, and Scheduler::Run up to SWITCH: t   *)
(* gives the CPU to the first thread of "list".  "st" is the status of the  *)
(* threads at the call.                                                     *)
Run(t, st, list, finishing) ==
  /\ toBeDestroyed' = IF finishing THEN t ELSE toBeDestroyed
  /\ userRegisters' = IF space[t] THEN [userRegisters EXCEPT ![t] = regs]
                                  ELSE userRegisters
  /\ currentThread' = Head(list)
  /\ status' = [st EXCEPT ![Head(list)] = "RUNNING"]
  /\ readyList' = Tail(list)
  /\ UNCHANGED <<space, regs, pageTable>>

(* Scheduler::CheckToBeDestroyed *)
CheckToBeDestroyed ==
  /\ status' = IF toBeDestroyed = NULL THEN status
               ELSE [status EXCEPT ![toBeDestroyed] = "FREE"]
  /\ toBeDestroyed' = NULL

(* The end of Scheduler::Run, after SWITCH has returned in t. *)
RestoreUserState(t) ==
  /\ regs' = IF space[t] THEN userRegisters[t] ELSE regs
  /\ pageTable' = IF space[t] THEN t ELSE pageTable
  /\ UNCHANGED <<space, userRegisters>>

(* Thread::Sleep, with the thread's saved interrupt level.  When no thread is *)
(* ready the CPU idles in t's Sleep (Interrupt::Idle).                        *)
Sleep(t, finishing, old) ==
  LET st == [status EXCEPT ![t] = "BLOCKED"]
  IN  /\ level' = "IntOff"
      /\ oldLevel' = [oldLevel EXCEPT ![t] = old]
      /\ \/ /\ readyList # <<>>
            /\ Run(t, st, readyList, finishing)
            /\ pc' = [pc EXCEPT ![t] = IF finishing THEN "finished" ELSE "sleep"]
            /\ UNCHANGED machineStatus
         \/ /\ readyList = <<>>
            /\ status' = st
            /\ pc' = [pc EXCEPT ![t] = IF finishing THEN "finishIdle" ELSE "idle"]
            /\ machineStatus' = "IdleMode"
            /\ UNCHANGED <<schedVars, userVars>>
      /\ UNCHANGED <<priority, threadNum, inHandler, yieldOnReturn, frame, oldStatus>>

-----------------------------------------------------------------------------
(* What a running thread does.                                              *)

(* new Thread(name, p), which counts the threads it builds. *)
New(t, u, p) ==
  /\ Runs(t, {"kernel"})
  /\ threadNum < MaxThreadNum
  /\ threadNum' = threadNum + 1
  /\ Construct(u, p)

(* new Thread(name, p) when the count exceeds MAX_THREAD_NUM: ASSERT aborts. *)
NewAborts(t) ==
  /\ Runs(t, {"kernel"})
  /\ threadNum >= MaxThreadNum
  /\ threadNum' = threadNum + 1
  /\ pc' = [pc EXCEPT ![t] = "aborted"]
  /\ UNCHANGED <<status, priority, waiting, schedVars, intVars,
                 frame, oldLevel, oldStatus, userVars>>

(* new Thread(name), which is not counted. *)
NewDefault(t, u) ==
  /\ Runs(t, {"kernel"})
  /\ Construct(u, 0)
  /\ UNCHANGED threadNum

(* Thread::Fork of a thread that was built and not yet forked. *)
Fork(t, u) ==
  /\ Runs(t, {"kernel"})
  /\ status[u] = "JUST_CREATED"
  /\ status' = [status EXCEPT ![u] = "READY"]
  /\ readyList' = Insert(priority, readyList, u)
  /\ level' = "IntOff"
  /\ pc' = [pc EXCEPT ![u] = "fresh",
                      ![t] = IF level = "IntOn" THEN "tick" ELSE "run"]
  /\ frame' = [frame EXCEPT ![u] = "kernel"]
  /\ oldStatus' = [oldStatus EXCEPT ![u] = NULL]
  /\ UNCHANGED <<priority, threadNum, waiting, currentThread, toBeDestroyed,
                 machineStatus, inHandler, yieldOnReturn, oldLevel, userVars>>

(* Thread::Yield, up to the switch. *)
Yield(t) ==
  /\ Runs(t, {"kernel"})
  /\ Run(t, [status EXCEPT ![t] = "READY"], Insert(priority, readyList, t), FALSE)
  /\ pc' = [pc EXCEPT ![t] = "yield"]
  /\ oldLevel' = [oldLevel EXCEPT ![t] = level]
  /\ level' = "IntOff"
  /\ UNCHANGED <<priority, threadNum, waiting, machineStatus, inHandler,
                 yieldOnReturn, frame, oldStatus>>

(* A kernel call that turns interrupts off and on again and neither blocks *)
(* nor wakes a thread: Semaphore::P with a positive value, Semaphore::V    *)
(* with an empty queue.                                                    *)
Call(t) ==
  /\ InKernel(t)
  /\ RestoreLevel(t, level)
  /\ UNCHANGED <<threadVars, schedVars, machineStatus, inHandler, yieldOnReturn,
                 frame, oldLevel, oldStatus, userVars>>

(* Semaphore::P with value zero: the thread queues itself and sleeps. *)
Block(t) ==
  /\ InKernel(t)
  /\ waiting' = waiting \cup {t}
  /\ Sleep(t, FALSE, level)

(* Mutant: V looks at the first thread of the queue but leaves it there. *)
WakeKeepsQueued(t, u) ==
  /\ InKernel(t)
  /\ u \in waiting
  /\ status' = [status EXCEPT ![u] = "READY"]
  /\ readyList' = Insert(priority, readyList, u)
  /\ RestoreLevel(t, level)
  /\ UNCHANGED <<priority, threadNum, waiting, currentThread, toBeDestroyed,
                 machineStatus, inHandler, yieldOnReturn,
                 frame, oldLevel, oldStatus, userVars>>

(* Semaphore::V with a waiting thread u. *)
Wake(t, u) ==
  /\ InKernel(t)
  /\ u \in waiting
  /\ waiting' = waiting \ {u}
  /\ status' = [status EXCEPT ![u] = "READY"]
  /\ readyList' = Insert(priority, readyList, u)
  /\ RestoreLevel(t, level)
  /\ UNCHANGED <<priority, threadNum, currentThread, toBeDestroyed,
                 machineStatus, inHandler, yieldOnReturn,
                 frame, oldLevel, oldStatus, userVars>>

(* Thread::Finish, called by ThreadRoot when a forked procedure returns. *)
Finish(t) ==
  /\ Runs(t, {"kernel"})
  /\ t # Main
  /\ Sleep(t, TRUE, oldLevel[t])
  /\ UNCHANGED waiting

(* Interrupt::Halt: the end of main(), or the system call Halt. *)
Halt(t) ==
  /\ Runs(t, {"syscall"}) \/ (t = Main /\ Runs(t, {"kernel"}))
  /\ pc' = [pc EXCEPT ![t] = "halted"]
  /\ UNCHANGED <<threadVars, schedVars, intVars, frame, oldLevel, oldStatus, userVars>>

-----------------------------------------------------------------------------
(* Back from the switch.                                                    *)

(* Mutant: a new thread does not delete the thread that ran before it. *)
BeginKeepsFinished(t) ==
  /\ currentThread = t
  /\ pc[t] = "fresh"
  /\ RestoreLevel(t, "IntOn")
  /\ UNCHANGED <<threadVars, schedVars, machineStatus, inHandler, yieldOnReturn,
                 frame, oldLevel, oldStatus, userVars>>

(* Thread::Begin, the first code of a forked thread. *)
Begin(t) ==
  /\ currentThread = t
  /\ pc[t] = "fresh"
  /\ CheckToBeDestroyed
  /\ RestoreLevel(t, "IntOn")
  /\ UNCHANGED <<priority, threadNum, waiting, readyList, currentThread,
                 machineStatus, inHandler, yieldOnReturn,
                 frame, oldLevel, oldStatus, userVars>>

(* The end of Scheduler::Run and of Thread::Yield. *)
YieldReturns(t) ==
  /\ currentThread = t
  /\ pc[t] = "yield"
  /\ CheckToBeDestroyed
  /\ RestoreUserState(t)
  /\ RestoreLevel(t, oldLevel[t])
  /\ UNCHANGED <<priority, threadNum, waiting, readyList, currentThread,
                 machineStatus, inHandler, yieldOnReturn,
                 frame, oldLevel, oldStatus>>

(* The end of Scheduler::Run and of Thread::Sleep: back in Semaphore::P. *)
SleepReturns(t) ==
  /\ currentThread = t
  /\ pc[t] = "sleep"
  /\ CheckToBeDestroyed
  /\ RestoreUserState(t)
  /\ pc' = [pc EXCEPT ![t] = "woken"]
  /\ UNCHANGED <<priority, threadNum, waiting, readyList, currentThread, intVars,
                 frame, oldLevel, oldStatus>>

(* The loop of Semaphore::P finds the value zero again. *)
BlockAgain(t) ==
  /\ currentThread = t
  /\ pc[t] = "woken"
  /\ waiting' = waiting \cup {t}
  /\ Sleep(t, FALSE, oldLevel[t])

(* The loop of Semaphore::P ends, and P returns. *)
PReturns(t) ==
  /\ currentThread = t
  /\ pc[t] = "woken"
  /\ RestoreLevel(t, oldLevel[t])
  /\ UNCHANGED <<threadVars, schedVars, machineStatus, inHandler, yieldOnReturn,
                 frame, oldLevel, oldStatus, userVars>>

-----------------------------------------------------------------------------
(* Interrupt handlers: Interrupt::CheckIfDue, called from OneTick or Idle.  *)

(* An interrupt may be due: t is in OneTick, or idles in Sleep. *)
MayInterrupt(t) ==
  /\ currentThread = t
  /\ pc[t] \in {"tick", "idle", "finishIdle"}

(* Timer::CallBack and Alarm::CallBack *)
TimerInterrupt(t) ==
  /\ MayInterrupt(t)
  /\ inHandler' = TRUE
  /\ yieldOnReturn' = (yieldOnReturn \/ machineStatus # "IdleMode")
  /\ UNCHANGED <<threadVars, schedVars, level, machineStatus, stackVars, userVars>>

(* A device's handler calls Semaphore::V, and u waits on that semaphore. *)
DeviceInterrupt(t, u) ==
  /\ MayInterrupt(t)
  /\ u \in waiting
  /\ inHandler' = TRUE
  /\ waiting' = waiting \ {u}
  /\ status' = [status EXCEPT ![u] = "READY"]
  /\ readyList' = Insert(priority, readyList, u)
  /\ UNCHANGED <<priority, threadNum, currentThread, toBeDestroyed, level,
                 machineStatus, yieldOnReturn, stackVars, userVars>>

(* A device's handler calls Semaphore::V, and no thread waits. *)
DeviceInterruptNoWaiter(t) ==
  /\ MayInterrupt(t)
  /\ inHandler' = TRUE
  /\ UNCHANGED <<threadVars, schedVars, level, machineStatus, yieldOnReturn,
                 stackVars, userVars>>

(* Mutant: OneTick yields in the machine status it was called in. *)
TickYieldsInOldStatus(t) ==
  /\ currentThread = t
  /\ pc[t] = "tick"
  /\ yieldOnReturn
  /\ inHandler' = FALSE
  /\ yieldOnReturn' = FALSE
  /\ oldStatus' = [oldStatus EXCEPT ![t] = IF @ = NULL THEN machineStatus ELSE @]
  /\ Run(t, [status EXCEPT ![t] = "READY"], Insert(priority, readyList, t), FALSE)
  /\ pc' = [pc EXCEPT ![t] = "yield"]
  /\ oldLevel' = [oldLevel EXCEPT ![t] = "IntOn"]
  /\ UNCHANGED <<priority, threadNum, waiting, level, machineStatus, frame>>

(* OneTick when a handler asked for a yield: Thread::Yield, in SystemMode. *)
(* A OneTick nested in another one's Yield restores its oldStatus first and *)
(* the outermost one last, so only the outermost one's is kept.             *)
TickYields(t) ==
  /\ currentThread = t
  /\ pc[t] = "tick"
  /\ yieldOnReturn
  /\ inHandler' = FALSE
  /\ yieldOnReturn' = FALSE
  /\ oldStatus' = [oldStatus EXCEPT ![t] = IF @ = NULL THEN machineStatus ELSE @]
  /\ machineStatus' = "SystemMode"
  /\ Run(t, [status EXCEPT ![t] = "READY"], Insert(priority, readyList, t), FALSE)
  /\ pc' = [pc EXCEPT ![t] = "yield"]
  /\ oldLevel' = [oldLevel EXCEPT ![t] = "IntOn"]
  /\ UNCHANGED <<priority, threadNum, waiting, level, frame>>

(* OneTick without a yield: it returns, and so do the OneTick's around it. *)
TickReturns(t) ==
  /\ currentThread = t
  /\ pc[t] = "tick"
  /\ ~yieldOnReturn
  /\ inHandler' = FALSE
  /\ level' = "IntOn"
  /\ machineStatus' = IF oldStatus[t] = NULL THEN machineStatus ELSE oldStatus[t]
  /\ oldStatus' = [oldStatus EXCEPT ![t] = NULL]
  /\ pc' = [pc EXCEPT ![t] = "run"]
  /\ UNCHANGED <<threadVars, schedVars, yieldOnReturn, frame, oldLevel, userVars>>

(* Interrupt::Idle returns to Thread::Sleep and there is a thread to run. *)
IdleEnds(t) ==
  /\ currentThread = t
  /\ pc[t] \in {"idle", "finishIdle"}
  /\ inHandler
  /\ readyList # <<>>
  /\ inHandler' = FALSE
  /\ machineStatus' = "SystemMode"
  /\ Run(t, status, readyList, pc[t] = "finishIdle")
  /\ pc' = [pc EXCEPT ![t] = IF @ = "finishIdle" THEN "finished" ELSE "sleep"]
  /\ UNCHANGED <<priority, threadNum, waiting, level, yieldOnReturn,
                 frame, oldLevel, oldStatus>>

(* Interrupt::Idle returns, no thread is ready, and Sleep calls it again. *)
IdleAgain(t) ==
  /\ currentThread = t
  /\ pc[t] \in {"idle", "finishIdle"}
  /\ inHandler
  /\ readyList = <<>>
  /\ inHandler' = FALSE
  /\ UNCHANGED <<threadVars, schedVars, level, machineStatus, yieldOnReturn,
                 stackVars, userVars>>

-----------------------------------------------------------------------------
(* User programs.                                                           *)

(* AddrSpace::Execute and the start of Machine::Run *)
Execute(t) ==
  /\ Runs(t, {"kernel"})
  /\ t \in UserThreads
  /\ space' = [space EXCEPT ![t] = TRUE]
  /\ regs' = t
  /\ pageTable' = t
  /\ machineStatus' = "UserMode"
  /\ frame' = [frame EXCEPT ![t] = "user"]
  /\ UNCHANGED <<threadVars, schedVars, level, inHandler, yieldOnReturn,
                 pc, oldLevel, oldStatus, userRegisters>>

(* Machine::Run: an instruction, or what a page fault left of it, ends and *)
(* OneTick is called.                                                      *)
UserInstruction(t) ==
  /\ Runs(t, {"user"})
  /\ level' = "IntOff"
  /\ pc' = [pc EXCEPT ![t] = "tick"]
  /\ UNCHANGED <<threadVars, schedVars, machineStatus, inHandler, yieldOnReturn,
                 frame, oldLevel, oldStatus, userVars>>

(* Machine::RaiseException from code of one kind to a handler, and back. *)
Enter(t, from, to) ==
  /\ Runs(t, {from})
  /\ machineStatus' = "SystemMode"
  /\ frame' = [frame EXCEPT ![t] = to]
  /\ UNCHANGED <<threadVars, schedVars, level, inHandler, yieldOnReturn,
                 pc, oldLevel, oldStatus, userVars>>

(* A system call, the system call Write, or a page fault of an instruction; *)
(* a page fault of ReadMem in SysWrite, that is, within a handler.          *)
RaiseException(t) ==
  \/ \E handler \in {"syscall", "copy", "fault"} : Enter(t, "user", handler)
  \/ Enter(t, "copy", "copyFault")

(* The page fault handler returns to RaiseException, which sets UserMode, *)
(* and the code that met the fault goes on.                               *)
FaultReturns(t) ==
  /\ Runs(t, {"fault", "copyFault"})
  /\ machineStatus' = "UserMode"
  /\ frame' = [frame EXCEPT ![t] = IF @ = "fault" THEN "user" ELSE "copy"]
  /\ UNCHANGED <<threadVars, schedVars, level, inHandler, yieldOnReturn,
                 pc, oldLevel, oldStatus, userVars>>

(* A system call returns to RaiseException, which sets UserMode; that ends *)
(* the instruction, and Machine::Run calls OneTick.                        *)
SyscallReturns(t) ==
  /\ Runs(t, {"syscall", "copy"})
  /\ machineStatus' = "UserMode"
  /\ frame' = [frame EXCEPT ![t] = "user"]
  /\ level' = "IntOff"
  /\ pc' = [pc EXCEPT ![t] = "tick"]
  /\ UNCHANGED <<threadVars, schedVars, inHandler, yieldOnReturn,
                 oldLevel, oldStatus, userVars>>

(* An exception or a system call that ExceptionHandler does not know. *)
UnexpectedException(t) ==
  /\ Runs(t, {"user", "copy"})
  /\ machineStatus' = "SystemMode"
  /\ pc' = [pc EXCEPT ![t] = "aborted"]
  /\ UNCHANGED <<threadVars, schedVars, level, inHandler, yieldOnReturn,
                 frame, oldLevel, oldStatus, userVars>>

(* The program has ended. *)
Stopped ==
  /\ pc[currentThread] \in {"halted", "aborted"}
  /\ UNCHANGED vars

-----------------------------------------------------------------------------
ThreadStep(t) ==
  \/ \E u \in Thread, p \in PriorityArgs : New(t, u, p)
  \/ NewAborts(t)
  \/ \E u \in Thread : NewDefault(t, u)
  \/ \E u \in Thread : Fork(t, u)
  \/ Yield(t)
  \/ Call(t)
  \/ Block(t)
  \/ \E u \in Thread : Wake(t, u)
  \/ Finish(t)
  \/ Halt(t)

SwitchStep(t) ==
  \/ Begin(t)
  \/ YieldReturns(t)
  \/ SleepReturns(t)
  \/ BlockAgain(t)
  \/ PReturns(t)

InterruptStep(t) ==
  \/ TimerInterrupt(t)
  \/ \E u \in Thread : DeviceInterrupt(t, u)
  \/ DeviceInterruptNoWaiter(t)
  \/ TickYields(t)
  \/ TickReturns(t)
  \/ IdleEnds(t)
  \/ IdleAgain(t)

UserStep(t) ==
  \/ Execute(t)
  \/ UserInstruction(t)
  \/ RaiseException(t)
  \/ FaultReturns(t)
  \/ SyscallReturns(t)
  \/ UnexpectedException(t)

Next ==
  \/ \E t \in Thread : ThreadStep(t) \/ SwitchStep(t) \/ InterruptStep(t) \/ UserStep(t)
  \/ Stopped

Spec == Init /\ [][Next]_vars

(* Every step the CPU can take is taken eventually, and while time passes the *)
(* timer, which re-arms itself whenever it fires, keeps firing.               *)
FairSpec ==
  /\ Spec
  /\ WF_vars(Next)
  /\ SF_vars(\E t \in Thread : TimerInterrupt(t))

-----------------------------------------------------------------------------
(* Properties.                                                              *)

TypeOK ==
  /\ status \in [Thread -> Status]
  /\ priority \in [Thread -> 1 .. 7]
  /\ threadNum \in Nat
  /\ waiting \subseteq Thread
  /\ readyList \in Seq(Thread)
  /\ currentThread \in Thread
  /\ toBeDestroyed \in Thread \cup {NULL}
  /\ level \in {"IntOn", "IntOff"}
  /\ machineStatus \in MachineStatus
  /\ inHandler \in BOOLEAN
  /\ yieldOnReturn \in BOOLEAN
  /\ pc \in [Thread -> PC]
  /\ frame \in [Thread -> Frame]
  /\ oldLevel \in [Thread -> {"IntOn", "IntOff"}]
  /\ oldStatus \in [Thread -> MachineStatus \cup {NULL}]
  /\ space \in [Thread -> BOOLEAN]
  /\ regs \in Thread \cup {NULL}
  /\ pageTable \in Thread \cup {NULL}
  /\ userRegisters \in [Thread -> Thread \cup {NULL}]

(* The ready list holds exactly the READY threads, each once, in the order *)
(* of Scheduler::Compare, whoever made them ready: Fork, Yield, V or an    *)
(* interrupt handler (Scheduler::ReadyToRun, SortedList::SanityCheck).     *)
ReadyListConsistent ==
  /\ \A t \in Thread : status[t] = "READY" <=> t \in ToSet(readyList)
  /\ NoDuplicates(readyList)
  /\ Sorted(priority, readyList)

(* The thread that Scheduler::CheckToBeDestroyed will delete is one nobody *)
(* can switch to or wake, and it is not the one whose stack is in use; it  *)
(* is gone before any thread gets to run its own code, so that the         *)
(* ASSERT(toBeDestroyed == NULL) of Scheduler::Run holds.                  *)
DestroySafe ==
  toBeDestroyed # NULL =>
    /\ toBeDestroyed # currentThread
    /\ toBeDestroyed \notin waiting \cup ToSet(readyList)
    /\ pc[toBeDestroyed] = "finished"
    /\ pc[currentThread] \in {"fresh", "yield", "sleep"}

(* No deleted thread is referred to: what the CPU runs, the ready list and *)
(* the semaphore queues hold live threads, and a waiting thread is BLOCKED. *)
NoDanglingThread ==
  /\ status[currentThread] = "RUNNING"
       \/ pc[currentThread] \in {"idle", "finishIdle"}
  /\ \A t \in waiting : status[t] = "BLOCKED"
  /\ \A t \in Thread : status[t] = "RUNNING" => t = currentThread

(* Thread code runs with interrupts enabled, whatever sequence of switches *)
(* led to it: a thread left with interrupts off could never be preempted   *)
(* (Thread::Begin, and oldLevel in Yield and P).                           *)
InterruptsEnabled ==
  pc[currentThread] = "run" => level = "IntOn" /\ ~inHandler

(* A request to yield never outlives the handlers that made it: it is used *)
(* by the OneTick that ran them (Interrupt::YieldOnReturn), and none is    *)
(* made while the CPU is idle (Alarm::CallBack).                           *)
NoStaleYield == yieldOnReturn => inHandler

(* The machine is in UserMode when it executes user instructions and in    *)
(* SystemMode in kernel code and page fault handlers, across preemption:   *)
(* OneTick restores the mode of the thread it returns to.                  *)
ModeMatches ==
  pc[currentThread] = "run" =>
    /\ frame[currentThread] = "user" => machineStatus = "UserMode"
    /\ frame[currentThread] \in {"kernel", "fault", "copyFault", "syscall"} =>
         machineStatus = "SystemMode"

(* interrupt.h says that kernel code runs in SystemMode; the rest of SysWrite *)
(* after a page fault in its ReadMem is kernel code too.                      *)
KernelInSystemMode ==
  pc[currentThread] = "run" /\ frame[currentThread] # "user" =>
    machineStatus = "SystemMode"

(* A thread executing its user program, or a handler on its behalf, finds  *)
(* its own registers and page table in the machine, however often it was   *)
(* preempted and whatever other programs ran (Scheduler::Run).             *)
UserContext ==
  pc[currentThread] \in {"run", "tick", "woken"} /\ frame[currentThread] # "kernel" =>
    regs = currentThread /\ pageTable = currentThread

(* A thread is refused only when MAX_THREAD_NUM threads exist "at the same *)
(* time", as the message of the constructor says.                          *)
LimitIsOfLiveThreads ==
  threadNum > MaxThreadNum =>
    Cardinality({t \in Thread : status[t] # "FREE"}) >= MaxThreadNum

(* A switch gives the CPU to a thread of the highest priority there is among *)
(* the READY threads (Scheduler::FindNextToRun).                             *)
PriorityRespected ==
  [][currentThread' # currentThread =>
       \A t \in Thread : status'[t] = "READY" => priority'[t] <= priority'[currentThread']]_vars

(* A thread that becomes READY goes behind every READY thread of the same  *)
(* or a higher priority: Thread::Yield cannot let it overtake them.        *)
NoOvertaking ==
  [][\A i, j \in 1 .. Len(readyList') :
       /\ readyList'[i] \notin ToSet(readyList)
       /\ readyList'[j] \in ToSet(readyList)
       /\ priority[readyList'[i]] <= priority[readyList'[j]]
       => j < i]_vars

Ended == pc[currentThread] \in {"halted", "aborted"}

(* The comment of Thread::Yield: the thread is put on the ready list "so   *)
(* that it will eventually be re-scheduled".                               *)
YieldReschedules ==
  \A t \in Thread : pc[t] = "yield" ~> (pc[t] # "yield" \/ Ended)

(* A thread that is ready runs eventually, whoever made it so: Fork, Yield, V *)
(* or an interrupt handler.                                                   *)
ReadyRuns ==
  \A t \in Thread : status[t] = "READY" ~> (status[t] # "READY" \/ Ended)
=============================================================================
