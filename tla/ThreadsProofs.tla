--------------------------- MODULE ThreadsProofs ----------------------------
(***************************************************************************)
(* The theorems about Threads, for every set of threads, of priorities and *)
(* of user programs.  IInv, the inductive invariant, is in                 *)
(* SchedulerProofs, with the proof that a step keeps its scheduler part;   *)
(* here are the parts about the interrupt level, the machine status and    *)
(* the user context.                                                       *)
(***************************************************************************)
EXTENDS SchedulerProofs

-----------------------------------------------------------------------------
(* Interrupt level, machine status and user context.                        *)

(* Every step keeps IntInv. *)
LEMMA IntStep ==
  ASSUME TypeOK, TypeOK', SchedInv, IntInv, ModeInv, [Next]_vars
  PROVE  IntInv'
<1>a. /\ pc \in [Thread -> PC] /\ oldLevel \in [Thread -> {"IntOn", "IntOff"}]
      /\ currentThread \in Thread /\ currentThread' \in Thread
  BY Zenon DEF TypeOK
<1>b. \A x \in Thread \ {currentThread} : pc[x] \in {"fresh", "yield", "sleep", "finished"}
  BY DEF SchedInv, PlaceInv
<1>c. pc[currentThread] \in {"idle", "finishIdle"} => machineStatus = "IdleMode"
  BY DEF ModeInv, CurrentMode
<1>1. ASSUME NEW t \in Thread, NEW u \in Thread, NEW p \in PriorityArgs, New(t, u, p) PROVE IntInv'
  BY <1>1, <1>a, <1>b, <1>c, Zenon DEF New, Runs, Construct, schedVars, intVars,
     stackVars, IntInv
<1>2. ASSUME NEW t \in Thread, NewAborts(t) PROVE IntInv'
  BY <1>2, <1>a, <1>b, <1>c, Zenon DEF NewAborts, Runs, schedVars, intVars,
     stackVars, IntInv
<1>3. ASSUME NEW t \in Thread, NEW u \in Thread, NewDefault(t, u) PROVE IntInv'
  BY <1>3, <1>a, <1>b, <1>c, Zenon DEF NewDefault, Runs, Construct, schedVars,
     intVars, stackVars, IntInv
<1>4. ASSUME NEW t \in Thread, NEW u \in Thread, Fork(t, u) PROVE IntInv'
  BY <1>4, <1>a, <1>b, <1>c, Zenon DEF Fork, Runs, schedVars, intVars, stackVars,
     IntInv
<1>5. ASSUME NEW t \in Thread, Yield(t) PROVE IntInv'
  BY <1>5, <1>a, <1>b, <1>c, Zenon DEF Yield, Runs, Run, schedVars, intVars,
     stackVars, IntInv
<1>6. ASSUME NEW t \in Thread, Call(t) PROVE IntInv'
  BY <1>6, <1>a, <1>b, <1>c, Zenon DEF Call, InKernel, Runs, RestoreLevel,
     schedVars, intVars, stackVars, IntInv
<1>7. ASSUME NEW t \in Thread, Block(t) PROVE IntInv'
  BY <1>7, <1>a, <1>b, <1>c, Zenon DEF Block, InKernel, Runs, Sleep, Run,
     schedVars, intVars, stackVars, IntInv
<1>8. ASSUME NEW t \in Thread, NEW u \in Thread, Wake(t, u) PROVE IntInv'
  BY <1>8, <1>a, <1>b, <1>c, Zenon DEF Wake, InKernel, Runs, RestoreLevel,
     schedVars, intVars, stackVars, IntInv
<1>9. ASSUME NEW t \in Thread, Finish(t) PROVE IntInv'
  BY <1>9, <1>a, <1>b, <1>c, Zenon DEF Finish, Runs, Sleep, Run, schedVars,
     intVars, stackVars, IntInv
<1>10. ASSUME NEW t \in Thread, Halt(t) PROVE IntInv'
  BY <1>10, <1>a, <1>b, <1>c, Zenon DEF Halt, Runs, schedVars, intVars, stackVars,
     IntInv
<1>11. ASSUME NEW t \in Thread, Begin(t) PROVE IntInv'
  BY <1>11, <1>a, <1>b, <1>c, Zenon DEF Begin, CheckToBeDestroyed, RestoreLevel,
     schedVars, intVars, stackVars, IntInv
<1>12. ASSUME NEW t \in Thread, YieldReturns(t) PROVE IntInv'
  BY <1>12, <1>a, <1>b, <1>c, Zenon DEF YieldReturns, CheckToBeDestroyed,
     RestoreUserState, RestoreLevel, schedVars, intVars, stackVars, IntInv
<1>13. ASSUME NEW t \in Thread, SleepReturns(t) PROVE IntInv'
  BY <1>13, <1>a, <1>b, <1>c, Zenon DEF SleepReturns, CheckToBeDestroyed,
     RestoreUserState, schedVars, intVars, stackVars, IntInv
<1>14. ASSUME NEW t \in Thread, BlockAgain(t) PROVE IntInv'
  BY <1>14, <1>a, <1>b, <1>c, Zenon DEF BlockAgain, Sleep, Run, schedVars, intVars,
     stackVars, IntInv
<1>15. ASSUME NEW t \in Thread, PReturns(t) PROVE IntInv'
  BY <1>15, <1>a, <1>b, <1>c, Zenon DEF PReturns, RestoreLevel, schedVars, intVars,
     stackVars, IntInv
<1>16. ASSUME NEW t \in Thread, TimerInterrupt(t) PROVE IntInv'
  BY <1>16, <1>a, <1>b, <1>c, Zenon DEF TimerInterrupt, MayInterrupt, schedVars,
     intVars, stackVars, IntInv
<1>17. ASSUME NEW t \in Thread, NEW u \in Thread, DeviceInterrupt(t, u) PROVE IntInv'
  BY <1>17, <1>a, <1>b, <1>c, Zenon DEF DeviceInterrupt, MayInterrupt, schedVars,
     intVars, stackVars, IntInv
<1>18. ASSUME NEW t \in Thread, DeviceInterruptNoWaiter(t) PROVE IntInv'
  BY <1>18, <1>a, <1>b, <1>c, Zenon DEF DeviceInterruptNoWaiter, MayInterrupt,
     schedVars, intVars, stackVars, IntInv
<1>19. ASSUME NEW t \in Thread, TickYields(t) PROVE IntInv'
  BY <1>19, <1>a, <1>b, <1>c, Zenon DEF TickYields, Run, schedVars, intVars,
     stackVars, IntInv
<1>20. ASSUME NEW t \in Thread, TickReturns(t) PROVE IntInv'
  BY <1>20, <1>a, <1>b, <1>c, Zenon DEF TickReturns, schedVars, intVars, stackVars,
     IntInv
<1>21. ASSUME NEW t \in Thread, IdleEnds(t) PROVE IntInv'
  BY <1>21, <1>a, <1>b, <1>c, Zenon DEF IdleEnds, Run, schedVars, intVars,
     stackVars, IntInv
<1>22. ASSUME NEW t \in Thread, IdleAgain(t) PROVE IntInv'
  BY <1>22, <1>a, <1>b, <1>c, Zenon DEF IdleAgain, schedVars, intVars, stackVars,
     IntInv
<1>23. ASSUME NEW t \in Thread, Execute(t) PROVE IntInv'
  BY <1>23, <1>a, <1>b, <1>c, Zenon DEF Execute, Runs, schedVars, intVars,
     stackVars, IntInv
<1>24. ASSUME NEW t \in Thread, UserInstruction(t) PROVE IntInv'
  BY <1>24, <1>a, <1>b, <1>c, Zenon DEF UserInstruction, Runs, schedVars, intVars,
     stackVars, IntInv
<1>25. ASSUME NEW t \in Thread, RaiseException(t) PROVE IntInv'
  BY <1>25, <1>a, <1>b, <1>c DEF RaiseException, Enter, Runs, schedVars,
     intVars, stackVars, IntInv
<1>26. ASSUME NEW t \in Thread, FaultReturns(t) PROVE IntInv'
  BY <1>26, <1>a, <1>b, <1>c, Zenon DEF FaultReturns, Runs, schedVars, intVars,
     stackVars, IntInv
<1>27. ASSUME NEW t \in Thread, SyscallReturns(t) PROVE IntInv'
  BY <1>27, <1>a, <1>b, <1>c, Zenon DEF SyscallReturns, Runs, schedVars, intVars,
     stackVars, IntInv
<1>28. ASSUME NEW t \in Thread, UnexpectedException(t) PROVE IntInv'
  BY <1>28, <1>a, <1>b, <1>c, Zenon DEF UnexpectedException, Runs, schedVars,
     intVars, stackVars, IntInv
<1>29. CASE UNCHANGED vars
  BY <1>29, <1>a, <1>b, <1>c, Zenon DEF vars, schedVars, intVars, stackVars, IntInv
<1> QED
  BY <1>1, <1>2, <1>3, <1>4, <1>5, <1>6, <1>7, <1>8, <1>9, <1>10, <1>11,
     <1>12, <1>13, <1>14, <1>15, <1>16, <1>17, <1>18, <1>19, <1>20, <1>21,
     <1>22, <1>23, <1>24, <1>25, <1>26, <1>27, <1>28, <1>29 DEF Next,
     ThreadStep, SwitchStep, InterruptStep, UserStep, Stopped

(* Every step keeps ModeInv. *)
LEMMA ModeStep ==
  ASSUME TypeOK, TypeOK', SchedInv, IntInv, ModeInv, [Next]_vars
  PROVE  ModeInv'
<1>a. /\ pc \in [Thread -> PC] /\ frame \in [Thread -> Frame]
      /\ oldStatus \in [Thread -> MachineStatus \cup {NULL}]
      /\ currentThread \in Thread /\ currentThread' \in Thread
  BY Zenon DEF TypeOK
<1>b. \A x \in Thread \ {currentThread} : pc[x] \in {"fresh", "yield", "sleep", "finished"}
  BY DEF SchedInv, PlaceInv
<1>c. CurrentMode /\ \A x \in Thread : StackMode(x)
  BY DEF ModeInv
<1>d. NULL \notin {"IdleMode", "SystemMode", "UserMode"}
  BY ThreadAssumption DEF ThreadAssumption, MachineStatus
<1>e. \A x \in Thread : oldLevel[x] = "IntOn"
  BY DEF IntInv
<1>1. ASSUME NEW t \in Thread, NEW u \in Thread, NEW p \in PriorityArgs, New(t, u, p) PROVE ModeInv'
  <2>1. CurrentMode'
    BY <1>1, <1>a, <1>b, <1>c, Zenon DEF New, Runs, Construct, schedVars, intVars,
       stackVars, CurrentMode, StackMode, ModeOf
  <2>2. ASSUME NEW x \in Thread PROVE StackMode(x)'
    BY <1>1, <1>a, <1>b, <1>c, Zenon DEF New, Runs, Construct, schedVars, intVars,
       stackVars, CurrentMode, StackMode, ModeOf
  <2> QED BY <2>1, <2>2 DEF ModeInv
<1>2. ASSUME NEW t \in Thread, NewAborts(t) PROVE ModeInv'
  <2>1. CurrentMode'
    BY <1>2, <1>a, <1>b, <1>c, Zenon DEF NewAborts, Runs, schedVars, intVars,
       stackVars, CurrentMode, StackMode, ModeOf
  <2>2. ASSUME NEW x \in Thread PROVE StackMode(x)'
    BY <1>2, <1>a, <1>b, <1>c, Zenon DEF NewAborts, Runs, schedVars, intVars,
       stackVars, CurrentMode, StackMode, ModeOf
  <2> QED BY <2>1, <2>2 DEF ModeInv
<1>3. ASSUME NEW t \in Thread, NEW u \in Thread, NewDefault(t, u) PROVE ModeInv'
  <2>1. CurrentMode'
    BY <1>3, <1>a, <1>b, <1>c, Zenon DEF NewDefault, Runs, Construct, schedVars,
       intVars, stackVars, CurrentMode, StackMode, ModeOf
  <2>2. ASSUME NEW x \in Thread PROVE StackMode(x)'
    BY <1>3, <1>a, <1>b, <1>c, Zenon DEF NewDefault, Runs, Construct, schedVars,
       intVars, stackVars, CurrentMode, StackMode, ModeOf
  <2> QED BY <2>1, <2>2 DEF ModeInv
<1>4. ASSUME NEW t \in Thread, NEW u \in Thread, Fork(t, u) PROVE ModeInv'
  <2>1. CurrentMode'
    BY <1>4, <1>a, <1>b, <1>c, Zenon DEF Fork, Runs, schedVars, intVars, stackVars,
       CurrentMode, StackMode, ModeOf
  <2>2. ASSUME NEW x \in Thread PROVE StackMode(x)'
    BY <1>4, <1>a, <1>b, <1>c DEF Fork, Runs, schedVars, intVars, stackVars,
       CurrentMode, StackMode, ModeOf
  <2> QED BY <2>1, <2>2 DEF ModeInv
<1>5. ASSUME NEW t \in Thread, Yield(t) PROVE ModeInv'
  <2>1. CurrentMode'
    BY <1>5, <1>a, <1>b, <1>c, Zenon DEF Yield, Runs, Run, schedVars, intVars,
       stackVars, CurrentMode, StackMode, ModeOf
  <2>2. ASSUME NEW x \in Thread PROVE StackMode(x)'
    BY <1>5, <1>a, <1>b, <1>c, Zenon DEF Yield, Runs, Run, schedVars, intVars,
       stackVars, CurrentMode, StackMode, ModeOf
  <2> QED BY <2>1, <2>2 DEF ModeInv
<1>6. ASSUME NEW t \in Thread, Call(t) PROVE ModeInv'
  <2>1. CurrentMode'
    BY <1>6, <1>a, <1>b, <1>c, Zenon DEF Call, InKernel, Runs, RestoreLevel,
       schedVars, intVars, stackVars, CurrentMode, StackMode, ModeOf
  <2>2. ASSUME NEW x \in Thread PROVE StackMode(x)'
    BY <1>6, <1>a, <1>b, <1>c, Zenon DEF Call, InKernel, Runs, RestoreLevel,
       schedVars, intVars, stackVars, CurrentMode, StackMode, ModeOf
  <2> QED BY <2>1, <2>2 DEF ModeInv
<1>7. ASSUME NEW t \in Thread, Block(t) PROVE ModeInv'
  <2>1. CurrentMode'
    BY <1>7, <1>a, <1>b, <1>c, Zenon DEF Block, InKernel, Runs, Sleep, Run,
       schedVars, intVars, stackVars, CurrentMode, StackMode, ModeOf
  <2>2. ASSUME NEW x \in Thread PROVE StackMode(x)'
    BY <1>7, <1>a, <1>b, <1>c DEF Block, InKernel, Runs, Sleep, Run,
       schedVars, intVars, stackVars, CurrentMode, StackMode, ModeOf
  <2> QED BY <2>1, <2>2 DEF ModeInv
<1>8. ASSUME NEW t \in Thread, NEW u \in Thread, Wake(t, u) PROVE ModeInv'
  <2>1. CurrentMode'
    BY <1>8, <1>a, <1>b, <1>c, Zenon DEF Wake, InKernel, Runs, RestoreLevel,
       schedVars, intVars, stackVars, CurrentMode, StackMode, ModeOf
  <2>2. ASSUME NEW x \in Thread PROVE StackMode(x)'
    BY <1>8, <1>a, <1>b, <1>c, Zenon DEF Wake, InKernel, Runs, RestoreLevel,
       schedVars, intVars, stackVars, CurrentMode, StackMode, ModeOf
  <2> QED BY <2>1, <2>2 DEF ModeInv
<1>9. ASSUME NEW t \in Thread, Finish(t) PROVE ModeInv'
  <2>1. CurrentMode'
    BY <1>9, <1>a, <1>b, <1>c DEF Finish, Runs, Sleep, Run, schedVars,
       intVars, stackVars, CurrentMode, StackMode, ModeOf
  <2>2. ASSUME NEW x \in Thread PROVE StackMode(x)'
    BY <1>9, <1>a, <1>b, <1>c, Zenon DEF Finish, Runs, Sleep, Run, schedVars,
       intVars, stackVars, CurrentMode, StackMode, ModeOf
  <2> QED BY <2>1, <2>2 DEF ModeInv
<1>10. ASSUME NEW t \in Thread, Halt(t) PROVE ModeInv'
  <2>1. CurrentMode'
    BY <1>10, <1>a, <1>b, <1>c, Zenon DEF Halt, Runs, schedVars, intVars,
       stackVars, CurrentMode, StackMode, ModeOf
  <2>2. ASSUME NEW x \in Thread PROVE StackMode(x)'
    BY <1>10, <1>a, <1>b, <1>c, Zenon DEF Halt, Runs, schedVars, intVars,
       stackVars, CurrentMode, StackMode, ModeOf
  <2> QED BY <2>1, <2>2 DEF ModeInv
<1>11. ASSUME NEW t \in Thread, Begin(t) PROVE ModeInv'
  <2>1. CurrentMode'
    BY <1>11, <1>a, <1>b, <1>c, Zenon DEF Begin, CheckToBeDestroyed, RestoreLevel,
       schedVars, intVars, stackVars, CurrentMode, StackMode, ModeOf
  <2>2. ASSUME NEW x \in Thread PROVE StackMode(x)'
    BY <1>11, <1>a, <1>b, <1>c, Zenon DEF Begin, CheckToBeDestroyed, RestoreLevel,
       schedVars, intVars, stackVars, CurrentMode, StackMode, ModeOf
  <2> QED BY <2>1, <2>2 DEF ModeInv
<1>12. ASSUME NEW t \in Thread, YieldReturns(t) PROVE ModeInv'
  <2>1. CurrentMode'
    BY <1>12, <1>a, <1>b, <1>c, <1>e, Zenon DEF YieldReturns, CheckToBeDestroyed,
       RestoreUserState, RestoreLevel, schedVars, intVars, stackVars,
       CurrentMode, StackMode, ModeOf
  <2>2. ASSUME NEW x \in Thread PROVE StackMode(x)'
    BY <1>12, <1>a, <1>b, <1>c, <1>e, Zenon DEF YieldReturns, CheckToBeDestroyed,
       RestoreUserState, RestoreLevel, schedVars, intVars, stackVars,
       CurrentMode, StackMode, ModeOf
  <2> QED BY <2>1, <2>2 DEF ModeInv
<1>13. ASSUME NEW t \in Thread, SleepReturns(t) PROVE ModeInv'
  <2>1. CurrentMode'
    BY <1>13, <1>a, <1>b, <1>c, Zenon DEF SleepReturns, CheckToBeDestroyed,
       RestoreUserState, schedVars, intVars, stackVars, CurrentMode,
       StackMode, ModeOf
  <2>2. ASSUME NEW x \in Thread PROVE StackMode(x)'
    BY <1>13, <1>a, <1>b, <1>c, Zenon DEF SleepReturns, CheckToBeDestroyed,
       RestoreUserState, schedVars, intVars, stackVars, CurrentMode,
       StackMode, ModeOf
  <2> QED BY <2>1, <2>2 DEF ModeInv
<1>14. ASSUME NEW t \in Thread, BlockAgain(t) PROVE ModeInv'
  <2>1. CurrentMode'
    BY <1>14, <1>a, <1>b, <1>c, Zenon DEF BlockAgain, Sleep, Run, schedVars,
       intVars, stackVars, CurrentMode, StackMode, ModeOf
  <2>2. ASSUME NEW x \in Thread PROVE StackMode(x)'
    BY <1>14, <1>a, <1>b, <1>c DEF BlockAgain, Sleep, Run, schedVars,
       intVars, stackVars, CurrentMode, StackMode, ModeOf
  <2> QED BY <2>1, <2>2 DEF ModeInv
<1>15. ASSUME NEW t \in Thread, PReturns(t) PROVE ModeInv'
  <2>1. CurrentMode'
    BY <1>15, <1>a, <1>b, <1>c, Zenon DEF PReturns, RestoreLevel, schedVars,
       intVars, stackVars, CurrentMode, StackMode, ModeOf
  <2>2. ASSUME NEW x \in Thread PROVE StackMode(x)'
    BY <1>15, <1>a, <1>b, <1>c, Zenon DEF PReturns, RestoreLevel, schedVars,
       intVars, stackVars, CurrentMode, StackMode, ModeOf
  <2> QED BY <2>1, <2>2 DEF ModeInv
<1>16. ASSUME NEW t \in Thread, TimerInterrupt(t) PROVE ModeInv'
  <2>1. CurrentMode'
    BY <1>16, <1>a, <1>b, <1>c, Zenon DEF TimerInterrupt, MayInterrupt, schedVars,
       intVars, stackVars, CurrentMode, StackMode, ModeOf
  <2>2. ASSUME NEW x \in Thread PROVE StackMode(x)'
    BY <1>16, <1>a, <1>b, <1>c, Zenon DEF TimerInterrupt, MayInterrupt, schedVars,
       intVars, stackVars, CurrentMode, StackMode, ModeOf
  <2> QED BY <2>1, <2>2 DEF ModeInv
<1>17. ASSUME NEW t \in Thread, NEW u \in Thread, DeviceInterrupt(t, u) PROVE ModeInv'
  <2>1. CurrentMode'
    BY <1>17, <1>a, <1>b, <1>c, Zenon DEF DeviceInterrupt, MayInterrupt, schedVars,
       intVars, stackVars, CurrentMode, StackMode, ModeOf
  <2>2. ASSUME NEW x \in Thread PROVE StackMode(x)'
    BY <1>17, <1>a, <1>b, <1>c, Zenon DEF DeviceInterrupt, MayInterrupt, schedVars,
       intVars, stackVars, CurrentMode, StackMode, ModeOf
  <2> QED BY <2>1, <2>2 DEF ModeInv
<1>18. ASSUME NEW t \in Thread, DeviceInterruptNoWaiter(t) PROVE ModeInv'
  <2>1. CurrentMode'
    BY <1>18, <1>a, <1>b, <1>c, Zenon DEF DeviceInterruptNoWaiter, MayInterrupt,
       schedVars, intVars, stackVars, CurrentMode, StackMode, ModeOf
  <2>2. ASSUME NEW x \in Thread PROVE StackMode(x)'
    BY <1>18, <1>a, <1>b, <1>c, Zenon DEF DeviceInterruptNoWaiter, MayInterrupt,
       schedVars, intVars, stackVars, CurrentMode, StackMode, ModeOf
  <2> QED BY <2>1, <2>2 DEF ModeInv
<1>19. ASSUME NEW t \in Thread, TickYields(t) PROVE ModeInv'
  <2>1. CurrentMode'
    BY <1>19, <1>a, <1>b, <1>c, <1>d, Zenon DEF TickYields, Run, schedVars,
       intVars, stackVars, CurrentMode, StackMode, ModeOf
  <2>2. ASSUME NEW x \in Thread PROVE StackMode(x)'
    BY <1>19, <1>a, <1>b, <1>c, <1>d DEF TickYields, Run, schedVars,
       intVars, stackVars, CurrentMode, StackMode, ModeOf
  <2> QED BY <2>1, <2>2 DEF ModeInv
<1>20. ASSUME NEW t \in Thread, TickReturns(t) PROVE ModeInv'
  <2>1. CurrentMode'
    BY <1>20, <1>a, <1>b, <1>c, <1>d, Zenon DEF TickReturns, schedVars, intVars,
       stackVars, CurrentMode, StackMode, ModeOf
  <2>2. ASSUME NEW x \in Thread PROVE StackMode(x)'
    BY <1>20, <1>a, <1>b, <1>c, <1>d, Zenon DEF TickReturns, schedVars, intVars,
       stackVars, CurrentMode, StackMode, ModeOf
  <2> QED BY <2>1, <2>2 DEF ModeInv
<1>21. ASSUME NEW t \in Thread, IdleEnds(t) PROVE ModeInv'
  <2>1. CurrentMode'
    BY <1>21, <1>a, <1>b, <1>c, Zenon DEF IdleEnds, Run, schedVars, intVars,
       stackVars, CurrentMode, StackMode, ModeOf
  <2>2. ASSUME NEW x \in Thread PROVE StackMode(x)'
    BY <1>21, <1>a, <1>b, <1>c DEF IdleEnds, Run, schedVars, intVars,
       stackVars, CurrentMode, StackMode, ModeOf
  <2> QED BY <2>1, <2>2 DEF ModeInv
<1>22. ASSUME NEW t \in Thread, IdleAgain(t) PROVE ModeInv'
  <2>1. CurrentMode'
    BY <1>22, <1>a, <1>b, <1>c, Zenon DEF IdleAgain, schedVars, intVars, stackVars,
       CurrentMode, StackMode, ModeOf
  <2>2. ASSUME NEW x \in Thread PROVE StackMode(x)'
    BY <1>22, <1>a, <1>b, <1>c, Zenon DEF IdleAgain, schedVars, intVars, stackVars,
       CurrentMode, StackMode, ModeOf
  <2> QED BY <2>1, <2>2 DEF ModeInv
<1>23. ASSUME NEW t \in Thread, Execute(t) PROVE ModeInv'
  <2>1. CurrentMode'
    BY <1>23, <1>a, <1>b, <1>c, Zenon DEF Execute, Runs, schedVars, intVars,
       stackVars, CurrentMode, StackMode, ModeOf
  <2>2. ASSUME NEW x \in Thread PROVE StackMode(x)'
    BY <1>23, <1>a, <1>b, <1>c, Zenon DEF Execute, Runs, schedVars, intVars,
       stackVars, CurrentMode, StackMode, ModeOf
  <2> QED BY <2>1, <2>2 DEF ModeInv
<1>24. ASSUME NEW t \in Thread, UserInstruction(t) PROVE ModeInv'
  <2>1. CurrentMode'
    BY <1>24, <1>a, <1>b, <1>c, Zenon DEF UserInstruction, Runs, schedVars,
       intVars, stackVars, CurrentMode, StackMode, ModeOf
  <2>2. ASSUME NEW x \in Thread PROVE StackMode(x)'
    BY <1>24, <1>a, <1>b, <1>c, Zenon DEF UserInstruction, Runs, schedVars,
       intVars, stackVars, CurrentMode, StackMode, ModeOf
  <2> QED BY <2>1, <2>2 DEF ModeInv
<1>25. ASSUME NEW t \in Thread, RaiseException(t) PROVE ModeInv'
  <2>1. CurrentMode'
    BY <1>25, <1>a, <1>b, <1>c DEF RaiseException, Enter, Runs, schedVars,
       intVars, stackVars, CurrentMode, StackMode, ModeOf
  <2>2. ASSUME NEW x \in Thread PROVE StackMode(x)'
    BY <1>25, <1>a, <1>b, <1>c DEF RaiseException, Enter, Runs, schedVars,
       intVars, stackVars, CurrentMode, StackMode, ModeOf
  <2> QED BY <2>1, <2>2 DEF ModeInv
<1>26. ASSUME NEW t \in Thread, FaultReturns(t) PROVE ModeInv'
  <2>1. CurrentMode'
    BY <1>26, <1>a, <1>b, <1>c, Zenon DEF FaultReturns, Runs, schedVars, intVars,
       stackVars, CurrentMode, StackMode, ModeOf
  <2>2. ASSUME NEW x \in Thread PROVE StackMode(x)'
    BY <1>26, <1>a, <1>b, <1>c, Zenon DEF FaultReturns, Runs, schedVars, intVars,
       stackVars, CurrentMode, StackMode, ModeOf
  <2> QED BY <2>1, <2>2 DEF ModeInv
<1>27. ASSUME NEW t \in Thread, SyscallReturns(t) PROVE ModeInv'
  <2>1. CurrentMode'
    BY <1>27, <1>a, <1>b, <1>c, Zenon DEF SyscallReturns, Runs, schedVars, intVars,
       stackVars, CurrentMode, StackMode, ModeOf
  <2>2. ASSUME NEW x \in Thread PROVE StackMode(x)'
    BY <1>27, <1>a, <1>b, <1>c DEF SyscallReturns, Runs, schedVars, intVars,
       stackVars, CurrentMode, StackMode, ModeOf
  <2> QED BY <2>1, <2>2 DEF ModeInv
<1>28. ASSUME NEW t \in Thread, UnexpectedException(t) PROVE ModeInv'
  <2>1. CurrentMode'
    BY <1>28, <1>a, <1>b, <1>c, Zenon DEF UnexpectedException, Runs, schedVars,
       intVars, stackVars, CurrentMode, StackMode, ModeOf
  <2>2. ASSUME NEW x \in Thread PROVE StackMode(x)'
    BY <1>28, <1>a, <1>b, <1>c DEF UnexpectedException, Runs, schedVars,
       intVars, stackVars, CurrentMode, StackMode, ModeOf
  <2> QED BY <2>1, <2>2 DEF ModeInv
<1>29. CASE UNCHANGED vars
  <2>1. CurrentMode'
    BY <1>29, <1>a, <1>b, <1>c, Zenon DEF vars, schedVars, intVars, stackVars,
       CurrentMode, StackMode, ModeOf
  <2>2. ASSUME NEW x \in Thread PROVE StackMode(x)'
    BY <1>29, <1>a, <1>b, <1>c, Zenon DEF vars, schedVars, intVars, stackVars,
       CurrentMode, StackMode, ModeOf
  <2> QED BY <2>1, <2>2 DEF ModeInv
<1> QED
  BY <1>1, <1>2, <1>3, <1>4, <1>5, <1>6, <1>7, <1>8, <1>9, <1>10, <1>11,
     <1>12, <1>13, <1>14, <1>15, <1>16, <1>17, <1>18, <1>19, <1>20, <1>21,
     <1>22, <1>23, <1>24, <1>25, <1>26, <1>27, <1>28, <1>29 DEF Next,
     ThreadStep, SwitchStep, InterruptStep, UserStep, Stopped

(* Every step keeps UserInv. *)
LEMMA UserStepInv ==
  ASSUME TypeOK, TypeOK', SchedInv, ModeInv, UserInv, [Next]_vars
  PROVE  UserInv'
<1>a. /\ pc \in [Thread -> PC] /\ frame \in [Thread -> Frame]
      /\ space \in [Thread -> BOOLEAN] /\ userRegisters \in [Thread -> Thread \cup {NULL}]
      /\ currentThread \in Thread /\ currentThread' \in Thread
  BY Zenon DEF TypeOK
<1>b. /\ \A x \in Thread \ {currentThread} : pc[x] \in {"fresh", "yield", "sleep", "finished"}
      /\ \A x \in Thread : status[x] = "FREE" => pc[x] \in {"fresh", "finished"}
  BY DEF SchedInv, PlaceInv
<1>c. \A x \in Thread : pc[x] \in {"fresh", "finished"} => frame[x] = "kernel"
  BY DEF ModeInv, StackMode
<1>1. ASSUME NEW t \in Thread, NEW u \in Thread, NEW p \in PriorityArgs, New(t, u, p) PROVE UserInv'
  BY <1>1, <1>a, <1>b, <1>c, Zenon DEF New, Runs, Construct, schedVars, stackVars,
     userVars, UserInv
<1>2. ASSUME NEW t \in Thread, NewAborts(t) PROVE UserInv'
  BY <1>2, <1>a, <1>b, <1>c, Zenon DEF NewAborts, Runs, schedVars, stackVars,
     userVars, UserInv
<1>3. ASSUME NEW t \in Thread, NEW u \in Thread, NewDefault(t, u) PROVE UserInv'
  BY <1>3, <1>a, <1>b, <1>c, Zenon DEF NewDefault, Runs, Construct, schedVars,
     stackVars, userVars, UserInv
<1>4. ASSUME NEW t \in Thread, NEW u \in Thread, Fork(t, u) PROVE UserInv'
  BY <1>4, <1>a, <1>b, <1>c, Zenon DEF Fork, Runs, schedVars, stackVars, userVars,
     UserInv
<1>5. ASSUME NEW t \in Thread, Yield(t) PROVE UserInv'
  BY <1>5, <1>a, <1>b, <1>c, Zenon DEF Yield, Runs, Run, schedVars, stackVars,
     userVars, UserInv
<1>6. ASSUME NEW t \in Thread, Call(t) PROVE UserInv'
  BY <1>6, <1>a, <1>b, <1>c, Zenon DEF Call, InKernel, Runs, RestoreLevel,
     schedVars, stackVars, userVars, UserInv
<1>7. ASSUME NEW t \in Thread, Block(t) PROVE UserInv'
  BY <1>7, <1>a, <1>b, <1>c DEF Block, InKernel, Runs, Sleep, Run,
     schedVars, stackVars, userVars, UserInv
<1>8. ASSUME NEW t \in Thread, NEW u \in Thread, Wake(t, u) PROVE UserInv'
  BY <1>8, <1>a, <1>b, <1>c, Zenon DEF Wake, InKernel, Runs, RestoreLevel,
     schedVars, stackVars, userVars, UserInv
<1>9. ASSUME NEW t \in Thread, Finish(t) PROVE UserInv'
  BY <1>9, <1>a, <1>b, <1>c DEF Finish, Runs, Sleep, Run, schedVars,
     stackVars, userVars, UserInv
<1>10. ASSUME NEW t \in Thread, Halt(t) PROVE UserInv'
  BY <1>10, <1>a, <1>b, <1>c, Zenon DEF Halt, Runs, schedVars, stackVars, userVars,
     UserInv
<1>11. ASSUME NEW t \in Thread, Begin(t) PROVE UserInv'
  BY <1>11, <1>a, <1>b, <1>c DEF Begin, CheckToBeDestroyed, RestoreLevel,
     schedVars, stackVars, userVars, UserInv
<1>12. ASSUME NEW t \in Thread, YieldReturns(t) PROVE UserInv'
  BY <1>12, <1>a, <1>b, <1>c DEF YieldReturns, CheckToBeDestroyed,
     RestoreUserState, RestoreLevel, schedVars, stackVars, userVars, UserInv
<1>13. ASSUME NEW t \in Thread, SleepReturns(t) PROVE UserInv'
  BY <1>13, <1>a, <1>b, <1>c DEF SleepReturns, CheckToBeDestroyed,
     RestoreUserState, schedVars, stackVars, userVars, UserInv
<1>14. ASSUME NEW t \in Thread, BlockAgain(t) PROVE UserInv'
  BY <1>14, <1>a, <1>b, <1>c DEF BlockAgain, Sleep, Run, schedVars,
     stackVars, userVars, UserInv
<1>15. ASSUME NEW t \in Thread, PReturns(t) PROVE UserInv'
  BY <1>15, <1>a, <1>b, <1>c DEF PReturns, RestoreLevel, schedVars,
     stackVars, userVars, UserInv
<1>16. ASSUME NEW t \in Thread, TimerInterrupt(t) PROVE UserInv'
  BY <1>16, <1>a, <1>b, <1>c, Zenon DEF TimerInterrupt, MayInterrupt, schedVars,
     stackVars, userVars, UserInv
<1>17. ASSUME NEW t \in Thread, NEW u \in Thread, DeviceInterrupt(t, u) PROVE UserInv'
  BY <1>17, <1>a, <1>b, <1>c, Zenon DEF DeviceInterrupt, MayInterrupt, schedVars,
     stackVars, userVars, UserInv
<1>18. ASSUME NEW t \in Thread, DeviceInterruptNoWaiter(t) PROVE UserInv'
  BY <1>18, <1>a, <1>b, <1>c, Zenon DEF DeviceInterruptNoWaiter, MayInterrupt,
     schedVars, stackVars, userVars, UserInv
<1>19. ASSUME NEW t \in Thread, TickYields(t) PROVE UserInv'
  BY <1>19, <1>a, <1>b, <1>c DEF TickYields, Run, schedVars, stackVars,
     userVars, UserInv
<1>20. ASSUME NEW t \in Thread, TickReturns(t) PROVE UserInv'
  BY <1>20, <1>a, <1>b, <1>c, Zenon DEF TickReturns, schedVars, stackVars,
     userVars, UserInv
<1>21. ASSUME NEW t \in Thread, IdleEnds(t) PROVE UserInv'
  BY <1>21, <1>a, <1>b, <1>c DEF IdleEnds, Run, schedVars, stackVars,
     userVars, UserInv
<1>22. ASSUME NEW t \in Thread, IdleAgain(t) PROVE UserInv'
  BY <1>22, <1>a, <1>b, <1>c, Zenon DEF IdleAgain, schedVars, stackVars, userVars,
     UserInv
<1>23. ASSUME NEW t \in Thread, Execute(t) PROVE UserInv'
  BY <1>23, <1>a, <1>b, <1>c, Zenon DEF Execute, Runs, schedVars, stackVars,
     userVars, UserInv
<1>24. ASSUME NEW t \in Thread, UserInstruction(t) PROVE UserInv'
  BY <1>24, <1>a, <1>b, <1>c, Zenon DEF UserInstruction, Runs, schedVars,
     stackVars, userVars, UserInv
<1>25. ASSUME NEW t \in Thread, RaiseException(t) PROVE UserInv'
  BY <1>25, <1>a, <1>b, <1>c DEF RaiseException, Enter, Runs, schedVars,
     stackVars, userVars, UserInv
<1>26. ASSUME NEW t \in Thread, FaultReturns(t) PROVE UserInv'
  BY <1>26, <1>a, <1>b, <1>c, Zenon DEF FaultReturns, Runs, schedVars, stackVars,
     userVars, UserInv
<1>27. ASSUME NEW t \in Thread, SyscallReturns(t) PROVE UserInv'
  BY <1>27, <1>a, <1>b, <1>c, Zenon DEF SyscallReturns, Runs, schedVars, stackVars,
     userVars, UserInv
<1>28. ASSUME NEW t \in Thread, UnexpectedException(t) PROVE UserInv'
  BY <1>28, <1>a, <1>b, <1>c, Zenon DEF UnexpectedException, Runs, schedVars,
     stackVars, userVars, UserInv
<1>29. CASE UNCHANGED vars
  BY <1>29, <1>a, <1>b, <1>c, Zenon DEF vars, schedVars, stackVars, userVars,
     UserInv
<1> QED
  BY <1>1, <1>2, <1>3, <1>4, <1>5, <1>6, <1>7, <1>8, <1>9, <1>10, <1>11,
     <1>12, <1>13, <1>14, <1>15, <1>16, <1>17, <1>18, <1>19, <1>20, <1>21,
     <1>22, <1>23, <1>24, <1>25, <1>26, <1>27, <1>28, <1>29 DEF Next,
     ThreadStep, SwitchStep, InterruptStep, UserStep, Stopped

-----------------------------------------------------------------------------
(* The theorems. *)

(* The state that Kernel::Initialize leaves satisfies the invariant. *)
LEMMA InitIInv ==
  ASSUME Init
  PROVE  IInv
<1>1. TypeOK
  <2>1. ClampPriority(0) \in 1 .. 7
    BY ClampRange
  <2>2. Main \in Thread /\ <<>> \in Seq(Thread)
    BY ThreadAssumption DEF ThreadAssumption
  <2> QED BY <2>1, <2>2, Zenon DEF Init, TypeOK, Status, PC, Frame, MachineStatus
<1>2. SchedInv
  <2>1. ReadyListConsistent
    <3>1. readyList = <<>> /\ \A t \in Thread : status[t] # "READY"
      BY DEF Init
    <3>2. ToSet(<<>>) = {}
      BY DEF ToSet
    <3>3. NoDuplicates(<<>>) /\ Sorted(priority, <<>>)
      BY DEF NoDuplicates, Sorted
    <3> QED BY <3>1, <3>2, <3>3 DEF ReadyListConsistent
  <2>2. PlaceInv
    BY ThreadAssumption DEF Init, PlaceInv, ThreadAssumption
  <2>3. WaitInv /\ DestroyInv
    BY DEF Init, WaitInv, DestroyInv
  <2> QED BY <2>1, <2>2, <2>3 DEF SchedInv
<1>3. IntInv
  BY ThreadAssumption DEF Init, IntInv, ThreadAssumption
<1>4. ModeInv
  BY ThreadAssumption, Zenon DEF Init, ModeInv, CurrentMode, StackMode, ModeOf, ThreadAssumption
<1>5. UserInv
  BY DEF Init, UserInv
<1> QED BY <1>1, <1>2, <1>3, <1>4, <1>5 DEF IInv

(* IInv is inductive: every step keeps it. *)
LEMMA IInvStep ==
  ASSUME IInv, [Next]_vars
  PROVE  IInv'
<1>1. TypeOK /\ SchedInv /\ IntInv /\ ModeInv /\ UserInv
  BY DEF IInv
<1>2. TypeOK'
  BY <1>1, TypeStep
<1>3. SchedInv'
  BY <1>1, SchedStep
<1>4. IntInv'
  BY <1>1, <1>2, IntStep
<1>5. ModeInv'
  BY <1>1, <1>2, ModeStep
<1>6. UserInv'
  BY <1>1, <1>2, UserStepInv
<1> QED BY <1>2, <1>3, <1>4, <1>5, <1>6 DEF IInv

(* So it holds in every state of every behaviour. *)
THEOREM Inductive == Spec => []IInv
BY InitIInv, IInvStep, PTL DEF Spec

(* TypeOK: every variable keeps its type; in particular Thread::setPriority *)
(* keeps every priority within 1 to 7, whatever value it is given.          *)
THEOREM TypeInvariant == Spec => []TypeOK
<1>1. IInv => TypeOK
  BY DEF IInv
<1> QED BY <1>1, Inductive, PTL

(* ReadyListConsistent, for any threads and priorities: the ready list is   *)
(* exactly the READY threads, each once and in the order of Compare.        *)
THEOREM ReadyListInvariant == Spec => []ReadyListConsistent
<1>1. IInv => ReadyListConsistent
  BY DEF IInv, SchedInv, ReadyListConsistent
<1> QED BY <1>1, Inductive, PTL

(* DestroySafe: a finished thread is deleted from another thread's stack,   *)
(* and nothing refers to it (Scheduler::CheckToBeDestroyed).                *)
THEOREM DestroyInvariant == Spec => []DestroySafe
<1>1. IInv => DestroySafe
  BY Zenon DEF IInv, SchedInv, ReadyListConsistent, DestroyInv, WaitInv, TypeOK, DestroySafe
<1> QED BY <1>1, Inductive, PTL

(* NoDanglingThread: the CPU and the semaphore queues hold live threads.    *)
THEOREM DanglingInvariant == Spec => []NoDanglingThread
<1>1. IInv => NoDanglingThread
  BY DEF IInv, SchedInv, PlaceInv, WaitInv, NoDanglingThread
<1> QED BY <1>1, Inductive, PTL

(* InterruptsEnabled: thread code runs with interrupts on, whatever sequence *)
(* of Yield, Sleep, Begin and nested OneTick led to it.                      *)
THEOREM InterruptInvariant == Spec => []InterruptsEnabled
<1>1. IInv => InterruptsEnabled
  BY DEF IInv, IntInv, InterruptsEnabled
<1> QED BY <1>1, Inductive, PTL

(* NoStaleYield: a request to yield is used by the OneTick it was made in.  *)
THEOREM YieldInvariant == Spec => []NoStaleYield
<1>1. IInv => NoStaleYield
  BY DEF IInv, IntInv, NoStaleYield
<1> QED BY <1>1, Inductive, PTL

(* ModeMatches: preemption restores the machine status of the code that the *)
(* CPU returns to, for any nesting of OneTick.                              *)
THEOREM ModeInvariant == Spec => []ModeMatches
<1>1. IInv => ModeMatches
  BY DEF IInv, ModeInv, CurrentMode, ModeOf, ModeMatches
<1> QED BY <1>1, Inductive, PTL

(* UserContext: a user program finds its own registers and page table.      *)
THEOREM ContextInvariant == Spec => []UserContext
<1>1. IInv => UserContext
  BY Zenon DEF IInv, UserInv, TypeOK, UserContext
<1> QED BY <1>1, Inductive, PTL

-----------------------------------------------------------------------------
(* The thread that a switch selects.                                        *)

(* The thread that has the CPU after the step has the highest priority *)
(* among it and the READY threads.                                     *)
Highest ==
  \A x \in Thread : status'[x] = "READY" => priority'[x] <= priority'[currentThread']

(* Scheduler::Run gives the CPU to a thread of the highest priority. *)
LEMMA RunHighest ==
  ASSUME TypeOK, NEW t \in Thread, NEW st \in [Thread -> Status], NEW list,
         NEW finishing \in BOOLEAN, Fits(st, list), list # <<>>,
         Run(t, st, list, finishing), priority' = priority
  PROVE  Highest
<1>1. /\ currentThread' \in Thread
      /\ status' = [st EXCEPT ![currentThread'] = "RUNNING"]
      /\ \A x \in Thread : st[x] = "READY" => priority[x] <= priority[currentThread']
  BY RunDispatches
<1> QED BY <1>1 DEF Highest

(* So does Thread::Yield, called by the thread or by OneTick. *)
LEMMA YieldHighest ==
  ASSUME TypeOK, SchedInv, NEW t \in Thread, t = currentThread,
         pc[t] \in {"run", "tick"},
         Run(t, [status EXCEPT ![t] = "READY"], Insert(priority, readyList, t), FALSE),
         priority' = priority
  PROVE  Highest
<1> DEFINE st == [status EXCEPT ![t] = "READY"]
           list == Insert(priority, readyList, t)
<1>1. st \in [Thread -> Status]
  BY Zenon DEF TypeOK, Status
<1>2. status[t] = "RUNNING"
  BY DEF SchedInv, PlaceInv
<1>3. Fits(st, list) /\ list # <<>>
  BY <1>2, ReadyToRunFits, Zenon DEF SchedInv
<1>4. Run(t, st, list, FALSE)
  BY Zenon
<1> HIDE DEF st, list
<1> QED BY <1>1, <1>3, <1>4, RunHighest, Zenon

(* And Thread::Sleep, unless it keeps the CPU idle. *)
LEMMA SleepHighest ==
  ASSUME TypeOK, SchedInv, NEW t \in Thread, t = currentThread,
         pc[t] \in {"run", "woken"}, NEW finishing \in BOOLEAN, NEW old,
         Sleep(t, finishing, old), currentThread' # currentThread
  PROVE  Highest
<1> DEFINE st == [status EXCEPT ![t] = "BLOCKED"]
<1>1. st \in [Thread -> Status] /\ st[t] = "BLOCKED" /\ \A x \in Thread \ {t} : st[x] = status[x]
  BY Zenon DEF TypeOK, Status
<1>2. status[t] = "RUNNING"
  BY DEF SchedInv, PlaceInv
<1>3. Fits(st, readyList)
  BY <1>1, <1>2, ReadyListFits, Zenon DEF SchedInv, Fits
<1>4. Run(t, st, readyList, finishing) /\ readyList # <<>> /\ priority' = priority
  BY DEF Sleep, schedVars
<1> HIDE DEF st
<1> QED BY <1>1, <1>3, <1>4, RunHighest, Zenon

(* Interrupt::Idle returned to Thread::Sleep, which switches. *)
LEMMA IdleHighest ==
  ASSUME TypeOK, SchedInv, NEW t \in Thread, IdleEnds(t)
  PROVE  Highest
<1> DEFINE fin == (pc[t] = "finishIdle")
<1>1. Run(t, status, readyList, fin) /\ priority' = priority /\ readyList # <<>>
  BY DEF IdleEnds
<1>2. fin \in BOOLEAN
  OBVIOUS
<1> HIDE DEF fin
<1>3. Fits(status, readyList) /\ status \in [Thread -> Status]
  BY ReadyListFits, Zenon DEF SchedInv, TypeOK
<1> QED BY <1>1, <1>2, <1>3, RunHighest

(* A step that gives the CPU to another thread gives it to a thread of the *)
(* highest priority; the other steps leave currentThread alone.            *)
LEMMA StepHighest ==
  ASSUME TypeOK, SchedInv, [Next]_vars, currentThread' # currentThread
  PROVE  Highest
<1>1. ASSUME NEW t \in Thread, ThreadStep(t) PROVE Highest
  <2>1. CASE Yield(t)
    BY <2>1, YieldHighest, Zenon DEF Yield, Runs
  <2>2. CASE Block(t)
    BY <2>2, SleepHighest, Zenon DEF Block, InKernel, Runs
  <2>3. CASE Finish(t)
    BY <2>3, SleepHighest, Zenon DEF Finish, Runs
  <2> QED
    BY <1>1, <2>1, <2>2, <2>3, Zenon DEF ThreadStep, New, NewAborts, NewDefault, Construct,
       Fork, Call, Wake, Halt, schedVars
<1>2. ASSUME NEW t \in Thread, SwitchStep(t) PROVE Highest
  <2>1. CASE BlockAgain(t)
    BY <2>1, SleepHighest, Zenon DEF BlockAgain
  <2> QED
    BY <1>2, <2>1, Zenon DEF SwitchStep, Begin, YieldReturns, SleepReturns, PReturns, schedVars
<1>3. ASSUME NEW t \in Thread, InterruptStep(t) PROVE Highest
  <2>1. CASE TickYields(t)
    BY <2>1, YieldHighest, Zenon DEF TickYields
  <2>2. CASE IdleEnds(t)
    BY <2>2, IdleHighest
  <2> QED
    BY <1>3, <2>1, <2>2, Zenon DEF InterruptStep, TimerInterrupt, DeviceInterrupt,
       DeviceInterruptNoWaiter, TickReturns, IdleAgain, schedVars
<1>4. ASSUME NEW t \in Thread, UserStep(t) PROVE Highest
  BY <1>4, Zenon DEF UserStep, Execute, UserInstruction, RaiseException, Enter, FaultReturns,
     SyscallReturns, UnexpectedException, schedVars
<1> QED BY <1>1, <1>2, <1>3, <1>4, Zenon DEF Next, Stopped, vars, schedVars

(* PriorityRespected: whoever gives up the CPU, and wherever, the thread that *)
(* gets it has the highest priority among it and the READY threads.           *)
THEOREM PriorityTheorem == Spec => PriorityRespected
<1>1. IInv /\ [Next]_vars =>
        [currentThread' # currentThread =>
           \A t \in Thread : status'[t] = "READY" => priority'[t] <= priority'[currentThread']]_vars
  <2> SUFFICES ASSUME IInv, [Next]_vars, currentThread' # currentThread
               PROVE  Highest
    BY DEF Highest
  <2> QED BY StepHighest DEF IInv
<1> QED BY <1>1, Inductive, PTL DEF Spec, PriorityRespected

-----------------------------------------------------------------------------
(* The order among threads of one priority. *)

(* In the list new, the elements that are not in list are behind those of list *)
(* that have at least their priority.                                          *)
Behind(list, new) ==
  \A i, j \in 1 .. Len(new) :
    /\ new[i] \notin ToSet(list)
    /\ new[j] \in ToSet(list)
    /\ priority[new[i]] <= priority[new[j]]
    => j < i

(* SortedList::Insert puts a thread behind those of its priority. *)
LEMMA InsertBehind ==
  ASSUME TypeOK, Sorted(priority, readyList), NEW u \in Thread
  PROVE  LET new == Insert(priority, readyList, u) IN
         new \in Seq(Thread) /\ new # <<>> /\ Behind(readyList, new)
<1> DEFINE new == Insert(priority, readyList, u)
           n == Len(readyList)
<1>1. priority \in [Thread -> Int] /\ readyList \in Seq(Thread) /\ n \in Nat
  BY DEF TypeOK
<1>2. PICK k \in 1 .. n + 1 :
        /\ new = InsertAt(readyList, k, u)
        /\ k <= n => priority[u] > priority[readyList[k]]
  BY <1>1, InsertPosition, Zenon
<1>3. /\ new \in Seq(Thread) /\ Len(new) = n + 1
      /\ \A i \in 1 .. n + 1 :
           new[i] = IF i < k THEN readyList[i] ELSE IF i = k THEN u ELSE readyList[i - 1]
  <2> DEFINE at == InsertAt(readyList, k, u)
  <2>0. readyList \in Seq(Thread) /\ u \in Thread /\ k \in 1 .. Len(readyList) + 1
    BY <1>1
  <2>1. /\ at \in Seq(Thread) /\ Len(at) = n + 1
        /\ \A i \in 1 .. n + 1 :
             at[i] = IF i < k THEN readyList[i] ELSE IF i = k THEN u ELSE readyList[i - 1]
    BY <2>0, InsertAtProps, SMTT(30)
  <2> HIDE DEF new, at
  <2> QED BY <1>2, <2>1, Zenon DEF at
<1>4. \A i, j \in 1 .. n : i < j => priority[readyList[j]] <= priority[readyList[i]]
  BY <1>1, SortedMeaning, Zenon
<1>5. \A i \in 1 .. n : readyList[i] \in ToSet(readyList)
  BY <1>1, Zenon DEF ToSet
<1>6. \A i \in 1 .. n : priority[readyList[i]] \in Int
  BY <1>1
<1>7. priority[u] \in Int
  BY <1>1
<1> HIDE DEF new
<1>8. ASSUME NEW i \in 1 .. Len(new), NEW j \in 1 .. Len(new), new[i] \notin ToSet(readyList),
             new[j] \in ToSet(readyList), priority[new[i]] <= priority[new[j]], ~ (j < i)
      PROVE  FALSE
  <2>1. i \in 1 .. n + 1 /\ j \in 1 .. n + 1
    BY <1>3, <1>8, Zenon
  <2>2. i = k
    <3>1. CASE i < k
      BY <1>3, <1>5, <1>8, <2>1, <3>1
    <3>2. CASE i > k
      <4>1. i - 1 \in 1 .. n /\ new[i] = readyList[i - 1]
        BY <1>3, <2>1, <3>2
      <4> QED BY <1>5, <1>8, <4>1, Zenon
    <3> QED BY <2>1, <3>1, <3>2
  <2>3. j > k
    <3>1. j # i
      BY <1>8
    <3> QED BY <1>8, <2>1, <2>2, <3>1
  <2>4. new[i] = u /\ new[j] = readyList[j - 1] /\ j - 1 \in 1 .. n /\ k \in 1 .. n
        /\ k <= j - 1
    BY <1>3, <2>1, <2>2, <2>3
  <2>5. priority[readyList[j - 1]] <= priority[readyList[k]]
    <3>1. CASE k = j - 1
      BY <1>6, <2>4, <3>1
    <3>2. CASE k < j - 1
      BY <1>4, <2>4, <3>2, Zenon
    <3> QED BY <2>4, <3>1, <3>2
  <2>6. priority[readyList[k]] < priority[u]
    BY <1>2, <2>4
  <2>7. priority[u] <= priority[readyList[j - 1]]
    BY <1>8, <2>4, Zenon
  <2>8. priority[readyList[j - 1]] \in Int /\ priority[readyList[k]] \in Int
    BY <1>6, <2>4, Zenon
  <2> QED BY <1>7, <2>5, <2>6, <2>7, <2>8
<1>9. Behind(readyList, new)
  BY <1>8, Zenon DEF Behind
<1>10. new # <<>>
  BY <1>1, <1>3
<1> QED BY <1>3, <1>9, <1>10, Zenon DEF new

(* Taking the first thread off the list changes nothing among the others. *)
LEMMA TailBehind ==
  ASSUME NEW list, NEW new \in Seq(Thread), new # <<>>, Behind(list, new)
  PROVE  Behind(list, Tail(new))
<1>1. Len(Tail(new)) = Len(new) - 1 /\ Len(new) \in Nat
      /\ \A i \in 1 .. Len(new) - 1 : Tail(new)[i] = new[i + 1]
  OBVIOUS
<1>2. ASSUME NEW i \in 1 .. Len(new) - 1, NEW j \in 1 .. Len(new) - 1,
             new[i + 1] \notin ToSet(list), new[j + 1] \in ToSet(list),
             priority[new[i + 1]] <= priority[new[j + 1]]
      PROVE  j < i
  <2>1. i + 1 \in 1 .. Len(new) /\ j + 1 \in 1 .. Len(new)
    BY <1>1
  <2>2. j + 1 < i + 1
    BY <1>2, <2>1, Zenon DEF Behind
  <2> QED BY <2>2
<1> QED BY <1>1, <1>2, Zenon DEF Behind

(* No thread of the ready list itself is new to it. *)
LEMMA SameBehind ==
  ASSUME TypeOK
  PROVE  Behind(readyList, readyList)
<1>1. \A i \in 1 .. Len(readyList) : readyList[i] \in ToSet(readyList)
  BY DEF ToSet
<1> QED BY <1>1, Zenon DEF Behind

(* Thread::Yield, called by the thread or by OneTick. *)
LEMMA YieldBehind ==
  ASSUME TypeOK, SchedInv, NEW t \in Thread, NEW st,
         Run(t, st, Insert(priority, readyList, t), FALSE)
  PROVE  Behind(readyList, readyList')
<1>1. readyList' = Tail(Insert(priority, readyList, t))
  BY Zenon DEF Run
<1>2. Sorted(priority, readyList)
  BY DEF SchedInv, ReadyListConsistent
<1>3. Behind(readyList, Tail(Insert(priority, readyList, t)))
  BY <1>2, InsertBehind, TailBehind, Zenon
<1> QED BY <1>1, <1>3, Zenon

(* The ready list after a switch that puts no thread on it. *)
LEMMA RunBehind ==
  ASSUME TypeOK, NEW t \in Thread, NEW st, NEW finishing, readyList # <<>>,
         Run(t, st, readyList, finishing)
  PROVE  Behind(readyList, readyList')
<1>1. readyList' = Tail(readyList)
  BY Zenon DEF Run
<1>2. Behind(readyList, Tail(readyList))
  BY SameBehind, TailBehind, Zenon DEF TypeOK
<1> QED BY <1>1, <1>2, Zenon

(* Thread::Sleep. *)
LEMMA SleepBehind ==
  ASSUME TypeOK, NEW t \in Thread, NEW finishing, NEW old, Sleep(t, finishing, old)
  PROVE  Behind(readyList, readyList')
<1> DEFINE st == [status EXCEPT ![t] = "BLOCKED"]
<1>1. \/ readyList # <<>> /\ Run(t, st, readyList, finishing)
      \/ readyList' = readyList
  BY Zenon DEF Sleep, schedVars
<1> HIDE DEF st
<1>2. CASE readyList # <<>> /\ Run(t, st, readyList, finishing)
  BY <1>2, RunBehind
<1>3. CASE readyList' = readyList
  BY <1>3, SameBehind, Zenon
<1> QED BY <1>1, <1>2, <1>3

(* Scheduler::ReadyToRun, called by Fork and V. *)
LEMMA ReadyBehind ==
  ASSUME TypeOK, SchedInv, NEW u \in Thread, readyList' = Insert(priority, readyList, u)
  PROVE  Behind(readyList, readyList')
<1>1. Sorted(priority, readyList)
  BY DEF SchedInv, ReadyListConsistent
<1>2. Behind(readyList, Insert(priority, readyList, u))
  BY <1>1, InsertBehind
<1> QED BY <1>2, Zenon

(* Every step of a thread, a switch or a handler. *)
LEMMA StepBehind ==
  ASSUME TypeOK, SchedInv, [Next]_vars
  PROVE  Behind(readyList, readyList')
<1>a. ASSUME readyList' = readyList PROVE Behind(readyList, readyList')
  BY <1>a, SameBehind, Zenon
<1>1. ASSUME NEW t \in Thread, ThreadStep(t) PROVE Behind(readyList, readyList')
  <2>1. CASE Yield(t)
    BY <2>1, YieldBehind, Zenon DEF Yield
  <2>2. CASE Block(t)
    BY <2>2, SleepBehind, Zenon DEF Block
  <2>3. CASE Finish(t)
    BY <2>3, SleepBehind, Zenon DEF Finish
  <2>4. ASSUME NEW u \in Thread, Fork(t, u) \/ Wake(t, u) PROVE Behind(readyList, readyList')
    BY <2>4, ReadyBehind, Zenon DEF Fork, Wake
  <2> QED
    BY <1>1, <1>a, <2>1, <2>2, <2>3, <2>4, Zenon DEF ThreadStep, New, NewAborts, NewDefault,
       Construct, Call, Halt, schedVars
<1>2. ASSUME NEW t \in Thread, SwitchStep(t) PROVE Behind(readyList, readyList')
  <2>1. CASE BlockAgain(t)
    BY <2>1, SleepBehind, Zenon DEF BlockAgain
  <2> QED
    BY <1>2, <1>a, <2>1, Zenon DEF SwitchStep, Begin, YieldReturns, SleepReturns, PReturns,
       schedVars
<1>3. ASSUME NEW t \in Thread, InterruptStep(t) PROVE Behind(readyList, readyList')
  <2>1. CASE TickYields(t)
    BY <2>1, YieldBehind, Zenon DEF TickYields
  <2>2. CASE IdleEnds(t)
    BY <2>2, RunBehind, Zenon DEF IdleEnds
  <2>3. ASSUME NEW u \in Thread, DeviceInterrupt(t, u) PROVE Behind(readyList, readyList')
    BY <2>3, ReadyBehind, Zenon DEF DeviceInterrupt
  <2> QED
    BY <1>3, <1>a, <2>1, <2>2, <2>3, Zenon DEF InterruptStep, TimerInterrupt,
       DeviceInterruptNoWaiter, TickReturns, IdleAgain, schedVars
<1>4. ASSUME NEW t \in Thread, UserStep(t) PROVE Behind(readyList, readyList')
  BY <1>4, <1>a, Zenon DEF UserStep, Execute, UserInstruction, RaiseException, Enter,
     FaultReturns, SyscallReturns, UnexpectedException, schedVars
<1> QED BY <1>1, <1>2, <1>3, <1>4, <1>a, Zenon DEF Next, Stopped, vars, schedVars

(* NoOvertaking: a thread that becomes READY goes behind every READY thread of *)
(* the same or a higher priority, for every set of threads and of priorities.  *)
THEOREM OvertakingTheorem == Spec => NoOvertaking
<1>1. IInv /\ [Next]_vars =>
        [\A i, j \in 1 .. Len(readyList') :
           /\ readyList'[i] \notin ToSet(readyList)
           /\ readyList'[j] \in ToSet(readyList)
           /\ priority[readyList'[i]] <= priority[readyList'[j]]
           => j < i]_vars
  BY StepBehind, Zenon DEF IInv, Behind
<1> QED BY <1>1, Inductive, PTL DEF Spec, NoOvertaking
=============================================================================
