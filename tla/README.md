# A verification of NachOS

TLA+ models of the teaching operating system in `src/`, with TLC runs on small
instances and TLAPS proofs for every instance.  `PROJECT.json` lists the
components, runs, mutants, findings, theorems and hazards, and maps every
definition to the source lines it models.

## The system

NachOS simulates a machine (CPU, interrupts, disk, console, network) in one
host process and runs a small kernel on it.  Only one thread executes at a
time.  Kernel code loses the CPU only where it re-enables interrupts
(`Interrupt::SetLevel` calls `OneTick`, which runs the due handlers and may
yield) or sleeps; user code can lose it after every instruction.

| Part | Modules | What is hard |
|---|---|---|
| threads and scheduler, `threads/thread.cc`, `scheduler.cc` | `Threads`, `ReadyList` | deletion of a thread whose stack is in use, strict priority, finishing while idle |
| time and interrupts, `machine/interrupt.cc`, `timer.cc`, `threads/alarm.cc` | `Interrupts`, `Threads` | the order of delivery, handlers that schedule, the timer that must re-arm itself |
| synchronization, `threads/synch.cc`, `synchlist.cc` | `Semaphores`, `Monitor`, `SynchList` | barging, the gap in Wait, lost wakeups |
| disk, `machine/disk.cc`, `filesys/synchdisk.cc` | `Disk`, `SynchDevice`, `SynchDisk` | one request at a time, the closed formula of the latency, crashes |
| console, `machine/console.cc`, `userprog/synchconsole.cc` | `Console`, `SynchDevice` | polling, end of input, several readers |
| network, `machine/network.cc`, `network/post.cc` | `PostOffice` | lost packets, full sockets, machines that stop and start |
| file system, `filesys/` | `FileSystem`, `OpenFile`, `StubFile`, `CopyFile` | a stop between two sector writes, requests across sectors |
| user programs, `machine/`, `userprog/` | `Threads`, `Mips`, `Paging`, `SystemCalls` | context switches, delay slots, page faults inside system calls, children of the host |
| start and end, `threads/main.cc`, `kernel.cc` | `KernelStart` | the order of the parts, ctl-C at any moment |
| `coff2noff/` | `CoffToNoff` | failures of the host in every read and write |
| library, `lib/` | `LinkedList`, `HashTable`, `Bitmap` | pointers, resizing, borders of words |
| test framework, `lib/tut*.h` | `TestRunner`, `Restartable`, `EscapedText` | exceptions in destructors, crashes of the test program |

## Modules

One action reaches from one point where the CPU can be lost (or a crash can
happen, or the host can fail) to the next.

- `ReadyList`: `Compare` and `SortedList::Insert` as operators.  `Threads`:
  threads, scheduler, interrupt level and tick, time slicing, and the switches
  between kernel and user code.  Per thread, `pc` is the innermost kernel
  routine on its stack and `frame` the code it returns to; `waiting` is the set
  of threads asleep on some semaphore; the registers of a user program are
  abstracted to whose they are.
- `Interrupts`: clock, pending list, `CheckIfDue`, the timer and devices that
  interrupt once per request or poll.  Which thread runs is left to `Threads`,
  in which any interrupt may be due in any tick.
- `Semaphores`: P and V with values and queues, each a step of `Threads`.
- `Monitor`: `Lock` and `Condition`; `MesaMonitor` is what `synch.h` promises.
  A step reaches from one P or V to the next.  Scheduling is left out, because
  `Threads` allows a preemption at each of these points.  `SynchList` is the
  synchronized list on it, with the abort of `List::Append` on a duplicate.
- `SynchDevice`: lock, request, wait for the interrupt, release, as disk and
  display use it.  Lock and semaphore are atomic from here on, as `Monitor` and
  `Semaphores` show them to be.  `SynchDisk` is the disk with its file on the
  host and restarts, and implements `SectorStore`; `Disk` is the latency
  against a turning disk; `Console` and `PostOffice` are the other devices with
  the threads that use them.
- `FileSystem`: Create, Open, Close and Remove with one step per sector write.
  `OpenFile` (on sectors) and `StubFile` (on the host) both implement
  `ByteFile`.  `CopyFile` composes the commands `-cp` and `-p` with `OpenFile`.
- `KernelStart`: both readers of the command line, `Initialize`, the jobs of
  main, `Halt` and the ctl-C handler.  `CoffToNoff`: the converter, with a host
  that may fail any call.
- `Mips`: decoding and all instructions, delayed loads and delay slots, with
  bytes of `B` bits.  `Paging`: loading, translation, page faults, replacement.
  `SystemCalls`: the handler of `exception.cc` with `ksyscall.h`, on the host's
  fork, exit and waitpid (external).
- `LinkedList` implements `ItemSequence`, `HashTable` implements `KeyedSet`,
  `Bitmap` implements `BitSet`.  `TestRunner`, `Restartable`, `EscapedText`:
  runner and reporter, the wrapper that goes on after a crash, and the texts in
  its files.
- `*Proofs`: inductive invariants and theorems, in eight modules.
- `MCThreads` and `MCSemaphores` are instances for TLC; `Monitor` and
  `SynchList` are instantiated by their cfg.  `Devices`, `Files`, `Programs`
  and `Library` each bring several modules together for one run.

The modules that `Devices`, `Files`, `Programs` and `Library` bring together
share no variable.  A behaviour of all of them is, to each one, its own
behaviour with steps in between that leave it unchanged, so nothing is lost
when each behaviour of the run has the steps of one of them, its `part`, from
every start of that part.  `Devices` and `Programs` extend their modules (but for
`Console` and `Mips`), so that the run checks the very definitions that the
theorems name; a component that takes no step is in a state it starts in.  The
other properties of these runs, and those of `Files` and `Library`, name the
property of an instance and the `part` it is about.

The definitions whose comment begins with "Mutant" are plausible bugs, one for
every property of a passing run, that make TLC report that property.

## Runs

| Run | Shows | Bounds |
|---|---|---|
| kernel | consistent ready list, safe deletion, no dangling thread, highest priority first, no overtaking among equals | 4 threads, priorities 0 (raised to 1), 2, 9 (lowered to 7), 3 counted constructions, main may run a user program |
| fair | every ready thread runs | 3 kernel threads of one priority |
| semaphores | no lost wakeup; mode, registers and page table after any preemption | 3 threads, 2 of them run user programs, a mutex and a device semaphore, values up to 2 |
| monitor | no lost signal, refinement of `MesaMonitor`, a signalled thread goes on | 4 threads |
| synchlist | items have takers, waiting consumers are served | 3 threads, 2 items |
| devices: interrupts | delivery in order and in time, positive delays, a timer that never stops | 12 ticks, 3 delays, a device with requests and one that polls |
| devices: disk | the latency is that of a turning disk, the track buffer is used when it can be | 3 tracks of 3 sectors, 22 ticks |
| devices: synchdisk | one request at a time; calls are atomic and survive restarts | 3 threads, 2 sectors |
| devices: console | one request at a time; every key is delivered once, EOF is the end, the echo ends | 2 threads, all inputs of up to 3 characters |
| devices: network | one send at a time, mail in order and at most once, `NetworkTest` ends | 2 machines, 3 threads, loss, one stop, sockets of 2 |
| files: filesystem | map, directory, headers and handles agree, answers are right; a crash loses no sector, spares other files and leaves the file itself as it was, as it should be, or not at all | 3 names for 2 entries, one of them across the border of two sectors, 9 sectors, 1 crash at any write |
| files: openfile, hostfile, copy | refinement of `ByteFile`; `-cp` and `-p` show the source, what was there before, or nothing | 0, 4 and 5 bytes in sectors of 2; 2 handles, 3 bytes; 0 to 7 bytes in pieces of up to 3 |
| programs: start | parts are used only while they live and deleted once, main does what was asked | all command lines of up to 3 of 7 words, both builds |
| programs: coff | a NOFF file that is produced describes and holds its sections, a failure leaves none | 2 sections of size 0 to 2 |
| programs: paging | tables agree, a fault is always handled, a read sees the last write | 7 frames of 2 bytes, 3 segments whose borders lie inside pages |
| programs: mips | unaligned words and calls across delay slots, precise exceptions (program counters, registers, memory), exact arithmetic, every encoding handled | all sequences of 4 from 14 instructions; 16 x 16 border operands; all selecting fields |
| programs: syscalls | the program goes on where it should, Write shows a string that fits, who has joined every Exec has no child left | 4 calls, 2 children, an array of 2 bytes, strings that fit and that do not |
| library: list, hash, bitmap | refinement of the abstract collection, no leak, a full iteration | 4 items, sorted or not; 6 items with colliding keys through 3 sizes; 7 bits in 3 words |
| library: text, runner | texts come back as they were; the report is complete, the summary agrees, test objects are fresh and deleted | every char, all pairs of 10 border chars; 2 groups of 2 tests, 2 runs |
| library: wrapper | after any crash of a test all results are shown and the run ends; after stops of the wrapper none is missing and none is wrong, but some may be shown as terminated | 2 groups of 2 tests, 2 crashes of the wrapper |
| starvation, limit, copy | violations, see below | 2, 2 and 1 threads |

The bounds.  Three threads make one that runs, one that is ready and one that
sleeps; the fourth lets two finished or two woken threads meet.  Freed thread
objects are reused, so histories are not bounded by the number of threads,
except that `MaxThreadNum` counts constructions with a priority.  `MaxValue` is
2: a second V arrives before the first woken thread runs.  Sizes that the code
fixes (sectors, pages, words, tables) are constants here, chosen so that
borders fall inside the units and every limit is reached.  (With 3 directory
entries the files run has 30 times the states, and no error either.)  `MaxTicks`,
`MaxStamp`, `MaxCalls`, `MaxRuns`, `MaxCrashes`, `MaxStops`, `MaxJournal` and
`Kills` cut histories off after the interesting cases.  Deadlock is not checked
where the system may stop: at such a bound, at the end of a program or its
input, after an abort, or when all clients wait on a condition.

Fairness.  `Threads!FairSpec` assumes that the CPU keeps executing and that the
timer, which re-arms itself in `Timer::SetInterrupt`, keeps firing while time
passes (user programs are left out of this run: `Threads` has no bound on the
page faults of one instruction); `DeliveredInTime` shows the latter for the
clock of `Interrupts`. `MonitorFairSpec` and `SynchList!FairSpec` assume that a
thread inside an operation is scheduled again, which the run `fair` shows for
threads of one priority, and `MonitorFairSpec` also that a thread with the lock
releases it. `ConsumersServed` further asks that Apply is not called without
end: each call can take the lock from a woken consumer, in the code too.  In
`Devices`, console and network do not stop while there is a thread to schedule,
an interrupt pending or input to be polled; losing a packet, typing and
stopping a machine are never forced.  In `Files` and `Library` a sequential
program goes on; that someone stops it is never forced.

## Disagreements found

Shown by a run:

- `starvation`: the comment of `Thread::Yield` says the thread "will eventually
  be re-scheduled"; with strict priorities it need not be.
- `limit`: the message of the constructor speaks of threads that exist at the
  same time; `threadNum` counts all that were ever built.
- `copy`: `interrupt.h` says that kernel code runs in SystemMode; after a page
  fault in `SysWrite`'s `ReadMem`, `RaiseException` leaves UserMode behind.

Met while modelling; the models have them, and a property that holds states
where they do not matter:

- `exception.cc` writes a dirty page back to the file at another place than it
  is read from.  `ReadSeesWrite` holds because the pages of the other address
  space always go first.
- `exception.cc` uses `vir` uninitialized if there is a free frame.
  `TablesAgree` shows that there is none while a program runs.
- Add in a delay slot goes on at PC + 4 and not at the target of the branch;
  the other calls go on where they should.  A Write of a buffer without a zero
  byte in its first 128 bytes writes behind `SysWrite`'s array, where anything
  may follow.  `CallIsServed` excepts both.
- `SysExec` returns -1 whether there is a child or not, since `pid` is the value
  of a comparison.  `JoinAwaitsExec` holds because -1 is any child to waitpid.
  Join then returns the number of the child; `syscall.h` says its exit status.
- A stop between the writes of the two sectors of the directory can leave the
  new header under the name that an earlier file left in the entry at their
  border.  `CrashIsContained` allows this, and only there.
- A stop of the test wrapper between the two lines of a result makes every later
  start end in an exception (`Torn`); `ShowsAll` excepts it.
- Two machines whose sockets are full block each other; the traffic of
  `NetworkTest` fits.
- At the end of input one reader of the console is told; a second one waits
  forever.
- `coff2noff.c` tests `fdIn` again after it has opened the output; the failure
  shows at the first write, and no file is left.
- ctl-C while `Halt` deletes the kernel deletes parts twice.

## Proofs

A run shows a property on one small instance; the theorems hold for every value
of the constants that satisfies the assumption named in the theorem or in its
module.  The assumptions say what the code's constants satisfy: sizes, ticks
and limits are positive, the program fits into memory, no thread or mail is
NULL.  `SemaphoreAssumption`, `SynchListAssumption` and `ConsoleKeys` also make
the set of threads finite.

- `SchedulerProofs`, `ThreadsProofs` (`ReadyList`, `Threads`): Insert keeps a
  list sorted and free of duplicates and adds exactly the item; the front has
  the highest priority.  `IInv` is inductive, and implies `TypeOK`,
  `ReadyListConsistent`, `DestroySafe`, `NoDanglingThread`,
  `InterruptsEnabled`, `NoStaleYield`, `ModeMatches` and `UserContext`;
  `PriorityRespected` and `NoOvertaking` are action properties that follow from
  it.  None of these is inductive alone.  `IInv` adds where every thread can be
  (`PlaceInv`: what each `pc` says about status and queues), which threads
  wait, that only a finished thread is to be destroyed, and what a switched-out
  thread will find (`IntInv`, `ModeInv`, `UserInv`: the saved level is IntOn,
  the saved status is that of the interrupted code, the saved registers are its
  own).
- `SemaphoresProofs`: `SemSpec` implements `Threads!Spec`, values are natural,
  queues match sleepers (`QueueConsistent`), and `NoLostWakeup`, which needs
  that a thread outside of P wants nothing, and that every queue agrees with
  `waiting`.
- `KernelProofs` (`Monitor`, `SynchList`, `KernelStart`): mutual exclusion,
  `NoSignalLost` and the refinement of `MesaMonitor`.  Mutual exclusion does
  not say that who is queued sleeps, nor that a thread is queued only once, so
  it is not inductive.  `MonInv` adds that the lock's semaphore is 1 exactly
  when nobody owns the lock, that `lockHolder` names the owner, and that the
  queues have no duplicates and the lock's queue only sleepers.  For the list:
  types, `ItemsHaveTakers` and that Append is atomic, from `MonInv`, since
  every step is one of `Monitor`, and `OpInv`, which ties the place of a thread
  in the monitor to its operation: only consumers wait, and a producer between
  its Signal and its Release has the lock. For the start and the end of the
  kernel: `PartsAreLive`.  It does not tell how far main has come; `KernelInv`
  says that the parts that live are the first ones made, without those that
  Halt or the ctl-C handler has deleted, and that the deletions follow the
  order of the destructor.
- `DeviceProofs` (`SynchDevice`, `SynchDisk`, `Console`, `CoffToNoff`): one
  request at a time on the disk and on the display, the refinement of
  `SectorStore` across crashes, and, for the console, that no key is
  overwritten, that every key is in one place (`NoKeyLost`), and that EOF is
  the end (`EofIsTheEnd`). `DeviceInv`, shared by disk and display, says that
  who is past Acquire has the lock, and that semaphore and device together hold
  exactly the one interrupt that the waiting thread needs.  `KeyboardInv` says
  the same of the keyboard: from the interrupt to GetChar no poll is pending.
  `EndInv` says that EOF in the device means that nothing is left to read.  It
  needs `PlainText`, that the input has no byte 0xFF, which the code cannot
  tell from EOF; the inputs of the run have none either.  `Balance` counts each
  character through input, device, threads and display.  For coff2noff:
  `NoffIsFaithful`.  It speaks only of the end; `CoffInv` says it of the
  sections copied so far, that the segments written lie one behind the other
  below `inNoffFile`, and that the output's position is there, so that the next
  section overwrites none.
- `MachineProofs` (`Interrupts`, `Disk`, `SystemCalls`): `DeliveredInTime`,
  `LatencyIsPhysical`, `CallIsServed` and `JoinAwaitsExec`.  `ClockInv` adds
  that in kernel and user code nothing is due, that while handlers run the first of the
  list is, that no interrupt is a tick or more late, and that the timer's is
  always pending, which is why Idle finds one.  It needs `NoOverflow`: within
  `MaxTicks` the clock, an int, and the delays added to it stay below the
  largest int.  `DiskTimeInv` says what `bufferInit` means: the first start of
  a sector after the head came to its track.  That the closed formula with
  `ModuloDiff` is the first pass of the sector rests on lemmas about quotients
  and remainders (`RoundUp`, `Difference`, `FirstPassAt`).  `CallInv` adds that
  while a call is served the registers are those of the trap; the loop of Write
  ends at its first turn that finds a zero byte or the end (`TurnsIsFirst`), and
  so within the array and without a fault if there is a string
  (`LoopReadsString`).  `JoinInv` adds to `JoinAwaitsExec` that the children are
  finitely many: Exec adds at most one to both sides, and a Join of -1 takes
  one from each, or finds no child.
- `NetworkProofs` (`PostOffice`): `InOrder`, which is one send at a time
  (`OneSendAtATime`), the worker in step with the device (`WorkerInStep`), both
  from `PostInv`, and the order of the mail (`MailInOrder`).  The order is kept
  by all that is on the way to a machine taken together, from the socket
  through device and worker to what has arrived, which `OrderInv` treats as one
  sequence; a loss leaves an element out, and SendToSocket tries again only
  what it did not send.
- `ProgramProofs` (`Paging`): `TablesAgree` and `ReadSeesWrite`.  They hold for
  a reason that neither states (`UseInv`): as long as a page of the running
  space has no frame, some frame belongs to the space that does not run and has
  no uses, so the handler takes that one; no dirty page ever loses its frame.
  That there is such a frame is a count, because a page table has as many
  entries as there are frames.

`TypeOK`, `InterruptsEnabled`, `NoStaleYield`, `SemTypeOK`, `QueueConsistent`,
`MutualExclusion` and `AppendIsAtomic` are proved and not part of a run of
their own; the console's properties are conjuncts of `EchoEnds`.  Two facts about
numbers (`LeastExists`, `AsManyFramesAsPages`) are carried through the proofs
as assumptions and proved at the end of their module, where the library
theorems that they rest on are instantiated.

Only model-checked, and why:

- liveness (`ReadyRuns`, `SignalledRuns`, `ConsumersServed`, `EchoEnds`,
  `TestsEnd`, the ends of the runs of `Library`): fairness is outside of the
  prover's reach;
- `DoesWhatWasAsked`, `RoundTrip`, `RunIsComplete`, `NoneMissing`, and the
  collections: what is folded, selected or linked from sequences of any length
  needs an induction over data, which the prover cannot instantiate;
- `Mips`: the bits of words and the decoding are recursive;
- the file system: its invariants range over maps, directories and headers on
  the same sectors between any two writes.  They are inductive only with what
  every interrupted operation leaves behind; TLC enumerates those states.

## Not modelled

- The shell and its library of host calls (`shell/`): a user program whose
  calls wrap one or two calls of the host and share no state with the kernel.
- The single-step debugger of `-s`, the trace of instructions, debug output,
  statistics, and wrappers of single host calls: they print.
- The assembly of the switch: in `Threads` a switch changes the current thread
  and goes on where the other one left off; host registers are not modelled.
- The C++ examples, and the test programs, which are inputs of the simulator.
- Concurrent calls of the disk file system, which its comments exclude, and a
  stop while the file of the disk is first created.
- The composition of `Paging`, `SystemCalls` and `Mips` with `Threads`: each is
  checked on its own, and `Threads` has their switches and page faults as steps
  that may come at any time.
