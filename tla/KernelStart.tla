---------------------------- MODULE KernelStart -----------------------------
(***************************************************************************)
(* main, and the making and unmaking of the kernel: src/code/threads/      *)
(* main.cc, kernel.cc.  The command line is read twice, by main and by the *)
(* Kernel constructor; then the kernel's parts are made one by one, what   *)
(* was asked for is done, and Halt deletes the parts.  ctl-C may come at   *)
(* any moment.  What the parts do is the other modules' business: here an  *)
(* operation is the set of parts it goes through the global "kernel" to.   *)
(***************************************************************************)
EXTENDS Integers, Sequences, Functions, TLC

CONSTANTS
  Words,         \* the words a command line may be made of
  MaxArgs        \* bound: the words on the command line

VARIABLES
  stub,          \* FILESYS_STUB: the build's files are the host's, without a Nachos disk
  args,          \* argv[1..argc-1]
  argument,      \* the reader's position
  taken,         \* the options each reader has acted on
  mainAt,        \* where main is
  live,          \* the parts that are made and not deleted
  turn,          \* how far Initialize, main's jobs or a deletion has come
  done,          \* the jobs done
  using,         \* the parts the present operation goes through
  handler,       \* how far ctl-C's delete has come: 0 when there was none
  freed          \* the parts deleted, with repetitions

kernelVars == <<stub, args, argument, taken, mainAt, live, turn, done, using, handler, freed>>

(* The options each reader knows, and the words it takes after each.         *)
FileOptions ==
  ("-cp" :> 2) @@ ("-p" :> 1) @@ ("-r" :> 1) @@ ("-l" :> 0) @@ ("-D" :> 0)

MainOptions ==
  ("-d" :> 1) @@ ("-z" :> 0) @@ ("-x" :> 1) @@ ("-K" :> 0) @@ ("-C" :> 0)
  @@ ("-N" :> 0) @@ ("-u" :> 0) @@ (IF stub THEN << >> ELSE FileOptions)

KernelOptions ==
  ("-rs" :> 1) @@ ("-s" :> 0) @@ ("-ci" :> 1) @@ ("-co" :> 1) @@ ("-n" :> 1)
  @@ ("-m" :> 1) @@ ("-u" :> 0) @@ (IF stub THEN << >> ELSE ("-f" :> 0))

(* The parts in the order Initialize makes them.                            *)
Parts == <<"currentThread", "stats", "interrupt", "scheduler", "alarm", "machine",
           "synchConsoleIn", "synchConsoleOut", "synchDisk", "fileSystem",
           "postOfficeIn", "postOfficeOut">>

(* The parts ~Kernel deletes: all but the thread it is running on.           *)
Deleted == Tail(Parts)

(* A disk request and the wait for its interrupt: the lock and the           *)
(* semaphore, the disk's timing, Sleep, Idle, and the timer and console      *)
(* handlers that fall due meanwhile.                                        *)
DiskIO == {"synchDisk", "currentThread", "stats", "interrupt", "scheduler", "machine"}

(* What a part's constructor reaches through "kernel".                      *)
Reaches(part) ==
  CASE part \in {"alarm", "synchConsoleIn"} -> {"interrupt", "stats"}
    [] part = "fileSystem" -> IF stub THEN {} ELSE DiskIO
    [] part = "postOfficeIn" -> {"interrupt", "stats", "scheduler"}
    [] OTHER -> {}

(* What main does for an option, in the order of its if statements, and the  *)
(* parts that goes through.                                                 *)
Jobs == <<"-K", "-C", "-N", "-r", "-cp", "-D", "-l", "-p", "-x">>

Needs(job) ==
  LET Threading == {"currentThread", "stats", "interrupt", "scheduler", "machine"} IN
  CASE job = "-K" -> Threading
    [] job = "-C" -> Threading \cup {"synchConsoleIn", "synchConsoleOut"}
    [] job = "-N" -> Threading \cup {"postOfficeIn", "postOfficeOut"}
    [] OTHER -> {"fileSystem", "currentThread", "interrupt", "stats", "machine"}
                \cup (IF stub THEN {} ELSE DiskIO)

InitKernel ==
  /\ stub \in BOOLEAN
  /\ args \in UNION {[1..k -> Words] : k \in 0..MaxArgs}
  /\ argument = 1 /\ taken = [main |-> {}, kernel |-> {}]
  /\ mainAt = "main" /\ live = {} /\ turn = 1 /\ done = << >> /\ using = {}
  /\ handler = 0 /\ freed = << >>

Undisturbed == handler = 0

(* Mutant: the words an option takes are left to be read as options. *)
ReadArg_KeepsArgument(reader, options) ==
  /\ Undisturbed /\ mainAt = reader /\ argument <= Len(args)
  /\ \/ /\ args[argument] \notin DOMAIN options
        /\ argument' = argument + 1 /\ UNCHANGED <<taken, mainAt>>
     \/ /\ args[argument] \in DOMAIN options
        /\ argument + options[args[argument]] > Len(args)
        /\ mainAt' = "aborted" /\ UNCHANGED <<argument, taken>>
     \/ /\ args[argument] \in DOMAIN options
        /\ argument + options[args[argument]] <= Len(args)
        /\ taken' = [taken EXCEPT ![reader] = @ \cup {args[argument]}]
        /\ argument' = argument + 1
        /\ UNCHANGED mainAt
  /\ UNCHANGED <<args, live, turn, done, using, handler, freed>>

(* One turn of a reader's loop: a word it does not know is skipped, and an    *)
(* option at the end without its words fails the ASSERT.                     *)
ReadArg(reader, options) ==
  /\ Undisturbed /\ mainAt = reader /\ argument <= Len(args)
  /\ \/ /\ args[argument] \notin DOMAIN options
        /\ argument' = argument + 1 /\ UNCHANGED <<taken, mainAt>>
     \/ /\ args[argument] \in DOMAIN options
        /\ argument + options[args[argument]] > Len(args)
        /\ mainAt' = "aborted" /\ UNCHANGED <<argument, taken>>
     \/ /\ args[argument] \in DOMAIN options
        /\ argument + options[args[argument]] <= Len(args)
        /\ taken' = [taken EXCEPT ![reader] = @ \cup {args[argument]}]
        /\ argument' = (argument + 1) + options[args[argument]]
        /\ UNCHANGED mainAt
  /\ UNCHANGED <<args, live, turn, done, using, handler, freed>>

(* main has read the line and makes the Kernel, whose constructor reads it    *)
(* again.                                                                   *)
MainReads == ReadArg("main", MainOptions)
KernelReads == ReadArg("kernel", KernelOptions)
EndOfLine ==
  /\ Undisturbed /\ mainAt \in {"main", "kernel"} /\ argument > Len(args)
  /\ mainAt' = IF mainAt = "main" THEN "kernel" ELSE "initialize"
  /\ argument' = 1
  /\ UNCHANGED <<args, taken, live, turn, done, using, handler, freed>>

(* Mutant: the file system is made before the disk it reads. *)
Initialize_FilesFirst ==
  /\ Undisturbed /\ mainAt = "initialize"
  /\ \/ /\ turn <= Len(Parts)
        /\ LET part == CASE turn = 9 -> "fileSystem" [] turn = 10 -> "synchDisk"
                         [] OTHER -> Parts[turn] IN
           /\ using' = Reaches(part)
           /\ live' = live \cup {part}
        /\ turn' = turn + 1 /\ UNCHANGED mainAt
     \/ /\ turn > Len(Parts)
        /\ mainAt' = "jobs" /\ turn' = 1 /\ using' = {"interrupt"} /\ UNCHANGED live
  /\ UNCHANGED <<args, argument, taken, done, handler, freed>>

(* Kernel::Initialize, part by part; the last step turns interrupts on and    *)
(* main arranges for ctl-C.                                                 *)
Initialize ==
  /\ Undisturbed /\ mainAt = "initialize"
  /\ \/ /\ turn <= Len(Parts)
        /\ using' = Reaches(Parts[turn])
        /\ live' = live \cup {Parts[turn]}
        /\ turn' = turn + 1 /\ UNCHANGED mainAt
     \/ /\ turn > Len(Parts)
        /\ mainAt' = "jobs" /\ turn' = 1 /\ using' = {"interrupt"} /\ UNCHANGED live
  /\ UNCHANGED <<args, argument, taken, done, handler, freed>>

(* main's if statements.  The user program, once both address spaces are      *)
(* loaded, never returns; when either cannot be loaded main goes on to Halt. *)
DoJob ==
  /\ Undisturbed /\ mainAt = "jobs" /\ turn <= Len(Jobs)
  /\ turn' = turn + 1
  /\ \/ /\ Jobs[turn] \in taken.main
        /\ done' = Append(done, Jobs[turn]) /\ using' = Needs(Jobs[turn])
        /\ mainAt' \in (IF Jobs[turn] = "-x" THEN {"jobs", "user"} ELSE {"jobs"})
     \/ /\ Jobs[turn] \notin taken.main
        /\ UNCHANGED <<done, using, mainAt>>
  /\ UNCHANGED <<args, argument, taken, live, handler, freed>>

(* Interrupt::Halt, called by main or by the user program: the statistics     *)
(* are printed and the kernel deleted.                                      *)
Halt ==
  /\ Undisturbed
  /\ mainAt = "user" \/ (mainAt = "jobs" /\ turn > Len(Jobs))
  /\ mainAt' = "deleting" /\ turn' = 1 /\ using' = {"stats"}
  /\ UNCHANGED <<args, argument, taken, live, done, handler, freed>>

(* One delete of ~Kernel, which uses the part it deletes.                    *)
Delete(k) ==
  /\ using' = {Deleted[k]}
  /\ live' = live \ {Deleted[k]}
  /\ freed' = Append(freed, Deleted[k])

(* ~Kernel on behalf of Halt, up to Exit(0). *)
HaltDeletes ==
  /\ Undisturbed /\ mainAt = "deleting"
  /\ \/ /\ turn <= Len(Deleted) /\ Delete(turn)
        /\ turn' = turn + 1 /\ UNCHANGED mainAt
     \/ /\ turn > Len(Deleted)
        /\ mainAt' = "exit" /\ UNCHANGED <<turn, using, live, freed>>
  /\ UNCHANGED <<args, argument, taken, done, handler>>

(* ctl-C once main has arranged for it: Cleanup runs where main was stopped,   *)
(* and deletes the kernel there; Exit(0) keeps it from returning.            *)
Interrupted ==
  /\ Undisturbed /\ mainAt \in {"jobs", "user", "deleting"}
  /\ handler' = 1
  /\ UNCHANGED <<args, argument, taken, mainAt, live, turn, done, using, freed>>

CleanupDeletes ==
  /\ ~Undisturbed /\ mainAt # "exit"
  /\ \/ /\ handler <= Len(Deleted) /\ Delete(handler)
        /\ handler' = handler + 1 /\ UNCHANGED mainAt
     \/ /\ handler > Len(Deleted)
        /\ mainAt' = "exit" /\ UNCHANGED <<handler, using, live, freed>>
  /\ UNCHANGED <<args, argument, taken, turn, done>>

NextKernel ==
  /\ UNCHANGED stub
  /\ \/ MainReads \/ KernelReads \/ EndOfLine \/ Initialize \/ DoJob \/ Halt
     \/ HaltDeletes \/ Interrupted \/ CleanupDeletes

SpecKernel == InitKernel /\ [][NextKernel]_kernelVars

-----------------------------------------------------------------------------

(* The positions a reader sees as options: the least set that holds the first *)
(* and, with a position, the one after the word and what it takes.           *)
SeenAsOptions(options) ==
  LET after(k) == IF args[k] \in DOMAIN options THEN (k + 1) + options[args[k]] ELSE k + 1
      closed(P) == \A k \in P : k <= Len(args) => after(k) \in P
  IN  {k \in 1..Len(args) :
        \A P \in SUBSET (1..(Len(args) + 3)) : 1 \in P /\ closed(P) => k \in P}

Asked(options) == {args[k] : k \in SeenAsOptions(options)} \cap DOMAIN options

(* Once the kernel has come to its end by itself, main has done what the      *)
(* command line asked, each job once, whatever order the options came in:    *)
(* a file is removed before its successor is copied in, and copied in before *)
(* it is printed or run.                                                    *)
DoesWhatWasAsked ==
  mainAt = "exit" /\ Undisturbed =>
    done = SelectSeq(Jobs, LAMBDA job : job \in Asked(MainOptions))

(* "Must be called *after* synchDisk has been initialized" (filesys.h:70),    *)
(* and its like for every part: an operation before the deletions goes only  *)
(* through parts that have been made.  "Shut down Nachos cleanly"            *)
(* (interrupt.cc:231): at the exit every part but the running thread has     *)
(* been deleted, and none twice, unless ctl-C comes while Halt is deleting   *)
(* them already.                                                             *)
PartsAreLive ==
  /\ mainAt \in {"initialize", "jobs", "user"} /\ Undisturbed => using \subseteq live
  /\ mainAt = "exit" => live = {"currentThread"}
  /\ mainAt # "exit" /\ (mainAt = "deleting" => Undisturbed) => IsInjective(freed)
=============================================================================
