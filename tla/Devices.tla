------------------------------ MODULE Devices ------------------------------
(***************************************************************************)
(* The simulated hardware and the kernel's drivers, for TLC: interrupts    *)
(* and the clock, the timing of the disk, the synchronous disk, the        *)
(* console, and two machines on the network.                               *)
(*                                                                         *)
(* The five modules share no variable: a behaviour of all of them is, to   *)
(* each, a behaviour of its own with other steps in between that leave it  *)
(* unchanged.  So each behaviour below has the steps of one of them, its   *)
(* "part", and the others stay where they start.                           *)
(***************************************************************************)
EXTENDS Interrupts, Disk, SynchDisk, PostOffice, TLC

CONSTANTS
  t1, t2, t3,    \* threads
  a, b,          \* machines
  x, y,          \* characters
  EOF

VARIABLES
  part,
  putLock, putSemaphore, putBusy, putPlace, consoleFailed,
  text, typed, incoming, polling, waitFor, inHolder, at, ch, display

C == INSTANCE Console
  WITH Thread <- {t1, t2}, Char <- {x, y}, Texts <- UNION {[1 .. n -> {x, y}] : n \in 0 .. 3},
       lockHolder <- putLock, semaphore <- putSemaphore, active <- putBusy,
       place <- putPlace, failed <- consoleFailed

-----------------------------------------------------------------------------
(* The machines on the network. *)
To(h, box) == [op |-> "send", to |-> h, box |-> box, reply |-> 1]
From(box) == [op |-> "receive", box |-> box]
Reply == [op |-> "reply"]

(* Kernel::NetworkTest, on a machine whose partner is far. *)
NetworkTest(far) == <<To(far, 0), From(0), Reply, From(1)>>

(* Both machines run NetworkTest; or two threads of a send to b, which      *)
(* answers once.                                                            *)
TwoScripts ==
  { (t1 :> NetworkTest(b)) @@ (t2 :> <<>>) @@ (t3 :> NetworkTest(a)),
    (t1 :> <<To(b, 0), From(1)>>) @@ (t2 :> <<To(b, 0)>>) @@ (t3 :> <<From(0), Reply>>) }

RunsOn == (t1 :> a) @@ (t2 :> a) @@ (t3 :> b)
OnlyBStops == (a :> 0) @@ (b :> 1)

ASSUME DevicesAssumption ==
  /\ InterruptAssumption /\ NoOverflow /\ DiskTimeAssumption /\ DiskAssumption
  /\ C!ConsoleAssumption /\ PostAssumption

-----------------------------------------------------------------------------
consoleVars ==
  <<putLock, putSemaphore, putBusy, putPlace, consoleFailed, text, typed, incoming,
    polling, waitFor, inHolder, at, ch, display>>
vars == <<part, interruptVars, diskVars, synchDiskVars, consoleVars, postVars>>

(* Every start of the part, one start of the others. *)
Init ==
  /\ part \in {"interrupts", "disk", "synchdisk", "console", "network"}
  /\ InitInterrupts /\ (part # "interrupts" => pending[1].due = 1)
  /\ InitDisk
  /\ InitSynchDisk /\ (part # "synchdisk" => file[1] = 0)
  /\ C!Init /\ (part # "console" => text = <<>> /\ \A t \in {t1, t2} : at[t] = "acquire")
  /\ InitPost /\ (part # "network" => script[t2] = <<>>)

Next ==
  /\ UNCHANGED part
  /\ \/ part = "interrupts" /\ NextInterrupts /\ UNCHANGED <<diskVars, synchDiskVars, consoleVars, postVars>>
     \/ part = "disk" /\ NextDisk /\ UNCHANGED <<interruptVars, synchDiskVars, consoleVars, postVars>>
     \/ part = "synchdisk" /\ NextSynchDisk /\ UNCHANGED <<interruptVars, diskVars, consoleVars, postVars>>
     \/ part = "console" /\ C!Next /\ UNCHANGED <<interruptVars, diskVars, synchDiskVars, postVars>>
     \/ part = "network" /\ NextPost /\ UNCHANGED <<interruptVars, diskVars, synchDiskVars, consoleVars>>

(* The console and the network do not stop as long as there is something to  *)
(* do: a thread to be scheduled, an interrupt that is pending, or input to   *)
(* be found by a poll.                                                       *)
Fairness ==
  /\ WF_consoleVars(part = "console" /\ C!Next)
  /\ WF_postVars(part = "network" /\ Work)

Spec == Init /\ [][Next]_vars /\ Fairness

-----------------------------------------------------------------------------
(* Properties.  The others are those of the modules: DeliveredInTime,         *)
(* LatencyIsPhysical, OneRequestAtATime, ImplementsStore and InOrder.         *)

(* ConsoleTest ends and has echoed what was typed; no character is           *)
(* overwritten, lost or taken twice on the way, a reader is told EOF only    *)
(* when all have been read, and the display has one request at a time.       *)
EchoEnds ==
  part = "console" =>
    C!EchoEnds /\ [](C!NoKeyLost /\ C!EofIsTheEnd /\ C!OneRequestAtATime)

(* NetworkTest ends unless a packet is lost or a machine stops. *)
TestsEnd == part = "network" => TestEnds
=============================================================================
