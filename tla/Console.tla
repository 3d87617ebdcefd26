------------------------------- MODULE Console -------------------------------
(***************************************************************************)
(* The console (machine/console.cc) and its synchronous interface          *)
(* (userprog/synchconsole.cc), used by threads that echo what is typed as  *)
(* Kernel::ConsoleTest does.                                               *)
(*                                                                         *)
(* The display follows SynchDevice.  The keyboard polls the host's file:   *)
(* a poll that finds nothing schedules the next one and changes nothing,   *)
(* so only the poll that finds something is a step.                        *)
(***************************************************************************)
EXTENDS SynchDevice, Sequences, FiniteSets

CONSTANTS
  Char,     \* what can be typed
  EOF,      \* the char -1, which is also the byte 0xFF of a file
  Texts     \* the inputs: sequences of Char, then the end of the file

ConsoleAssumption == DeviceAssumption /\ Texts \subseteq Seq(Char \cup {EOF}) /\ EOF \notin Char

VARIABLES
  text,      \* all that is typed
  typed,     \* what is left of it in the host's file
  incoming,  \* ConsoleInput::incoming
  polling,   \* a ConsoleReadInt is pending
  waitFor,   \* SynchConsoleInput::waitFor
  inHolder,  \* the holder of SynchConsoleInput::lock
  at,        \* where a thread is in ConsoleTest and GetChar, or "absent"
  ch,        \* its variable ch
  display    \* what has been put on the display

inputVars == <<text, typed, incoming, polling, waitFor, inHolder, at, ch>>
vars == <<deviceVars, inputVars, display>>

Init ==
  /\ DeviceInit
  /\ text \in Texts
  /\ typed = text
  /\ incoming = EOF
  /\ polling = TRUE
  /\ waitFor = 0
  /\ inHolder = NULL
  /\ \E users \in SUBSET Thread \ {{}} :
       at = [t \in Thread |-> IF t \in users THEN "acquire" ELSE "absent"]
  /\ ch = [t \in Thread |-> EOF]
  /\ display = <<>>

-----------------------------------------------------------------------------
(* ConsoleInput::CallBack when there is something to read, which may be the *)
(* end of the file; SynchConsoleInput::CallBack.                            *)
KeyCallBack ==
  /\ polling
  /\ polling' = FALSE
  /\ failed' = (failed \/ incoming # EOF)
  /\ IF typed = <<>>
     THEN UNCHANGED <<incoming, typed>>
     ELSE incoming' = Head(typed) /\ typed' = Tail(typed)
  /\ waitFor' = waitFor + 1
  /\ UNCHANGED <<text, inHolder, at, ch, display, lockHolder, semaphore, active, place>>

(* SynchConsoleInput::GetChar: lock->Acquire() *)
GetCharAcquire(t) ==
  /\ at[t] = "acquire"
  /\ inHolder = NULL
  /\ inHolder' = t
  /\ at' = [at EXCEPT ![t] = "wait"]
  /\ UNCHANGED <<deviceVars, text, typed, incoming, polling, waitFor, ch, display>>

(* waitFor->P() *)
GetCharP(t) ==
  /\ at[t] = "wait"
  /\ waitFor > 0
  /\ waitFor' = waitFor - 1
  /\ at' = [at EXCEPT ![t] = "get"]
  /\ UNCHANGED <<deviceVars, text, typed, incoming, polling, inHolder, ch, display>>

(* Mutant: GetChar does not schedule the next poll. *)
GetCharLast(t) ==
  /\ at[t] = "get"
  /\ ch' = [ch EXCEPT ![t] = incoming]
  /\ incoming' = EOF
  /\ inHolder' = NULL
  /\ at' = [at EXCEPT ![t] = IF incoming = EOF THEN "finished" ELSE "echo"]
  /\ UNCHANGED <<deviceVars, text, typed, polling, waitFor, display>>

(* ConsoleInput::GetChar and lock->Release(). *)
GetChar(t) ==
  /\ at[t] = "get"
  /\ ch' = [ch EXCEPT ![t] = incoming]
  /\ polling' = (polling \/ incoming # EOF)
  /\ incoming' = EOF
  /\ inHolder' = NULL
  /\ at' = [at EXCEPT ![t] = IF incoming = EOF THEN "finished" ELSE "echo"]
  /\ UNCHANGED <<deviceVars, text, typed, waitFor, display>>

(* SynchConsoleOutput::PutChar: the call, the lock, ConsoleOutput::PutChar, *)
(* the wait for the interrupt, and back to the loop of ConsoleTest.         *)
PutChar(t) ==
  /\ at[t] = "echo"
  /\ \/ /\ Enter(t) \/ Acquire(t) \/ P(t)
        /\ UNCHANGED <<inputVars, display>>
     \/ /\ Request(t)
        /\ display' = Append(display, ch[t])
        /\ UNCHANGED inputVars
     \/ /\ Release(t)
        /\ at' = [at EXCEPT ![t] = "acquire"]
        /\ ch' = [ch EXCEPT ![t] = EOF]
        /\ UNCHANGED <<text, typed, incoming, polling, waitFor, inHolder, display>>

(* ConsoleOutput::CallBack and SynchConsoleOutput::CallBack *)
PutCallBack == Interrupt /\ UNCHANGED <<inputVars, display>>

Echo(t) == GetCharAcquire(t) \/ GetCharP(t) \/ GetChar(t) \/ PutChar(t)

Next == KeyCallBack \/ PutCallBack \/ \E t \in Thread : Echo(t)

Spec == Init /\ [][Next]_vars

-----------------------------------------------------------------------------
(* Properties.                                                              *)

Count(x, s) == Cardinality({i \in DOMAIN s : s[i] = x})

(* Every key that was read from the host is in exactly one place: waiting   *)
(* in the device, in a thread on its way to the display, or displayed.      *)
(* None is overwritten before it is taken, or taken twice.                  *)
NoKeyLost ==
  \A c \in Char :
    Count(c, text) - Count(c, typed) =
      Count(c, display)
      + (IF incoming = c THEN 1 ELSE 0)
      + Cardinality({t \in Thread : ch[t] = c /\ at[t] = "echo" /\ place[t] \in {"out", "acquire", "request"}})

(* A reader is told EOF only when everything has been read: GetChar waits   *)
(* for the interrupt before it looks.                                       *)
EofIsTheEnd ==
  (\E t \in Thread : at[t] = "finished") => typed = <<>> /\ incoming = EOF

(* ConsoleTest ends and has echoed every character that was typed, and, when *)
(* one thread reads the console, in the order in which they were typed.      *)
EchoEnds ==
  <>[](/\ \E t \in Thread : at[t] = "finished"
       /\ \A c \in Char : Count(c, display) = Count(c, text)
       /\ Cardinality({t \in Thread : at[t] # "absent"}) = 1 => display = text)
=============================================================================
