----------------------------- MODULE Interrupts -----------------------------
(***************************************************************************)
(* Simulated time: the clock, the list of pending interrupts, and the loop *)
(* that calls their handlers (machine/interrupt.cc), with the timer that   *)
(* re-arms itself (machine/timer.cc, threads/alarm.cc), devices that       *)
(* interrupt once per request (disk, display, network output) and devices  *)
(* that poll until there is input (keyboard, network input).               *)
(*                                                                         *)
(* Which thread runs is the subject of Threads; here "code" is any kernel  *)
(* or user code with the interrupts enabled.                               *)
(***************************************************************************)
EXTENDS ReadyList

CONSTANTS
  SystemTick, UserTick, TimerTicks,  \* the constants of stats.h
  Requested,    \* the devices that interrupt once for every request
  Polling,      \* the devices that poll for input
  Delay,        \* how long the devices may take
  Randomize,    \* Timer::randomize
  IntMax,       \* the largest int
  MaxTicks      \* bound on the time, for model checking

InterruptAssumption ==
  /\ {SystemTick, UserTick, TimerTicks, MaxTicks, IntMax} \subseteq Nat \ {0}
  /\ UserTick <= SystemTick
  /\ Delay \subseteq Nat \ {0}
  /\ "timer" \notin Requested \cup Polling
  /\ Randomize \in BOOLEAN

VARIABLES
  now,            \* the time that has really passed
  totalTicks,     \* Statistics::totalTicks, an int
  pending,        \* Interrupt::pending
  status,         \* Interrupt::status
  yieldOnReturn,  \* Interrupt::yieldOnReturn
  intPlace,          \* "code", "handlers" in the loop of CheckIfDue, "halted"
  intFailed          \* the ASSERT of Schedule has failed

interruptVars == <<now, totalTicks, pending, status, yieldOnReturn, intPlace, intFailed>>

(* Addition of ints, which wraps around in the build. *)
Plus(a, b) == ((a + b + IntMax + 1) % (2 * IntMax + 2)) - IntMax - 1

(* A PendingInterrupt; "due" is the time at which it ought to occur. *)
Entry(dev, fromNow) == [type |-> dev, when |-> Plus(totalTicks, fromNow), due |-> now + fromNow]

(* Mutant: the list is not kept in order. *)
InsertLast(list, x) == Append(list, x)

(* SortedList::Insert with PendingCompare: in front of the first that is later. *)
InsertByTime(list, x) ==
  LET later == {i \in 1 .. Len(list) : list[i].when > x.when}
  IN  InsertAt(list, FirstPlace(later, Len(list) + 1), x)

(* Interrupt::Schedule *)
Schedule(list, dev, fromNow) ==
  /\ pending' = InsertByTime(list, Entry(dev, fromNow))
  /\ intFailed' = (fromNow <= 0)

(* The delays that Timer::SetInterrupt chooses from. *)
TimerDelays == IF Randomize THEN 1 .. 2 * TimerTicks ELSE {TimerTicks}

(* No interrupt is due at a time that an int cannot hold: what is true of    *)
(* the clock as long as the machine does not run for 2^31 ticks.             *)
NoOverflow == \A d \in Delay \cup TimerDelays \cup {0} : MaxTicks + d <= IntMax

InitInterrupts ==
  /\ now = 0
  /\ totalTicks = 0
  /\ \E d \in TimerDelays : pending = <<[type |-> "timer", when |-> d, due |-> d]>>
  /\ status = "SystemMode"
  /\ yieldOnReturn = FALSE
  /\ intPlace = "code"
  /\ intFailed = FALSE

Due(list, ticks) == list # <<>> /\ Head(list).when <= ticks

-----------------------------------------------------------------------------
(* A request to a device by kernel code, and the one that GetChar or Receive *)
(* makes to poll for the next input.                                         *)
RequestInterrupt(dev) ==
  /\ intPlace = "code"
  /\ status = "SystemMode"
  /\ dev \notin {pending[i].type : i \in DOMAIN pending}
  /\ \E d \in Delay : Schedule(pending, dev, d)
  /\ UNCHANGED <<now, totalTicks, status, yieldOnReturn, intPlace>>

(* Interrupt::setStatus, around system calls and exceptions. *)
SetStatus ==
  /\ intPlace = "code"
  /\ status' = IF status = "SystemMode" THEN "UserMode" ELSE "SystemMode"
  /\ UNCHANGED <<now, totalTicks, pending, yieldOnReturn, intPlace, intFailed>>

(* Interrupt::OneTick, to the call of the first handler if one is due. *)
OneTick ==
  LET tick == IF status = "SystemMode" THEN SystemTick ELSE UserTick IN
  /\ intPlace = "code"
  /\ now + tick <= MaxTicks
  /\ now' = now + tick
  /\ totalTicks' = Plus(totalTicks, tick)
  /\ intPlace' = IF Due(pending, totalTicks') THEN "handlers" ELSE "code"
  /\ UNCHANGED <<pending, status, yieldOnReturn, intFailed>>

(* Interrupt::Idle: the clock moves on to the next interrupt; without one    *)
(* the machine halts.                                                        *)
Idle ==
  /\ intPlace = "code"
  /\ status = "SystemMode"
  /\ IF pending = <<>>
     THEN /\ intPlace' = "halted"
          /\ UNCHANGED <<now, totalTicks>>
     ELSE LET wait == IF Due(pending, totalTicks) THEN 0 ELSE Head(pending).when - totalTicks IN
          /\ now + wait <= MaxTicks
          /\ now' = now + wait
          /\ totalTicks' = IF Due(pending, totalTicks) THEN totalTicks ELSE Head(pending).when
          /\ intPlace' = "handlers"
  /\ status' = "IdleMode"
  /\ UNCHANGED <<pending, yieldOnReturn, intFailed>>

(* Alarm::CallBack asks for a yield unless the CPU idles. *)
AlarmCallBack == yieldOnReturn' = (yieldOnReturn \/ status # "IdleMode")

(* Timer::CallBack: the handler, and SetInterrupt for the next interrupt. *)
TimerCallBack ==
  /\ Head(pending).type = "timer"
  /\ \E d \in TimerDelays : Schedule(Tail(pending), "timer", d)
  /\ AlarmCallBack

(* The CallBack of a device: one that polls and finds nothing polls again. *)
DeviceCallBack ==
  /\ \/ /\ Head(pending).type \in Requested \cup Polling
        /\ pending' = Tail(pending)
        /\ UNCHANGED intFailed
     \/ /\ Head(pending).type \in Polling
        /\ \E d \in Delay : Schedule(Tail(pending), Head(pending).type, d)
  /\ UNCHANGED yieldOnReturn

(* The end of the loop of CheckIfDue. *)
Leave ==
  /\ intPlace' = IF Due(pending', totalTicks') THEN "handlers" ELSE "code"
  /\ status' = IF status = "IdleMode" /\ ~Due(pending', totalTicks') THEN "SystemMode" ELSE status

(* One round of the loop of CheckIfDue. *)
Handler ==
  /\ intPlace = "handlers"
  /\ TimerCallBack \/ DeviceCallBack
  /\ UNCHANGED <<now, totalTicks>>
  /\ Leave

(* OneTick carries out the yield that a handler asked for. *)
YieldTaken ==
  /\ intPlace = "code"
  /\ yieldOnReturn
  /\ yieldOnReturn' = FALSE
  /\ UNCHANGED <<now, totalTicks, pending, status, intPlace, intFailed>>

NextInterrupts ==
  /\ ~intFailed
  /\ \/ /\ ~yieldOnReturn \/ intPlace # "code"
        /\ \/ \E dev \in Requested \cup Polling : RequestInterrupt(dev)
           \/ SetStatus
           \/ OneTick
           \/ Idle
           \/ Handler
     \/ YieldTaken

SpecInterrupts == InitInterrupts /\ [][NextInterrupts]_interruptVars

-----------------------------------------------------------------------------
(* Properties.                                                              *)

(* An interrupt is delivered in the order of time, at most one SystemTick  *)
(* late, and never early; when CheckIfDue returns to thread code none is   *)
(* overdue, however many fell due in the same tick and whatever the        *)
(* handlers scheduled.  The ASSERT of Schedule holds for every delay, and  *)
(* the timer re-arms itself, so that Idle never finds nothing and halts.   *)
DeliveredInTime ==
  /\ ~intFailed
  /\ intPlace # "halted"
  /\ intPlace = "code" => \A i \in DOMAIN pending : pending[i].due > now
  /\ intPlace = "handlers" =>
       LET d == Head(pending).due IN
       /\ now - SystemTick < d /\ d <= now
       /\ \A i \in DOMAIN pending : d <= pending[i].due
=============================================================================
