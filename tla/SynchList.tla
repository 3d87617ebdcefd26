------------------------------ MODULE SynchList ------------------------------
(***************************************************************************)
(* The synchronized list of threads/synchlist.cc: a List (lib/list.cc)     *)
(* guarded by the lock and the condition of Monitor.  Producers append,    *)
(* consumers take from the front and wait while the list is empty.         *)
(***************************************************************************)
EXTENDS Monitor

CONSTANTS
  Item,      \* the things that are put on the list
  Operation  \* the operations that the threads call

ASSUME SynchListAssumption ==
  /\ IsFiniteSet(Thread)
  /\ NULL \notin Item
  /\ Operation \subseteq {"Append", "RemoveFront", "Apply"}

VARIABLES
  list,    \* SynchList::list
  op,      \* the operation that a thread is in, or "none"
  item,    \* its argument or, after RemoveFront, its result
  aborted  \* an ASSERT of List has failed

vars == <<monitorVars, list, op, item, aborted>>

Op == {"none", "Append", "Appended", "RemoveFront", "Apply"}

Init ==
  /\ MonitorInit
  /\ list = <<>>
  /\ op = [t \in Thread |-> "none"]
  /\ item = [t \in Thread |-> NULL]
  /\ aborted = FALSE

-----------------------------------------------------------------------------
(* The call of an operation: its Lock::Acquire. *)
Start(t, name, x) ==
  /\ op[t] = "none"
  /\ Acquire(t)
  /\ op' = [op EXCEPT ![t] = name]
  /\ item' = [item EXCEPT ![t] = x]
  /\ UNCHANGED <<list, aborted>>

(* Mutant: Append signals only when the list was empty. *)
SignalIfEmpty(t) ==
  /\ op[t] = "Append"
  /\ item[t] \notin Range(list)
  /\ IF list = <<>> THEN Signal(t)
                    ELSE pc[t] = "in" /\ UNCHANGED monitorVars
  /\ list' = Append(list, item[t])
  /\ op' = [op EXCEPT ![t] = "Appended"]
  /\ UNCHANGED <<item, aborted>>

(* SynchList::Append: List::Append, and the Signal. *)
Append1(t) ==
  /\ op[t] = "Append"
  /\ item[t] \notin Range(list)
  /\ Signal(t)
  /\ list' = Append(list, item[t])
  /\ op' = [op EXCEPT ![t] = "Appended"]
  /\ UNCHANGED <<item, aborted>>

(* List::Append aborts the program when the item is already there. *)
AppendAborts(t) ==
  /\ pc[t] = "in"
  /\ op[t] = "Append"
  /\ item[t] \in Range(list)
  /\ aborted' = TRUE
  /\ UNCHANGED <<monitorVars, list, op, item>>

(* The end of Append, and all of Apply: Lock::Release. *)
Append2(t) ==
  /\ op[t] \in {"Appended", "Apply"}
  /\ Release(t)
  /\ op' = [op EXCEPT ![t] = "none"]
  /\ UNCHANGED <<list, item, aborted>>

(* SynchList::RemoveFront when the list is empty. *)
RemoveWaits(t) ==
  /\ op[t] = "RemoveFront"
  /\ list = <<>>
  /\ Wait(t)
  /\ UNCHANGED <<list, op, item, aborted>>

(* SynchList::RemoveFront when it is not. *)
RemoveFront(t) ==
  /\ op[t] = "RemoveFront"
  /\ list # <<>>
  /\ Release(t)
  /\ list' = Tail(list)
  /\ item' = [item EXCEPT ![t] = Head(list)]
  /\ op' = [op EXCEPT ![t] = "none"]
  /\ UNCHANGED aborted

(* The steps of t in an operation that it has called. *)
Step(t) ==
  /\ ~aborted
  /\ \/ Continue(t) /\ UNCHANGED <<list, op, item, aborted>>
     \/ Append1(t)
     \/ AppendAborts(t)
     \/ Append2(t)
     \/ RemoveWaits(t)
     \/ RemoveFront(t)

Next ==
  \E t \in Thread :
    \/ /\ ~aborted
       /\ \/ \E x \in Item : "Append" \in Operation /\ Start(t, "Append", x)
          \/ \E name \in Operation \ {"Append"} : Start(t, name, NULL)
    \/ Step(t)

Spec == Init /\ [][Next]_vars

(* A thread in an operation is scheduled eventually. *)
FairSpec == Spec /\ \A t \in Thread : WF_vars(Step(t))

-----------------------------------------------------------------------------
(* Properties.                                                              *)

TypeOK ==
  /\ MonitorTypeOK
  /\ list \in Seq(Item)
  /\ op \in [Thread -> Op]
  /\ item \in [Thread -> Item \cup {NULL}]
  /\ aborted \in BOOLEAN

(* The consumers that were signalled and have not yet looked at the list. *)
Signalled ==
  {t \in Thread :
     /\ op[t] = "RemoveFront"
     /\ t \notin Range(waitQueue)
     /\ pc[t] # "out"}

(* No consumer is left waiting for an item that is there for it: while one *)
(* waits, every item of the list has a consumer on its way to take it.     *)
ItemsHaveTakers ==
  waitQueue # <<>> => Len(list) <= Cardinality(Signalled)

(* The lock protects the list across the whole of an operation: between the *)
(* Signal of Append and its Release nobody else changes the list.           *)
AppendIsAtomic ==
  [][\A t \in Thread : op[t] = "Appended" => list' = list]_vars

(* A consumer that waits while there are items does not wait forever, unless *)
(* other consumers take them all first, or Apply is called without end: each *)
(* call can take the lock away from a woken consumer.                        *)
ConsumersServed ==
  <>[](\A t \in Thread : op[t] # "Apply") =>
    \A t \in Thread :
      (pc[t] = "asleep" /\ list # <<>>) ~> (pc[t] # "asleep" \/ list = <<>> \/ aborted)
=============================================================================
