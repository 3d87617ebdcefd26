----------------------------- MODULE MesaMonitor -----------------------------
(***************************************************************************)
(* What threads/synch.h promises of a Lock and a Condition, without queues *)
(* and semaphores: one thread at a time has the lock, Wait gives the lock  *)
(* up and waits in one step, a signal lets one waiting thread try for the  *)
(* lock again, and the signalling thread keeps it (Mesa semantics).        *)
(***************************************************************************)
CONSTANT Thread

VARIABLE where  \* "out", "entering", "inside" or "waiting" for each thread

Init == where = [t \in Thread |-> "out"]

(* The lock is busy, and the thread has to wait for it. *)
Enter(t) ==
  /\ where[t] = "out"
  /\ where' = [where EXCEPT ![t] = "entering"]

Take(t) ==
  /\ where[t] \in {"out", "entering"}
  /\ \A u \in Thread : where[u] # "inside"
  /\ where' = [where EXCEPT ![t] = "inside"]

Release(t) ==
  /\ where[t] = "inside"
  /\ where' = [where EXCEPT ![t] = "out"]

Wait(t) ==
  /\ where[t] = "inside"
  /\ where' = [where EXCEPT ![t] = "waiting"]

(* Signal, or one round of Broadcast. *)
Signal(t, u) ==
  /\ where[t] = "inside"
  /\ where[u] = "waiting"
  /\ where' = [where EXCEPT ![u] = "entering"]

Next ==
  \E t \in Thread :
    \/ Enter(t)
    \/ Take(t)
    \/ Release(t)
    \/ Wait(t)
    \/ \E u \in Thread : Signal(t, u)

Spec == Init /\ [][Next]_where
=============================================================================
