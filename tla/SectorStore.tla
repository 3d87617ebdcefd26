----------------------------- MODULE SectorStore -----------------------------
(***************************************************************************)
(* What a synchronous disk promises: every ReadSector and WriteSector takes *)
(* effect at one moment between its call and its return, and what has been *)
(* written survives a crash of the machine, which ends the calls.          *)
(***************************************************************************)
CONSTANTS Thread, Sector, Value, NULL

VARIABLES
  store,  \* the contents of the sectors
  call,   \* the call a thread is in, or NULL
  result  \* what it has got: NULL before the call takes effect

vars == <<store, call, result>>

Init ==
  /\ store \in [Sector -> Value]
  /\ call = [t \in Thread |-> NULL]
  /\ result = [t \in Thread |-> NULL]

Invoke(t) ==
  /\ call[t] = NULL
  /\ \E s \in Sector, v \in Value \cup {NULL} :
       call' = [call EXCEPT ![t] = [sector |-> s, write |-> v]]
  /\ UNCHANGED <<store, result>>

TakeEffect(t) ==
  /\ call[t] # NULL
  /\ result[t] = NULL
  /\ LET s == call[t].sector
         v == IF call[t].write = NULL THEN store[s] ELSE call[t].write
     IN  /\ store' = [store EXCEPT ![s] = v]
         /\ result' = [result EXCEPT ![t] = v]
  /\ UNCHANGED call

Return(t) ==
  /\ result[t] # NULL
  /\ call' = [call EXCEPT ![t] = NULL]
  /\ result' = [result EXCEPT ![t] = NULL]
  /\ UNCHANGED store

Crash ==
  /\ call' = [t \in Thread |-> NULL]
  /\ result' = [t \in Thread |-> NULL]
  /\ UNCHANGED store

Next == (\E t \in Thread : Invoke(t) \/ TakeEffect(t) \/ Return(t)) \/ Crash

Spec == Init /\ [][Next]_vars
=============================================================================
