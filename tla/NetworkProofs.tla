--------------------------- MODULE NetworkProofs ----------------------------
(***************************************************************************)
(* Proofs about PostOffice, for all hosts, threads and scripts: one send   *)
(* at a time, the worker in step with the device, and delivery in order.   *)
(*                                                                         *)
(* PostInv ties the lock of Send to the place of its threads and the       *)
(* worker to the device.  OrderInv adds that all that is on the way to a   *)
(* host, from the socket to the boxes, is in order.                        *)
(***************************************************************************)
EXTENDS PostOffice, TLAPS

-----------------------------------------------------------------------------
(* Sequences. *)

(* What Tail leaves: SynchList::RemoveFront takes the first mail of a box, *)
(* and a read the first mail of a socket.                                  *)
LEMMA WithoutFirst ==
  ASSUME NEW S, NEW s \in Seq(S), s # <<>>
  PROVE  /\ Head(s) \in S /\ Tail(s) \in Seq(S) /\ Len(Tail(s)) = Len(s) - 1
         /\ \A i \in 1 .. Len(Tail(s)) : Tail(s)[i] = s[i + 1]
OBVIOUS

(* What Append adds: SynchList::Append, and the send to a socket. *)
LEMMA WithLast ==
  ASSUME NEW S, NEW s \in Seq(S), NEW e \in S
  PROVE  /\ Append(s, e) \in Seq(S) /\ Len(Append(s, e)) = Len(s) + 1
         /\ \A i \in 1 .. Len(s) : Append(s, e)[i] = s[i]
         /\ Append(s, e)[Len(s) + 1] = e
OBVIOUS

(* The elements of two sequences, one after the other. *)
LEMMA Joined ==
  ASSUME NEW S, NEW s \in Seq(S), NEW t \in Seq(S)
  PROVE  /\ s \o t \in Seq(S) /\ Len(s \o t) = Len(s) + Len(t)
         /\ \A i \in 1 .. Len(s) + Len(t) : (s \o t)[i] = IF i <= Len(s) THEN s[i]
              ELSE t[i - Len(s)]
OBVIOUS

(* An empty buffer adds nothing to what is on the way. *)
LEMMA JoinedWithNothing ==
  ASSUME NEW S, NEW s \in Seq(S)
  PROVE  s \o <<>> = s /\ <<>> \o s = s
OBVIOUS

(* Joining sequences is associative: a mail that moves from one buffer to the *)
(* next leaves the whole the same.                                            *)
LEMMA JoinedInAnyOrder ==
  ASSUME NEW S, NEW s \in Seq(S), NEW t \in Seq(S), NEW u \in Seq(S)
  PROVE  (s \o t) \o u = s \o (t \o u)
OBVIOUS

(* To append an element is to join the sequence that has only it. *)
LEMMA LastIsJoined ==
  ASSUME NEW S, NEW s \in Seq(S), NEW e \in S
  PROVE  Append(s, e) = s \o <<e>>
OBVIOUS

-----------------------------------------------------------------------------
(* One send at a time, and the worker in step with the device. *)

(* The types of the state. *)
PostType ==
  /\ script \in [Client -> Seq(Operation)]
  /\ \A t \in Client : script[t] # <<>> => script[t][1].op # "reply"
  /\ stops \in [Host -> Nat] /\ count \in [Host -> Nat]
  /\ sock \in [Host -> Seq(Mail)] /\ arrived \in [Host -> Seq(Mail)]
  /\ inbox \in [Host -> Mail \cup {None}]
  /\ worker \in [Host -> [at : {"wait", "receive", "put"}, mail : Mail \cup {None}]]
  /\ boxes \in [Host -> [Box -> Seq(Mail)]]
  /\ messageAvailable \in [Host -> {0, 1}]
  /\ sendPlace \in [Client -> {"ready", "network", "socket", "wait"}]
  /\ step \in [Client -> Nat \ {0}]
  /\ mail \in [Client -> Mail \cup {None}]
  /\ sendHolder \in [Host -> Client \cup {None}]

(* A thread that is in Send, or has done one, has a mail to reply to; a *)
(* worker that puts a mail has one.                                     *)
MailInv ==
  /\ \A t \in Client : step[t] > 1 \/ sendPlace[t] # "ready" => mail[t] \in Mail
  /\ \A h \in Host : worker[h].at = "put" => worker[h].mail \in Mail

(* PostOfficeOutput::sendLock: exactly the thread that is in Send has the *)
(* lock of its host.                                                      *)
SenderInv ==
  /\ \A t \in Client : sendPlace[t] # "ready" <=> sendHolder[HostOf[t]] = t
  /\ \A h \in Host : sendHolder[h] # None => HostOf[sendHolder[h]] = h

(* PostOfficeInput: a mail is in the network device exactly when its *)
(* interrupt has been signalled and not yet served.                  *)
WorkerInv ==
  \A h \in Host :
    /\ inbox[h] # None <=> messageAvailable[h] = 1 \/ worker[h].at = "receive"
    /\ messageAvailable[h] = 1 => worker[h].at # "receive"

(* The inductive invariant of the post office. *)
PostInv == PostAssumption /\ PostType /\ MailInv /\ SenderInv /\ WorkerInv

(* A machine that starts is in a state of the invariant. *)
LEMMA PostInit == PostAssumption /\ InitPost => PostInv
<1> SUFFICES ASSUME PostAssumption, InitPost PROVE PostInv
  OBVIOUS
<1>1. PostType
  BY DEF PostAssumption, InitPost, AtP, PostType
<1>2. MailInv
  BY DEF InitPost, AtP, MailInv
<1>3. SenderInv
  BY DEF PostAssumption, InitPost, SenderInv
<1>4. WorkerInv
  <2>1. \A h \in Host : inbox[h] = None /\ messageAvailable[h] # 1 /\ worker[h].at # "receive"
    <3>1. inbox = [h \in Host |-> None] /\ messageAvailable = [h \in Host |-> 0]
            /\ worker = [h \in Host |-> AtP]
      BY Zenon DEF InitPost
    <3>2. AtP.at # "receive"
      BY DEF AtP
    <3>3. \A h \in Host : inbox[h] = None
      BY <3>1, Zenon
    <3>4. \A h \in Host : messageAvailable[h] # 1
      <4>1. \A h \in Host : messageAvailable[h] = 0
        BY <3>1, Zenon
      <4>2. 0 # 1
        OBVIOUS
      <4> QED BY <4>1, <4>2, Zenon
    <3>5. \A h \in Host : worker[h].at # "receive"
      BY <3>1, <3>2, Zenon
    <3> QED BY <3>3, <3>4, <3>5, Zenon
  <2> QED BY <2>1, Zenon DEF WorkerInv
<1> QED BY <1>1, <1>2, <1>3, <1>4 DEF PostInv

(* PostOfficeOutput::Send up to NetworkOutput::Send keeps the invariant: it *)
(* enters with the lock free, and makes a mail of the operation or of the   *)
(* mail received before.                                                    *)
LEMMA SendKeeps ==
  ASSUME PostInv, NEW t \in Client, Send(t), UNCHANGED script
  PROVE  PostInv'
<1> DEFINE h == HostOf[t]
<1>a. PostType /\ MailInv /\ SenderInv /\ WorkerInv /\ h \in Host /\ PostAssumption
        /\ None \notin Client
  BY DEF PostInv, PostAssumption
<1>b. /\ sendHolder[h] = None /\ sendPlace[t] = "ready"
      /\ sendHolder' = [sendHolder EXCEPT ![h] = t] /\ sendPlace' = [sendPlace EXCEPT ![t] = "network"]
      /\ mail' = [mail EXCEPT ![t] = Header(t)]
      /\ UNCHANGED <<script, stops, count, sock, arrived, inbox, worker, boxes,
           messageAvailable, step>>
  BY DEF Send, Active, inVars
<1>c. step[t] \in 1 .. Len(script[t]) /\ script[t][step[t]] \in Operation
  BY <1>a DEF Send, Active, PostType
<1>1. Header(t) \in Mail
  <2>1. CASE script[t][step[t]].op = "send"
    BY <1>a, <1>c, <2>1, Zenon DEF Header, Current, Operation, Mail, PostAssumption, PostType
  <2>2. CASE script[t][step[t]].op = "reply"
    <3>1. step[t] > 1
      BY <1>a, <1>c, <2>2 DEF PostType
    <3>2. mail[t] \in Mail
      BY <1>a, <3>1 DEF MailInv
    <3> QED BY <1>a, <2>2, <3>2, Zenon DEF Header, Current, Mail, PostAssumption, PostType
  <2> QED BY <2>1, <2>2, Zenon DEF Send, Active, Current
<1>2. PostType'
  BY <1>a, <1>b, <1>1, Zenon DEF PostType
<1>3. MailInv'
  BY <1>a, <1>b, <1>1, Zenon DEF PostType, MailInv
<1>4. SenderInv'
  <2>1. \A u \in Client : sendPlace'[u] = IF u = t THEN "network" ELSE sendPlace[u]
    BY <1>a, <1>b DEF PostType
  <2>2. \A g \in Host : sendHolder'[g] = IF g = h THEN t ELSE sendHolder[g]
    BY <1>a, <1>b DEF PostType
  <2>3. \A u \in Client : HostOf[u] \in Host
    BY <1>a DEF PostAssumption
  <2> HIDE DEF h
  <2>4. HostOf[t] = h
    BY DEF h
  <2> QED BY <1>a, <1>b, <2>1, <2>2, <2>3, <2>4 DEF SenderInv
<1>5. WorkerInv'
  BY <1>a, <1>b DEF WorkerInv
<1> QED BY <1>a, <1>2, <1>3, <1>4, <1>5 DEF PostInv, PostAssumption

(* NetworkOutput::Send keeps the invariant. *)
LEMMA NetworkSendKeeps ==
  ASSUME PostInv, NEW t \in Client, NetworkSend(t), UNCHANGED script
  PROVE  PostInv'
<1> DEFINE h == HostOf[t]
<1>a. PostType /\ MailInv /\ SenderInv /\ WorkerInv /\ h \in Host /\ PostAssumption
  BY DEF PostInv, PostAssumption
<1>b. /\ sendPlace[t] = "network"
      /\ count' = [count EXCEPT ![h] = @ + 1] /\ mail' = [mail EXCEPT ![t].id = count[h] + 1]
      /\ \E p \in {"socket", "wait"} : sendPlace' = [sendPlace EXCEPT ![t] = p]
      /\ UNCHANGED <<script, stops, sock, arrived, inbox, worker, boxes, messageAvailable,
           sendHolder, step>>
  BY DEF NetworkSend, inVars
<1>0. mail[t] \in Mail /\ count[h] + 1 \in Nat
  BY <1>a, <1>b DEF MailInv, PostType
<1>1. [mail[t] EXCEPT !.id = count[h] + 1] \in Mail
  BY <1>0 DEF Mail
<1>2. PostType'
  BY <1>a, <1>b, <1>1 DEF PostType
<1>3. MailInv'
  BY <1>a, <1>b, <1>1, Zenon DEF PostType, MailInv
<1>4. SenderInv'
  BY <1>a, <1>b DEF PostType, SenderInv
<1>5. WorkerInv'
  BY <1>a, <1>b DEF WorkerInv
<1> QED BY <1>a, <1>2, <1>3, <1>4, <1>5 DEF PostInv, PostAssumption

(* Every try of SendToSocket keeps the invariant, whether the socket takes *)
(* the mail or not.                                                        *)
LEMMA SendToSocketKeeps ==
  ASSUME PostInv, NEW t \in Client, SendToSocket(t), UNCHANGED script
  PROVE  PostInv'
<1>a. PostType /\ MailInv /\ SenderInv /\ WorkerInv /\ PostAssumption
  BY DEF PostInv
<1>b. /\ sendPlace[t] = "socket"
      /\ sock' = [sock EXCEPT ![mail[t].to] = Append(@, mail[t])] \/ sock' = sock
      /\ \E p \in {"socket", "wait"} : sendPlace' = [sendPlace EXCEPT ![t] = p]
      /\ UNCHANGED <<script, stops, count, arrived, inbox, worker, boxes, messageAvailable,
           sendHolder, step, mail>>
  BY Zenon DEF SendToSocket, inVars
<1>1. mail[t] \in Mail /\ mail[t].to \in Host
  BY <1>a, <1>b, Zenon DEF MailInv, Mail
<1>2. sock' \in [Host -> Seq(Mail)]
  <2>1. sock[mail[t].to] \in Seq(Mail) /\ sock \in [Host -> Seq(Mail)]
    BY <1>a, <1>1 DEF PostType
  <2>2. Append(sock[mail[t].to], mail[t]) \in Seq(Mail)
    BY <1>1, <2>1, WithLast
  <2> QED BY <1>b, <1>1, <2>1, <2>2, Zenon
<1>3. PostType'
  BY <1>a, <1>b, <1>2, Zenon DEF PostType
<1>4. MailInv'
  BY <1>a, <1>b, Zenon DEF PostType, MailInv
<1>5. SenderInv'
  BY <1>a, <1>b, Zenon DEF PostType, SenderInv
<1>6. WorkerInv'
  BY <1>a, <1>b, Zenon DEF WorkerInv
<1> QED BY <1>a, <1>3, <1>4, <1>5, <1>6 DEF PostInv, PostAssumption

(* The end of PostOfficeOutput::Send, which releases the lock, keeps the *)
(* invariant.                                                            *)
LEMMA SendReturnsKeeps ==
  ASSUME PostInv, NEW t \in Client, SendReturns(t), UNCHANGED script
  PROVE  PostInv'
<1> DEFINE h == HostOf[t]
<1>a. PostType /\ MailInv /\ SenderInv /\ WorkerInv /\ h \in Host /\ PostAssumption
        /\ None \notin Client
  BY DEF PostInv, PostAssumption
<1>b. /\ sendPlace[t] = "wait"
      /\ sendHolder' = [sendHolder EXCEPT ![h] = None] /\ sendPlace' = [sendPlace EXCEPT ![t] = "ready"]
      /\ step' = [step EXCEPT ![t] = @ + 1]
      /\ UNCHANGED <<script, stops, count, sock, arrived, inbox, worker, boxes,
           messageAvailable, mail>>
  BY DEF SendReturns, inVars
<1>1. PostType'
  <2>1. step' \in [Client -> Nat \ {0}]
    BY <1>a, <1>b DEF PostType
  <2>2. /\ sendHolder' \in [Host -> Client \cup {None}]
        /\ sendPlace' \in [Client -> {"ready", "network", "socket", "wait"}]
    BY <1>a, <1>b DEF PostType
  <2> QED BY <1>a, <1>b, <2>1, <2>2, Zenon DEF PostType
<1>2. MailInv'
  BY <1>a, <1>b, Zenon DEF PostType, MailInv
<1>3. SenderInv'
  <2>1. \A u \in Client : sendPlace'[u] = IF u = t THEN "ready" ELSE sendPlace[u]
    BY <1>a, <1>b DEF PostType
  <2>2. \A g \in Host : sendHolder'[g] = IF g = h THEN None ELSE sendHolder[g]
    BY <1>a, <1>b DEF PostType
  <2>3. \A u \in Client : HostOf[u] \in Host
    BY <1>a DEF PostAssumption
  <2> HIDE DEF h
  <2>4. HostOf[t] = h
    BY DEF h
  <2> QED BY <1>a, <1>b, <2>1, <2>2, <2>3, <2>4 DEF SenderInv
<1>4. WorkerInv'
  BY <1>a, <1>b DEF WorkerInv
<1> QED BY <1>a, <1>1, <1>2, <1>3, <1>4 DEF PostInv, PostAssumption

(* PostOfficeInput::Receive keeps the invariant. *)
LEMMA ReceiveKeeps ==
  ASSUME PostInv, NEW t \in Client, Receive(t), UNCHANGED script
  PROVE  PostInv'
<1> DEFINE h == HostOf[t]
           b == script[t][step[t]].box
<1>a. PostType /\ MailInv /\ SenderInv /\ WorkerInv /\ h \in Host /\ PostAssumption
  BY DEF PostInv, PostAssumption
<1>b. /\ sendPlace[t] = "ready" /\ boxes[h][b] # <<>>
      /\ mail' = [mail EXCEPT ![t] = Head(boxes[h][b])]
      /\ boxes' = [boxes EXCEPT ![h][b] = Tail(@)]
      /\ step' = [step EXCEPT ![t] = @ + 1]
      /\ UNCHANGED <<script, stops, count, sock, arrived, inbox, worker, messageAvailable,
           sendPlace, sendHolder>>
  BY Zenon DEF Receive, Get, Active, Current
<1>c. step[t] \in 1 .. Len(script[t]) /\ script[t][step[t]] \in Operation
  BY <1>a DEF Receive, Active, PostType
<1>d. b \in Box
  BY <1>c, Zenon DEF Operation, Receive, Active, Current
<1> HIDE DEF b, h
<1>e. boxes \in [Host -> [Box -> Seq(Mail)]] /\ boxes[h][b] \in Seq(Mail)
  BY <1>a, <1>d DEF PostType
<1>1. Head(boxes[h][b]) \in Mail /\ Tail(boxes[h][b]) \in Seq(Mail)
  BY <1>b, <1>e, WithoutFirst
<1>2. boxes' \in [Host -> [Box -> Seq(Mail)]]
  BY <1>a, <1>b, <1>d, <1>e, <1>1
<1>3. PostType'
  <2>1. mail' \in [Client -> Mail \cup {None}]
    BY <1>a, <1>b, <1>1, Zenon DEF PostType
  <2>2. step' \in [Client -> Nat \ {0}]
    BY <1>a, <1>b DEF PostType
  <2> QED BY <1>a, <1>b, <1>2, <2>1, <2>2, Zenon DEF PostType
<1>4. MailInv'
  BY <1>a, <1>b, <1>1, Zenon DEF PostType, MailInv
<1>5. SenderInv'
  BY <1>a, <1>b DEF SenderInv
<1>6. WorkerInv'
  BY <1>a, <1>b DEF WorkerInv
<1> QED BY <1>a, <1>3, <1>4, <1>5, <1>6 DEF PostInv, PostAssumption

(* NetworkInput::CallBack reads only when its buffer is empty, so that the *)
(* semaphore is 0 and the worker is not in Receive.                        *)
LEMMA RecvCallBackKeeps ==
  ASSUME PostInv, NEW h \in Host, RecvCallBack(h), UNCHANGED script
  PROVE  PostInv'
<1>a. PostType /\ MailInv /\ SenderInv /\ WorkerInv /\ PostAssumption /\ None \notin Mail
  BY DEF PostInv, PostAssumption
<1>b. /\ inbox[h] = None /\ sock[h] # <<>>
      /\ inbox' = [inbox EXCEPT ![h] = Head(sock[h])]
      /\ sock' = [sock EXCEPT ![h] = Tail(@)]
      /\ messageAvailable' = [messageAvailable EXCEPT ![h] = @ + 1]
      /\ UNCHANGED <<script, stops, count, arrived, worker, boxes, sendPlace, sendHolder, step,
           mail>>
  BY DEF RecvCallBack, outVars
<1>1. Head(sock[h]) \in Mail /\ Tail(sock[h]) \in Seq(Mail)
  BY <1>a, <1>b, WithoutFirst, Zenon DEF PostType
<1>2. messageAvailable[h] = 0 /\ worker[h].at # "receive"
  BY <1>a, <1>b, Zenon DEF PostType, WorkerInv
<1>3. PostType'
  BY <1>a, <1>b, <1>1, <1>2 DEF PostType
<1>4. MailInv'
  BY <1>a, <1>b DEF MailInv
<1>5. SenderInv'
  BY <1>a, <1>b DEF SenderInv
<1>6. WorkerInv'
  BY <1>a, <1>b, <1>1, <1>2 DEF WorkerInv, PostType
<1> QED BY <1>a, <1>3, <1>4, <1>5, <1>6 DEF PostInv, PostAssumption

(* The steps of PostOfficeInput::PostalDelivery keep the invariant. *)
LEMMA PostalDeliveryKeeps ==
  ASSUME PostInv, NEW h \in Host, PostalDelivery(h), UNCHANGED script
  PROVE  PostInv'
<1>a. PostType /\ MailInv /\ SenderInv /\ WorkerInv /\ PostAssumption /\ None \notin Mail
  BY DEF PostInv, PostAssumption
<1>b. UNCHANGED <<script, stops, count, sock, sendPlace, sendHolder, step, mail>>
  BY DEF PostalDelivery, outVars
<1>1. SenderInv'
  BY <1>a, <1>b DEF SenderInv
<1>t. worker[h] \in [at : {"wait", "receive", "put"}, mail : Mail \cup {None}]
  BY <1>a DEF PostType
<1>2. CASE WorkerP(h)
  <2>1. /\ messageAvailable[h] = 1 /\ worker[h].at = "wait"
        /\ messageAvailable' = [messageAvailable EXCEPT ![h] = 0]
        /\ worker' = [worker EXCEPT ![h] = [worker[h] EXCEPT !.at = "receive"]]
        /\ UNCHANGED <<inbox, boxes, arrived>>
    <3>1. messageAvailable[h] = 1 /\ worker \in [Host -> [at :
            {"wait", "receive", "put"}, mail : Mail \cup {None}]]
      BY <1>a, <1>2 DEF WorkerP, PostType
    <3>2. messageAvailable' = [messageAvailable EXCEPT ![h] = 0]
      BY <1>2, <3>1 DEF WorkerP
    <3> QED BY <1>2, <3>1, <3>2 DEF WorkerP
  <2>2. PostType'
    BY <1>a, <1>b, <1>t, <2>1, Zenon DEF PostType
  <2>3. MailInv'
    BY <1>a, <1>b, <1>t, <2>1 DEF MailInv, PostType
  <2>4. WorkerInv'
    BY <1>a, <1>t, <2>1 DEF WorkerInv, PostType
  <2> QED BY <1>a, <1>1, <2>2, <2>3, <2>4 DEF PostInv, PostAssumption
<1>3. CASE WorkerReceive(h)
  <2>1. /\ worker[h].at = "receive"
        /\ worker' = [worker EXCEPT ![h] = [at |-> "put", mail |-> inbox[h]]]
        /\ inbox' = [inbox EXCEPT ![h] = None]
        /\ UNCHANGED <<messageAvailable, boxes, arrived>>
    BY <1>3 DEF WorkerReceive
  <2>2. inbox[h] \in Mail
    BY <1>a, <2>1 DEF PostType, WorkerInv
  <2>3. PostType'
    BY <1>a, <1>b, <2>1, <2>2, Zenon DEF PostType
  <2>4. MailInv'
    BY <1>a, <1>b, <2>1, <2>2, Zenon DEF MailInv, PostType
  <2>5. WorkerInv'
    BY <1>a, <2>1 DEF WorkerInv, PostType
  <2> QED BY <1>a, <1>1, <2>3, <2>4, <2>5 DEF PostInv, PostAssumption
<1>4. CASE Put(h)
  <2>1. /\ worker[h].at = "put"
        /\ boxes' = [boxes EXCEPT ![h][worker[h].mail.box] = Append(@, worker[h].mail)]
        /\ arrived' = [arrived EXCEPT ![h] = Append(@, worker[h].mail)]
        /\ worker' = [worker EXCEPT ![h] = [at |-> "wait", mail |-> None]]
        /\ UNCHANGED <<inbox, messageAvailable>>
    BY <1>4, Zenon DEF Put, AtP
  <2>2. worker[h].mail \in Mail /\ worker[h].mail.box \in Box
    BY <1>a, <2>1, Zenon DEF MailInv, Mail
  <2>3. boxes \in [Host -> [Box -> Seq(Mail)]] /\ boxes[h][worker[h].mail.box] \in Seq(Mail)
        /\ arrived \in [Host -> Seq(Mail)] /\ arrived[h] \in Seq(Mail)
    BY <1>a, <2>2 DEF PostType
  <2>4. boxes' \in [Host -> [Box -> Seq(Mail)]] /\ arrived' \in [Host -> Seq(Mail)]
    BY <2>1, <2>2, <2>3, WithLast, Zenon
  <2>5. PostType'
    BY <1>a, <1>b, <2>1, <2>4, Zenon DEF PostType
  <2>6. MailInv'
    BY <1>a, <1>b, <2>1, Zenon DEF MailInv, PostType
  <2>7. WorkerInv'
    BY <1>a, <2>1, Zenon DEF WorkerInv, PostType
  <2> QED BY <1>a, <1>1, <2>5, <2>6, <2>7 DEF PostInv, PostAssumption
<1> QED BY <1>2, <1>3, <1>4 DEF PostalDelivery

(* A machine that stops loses its buffers, its boxes and its locks, and keeps *)
(* the invariant.                                                             *)
LEMMA StopKeeps ==
  ASSUME PostInv, NEW h \in Host, Stop(h), UNCHANGED script
  PROVE  PostInv'
<1>a. PostType /\ MailInv /\ SenderInv /\ WorkerInv /\ PostAssumption /\ None \notin Client
  BY DEF PostInv, PostAssumption
<1>1. PostType'
  BY <1>a DEF PostType, Stop, AtP
<1>2. MailInv'
  BY <1>a DEF MailInv, PostType, Stop, AtP
<1>3. SenderInv'
  <2>1. \A u \in Client : sendPlace'[u] = IF HostOf[u] = h THEN "ready" ELSE sendPlace[u]
    BY <1>a DEF Stop
  <2>2. \A g \in Host : sendHolder'[g] = IF g = h THEN None ELSE sendHolder[g]
    BY <1>a, Zenon DEF PostType, Stop
  <2>3. \A u \in Client : HostOf[u] \in Host
    BY <1>a DEF PostAssumption
  <2> QED BY <1>a, <2>1, <2>2, <2>3 DEF SenderInv
<1>4. WorkerInv'
  BY <1>a DEF WorkerInv, PostType, Stop, AtP
<1> QED BY <1>a, <1>1, <1>2, <1>3, <1>4 DEF PostInv, PostAssumption

(* Every step keeps the invariant. *)
LEMMA PostStep == PostInv /\ [NextPost]_postVars => PostInv'
<1> SUFFICES ASSUME PostInv, [NextPost]_postVars PROVE PostInv'
  OBVIOUS
<1>1. ASSUME UNCHANGED <<script, stops, count, sock, arrived, inbox, worker, boxes,
        messageAvailable, sendPlace, sendHolder, step, mail>>
      PROVE PostInv'
  BY <1>1, Zenon DEF PostInv, PostAssumption, PostType, MailInv, SenderInv, WorkerInv
<1>2. ASSUME NEW t \in Client, ThreadStep(t), UNCHANGED script PROVE PostInv'
  BY <1>2, SendKeeps, NetworkSendKeeps, SendToSocketKeeps, SendReturnsKeeps, ReceiveKeeps
    DEF ThreadStep
<1>3. ASSUME NEW h \in Host, SendCallBack(h), UNCHANGED script PROVE PostInv'
  BY <1>1, <1>3 DEF SendCallBack, inVars
<1>4. ASSUME NEW h \in Host, Start(h), UNCHANGED script PROVE PostInv'
  BY <1>1, <1>4 DEF Start, inVars, outVars
<1>5. CASE UNCHANGED postVars
  BY <1>1, <1>5 DEF postVars
<1> QED BY <1>2, <1>3, <1>4, <1>5, RecvCallBackKeeps, PostalDeliveryKeeps, StopKeeps
        DEF NextPost, Work, HostStep

(* The threads that are in Send on a host are the one that has its lock. *)
LEMMA OneSender == PostInv => OneSendAtATime
<1>1. ASSUME PostInv, NEW h \in Host
      PROVE  {t \in Client : HostOf[t] = h /\ sendPlace[t] # "ready"}
               = IF sendHolder[h] = None THEN {} ELSE {sendHolder[h]}
  <2>1. None \notin Client /\ sendHolder[h] \in Client \cup {None}
    BY <1>1 DEF PostInv, PostAssumption, PostType
  <2> QED BY <1>1, <2>1 DEF PostInv, SenderInv
<1> QED BY <1>1, Zenon DEF OneSendAtATime

(* On every host at most one thread at a time is in Send, and has the lock, *)
(* and the worker of PostalDelivery is in step with the network device: no  *)
(* mail is read over another, none is taken twice.  For any hosts, threads  *)
(* and scripts of sends and receives, with lost and refused mails and       *)
(* machines that stop.                                                      *)
LEMMA PostSafe == PostAssumption /\ SpecPost => [](OneSendAtATime /\ WorkerInStep)
<1>1. PostInv => WorkerInStep
  BY Zenon DEF PostInv, WorkerInv, WorkerInStep
<1> QED BY <1>1, PostInit, PostStep, OneSender, PTL DEF SpecPost

-----------------------------------------------------------------------------
(* The order of the mails. *)

(* The mail that the worker has read and not yet put. *)
Hand(h) == IF worker[h].at = "put" THEN <<worker[h].mail>> ELSE <<>>

(* The mail in the network device, NetworkInput::inbox. *)
Buffer(h) == IF inbox[h] = None THEN <<>> ELSE <<inbox[h]>>

(* All that has been sent to a host, in the order in which it gets to its *)
(* boxes: delivered, in the worker, in the device, in the socket.         *)
Pipe(h) == (arrived[h] \o Hand(h)) \o (Buffer(h) \o sock[h])

(* Of mails of one run of a host, the ones sent later are later in the *)
(* sequence.                                                           *)
Ordered(s) ==
  \A i, j \in DOMAIN s : i < j /\ s[i].from = s[j].from /\ s[i].epoch = s[j].epoch
    => s[i].id < s[j].id

(* A mail that has left its sender: no mail is newer than the last one that *)
(* the sender made, nor as new as the one it is about to send.              *)
Old(m) ==
  /\ m.epoch <= stops[m.from]
  /\ m.epoch = stops[m.from] =>
       /\ m.id <= count[m.from]
       /\ \A t \in Client : sendPlace[t] = "socket" /\ HostOf[t] = m.from => m.id < count[m.from]

(* What is on the way to a host is in order and old. *)
FlowInv ==
  \A h \in Host : Ordered(Pipe(h)) /\ \A i \in DOMAIN Pipe(h) : Old(Pipe(h)[i])

(* The mail that a thread sends is the newest of its host. *)
SendingInv ==
  \A t \in Client :
    /\ sendPlace[t] # "ready" => mail[t].from = HostOf[t] /\ mail[t].epoch = stops[HostOf[t]]
    /\ sendPlace[t] = "socket" => mail[t].id = count[HostOf[t]]

(* The inductive invariant for the order of the mails.  That the delivered   *)
(* mails are in order is not inductive: it does not say that the ones in the *)
(* worker, the device and the socket come after them.                        *)
OrderInv == PostInv /\ FlowInv /\ SendingInv

(* A mail that moves from the socket to the device, from the device to the *)
(* worker or from the worker to a box keeps its place.                     *)
LEMMA Shift ==
  \A a, b \in Seq(Mail), m \in Mail :
    /\ (a \o <<>>) \o (<<m>> \o b) = (a \o <<m>>) \o (<<>> \o b)
    /\ (a \o <<m>>) \o b = (Append(a, m) \o <<>>) \o b
    /\ b # <<>> => <<>> \o b = <<Head(b)>> \o Tail(b)
<1> SUFFICES ASSUME NEW a \in Seq(Mail), NEW b \in Seq(Mail), NEW m \in Mail
             PROVE  /\ (a \o <<>>) \o (<<m>> \o b) = (a \o <<m>>) \o (<<>> \o b)
                    /\ (a \o <<m>>) \o b = (Append(a, m) \o <<>>) \o b
                    /\ b # <<>> => <<>> \o b = <<Head(b)>> \o Tail(b)
  BY Zenon
<1> DEFINE M == Mail
<1>0. a \in Seq(M) /\ b \in Seq(M) /\ m \in M
  OBVIOUS
<1> HIDE DEF M
<1>1. a \o <<>> = a /\ <<>> \o b = b
  BY <1>0, JoinedWithNothing
<1>2. Append(a, m) = a \o <<m>> /\ Append(a, m) \in Seq(M) /\ <<m>> \in Seq(M)
  BY <1>0, LastIsJoined, WithLast
<1>3. Append(a, m) \o <<>> = Append(a, m)
  BY <1>2, JoinedWithNothing
<1>4. a \o (<<m>> \o b) = (a \o <<m>>) \o b
  BY <1>0, <1>2, JoinedInAnyOrder
<1>5. ASSUME b # <<>> PROVE b = <<Head(b)>> \o Tail(b)
  BY <1>0, <1>5
<1> QED BY <1>1, <1>2, <1>3, <1>4, <1>5, Zenon

(* A mail sent to the socket is after all that is on the way. *)
LEMMA AddLast ==
  \A a, b \in Seq(Mail), m \in Mail : a \o Append(b, m) = Append(a \o b, m)
<1> TAKE a, b \in Seq(Mail), m \in Mail
<1> DEFINE M == Mail
<1>0. a \in Seq(M) /\ b \in Seq(M) /\ m \in M
  OBVIOUS
<1> HIDE DEF M
<1>1. a \o b \in Seq(M) /\ <<m>> \in Seq(M)
  BY <1>0, Joined
<1>2. Append(b, m) = b \o <<m>> /\ Append(a \o b, m) = (a \o b) \o <<m>>
  BY <1>0, <1>1, LastIsJoined
<1>3. (a \o b) \o <<m>> = a \o (b \o <<m>>)
  BY <1>0, <1>1, JoinedInAnyOrder
<1> QED BY <1>2, <1>3

(* All that is on the way are mails. *)
LEMMA PipeType ==
  ASSUME PostInv, NEW h \in Host
  PROVE  Pipe(h) \in Seq(Mail) /\ Hand(h) \in Seq(Mail) /\ Buffer(h) \in Seq(Mail)
<1>1. Hand(h) \in Seq(Mail) /\ Buffer(h) \in Seq(Mail)
  BY DEF PostInv, PostType, MailInv, Hand, Buffer
<1>2. arrived[h] \in Seq(Mail) /\ sock[h] \in Seq(Mail)
  BY DEF PostInv, PostType
<1> QED BY <1>1, <1>2, Joined DEF Pipe

(* Nothing is on the way when the machines start. *)
LEMMA OrderInit == PostAssumption /\ InitPost => OrderInv
<1> SUFFICES ASSUME PostAssumption, InitPost PROVE OrderInv
  OBVIOUS
<1>1. PostInv
  BY PostInit
<1>2. ASSUME NEW h \in Host PROVE Pipe(h) = <<>>
  <2>1. Hand(h) = <<>> /\ Buffer(h) = <<>> /\ arrived[h] = <<>> /\ sock[h] = <<>>
    BY DEF InitPost, AtP, Hand, Buffer
  <2> QED BY <2>1 DEF Pipe
<1>3. FlowInv
  <2>1. DOMAIN <<>> = {}
    OBVIOUS
  <2> QED BY <1>2, <2>1, Zenon DEF FlowInv, Ordered
<1>4. SendingInv
  BY DEF SendingInv, InitPost
<1> QED BY <1>1, <1>3, <1>4 DEF OrderInv

(* NetworkInput::CallBack and PostalDelivery move mails and change neither *)
(* which there are nor their order.                                        *)
LEMMA PipeMoves ==
  ASSUME PostInv, NEW h \in Host, RecvCallBack(h) \/ PostalDelivery(h), NEW g \in Host
  PROVE  Pipe(g)' = Pipe(g)
<1>a. PostType /\ MailInv /\ WorkerInv /\ None \notin Mail
  BY DEF PostInv, PostAssumption
<1>s. sock[h] \in Seq(Mail) /\ arrived[h] \in Seq(Mail) /\ Buffer(h) \in Seq(Mail)
  BY <1>a, PipeType DEF PostType
<1>1. CASE RecvCallBack(h)
  <2>1. /\ inbox[h] = None /\ sock[h] # <<>>
        /\ inbox' = [inbox EXCEPT ![h] = Head(sock[h])]
        /\ sock' = [sock EXCEPT ![h] = Tail(sock[h])]
        /\ UNCHANGED <<arrived, worker>>
    BY <1>1 DEF RecvCallBack
  <2>2. Head(sock[h]) \in Mail
    BY <1>s, <2>1, WithoutFirst
  <2>3. CASE g = h
    <3>1. Buffer(g) = <<>> /\ Buffer(g)' = <<Head(sock[h])>> /\ sock'[g] = Tail(sock[h])
      BY <1>a, <2>1, <2>2, <2>3, Zenon DEF Buffer, PostType
    <3>2. <<>> \o sock[h] = <<Head(sock[h])>> \o Tail(sock[h])
      BY <1>s, <2>1, <2>2, Shift, Zenon
    <3> QED BY <2>1, <2>3, <3>1, <3>2, Zenon DEF Pipe, Hand
  <2>4. CASE g # h
    BY <1>a, <2>1, <2>4, Zenon DEF Pipe, Hand, Buffer, PostType
  <2> QED BY <2>3, <2>4
<1>2. CASE PostalDelivery(h) /\ WorkerP(h)
  <2>1. /\ worker[h].at = "wait" /\ worker' = [worker EXCEPT ![h].at = "receive"]
        /\ UNCHANGED <<inbox, arrived, sock>>
    BY <1>2 DEF WorkerP, PostalDelivery
  <2>2. Hand(g)' = Hand(g)
    BY <1>a, <2>1 DEF Hand, PostType
  <2> QED BY <2>1, <2>2 DEF Pipe, Buffer
<1>3. CASE PostalDelivery(h) /\ WorkerReceive(h)
  <2>1. /\ worker[h].at = "receive"
        /\ worker' = [worker EXCEPT ![h] = [at |-> "put", mail |-> inbox[h]]]
        /\ inbox' = [inbox EXCEPT ![h] = None]
        /\ UNCHANGED <<arrived, sock>>
    BY <1>3 DEF WorkerReceive, PostalDelivery
  <2>2. inbox[h] \in Mail
    BY <1>a, <2>1 DEF PostType, WorkerInv
  <2>3. CASE g = h
    <3>1. Hand(g) = <<>> /\ Hand(g)' = <<inbox[h]>> /\ Buffer(g) = <<inbox[h]>>
            /\ Buffer(g)' = <<>>
      BY <1>a, <2>1, <2>2, <2>3, Zenon DEF Buffer, Hand, PostType
    <3>2. (arrived[h] \o <<>>) \o (<<inbox[h]>> \o sock[h])
            = (arrived[h] \o <<inbox[h]>>) \o (<<>> \o sock[h])
      BY <1>s, <2>2, Shift, Zenon
    <3> QED BY <2>1, <2>3, <3>1, <3>2, Zenon DEF Pipe
  <2>4. CASE g # h
    BY <1>a, <2>1, <2>4, Zenon DEF Pipe, Hand, Buffer, PostType
  <2> QED BY <2>3, <2>4
<1>4. CASE PostalDelivery(h) /\ Put(h)
  <2>1. /\ worker[h].at = "put"
        /\ arrived' = [arrived EXCEPT ![h] = Append(arrived[h], worker[h].mail)]
        /\ worker' = [worker EXCEPT ![h] = [at |-> "wait", mail |-> None]]
        /\ UNCHANGED <<inbox, sock>>
    BY <1>4, Zenon DEF Put, AtP, PostalDelivery
  <2>2. worker[h].mail \in Mail
    BY <1>a, <2>1 DEF MailInv
  <2>3. CASE g = h
    <3>1. Hand(g) = <<worker[h].mail>> /\ Hand(g)' = <<>>
            /\ arrived'[g] = Append(arrived[h], worker[h].mail)
      BY <1>a, <2>1, <2>3, Zenon DEF Hand, PostType
    <3>2. Buffer(h) \o sock[h] \in Seq(Mail)
      BY <1>s, Joined
    <3>3. (arrived[h] \o <<worker[h].mail>>) \o (Buffer(h) \o sock[h])
            = (Append(arrived[h], worker[h].mail) \o <<>>) \o (Buffer(h) \o sock[h])
      BY <1>s, <2>2, <3>2, Shift, Zenon
    <3> QED BY <2>1, <2>3, <3>1, <3>3, Zenon DEF Pipe, Buffer
  <2>4. CASE g # h
    BY <1>a, <2>1, <2>4, Zenon DEF Pipe, Hand, Buffer, PostType
  <2> QED BY <2>3, <2>4
<1> QED BY <1>1, <1>2, <1>3, <1>4 DEF PostalDelivery

(* The flow is kept when the same mails are on the way and the old ones stay *)
(* old.                                                                      *)
LEMMA FlowKept ==
  ASSUME OrderInv, \A h \in Host : Pipe(h)' = Pipe(h), \A m \in Mail : Old(m) => Old(m)'
  PROVE  FlowInv'
<1>1. ASSUME NEW h \in Host PROVE Ordered(Pipe(h)') /\ \A i \in DOMAIN Pipe(h)' :
        Old(Pipe(h)[i])'
  <2>1. Pipe(h)' = Pipe(h) /\ Pipe(h) \in Seq(Mail)
    BY PipeType DEF OrderInv
  <2>2. Ordered(Pipe(h)) /\ \A i \in DOMAIN Pipe(h) : Old(Pipe(h)[i])
    BY DEF OrderInv, FlowInv
  <2>3. \A i \in DOMAIN Pipe(h) : Pipe(h)[i] \in Mail
    BY <2>1
  <2>4. \A i \in DOMAIN Pipe(h) : Old(Pipe(h)[i])'
    <3> TAKE i \in DOMAIN Pipe(h)
    <3>1. Old(Pipe(h)[i]) /\ Pipe(h)[i] \in Mail /\ Pipe(h)'[i] = Pipe(h)[i]
      BY <2>1, <2>2, <2>3
    <3>2. \A m \in Mail :
            Old(m) =>
              /\ m.epoch <= stops'[m.from]
              /\ m.epoch = stops'[m.from] =>
                   /\ m.id <= count'[m.from]
                   /\ \A t \in Client :
                        sendPlace'[t] = "socket" /\ HostOf[t] = m.from => m.id < count'[m.from]
      BY Zenon DEF Old
    <3> QED BY <3>1, <3>2, Zenon DEF Old
  <2> QED BY <2>1, <2>2, <2>4
<1> QED BY <1>1 DEF FlowInv, Ordered

(* PostOfficeOutput::Send keeps the order: the new mail has no number yet. *)
LEMMA SendOrder ==
  ASSUME OrderInv, NEW t \in Client, Send(t), UNCHANGED script
  PROVE  FlowInv' /\ SendingInv'
<1> DEFINE h == HostOf[t]
<1>a. PostType /\ SendingInv /\ h \in Host
  BY DEF OrderInv, PostInv, PostAssumption
<1>b. /\ sendPlace' = [sendPlace EXCEPT ![t] = "network"] /\ mail' = [mail EXCEPT ![t] = Header(t)]
      /\ UNCHANGED <<stops, count, sock, arrived, inbox, worker>>
  BY DEF Send, inVars
<1>1. \A m \in Mail : Old(m) => Old(m)'
  BY <1>a, <1>b, Zenon DEF Old, PostType
<1>2. FlowInv'
  BY <1>b, <1>1, FlowKept DEF Pipe, Hand, Buffer
<1>3. Header(t).from = HostOf[t] /\ Header(t).epoch = stops[HostOf[t]]
  BY DEF Header
<1>4. SendingInv'
  BY <1>a, <1>b, <1>3, Zenon DEF SendingInv, PostType
<1> QED BY <1>2, <1>4

(* NetworkOutput::Send gives the mail a number that is larger than that of *)
(* every mail that has left the host.                                      *)
LEMMA NetworkSendOrder ==
  ASSUME OrderInv, NEW t \in Client, NetworkSend(t), UNCHANGED script
  PROVE  FlowInv' /\ SendingInv'
<1> DEFINE h == HostOf[t]
<1>a. PostType /\ SendingInv /\ SenderInv /\ h \in Host
  BY DEF OrderInv, PostInv, PostAssumption
<1>b. /\ sendPlace[t] = "network"
      /\ count' = [count EXCEPT ![h] = @ + 1] /\ mail' = [mail EXCEPT ![t].id = count[h] + 1]
      /\ \E p \in {"socket", "wait"} : sendPlace' = [sendPlace EXCEPT ![t] = p]
      /\ UNCHANGED <<stops, sock, arrived, inbox, worker>>
  BY DEF NetworkSend, inVars
<1>c. mail[t] \in Mail
  BY <1>b DEF OrderInv, PostInv, MailInv
<1>d. \A u \in Client : u # t /\ HostOf[u] = h => sendPlace[u] = "ready"
  <2>1. sendPlace[t] # "ready"
    BY <1>b
  <2>2. sendHolder[h] = t
    BY <1>a, <2>1 DEF SenderInv
  <2>3. \A u \in Client : sendPlace[u] # "ready" => sendHolder[HostOf[u]] = u
    BY <1>a DEF SenderInv
  <2> QED BY <2>2, <2>3, Zenon
<1>e. /\ \A g \in Host : g # h => count'[g] = count[g]
      /\ count'[h] = count[h] + 1 /\ count[h] \in Nat
      /\ \A u \in Client : u # t => sendPlace'[u] = sendPlace[u] /\ mail'[u] = mail[u]
      /\ sendPlace'[t] \in {"socket", "wait"}
      /\ mail'[t] = [mail[t] EXCEPT !.id = count[h] + 1]
  BY <1>a, <1>b DEF PostType
<1>1. \A m \in Mail : Old(m) => Old(m)'
  <2> SUFFICES ASSUME NEW m \in Mail, Old(m) PROVE Old(m)'
    OBVIOUS
  <2>1. m.from \in Host /\ m.id \in Nat
    BY DEF Mail
  <2>2. CASE m.from = h
    BY <1>b, <1>e, <2>1, <2>2 DEF Old
  <2>3. CASE m.from # h
    BY <1>b, <1>e, <2>1, <2>3, Zenon DEF Old
  <2> QED BY <2>2, <2>3
<1>2. FlowInv'
  BY <1>b, <1>1, FlowKept DEF Pipe, Hand, Buffer
<1>3. mail'[t].from = mail[t].from /\ mail'[t].epoch = mail[t].epoch
        /\ mail'[t].id = count[h] + 1
  BY <1>c, <1>e DEF Mail
<1>4. \A u \in Client : HostOf[u] \in Host
  BY DEF OrderInv, PostInv, PostAssumption
<1>5. SendingInv'
  BY <1>a, <1>b, <1>d, <1>e, <1>3, <1>4 DEF SendingInv
<1> QED BY <1>2, <1>5

(* A mail that the socket takes is newer than all that are before it. *)
LEMMA SendToSocketOrder ==
  ASSUME OrderInv, NEW t \in Client, SendToSocket(t), UNCHANGED script
  PROVE  FlowInv' /\ SendingInv'
<1> DEFINE h == HostOf[t]
           m == mail[t]
           to == mail[t].to
<1>a. PostType /\ SendingInv /\ SenderInv /\ h \in Host /\ FlowInv /\ PostInv
  BY DEF OrderInv, PostInv, PostAssumption
<1>b. /\ sendPlace[t] = "socket"
      /\ \/ sock' = sock
         \/ sock' = [sock EXCEPT ![to] = Append(@, m)] /\ sendPlace' = [sendPlace EXCEPT ![t] = "wait"]
      /\ \E p \in {"socket", "wait"} : sendPlace' = [sendPlace EXCEPT ![t] = p]
      /\ UNCHANGED <<stops, count, arrived, inbox, worker, mail>>
  BY Zenon DEF SendToSocket, inVars
<1>c. m \in Mail /\ to \in Host /\ m.from = h /\ m.epoch = stops[h] /\ m.id = count[h]
  BY <1>a, <1>b, Zenon DEF OrderInv, PostInv, MailInv, SendingInv, Mail
<1>d. \A u \in Client : u # t /\ HostOf[u] = h => sendPlace[u] = "ready"
  <2>1. sendPlace[t] # "ready"
    BY <1>b, Zenon
  <2>2. sendHolder[h] = t
    BY <1>a, <2>1 DEF SenderInv
  <2>3. \A u \in Client : sendPlace[u] # "ready" => sendHolder[HostOf[u]] = u
    BY <1>a DEF SenderInv
  <2> QED BY <2>2, <2>3, Zenon
<1>e. \A u \in Client : sendPlace'[u] # "ready" => sendPlace[u] # "ready" /\ (sendPlace'[u] = "socket"
        => sendPlace[u] = "socket")
  BY <1>a, <1>b, Zenon DEF PostType
<1>1. SendingInv'
  BY <1>a, <1>b, <1>e, Zenon DEF SendingInv
<1>2. \A n \in Mail : Old(n) => Old(n)'
  BY <1>b, <1>e, Zenon DEF Old
<1>3. CASE sock' = sock
  <2>1. FlowInv'
    BY <1>b, <1>2, <1>3, FlowKept DEF Pipe, Hand, Buffer
  <2> QED BY <1>1, <2>1
<1>4. CASE sock' = [sock EXCEPT ![to] = Append(@, m)] /\ sendPlace' = [sendPlace EXCEPT ![t] = "wait"]
  <2>1. ASSUME NEW g \in Host PROVE Pipe(g)' = IF g = to THEN Append(Pipe(to), m) ELSE Pipe(g)
    <3>1. sock'[g] = IF g = to THEN Append(sock[to], m) ELSE sock[g]
      BY <1>a, <1>4, Zenon DEF PostType
    <3>2. CASE g # to
      BY <1>b, <3>1, <3>2, Zenon DEF Pipe, Hand, Buffer
    <3>3. CASE g = to
      <4>1. arrived[g] \in Seq(Mail) /\ Hand(g) \in Seq(Mail) /\ Buffer(g) \in Seq(Mail)
              /\ sock[g] \in Seq(Mail)
        BY <1>a, PipeType DEF PostType
      <4>2. Buffer(g) \o Append(sock[g], m) = Append(Buffer(g) \o sock[g], m)
        <5> HIDE DEF m
        <5> QED BY <1>c, <4>1, AddLast, Zenon
      <4>3. Pipe(g)' = (arrived[g] \o Hand(g)) \o (Buffer(g) \o Append(sock[g], m))
        BY <1>b, <3>1, <3>3, Zenon DEF Pipe, Hand, Buffer
      <4>5. arrived[g] \o Hand(g) \in Seq(Mail) /\ Buffer(g) \o sock[g] \in Seq(Mail)
        BY <4>1, Joined, Zenon
      <4>6. (arrived[g] \o Hand(g)) \o Append(Buffer(g) \o sock[g], m)
              = Append((arrived[g] \o Hand(g)) \o (Buffer(g) \o sock[g]), m)
        <5> DEFINE a == arrived[g] \o Hand(g)
                   b == Buffer(g) \o sock[g]
        <5>1. a \in Seq(Mail) /\ b \in Seq(Mail) /\ m \in Mail
          BY <1>c, <4>5, Zenon
        <5> HIDE DEF a, b, m
        <5>2. a \o Append(b, m) = Append(a \o b, m)
          BY <5>1, AddLast, Zenon
        <5> QED BY <5>2, Zenon DEF a, b
      <4>4. Pipe(g)' = Append((arrived[g] \o Hand(g)) \o (Buffer(g) \o sock[g]), m)
        BY <4>2, <4>3, <4>6, Zenon
      <4> QED BY <3>3, <4>4, Zenon DEF Pipe
    <3> QED BY <3>2, <3>3
  <2>2. Old(m)'
    <3>1. \A u \in Client : HostOf[u] = h => sendPlace'[u] # "socket"
      BY <1>a, <1>4, <1>d, Zenon DEF PostType
    <3>2. stops'[h] = stops[h] /\ count'[h] = count[h] /\ stops[h] \in Nat /\ count[h] \in Nat
      BY <1>a, <1>b, Zenon DEF PostType
    <3>3. m' = m
      BY <1>b, Zenon
    <3>4. m.from = h /\ m.epoch = stops'[h] /\ m.id = count'[h] /\ stops'[h] \in Nat
            /\ count'[h] \in Nat
      BY <1>c, <3>2
    <3> HIDE DEF m, h
    <3> QED BY <3>1, <3>3, <3>4 DEF Old
  <2>3. ASSUME NEW g \in Host PROVE Ordered(Pipe(g)') /\ \A i \in DOMAIN Pipe(g)' :
          Old(Pipe(g)[i])'
    <3> DEFINE s == Pipe(g)
    <3>1. s \in Seq(Mail) /\ Ordered(s) /\ \A i \in DOMAIN s : Old(s[i])
      BY <1>a, PipeType DEF FlowInv
    <3>2. CASE g # to
      <4>1. s' = s
        BY <2>1, <3>2
      <4>2. \A i \in DOMAIN s : Old(s[i])'
        BY <1>2, <3>1, <4>1, SMTT(30) DEF Old
      <4> QED BY <3>1, <4>1, <4>2
    <3>3. CASE g = to
      <4>1. s' = Append(s, m)
        BY <2>1, <3>3
      <4>2. /\ \A i \in DOMAIN s : s'[i] = s[i] /\ s[i] \in Mail
            /\ DOMAIN s' = 1 .. Len(s) + 1 /\ DOMAIN s = 1 .. Len(s) /\ s'[Len(s) + 1] = m
                 /\ Len(s) \in Nat
        BY <1>c, <3>1, <4>1, SMTT(30)
      <4>3. \A i \in DOMAIN s : s[i].from = m.from /\ s[i].epoch = m.epoch => s[i].id < m.id
        <5> SUFFICES ASSUME NEW i \in DOMAIN s, s[i].from = m.from, s[i].epoch = m.epoch
                     PROVE  s[i].id < m.id
          BY Zenon
        <5>1. Old(s[i]) /\ sendPlace[t] = "socket"
          BY <1>b, <3>1, Zenon
        <5> HIDE DEF s, m, h
        <5>2. s[i].from = h /\ s[i].epoch = stops[h] /\ HostOf[t] = h
          BY <1>c, Zenon DEF h
        <5> QED BY <1>c, <5>1, <5>2, Zenon DEF Old
      <4> HIDE DEF s
      <4>4. Ordered(s')
        <5> SUFFICES ASSUME NEW i \in DOMAIN s', NEW j \in DOMAIN s', i < j,
                            s'[i].from = s'[j].from, s'[i].epoch = s'[j].epoch
                     PROVE  s'[i].id < s'[j].id
          BY Zenon DEF Ordered
        <5>1. i \in DOMAIN s /\ s'[i] = s[i]
          BY <4>2
        <5>2. CASE j \in DOMAIN s
          BY <3>1, <4>2, <5>1, <5>2, Zenon DEF Ordered
        <5>3. CASE j \notin DOMAIN s
          <6>1. j = Len(s) + 1
            BY <4>2, <5>3
          <6> QED BY <4>2, <4>3, <5>1, <6>1, Zenon
        <5> QED BY <5>2, <5>3
      <4>5. \A i \in DOMAIN s' : Old(s[i])'
        <5> DEFINE New(n) ==
              /\ n.epoch <= stops'[n.from]
              /\ n.epoch = stops'[n.from] =>
                   /\ n.id <= count'[n.from]
                   /\ \A u \in Client : sendPlace'[u] = "socket" /\ HostOf[u] = n.from
                        => n.id < count'[n.from]
        <5>1. \A n \in Mail : Old(n) => New(n)
          BY <1>2, Zenon DEF Old
        <5>2. New(m)
          <6>1. m' = m
            BY <1>b, Zenon
          <6> QED BY <2>2, <6>1, Zenon DEF Old
        <5>3. \A i \in DOMAIN s' : Old(s[i])' <=> New(s'[i])
          BY Zenon DEF Old
        <5> HIDE DEF New
        <5>4. \A i \in DOMAIN s : New(s'[i])
          BY <3>1, <4>2, <5>1, Zenon
        <5>5. \A i \in DOMAIN s' : i \in DOMAIN s \/ i = Len(s) + 1
          BY <4>2
        <5> QED BY <4>2, <5>2, <5>3, <5>4, <5>5, Zenon
      <4> QED BY <4>4, <4>5 DEF s
    <3> QED BY <3>2, <3>3
  <2>4. FlowInv'
    BY <2>3 DEF FlowInv, Ordered
  <2> QED BY <1>1, <2>4
<1> QED BY <1>b, <1>3, <1>4, Zenon

(* The end of Send, and Receive, keep the order. *)
LEMMA ReadyOrder ==
  ASSUME OrderInv, NEW t \in Client, SendReturns(t) \/ Receive(t), UNCHANGED script
  PROVE  FlowInv' /\ SendingInv'
<1>a. PostType /\ SendingInv
  BY DEF OrderInv, PostInv
<1>b. /\ sendPlace' = [sendPlace EXCEPT ![t] = "ready"] /\ \A u \in Client : u # t => mail'[u] = mail[u]
      /\ UNCHANGED <<stops, count, sock, arrived, inbox, worker>>
  BY <1>a DEF SendReturns, Receive, Get, Active, inVars, PostType
<1>1. \A m \in Mail : Old(m) => Old(m)'
  BY <1>a, <1>b, Zenon DEF Old, PostType
<1>2. FlowInv'
  BY <1>b, <1>1, FlowKept DEF Pipe, Hand, Buffer
<1>3. SendingInv'
  BY <1>a, <1>b, Zenon DEF SendingInv, PostType
<1> QED BY <1>2, <1>3

(* So do NetworkInput::CallBack and PostalDelivery. *)
LEMMA MovesOrder ==
  ASSUME OrderInv, NEW h \in Host, RecvCallBack(h) \/ PostalDelivery(h)
  PROVE  FlowInv' /\ SendingInv'
<1>1. UNCHANGED <<stops, count, sendPlace, mail>>
  BY DEF RecvCallBack, PostalDelivery, outVars
<1>2. \A m \in Mail : Old(m) => Old(m)'
  BY <1>1 DEF Old
<1>3. \A g \in Host : Pipe(g)' = Pipe(g)
  BY PipeMoves DEF OrderInv
<1>4. FlowInv'
  BY <1>2, <1>3, FlowKept
<1>5. SendingInv'
  BY <1>1 DEF OrderInv, SendingInv
<1> QED BY <1>4, <1>5

(* A machine that stops empties what is on the way to it; its next mails are *)
(* of its next run.                                                          *)
LEMMA StopOrder ==
  ASSUME OrderInv, NEW h \in Host, Stop(h)
  PROVE  FlowInv' /\ SendingInv'
<1>a. PostType /\ SendingInv /\ FlowInv /\ PostInv /\ \A u \in Client : HostOf[u] \in Host
  BY DEF OrderInv, PostInv, PostAssumption
<1>b. /\ stops \in [Host -> Nat] /\ stops'[h] = stops[h] + 1
      /\ \A g \in Host : g # h => /\ stops'[g] = stops[g] /\ count'[g] = count[g]
                                       /\ sock'[g] = sock[g]
                                  /\ arrived'[g] = arrived[g] /\ inbox'[g] = inbox[g]
                                       /\ worker'[g] = worker[g]
      /\ sock'[h] = <<>> /\ arrived'[h] = <<>> /\ inbox'[h] = None /\ worker'[h].at = "wait"
      /\ \A u \in Client : IF HostOf[u] = h THEN sendPlace'[u] = "ready"
           ELSE sendPlace'[u] = sendPlace[u] /\ mail'[u] = mail[u]
  BY <1>a, Zenon DEF Stop, AtP, PostType
<1>1. \A m \in Mail : Old(m) => Old(m)'
  <2> SUFFICES ASSUME NEW m \in Mail, Old(m) PROVE Old(m)'
    OBVIOUS
  <2>1. m.from \in Host /\ m.epoch \in Nat
    BY DEF Mail
  <2>2. CASE m.from = h
    BY <1>b, <2>1, <2>2 DEF Old
  <2>3. CASE m.from # h
    BY <1>b, <2>1, <2>3 DEF Old
  <2> QED BY <2>2, <2>3
<1>2. Pipe(h)' = <<>>
  <2>1. Hand(h)' = <<>> /\ Buffer(h)' = <<>>
    BY <1>b, Zenon DEF Hand, Buffer
  <2> QED BY <1>b, <2>1 DEF Pipe
<1>3. \A g \in Host : g # h => Pipe(g)' = Pipe(g)
  BY <1>b, Zenon DEF Pipe, Hand, Buffer
<1>4. ASSUME NEW g \in Host PROVE Ordered(Pipe(g)') /\ \A i \in DOMAIN Pipe(g)' :
        Old(Pipe(g)[i])'
  <2>1. CASE g = h
    BY <1>2, <2>1 DEF Ordered
  <2>2. CASE g # h
    <3>1. Pipe(g) \in Seq(Mail) /\ Ordered(Pipe(g)) /\ \A i \in DOMAIN Pipe(g) : Old(Pipe(g)[i])
      BY <1>a, PipeType DEF FlowInv
    <3>2. Pipe(g)' = Pipe(g)
      BY <1>3, <2>2
    <3>3. ASSUME NEW i \in DOMAIN Pipe(g) PROVE Old(Pipe(g)[i])'
      <4>1. Pipe(g)[i] \in Mail /\ Old(Pipe(g)[i])
        BY <3>1
      <4>2. PICK m \in Mail : m = Pipe(g)[i]
        BY <4>1
      <4>3. Old(m)
        BY <4>1, <4>2, Zenon
      <4>4. Old(m)'
        BY <1>1, <4>3, Zenon
      <4>5. Pipe(g)'[i] = m
        BY <3>2, <4>2, Zenon
      <4> QED BY <4>4, <4>5, Zenon DEF Old
    <3> QED BY <3>1, <3>2, <3>3
  <2> QED BY <2>1, <2>2
<1>5. FlowInv'
  BY <1>4 DEF FlowInv, Ordered
<1>6. SendingInv'
  BY <1>a, <1>b DEF SendingInv
<1> QED BY <1>5, <1>6

(* Every step keeps the order. *)
LEMMA OrderStep == OrderInv /\ [NextPost]_postVars => OrderInv'
<1> SUFFICES ASSUME OrderInv, [NextPost]_postVars PROVE OrderInv'
  OBVIOUS
<1>a. PostInv'
  BY PostStep DEF OrderInv
<1> SUFFICES FlowInv' /\ SendingInv'
  BY <1>a DEF OrderInv
<1>1. ASSUME UNCHANGED <<stops, count, sock, arrived, inbox, worker, sendPlace, mail>>
      PROVE  FlowInv' /\ SendingInv'
  <2>1. \A m \in Mail : Old(m) => Old(m)'
    BY <1>1 DEF Old
  <2>2. FlowInv'
    BY <1>1, <2>1, FlowKept DEF Pipe, Hand, Buffer
  <2> QED BY <1>1, <2>2 DEF OrderInv, SendingInv
<1>2. ASSUME NEW t \in Client, ThreadStep(t), UNCHANGED script PROVE FlowInv' /\ SendingInv'
  BY <1>2, SendOrder, NetworkSendOrder, SendToSocketOrder, ReadyOrder DEF ThreadStep
<1>3. ASSUME NEW h \in Host, SendCallBack(h) PROVE FlowInv' /\ SendingInv'
  BY <1>1, <1>3 DEF SendCallBack, inVars
<1>4. ASSUME NEW h \in Host, Start(h) PROVE FlowInv' /\ SendingInv'
  BY <1>1, <1>4 DEF Start, inVars, outVars
<1>5. CASE UNCHANGED postVars
  BY <1>1, <1>5 DEF postVars
<1> QED BY <1>2, <1>3, <1>4, <1>5, MovesOrder, StopOrder DEF NextPost, Work, HostStep

(* What is delivered is the first part of what was on the way. *)
LEMMA OrderSafe == OrderInv => MailInOrder
<1> SUFFICES ASSUME OrderInv, NEW h \in Host,
                    NEW i \in DOMAIN arrived[h], NEW j \in DOMAIN arrived[h], i < j,
                    arrived[h][i].from = arrived[h][j].from, arrived[h][i].epoch
                      = arrived[h][j].epoch
             PROVE  arrived[h][i].id < arrived[h][j].id
  BY DEF MailInOrder
<1> DEFINE rest == Hand(h) \o (Buffer(h) \o sock[h])
<1>1. arrived[h] \in Seq(Mail) /\ sock[h] \in Seq(Mail) /\ Hand(h) \in Seq(Mail)
        /\ Buffer(h) \in Seq(Mail)
  BY PipeType, Zenon DEF OrderInv, PostInv, PostType
<1>2. Buffer(h) \o sock[h] \in Seq(Mail) /\ rest \in Seq(Mail)
  BY <1>1, Joined
<1>3. Pipe(h) = arrived[h] \o rest
  <2> DEFINE a == arrived[h]
             b == Hand(h)
             c == Buffer(h) \o sock[h]
  <2>1. a \in Seq(Mail) /\ b \in Seq(Mail) /\ c \in Seq(Mail)
    BY <1>1, <1>2
  <2> HIDE DEF a, b, c
  <2>2. (a \o b) \o c = a \o (b \o c)
    BY <2>1, JoinedInAnyOrder, SMTT(30)
  <2> QED BY <2>2, Zenon DEF a, b, c, Pipe
<1> HIDE DEF rest
<1>4. i \in DOMAIN Pipe(h) /\ j \in DOMAIN Pipe(h) /\ Pipe(h)[i] = arrived[h][i]
        /\ Pipe(h)[j] = arrived[h][j]
  BY <1>1, <1>2, <1>3
<1>5. Ordered(Pipe(h))
  BY DEF OrderInv, FlowInv
<1> QED BY <1>4, <1>5 DEF Ordered

(* Two mails that one run of a host sent to the same host are delivered in   *)
(* the order in which they were sent, and no mail is delivered twice: the    *)
(* network (machine/network.cc) loses and refuses mails, and the post office *)
(* reorders and repeats none.  On every host at most one thread at a time is *)
(* in Send, and the worker is in step with the network device.  For any      *)
(* hosts, threads and scripts of sends and receives, and machines that stop. *)
THEOREM PostOrder == PostAssumption /\ SpecPost => []InOrder
<1>1. PostAssumption /\ SpecPost => []MailInOrder
  BY OrderInit, OrderStep, OrderSafe, PTL DEF SpecPost
<1>2. MailInOrder /\ OneSendAtATime /\ WorkerInStep => InOrder
  BY DEF InOrder
<1> QED BY <1>1, <1>2, PostSafe, PTL
=============================================================================
