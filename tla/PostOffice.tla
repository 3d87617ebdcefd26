----------------------------- MODULE PostOffice -----------------------------
(***************************************************************************)
(* Machines that send each other mail: the network device                  *)
(* (machine/network.cc) on datagram sockets of the host (lib/sysdep.cc),   *)
(* and the post office (network/post.cc), whose worker thread takes        *)
(* packets from the device to the mailboxes.                               *)
(*                                                                         *)
(* Locks, semaphores and the synchronized lists of the mailboxes are       *)
(* atomic here: see Monitor, Semaphores and SynchList.                     *)
(***************************************************************************)
EXTENDS Integers, Sequences

CONSTANTS
  Host,       \* the machines, each a process of the host system
  Client,     \* the threads that send and receive
  HostOf,     \* where they run
  Scripts,    \* what they may do: sequences of sends, receives and replies
  Box,        \* the mailboxes of a machine
  Tries,      \* how often SendToSocket tries
  QueueMax,   \* how many datagrams a socket of the host holds
  MaxStops,   \* how often each machine may stop and start again
  None

(* What a thread can do; a reply answers the last mail that it has received. *)
Operation ==
  [op : {"send"}, to : Host, box : Box, reply : Box]
  \cup [op : {"receive"}, box : Box]
  \cup [op : {"reply"}]

(* A mail: the PacketHeader and MailHeader, and who sent it when. *)
Mail == [from : Host, id : Nat, epoch : Nat, to : Host, box : Box, reply : Box]

PostAssumption ==
  /\ HostOf \in [Client -> Host]
  /\ 1 \in Box
  /\ Scripts \subseteq [Client -> Seq(Operation)]
  /\ \A s \in Scripts : \A t \in Client : s[t] # <<>> => s[t][1].op # "reply"
  /\ None \notin Client \cup Mail
  /\ {Tries, QueueMax} \subseteq Nat \ {0}
  /\ MaxStops \in [Host -> Nat]

VARIABLES
  script,        \* what the threads do, chosen at the start
  hostUp, stops,     \* the machine runs; how often it has stopped
  sock,          \* the socket of a machine: datagrams that have arrived
  inbox,         \* NetworkInput::inHdr and inbox, NULL when inHdr.length is 0
  messageAvailable,
  worker,        \* PostalDelivery: where it is, and the mail it has in hand
  boxes,         \* PostOfficeInput::boxes
  sendHolder,    \* the holder of PostOfficeOutput::sendLock
  messageSent,
  sendBusy,      \* NetworkOutput::sendBusy
  sending,       \* a NetworkSendInt is pending
  sendPlace, step,   \* where a thread is in Send, and in its script
  tries,         \* SendToSocket's retryCount
  mail,          \* the mail a thread sends, or has received last
  count,         \* how many packets a machine has sent (not in the code)
  arrived,       \* the mail put into the boxes of a machine (not in the code)
  dropped        \* a packet was lost or given up (not in the code)

postVars == <<script, hostUp, stops, sock, inbox, messageAvailable, worker, boxes, sendHolder, messageSent,
          sendBusy, sending, sendPlace, step, tries, mail, count, arrived, dropped>>
inVars == <<inbox, messageAvailable, worker, boxes, arrived>>
outVars == <<sendHolder, messageSent, sendBusy, sending, sendPlace, step, tries, mail, count, dropped>>

AtP == [at |-> "wait", mail |-> None]

InitPost ==
  /\ script \in Scripts
  /\ hostUp = [h \in Host |-> TRUE] /\ stops = [h \in Host |-> 0]
  /\ sock = [h \in Host |-> <<>>]
  /\ inbox = [h \in Host |-> None]
  /\ messageAvailable = [h \in Host |-> 0]
  /\ worker = [h \in Host |-> AtP]
  /\ boxes = [h \in Host |-> [b \in Box |-> <<>>]]
  /\ sendHolder = [h \in Host |-> None] /\ messageSent = [h \in Host |-> 0]
  /\ sendBusy = [h \in Host |-> FALSE] /\ sending = [h \in Host |-> FALSE]
  /\ sendPlace = [t \in Client |-> "ready"] /\ step = [t \in Client |-> 1]
  /\ tries = [t \in Client |-> 0]
  /\ mail = [t \in Client |-> None]
  /\ count = [h \in Host |-> 0] /\ arrived = [h \in Host |-> <<>>]
  /\ dropped = FALSE

(* SendToSocket, sendto and Delay stop the whole process. *)
Frozen(h) == \E t \in Client : HostOf[t] = h /\ sendPlace[t] = "socket"
Runs(h) == hostUp[h] /\ ~Frozen(h)
Current(t) == script[t][step[t]]
Active(t, op) == sendPlace[t] = "ready" /\ step[t] <= Len(script[t]) /\ Current(t).op = op

-----------------------------------------------------------------------------
(* The header of a new mail, or of a reply to the mailbox that the last mail *)
(* has named.                                                                *)
Header(t) ==
  LET new == Current(t).op = "send" IN
  [from |-> HostOf[t], id |-> 0, epoch |-> stops[HostOf[t]],
   to |-> IF new THEN Current(t).to ELSE mail[t].from,
   box |-> IF new THEN Current(t).box ELSE mail[t].reply,
   reply |-> IF new THEN Current(t).reply ELSE 1]

(* PostOfficeOutput::Send up to the lock. *)
Send(t) ==
  LET h == HostOf[t] IN
  /\ Runs(h)
  /\ Active(t, "send") \/ Active(t, "reply")
  /\ sendHolder[h] = None
  /\ sendHolder' = [sendHolder EXCEPT ![h] = t]
  /\ mail' = [mail EXCEPT ![t] = Header(t)]
  /\ sendPlace' = [sendPlace EXCEPT ![t] = "network"]
  /\ UNCHANGED <<hostUp, stops, sock, inVars, messageSent, sendBusy, sending, step, tries, count, dropped>>

(* NetworkOutput::Send: the interrupt is scheduled, and the packet may get   *)
(* lost before it is given to the socket.                                   *)
NetworkSend(t) ==
  LET h == HostOf[t] IN
  /\ Runs(h)
  /\ sendPlace[t] = "network"
  /\ ~sendBusy[h]
  /\ sending' = [sending EXCEPT ![h] = TRUE]
  /\ count' = [count EXCEPT ![h] = @ + 1]
  /\ mail' = [mail EXCEPT ![t].id = count[h] + 1]
  /\ tries' = [tries EXCEPT ![t] = 0]
  /\ \/ sendPlace' = [sendPlace EXCEPT ![t] = "socket"] /\ UNCHANGED dropped
     \/ sendPlace' = [sendPlace EXCEPT ![t] = "wait"] /\ dropped' = TRUE
  /\ UNCHANGED <<hostUp, stops, sock, inVars, sendHolder, messageSent, sendBusy, step>>

(* Mutant: a retry sends the packet again although it was sent. *)
SendTwice(t) ==
  LET h == HostOf[t]
      to == mail[t].to IN
  /\ hostUp[h]
  /\ sendPlace[t] = "socket"
  /\ hostUp[to] /\ Len(sock[to]) < QueueMax
  /\ sock' = [sock EXCEPT ![to] = Append(@, mail[t])]
  /\ \/ sendPlace' = [sendPlace EXCEPT ![t] = "wait"] /\ UNCHANGED tries
     \/ tries[t] = 0 /\ tries' = [tries EXCEPT ![t] = 1] /\ UNCHANGED sendPlace
  /\ UNCHANGED <<hostUp, stops, inVars, sendHolder, messageSent, sendBusy, sending, step, mail, count, dropped>>

(* A round of SendToSocket: sendto blocks while the socket of the other     *)
(* machine is full, and fails when there is none; the packet is dropped     *)
(* after the last try.                                                      *)
SendToSocket(t) ==
  LET h == HostOf[t]
      to == mail[t].to IN
  /\ hostUp[h]
  /\ sendPlace[t] = "socket"
  /\ IF hostUp[to]
     THEN /\ Len(sock[to]) < QueueMax
          /\ sock' = [sock EXCEPT ![to] = Append(@, mail[t])]
          /\ sendPlace' = [sendPlace EXCEPT ![t] = "wait"]
          /\ UNCHANGED <<tries, dropped>>
     ELSE /\ tries' = [tries EXCEPT ![t] = @ + 1]
          /\ sendPlace' = [sendPlace EXCEPT ![t] = IF tries[t] + 1 = Tries THEN "wait" ELSE "socket"]
          /\ dropped' = IF tries[t] + 1 = Tries THEN TRUE ELSE dropped
          /\ UNCHANGED sock
  /\ UNCHANGED <<hostUp, stops, inVars, sendHolder, messageSent, sendBusy, sending, step, mail, count>>

(* messageSent->P(), sendLock->Release() and the return. *)
SendReturns(t) ==
  LET h == HostOf[t] IN
  /\ Runs(h)
  /\ sendPlace[t] = "wait"
  /\ messageSent[h] > 0
  /\ messageSent' = [messageSent EXCEPT ![h] = @ - 1]
  /\ sendHolder' = [sendHolder EXCEPT ![h] = None]
  /\ sendPlace' = [sendPlace EXCEPT ![t] = "ready"]
  /\ step' = [step EXCEPT ![t] = @ + 1]
  /\ UNCHANGED <<hostUp, stops, sock, inVars, sendBusy, sending, tries, mail, count, dropped>>

(* NetworkOutput::CallBack and PostOfficeOutput::CallBack *)
SendCallBack(h) ==
  /\ Runs(h)
  /\ sending[h]
  /\ sending' = [sending EXCEPT ![h] = FALSE]
  /\ sendBusy' = [sendBusy EXCEPT ![h] = FALSE]
  /\ messageSent' = [messageSent EXCEPT ![h] = @ + 1]
  /\ UNCHANGED <<hostUp, stops, sock, inVars, sendHolder, sendPlace, step, tries, mail, count, dropped>>

-----------------------------------------------------------------------------
(* NetworkInput::CallBack that finds the buffer free and a packet, and      *)
(* PostOfficeInput::CallBack; otherwise it only polls again.                *)
RecvCallBack(h) ==
  /\ Runs(h)
  /\ inbox[h] = None
  /\ sock[h] # <<>>
  /\ inbox' = [inbox EXCEPT ![h] = Head(sock[h])]
  /\ sock' = [sock EXCEPT ![h] = Tail(@)]
  /\ messageAvailable' = [messageAvailable EXCEPT ![h] = @ + 1]
  /\ UNCHANGED <<hostUp, stops, worker, boxes, arrived, outVars>>

(* Mutant: PostalDelivery puts one mail and returns. *)
WorkerPOnce(h) ==
  /\ worker[h].at = "wait"
  /\ messageAvailable[h] > 0
  /\ arrived[h] = <<>>
  /\ messageAvailable' = [messageAvailable EXCEPT ![h] = @ - 1]
  /\ worker' = [worker EXCEPT ![h].at = "receive"]
  /\ UNCHANGED <<inbox, boxes, arrived>>

(* PostalDelivery: messageAvailable->P() *)
WorkerP(h) ==
  /\ worker[h].at = "wait"
  /\ messageAvailable[h] > 0
  /\ messageAvailable' = [messageAvailable EXCEPT ![h] = @ - 1]
  /\ worker' = [worker EXCEPT ![h].at = "receive"]
  /\ UNCHANGED <<inbox, boxes, arrived>>

(* NetworkInput::Receive *)
WorkerReceive(h) ==
  /\ worker[h].at = "receive"
  /\ worker' = [worker EXCEPT ![h] = [at |-> "put", mail |-> inbox[h]]]
  /\ inbox' = [inbox EXCEPT ![h] = None]
  /\ UNCHANGED <<messageAvailable, boxes, arrived>>

(* MailBox::Put *)
Put(h) ==
  /\ worker[h].at = "put"
  /\ boxes' = [boxes EXCEPT ![h][worker[h].mail.box] = Append(@, worker[h].mail)]
  /\ arrived' = [arrived EXCEPT ![h] = Append(@, worker[h].mail)]
  /\ worker' = [worker EXCEPT ![h] = AtP]
  /\ UNCHANGED <<inbox, messageAvailable>>

PostalDelivery(h) ==
  /\ Runs(h)
  /\ WorkerP(h) \/ WorkerReceive(h) \/ Put(h)
  /\ UNCHANGED <<hostUp, stops, sock, outVars>>

(* MailBox::Get: the first mail of the box, once there is one. *)
Get(t, h, box) ==
  /\ boxes[h][box] # <<>>
  /\ mail' = [mail EXCEPT ![t] = Head(boxes[h][box])]
  /\ boxes' = [boxes EXCEPT ![h][box] = Tail(@)]

(* PostOfficeInput::Receive *)
Receive(t) ==
  LET h == HostOf[t] IN
  /\ Runs(h)
  /\ Active(t, "receive")
  /\ Get(t, h, Current(t).box)
  /\ step' = [step EXCEPT ![t] = @ + 1]
  /\ UNCHANGED <<hostUp, stops, sock, inbox, messageAvailable, worker, arrived, sendHolder,
                 messageSent, sendBusy, sending, sendPlace, tries, count, dropped>>

-----------------------------------------------------------------------------
(* A machine stops, and its socket is closed with what is in it: nothing of *)
(* its state is left.                                                       *)
Stop(h) ==
  /\ hostUp[h] /\ stops[h] < MaxStops[h]
  /\ hostUp' = [hostUp EXCEPT ![h] = FALSE]
  /\ stops' = [stops EXCEPT ![h] = @ + 1]
  /\ sock' = [sock EXCEPT ![h] = <<>>]
  /\ inbox' = [inbox EXCEPT ![h] = None]
  /\ messageAvailable' = [messageAvailable EXCEPT ![h] = 0]
  /\ worker' = [worker EXCEPT ![h] = AtP]
  /\ boxes' = [boxes EXCEPT ![h] = [b \in Box |-> <<>>]]
  /\ arrived' = [arrived EXCEPT ![h] = <<>>]
  /\ sendHolder' = [sendHolder EXCEPT ![h] = None]
  /\ messageSent' = [messageSent EXCEPT ![h] = 0]
  /\ sendBusy' = [sendBusy EXCEPT ![h] = FALSE]
  /\ sending' = [sending EXCEPT ![h] = FALSE]
  /\ count' = [count EXCEPT ![h] = 0]
  /\ sendPlace' = [t \in Client |-> IF HostOf[t] = h THEN "ready" ELSE sendPlace[t]]
  /\ step' = [t \in Client |-> IF HostOf[t] = h THEN 1 ELSE step[t]]
  /\ tries' = [t \in Client |-> IF HostOf[t] = h THEN 0 ELSE tries[t]]
  /\ mail' = [t \in Client |-> IF HostOf[t] = h THEN None ELSE mail[t]]
  /\ UNCHANGED dropped

(* It starts again: NetworkInput's constructor binds the name to a socket. *)
Start(h) ==
  /\ ~hostUp[h]
  /\ hostUp' = [hostUp EXCEPT ![h] = TRUE]
  /\ UNCHANGED <<stops, sock, inVars, outVars>>

ThreadStep(t) == Send(t) \/ NetworkSend(t) \/ SendToSocket(t) \/ SendReturns(t) \/ Receive(t)
HostStep(h) == SendCallBack(h) \/ RecvCallBack(h)

(* What the machines do as long as they run. *)
Work ==
  /\ UNCHANGED script
  /\ \/ \E t \in Client : ThreadStep(t)
     \/ \E h \in Host : HostStep(h) \/ PostalDelivery(h)

NextPost == Work \/ \E h \in Host : UNCHANGED script /\ (Stop(h) \/ Start(h))

SpecPost == InitPost /\ [][NextPost]_postVars

-----------------------------------------------------------------------------
(* Properties.                                                              *)

(* The worker and the device agree: whenever the worker calls Receive there  *)
(* is a packet for it, no packet is overwritten before it is taken, and none *)
(* is there that the worker was not told of.                                 *)
WorkerInStep ==
  \A h \in Host :
    (inbox[h] # None) <=> messageAvailable[h] = 1 \/ worker[h].at = "receive"

(* Mail from one machine arrives in the order in which it was sent, and at   *)
(* most once, although packets get lost, machines stop and start again, and  *)
(* SendToSocket tries again.                                                 *)
MailInOrder ==
  \A h \in Host : \A i, j \in DOMAIN arrived[h] :
    LET m == arrived[h][i]
        n == arrived[h][j]
    IN  i < j /\ m.from = n.from /\ m.epoch = n.epoch => m.id < n.id

(* sendLock covers the packet from the call to its interrupt: the thread that *)
(* holds it is the only one of its machine that is in a Send.                 *)
OneSendAtATime ==
  \A h \in Host :
    {t \in Client : HostOf[t] = h /\ sendPlace[t] # "ready"}
      = IF sendHolder[h] = None THEN {} ELSE {sendHolder[h]}

(* What PostOffice promises: order, and nothing twice, which rests on the     *)
(* worker being in step with the device and on one Send at a time.           *)
InOrder == MailInOrder /\ WorkerInStep /\ OneSendAtATime

(* The threads come to the end of their scripts, unless a packet is lost or a *)
(* machine stops: the mail and the acknowledgements of NetworkTest are        *)
(* delivered.                                                                 *)
TestEnds ==
  <>(\/ \A t \in Client : step[t] = Len(script[t]) + 1
     \/ dropped
     \/ \E h \in Host : stops[h] > 0)
=============================================================================
