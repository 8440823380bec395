------------------------------ MODULE SmsSend ------------------------------
(***************************************************************************)
(* Sending short messages: the queue of the clients' messages, the state   *)
(* machine that sends the PDUs of the first one, and the segmentation      *)
(* store, which remembers how many PDUs of a message have gone, so that a  *)
(* message that is sent again (with the same log id) goes on from there.   *)
(* Source: smsprotocols/smsstack/smsprot/Src/smspqueue.cpp                 *)
(* (CSmspMessageQueue, CSmspSendQueue), smspsend.cpp (CSmsMessageSend),    *)
(* smspstor.cpp (CSmsSegmentationStore), smsprot.cpp (CSmsProtocol).       *)
(*                                                                         *)
(* Left out: commands, status reports and the numbers of references.       *)
(***************************************************************************)
EXTENDS Naturals, SequencesExt

CONSTANTS
  Client,       \* sockets; each has one message to send
  Size,         \* the number of PDUs of its message
  Known,        \* clients that send their message with its log id
  MaxTries,     \* bound: how often a client sends its message
  Fault,        \* what may go wrong
  None

Faults == {"bearer_error", "no_log", "log_error", "no_memory", "send_error",
           "disk_full", "timeout", "cancel", "purge", "power"}

ASSUME SendAssumption ==
  /\ Size \in [Client -> Nat \ {0}] /\ Known \subseteq Client
  /\ MaxTries \in Nat /\ Fault \subseteq Faults
  /\ None \notin Client \cup Nat \cup {"ok", "error", "cancel", "waiting"}

VARIABLES
  alive,       \* the stack has not panicked
  on,          \* the modem is on (CheckPoweredUp)
  queue,       \* iMessageQueue, by the observers of its messages
  active,      \* the queue is active
  signal,      \* what CSmsMessageSend has completed it with
  st,          \* iState of CSmsMessageSend
  cur,         \* iSmsMessage
  status,      \* iStatus, where the machine has completed itself
  sendError,   \* iSendError
  sent,        \* iSmsPDUData.iSent
  encoded,     \* the length of iSmsArray
  logged,      \* the log event has an id
  store,       \* the segmentation store: how many PDUs of a message have gone
  answer,      \* what a client's request completed with
  tries,       \* how often a client has sent its message
  accepted,    \* the PDUs the TSY has accepted since the message was segmented anew
  unrecorded,  \* messages with an accepted PDU that could not be recorded
  stranded     \* messages left in the queue when the modem went down

machine == <<st, cur, status, sendError, sent, encoded, logged>>
record == <<store, accepted, unrecorded>>
line == <<queue, active, signal>>
clients == <<answer, tries>>
vars == <<alive, on, line, machine, record, clients, stranded>>

Result == {"ok", "error", "cancel"}
State == {"Idle", "SetBearer", "CreatingLog", "Segmenting", "SendPDU",
          "UpdatingStore", "UpdatingLog"}

SendTypeOK ==
  /\ {alive, on, active, logged} \subseteq BOOLEAN
  /\ queue \in Seq(Client) /\ signal \in Result \cup {None}
  /\ st \in State /\ cur \in Client \cup {None}
  /\ status \in {"ok", "error"} /\ sendError \in {"ok", "error"}
  /\ sent \in Nat /\ encoded \in Nat
  /\ store \in [Client -> Nat \cup {None}]
  /\ answer \in [Client -> Result \cup {None, "waiting"}] /\ tries \in [Client -> 0..MaxTries]
  /\ accepted \in [Client -> SUBSET Nat]
  /\ unrecorded \subseteq Client /\ stranded \subseteq Client

Init ==
  /\ alive = TRUE /\ on = TRUE
  /\ queue = <<>> /\ active = FALSE /\ signal = None
  /\ st = "Idle" /\ cur = None /\ status = "ok" /\ sendError = "ok"
  /\ sent = 0 /\ encoded = 0 /\ logged = FALSE
  /\ store = [c \in Client |-> None] /\ accepted = [c \in Client |-> {}] /\ unrecorded = {}
  /\ answer = [c \in Client |-> None] /\ tries = [c \in Client |-> 0]
  /\ stranded = {}

-----------------------------------------------------------------------------
\* The queue starts the machine with its first message, and the bearer is set (the
\* settings are taken to be readable).  While the modem is off the handle to the
\* TSY is closed and ETel panics its client.
Start(q) ==
  IF q = <<>> THEN active' = FALSE /\ signal' = None /\ UNCHANGED machine
  ELSE /\ active' = TRUE /\ signal' = None
       /\ st' = "SetBearer" /\ cur' = Head(q)
       /\ sendError' = "ok" /\ sent' = 0 /\ encoded' = 0 /\ logged' = FALSE
       /\ UNCHANGED status
MayStart(q) == q = <<>> \/ on

\* CSmsMessageSend::Complete deletes as many PDUs as it has sent from its array,
\* which panics when there are not that many in it.
MayComplete == sent <= encoded
Complete(result) ==
  /\ st' = "Idle" /\ signal' = result /\ alive' = MayComplete
  /\ UNCHANGED <<queue, active, cur, status, sent, encoded, logged>>

SendNextPDU ==
  \/ /\ sent < encoded /\ st' = "SendPDU"
     /\ UNCHANGED <<alive, line, cur, status, sendError, sent, encoded, logged>>
  \/ sent >= encoded /\ Complete("ok") /\ UNCHANGED sendError

\* The message cannot be sent: the log says so before the client does.
Failed ==
  /\ sendError' = "error"
  /\ \/ /\ logged /\ st' = "UpdatingLog"
        /\ UNCHANGED <<alive, line, cur, status, sent, encoded, logged>>
     \/ ~logged /\ Complete("error")

-----------------------------------------------------------------------------
\* DoSegmentMessageL.  A message with a log id that has been sent in part goes on
\* where it stopped; the entry of one that has been sent is replaced.
Found(c) == c \in Known /\ store[c] # None /\ store[c] < Size[c]
StartsAt(c) == IF Found(c) THEN store[c] ELSE 0

SegmentMessage ==
  /\ st' = "Segmenting"
  /\ UNCHANGED <<alive, line, cur, sendError>>
  /\ \/ /\ status' = "ok" /\ sent' = StartsAt(cur) /\ encoded' = Size[cur]
        /\ store' = [store EXCEPT ![cur] = StartsAt(cur)]
        /\ accepted' = [accepted EXCEPT ![cur] = IF Found(cur) THEN @ ELSE {}]
        /\ unrecorded' = IF Found(cur) THEN unrecorded ELSE unrecorded \ {cur}
     \/ /\ "no_memory" \in Fault /\ status' = "error"
        /\ sent' \in {0, StartsAt(cur)} /\ encoded' \in 0..Size[cur]
        /\ store' = [store EXCEPT ![cur] = IF Found(cur) THEN @ ELSE None]
        /\ UNCHANGED <<accepted, unrecorded>>

BearerSet ==
  /\ st = "SetBearer"
  /\ UNCHANGED <<on, clients, stranded>>
  /\ \/ /\ st' = "CreatingLog"
        /\ UNCHANGED <<alive, line, cur, status, sendError, sent, encoded, logged, record>>
     \/ "no_log" \in Fault /\ SegmentMessage /\ UNCHANGED logged
     \/ "bearer_error" \in Fault /\ Complete("error") /\ UNCHANGED <<sendError, record>>

LogCreated ==
  /\ st = "CreatingLog"
  /\ SegmentMessage
  /\ logged' = TRUE \/ ("log_error" \in Fault /\ logged' = FALSE)
  /\ UNCHANGED <<on, clients, stranded>>

Segmented ==
  /\ st = "Segmenting"
  /\ (status = "ok" /\ SendNextPDU) \/ (status = "error" /\ Failed)
  /\ UNCHANGED <<on, record, clients, stranded>>

\* The TSY has sent a PDU, and UpdateSegmentationStore counts it, or it has not.
\* When the submit report cannot be decoded DoRunL leaves, and the message ends.
RecordBefore ==                                                   \* mutant
  /\ st' = "UpdatingStore" /\ sent' = sent + 1 /\ status' = "ok"
  /\ accepted' = [accepted EXCEPT ![cur] = @ \cup {sent + 1}]
  /\ store' = [store EXCEPT ![cur] = sent] /\ UNCHANGED unrecorded
Record ==
  /\ st' = "UpdatingStore" /\ sent' = sent + 1
  /\ accepted' = [accepted EXCEPT ![cur] = @ \cup {sent + 1}]
  /\ \/ /\ status' = "ok" /\ store' = [store EXCEPT ![cur] = @ + 1] /\ UNCHANGED unrecorded
     \/ /\ "disk_full" \in Fault /\ status' = "error"
        /\ unrecorded' = unrecorded \cup {cur} /\ UNCHANGED store
PDUSent ==
  /\ st = "SendPDU"
  /\ \/ Record /\ UNCHANGED <<alive, line, cur, sendError, encoded, logged>>
     \/ "send_error" \in Fault /\ Failed /\ UNCHANGED record
     \/ "no_memory" \in Fault /\ Complete("error") /\ UNCHANGED <<sendError, record>>
  /\ UNCHANGED <<on, clients, stranded>>

StoreUpdated ==
  /\ st = "UpdatingStore"
  /\ \/ /\ status = "ok" /\ logged /\ st' = "UpdatingLog"
        /\ UNCHANGED <<alive, line, cur, status, sendError, sent, encoded, logged>>
     \/ status = "ok" /\ ~logged /\ SendNextPDU
     \/ status = "error" /\ Failed
  /\ UNCHANGED <<on, record, clients, stranded>>

\* Whatever the log server says; a saved error ends the message.
LogUpdatedAlways ==                                               \* mutant
  /\ st = "UpdatingLog" /\ Complete("ok") /\ UNCHANGED sendError
  /\ UNCHANGED <<on, record, clients, stranded>>
LogUpdated ==
  /\ st = "UpdatingLog"
  /\ \/ sendError = "ok" /\ SendNextPDU
     \/ sendError = "error" /\ Complete("error") /\ UNCHANGED sendError
  /\ UNCHANGED <<on, record, clients, stranded>>

\* The TSY takes too long: CSmsuTimeout cancels the machine.
Timeout ==
  /\ "timeout" \in Fault /\ st = "SendPDU"
  /\ Complete("error")
  /\ UNCHANGED <<on, sendError, record, clients, stranded>>

-----------------------------------------------------------------------------
\* PurgeL of the segmentation store: entries that are complete, old or too many go.
Purge ==
  \E gone \in SUBSET Client :
    /\ gone # {} => "purge" \in Fault
    /\ store' = [c \in Client |-> IF c \in gone THEN None ELSE store[c]]

\* RunL of the queue: the first client gets its answer, the next message starts.
\* When the last one is done the store is purged now and then.
RunL ==
  /\ active /\ signal # None
  /\ answer' = [answer EXCEPT ![Head(queue)] = signal]
  /\ stranded' = stranded \ {Head(queue)}
  /\ queue' = Tail(queue) /\ Start(queue') /\ alive' = MayStart(queue')
  /\ IF Tail(queue) = <<>> THEN Purge ELSE UNCHANGED store
  /\ UNCHANGED <<on, accepted, unrecorded, tries>>

SendSmsMessage(c) ==
  /\ answer[c] # "waiting" /\ tries[c] < MaxTries
  /\ tries' = [tries EXCEPT ![c] = @ + 1]
  /\ \/ /\ on
        /\ answer' = [answer EXCEPT ![c] = "waiting"]
        /\ queue' = Append(queue, c)
        /\ IF active THEN UNCHANGED <<active, signal, machine>> ELSE Start(queue')
        /\ UNCHANGED alive
     \/ /\ ~on \/ "no_memory" \in Fault
        /\ answer' = [answer EXCEPT ![c] = "error"]
        /\ UNCHANGED <<alive, line, machine>>
  /\ UNCHANGED <<on, record, stranded>>

Without(q, c) ==
  IF c \in Range(q) THEN RemoveAt(q, CHOOSE n \in DOMAIN q : q[n] = c) ELSE q

\* CompleteRequest with KErrCancel for client c: CancelRequestIfObserved stops the
\* machine if the message is the one it works on.
CancelRequestIfActive(c) ==                                       \* mutant
  /\ queue' = Without(queue, c)
  /\ UNCHANGED <<alive, active, signal, machine>>
StopsMachine(c) == active /\ Head(queue) = c
MayCancel(c) == StopsMachine(c) => st = "Idle" \/ MayComplete
CompleteRequest(c) ==
  /\ queue' = Without(queue, c)
  /\ alive' = MayCancel(c)
  /\ IF StopsMachine(c)
     THEN /\ active' = FALSE /\ signal' = None /\ st' = "Idle"
          /\ UNCHANGED <<cur, status, sendError, sent, encoded, logged>>
     ELSE UNCHANGED <<active, signal, machine>>

\* CancelObserver: the client cancels its request or closes its socket.  If the
\* queue has stopped, or is not running, it starts again.
CancelObserverOnly(c) ==                                          \* mutant
  /\ "cancel" \in Fault /\ answer[c] = "waiting"
  /\ answer' = [answer EXCEPT ![c] = "cancel"] /\ stranded' = stranded \ {c}
  /\ CompleteRequest(c)
  /\ UNCHANGED <<on, record, tries>>
CancelObserver(c) ==
  /\ "cancel" \in Fault /\ answer[c] = "waiting"
  /\ answer' = [answer EXCEPT ![c] = "cancel"] /\ stranded' = stranded \ {c}
  /\ LET rest == Without(queue, c) IN
     IF rest # <<>> /\ (~active \/ StopsMachine(c))
     THEN queue' = rest /\ Start(rest) /\ alive' = (MayStart(rest) /\ MayCancel(c))
     ELSE CompleteRequest(c)
  /\ UNCHANGED <<on, record, tries>>

\* PowerDown cancels the queue: DoCancel completes the first message only.
PowerDown ==
  /\ "power" \in Fault /\ on /\ on' = FALSE
  /\ IF active
     THEN /\ answer' = [answer EXCEPT ![Head(queue)] = "cancel"]
          /\ CompleteRequest(Head(queue))
     ELSE UNCHANGED <<alive, line, machine, answer>>
  /\ stranded' = Range(queue')
  /\ UNCHANGED <<record, tries>>
\* DoPowerUpL opens the stores and purges this one.
PowerUp ==
  /\ ~on /\ on' = TRUE
  /\ Purge
  /\ UNCHANGED <<alive, line, machine, accepted, unrecorded, clients, stranded>>

-----------------------------------------------------------------------------
Steps == \/ BearerSet \/ LogCreated \/ Segmented \/ PDUSent \/ StoreUpdated \/ LogUpdated
         \/ RunL
Next ==
  /\ alive
  /\ \/ Steps \/ Timeout \/ PowerDown \/ PowerUp
     \/ \E c \in Client : SendSmsMessage(c) \/ CancelObserver(c)

Spec == Init /\ [][Next]_vars
\* Requests complete, and an active object whose request has completed runs.
FairSpec == Spec /\ WF_vars(alive /\ Steps)

-----------------------------------------------------------------------------
\* A client is told KErrNone only when the TSY has accepted every PDU of its
\* message, over however many attempts the segmentation store has counted.
SentMeansSent == \A c \in Client : answer[c] = "ok" => accepted[c] = 1..Size[c]

\* A PDU the TSY has accepted is not sent again with the message, unless the store
\* could not record it: sending again costs money and arrives twice.
NothingSentTwice ==
  st = "SendPDU" /\ sent + 1 \in accepted[cur] => cur \in unrecorded

\* While the machine is at work its message is the first of the queue: the queue
\* deletes a message when its client is answered, and the machine has a reference.
WorksForFirst ==
  alive /\ st # "Idle" => active /\ queue # <<>> /\ cur = Head(queue)

\* A request to send is answered, unless it was in the queue behind another when
\* the modem went down.
SendsAnswered ==
  \A c \in Client :
    answer[c] = "waiting" ~> answer[c] # "waiting" \/ c \in stranded \/ ~alive
=============================================================================
