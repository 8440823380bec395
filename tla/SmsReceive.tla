----------------------------- MODULE SmsReceive -----------------------------
(***************************************************************************)
(* Receiving short messages: the PDU reader, the reassembly store and the  *)
(* sockets of the SMS stack.  A PDU is stored before it is acknowledged,   *)
(* a complete message is handed to the observer it is addressed to, and    *)
(* its entry stays in the store until the client confirms it has read it.  *)
(* When too many complete messages wait the TSY is told to hold messages   *)
(* back until ResumeSmsReception.                                          *)
(* Source: smsprotocols/smsstack/smsprot/Src/smspread.cpp (CSmsPDURead),   *)
(* smspproc.cpp (CSmsPDUProcessor), smspfacadestor.cpp and smspstor.cpp    *)
(* (the store), smsprot.cpp (CSmsProtocol), smsprov.cpp (CSmsProvider).    *)
(*                                                                         *)
(* Left out: enumeration of the SIM, the separate class 0 store, status    *)
(* reports, and two messages with one concatenation reference.             *)
(***************************************************************************)
EXTENDS Naturals, FiniteSets

CONSTANTS
  Msg,
  Parts,          \* the number of PDUs of a message
  Discarded,      \* messages whose PDUs do not decode or are of type 0
  Observer,       \* sockets and the WAP protocol
  RecvAny,        \* the client that receives any message (ESmsAddrRecvAny)
  PortOf,         \* the observer a message is addressed to, RecvAny when to no port
  Confirming,     \* ClientConfirmsMessage: sockets do, the WAP protocol does not
  Unserved,       \* WAP observers with no application at their port
  Stamp,          \* the receive times of a message: with it the name of an entry
  MaxComplete,    \* iMaxmumNumberOfCompleteMessagesInReassemblyStore
  Fault,          \* what may go wrong
  None

Faults == {"ack_error", "ack_timeout", "log_error", "mode_error", "resume_error",
           "disk_full", "no_memory", "client_memory", "purge", "notify_error",
           "receive_error", "not_supported", "power", "offline", "crash", "close"}

ASSUME MessageAssumption ==
  /\ Parts \in [Msg -> Nat \ {0}] /\ Discarded \subseteq Msg
  /\ PortOf \in [Msg -> Observer] /\ RecvAny \in Confirming /\ Confirming \subseteq Observer
  /\ Unserved \subseteq Observer \ Confirming
ASSUME BoundAssumption == MaxComplete \in Nat /\ Fault \subseteq Faults
ASSUME NoneAssumption == None \notin Observer /\ None \notin Msg \X Stamp
                         /\ None \notin [parts : SUBSET Nat, passed : BOOLEAN]

Segment == UNION {{m} \X (1..Parts[m]) : m \in Msg}
Bad == {seg \in Segment : seg[1] \in Discarded}
Id == Msg \X Stamp
Entry == [parts : SUBSET Nat, passed : BOOLEAN]
Processor == [seg : Segment, id : Id \cup {None}, complete : BOOLEAN]
ASSUME ProcessorAssumption == None \notin Processor

VARIABLES
  net,         \* PDUs the network has had no positive answer for
  held,        \* TSY: told to hold messages back
  power,       \* iState of the protocol, and how far the phone is initialised
  booting,     \* iBootTimer is active
  bound,       \* observers with a local address
  copies,      \* iRecvBufSegArray: messages a socket has for its client
  store,       \* the reassembly store
  st,          \* iState of the reader; "Idle" whenever it is not active
  pdu,         \* iPduProcessor
  suspended,   \* iSmsReceptionSupended
  delayed,     \* iDelayedResumeSmsReceptionRequired
  monitor,     \* iState of CSmsMonitorDiskSpace
  nackd,       \* iNAckdClassOther
  done,        \* messages a client has confirmed, or the WAP protocol has taken
  expired      \* messages of which a purge has deleted something

phone == <<net, held>>
protocol == <<power, booting, bound>>
reader == <<st, pdu, suspended, delayed>>
disk == <<monitor, nackd>>
mail == <<store, copies, done, expired>>
Watch == INSTANCE DiskWatch     \* the disk monitor (see SmsDiskMonitor)

vars == <<phone, protocol, reader, disk, mail>>

Reporting == {"Accept", "Absorb", "InvalidNack", "OOMNack"}
State == {"Idle", "SetReceiveMode", "Resume", "Waiting", "Logging", "WaitTimer"} \cup Reporting

TypeOK ==
  /\ net \subseteq Segment /\ held \in BOOLEAN
  /\ power \in {"off", "init", "ready", "on"} /\ booting \in BOOLEAN
  /\ bound \subseteq Observer
  /\ copies \in [Observer \X Id -> Nat]
  /\ store \in [Id -> Entry \cup {None}]
  /\ st \in State /\ pdu \in Processor \cup {None}
  /\ {suspended, delayed} \subseteq BOOLEAN
  /\ monitor \in {"Idle", "Monitor", "Resume"} /\ nackd \in BOOLEAN
  /\ done \subseteq Msg /\ expired \subseteq Msg

Init ==
  /\ net = Segment /\ held = FALSE
  /\ power = "off" /\ booting = TRUE /\ bound = {}
  /\ copies = [c \in Observer \X Id |-> 0]
  /\ store = [i \in Id |-> None]
  /\ st = "Idle" /\ pdu = None /\ suspended = FALSE /\ delayed = FALSE
  /\ monitor = "Idle" /\ nackd = FALSE
  /\ done = {} /\ expired = {}

-----------------------------------------------------------------------------
\* The reassembly store.

Complete(s, i) == s[i] # None /\ s[i].parts = 1..Parts[i[1]]
IsFullOneLater(s) ==                                              \* mutant
  Cardinality({i \in Id : Complete(s, i)}) > MaxComplete + 1
IsFull(s) == Cardinality({i \in Id : Complete(s, i)}) > MaxComplete

\* CreateEntryL gives every entry a receive time of its own, as long as nobody turns
\* the clock back.
Fresh(i) == /\ store[i] = None
            /\ \A o \in Observer : copies[<<o, i>>] = 0
            /\ pdu # None => pdu.id # i

\* MatchPDUToExistingMessage: the incomplete entry of a message of several PDUs.
Match(m) == {i \in {m} \X Stamp : store[i] # None /\ ~Complete(store, i)}

\* AddSegmentToNonClass0ReassemblyStoreL puts PDU seg into entry i, a new one
\* unless an incomplete one matches.  A PDU that is there already is not added.
MatchesUnlessRepeated(seg) ==                                     \* mutant
  \E i \in Match(seg[1]) : Parts[seg[1]] > 1 /\ seg[2] \notin store[i].parts
Matches(seg) == Parts[seg[1]] > 1 /\ Match(seg[1]) # {}
Into(seg, i) ==
  i[1] = seg[1] /\ IF Matches(seg) THEN i \in Match(seg[1]) ELSE Fresh(i)
AddSegmentAlone(seg, i) ==                                        \* mutant
  [store EXCEPT ![i] = [parts |-> {seg[2]}, passed |-> FALSE]]
AddSegment(seg, i) ==
  [store EXCEPT ![i] = [parts |-> IF Matches(seg) THEN @.parts \cup {seg[2]} ELSE {seg[2]},
                        passed |-> FALSE]]

-----------------------------------------------------------------------------
\* Handing messages to the observers.

\* MatchSmsMessageToObserver: a port goes before the client that receives any
\* message, and that one gets no port message before the boot timer has expired.  A
\* WAP observer that answers KErrNotFound leaves the message to it as well.
TargetOf(m, observers, boot) ==
  IF PortOf[m] \in observers \ Unserved THEN PortOf[m]
  ELSE IF RecvAny \in observers /\ (PortOf[m] = RecvAny \/ ~boot) THEN RecvAny ELSE None
Target(m) == TargetOf(m, bound', booting')

\* ProcessMessageL for the messages ids, from store s, buffers c and history d:
\* a socket keeps a copy and the entry is marked, the WAP protocol takes the
\* message and the entry is deleted.  Entries in gone are purged.
ProcessMessages(ids, s, c, d, gone) ==
  LET kept == {i \in ids : Target(i[1]) \in Confirming} IN
  /\ store' = [i \in Id |-> IF i \in gone \cup (ids \ kept) THEN None
                            ELSE IF i \in kept /\ s[i] # None
                                 THEN [s[i] EXCEPT !.passed = TRUE] ELSE s[i]]
  /\ copies' = [x \in Observer \X Id |->
                  IF x[2] \in kept /\ Target(x[2][1]) = x[1] THEN c[x] + 1 ELSE c[x]]
  /\ done' = d \cup {i[1] : i \in ids \ kept}
  /\ expired' = expired \cup {i[1] : i \in gone}

\* Those of ids that an observer takes; a socket may be out of memory.
Taken(ids, taken) ==
  LET able == {i \in ids : Target(i[1]) # None} IN
  IF "client_memory" \in Fault THEN taken \subseteq able ELSE taken = able

\* ProcessCompleteSmsMessagesL takes what is complete and not handed on yet, but
\* not the message the reader is working on (CurrentMessage).
UnpassedOrPassed(s) == {i \in Id : Complete(s, i)}                \* mutant
Unpassed(s) == {i \in Id : /\ Complete(s, i) /\ ~s[i].passed
                           /\ pdu # None => pdu.id # i}
ProcessComplete(s, c, d, gone) ==
  \E taken \in SUBSET Unpassed(s) :
    Taken(Unpassed(s), taken) /\ ProcessMessages(taken, s, c, d, gone)

-----------------------------------------------------------------------------
\* The reader's own steps.

\* What the reader does next: ResumeSmsReception when it is not active, Receive.
Resume == st' = "Resume" /\ suspended' = FALSE /\ delayed' = FALSE
Receive == IF delayed THEN Resume ELSE st' = "Waiting" /\ UNCHANGED <<suspended, delayed>>

\* Complete, in any state but SetReceiveMode and Accept.
Done ==
  /\ pdu' = None
  /\ IF IsFull(store') THEN st' = "Idle" /\ UNCHANGED <<suspended, delayed>> ELSE Receive

\* ResumeSmsReception called by a client that has read a message.
ResumeSmsReceptionIfIdle ==                                       \* mutant
  IF st = "Idle" THEN Resume ELSE UNCHANGED <<st, suspended, delayed>>
ResumeSmsReception ==
  IF st = "Idle" THEN Resume
  ELSE delayed' = (delayed \/ suspended) /\ UNCHANGED <<st, suspended>>

SetReceiveModeDone ==
  /\ st = "SetReceiveMode"
  /\ \/ Resume
     \/ "mode_error" \in Fault /\ st' = "Idle" /\ UNCHANGED <<suspended, delayed>>
  /\ UNCHANGED <<phone, protocol, pdu, disk, mail>>

ResumeDone ==
  /\ st = "Resume"
  /\ UNCHANGED <<net, protocol, disk, mail>>
  /\ \/ held' = FALSE /\ Receive /\ UNCHANGED pdu
     \/ "resume_error" \in Fault /\ Done /\ UNCHANGED held

\* SendDeliverReport: the PDU is answered, and the TSY told whether the store is full.
Report(state, seg, i, s) ==
  /\ st' = state
  /\ pdu' = [seg |-> seg, id |-> i, complete |-> i # None /\ Complete(s, i)]
  /\ LET full == state \in {"Accept", "Absorb"} /\ IsFull(s) IN
     /\ suspended' = (suspended \/ full)
     /\ held' = (held \/ full \/ state = "OOMNack")
  /\ store' = s
  /\ UNCHANGED <<net, protocol, delayed, copies, done, expired>>

\* The TSY delivers a PDU; ProcessPDUL stores it and accepts it.
ReceivePDU(seg) ==
  /\ st = "Waiting" /\ ~held /\ seg \in net \ Bad
  /\ \E i \in Id : Into(seg, i) /\ Report("Accept", seg, i, AddSegment(seg, i))
  /\ UNCHANGED disk

\* One that does not decode, or is of type 0, is not stored.  Whether it is
\* refused or accepted and thrown away is configured for every kind of error.
DiscardPDU(seg) ==
  /\ st = "Waiting" /\ ~held /\ seg \in net \cap Bad
  /\ \E state \in {"Absorb", "InvalidNack"} : Report(state, seg, None, store)
  /\ UNCHANGED disk

\* CheckDiskSpaceForPDUL leaves with KErrDiskFull and has the disk monitored.
RefuseDiskFull(seg) ==
  /\ "disk_full" \in Fault /\ st = "Waiting" /\ ~held /\ seg \in net \ Bad
  /\ Report("OOMNack", seg, None, store)
  /\ Watch!Refused

\* ProcessPDUL leaves with KErrNoMemory, before or after the PDU is stored.
RefuseNoMemory(seg) ==
  /\ "no_memory" \in Fault /\ st = "Waiting" /\ ~held /\ seg \in net \ Bad
  /\ \/ Report("OOMNack", seg, None, store)
     \/ \E i \in Id : Into(seg, i) /\ Report("OOMNack", seg, i, AddSegment(seg, i))
  /\ UNCHANGED disk

\* What the network makes of an answer that has arrived; of one that has not.
Answered == net' = IF st = "OOMNack" THEN net ELSE net \ {pdu.seg}
Unheard == Answered \/ UNCHANGED net
AnsweredUnless(fails) == IF fails THEN Unheard ELSE Answered

\* The answer to an accepted PDU has been sent, or has failed: AddLogEvent.
AckDone ==
  /\ st = "Accept" /\ pdu # None
  /\ AnsweredUnless("ack_error" \in Fault)
  /\ st' = "Logging"
  /\ UNCHANGED <<held, protocol, pdu, suspended, delayed, disk, mail>>

\* The event is logged: ProcessMessageIfCompleteL.  When logging fails the
\* message is not handed on: the code looks for -KErrNotSupported.
LogDone ==
  /\ st = "Logging"
  /\ UNCHANGED <<phone, protocol, disk>>
  /\ \/ \E taken \in SUBSET {pdu.id} :
          /\ Taken(IF pdu.complete THEN {pdu.id} ELSE {}, taken)
          /\ ProcessMessages(taken, store, copies, done, {})
     \/ "log_error" \in Fault /\ UNCHANGED mail
  /\ Done

\* The answer to a PDU that is thrown away or refused has been sent, or has failed.
DiscardDone ==
  /\ st \in {"Absorb", "InvalidNack"} /\ pdu # None
  /\ AnsweredUnless(st = "InvalidNack" \/ "ack_error" \in Fault)
  /\ UNCHANGED <<held, protocol, disk, mail>>
  /\ Done

\* After a refusal for want of memory the reader waits before it goes on.
OOMNackDone ==
  /\ st = "OOMNack" /\ pdu # None
  /\ UNCHANGED <<phone, protocol, disk, mail>>
  /\ \/ st' = "WaitTimer" /\ UNCHANGED <<pdu, suspended, delayed>>
     \/ "ack_error" \in Fault /\ Done

\* The request for the next PDU fails: Complete asks for it again, unless the TSY
\* does not support it.
ReceiveFailed ==
  /\ st = "Waiting"
  /\ UNCHANGED <<phone, protocol, disk, mail>>
  /\ \/ "receive_error" \in Fault /\ Done
     \/ /\ "not_supported" \in Fault
        /\ st' = "Idle" /\ pdu' = None /\ UNCHANGED <<suspended, delayed>>

OOMTimer ==
  /\ st = "WaitTimer"
  /\ Receive
  /\ UNCHANGED <<phone, protocol, pdu, disk, mail>>

\* The answer takes too long: CSmsuTimeout cancels the reader, which drops its
\* PDU and asks to be completed once more in the state it is in.
AckTimeout ==
  /\ "ack_timeout" \in Fault /\ st \in Reporting /\ pdu # None
  /\ Unheard
  /\ pdu' = None
  /\ UNCHANGED <<held, protocol, st, suspended, delayed, disk, mail>>

-----------------------------------------------------------------------------
\* Power and restart.

\* The reader is cut off: whether the network hears its answer is open.
CutOff == /\ IF st \in Reporting /\ pdu # None THEN Unheard ELSE UNCHANGED net
          /\ st' = "Idle" /\ pdu' = None /\ monitor' = "Idle"

\* DoPowerUpL opens the store and hands on what waits in it.  (PurgeL of incomplete
\* entries only, which it calls before, returns at once: gsmustor.cpp:267.)
PowerUp ==
  /\ power = "off" /\ power' = "init"
  /\ UNCHANGED <<phone, booting, bound, reader, disk>>
  /\ ProcessComplete(store, copies, done, {})

\* AfterPhoneInitialize: from now on CheckPoweredUp is content.
PhoneInitialised ==
  /\ power = "init" /\ power' = "ready"
  /\ UNCHANGED <<phone, booting, bound, reader, disk, mail>>

\* The last step of the initialisation is Start of the reader.
StartReader ==
  /\ power = "ready" /\ power' = "on"
  /\ st' = IF st = "Idle" /\ ~IsFull(store) THEN "SetReceiveMode" ELSE st
  /\ UNCHANGED <<phone, booting, bound, pdu, suspended, delayed, disk, mail>>

PowerDown ==
  /\ "power" \in Fault /\ power # "off" /\ power' = "off"
  /\ CutOff
  /\ UNCHANGED <<held, booting, bound, suspended, delayed, nackd, mail>>

\* The process goes, by a fault or with the phone; after the restart InitL marks
\* the entries of the store as not handed on.
Restart ==
  /\ CutOff
  /\ power' = "off" /\ booting' = TRUE /\ bound' = {}
  /\ suspended' = FALSE /\ delayed' = FALSE /\ nackd' = FALSE
  /\ copies' = [x \in Observer \X Id |-> 0]
  /\ store' = [i \in Id |-> IF store[i] = None THEN None ELSE [store[i] EXCEPT !.passed = FALSE]]
  /\ UNCHANGED <<held, done, expired>>
Crash == "crash" \in Fault /\ Restart

\* The second completion after a timeout.  An accepted PDU is to be logged now,
\* but there is no PDU any more: AddLogEvent uses a null pointer.
CompleteAgain ==
  /\ st \in Reporting /\ pdu = None
  /\ CASE st = "Accept" -> Restart
       [] st = "OOMNack" -> /\ st' = "WaitTimer"
                            /\ UNCHANGED <<phone, protocol, pdu, suspended, delayed, disk, mail>>
       [] OTHER -> UNCHANGED <<phone, protocol, disk, mail>> /\ Done

-----------------------------------------------------------------------------
\* The clients.  While the modem is off the store is closed.

PoweredUp == power \in {"ready", "on"}

\* BindSmsMessageObserver.
BindOnly(o) ==                                                    \* mutant
  /\ o \notin bound /\ bound' = bound \cup {o}
  /\ UNCHANGED <<phone, power, booting, reader, disk, mail>>
Bind(o) ==
  /\ o \notin bound /\ bound' = bound \cup {o}
  /\ UNCHANGED <<phone, power, booting, reader, disk>>
  /\ IF PoweredUp THEN ProcessComplete(store, copies, done, {}) ELSE UNCHANGED mail

\* MessageReadedSuccessfully, the store being s, the buffers c, the history d: what
\* waits is handed on, old entries are purged, and reception is resumed.
MessageReadedSuccessfully(s, c, d) ==
  /\ UNCHANGED <<phone, power, bound, pdu, disk>>
  /\ IF power = "off" THEN store' = s /\ copies' = c /\ done' = d /\ UNCHANGED expired
     ELSE \E gone \in SUBSET {i \in Id : s[i] # None} :
            /\ gone # {} => "purge" \in Fault
            /\ ProcessComplete(s, c, d, gone)
  /\ IF PoweredUp THEN ResumeSmsReception ELSE UNCHANGED <<st, suspended, delayed>>

\* The client has read message i (KIoctlReadMessageSucceeded): its entry is
\* deleted, if the store is open.
Confirm(o, i) ==
  /\ copies[<<o, i>>] > 0 /\ (power = "off" => "offline" \in Fault)
  /\ UNCHANGED booting
  /\ LET found == power # "off" /\ store[i] # None /\ store[i].passed IN
     MessageReadedSuccessfully(IF found THEN [store EXCEPT ![i] = None] ELSE store,
                               [copies EXCEPT ![<<o, i>>] = @ - 1], done \cup {i[1]})

BootTimer ==
  /\ booting /\ booting' = FALSE
  /\ MessageReadedSuccessfully(store, copies, done)

ShutdownMarkingAll(o) ==                                          \* mutant
  /\ "close" \in Fault /\ o \in bound /\ bound' = bound \ {o} /\ power # "off"
  /\ store' = [i \in Id |-> IF store[i] # None THEN [store[i] EXCEPT !.passed = FALSE]
                            ELSE None]
  /\ copies' = [x \in Observer \X Id |-> IF x[1] = o THEN 0 ELSE copies[x]]
  /\ UNCHANGED <<phone, power, booting, reader, disk, done, expired>>
\* The socket is shut down: what it holds is marked as not handed on, if the store
\* is open, and is not offered to anybody else now.
Shutdown(o) ==
  /\ "close" \in Fault /\ o \in bound /\ bound' = bound \ {o}
  /\ power = "off" => "offline" \in Fault
  /\ store' = [i \in Id |-> IF power # "off" /\ copies[<<o, i>>] > 0 /\ store[i] # None
                            THEN [store[i] EXCEPT !.passed = FALSE] ELSE store[i]]
  /\ copies' = [x \in Observer \X Id |-> IF x[1] = o THEN 0 ELSE copies[x]]
  /\ UNCHANGED <<phone, power, booting, reader, disk, done, expired>>

-----------------------------------------------------------------------------
\* CSmsMonitorDiskSpace, as far as the reader meets it.

DiskSpaceFreed == Watch!SpaceFreed /\ UNCHANGED <<net, protocol, reader, mail>>
DiskNotifyFailed == Watch!NotifyFailed /\ UNCHANGED <<net, protocol, reader, mail>>
DiskResumeDone == Watch!ResumeDone /\ UNCHANGED <<net, protocol, reader, mail>>

-----------------------------------------------------------------------------
Answers == \/ SetReceiveModeDone \/ ResumeDone \/ AckDone \/ LogDone \/ DiscardDone
           \/ OOMNackDone \/ OOMTimer \/ CompleteAgain
Delivers == \E seg \in Segment : ReceivePDU(seg) \/ DiscardPDU(seg)
Refuses == \E seg \in Segment : RefuseDiskFull(seg) \/ RefuseNoMemory(seg)
Starts == PowerUp \/ PhoneInitialised \/ StartReader
Reads == \E o \in Observer, i \in Id : Confirm(o, i)

Next ==
  \/ Answers \/ Delivers \/ Refuses \/ Starts \/ Reads
  \/ AckTimeout \/ ReceiveFailed \/ PowerDown \/ Crash \/ BootTimer
  \/ \E o \in Observer : Bind(o) \/ Shutdown(o)
  \/ DiskSpaceFreed \/ DiskNotifyFailed \/ DiskResumeDone

Spec == Init /\ [][Next]_vars

\* Requests complete, the phone comes up, clients bind and read, the network
\* offers again what it has no positive answer for, and disk space is freed.
Fairness ==
  /\ WF_vars(Answers) /\ WF_vars(Starts) /\ WF_vars(BootTimer)
  /\ WF_vars(DiskSpaceFreed) /\ WF_vars(DiskResumeDone)
  /\ \A seg \in Segment : SF_vars(ReceivePDU(seg))
  /\ \A o \in Observer : WF_vars(Bind(o)) /\ \A i \in Id : WF_vars(Confirm(o, i))
FairSpec == Spec /\ Fairness

-----------------------------------------------------------------------------
\* A PDU the network has a positive answer for is in the reassembly store, until a
\* client has confirmed its message, the WAP protocol has taken it or a purge has
\* deleted it: an answered PDU survives any restart, refusal or time-out.
NoLoss ==
  \A seg \in Segment \ (net \cup Bad) :
    \/ seg[1] \in done \cup expired
    \/ \E i \in {seg[1]} \X Stamp : store[i] # None /\ seg[2] \in store[i].parts

\* An entry of the store is in the hands of one client at most, and once:
\* iPassedToClient keeps ProcessCompleteSmsMessagesL, which runs at every bind,
\* confirmation and power up, from handing a message on again.
HandedOnce ==
  \A i \in Id, o \in Observer, p \in Observer :
    copies[<<o, i>>] > 0 /\ copies[<<p, i>>] > 0 => o = p /\ copies[<<o, i>>] = 1

\* iPassedToClient of an entry says that a socket holds the message for a client
\* to read, whatever the order of hand-over, confirmation, shutdown and power
\* down: an entry marked for nobody would not be offered again before a restart.
PassedIffHeld ==
  \A i \in Id : store[i] # None =>
    (store[i].passed <=> \E o \in Observer : copies[<<o, i>>] > 0)

\* A message has one incomplete entry at a time, so that its PDUs, repeated by the
\* network or spread over restarts, come together in one entry.
OneOpenEntry ==
  \A i, j \in Id : i[1] = j[1] /\ i \in Match(i[1]) /\ j \in Match(i[1]) => i = j

\* iMaxmumNumberOfCompleteMessagesInReassemblyStore is exceeded by two messages at
\* most: the one that fills the store, and one because the boot timer resumes
\* reception without asking whether the store is full.  Confirmations do not ask
\* either, but each of them makes room for what it lets in.
StoreBound == Cardinality({i \in Id : Complete(store, i)}) <= MaxComplete + 2

\* Once the phone is up and there is room in the store, the reader is at work, and
\* a TSY that holds messages back is going to be told to go on; unless the boot
\* timer, which resumes reception in any case, has still to expire.
ReceptionGoesOn ==
  power = "on" /\ ~booting /\ ~IsFull(store) =>
    /\ st # "Idle"
    /\ held => \/ delayed \/ st \in {"SetReceiveMode", "Resume"}
               \/ monitor = "Monitor" \/ (monitor = "Resume" /\ nackd)

\* Every message is read in the end, refused, answered or repeated as it may be.
MessagesRead == \A m \in Msg \ Discarded : <>(m \in done)
=============================================================================
