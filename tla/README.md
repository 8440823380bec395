# Verification of the cellular services

TLA+ models of three layers of this repository (the ETel server, the SMS stack
that is a client of it, and the packet data contexts), the configurations that
model-check them with TLC, and theorems about them that TLAPS checks. Paths are
relative to `src/`; `SETEL/` and `INC/` stand for
`telephonyserver/etelserverandcore/SETEL/` and `.../INC/`, `smsprot/` for
`smsprotocols/smsstack/smsprot/Src/`, `spudfsm/` and `spudtel/` for the `src/`
directories of those names under `telephonyprotocols/pdplayer/umts/`.

## 1. The system

The repository is the cellular part of Symbian OS. Clients ask the ETel server
for telephony services; the server passes their requests to a telephony module
(TSY) loaded into it; SMS, packet data and utilities are clients of ETel.

| Component | State | Operations | Hard behaviour | Status |
|---|---|---|---|---|
| ETel server, requests (`ET_PHONE.CPP`, `ET_CORE.CPP`) | per phone: waiting list, active list, flow control counter, handle counter; per request: placed, cancelled, client interested, message nulled, TSY handle | issue, share, wait, post, cancel, close, complete, re-post, suspend and resume the flow | several clients on one TSY request, cancels that cross completions, refusals by the TSY, clients that close meanwhile | partly: priority and emergency clients are missing |
| ETel server, buffers (`CBuffer`) | two positions, three flags, the slots | event, read, re-arm | wrap-around, overflow, one-slot buffers | modelled |
| ETel server, sessions and objects (`ET_SVR.CPP`, `ET_SES.CPP`) | session count, access counts, owner chains, dummy sessions, call owners, shutdown flag | connect, open, close, disconnect, TSY up-calls, one-shots | requests that outlive their client, two clients closing together, a client that comes during shutdown | partly: failures inside an open are missing |
| SMS, receiving (`smspread.cpp`, `smspproc.cpp`, `smspfacadestor.cpp`, `smsprot.cpp`, `smsprov.cpp`) | the reader's state and PDU, the reassembly store on disk, which entries are with a client, bound observers, what the TSY holds back | store, answer, log, hand on, confirm, refuse, resume, bind, close, power, restart | lost answers, repeated PDUs, crashes between store and answer, a full store or disk, clients that read while the reader works | partly: SIM enumeration, class 0 and status reports are missing |
| SMS, disk space (`smspmondsk.cpp`) | monitored limit, notification, classes refused | refuse, watch, resume | the space changes between two looks; refusals during a resume | modelled |
| SMS, sending (`smspsend.cpp`, `smspqueue.cpp`, `smspstor.cpp`) | the queue, the machine and its PDUs, the segmentation store | queue, segment, send, record, log, cancel, time out | a message continued after a failure, a cancel of what is being sent, power off with a queue | partly: commands and status reports are missing |
| Packet data contexts (`spudfsm`, `spudtel`) | per context: machine state, last status, running strategy and step, notifier; the phone | create, activate, change, modify, delete, network events | network events and deletions against running strategies, a state object shared by all contexts | partly: multicast is missing |
| TSY loading (`ET_MAN.CPP`) | factories, phones, reference counts of libraries | load, open phone, unload | failures in the middle of an open | not modelled |
| ETel client, multimode, packet, SIM toolkit APIs | at most one buffer per outstanding request | marshal, multi-step list retrieval | | not modelled: no shared state |
| Common TSY and dispatch layer | request queue and timeouts, call lists, one pending request per kind | request, completion, timeout | a timeout against a late answer | not modelled |
| Hayes, SIM and SIM ATK TSYs, stubs, AT reference TSY | test or reference modules | | | not modelled; the Hayes and common TSYs fix when the up-calls on ownership may come |
| SMS messages (`gsmu`, `smsu`, `ems`, `wapprot`) | PDUs | encode, decode | | not modelled: conversions |
| SMS on the SIM (`smspenum.cpp`, `smspdel.cpp`) | lists of slots | enumerate, delete | the roll-back of an enumeration that fails | not modelled |
| PDP providers (`pdplayer/src`), raw IP, CSD/PSD agents, QoS, dial, third party API, watchers, channel adaptors, WAP API, mock SY, API tests | | | | not modelled: I/O, plug-ins of frameworks outside the repository, or tests |

The parts of the server interact by direct calls in **one thread**: a client
message is a `ServiceL` call, an answer of the TSY is an up-call
(`ReqCompleted`, `FlowControlSuspend`, ...) on an active object of the TSY, and
the deletion of objects and the stop of the scheduler are asynchronous
one-shots (`CAsyncOneShot`). There are no data races; the difficulty is in the
order of handlers, which is what the models interleave.

What makes it correct: no request is lost, answered twice or answered to a
client that has gone; the TSY sees one flow controlled request at a time and
one shared notification per object; waiting requests go down in order and are
always resumed; a cancelled request ends; no notification is lost from a buffer
without being reported; an object lives as long as it is referred to or has
requests with the TSY, and no longer; the server stops when it should and only
then.

The SMS stack and the packet data layer are clients of ETel, each **one thread**
of active objects: a request to ETel completes some time later, and everything
else may run before it does. What makes the SMS stack correct: a PDU the network
has a positive answer for is not lost, over any failure and restart; a message
is handed to one client, once; the TSY is told to go on when there is room; a
client is told that its message is sent when all of it has gone, and no part is
sent twice. The packet data layer: driver and state machine agree on what is
going on, what a connection provider is told is so, every request is answered,
and a context the network deletes is closed.

The components meet at these points, each of them in a model: `SmsReceive` is built on
`DiskWatch`, which `SmsDiskMonitor` implements; sending and receiving share
nothing but the power state; contexts share the open phone and one object per
state (`iErrorCode`). What ETel promises its clients (a request is answered, one
of a kind at a time) is proved of the server and assumed by the layers above.

## 2. Modules

| Module | Models | Source |
|---|---|---|
| `EtelRequests` | the requests of one phone | `SETEL/ET_PHONE.CPP` (`CTelObject`), `SETEL/ET_CORE.CPP` (`CPhoneBase`) |
| `TsyContract` | abstract: what the TSY may find itself asked to do | implemented by `EtelRequests` |
| `EtelBuffer` | the circular buffer of a re-posted request | `SETEL/ET_PHONE.CPP` (`CBuffer`, `CompleteOrBufferRead`, `UpdateAndCompleteIfNecessary`) |
| `NotificationQueue` | abstract: a bounded queue that drops the oldest | implemented by `EtelBuffer` |
| `EtelServer` | sessions, objects, dummy sessions, ownership, shutdown | `SETEL/ET_SVR.CPP`, `ET_SES.CPP`, `ET_PHONE.CPP`, `ET_CORE.CPP` |
| `SmsReceive` | PDU reader, reassembly store, observers, power | `smsprot/smspread.cpp`, `smspproc.cpp`, `smspfacadestor.cpp`, `smspstor.cpp`, `smsprot.cpp`, `smsprov.cpp` |
| `DiskWatch` | abstract: a refused PDU is watched for until reception resumes | composed into `SmsReceive`, implemented by `SmsDiskMonitor` |
| `SmsDiskMonitor` | the disk monitor with its two limits | `smsprot/smspmondsk.cpp` |
| `SmsSend` | send queue, send machine, segmentation store | `smsprot/smspsend.cpp`, `smspqueue.cpp`, `smspstor.cpp` |
| `PdpContexts` | state machines, drivers and notifiers of the packet data contexts | `spudfsm/`, `spudtel/` |
| `MC...` | small instances | |
| `EtelRequestsProofs`, `EtelCarrierProofs`, `EtelBufferProofs`, `EtelServerProofs`, `SmsReceiveProofs`, `SmsDiskMonitorProofs`, `SmsSendProofs`, `PdpContextsProofs` | theorems | |

### EtelRequests

A `CReqEntry` is named by its key `<<client, ipc>>`: a client is one
sub-session handle, and `FindSameClientEntry` (`ET_CORE.CPP:1085`) panics a
client that issues the same request twice. `active` and `waiting` are the two
lists; `ahead[k]` is the set of entries before `k` in its list, which keeps the
order without sequences. The other variables are fields of the entry
(`placed` is `iPlacedRequest`, and so on) and, for the environment, the
requests a client still waits for (`outstanding`) and what the TSY has
(`tsy`, `tsyCancelled`, `hold`).

| Action | Code |
|---|---|
| `ReadBuffered`, `ReArm` | `CompleteOrBufferRead`, a new request for a re-posted entry |
| `Share` | the multiple completion branch of `ReqAnalyserL` |
| `Wait` | `GeneralReq` with the flow suspended |
| `Post`, `PostRefused` | `GeneralReq` passes the request to `Service`, which accepts or refuses |
| `CancelUnplaced`, `CancelPlaced`, `CancelPlacedRefused` | `EIsaCancelMessage` in `GeneralReq` |
| `CancelSubSession`, `CloseSubSession` | `FlushReqs` and `CancelActiveReq` |
| `OpenSubSession` | `NewTelObject` |
| `Notified`, `Answered`, `Cancelled` | the three ways through `ReqCompleted`, with `CheckAndCompleteAllActive`, the hand-over to another client and the `FlowControlResume` at its end |
| `FlowControlSuspend`, `FlowControlResume` | the up-calls |

`ConcludeWith` is the common end of completions: entries go, at most one
successor goes down in their place, and the resumed flow takes at most one
entry (with those that share it) off the waiting list.

Request modes are sets of IPCs. What the environment may do beyond the regular
case is a constant: `Refuses` says at which calls `Service` may return an error
("new", "resumed" from the waiting list, "reposted"), `CancelRefused` whether
`CancelService` may, `LateCompletion` whether a cancelled notification can
still be reported or answered as usual, `CancelsSubSession` whether clients use
`CancelSubSession` (only `RFax` does). Every theorem names the ones it needs.
`requests_flow` has refusals of new requests and `CancelSubSession`;
`requests_notify` has refusals of new and re-posted requests and of cancels, and
late completions; `requests_liveness` has none of them. What goes wrong with the
combinations that no run has is in section 5.

Abstractions, each chosen so that the control flow is kept:
- An up-call a TSY makes from inside `Service` or `CancelService` is the next
  step. `FlowControlSuspend` and `Resume` in the middle of a handler are the same.
- All buffers of an IPC have one size and type. A read of another size from an
  empty buffer cancels the posted request and issues it again
  (`ET_PHONE.CPP:661-670`, `698-701`); that path is not modelled.
- A handle of a new request is fresh. The code counts to 2^32 and never looks.
- `ReqModeL`, `NumberOfSlotsL` and memory do not fail.
- Clients are well behaved: one outstanding request per IPC, and only that is
  cancelled. A client that is not is panicked and its session closes, which the
  model has.
- The TSY answers with `KErrCancel` only what it was asked to cancel (the debug
  assertion of `ET_PHONE.CPP:1157`).
- A sub-session is opened under a handle that no entry of an earlier one carries.
- `FindNonCancelledClientReq` (`ET_CORE.CPP:1222`) looks for another entry of
  the same client and IPC, of which there is never one, so it finds nothing.
- A request does not have both flow control and re-posting: the design document
  (`telephonyserver/etelserverandcore/doc_pub/ETel_Telephony_Server_Design.doc`)
  says of it "This combination should not be used."
- An entry that is refused when the flow resumes is destroyed alone; the ones that share it
  stay, as in the code.

### EtelBuffer

Slots hold values; `read`, `write`, `overFlow`, `bufferFull` and
`readByClient` are the code's. `EventCompleted` and `EventBuffered` are
`ReqCompleted` with the client waiting and not; `ReadBuffered` and `ReArm` are
`CompleteOrBufferRead`. `EtelRequests` keeps the number of unread slots of each
entry only, which is what its control depends on.

### EtelServer

Of `EtelRequests` only the active list is left, as a set of keys; the waiting
list and the flow control change nothing about lifetime. `dummy[o]` has the
four fields of a `CTelObject` that matter: `iActiveReqCount`, `iCreateDummy`,
`iOpen` of the dummy session and whether its one-shot is active. `refs` is the
access count of `CObject`, taken along the chain `Above` of an object and its
owners; an object at zero is deleted with its dummy session.

`Close` is the whole of `CCallBase::CloseSubSessionPreProcessing` (for a phone
or line, without the ownership) and of the removal of the handle;
`CloseSession` does it from the destructor of the session. `ReqCompleted` and
`RelinquishOwnershipCompleted` end with `CheckAndDestroyDummySubSession`, and
`RunL` is the one-shot. Both one-shots have the same low priority, so `RunL` and
`Stop` come in any order. `NoLateOwner` is the condition of the theorems: no
owner closes its call between the last turn of the call's dummy session and its
`RunL` (section 5).

Bounds of the model: a session opens one sub-session, once; shutdown is asked
for once; an object is not made again while requests on a deleted one are left.
A request is always accepted. `SetOwnership` comes for a request the TSY has.

### SmsReceive, DiskWatch and SmsDiskMonitor

An entry of the store is named by its message and a receive time
(`CreateEntryL`); `store` is the file, `copies` what a socket holds for its
client, and `net` what the network still has to deliver, because it has had no
positive answer. `st` is `iState` of `CSmsPDURead`, "Idle" when it is not active;
`pdu` is `iPduProcessor`.

| Action | Code |
|---|---|
| `SetReceiveModeDone`, `ResumeDone` | `DoRunL` of the reader, the requests before `Receive` |
| `ReceivePDU`, `DiscardPDU`, `RefuseDiskFull`, `RefuseNoMemory` | the TSY delivers a PDU; the ways through `ProcessPDUL` and its errors, up to `SendDeliverReport` |
| `AckDone`, `LogDone`, `DiscardDone`, `OOMNackDone`, `OOMTimer` | the answer has been sent, the event logged, the pause is over |
| `AckTimeout`, `CompleteAgain` | `CSmsuTimeout` cancels the reader, which completes itself once more |
| `ReceiveFailed` | an error of the request for the next PDU; after `KErrNotSupported` the reader stays idle |
| `PowerUp`, `PhoneInitialised`, `StartReader`, `PowerDown` | `DoPowerUpL`, `AfterPhoneInitialize`, `Start`, `PowerDown` |
| `Restart`, `Crash` | the process ends; `InitL` of the store marks all entries as not handed on |
| `Bind`, `Shutdown`, `Confirm`, `BootTimer` | `BindSmsMessageObserver`, the end of a socket, `MessageReadedSuccessfully`, the boot timer |
| `DiskSpaceFreed`, `DiskNotifyFailed`, `DiskResumeDone` | steps of `DiskWatch` |

`ProcessMessages` is `ProcessMessageL` with the transaction of the store: a
socket gets a copy and the entry is marked, the WAP protocol takes the message
and the entry goes. What may go wrong is the constant `Fault`, one name per
cause; "offline" lets clients read or close while the modem is off. Observers in
`Unserved` are WAP ports no application listens to: `ProcessMessageL` falls back
to the next observer, as the code does for `KErrNotFound`.

`SmsDiskMonitor` keeps the free space itself, which moves between the read that
refuses a PDU, the request for a notification and the read after it
(`NotifyDiskSpace`); a notification completes when the space crosses the limit
after the request. `ImplementsDiskWatch` maps both limits to one watched state.

Abstractions: the log is a step that may fail; PDUs of one message have one
reference, and no two messages share one; what does not decode and what is of
type 0 is thrown away or refused, both possible (configuration decides); a
purge may take any entries. The purge of `DoPowerUpL` asks for incomplete entries
only, for which `CSARStore::PurgeL` returns at once
(`smsprotocols/smsstack/gsmu/src/gsmustor.cpp:267`), so `PowerUp` has none. The
clock is not turned back, so that a new entry has a time of its own (`Fresh`): only
then `CreateEntryL` makes it unique (`smsprot/smspstor.cpp:533-545`). Which WAP ports are served does not change
during a run.

### SmsSend

`queue`, `active` and `signal` are the queue (an active object the machine
completes); `st`, `cur`, `status`, `sendError`, `sent`, `encoded`, `logged` the
machine; `store[c]` is the count of sent PDUs in the segmentation store. One
action per completion in `DoRunL` (`BearerSet`, `LogCreated`, `Segmented`,
`PDUSent`, `StoreUpdated`, `LogUpdated`), `Timeout`, the `RunL` of the queue,
and the clients: `SendSmsMessage`, `CancelObserver`, `PowerDown`, `PowerUp`.
`alive` goes when the stack panics: an array shortened by more than it holds, or
a machine started on a closed handle. `accepted` and `unrecorded` are history.
`Purge` is `PurgeL` of the store: any entries may go, when the last message of the
queue is done (`MessageSendCompleted`) and when the modem comes on (`DoPowerUpL`).
A client has one message, which it may send again with the same log id (`Known`)
or as a new one.

### PdpContexts

`pdp[c]` is a record of the `CPdpFsm`, the `CEtelDriverContext` and the
`CPdpStatusChangeNotifier` of a context: `state`, `iContextStatus`, the running
`strategy` and its `step`, whether the request of that step is pending or has
failed (`iStatus`), the first error (`iCompletionStatus`), whether the
sub-session is `opened` and the notifier `watching`, the `changes` it is still
to be told of, and, for the environment, the `network`'s status, what the
provider has `awaited` and was `told` last. `Steps` is the table of strategies,
`Serving` and `Requests` the transitions of the states that only wait for one
answer.

| Action | Code |
|---|---|
| `RunL` | `CEtelDriverContext::RunL`, a step of the strategy (`ActivateNext` is `TActivatePdpStrategy::Next`, `DeleteNext` that of the deletion) |
| `OpeningPhone`, `CreatingPrimary`, `ActivatingPrimary`, `CreatingSecondary`, `SecondaryDeleted`, `ActivatingSecondary`, `Answering`, `Deleted` | `RunL` at the end of a strategy, with `NotifyFsm` and the `Input` of the state |
| `NewFsmContext`, `Request`, `ContextDelete`, `DeleteFsmContext` | what the providers of `pdplayer/src` ask |
| `Complete`, `NetworkChange` | the TSY and the network |
| `Notify` | `RunL` of the notifier, with `TPdpState::Input` and `TPdpStateOpen::Input` |

`EtelDriverInput` refuses while a strategy runs, and the machine does not look
at the result, as in `CPdpFsm::EtelInput`.

Bounds and abstractions: a TFT has one filter; `OpenNewSecondaryContext`, whose
result the code ignores, does not fail; a context id is used once (the
notifier would not start again); the notifier does not complete with an error
(the code asserts that there is none but `KErrCancel`,
`spudtel/cpdpstatuschangenotifier.cpp:103`, and would not be told of anything
more); a change of status that nothing in the code
looks at does not happen; `MaxChanges` bounds the changes the notifier has not
been told of; `told` is forgotten when a new request or a deletion begins, which
changes no step but `DeleteFsmContext` after the deletion itself. Cancelling a
strategy waits for its request, which the active object's `Cancel` does.

## 3. Runs

| Run | Instance | Checks |
|---|---|---|
| `requests_flow` | 3 clients, one object, 2 flow controlled requests, one of them shared; new requests may be refused, clients cancel sub-sessions | `UpcallFindsRequest`, `FlowCountExact`, `WaitingMeansSuspended`, `ActiveIsWithTsy`, `NoOvertaking`, `KeepsContract` |
| `requests_notify` | 3 clients on two objects, one shared notification, 2 slots; the TSY refuses new and re-posted requests and cancels, and reports late | `EveryRequestAccountedFor`, `RegisteredWhileWanted`, `NoAnswerAfterClose` |
| `requests_liveness` | 2 clients, a shared flow controlled request and a notification, fairness | `EveryRequestAccountedFor`, `OneMultiplePerObject`, `CancelReachesTsy`, `RequestsAnswered`, `CancelsAnswered`, `ClosedLeavesNoEntry` |
| `buffer_queue` | 3 slots, 3 values | `ImplementsQueue` |
| `server_sessions` | 3 sessions, two on a phone and one on a call of it, a request and a notification, fairness | `SessionCountExact`, `ReferencesExact`, `StopsUnused`, `DummyReleased`, `ServerStops` |
| `sms_receive` | a text of two PDUs and a push message, a client and the WAP protocol; answers and log entries fail, sockets close, power | `HandedOnce`, `PassedIffHeld`, `StoreBound` |
| `sms_faults` | a text of two PDUs to a WAP port nobody serves and one that does not decode, every fault | `NoLoss`, `OneOpenEntry` |
| `sms_live` | two sockets that confirm; answers and requests fail, the disk fills; fairness | `ReceptionGoesOn`, `MessagesRead` |
| `sms_disk` | a disk of seven levels, limits at 2 and 4; notifications and resumptions fail, power; fairness | `RefusedIsWatched`, `NoSleepAboveLimit`, `ResumedWhenRoom`, `ImplementsDiskWatch` |
| `sms_send` | a message of three PDUs with a log id and one of one without, each sent up to twice; every fault; fairness | `SentMeansSent`, `NothingSentTwice`, `WorksForFirst`, `SendsAnswered` |
| `pdp_contexts` | a primary and a secondary context, any request fails; fairness | `DriverServesState`, `AnswersAreTrue`, `RequestsAnswered`, `DeletionNoticed` |
| `lost_resume` | a text and a push message to the WAP protocol, no faults | `ReceptionGoesOn`, violated: section 5 |

What each shows:
- `requests_flow`: every request the TSY has is found when it completes, every
  entry rests on one, none is forgotten behind another or overtaken, and the TSY
  sees one flow controlled request at a time.
- `requests_notify`: whatever the TSY refuses or reports late, the server knows what
  each client waits for, a notification stays while somebody waits for it, and no
  event answers a client that has closed.
- `requests_liveness`: with a TSY that takes and answers what it is given, it never
  has two requests of one shared kind for one object, and all that is asked ends.
- `buffer_queue`: the flags and positions are a queue.
- `server_sessions`: the session count and the references stay exact over closes,
  one-shots and late clients, and the server ends. (How many requests a dummy session
  waits for is not exact: section 5, 6.)
- `sms_receive`: who has a message agrees with the marks in the store, in any
  order of arrival, hand-over and closing; the store is exceeded by two at most.
- `sms_faults`: no combination of faults loses an answered PDU or splits a
  message. `MaxComplete` = 0 makes the store full at every message.
- `sms_live`: reception never stops for good, and every message is read (not so
  when memory is short, a log entry or a resumption fails: section 5, 10, 13 and 18).
- `sms_disk`: no refusal is forgotten and no increase of the space missed.
- `sms_send`: counting and resending agree with what the TSY has accepted.
- `pdp_contexts`: the machine never waits for a strategy that does not run.

Why the bounds are enough. A shared request needs the client that placed it, its
successor and one more that shares it or waits behind: three clients. Two
objects tell "the same request" from "the same IPC". Two IPCs of which one is
shared let a waiting request be overtaken by, or stranded behind, another kind.
`MaxHold` = 1 suspend of the TSY on top of the server's own takes the counter to two, so
that a resume that leaves it positive happens. Handles are as many as entries and
stale TSY requests can need (six for `requests_flow`; with refused cancels,
where a handle may be lost to the TSY, requests end when the handles are used up).
A buffer of three slots has wrapped, full and overflowed states with the two
positions apart in both orders. Clients are symmetric in `requests_flow`, which
has one object and no liveness. Three sessions give two
that close together and a third on a call that their phone owns.

A message of two PDUs is incomplete, out of order and repeated; one of one
overtakes it. Two stamps (`Stamp`) are two entries of one message, so that a
repeated one is in the store next to itself; they are symmetric. `MaxComplete` =
0 means that one complete message fills the store. Two observers, one with a
port, contend for a message. In `sms_disk` there is a level below, at, between
and above each limit. Three PDUs have a first, a middle and a last; `MaxTries` =
2 is a first attempt and a continuation, and two clients are one that is sent and one
that waits. One secondary context is one that depends on the primary;
two secondary contexts together meet the shared `iErrorCode`, which section 5
describes. `MaxChanges` = 1 lets one change be on its way to the notifier while
the machine answers, is cancelled or is closed; the next comes when it has been taken.

`CHECK_DEADLOCK FALSE` is said where the system may stop: the server when it has
stopped or its sessions are used up (`server_sessions`), the SMS stack when all
has been sent or read or it has panicked (`sms_live`, `lost_resume`, `sms_send`),
the contexts when all have been freed (`pdp_contexts`).

### Fairness

`EtelRequests!FairSpec`: the TSY completes what it has, unless that is a
notification that was not cancelled (an event may never come), and resumes the
flow it has suspended. This is the obligation the TSY interface puts on a
module (`INC/ET_TSY.H`); no client is assumed to do anything. It is weak
fairness per handle. `EtelServer!FairSpec`: the TSY completes requests whose
client has lost interest (it was asked to cancel them), and the relinquish it
was asked for; active one-shots run (the active scheduler runs every active
object that is ready when nothing of higher priority is). `CMmCallTsy` returns
`KErrNotSupported` from `RelinquishOwnership` and never completes it
(`telephonyserverplugins/common_tsy/commontsy/src/mmtsy/cmmcalltsy.cpp:1117`);
`CMmDataCallTsy` does, except for a connected call that nobody acquires
(`cmmdatacalltsy.cpp:1976-1983`). So this is an assumption about the TSY.

`SmsReceive!FairSpec`: weak fairness of what the active scheduler runs (the answers to the
reader's requests, the start, the boot timer, the end of the monitor's
resumption), of the disk being freed, and of clients that bind and confirm;
strong fairness of the delivery of each PDU, because the network repeats what
has not been answered whenever the phone can take it. `SmsDiskMonitor!FairSpec`:
the two completions of the monitor; nothing about the space, which is the
premise of `ResumedWhenRoom`. `SmsSend!FairSpec`: the steps of machine and queue, nothing
of clients or power. `PdpContexts!Spec`: per context, the driver and the notifier run and the TSY
answers what it was asked, except a wait for a change of status; providers and network
may do nothing.

## 4. What is proved

TLAPS proves the theorems below for every value of the constants: clients,
objects, IPCs and modes, slots and handles, messages and their lengths, stamps,
observers and limits, contexts and changes. Conditions are assumptions of the
theorem. Section 5 tells what happens without most of them.

| Theorem | Property | Assumes |
|---|---|---|
| `TypeCorrect` | `TypeOK` of `EtelRequests` | |
| `NeverAnswersClosed` | `NoAnswerAfterClose` | |
| `FlowCountCorrect` | `FlowCountExact` | no refused cancel |
| `NoLostWakeUp` | `WaitingMeansSuspended` | no refused resumed request |
| `FirstComeFirstServed` | `NoOvertaking` | no refused resumed request |
| `RequestsAccountedFor` | `EveryRequestAccountedFor` | no `CancelSubSession` |
| `UpcallsFindRequests`, `OneMultipleRequest` | `UpcallFindsRequest`, `OneMultiplePerObject` | no refused cancel or resumed request |
| `EntriesCarried` | `ActiveIsWithTsy` | these, and no refused re-posted request |
| `CancelsReachTsy` | `CancelReachesTsy` | no refused cancel or resumed request, no late completion |
| `RegisteredAsWanted` | `RegisteredWhileWanted` | every re-posted request has multiple completion |
| `ServerKeepsContract` | `KeepsContract` (`TsyContract!Spec`) | no refused cancel or resumed request |
| `FlagsAlwaysConsistent` | `FlagsConsistent` of `EtelBuffer` | |
| `BufferImplementsQueue` | `ImplementsQueue` (`NotificationQueue!Spec`) | |
| `ServerTypeCorrect` | `ServerTypeOK` | `NoLateOwner` |
| `SessionCountCorrect`, `ReferencesCorrect`, `NeverStopsUsed` | `SessionCountExact`, `ReferencesExact`, `StopsUnused` | `NoLateOwner` |
| `ReceiveTypeCorrect` | `TypeOK` of `SmsReceive` | |
| `NeverHandedTwice`, `OneEntryPerMessage`, `NothingAnsweredIsLost` | `HandedOnce`, `OneOpenEntry`, `NoLoss` | |
| `PassedMeansHeld` | `PassedIffHeld` | no client acts while the modem is off |
| `ReceptionAlwaysGoesOn` | `ReceptionGoesOn` | every observer confirms; the TSY has reception; no failed receive mode, resumption or disk notification, no lack of memory |
| `StoreIsBounded` | `StoreBound` | no crash, acknowledgement time-out or purge; memory and disk do not both run out |
| `MonitorTypeCorrect` | `MonitorTypeOK` | |
| `RefusedAlwaysWatched` | `RefusedIsWatched` | |
| `NeverSleepsAboveLimit` | `NoSleepAboveLimit` | the free space can be read |
| `MonitorImplementsWatch` | `ImplementsDiskWatch` (`DiskWatch!Spec`) | |
| `SendTypeCorrect` | `SendTypeOK` | |
| `KErrNoneMeansSent`, `NeverSentTwice`, `AlwaysWorksForFirst` | `SentMeansSent`, `NothingSentTwice`, `WorksForFirst` | |
| `DriverAlwaysServes` | `DriverServesState` | |
| `AnswersAlwaysTrue` | `AnswersAreTrue` | one secondary context |

The arguments.

*Requests.* `TypeInv` adds to `TypeOK` that the lists are disjoint and that
the marks belong to entries. `InterestInv`: an entry whose client is still
interested belongs to an open sub-session; with it no step answers a closed
client. `ListInv` says that `ahead` orders each list strictly and totally;
`FirstUnique` and `Earliest` then give that a scan finds one entry, and that
what leaves the waiting list is its head. `FlowInv` is the flow count with the
fact that only active entries are placed, and the waiting property follows from it step
by step. `CarrierInv` is the heart: two active entries of one shared kind have
one handle, different kinds have different handles, one entry of a kind is
placed, and what is placed carries a handle of the TSY or (if re-posted requests
are refused) one it no longer has. It is not implied by the properties it
gives: a completion finds its entry only because handles are not reused by
another kind, and a successor is a sharer only because the whole kind has one
handle. `ServerKeepsContract` maps each step to a step of `TsyContract` or a
stutter under the mapping of placed entries to `busy`, with `CarrierInv` and
`FlowInv` as the invariant. In `EtelBufferProofs`, `FlagsConsistent` is
inductive by itself, and the refinement maps the filled slots in reading order
to the queue, with one lemma per action about how that sequence changes.

*Sessions.* `ServerInv` has three parts: `Typed`; `Exact` (the session count is the
number of connected sessions plus that of the dummy sessions open and not queued, and
each reference count is a cardinality, taken over the sessions and dummy
sessions below the object; the sets are finite, whatever the constants are);
`Stopping` (a queued stop means a count of zero, a stopped server no session). The work is in the finite
sets: one lemma for a session that changes phase and one for a dummy session
that opens, is queued or closes, so that counters and cardinalities move
together. How the turns of `CheckTimes` add up is proved by induction over the
set of turns that agree with the closed form, since the library's induction
theorems take an operator. The invariant holds for any number of sessions on a
call and any transfer of its ownership. `Typed` says that a dummy session is wanted
only while it is not queued, and there `NoLateOwner` is needed: it excludes the one
step that breaks this, an owner closing its call while the one-shot is on its way
(section 5). It is a condition on steps, `[][NoLateOwner]_vars`, so that it leaves
every other behaviour of the server as it is.

*Receiving.* `ReceiveInv` is `Typed`, `Sound` (store and buffers: a copy is of a
complete and marked entry or of one that is gone, nothing is held twice, one
entry of a message is open, and marks are held if no client acts while the
modem is off), `PduSound` (the entry the reader works on is in no buffer, and a
PDU being accepted is kept) and `Safe`, which is `NoLoss`. `HandedOnce` is not inductive: it needs that
what is in a buffer is marked, which takes it out of `Unpassed`, and that the
reader's message, which is excluded there, is in no buffer. One lemma
(`ProcessStep`) says what handing on leaves of store and buffers; bind, confirm,
power up, the boot timer and the log entry cite it.

`ReceptionGoesOn` only speaks of a store with room, so it says nothing of what
a step that makes room finds. `GoingInv` adds that an idle reader means a full
store before the boot timer has expired too, and that a TSY which holds
messages back because the store is full is remembered (`suspended`) until
someone makes room. Then a confirmation either finds the reader idle and
resumes, or leaves `delayed` for the reader, which looks at it wherever it
would wait for a PDU. A WAP message makes room in the reader itself, without
any of this (`lost_resume`). TLC shows that each of the failures in the
assumption is enough to violate the property.

`StoreBound` is a cardinality. `StoreInv` says how many complete messages there
may be at each point: one less until the boot timer has expired, and one more
(`Late`) where the reader holds one it has just stored, is idle, or waits
with the TSY held back after it refused one that it had stored (`Shut`,
`HeldBack`). `Present` says that what a client may confirm is stored, so that a
confirmation, which resumes reception without asking, takes away the message
for which it makes room. A purge breaks `Present`: with a limit of one, TLC
finds three messages more than the limit after a confirmation of a message that
was purged and the boot timer (six messages, one client, no other fault). A restart starts the boot
timer anew, and an acknowledgement that times out restarts. With memory and
disk running out TLC found no violation on small instances; there the
monitor, too, tells the TSY to go on, and the invariant does not follow that.

*Disk.* `RefusedIsWatched` and `NoSleepAboveLimit` are inductive with the types;
the refinement has one step per action and needs that a notification only fails
where the constant allows it (`FailureAllowed`).

*Sending.* `SendInv` collects types, `QueueInv` (a client is in the queue once
and waits), `FlowInv` (an active queue is not empty and the machine works for its
head), `WorkInv` (as long as nothing has failed the store knows how much has
been sent), `OnInv` (the queue is active only while the modem is on, so that the
purge at power up meets an idle machine), `RecordInv` (what is counted has been accepted, and nothing else
unless it could not be recorded) and `OkInv` (success, signalled or answered, means all accepted).

*Contexts.* `PdpInv`: records are typed, a strategy stands at a step of its own
table (`Stepping`), the running strategy is one its state waits for, and a
context that is not in use has neither strategy nor notifier. The proof has one
lemma per end of a strategy and one for the driver's `Input`; it is the absence
of a strategy at every place that starts one that makes the ignored result
harmless.

`AnswersAreTrue` is about a step, and what makes the step true was done several
strategies before. `AnswerInv` adds to `PdpInv`, of each context, what the
provider waits for in each state (`Asked`), from which states on there is a
sub-session (`Placed`), what the driver has done at the step it stands at
(`Opens`, `Watches`, `Deletes`), and that the error of a creation that failed is
kept while the context is deleted (`ErrorKept`). The last needs `OneSecondary`:
`iErrorCode` is one for all contexts (section 5). The proof also found that
`StatusChange` left two outcomes to a notification of a deletion in state Open;
the model has the one of the code now.

Every safety property of the passing runs is the subject of a theorem. Out of
the prover's reach and left to TLC is all liveness (it needs fairness and
ENABLED: `RequestsAnswered` of requests and of contexts, `CancelsAnswered`,
`ClosedLeavesNoEntry`, `DummyReleased`, `ServerStops`, `MessagesRead`,
`ResumedWhenRoom`, `SendsAnswered`, `DeletionNoticed`), as are inductions over
data. No module that is proved about uses recursive operators.

## 5. Where the code differs from what it says

`lost_resume` is the run of a disagreement: when the store is full the TSY is
told to hold messages back, and the client that has read one resumes reception
(`smsprot/smsprot.cpp:1681-1704`). The WAP protocol does not confirm; its
message is deleted in `ProcessMessageL` (`smsprot.cpp:1085`), which empties the store, and
nobody resumes.

The rest are scenarios that the models show when the condition that excludes
them (a constant, a bound, or an assumption of the theorem) is lifted, or that
were met in reading. They have no run of their own.

Requests:
1. A waiting request refused by the TSY when the flow resumes
   (`ET_PHONE.CPP:1021-1025`) takes the counter to zero and activates nothing
   else; the requests behind it wait until another one happens to complete
   (`Refuses` has "resumed": `WaitingMeansSuspended` fails).
2. When `CancelService` returns an error the entry is destroyed
   while the TSY has the request; its completion hits the assertion of
   `ET_PHONE.CPP:1125` (`CancelRefused`: `UpcallFindsRequest` and `FlowCountExact`
   fail). A notification that another client asks for meanwhile goes down beside it,
   against the design document's "TSY never gets more than one of these outstanding
   per TelObject" (`OneMultiplePerObject` fails).
3. A re-posted request without multiple completion is
   deregistered when the first of its clients cancels (`ET_PHONE.CPP:1158-1166`;
   `RegisteredWhileWanted` fails).
4. `CancelSubSession` drops the answers of a client that
   stays open (`ET_PHONE.CPP:474`; `EveryRequestAccountedFor` and `CancelsAnswered`
   fail).
5. A notification that completes normally after it was cancelled is posted again
   with `iCancelFnCalled` still set (`ET_PHONE.CPP:1143`); the next cancel of its
   client is not passed to the TSY (`LateCompletion`: `CancelReachesTsy` fails).

Sessions:
6. Requests of a second closing client are not counted while the
   dummy session of the first is open (`ET_PHONE.CPP:377`), and every
   completion takes one off; the object can be deleted under its requests. This happens in
   `server_sessions`; `OpenSubSession` leaves out what would follow from it.
7. Every close overwrites `iCreateDummy` (`ET_PHONE.CPP:375`); a
   client that closes after the owner of a call clears it and the dummy session
   is never released. In `server_sessions`, where no second client opens the
   call, `DummyReleased` holds.
8. Behind `NoLateOwner`: `CheckAndDestroyDummySubSession` has taken the dummy session
   of a call off the session count and its one-shot is queued; before `RunL` a
   session that still owns the call closes it. The close wants the dummy session again,
   and since it still says that it is open nobody opens and counts it; `RunL` closes it and leaves it
   wanted. The next turn on that object finds it wanted with nothing left to wait for and takes
   one off the count that was never added, in the end against the assertion of `ET_SVR.CPP:267`.
   With three sessions on one call TLC finds it after 13 steps
   (`SessionCountExact` fails); with `NoLateOwner` the same instance has no error.

Receiving:
9. An acknowledgement that times out deletes `iPduProcessor`; the reader
   completes itself once more and `AddLogEvent` uses the null pointer
   (`smsprot/smspread.cpp:641`). The model restarts (`CompleteAgain`).
10. After an event that could not be logged the message is handed on only for
   `-KErrNotSupported` (`smspread.cpp:269`), which no error is: the sign is
   wrong. The message waits for a bind, a confirmation or a restart.
11. A read or a close of the socket while the modem is off finds the store closed:
    the entry stays, or stays marked (`PassedIffHeld` fails with "offline").
12. An observer that binds during the initialisation of the phone is not offered
    what waits, because `CheckPoweredUp` is not content yet.
13. A PDU refused for want of memory makes the TSY hold back
    messages, and the reader does not resume.
14. The boot timer resumes reception though the store is full, which is why
    `StoreBound` allows two.
15. A PDU stored and then refused is stored already when it is repeated: its
    message is complete and `iPduProcessor` keeps it from being handed on until later.
16. A message whose acknowledgement is lost is delivered again, after it was read too: the
    client gets it twice (at least once, as the network has it).
17. A leave in the transaction of `ProcessCompleteSmsMessagesL` takes back the
    marks of messages that sockets have already; they are offered again.
18. A failed resumption is followed by a request for the next PDU, while the TSY
    still holds it back.
19. The disk monitor and the reader may both have `ResumeSmsReception` out on one
    sub-session handle, which ETel panics.
20. The roll-back of an enumeration of the SIM that fails deletes by an index
    into another list (`EnumeratePhoneCompleted`).
21. `iTimedOut` stays set until a timer is started again
    (`smsprotocols/smsstack/smsu/src/smsutimer.cpp:67`), so that a cancel for another reason
    may be taken for a time-out and ask for a second completion. The model
    does not have this.

Sending:
22. `CSmspMessageQueue::DoCancel` ("Completes all items in the queue with
    KErrCancel", `smsprot/smspqueue.cpp:136`) completes the first. With three messages
    queued at power down, cancelling the second then starts the third on a
    closed handle (`CancelObserver`, `smspqueue.cpp:197`), and ETel panics the stack.
    `SendsAnswered` names who is left behind (`stranded`).
23. A message that is continued and whose encoding fails panics in
    `Complete`, which removes more PDUs than were encoded (`smspsend.cpp:760`; `alive`).
24. A time-out or a cancel after the network has taken a PDU, and a store that
    cannot record it, lead to the PDU being sent again (`NothingSentTwice` says
    which).

Disk:
25. If the free space cannot be read after the notification was asked for, the monitor may
    wait above the limit; a failed notification ends the watch; an increase
    exactly to the limit is not reported.

Packet data contexts:
26. `iErrorCode` of `TPdpStateCreatingSecondary` is one for all contexts
    (`spudfsm/tpdpstatecreatingSecondary.cpp:45`): when two creations fail
    together the second provider is told `KErrNone`. With two secondary
    contexts `AnswersAreTrue` fails so.
27. A status that changes between `GetStatus` and the first `NotifyStatusChange`
    (`spudtel/eteldriverstrategies.cpp:1198-1233`) is missed for ever: a
    deletion there leaves the context open. `DeletionNoticed` is about changes the notifier
    is told of.
28. A suspension during a change of QoS or TFT, or during an activation, is
    taken note of and then overwritten or ignored: the context is Open while
    suspended.
29. A primary context that could not be created is answered while its deletion still
    runs (`spudfsm/tpdpstatecreatingprimary.cpp:44`); a retry finds the
    old context (`PDPSCPRStates.cpp:838`).
30. The notifier does not start again after a deletion
    (`spudtel/cpdpstatuschangenotifier.cpp:62`), though contexts are to be reused;
    nor after an error, of which the code asserts that there is none (`:103`).
31. Cancels of the driver use the wrong handle for TFT and negotiated QoS
    requests, and none for a secondary context: the cancel waits for the TSY.
32. `ContextParametersChange` takes the place of the answer an activity waits for
    (`PDPSCPR.cpp:294-301`).

Hazards that no property covers are in `PROJECT.json` with the reason.

## 6. Not modelled

The repository is far larger than what has concurrent state worth a model: about
half of it is client interfaces, encoders and tests.
- *TSY loading*, *priority and emergency clients*, failures inside
  `NewTelObject` and the loan of data ports: small, next in line.
- *Common TSY, dispatch layer*: one pending request per kind with a timeout; a
  module for the queue would be an implementation of what `TsyContract`
  assumes of a TSY.
- *SIM slots*: enumeration, its roll-back, deletion; the class 0 store; status
  reports and commands.
- *Contexts*: multicast, the Stopping state and suspensions by clients (only
  tests ask for them), the notifiers of QoS and configuration, and the providers, whose
  framework is not in the repository.
- *Encoders, client APIs, utilities, channel adaptors, reference TSYs, tests*:
  conversions, thin clients or I/O.

## 7. Plan

1. `SmsEnumerate` (`smspenum.cpp`): the roll-back of an enumeration that fails,
   with `SmsReceive`'s store.
2. `CtsyQueue`: the request queue of the common TSY with its timeouts, against
   `TsyContract`.
3. Priority and emergency clients, failures inside `NewTelObject`, and data port
   loans, in `EtelServer`; the guard on handles that are used again in `EtelRequests`.
4. Multicast contexts and the second use of an id, in `PdpContexts`.
5. `StoreIsBounded` where memory and disk both run out: an invariant that follows
   the disk monitor.
