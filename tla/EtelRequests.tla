---------------------------- MODULE EtelRequests ----------------------------
(***************************************************************************)
(* The request lists of one phone in the ETel server: how a client request *)
(* is passed to the telephony module (the TSY), shared between clients,    *)
(* queued by flow control, re-posted, cancelled and completed.             *)
(* Source: telephonyserver/etelserverandcore/SETEL/ET_PHONE.CPP            *)
(* (CReqEntry, CTelObject) and ET_CORE.CPP (CPhoneBase).                   *)
(*                                                                         *)
(* A request entry is named by its key <<client, ipc>>: a client here is   *)
(* one sub-session handle of one session, and FindSameClientEntry allows   *)
(* it one entry per IPC number.  The server is one thread: every handler   *)
(* below is one step.                                                      *)
(***************************************************************************)
EXTENDS Naturals

CONSTANTS
  Client,              \* sub-session handles
  Ipc,                 \* request numbers
  Object,              \* CTelObjects of the phone
  ObjectOf,            \* the object a sub-session handle stands for
  FlowControlObeyed,   \* IPCs with KReqModeFlowControlObeyed
  MultipleCompletion,  \* IPCs with KReqModeMultipleCompletionEnabled
  RePost,              \* IPCs with KReqModeRePostImmediately
  Slots,               \* slots of the circular buffer of a re-posted IPC
  Handle, NoHandle,    \* TTsyReqHandle, TSY_HANDLE_INIT_VALUE
  MaxHold,             \* bound: FlowControlSuspend calls of the TSY at a time
  Refuses,             \* at which calls Service() may return an error
  CancelRefused,       \* may CancelService() return an error?
  LateCompletion,      \* may a cancelled notification complete normally?
  CancelsSubSession    \* do clients call CancelSubSession (RFax does)?

Key == Client \X Ipc
Flow == Client \X FlowControlObeyed
Multi == Client \X MultipleCompletion
Notify == Client \X RePost

ASSUME ObjectAssumption == ObjectOf \in [Client -> Object]
ASSUME IpcAssumption ==
  /\ FlowControlObeyed \cup MultipleCompletion \cup RePost \subseteq Ipc
  /\ FlowControlObeyed \cap RePost = {}   \* "This combination should not be used"
ASSUME SlotsAssumption == Slots \in Nat \ {0}
ASSUME HandleAssumption == NoHandle \notin Handle
ASSUME HoldAssumption == MaxHold \in Nat
ASSUME RefusesAssumption == Refuses \subseteq {"new", "resumed", "reposted"}
ASSUME SwitchAssumption ==
  {CancelRefused, LateCompletion, CancelsSubSession} \subseteq BOOLEAN

VARIABLES
  open,          \* sub-session handles in use
  active,        \* iReqActiveList
  waiting,       \* iReqWaitList
  ahead,         \* the entries before an entry in the list it is in
  placed,        \* iPlacedRequest: passed to the TSY
  cancelled,     \* iCancelFnCalled
  interested,    \* iClientInterested
  nulled,        \* iMessageNulled: completed to the client, still posted
  unread,        \* filled slots of the entry's CBuffer, see EtelBuffer
  handle,        \* iTsyReqHandle
  flow,          \* iFlowControlCnt
  registered,    \* <<object, ipc>> the TSY was told to watch
  outstanding,   \* client: requests whose TRequestStatus is pending
  tsy,           \* TSY: handles it has still to complete
  tsyCancelled,  \* TSY: handles it was asked to cancel
  hold           \* TSY: its suspends not yet resumed

lists == <<active, waiting, ahead>>
marks == <<placed, cancelled, interested, nulled, unread, handle>>
tsyVars == <<tsy, tsyCancelled, hold>>
vars == <<open, lists, marks, flow, registered, outstanding, tsyVars>>

Entry == active \cup waiting

TypeOK ==
  /\ open \subseteq Client
  /\ active \subseteq Key /\ waiting \subseteq Key
  /\ ahead \in [Key -> SUBSET Key]
  /\ placed \subseteq Key /\ cancelled \subseteq Key
  /\ interested \subseteq Key /\ nulled \subseteq Key
  /\ unread \in [Key -> 0..Slots]
  /\ handle \in [Key -> Handle \cup {NoHandle}]
  /\ flow \in Nat
  /\ registered \subseteq Object \X Ipc
  /\ outstanding \subseteq Key
  /\ tsy \subseteq Handle /\ tsyCancelled \subseteq Handle
  /\ hold \in 0..MaxHold

Init ==
  /\ open = Client
  /\ active = {} /\ waiting = {} /\ ahead = [k \in Key |-> {}]
  /\ placed = {} /\ cancelled = {} /\ interested = {} /\ nulled = {}
  /\ unread = [k \in Key |-> 0]
  /\ handle = [k \in Key |-> NoHandle]
  /\ flow = 0
  /\ registered = {}
  /\ outstanding = {}
  /\ tsy = {} /\ tsyCancelled = {} /\ hold = 0

-----------------------------------------------------------------------------
\* Looking entries up.

\* Same IPC on the same CTelObject (the buffers of one IPC have one size).
Same(j, k) == j[2] = k[2] /\ ObjectOf[j[1]] = ObjectOf[k[1]]

\* Every other active entry that CheckAndCompleteAllActive completes with k.
Sharers(k) == {j \in active \ {k} : k \in Multi /\ Same(j, k)}

\* The entry of S that an iterator over its list meets first, as a set.
First(S) == {k \in S : ahead[k] \cap S = {}}

FindByTsyHandleAndPlacedRequest(h) ==
  First({k \in active \cap placed : handle[k] = h})

FindByIpcAndTelObject(k, S) == First({j \in S : Same(j, k)})

FindThisReqBySameClient(k) ==                                     \* mutant
  First({j \in active \ {k} : j[1] = k[1] /\ Same(j, k)})
FindThisReqPlacedByAnother(k) ==                                  \* mutant
  First({j \in active \cap placed : j[1] # k[1] /\ Same(j, k)})
FindThisReqByAnotherClient(k) ==
  First({j \in active : j[1] # k[1] /\ Same(j, k)})

\* A handle no entry and no TSY request carries; the code counts to 2^32.
Fresh == Handle \ (tsy \cup {handle[k] : k \in Entry})
TsyReqHandle == CHOOSE h \in Fresh : TRUE

-----------------------------------------------------------------------------
\* Changing the lists.  gone: destroyed; up: moved from waiting to active;
\* new: added at the end of the active list; late: added to the waiting list.

Relist(gone, up, new, late) ==
  /\ active' = (active \ gone) \cup (up \ gone) \cup new
  /\ waiting' = (waiting \ (gone \cup up)) \cup late
  /\ ahead' = [k \in Key |->
       IF k \in new THEN active
       ELSE IF k \in late THEN waiting
       ELSE IF k \in gone THEN {}
       ELSE IF k \in up THEN (active \cup (ahead[k] \cap up)) \ gone
       ELSE ahead[k] \ (gone \cup up)]

\* The marks that go with a destroyed entry.
Unmark(gone) ==
  /\ cancelled' = cancelled \ gone
  /\ interested' = interested \ gone
  /\ handle' = [k \in Key |-> IF k \in gone THEN NoHandle ELSE handle[k]]

\* ActivateNextWaitingReq: w and the waiting entries that share its handle.
Activated(w) ==
  {w} \cup {j \in waiting : w \in Multi /\ handle[j] = handle[w]}

\* What FlowControlResume activates once the counter has gone down to f.
ResumableTooSoon(f) == IF f = 1 THEN First(waiting) ELSE {}       \* mutant
ResumableNewest(f) ==                                             \* mutant
  IF f = 0 THEN {k \in waiting : \A j \in waiting : k \notin ahead[j]} ELSE {}
ResumableNever(f) == {k \in First(waiting) : f < 0}               \* mutant
Resumable(f) == IF f = 0 THEN First(waiting) ELSE {}

\* What of S the TSY turns down; when is a member of Refuses.
MayRefuse(when, S) == IF when \in Refuses THEN SUBSET S ELSE {{}}

-----------------------------------------------------------------------------
\* GeneralReq and ReqAnalyserL: a client sends request k.

MayIssue(k) == k[1] \in open /\ k \notin outstanding

\* CompleteOrBufferRead: the notification is already posted for this client.
\* A buffered value completes it at once, else it becomes the true request.
ReadBuffered(k) ==
  /\ MayIssue(k) /\ k \in active \cap Notify \cap nulled
  /\ unread[k] > 0
  /\ unread' = [unread EXCEPT ![k] = @ - 1]
  /\ UNCHANGED <<open, lists, placed, cancelled, interested, nulled, handle>>
  /\ UNCHANGED <<flow, registered, outstanding, tsyVars>>

ReArmNulled(k) ==                                                 \* mutant
  /\ MayIssue(k) /\ k \in active \cap Notify \cap nulled
  /\ unread[k] = 0
  /\ outstanding' = outstanding \cup {k}
  /\ UNCHANGED <<open, lists, placed, cancelled, interested, nulled, unread, handle>>
  /\ UNCHANGED <<flow, registered, tsyVars>>
ReArm(k) ==
  /\ MayIssue(k) /\ k \in active \cap Notify \cap nulled
  /\ unread[k] = 0
  /\ nulled' = nulled \ {k}
  /\ outstanding' = outstanding \cup {k}
  /\ UNCHANGED <<open, lists, placed, cancelled, interested, unread, handle>>
  /\ UNCHANGED <<flow, registered, tsyVars>>

\* A new entry: added to one list, not yet passed to the TSY.
NewReq(k, new, late, h) ==
  /\ Relist({}, {}, new, late)
  /\ interested' = interested \cup {k}
  /\ handle' = [handle EXCEPT ![k] = h]
  /\ outstanding' = outstanding \cup {k}
  /\ UNCHANGED <<open, cancelled, nulled, unread, tsyCancelled, hold>>

\* Multiple completion: another entry for the same IPC and object carries k.
Share(k) ==
  /\ MayIssue(k) /\ k \in Multi \ Entry
  /\ \/ \E p \in FindByIpcAndTelObject(k, active) :
          NewReq(k, {k}, {}, handle[p])
     \/ /\ FindByIpcAndTelObject(k, active) = {}
        /\ k \in Flow
        /\ \E p \in FindByIpcAndTelObject(k, waiting) :
             NewReq(k, {}, {k}, handle[p])
  /\ UNCHANGED <<placed, flow, registered, tsy>>

NotSought(k) == MayIssue(k) /\ k \notin Entry /\ Fresh # {}        \* mutant
NotShared(k) ==
  /\ MayIssue(k) /\ k \notin Entry
  /\ k \in Multi => /\ FindByIpcAndTelObject(k, active) = {}
                    /\ FindByIpcAndTelObject(k, waiting) = {}
  /\ Fresh # {}

\* Flow control is suspended: buffer the request.
Wait(k) ==
  /\ NotShared(k) /\ k \in Flow
  /\ flow > 0
  /\ NewReq(k, {}, {k}, TsyReqHandle)
  /\ UNCHANGED <<placed, flow, registered, tsy>>

\* RegisterNotification tells the TSY that a notification is wanted.
Register(k) ==
  registered' = registered \cup
    (IF k \in Notify THEN {<<ObjectOf[k[1]], k[2]>>} ELSE {})

\* The request goes down to the TSY, which accepts it.
Post(k) ==
  /\ NotShared(k)
  /\ k \in Flow => flow = 0
  /\ flow' = IF k \in Flow THEN 1 ELSE flow
  /\ Register(k)
  /\ NewReq(k, {k}, {}, TsyReqHandle)
  /\ placed' = placed \cup {k}
  /\ tsy' = tsy \cup {TsyReqHandle}

\* The TSY refuses it, or refuses to watch for it: FlowControlDec, and the
\* message completes at once.
PostRefused(k) ==
  /\ "new" \in Refuses
  /\ NotShared(k)
  /\ k \in Flow => flow = 0
  /\ Register(k) \/ UNCHANGED registered
  /\ UNCHANGED <<open, lists, marks, flow, outstanding, tsyVars>>

-----------------------------------------------------------------------------
\* Cancelling.

\* EIsaCancelMessage for a request the TSY has not got: complete and destroy.
CancelUnplaced(k) ==
  /\ k[1] \in open /\ k \in outstanding
  /\ k \in waiting \/ k \in (active \cap Multi) \ (placed \cup nulled)
  /\ Relist({k}, {}, {}, {})
  /\ Unmark({k})
  /\ outstanding' = outstanding \ {k}
  /\ UNCHANGED <<open, placed, nulled, unread, flow, registered, tsyVars>>

\* A request the TSY has: CancelService, once per entry.
CancelMarked(k) ==                                                \* mutant
  /\ k[1] \in open /\ k \in outstanding
  /\ k \in active \ nulled /\ k \notin cancelled
  /\ k \in Multi => k \in placed
  /\ cancelled' = cancelled \cup {k}
  /\ UNCHANGED <<open, lists, placed, interested, nulled, unread, handle>>
  /\ UNCHANGED <<flow, registered, outstanding, tsyVars>>
CancelPlaced(k) ==
  /\ k[1] \in open /\ k \in outstanding
  /\ k \in active \ nulled /\ k \notin cancelled
  /\ k \in Multi => k \in placed
  /\ cancelled' = cancelled \cup {k}
  /\ tsyCancelled' = tsyCancelled \cup {handle[k]}
  /\ UNCHANGED <<open, lists, placed, interested, nulled, unread, handle>>
  /\ UNCHANGED <<flow, registered, outstanding, tsy, hold>>

\* CancelService returns an error, as CPhoneBase's own does for an IPC it
\* does not list: the entry is destroyed, the TSY keeps the request.
CancelPlacedRefused(k) ==
  /\ CancelRefused
  /\ k[1] \in open /\ k \in outstanding
  /\ k \in active \ nulled /\ k \notin cancelled
  /\ k \in Multi => k \in placed
  /\ Relist({k}, {}, {}, {})
  /\ Unmark({k})
  /\ placed' = placed \ {k}
  /\ outstanding' = outstanding \ {k}
  /\ UNCHANGED <<open, nulled, unread, flow, registered, tsyVars>>

\* FlushReqs and CancelActiveReq on the entries of sub-session c: the waiting ones,
\* the active ones it still wants, those of them that the TSY is asked to cancel
\* and those that are destroyed because the TSY has not got them.
FlushedAnyClient(c) == {k \in waiting : c \in Client}                 \* mutant
Flushed(c) == {k \in waiting : k[1] = c}
MineNone(c) == {k \in active : k[1] = c /\ c \notin Client}          \* mutant
Mine(c) == {k \in active \cap interested : k[1] = c}
AskedNone(c) == {k \in Mine(c) : c \notin Client}                   \* mutant
Asked(c) == (Mine(c) \cap placed) \ cancelled
DroppedPlaced(c) == Mine(c) \ cancelled                            \* mutant
Dropped(c) == Mine(c) \ (cancelled \cup placed)

LoseInterest(c) ==
  LET gone == Flushed(c) \cup Dropped(c)
  IN /\ Relist(gone, {}, {}, {})
     /\ interested' = interested \ (Mine(c) \cup gone)
     /\ cancelled' = (cancelled \ gone) \cup Asked(c)
     /\ tsyCancelled' = tsyCancelled \cup {handle[k] : k \in Asked(c)}
     /\ nulled' = nulled \ gone
     /\ unread' = [k \in Key |-> IF k \in gone THEN 0 ELSE unread[k]]
     /\ handle' = [k \in Key |-> IF k \in gone THEN NoHandle ELSE handle[k]]
     /\ UNCHANGED <<placed, flow, registered, tsy, hold>>

\* EIsaCancelSubSession: only the waiting requests are completed.
CancelSubSession(c) ==
  /\ CancelsSubSession
  /\ c \in open
  /\ LoseInterest(c)
  /\ outstanding' = outstanding \ Flushed(c)
  /\ UNCHANGED open

\* A sub-session under a handle that no entry of an earlier one carries.
OpenSubSession(c) ==
  /\ c \notin open /\ \A k \in Entry : k[1] # c
  /\ open' = open \cup {c}
  /\ outstanding' = {k \in outstanding : k[1] # c}
  /\ UNCHANGED <<lists, marks, flow, registered, tsyVars>>

\* CloseSubSessionPreProcessing (FlushReqs); the handle is gone afterwards.
CloseSubSession(c) ==
  /\ c \in open
  /\ open' = open \ {c}
  /\ LoseInterest(c)
  /\ UNCHANGED outstanding

-----------------------------------------------------------------------------
\* ReqCompleted: the TSY completes the request it knows by handle h.

\* CheckAndCompleteAllActive and UpdateAndCompleteIfNecessary with KErrNone for
\* a notification: the value goes to each entry's buffer, and from there to the
\* clients that have their request outstanding.  The same request goes straight
\* back to the TSY.
Notified(h) ==
  \E k \in FindByTsyHandleAndPlacedRequest(h) \cap Notify :
  \E refused \in MayRefuse("reposted", {k}) :
    LET all == Sharers(k) \cup {k} IN
    /\ h \in tsyCancelled => LateCompletion
    /\ unread' = [j \in Key |-> IF j \in all \cap nulled /\ unread[j] < Slots
                                THEN unread[j] + 1 ELSE unread[j]]
    /\ nulled' = nulled \cup all
    /\ outstanding' = outstanding \ ((all \cap interested) \ nulled)
    /\ tsy' = IF refused = {} THEN tsy ELSE tsy \ {h}
    /\ tsyCancelled' = tsyCancelled \ {h}
    /\ UNCHANGED <<open, lists, placed, cancelled, interested, handle>>
    /\ UNCHANGED <<flow, registered, hold>>

\* The entries of gone are completed and destroyed and the TSY forgets the
\* handles of ended.  next, at most one entry, is passed to the TSY in their
\* place, and so is w, at most one entry at the head of the waiting list; f is
\* the flow control counter before w is passed on.  An activated request that is
\* refused is completed and destroyed; a re-posted one that is refused stays.
ConcludeWith(refused, failed, ended, gone, next, w, f) ==
  LET dead == gone \cup failed
      sent == (next \ refused) \cup (w \ failed)
  IN /\ Relist(dead, UNION {Activated(k) : k \in w}, {}, {})
     /\ Unmark(dead)
     /\ placed' = (placed \ dead) \cup next \cup (w \ failed)
     /\ nulled' = nulled \ dead
     /\ unread' = [k \in Key |-> IF k \in dead THEN 0 ELSE unread[k]]
     /\ flow' = IF w \ failed = {} THEN f ELSE f + 1
     /\ outstanding' = outstanding \ ((dead \cap interested) \ nulled)
     /\ tsy' = (tsy \ ended) \cup {handle[k] : k \in sent}
     /\ tsyCancelled' = tsyCancelled \ ended
     /\ UNCHANGED open

Conclude(ended, gone, next, w, f) ==
  \E refused \in MayRefuse("reposted", next), failed \in MayRefuse("resumed", w) :
    ConcludeWith(refused, failed, ended, gone, next, w, f)

\* The end of ReqCompleted for entry k: FlowControlSuspend for a re-posted
\* request, then FlowControlResume, if k obeys flow control.
ConcludeNotCounted(k, gone, next) ==                              \* mutant
  IF k \in Flow
  THEN flow > 0 /\ Conclude({handle[k]}, gone, next, Resumable(flow - 1), flow - 1)
  ELSE Conclude({handle[k]}, gone, next, {}, flow)
ConcludeReq(k, gone, next) ==
  LET f == IF next = {} THEN flow - 1 ELSE flow IN
  IF k \in Flow THEN flow > 0 /\ Conclude({handle[k]}, gone, next, Resumable(f), f)
                ELSE Conclude({handle[k]}, gone, next, {}, flow)

\* A final answer (KErrNone, or an error), or an error for a notification:
\* every sharer is completed with it.
Answered(h) ==
  \E k \in FindByTsyHandleAndPlacedRequest(h) :
    /\ h \in tsyCancelled /\ k \in Notify => LateCompletion
    /\ ConcludeReq(k, Sharers(k) \cup {k}, {})
    /\ UNCHANGED <<registered, hold>>

\* KErrCancel: only k is completed; another client that shares the request is
\* posted in its place, or, for a notification, the TSY stops watching.
Cancelled(h) ==
  /\ h \in tsyCancelled
  /\ \E k \in FindByTsyHandleAndPlacedRequest(h) \cap cancelled :
       LET next == IF k \in Multi THEN FindThisReqByAnotherClient(k) ELSE {} IN
       /\ ConcludeReq(k, {k}, next)
       /\ registered' = IF k \in Notify /\ next = {}
                        THEN registered \ {<<ObjectOf[k[1]], k[2]>>}
                        ELSE registered
  /\ UNCHANGED hold

ReqCompleted(h) == h \in tsy /\ (Notified(h) \/ Answered(h) \/ Cancelled(h))

\* The TSY's own up-calls on the flow of requests.
FlowControlSuspend ==
  /\ hold < MaxHold
  /\ hold' = hold + 1
  /\ flow' = flow + 1
  /\ UNCHANGED <<open, lists, marks, registered, outstanding, tsy, tsyCancelled>>

FlowControlResume ==
  /\ hold > 0 /\ flow > 0
  /\ hold' = hold - 1
  /\ Conclude({}, {}, {}, Resumable(flow - 1), flow - 1)
  /\ UNCHANGED registered

-----------------------------------------------------------------------------
Issue(k) == \/ ReadBuffered(k) \/ ReArm(k) \/ Share(k) \/ Wait(k)
            \/ Post(k) \/ PostRefused(k)

Cancel(k) == CancelUnplaced(k) \/ CancelPlaced(k) \/ CancelPlacedRefused(k)

Next ==
  \/ \E k \in Key : Issue(k) \/ Cancel(k)
  \/ \E c \in Client : OpenSubSession(c) \/ CancelSubSession(c) \/ CloseSubSession(c)
  \/ \E h \in Handle : ReqCompleted(h)
  \/ FlowControlSuspend
  \/ FlowControlResume

Spec == Init /\ [][Next]_vars

\* The TSY answers what it was given unless the answer depends on an event (a
\* notification not cancelled), and resumes the flow it suspended; no client is
\* obliged to do anything.
Fairness ==
  /\ \A h \in Handle : WF_vars(ReqCompleted(h) /\ \E k \in active \cap placed :
                                handle[k] = h /\ (k \in Notify => h \in tsyCancelled))
  /\ WF_vars(FlowControlResume)

FairSpec == Spec /\ Fairness

-----------------------------------------------------------------------------
\* Every handle the TSY may complete belongs to exactly one request the server
\* has placed, so no up-call runs into the fault of ReqCompleted
\* (EEtelFaultCompletionReceivedWithNoReqPackage) or answers the wrong request.
UpcallFindsRequest ==
  \A h \in tsy : \E k \in active \cap placed :
    /\ handle[k] = h
    /\ \A j \in active \cap placed : handle[j] = h => j = k

\* No request of an open sub-session is lost or answered twice: what its client
\* waits for is exactly what the lists still hold for it, un-nulled; and the
\* server would not panic the client (RequestAsyncTwice) for asking again.
EveryRequestAccountedFor ==
  \A k \in Key : k[1] \in open =>
    /\ k \in outstanding <=> k \in Entry \ nulled
    /\ k \in Entry => k \in interested
    /\ k \in nulled => k \in active \cap Notify

\* The flow control counter is what it stands for: the suspends of the TSY plus
\* the one flow controlled request that may be with the TSY.
FlowCountExact ==
  /\ \A j, k \in placed \cap Flow : j = k
  /\ flow = hold + (IF placed \cap Flow = {} THEN 0 ELSE 1)

\* No lost wake-up: a request waits only while something will resume the flow.
WaitingMeansSuspended == waiting # {} => flow > 0

\* What is in the active list, or counts as passed to the TSY, is with the TSY: as a
\* placed entry itself, or by one it shares, whose completion completes it too.
ActiveIsWithTsy ==
  \A k \in active \cup placed :
    \E p \in (Sharers(k) \cup {k}) \cap active \cap placed :
      handle[p] = handle[k] /\ handle[k] \in tsy

\* "The TSY never gets more than one of these outstanding per TelObject": the TSY
\* has nothing but what is placed, and of the requests with multiple completion
\* one per object is, whatever clients come, cancel and go.
OneMultiplePerObject ==
  /\ \A h \in tsy : \E k \in placed : handle[k] = h
  /\ \A j, k \in placed \cap Multi : Same(j, k) => j = k

\* A client that has cancelled is not left waiting for an event: whatever the
\* server believes it has cancelled and still has placed, the TSY was told of.
CancelReachesTsy ==
  \A k \in active \cap placed \cap cancelled : handle[k] \in tsyCancelled

\* The TSY watches for every notification some client is still entered for.
RegisteredWhileWanted ==
  \A k \in active \cap Notify : <<ObjectOf[k[1]], k[2]>> \in registered

\* Flow controlled requests reach the TSY in the order they came: one is placed
\* from the head of the waiting list, or when nobody waits, or in succession to
\* a request it shares.
NoOvertaking ==
  [][\A k \in (placed' \ placed) \cap Flow :
       waiting = {} \/ k \in First(waiting) \/ k \in active]_vars

\* The TSY's view of the server: see TsyContract.
Contract == INSTANCE TsyContract WITH
  busy <- {<<ObjectOf[k[1]], k[2], handle[k]>> : k \in placed},
  asked <- tsyCancelled,
  held <- hold
KeepsContract == Contract!Spec

\* A closed sub-session gets no answer any more: its client may be gone.
NoAnswerAfterClose ==
  [][\A k \in Key : k[1] \notin open \cup open'
                    => (k \in outstanding' <=> k \in outstanding)]_vars

\* Every request that needs no event is answered, unless its client closes.
RequestsAnswered ==
  \A k \in Key \ Notify :
    k \in outstanding ~> (k \notin outstanding \/ k[1] \notin open)

\* A cancelled request is answered.
CancelsAnswered ==
  \A k \in Key : k \in outstanding \cap cancelled
                 ~> (k \notin outstanding \/ k[1] \notin open)

\* Once a sub-session is closed its entries go, and with them the pointers to
\* its session and object.
ClosedLeavesNoEntry ==
  \A c \in Client : c \notin open ~> (\A k \in Entry : k[1] # c)
=============================================================================
