----------------------------- MODULE EtelServer -----------------------------
(***************************************************************************)
(* Sessions, telephony objects and dummy sessions of the ETel server.  A   *)
(* client that closes may leave requests with the TSY: a dummy session     *)
(* keeps the object, its owners and the server alive until the TSY has     *)
(* answered them, and the server stops once nothing is left.               *)
(* Source: telephonyserver/etelserverandcore/SETEL/ET_SVR.CPP (CTelServer, *)
(* CDestroyDummySubSession), ET_SES.CPP (CTelSession), ET_PHONE.CPP and    *)
(* ET_CORE.CPP (CTelObject, CCallBase).                                    *)
(*                                                                         *)
(* A session opens one sub-session, once: a client that comes back is      *)
(* another session.  Of the requests of EtelRequests only the active list  *)
(* is kept, as a set; up-calls inside a handler are the next step.         *)
(***************************************************************************)
EXTENDS Integers, FiniteSets

CONSTANTS
  Session,
  Object,              \* CTelObjects
  ObjectOf,            \* the object a session opens
  Above,               \* an object with its owners
  CallObject,          \* the objects that are calls and have an owner session
  Ipc,
  MultipleCompletion, RePost,   \* request modes, as in EtelRequests
  LateCompletion,      \* may a cancelled notification be reported as usual?
  NoSession

ASSUME ObjectAssumption ==
  /\ ObjectOf \in [Session -> Object]
  /\ Above \in [Object -> SUBSET Object]
  /\ \A o \in Object : o \in Above[o]
  /\ CallObject \subseteq Object
ASSUME ModeAssumption == MultipleCompletion \cup RePost \subseteq Ipc
ASSUME NoSessionAssumption == NoSession \notin Session /\ LateCompletion \in BOOLEAN

Key == Session \X Ipc

VARIABLES
  phase,         \* of a session: new, connected, open (its sub-session), closed, gone
  refs,          \* CObject access count; 0: the object does not exist
  active,        \* iReqActiveList
  placed,        \* iPlacedRequest: passed to the TSY
  interested,    \* iClientInterested
  dummy,         \* iActiveReqCount, iCreateDummy and iDestroyDummySubSession of an object
  owner,         \* iOwnerSession of a call
  relinquishing, \* TSY: RelinquishOwnership calls it has still to complete
  sessionCount,  \* iSessionCount
  graceful,      \* iShutGracefully
  stopQueued,    \* iSch is active
  running        \* the server's scheduler

requests == <<active, placed, interested>>
calls == <<owner, relinquishing>>
server == <<sessionCount, graceful, stopQueued, running>>
vars == <<phase, refs, requests, dummy, calls, server>>

Phase == {"new", "connected", "open", "closed", "gone"}
Dummy == [count : Nat, wanted : BOOLEAN, open : BOOLEAN, queued : BOOLEAN]
NoDummy == [count |-> 0, wanted |-> FALSE, open |-> FALSE, queued |-> FALSE]

ServerTypeOK ==
  /\ phase \in [Session -> Phase]
  /\ refs \in [Object -> Nat]
  /\ active \subseteq Key /\ placed \subseteq active /\ interested \subseteq active
  /\ dummy \in [Object -> Dummy]
  /\ owner \in [CallObject -> Session \cup {NoSession}]
  /\ relinquishing \in [CallObject -> Nat]
  /\ sessionCount \in Nat
  /\ {graceful, stopQueued, running} \subseteq BOOLEAN

Init ==
  /\ phase = [s \in Session |-> "new"]
  /\ refs = [o \in Object |-> 0]
  /\ active = {} /\ placed = {} /\ interested = {}
  /\ dummy = [o \in Object |-> NoDummy]
  /\ owner = [o \in CallObject |-> NoSession]
  /\ relinquishing = [o \in CallObject |-> 0]
  /\ sessionCount = 0
  /\ graceful = FALSE /\ stopQueued = FALSE /\ running = TRUE

-----------------------------------------------------------------------------
\* The session count (Inc, Dec) and the references of an object and its owners.

IncKeepingStop ==                                                 \* mutant
  sessionCount' = sessionCount + 1 /\ stopQueued' = stopQueued
Inc ==
  /\ sessionCount' = sessionCount + 1
  /\ stopQueued' = (stopQueued /\ sessionCount # 0)

\* Inc and Dec of one handler together; a count that falls to zero stops the server.
Count(up, down) ==
  /\ sessionCount' = sessionCount + up - down
  /\ stopQueued' = (stopQueued \/ (down > 0 /\ sessionCount' = 0 /\ graceful))

\* An object nobody refers to is deleted, its dummy session and its calls with it.
Keep(r, d) ==
  /\ refs' = r
  /\ dummy' = [o \in Object |-> IF r[o] = 0 THEN NoDummy ELSE d[o]]

RefsAdded(o, n) == [p \in Object |-> IF p \in Above[o] THEN refs[p] + n ELSE refs[p]]
One(b) == IF b THEN 1 ELSE 0

-----------------------------------------------------------------------------
\* The dummy session of an object.

\* CreateDummySession: n requests of the closing client are active.
OpensTwice(d, n, wanted) == n > 0 \/ wanted                        \* mutant
Opens(d, n, wanted) == ~d.open /\ (n > 0 \/ wanted)
CreateDummySession(d, n, wanted) ==
  [count |-> IF d.open THEN d.count ELSE d.count + n,
   wanted |-> wanted,
   open |-> d.open \/ Opens(d, n, wanted),
   queued |-> d.queued]

\* CheckAndDestroyDummySubSession: is this its last turn?
DueWhenCounted(d) == d.count = 1 /\ ~d.wanted                       \* mutant
Due(d) == (d.count = 1 /\ ~d.wanted) \/ (d.count = 0 /\ d.wanted)
Calls(d) == Due(d) /\ ~d.queued
CheckAndDestroyDummySubSession(d) ==
  [count |-> IF d.count > 0 THEN d.count - 1 ELSE 0,
   wanted |-> d.wanted /\ d.count > 0,
   open |-> d.open,
   queued |-> d.queued \/ Due(d)]

\* The same, n times in a handler.
CheckTimes(d, n) ==
  LET f[i \in 0..n] == IF i = 0 THEN d ELSE CheckAndDestroyDummySubSession(f[i - 1])
  IN f[n]

-----------------------------------------------------------------------------
\* The clients.

Connect(s) ==
  /\ running /\ phase[s] = "new"
  /\ phase' = [phase EXCEPT ![s] = "connected"]
  /\ Inc
  /\ UNCHANGED <<refs, requests, dummy, calls, graceful, running>>

\* NewTelObject: the object is made if need be, and referred to with its owners
\* (not while requests on a deleted one are left: see the README, section 5).
OpenSubSession(s) ==
  /\ running /\ phase[s] = "connected"
  /\ \A k \in active : refs[ObjectOf[k[1]]] > 0
  /\ phase' = [phase EXCEPT ![s] = "open"]
  /\ Keep(RefsAdded(ObjectOf[s], 1), dummy)
  /\ owner' = [o \in CallObject |-> IF refs[o] = 0 THEN NoSession ELSE owner[o]]
  /\ relinquishing' = [o \in CallObject |-> IF refs[o] = 0 THEN 0 ELSE relinquishing[o]]
  /\ UNCHANGED <<requests, server>>

Sharers(k) ==
  {j \in active \ {k} : /\ k[2] \in MultipleCompletion
                        /\ j[2] = k[2] /\ ObjectOf[j[1]] = ObjectOf[k[1]]}

Post(k) ==
  /\ running /\ phase[k[1]] = "open" /\ k \notin active
  /\ active' = active \cup {k}
  /\ interested' = interested \cup {k}
  /\ placed' = IF Sharers(k) = {} THEN placed \cup {k} ELSE placed
  /\ UNCHANGED <<phase, refs, dummy, calls, server>>

\* CloseSubSessionPreProcessing and the removal of the handle; ending: the
\* session's destructor does it, and counts the session off too.
Close(s, ending) ==
  LET o == ObjectOf[s]
      mine == {k \in active \cap interested : k[1] = s}
      dropped == mine \ placed
      owned == o \in CallObject /\ owner[o] = s
      created == CreateDummySession(dummy[o], Cardinality(mine), owned)
      left == CheckTimes(created, Cardinality(dropped))
      opened == Opens(dummy[o], Cardinality(mine), owned)
  IN /\ Keep(RefsAdded(o, One(opened) - 1), [dummy EXCEPT ![o] = left])
     /\ Count(One(opened), One(left.queued /\ ~created.queued) + One(ending))
     /\ active' = active \ dropped
     /\ interested' = interested \ mine
     /\ relinquishing' = IF owned THEN [relinquishing EXCEPT ![o] = @ + 1]
                                  ELSE relinquishing
     /\ UNCHANGED <<placed, owner, graceful, running>>

CloseSubSession(s) ==
  /\ running /\ phase[s] = "open"
  /\ phase' = [phase EXCEPT ![s] = "closed"]
  /\ Close(s, FALSE)

CloseSession(s) ==
  /\ running /\ phase[s] \in {"connected", "open", "closed"}
  /\ phase' = [phase EXCEPT ![s] = "gone"]
  /\ IF phase[s] = "open" THEN Close(s, TRUE)
     ELSE /\ Count(0, 1)
          /\ UNCHANGED <<refs, requests, dummy, calls, graceful, running>>

-----------------------------------------------------------------------------
\* The TSY.  An object that was deleted makes no up-call any more.

\* ReqCompleted for k takes gone off the list and places next; whatever the
\* request and its client, it is a turn of the object's dummy session.
ReqCompleted(k, gone, next) ==
  LET o == ObjectOf[k[1]] IN
  /\ running /\ k \in placed /\ refs[o] > 0
  /\ active' = active \ gone
  /\ placed' = (placed \ gone) \cup next
  /\ interested' = interested \ gone
  /\ dummy' = [dummy EXCEPT ![o] = CheckAndDestroyDummySubSession(@)]
  /\ Count(0, One(Calls(dummy[o])))
  /\ UNCHANGED <<phase, refs, calls, graceful, running>>

\* A notification, which is posted again.
Notified(k) ==
  /\ k[2] \in RePost
  /\ k \in interested \/ LateCompletion
  /\ ReqCompleted(k, {}, {})

\* A final answer, for the sharers too.
Answered(k) == ReqCompleted(k, Sharers(k) \cup {k}, {})

\* KErrCancel: another client's request takes its place.
Cancelled(k) ==
  \E next \in SUBSET Sharers(k) :
    /\ Cardinality(next) = One(Sharers(k) # {})
    /\ ReqCompleted(k, {k}, next)

\* Ownership of a call goes to a client with a request, and back.
SetOwnership(k) ==
  LET o == ObjectOf[k[1]] IN
  /\ running /\ o \in CallObject /\ k \in placed \cap interested
  /\ owner[o] # k[1]
  /\ owner' = [owner EXCEPT ![o] = k[1]]
  /\ UNCHANGED <<phase, refs, requests, dummy, relinquishing, server>>

SetUnowned(o) ==
  /\ running /\ refs[o] > 0 /\ owner[o] # NoSession
  /\ owner' = [owner EXCEPT ![o] = NoSession]
  /\ UNCHANGED <<phase, refs, requests, dummy, relinquishing, server>>

RelinquishOwnershipCompleted(o) ==
  /\ running /\ relinquishing[o] > 0 /\ refs[o] > 0
  /\ relinquishing' = [relinquishing EXCEPT ![o] = @ - 1]
  /\ dummy' = [dummy EXCEPT ![o] = CheckAndDestroyDummySubSession(@)]
  /\ Count(0, One(Calls(dummy[o])))
  /\ UNCHANGED <<phase, refs, requests, owner, graceful, running>>

-----------------------------------------------------------------------------
\* RunL of the dummy session: its references go.
RunLAlone(o) ==                                                   \* mutant
  /\ running /\ dummy[o].queued
  /\ Keep([refs EXCEPT ![o] = @ - 1],
          [dummy EXCEPT ![o].open = FALSE, ![o].queued = FALSE])
  /\ UNCHANGED <<phase, requests, calls, server>>
RunL(o) ==
  /\ running /\ dummy[o].queued
  /\ Keep(RefsAdded(o, -1), [dummy EXCEPT ![o].open = FALSE, ![o].queued = FALSE])
  /\ UNCHANGED <<phase, requests, calls, server>>

CFMessageShutdownLater ==                                         \* mutant
  /\ running /\ ~graceful
  /\ graceful' = TRUE
  /\ UNCHANGED <<phase, refs, requests, dummy, calls, sessionCount, stopQueued, running>>
CFMessageShutdown ==
  /\ running /\ ~graceful
  /\ graceful' = TRUE
  /\ stopQueued' = (sessionCount = 0)
  /\ UNCHANGED <<phase, refs, requests, dummy, calls, sessionCount, running>>

\* CTelSchedulerStop::RunL.
Stop ==
  /\ running /\ stopQueued
  /\ running' = FALSE /\ stopQueued' = FALSE
  /\ UNCHANGED <<phase, refs, requests, dummy, calls, sessionCount, graceful>>

Next ==
  \/ \E s \in Session : \/ Connect(s) \/ OpenSubSession(s)
                        \/ CloseSubSession(s) \/ CloseSession(s)
  \/ \E k \in Key : \/ Post(k) \/ Notified(k) \/ Answered(k) \/ Cancelled(k)
                    \/ SetOwnership(k)
  \/ \E o \in CallObject : SetUnowned(o) \/ RelinquishOwnershipCompleted(o)
  \/ \E o \in Object : RunL(o)
  \/ CFMessageShutdown
  \/ Stop

Spec == Init /\ [][Next]_vars

\* The TSY completes what it was asked to cancel or to relinquish; the one-shots run.
Fairness ==
  /\ \A k \in Key : WF_vars(k \notin interested /\ (Answered(k) \/ Cancelled(k)))
  /\ \A o \in CallObject : WF_vars(RelinquishOwnershipCompleted(o))
  /\ \A o \in Object : WF_vars(RunL(o))
  /\ WF_vars(Stop)

FairSpec == Spec /\ Fairness

\* The condition of the theorems: an owner does not close a call whose dummy session
\* is about to go (README, section 5, says what becomes of the counts if one does).
NoLateOwner ==
  \A o \in CallObject : dummy[o].queued => relinquishing'[o] <= relinquishing[o]

-----------------------------------------------------------------------------
\* The server's session count is what it stands for: the sessions, and the dummy
\* sessions that have not been sent away; so Dec never faults.
SessionCountExact ==
  sessionCount = Cardinality({s \in Session : phase[s] \in {"connected", "open", "closed"}})
               + Cardinality({o \in Object : dummy[o].open /\ ~dummy[o].queued})

\* An object exists exactly as long as a sub-session or a dummy session of it or
\* of an object it owns: no reference is lost or taken twice.
ReferencesExact ==
  \A o \in Object :
    refs[o] = Cardinality({s \in Session : phase[s] = "open" /\ o \in Above[ObjectOf[s]]})
            + Cardinality({p \in Object : dummy[p].open /\ o \in Above[p]})

\* The server only stops when no client is connected, however late one comes.
StopsUnused ==
  ~running => \A s \in Session : phase[s] \in {"new", "gone"}

\* A dummy session goes once what it waits for is answered; it does not stay for
\* ever (unless the server is stopped first: both one-shots are ready then).
DummyReleased == \A o \in Object : dummy[o].open ~> (~dummy[o].open \/ ~running)

\* A server told to shut down stops once its clients are gone.
ServerStops == (graceful /\ \A s \in Session : phase[s] = "gone") ~> ~running
=============================================================================
