---------------------------- MODULE PdpContexts ----------------------------
(***************************************************************************)
(* The packet data contexts of the PDP layer: the state machine of each    *)
(* context (spudfsm), the driver that runs one strategy of TSY requests at *)
(* a time for it (spudtel), and its status notifier.  A context is created *)
(* by a connection provider, which asks one thing of it at a time, may     *)
(* have it deleted at any moment, and frees it when it is told that the    *)
(* context is deleted.  The TSY fails any request, and the network         *)
(* suspends, resumes and deletes contexts whenever it likes.               *)
(***************************************************************************)
EXTENDS Naturals, Sequences, SequencesExt

CONSTANTS
  Contexts,    \* context ids
  Primary,     \* KPrimaryContextId
  MaxChanges,  \* bound: status changes the notifier has not been told of yet
  None

VARIABLES
  pdp,         \* the CPdpFsm, its CEtelDriverContext and its notifier, per id
  iErrorCode,  \* of TPdpStateCreatingSecondary, one object for all contexts
  iEtelOpened  \* of CPdpFsmFactory: the phone is open

vars == <<pdp, iErrorCode, iEtelOpened>>

(* A strategy and the steps it goes through. A step is named for the TSY   *)
(* request that is out during it. ActivatePdp and ContextDelete choose     *)
(* their next step in Next; a TFT has one filter here.                     *)
Steps ==
  [OpenPhone     |-> <<"start", "initPhone", "finish">>,
   Create1ry     |-> <<"start", "initialiseContext", "setConfig", "setProfileParams", "finish">>,
   Create2ry     |-> <<"start", "initialiseContext", "finish">>,
   SetQoS        |-> <<"start", "setProfileParams", "finish">>,
   SetTft        |-> <<"start", "createNewTFT", "addTft", "finish">>,
   ChangeTft     |-> <<"start", "changeTft", "changeTftFinished", "finish">>,
   GetNegQoS     |-> <<"start", "getProfileParams", "finish">>,
   ModifyActive  |-> <<"start", "modifyActive", "getProfileParams", "finish">>,
   ActivatePdp   |-> <<"start", "activate", "notifyStatusChange", "getConfig", "getProfileParams", "finish">>,
   ContextDelete |-> <<"start", "deactivate", "deleteContext", "finish">>]

\* None is not the name of a strategy.
ASSUME NoneAssumption == None \notin DOMAIN Steps

(* What the context waits for in the states that only wait for an answer,  *)
(* where they go with it, and the event they pass on.                      *)
Serving ==
  [SettingQoS      |-> [strategy |-> "SetQoS",       then |-> "CreatedSecondary", event |-> "QoSSet"],
   SettingTFT      |-> [strategy |-> "SetTft",       then |-> "CreatedSecondary", event |-> "TFTModified"],
   ChangingQoS     |-> [strategy |-> "SetQoS",       then |-> "Open", event |-> "QoSSet"],
   ChangingTFT     |-> [strategy |-> "ChangeTft",    then |-> "Open", event |-> "TFTModified"],
   ModifyingActive |-> [strategy |-> "ModifyActive", then |-> "Open", event |-> "ModifyActive"],
   GettingNegQoS   |-> [strategy |-> "GetNegQoS",    then |-> "Open", event |-> "GetNegQoS"]]

(* The requests of a provider: where they are taken, and what they start.  *)
Requests ==
  {[in |-> "CreatedSecondary", asks |-> "Activate",     to |-> "ActivatingSecondary", starts |-> "ActivatePdp"],
   [in |-> "CreatedSecondary", asks |-> "QoSSet",       to |-> "SettingQoS",          starts |-> "SetQoS"],
   [in |-> "CreatedSecondary", asks |-> "TFTModified",  to |-> "SettingTFT",          starts |-> "SetTft"],
   [in |-> "Open",             asks |-> "QoSSet",       to |-> "ChangingQoS",         starts |-> "SetQoS"],
   [in |-> "Open",             asks |-> "TFTModified",  to |-> "ChangingTFT",         starts |-> "ChangeTft"],
   [in |-> "Open",             asks |-> "ModifyActive", to |-> "ModifyingActive",     starts |-> "ModifyActive"],
   [in |-> "GettingNegQoS",    asks |-> "GetNegQoS",    to |-> "GettingNegQoS",       starts |-> "GetNegQoS"]}

Nothing == [event |-> None, error |-> FALSE]

New == [life |-> "unused", state |-> "Initialised", iContextStatus |-> "unknown",
        strategy |-> None, step |-> "finish", iStatus |-> "none", iCompletionStatus |-> "none",
        opened |-> FALSE, watching |-> FALSE, changes |-> <<>>,
        network |-> "inactive", awaited |-> None, told |-> Nothing]

Init ==
  /\ pdp = [c \in Contexts |-> New]
  /\ iErrorCode = "none" /\ iEtelOpened = FALSE

----------------------------------------------------------------------------
(* The driver.                                                             *)

StepAfter(strategy, step) ==
  Steps[strategy][1 + (CHOOSE i \in DOMAIN Steps[strategy] : Steps[strategy][i] = step)]

(* The next step, whose request goes to the TSY or is completed at once.   *)
Goes(p, step) ==
  [p EXCEPT !.step = step,
            !.iStatus = IF step \in {"finish", "changeTftFinished"} THEN "none" ELSE "pending"]

(* Calls of Next that may fail before they send a request: OpenNewContext, *)
(* OpenNewQoS, and a set of filters that is no addition. The step stays.   *)
(* OpenNewSecondaryContext, whose result nobody looks at, does not fail.   *)
MayFail(strategy, step) ==
  <<strategy, step>> \in {<<"Create1ry", "start">>, <<"Create1ry", "setConfig">>,
                          <<"Create2ry", "initialiseContext">>, <<"SetTft", "start">>}

(* Deactivate and Delete are only sent for a sub-session that is open.     *)
DeleteNext(p) ==
  LET to == StepAfter("ContextDelete", p.step)
      q == [Goes(p, to) EXCEPT !.iStatus = IF p.opened /\ to # "finish" THEN "pending" ELSE "none"]
  IN IF p.step = "start" THEN [q EXCEPT !.watching = FALSE, !.changes = <<>>]
     ELSE IF to = "finish" THEN [q EXCEPT !.opened = FALSE] ELSE q

StartNotifications(p) == [p EXCEPT !.watching = TRUE]

(* TActivatePdpStrategy: after Activate the status is read until it is     *)
(* active, or inactive; only then the notifier is started. A status that   *)
(* cannot be read counts as inactive, and ends the strategy with an error. *)
Inactive(p) == [Goes(p, "finish") EXCEPT !.iStatus = "error"]
ReadsStatus(p) == p.step \in {"activate", "notifyStatusChange"}
ActivateNext(c, p) ==
  CASE p.step = "start" -> Goes(p, "activate")
    [] ReadsStatus(p) ->
         IF p.network = "active" THEN Goes(p, "getConfig")
         ELSE IF p.network = "inactive" THEN Inactive(p)
         ELSE Goes(p, "notifyStatusChange")
    [] p.step = "getConfig" /\ c = Primary -> Goes(p, "getProfileParams")
    [] OTHER -> StartNotifications(Goes(p, "finish"))

(* The outcomes of a strategy's Next.                                      *)
StrategyNext(c, p) ==
  IF p.strategy = "ContextDelete" THEN {DeleteNext(p)}
  ELSE IF p.strategy = "ActivatePdp"
  THEN {ActivateNext(c, p)} \cup (IF ReadsStatus(p) THEN {Inactive(p)} ELSE {})
  ELSE LET opens == p.strategy \in {"Create1ry", "Create2ry"} /\ p.step = "start"
       IN {[Goes(p, StepAfter(p.strategy, p.step)) EXCEPT !.opened = p.opened \/ opens]}
          \cup (IF MayFail(p.strategy, p.step) THEN {[p EXCEPT !.iStatus = "error"]} ELSE {})

(* CEtelDriverContext::Input: refused while a strategy runs, and the state *)
(* machine does not look at the result.                                    *)
EtelDriverInput(c, p, strategy) ==
  IF p.strategy # None THEN {p}
  ELSE StrategyNext(c, [p EXCEPT !.strategy = strategy, !.step = "start", !.iCompletionStatus = "none"])

(* CancelPdp waits for the outstanding request, and leaves nothing to do.  *)
Idled(p) ==
  [p EXCEPT !.strategy = None, !.step = "finish", !.iStatus = "none", !.iCompletionStatus = "none"]
EtelDriverCancelNot(p) == p                                      \* mutant
EtelDriverCancel(p) == Idled(p)

RecordedAtDeletion(p) ==                                         \* mutant
  IF p.iStatus = "error" /\ p.strategy = "ContextDelete" THEN "error" ELSE p.iCompletionStatus
(* RunL: the first error is kept, and ends every strategy but the deletion.*)
Recorded(p) == IF p.iStatus = "error" THEN "error" ELSE p.iCompletionStatus

EndsAnyStrategy(p) == p.step = "finish" \/ p.iStatus = "error"   \* mutant
EndsStrategy(p) == p.step = "finish" \/ (p.iStatus = "error" /\ p.strategy # "ContextDelete")

Runs(c) == pdp[c].strategy # None /\ pdp[c].iStatus # "pending"

RunL(c) ==
  /\ Runs(c) /\ ~EndsStrategy(pdp[c])
  /\ \E q \in StrategyNext(c, [pdp[c] EXCEPT !.iCompletionStatus = Recorded(pdp[c])]) :
       pdp' = [pdp EXCEPT ![c] = q]
  /\ UNCHANGED <<iErrorCode, iEtelOpened>>

(* NotifyFsm: the strategy ends in state, and the machine has its result.  *)
NotifyFsm(c, strategy, state) ==
  Runs(c) /\ EndsStrategy(pdp[c]) /\ pdp[c].strategy = strategy /\ pdp[c].state = state
Failed(c) == Recorded(pdp[c]) = "error"
Idle(c) == Idled(pdp[c])
----------------------------------------------------------------------------
(* The states. Each action is the answer of the driver in that state.      *)

To(p, state) == [p EXCEPT !.state = state]

(* SpudManNotify: the provider has its event, and awaits nothing more.     *)
SpudManNotify(p, event, error) ==
  [p EXCEPT !.told = [event |-> event, error |-> error], !.awaited = None]

Become(c, outcomes) == \E q \in outcomes : pdp' = [pdp EXCEPT ![c] = q]

OpeningPhone(c) ==
  /\ NotifyFsm(c, "OpenPhone", "OpeningPhone")
  /\ iEtelOpened' = ~Failed(c)
  /\ IF Failed(c)
     THEN Become(c, {SpudManNotify(To(Idle(c), "Initialised"), "PrimaryContextCreated", TRUE)})
     ELSE Become(c, EtelDriverInput(c, To(Idle(c), "CreatingPrimary"), "Create1ry"))
  /\ UNCHANGED iErrorCode

CreatingPrimary(c) ==
  /\ NotifyFsm(c, "Create1ry", "CreatingPrimary")
  /\ IF Failed(c)
     THEN Become(c, EtelDriverInput(c,
            SpudManNotify(To(Idle(c), "Initialised"), "PrimaryContextCreated", TRUE), "ContextDelete"))
     ELSE Become(c, EtelDriverInput(c, To(Idle(c), "ActivatingPrimary"), "ActivatePdp"))
  /\ UNCHANGED <<iErrorCode, iEtelOpened>>

ActivatingPrimary(c) ==
  /\ NotifyFsm(c, "ActivatePdp", "ActivatingPrimary")
  /\ IF Failed(c)
     THEN Become(c, EtelDriverInput(c,
            SpudManNotify(To(Idle(c), "Closing"), "PrimaryContextCreated", TRUE), "ContextDelete"))
     ELSE Become(c, {SpudManNotify([To(Idle(c), "Open") EXCEPT !.iContextStatus = "active"],
                                   "PrimaryContextCreated", FALSE)})
  /\ UNCHANGED <<iErrorCode, iEtelOpened>>

CreatingSecondary(c) ==
  /\ NotifyFsm(c, "Create2ry", "CreatingSecondary")
  /\ IF Failed(c)
     THEN /\ iErrorCode' = "error"
          /\ Become(c, EtelDriverInput(c, Idle(c), "ContextDelete"))
     ELSE /\ Become(c, {SpudManNotify(To(Idle(c), "CreatedSecondary"), "SecondaryContextCreated", FALSE)})
          /\ UNCHANGED iErrorCode
  /\ UNCHANGED iEtelOpened

SecondaryDeleted(c) ==
  /\ NotifyFsm(c, "ContextDelete", "CreatingSecondary")
  /\ Become(c, {SpudManNotify([To(Idle(c), "Initialised") EXCEPT !.iContextStatus = "deleted"],
                              "SecondaryContextCreated", iErrorCode = "error")})
  /\ iErrorCode' = "none" /\ UNCHANGED iEtelOpened

ActivatingSecondary(c) ==
  /\ NotifyFsm(c, "ActivatePdp", "ActivatingSecondary")
  /\ Become(c, {SpudManNotify(IF Failed(c) THEN To(Idle(c), "CreatedSecondary")
                              ELSE [To(Idle(c), "GettingNegQoS") EXCEPT !.iContextStatus = "active"],
                              "Activate", Failed(c))})
  /\ UNCHANGED <<iErrorCode, iEtelOpened>>

Answering(c) ==
  \E state \in DOMAIN Serving :
    /\ NotifyFsm(c, Serving[state].strategy, state)
    /\ Become(c, {SpudManNotify(To(Idle(c), Serving[state].then), Serving[state].event, Failed(c))})
    /\ UNCHANGED <<iErrorCode, iEtelOpened>>

DeletedOnSuccess(c) ==                                           \* mutant
  /\ NotifyFsm(c, "ContextDelete", "Closing")
  /\ Become(c, IF Failed(c) THEN {Idle(c)}
               ELSE {SpudManNotify(To(Idle(c), "Initialised"), "ContextDelete", FALSE)})
  /\ UNCHANGED <<iErrorCode, iEtelOpened>>
(* Closing answers in any case; Initialised takes no notice.               *)
Deleted(c) ==
  /\ \/ /\ NotifyFsm(c, "ContextDelete", "Closing")
        /\ Become(c, {SpudManNotify([To(Idle(c), "Initialised") EXCEPT !.iContextStatus = "deleted"],
                                    "ContextDelete", Failed(c))})
     \/ /\ NotifyFsm(c, "ContextDelete", "Initialised")
        /\ Become(c, {[Idle(c) EXCEPT !.iContextStatus = "deleted"]})
  /\ UNCHANGED <<iErrorCode, iEtelOpened>>

(* TPdpState::Input, the default of every state, for a deletion; Open has  *)
(* no strategy to cancel. (The last event is forgotten with it.)           *)
Close(c, p) ==
  EtelDriverInput(c, [To(EtelDriverCancel(p), "Closing") EXCEPT !.told = Nothing], "ContextDelete")

----------------------------------------------------------------------------
(* The provider.                                                           *)

(* A secondary is only started on a service provider that is up.           *)
Creatable(c) ==
  /\ pdp[c].life = "unused"
  /\ c = Primary \/ (pdp[Primary].opened
                     /\ pdp[Primary].state \in {"Open", "ChangingQoS", "ChangingTFT", "ModifyingActive", "Suspended"})

NewFsmContext(c) ==
  LET p == [pdp[c] EXCEPT !.life = "alive",
              !.awaited = IF c = Primary THEN "PrimaryContextCreated" ELSE "SecondaryContextCreated"]
  IN /\ Creatable(c)
     /\ IF c # Primary
        THEN Become(c, EtelDriverInput(c, To(p, "CreatingSecondary"), "Create2ry"))
        ELSE IF iEtelOpened
        THEN Become(c, EtelDriverInput(c, To(p, "CreatingPrimary"), "Create1ry"))
        ELSE Become(c, EtelDriverInput(c, To(p, "OpeningPhone"), "OpenPhone"))
     /\ UNCHANGED <<iErrorCode, iEtelOpened>>

(* Any other request is refused with KErrGeneral and changes nothing.      *)
Request(c) ==
  /\ pdp[c].life = "alive" /\ pdp[c].awaited = None
  /\ \E r \in Requests :
       /\ r.in = pdp[c].state
       /\ Become(c, EtelDriverInput(c, [To(pdp[c], r.to) EXCEPT !.awaited = r.asks, !.told = Nothing], r.starts))
  /\ UNCHANGED <<iErrorCode, iEtelOpened>>

(* TDestroyPDPContext: Closing refuses, and will tell of the deletion.     *)
ContextDelete(c) ==
  LET p == [pdp[c] EXCEPT !.awaited = "ContextDelete"]
  IN /\ pdp[c].life = "alive" /\ pdp[c].awaited # "ContextDelete"
     /\ Become(c, IF p.state = "Closing" THEN {p} ELSE Close(c, p))
     /\ UNCHANGED <<iErrorCode, iEtelOpened>>

(* DeleteFsmContext and FreePdp.                                           *)
DeleteFsmContext(c) ==
  /\ pdp[c].life = "alive" /\ pdp[c].awaited = None /\ pdp[c].told.event = "ContextDelete"
  /\ pdp' = [pdp EXCEPT ![c] = [New EXCEPT !.life = "freed"]]
  /\ UNCHANGED <<iErrorCode, iEtelOpened>>
----------------------------------------------------------------------------
(* The TSY and the network.                                                *)

(* The status that GetStatus reads after a request that has succeeded.     *)
NetworkAfter(p) ==
  CASE p.network = "deleted" -> {"deleted"}
    [] p.step = "activate" /\ p.network # "deleted" -> {"inactive", "activating", "active"}
    [] p.step = "deactivate" /\ p.network # "deleted" -> {"inactive"}
    [] OTHER -> {p.network}

Complete(c) ==
  /\ pdp[c].iStatus = "pending" /\ pdp[c].step # "notifyStatusChange"
  /\ \/ \E n \in NetworkAfter(pdp[c]) :
          pdp' = [pdp EXCEPT ![c].iStatus = "none", ![c].network = n]
     \/ pdp' = [pdp EXCEPT ![c].iStatus = "error"]
  /\ UNCHANGED <<iErrorCode, iEtelOpened>>

Moves == [activating |-> {"active", "inactive"}, active |-> {"suspended", "deleted"},
          suspended |-> {"active", "deleted"}]

(* A change completes the strategy's own NotifyStatusChange, and is kept   *)
(* for the notifier. Changes that nobody looks at are left out.            *)
NetworkChange(c) ==
  LET p == pdp[c] IN
  /\ p.network \in DOMAIN Moves
  /\ p.watching \/ p.strategy = "ActivatePdp"
  /\ p.watching => Len(p.changes) < MaxChanges
  /\ \E n \in Moves[p.network] :
       pdp' = [pdp EXCEPT ![c] =
         [p EXCEPT !.network = n,
                   !.iStatus = IF p.step = "notifyStatusChange" THEN "none" ELSE p.iStatus,
                   !.changes = IF p.watching THEN Append(p.changes, n) ELSE p.changes]]
  /\ UNCHANGED <<iErrorCode, iEtelOpened>>

StatusChangeWhenOpen(c, p) ==                                    \* mutant
  IF p.state \in {"Open", "Suspended"} /\ p.iContextStatus = "deleted" THEN Close(c, p) ELSE {p}
(* What a state does with a status that is new to it. Initialised has      *)
(* nothing to delete.                                                      *)
StatusChange(c, p) ==
  CASE p.iContextStatus = "deleted" /\ p.state # "Initialised" -> Close(c, p)
    [] p.state = "Open" /\ p.iContextStatus = "suspended" ->
         {SpudManNotify(To(p, "Suspended"), "ContextBlocked", FALSE)}
    [] p.state = "Open" /\ p.iContextStatus \notin {"suspended", "deleted"} ->
         {SpudManNotify(p, "ContextParametersChange", FALSE)}
    [] p.state = "Suspended" /\ p.iContextStatus = "active" ->
         {SpudManNotify(To(p, "Open"), "ContextUnblocked", FALSE)}
    [] OTHER -> {p}

(* CPdpStatusChangeNotifier: a status the machine has already is dropped,  *)
(* and after a deletion the notifier is not started again.                 *)
Notify(c) ==
  LET p == pdp[c]
      q == [p EXCEPT !.changes = Tail(@), !.iContextStatus = Head(p.changes),
                     !.watching = Head(p.changes) # "deleted"]
  IN /\ p.watching /\ p.changes # <<>>
     /\ Become(c, IF Head(p.changes) = p.iContextStatus THEN {q} ELSE StatusChange(c, q))
     /\ UNCHANGED <<iErrorCode, iEtelOpened>>
----------------------------------------------------------------------------
DriverRuns(c) ==
  \/ RunL(c) \/ OpeningPhone(c) \/ CreatingPrimary(c) \/ ActivatingPrimary(c)
  \/ CreatingSecondary(c) \/ SecondaryDeleted(c) \/ ActivatingSecondary(c)
  \/ Answering(c) \/ Deleted(c)

Next ==
  \E c \in Contexts :
    \/ NewFsmContext(c) \/ Request(c) \/ ContextDelete(c) \/ DeleteFsmContext(c)
    \/ DriverRuns(c) \/ Notify(c) \/ Complete(c) \/ NetworkChange(c)

(* The active scheduler runs what is ready, and the TSY answers what it is *)
(* asked, except a wait for a change of status. Providers and network may  *)
(* do nothing.                                                             *)
Fairness ==
  \A c \in Contexts : WF_vars(DriverRuns(c)) /\ WF_vars(Notify(c)) /\ WF_vars(Complete(c))

Spec == Init /\ [][Next]_vars /\ Fairness
----------------------------------------------------------------------------
(* Properties.                                                             *)

(* The strategies a state may have running; a state that waits has one.    *)
Serves(state) ==
  CASE state \in DOMAIN Serving \ {"GettingNegQoS"} -> {Serving[state].strategy}
    [] state = "GettingNegQoS" -> {None, "GetNegQoS"}
    [] state = "OpeningPhone" -> {"OpenPhone"}
    [] state = "CreatingPrimary" -> {"Create1ry"}
    [] state \in {"ActivatingPrimary", "ActivatingSecondary"} -> {"ActivatePdp"}
    [] state = "CreatingSecondary" -> {"Create2ry", "ContextDelete"}
    [] state = "Closing" -> {"ContextDelete"}
    [] state = "Initialised" -> {None, "ContextDelete"}
    [] OTHER -> {None}

(* State machine and driver agree: a state that waits for an answer has    *)
(* the strategy that brings it running, and no other, whatever was         *)
(* cancelled or refused on the way. The machine ignores the driver's       *)
(* refusals (CPdpFsm::EtelInput), so it could not notice a difference.     *)
DriverServesState ==
  \A c \in Contexts : pdp[c].strategy \in Serves(pdp[c].state)

(* What a provider is told is so, and answers what it asked, unless it is  *)
(* the deletion: a context that is created has a sub-session, of one that  *)
(* is active the notifier will see the end, and one that is deleted, with  *)
(* or without an error, can be freed: FreePdp panics the process when its  *)
(* sub-session is open.                                                    *)
AnswersAreTrue ==
  [][\A c \in Contexts :
       LET told == pdp'[c].told IN
       told # pdp[c].told /\ told # Nothing =>
         /\ pdp[c].awaited \in {None, told.event} \/ told.event = "ContextDelete"
         /\ told.event \in {"SecondaryContextCreated", "Activate", "PrimaryContextCreated"}
              /\ ~told.error => pdp'[c].opened
         /\ told.event \in {"Activate", "PrimaryContextCreated"} /\ ~told.error => pdp'[c].watching
         /\ told.event = "ContextDelete" =>
              ~pdp'[c].opened /\ ~pdp'[c].watching /\ pdp'[c].strategy = None]_vars

(* Every request of a provider, a deletion at any moment among them, is    *)
(* answered, unless an activation waits for a change of status.            *)
RequestsAnswered ==
  \A c \in Contexts :
    pdp[c].awaited # None ~> pdp[c].awaited = None \/ pdp[c].step = "notifyStatusChange"

(* A context that the network deletes while its notifier is started,       *)
(* whatever the machine is doing, is closed, and its provider is told.     *)
DeletionNoticed ==
  \A c \in Contexts :
    pdp[c].changes # <<>> /\ Last(pdp[c].changes) = "deleted"
      ~> pdp[c].told.event = "ContextDelete" \/ pdp[c].life # "alive"
=============================================================================
