------------------------- MODULE PdpContextsProofs --------------------------
(***************************************************************************)
(* Proofs about PdpContexts: the state machine of a context and its driver *)
(* stay in step, and what a provider is told is true, for every set of     *)
(* contexts and any number of changes of status.                           *)
(***************************************************************************)
EXTENDS PdpContexts, TLAPS

Strategy == DOMAIN Steps
StepsOf(strategy) == {Steps[strategy][i] : i \in DOMAIN Steps[strategy]}
StepName == {"start", "initPhone", "initialiseContext", "setConfig", "setProfileParams",
             "createNewTFT", "addTft", "changeTft", "changeTftFinished", "getProfileParams",
             "modifyActive", "activate", "notifyStatusChange", "getConfig", "deactivate",
             "deleteContext", "finish"}
State == {"Initialised", "OpeningPhone", "CreatingPrimary", "ActivatingPrimary",
          "CreatingSecondary", "CreatedSecondary", "SettingQoS", "SettingTFT",
          "ActivatingSecondary", "Open", "ChangingQoS", "ChangingTFT", "GettingNegQoS",
          "ModifyingActive", "Suspended", "Closing"}
Status == {"unknown", "inactive", "activating", "active", "suspended", "deleted"}
Event == {"PrimaryContextCreated", "SecondaryContextCreated", "Activate", "QoSSet", "TFTModified",
          "ModifyActive", "GetNegQoS", "ContextDelete", "ContextBlocked", "ContextUnblocked",
          "ContextParametersChange"}

Pdp == [life : {"unused", "alive", "freed"}, state : State, iContextStatus : Status,
        strategy : Strategy \cup {None}, step : StepName,
        iStatus : {"none", "pending", "error"}, iCompletionStatus : {"none", "error"},
        opened : BOOLEAN, watching : BOOLEAN, changes : Seq(Status),
        network : Status, awaited : Event \cup {None},
        told : [event : Event \cup {None}, error : BOOLEAN]]

\* A strategy that runs is at a step of its own.
Stepping(p) == p.strategy # None => p.step \in StepsOf(p.strategy)

\* What holds of each context: its driver runs what its state waits for, and
\* nothing before the context is created; nobody watches its status then.
InStep(p) ==
  /\ p \in Pdp /\ Stepping(p)
  /\ p.strategy \in Serves(p.state)
  /\ p.life = "unused" => p.strategy = None /\ ~p.watching

PdpInv == pdp \in [Contexts -> Pdp] /\ \A c \in Contexts : InStep(pdp[c])

LEMMA Strategies ==
  Strategy = {"OpenPhone", "Create1ry", "Create2ry", "SetQoS", "SetTft", "ChangeTft",
              "GetNegQoS", "ModifyActive", "ActivatePdp", "ContextDelete"}
  BY DEF Strategy, Steps

\* A strategy is a sequence of steps that starts at "start" and ends at "finish".
LEMMA StepSequences ==
  ASSUME NEW s \in Strategy
  PROVE  /\ DOMAIN Steps[s] = 1..Len(Steps[s]) /\ Len(Steps[s]) \in Nat \ {0, 1}
         /\ Steps[s][1] = "start" /\ Steps[s][Len(Steps[s])] = "finish"
         /\ StepsOf(s) \subseteq StepName
<1> DEFINE Good(q) == /\ DOMAIN q = 1..Len(q) /\ Len(q) \in Nat \ {0, 1}
                      /\ q[1] = "start" /\ q[Len(q)] = "finish"
                      /\ \A i \in DOMAIN q : q[i] \in StepName
<1>1. CASE s = "OpenPhone"
  <2>1. Steps[s] = <<"start", "initPhone", "finish">>
    BY <1>1 DEF Steps
  <2>2. Good(<<"start", "initPhone", "finish">>)
    BY DEF StepName
  <2> QED  BY <2>1, <2>2 DEF StepsOf
<1>2. CASE s = "Create1ry"
  <2>1. Steps[s] = <<"start", "initialiseContext", "setConfig", "setProfileParams", "finish">>
    BY <1>2 DEF Steps
  <2>2. Good(<<"start", "initialiseContext", "setConfig", "setProfileParams", "finish">>)
    BY DEF StepName
  <2> QED  BY <2>1, <2>2 DEF StepsOf
<1>3. CASE s = "Create2ry"
  <2>1. Steps[s] = <<"start", "initialiseContext", "finish">>
    BY <1>3 DEF Steps
  <2>2. Good(<<"start", "initialiseContext", "finish">>)
    BY DEF StepName
  <2> QED  BY <2>1, <2>2 DEF StepsOf
<1>4. CASE s = "SetQoS"
  <2>1. Steps[s] = <<"start", "setProfileParams", "finish">>
    BY <1>4 DEF Steps
  <2>2. Good(<<"start", "setProfileParams", "finish">>)
    BY DEF StepName
  <2> QED  BY <2>1, <2>2 DEF StepsOf
<1>5. CASE s = "SetTft"
  <2>1. Steps[s] = <<"start", "createNewTFT", "addTft", "finish">>
    BY <1>5 DEF Steps
  <2>2. Good(<<"start", "createNewTFT", "addTft", "finish">>)
    BY DEF StepName
  <2> QED  BY <2>1, <2>2 DEF StepsOf
<1>6. CASE s = "ChangeTft"
  <2>1. Steps[s] = <<"start", "changeTft", "changeTftFinished", "finish">>
    BY <1>6 DEF Steps
  <2>2. Good(<<"start", "changeTft", "changeTftFinished", "finish">>)
    BY DEF StepName
  <2> QED  BY <2>1, <2>2 DEF StepsOf
<1>7. CASE s = "GetNegQoS"
  <2>1. Steps[s] = <<"start", "getProfileParams", "finish">>
    BY <1>7 DEF Steps
  <2>2. Good(<<"start", "getProfileParams", "finish">>)
    BY DEF StepName
  <2> QED  BY <2>1, <2>2 DEF StepsOf
<1>8. CASE s = "ModifyActive"
  <2>1. Steps[s] = <<"start", "modifyActive", "getProfileParams", "finish">>
    BY <1>8 DEF Steps
  <2>2. Good(<<"start", "modifyActive", "getProfileParams", "finish">>)
    BY DEF StepName
  <2> QED  BY <2>1, <2>2 DEF StepsOf
<1>9. CASE s = "ActivatePdp"
  <2>1. Steps[s] = <<"start", "activate", "notifyStatusChange", "getConfig", "getProfileParams", "finish">>
    BY <1>9 DEF Steps
  <2>2. Good(<<"start", "activate", "notifyStatusChange", "getConfig", "getProfileParams", "finish">>)
    BY DEF StepName
  <2> QED  BY <2>1, <2>2 DEF StepsOf
<1>10. CASE s = "ContextDelete"
  <2>1. Steps[s] = <<"start", "deactivate", "deleteContext", "finish">>
    BY <1>10 DEF Steps
  <2>2. Good(<<"start", "deactivate", "deleteContext", "finish">>)
    BY DEF StepName
  <2> QED  BY <2>1, <2>2 DEF StepsOf
<1> QED  BY <1>1, <1>2, <1>3, <1>4, <1>5, <1>6, <1>7, <1>8, <1>9, <1>10, Strategies

LEMMA NextStep ==
  ASSUME NEW s \in Strategy, NEW x \in StepsOf(s), x # "finish"
  PROVE  StepAfter(s, x) \in StepsOf(s)
<1> DEFINE i == CHOOSE i \in DOMAIN Steps[s] : Steps[s][i] = x
<1>1. i \in DOMAIN Steps[s] /\ Steps[s][i] = x
  BY DEF StepsOf
<1>2. StepAfter(s, x) = Steps[s][1 + i]
  BY DEF StepAfter
<1> HIDE DEF i
<1>3. i \in 1..Len(Steps[s]) /\ Len(Steps[s]) \in Nat /\ i # Len(Steps[s])
  BY <1>1, StepSequences
<1>4. 1 + i \in DOMAIN Steps[s]
  BY <1>3, StepSequences
<1> QED  BY <1>2, <1>4 DEF StepsOf

LEMMA ActivateSteps ==
  {"start", "activate", "notifyStatusChange", "getConfig", "getProfileParams", "finish"}
    \subseteq StepsOf("ActivatePdp")
<1> DEFINE q == <<"start", "activate", "notifyStatusChange", "getConfig", "getProfileParams", "finish">>
<1>1. Steps["ActivatePdp"] = q
  BY DEF Steps
<1>2. /\ 1 \in DOMAIN q /\ 2 \in DOMAIN q /\ 3 \in DOMAIN q
      /\ 4 \in DOMAIN q /\ 5 \in DOMAIN q /\ 6 \in DOMAIN q
      /\ q[1] = "start" /\ q[2] = "activate" /\ q[3] = "notifyStatusChange"
      /\ q[4] = "getConfig" /\ q[5] = "getProfileParams" /\ q[6] = "finish"
  OBVIOUS
<1> HIDE DEF q
<1> QED  BY <1>1, <1>2 DEF StepsOf

-----------------------------------------------------------------------------
(* The driver moves within its strategy, and does not touch the machine. *)

Keeps(p, q) == q.state = p.state /\ q.strategy = p.strategy /\ q.life = p.life

LEMMA GoesOn ==
  ASSUME NEW p \in Pdp, p.strategy \in Strategy, NEW s \in StepsOf(p.strategy)
  PROVE  Goes(p, s) \in Pdp /\ Stepping(Goes(p, s)) /\ Keeps(p, Goes(p, s))
<1>1. s \in StepName
  BY StepSequences
<1>2. /\ Goes(p, s) \in Pdp /\ Goes(p, s).step = s /\ Keeps(p, Goes(p, s))
  BY <1>1 DEF Goes, Pdp, Keeps
<1> QED  BY <1>2 DEF Stepping, Keeps

LEMMA StrategyNextKeeps ==
  ASSUME NEW c, NEW p \in Pdp, p.strategy # None, Stepping(p), p.step # "finish",
         NEW q \in StrategyNext(c, p)
  PROVE  q \in Pdp /\ Stepping(q) /\ Keeps(p, q)
<1>1. p.strategy \in Strategy /\ p.step \in StepsOf(p.strategy)
  BY DEF Pdp, Stepping
<1> DEFINE to == StepAfter(p.strategy, p.step)
           g == Goes(p, to)
<1>2. to \in StepsOf(p.strategy) /\ to \in StepName
  BY <1>1, NextStep, StepSequences
<1>3. g \in Pdp /\ Stepping(g) /\ Keeps(p, g) /\ g.step = to
  <2>1. g \in Pdp /\ Stepping(g) /\ Keeps(p, g)
    BY <1>1, <1>2, GoesOn
  <2>2. g.step = to
    BY DEF Goes, Pdp
  <2> QED  BY <2>1, <2>2
<1> HIDE DEF to, g
<1>4. CASE p.strategy = "ContextDelete"
  <2>1. q = DeleteNext(p)
    BY <1>4 DEF StrategyNext
  <2> DEFINE h == [g EXCEPT !.iStatus = IF p.opened /\ to # "finish" THEN "pending" ELSE "none"]
  <2>2. h \in Pdp /\ h.step = to /\ Keeps(p, h)
    BY <1>3 DEF Pdp, Keeps
  <2>3. \/ q = [h EXCEPT !.watching = FALSE, !.changes = <<>>]
        \/ q = [h EXCEPT !.opened = FALSE]
        \/ q = h
    BY <2>1, <1>4 DEF DeleteNext, to, g
  <2> HIDE DEF h
  <2>4. q \in Pdp /\ q.step = to /\ Keeps(p, q)
    <3>1. <<>> \in Seq(Status)
      OBVIOUS
    <3>2. CASE q = [h EXCEPT !.watching = FALSE, !.changes = <<>>]
      BY ONLY <2>2, <3>1, <3>2 DEF Pdp, Keeps
    <3>3. CASE q = [h EXCEPT !.opened = FALSE]
      BY ONLY <2>2, <3>3 DEF Pdp, Keeps
    <3> QED  BY <2>2, <2>3, <3>2, <3>3
  <2> QED  BY <2>4, <1>2 DEF Stepping, Keeps
<1>5. CASE p.strategy = "ActivatePdp"
  <2>1. q = ActivateNext(c, p) \/ q = Inactive(p)
    BY <1>5 DEF StrategyNext
  <2>2. \E s \in StepsOf("ActivatePdp") :
           \/ q = Goes(p, s)
           \/ q = [Goes(p, s) EXCEPT !.iStatus = "error"]
           \/ q = [Goes(p, s) EXCEPT !.watching = TRUE]
    BY <2>1, ActivateSteps DEF ActivateNext, Inactive, ReadsStatus, StartNotifications
  <2>3. PICK s \in StepsOf("ActivatePdp") :
           \/ q = Goes(p, s)
           \/ q = [Goes(p, s) EXCEPT !.iStatus = "error"]
           \/ q = [Goes(p, s) EXCEPT !.watching = TRUE]
    BY <2>2
  <2>4. Goes(p, s) \in Pdp /\ Stepping(Goes(p, s)) /\ Keeps(p, Goes(p, s))
    BY <1>1, <1>5, GoesOn
  <2>5. q \in Pdp /\ q.step = Goes(p, s).step /\ Keeps(p, q)
    <3> DEFINE h == Goes(p, s)
    <3> HIDE DEF h
    <3>1. h \in Pdp /\ Keeps(p, h)
      BY <2>4 DEF h
    <3>2. CASE q = [h EXCEPT !.iStatus = "error"]
      BY ONLY <3>1, <3>2 DEF Pdp, Keeps, h
    <3>3. CASE q = [h EXCEPT !.watching = TRUE]
      BY ONLY <3>1, <3>3 DEF Pdp, Keeps, h
    <3> QED  BY <2>3, <3>1, <3>2, <3>3 DEF h
  <2> QED  BY <2>4, <2>5 DEF Stepping, Keeps
<1>6. CASE p.strategy \notin {"ContextDelete", "ActivatePdp"}
  <2>1. (\E b \in BOOLEAN : q = [g EXCEPT !.opened = b]) \/ q = [p EXCEPT !.iStatus = "error"]
    <3>1. p.opened \in BOOLEAN
      BY DEF Pdp
    <3> QED  BY <3>1, <1>6 DEF StrategyNext, to, g
  <2>2. q \in Pdp /\ Keeps(p, q) /\ q.step \in {to, p.step}
    BY <2>1, <1>3 DEF Pdp, Keeps
  <2> QED  BY <2>2, <1>1, <1>2 DEF Stepping, Keeps
<1> QED  BY <1>4, <1>5, <1>6

-----------------------------------------------------------------------------
(* What the states do to a context. *)

\* No strategy runs: the driver takes the next one.
Ready(p) == p \in Pdp /\ p.strategy = None

LEMMA IdledReady ==
  ASSUME NEW p \in Pdp
  PROVE  Ready(Idled(p)) /\ Idled(p).state = p.state /\ Idled(p).life = p.life
  BY DEF Idled, Ready, Pdp, StepName

LEMMA ToReady ==
  ASSUME NEW p, Ready(p), NEW state \in State
  PROVE  Ready(To(p, state)) /\ To(p, state).state = state /\ To(p, state).life = p.life
  BY DEF To, Ready, Pdp

LEMMA NotifyReady ==
  ASSUME NEW p, Ready(p), NEW event \in Event, NEW error \in BOOLEAN
  PROVE  /\ Ready(SpudManNotify(p, event, error))
         /\ SpudManNotify(p, event, error).state = p.state
         /\ SpudManNotify(p, event, error).life = p.life
  BY DEF SpudManNotify, Ready, Pdp

LEMMA Served ==
  /\ \A s \in {"CreatedSecondary", "Open", "Suspended"} : Serves(s) = {None}
  /\ Serves("Initialised") = {None, "ContextDelete"}
  /\ Serves("GettingNegQoS") = {None, "GetNegQoS"}
  /\ Serves("OpeningPhone") = {"OpenPhone"}
  /\ Serves("CreatingPrimary") = {"Create1ry"}
  /\ Serves("ActivatingPrimary") = {"ActivatePdp"}
  /\ Serves("ActivatingSecondary") = {"ActivatePdp"}
  /\ Serves("CreatingSecondary") = {"Create2ry", "ContextDelete"}
  /\ Serves("Closing") = {"ContextDelete"}
  /\ Serves("SettingQoS") = {"SetQoS"} /\ Serves("SettingTFT") = {"SetTft"}
  /\ Serves("ChangingQoS") = {"SetQoS"} /\ Serves("ChangingTFT") = {"ChangeTft"}
  /\ Serves("ModifyingActive") = {"ModifyActive"}
<1>1. DOMAIN Serving = {"SettingQoS", "SettingTFT", "ChangingQoS", "ChangingTFT",
                        "ModifyingActive", "GettingNegQoS"}
  BY DEF Serving
<1>2. /\ Serving["SettingQoS"].strategy = "SetQoS" /\ Serving["SettingTFT"].strategy = "SetTft"
      /\ Serving["ChangingQoS"].strategy = "SetQoS" /\ Serving["ChangingTFT"].strategy = "ChangeTft"
      /\ Serving["ModifyingActive"].strategy = "ModifyActive"
  BY DEF Serving
<1> QED  BY <1>1, <1>2 DEF Serves

\* A context in a state that waits for nothing.
LEMMA WaitsForNothing ==
  ASSUME NEW p, Ready(p), p.life # "unused", None \in Serves(p.state) PROVE InStep(p)
  BY DEF Ready, InStep, Stepping

LEMMA Answers ==
  ASSUME NEW p, Ready(p), p.life # "unused", None \in Serves(p.state),
         NEW event \in Event, NEW error \in BOOLEAN
  PROVE  InStep(SpudManNotify(p, event, error))
<1> DEFINE q == SpudManNotify(p, event, error)
<1>1. Ready(q) /\ q.state = p.state /\ q.life = p.life
  BY NotifyReady
<1> HIDE DEF q
<1>2. InStep(q)
  BY <1>1, WaitsForNothing
<1> QED  BY <1>2 DEF q

\* A context whose driver has been given the strategy of its state.
LEMMA Starts ==
  ASSUME NEW c, NEW p, Ready(p), p.life # "unused", NEW s \in Strategy, s \in Serves(p.state),
         NEW q \in EtelDriverInput(c, p, s)
  PROVE  InStep(q) /\ q.state = p.state
<1> DEFINE b == [p EXCEPT !.strategy = s, !.step = "start", !.iCompletionStatus = "none"]
<1>1. s # None
  BY NoneAssumption DEF Strategy
<1>2. "start" \in StepsOf(s) /\ "start" \in StepName
  <2>1. 1 \in DOMAIN Steps[s] /\ Steps[s][1] = "start"
    BY StepSequences
  <2> QED  BY <2>1 DEF StepsOf, StepName
<1>3. b \in Pdp /\ b.strategy = s /\ b.step = "start" /\ b.state = p.state /\ b.life = p.life
  BY <1>2 DEF Ready, Pdp
<1>4. q \in StrategyNext(c, b)
  BY DEF EtelDriverInput, Ready
<1> HIDE DEF b
<1>5. q \in Pdp /\ Stepping(q) /\ Keeps(b, q)
  BY <1>1, <1>2, <1>3, <1>4, StrategyNextKeeps DEF Stepping
<1> QED  BY <1>3, <1>5 DEF InStep, Keeps

LEMMA ClosesInStep ==
  ASSUME NEW c, NEW p \in Pdp, p.life # "unused", NEW q \in Close(c, p)
  PROVE  InStep(q)
<1> DEFINE t == To(EtelDriverCancel(p), "Closing")
           u == [t EXCEPT !.told = Nothing]
<1>1. Ready(t) /\ t.state = "Closing" /\ t.life = p.life
  BY IdledReady, ToReady DEF EtelDriverCancel, State
<1> HIDE DEF t
<1>2. Ready(u) /\ u.state = "Closing" /\ u.life = p.life
  BY <1>1 DEF Ready, Pdp, Nothing
<1>3. q \in EtelDriverInput(c, u, "ContextDelete")
  BY DEF Close, t, u
<1> HIDE DEF u
<1> QED  BY <1>2, <1>3, Starts, Strategies, Served

\* A step changes one context.
LEMMA OneContext ==
  ASSUME PdpInv, NEW c \in Contexts, NEW q, InStep(q), pdp' = [pdp EXCEPT ![c] = q]
  PROVE  PdpInv'
  BY DEF PdpInv, InStep

-----------------------------------------------------------------------------
(* The actions. *)

LEMMA InitInStep == Init => PdpInv
<1>1. New \in Pdp
  <2>1. <<>> \in Seq(Status)
    OBVIOUS
  <2> QED  BY <2>1 DEF New, Nothing, Pdp, State, Status, StepName
<1>2. InStep(New)
  BY <1>1, Served DEF InStep, Stepping, New
<1> QED  BY <1>1, <1>2 DEF Init, PdpInv

\* The context whose strategy has ended is alive and its driver can be asked again.
LEMMA Ended ==
  ASSUME PdpInv, NEW c \in Contexts, NEW s \in Strategy, NEW x, NotifyFsm(c, s, x)
  PROVE  /\ pdp[c] \in Pdp /\ Ready(Idle(c)) /\ Idle(c).state = x
         /\ Idle(c).life # "unused" /\ Failed(c) \in BOOLEAN
<1>1. pdp[c] \in Pdp /\ pdp[c].life # "unused" /\ pdp[c].state = x
  BY NoneAssumption DEF PdpInv, InStep, NotifyFsm, Strategy
<1> QED  BY <1>1, IdledReady DEF Idle, Failed

LEMMA RunLStep ==
  ASSUME PdpInv, NEW c \in Contexts, RunL(c) PROVE PdpInv'
<1> DEFINE p == [pdp[c] EXCEPT !.iCompletionStatus = Recorded(pdp[c])]
<1>1. PICK q \in StrategyNext(c, p) : pdp' = [pdp EXCEPT ![c] = q]
  BY DEF RunL
<1>2. InStep(pdp[c]) /\ pdp[c] \in Pdp /\ pdp[c].strategy # None /\ pdp[c].step # "finish"
  BY DEF PdpInv, RunL, Runs, EndsStrategy
<1>3. Recorded(pdp[c]) \in {"none", "error"}
  BY <1>2 DEF Recorded, Pdp
<1>4. p \in Pdp /\ Keeps(pdp[c], p) /\ p.step = pdp[c].step
  BY <1>2, <1>3 DEF Pdp, Keeps
<1> HIDE DEF p
<1>5. Stepping(p) /\ p.strategy # None /\ p.step # "finish"
  BY <1>2, <1>4 DEF Stepping, Keeps, InStep
<1>6. q \in Pdp /\ Stepping(q) /\ Keeps(p, q)
  BY <1>4, <1>5, StrategyNextKeeps
<1>7. InStep(q)
  BY <1>2, <1>4, <1>6 DEF InStep, Keeps
<1> QED  BY <1>1, <1>7, OneContext

LEMMA OpeningPhoneStep ==
  ASSUME PdpInv, NEW c \in Contexts, OpeningPhone(c) PROVE PdpInv'
<1>1. Ready(Idle(c)) /\ Idle(c).life # "unused"
  BY Ended, Strategies DEF OpeningPhone
<1>2. CASE Failed(c)
  <2> DEFINE t == To(Idle(c), "Initialised")
             q == SpudManNotify(t, "PrimaryContextCreated", TRUE)
  <2>1. Ready(t) /\ t.state = "Initialised" /\ t.life # "unused"
    BY <1>1, ToReady DEF State
  <2>2. pdp' = [pdp EXCEPT ![c] = q]
    BY <1>2 DEF OpeningPhone, Become
  <2> HIDE DEF t
  <2>3. InStep(q)
    BY <2>1, Answers, Served DEF Event
  <2> QED  BY <2>2, <2>3, OneContext
<1>3. CASE ~Failed(c)
  <2> DEFINE t == To(Idle(c), "CreatingPrimary")
  <2>1. Ready(t) /\ t.state = "CreatingPrimary" /\ t.life # "unused"
    BY <1>1, ToReady DEF State
  <2>2. PICK q \in EtelDriverInput(c, t, "Create1ry") : pdp' = [pdp EXCEPT ![c] = q]
    BY <1>3 DEF OpeningPhone, Become
  <2> HIDE DEF t
  <2> QED  BY <2>1, <2>2, Starts, Strategies, Served, OneContext
<1> QED  BY <1>2, <1>3

LEMMA CreatingPrimaryStep ==
  ASSUME PdpInv, NEW c \in Contexts, CreatingPrimary(c) PROVE PdpInv'
<1>1. Ready(Idle(c)) /\ Idle(c).life # "unused"
  BY Ended, Strategies DEF CreatingPrimary
<1>2. CASE Failed(c)
  <2> DEFINE t == To(Idle(c), "Initialised")
             u == SpudManNotify(t, "PrimaryContextCreated", TRUE)
  <2>1. Ready(t) /\ t.state = "Initialised" /\ t.life # "unused"
    BY <1>1, ToReady DEF State
  <2>2. PICK q \in EtelDriverInput(c, u, "ContextDelete") : pdp' = [pdp EXCEPT ![c] = q]
    BY <1>2 DEF CreatingPrimary, Become
  <2> HIDE DEF t
  <2>3. Ready(u) /\ u.state = "Initialised" /\ u.life # "unused"
    BY <2>1, NotifyReady DEF Event
  <2> HIDE DEF u
  <2> QED  BY <2>2, <2>3, Starts, Strategies, Served, OneContext
<1>3. CASE ~Failed(c)
  <2> DEFINE t == To(Idle(c), "ActivatingPrimary")
  <2>1. Ready(t) /\ t.state = "ActivatingPrimary" /\ t.life # "unused"
    BY <1>1, ToReady DEF State
  <2>2. PICK q \in EtelDriverInput(c, t, "ActivatePdp") : pdp' = [pdp EXCEPT ![c] = q]
    BY <1>3 DEF CreatingPrimary, Become
  <2> HIDE DEF t
  <2> QED  BY <2>1, <2>2, Starts, Strategies, Served, OneContext
<1> QED  BY <1>2, <1>3

\* A state with a new status is a state.
LEMMA StatusReady ==
  ASSUME NEW p, Ready(p), NEW status \in Status
  PROVE  LET q == [p EXCEPT !.iContextStatus = status]
         IN Ready(q) /\ q.state = p.state /\ q.life = p.life
  BY DEF Ready, Pdp

LEMMA ActivatingPrimaryStep ==
  ASSUME PdpInv, NEW c \in Contexts, ActivatingPrimary(c) PROVE PdpInv'
<1>1. Ready(Idle(c)) /\ Idle(c).life # "unused"
  BY Ended, Strategies DEF ActivatingPrimary
<1>2. CASE Failed(c)
  <2> DEFINE t == To(Idle(c), "Closing")
             u == SpudManNotify(t, "PrimaryContextCreated", TRUE)
  <2>1. Ready(t) /\ t.state = "Closing" /\ t.life # "unused"
    BY <1>1, ToReady DEF State
  <2>2. PICK q \in EtelDriverInput(c, u, "ContextDelete") : pdp' = [pdp EXCEPT ![c] = q]
    BY <1>2 DEF ActivatingPrimary, Become
  <2> HIDE DEF t
  <2>3. Ready(u) /\ u.state = "Closing" /\ u.life # "unused"
    BY <2>1, NotifyReady DEF Event
  <2> HIDE DEF u
  <2> QED  BY <2>2, <2>3, Starts, Strategies, Served, OneContext
<1>3. CASE ~Failed(c)
  <2> DEFINE t == To(Idle(c), "Open")
             u == [t EXCEPT !.iContextStatus = "active"]
             q == SpudManNotify(u, "PrimaryContextCreated", FALSE)
  <2>1. Ready(t) /\ t.state = "Open" /\ t.life # "unused"
    BY <1>1, ToReady DEF State
  <2>2. pdp' = [pdp EXCEPT ![c] = q]
    BY <1>3 DEF ActivatingPrimary, Become
  <2> HIDE DEF t
  <2>3. Ready(u) /\ u.state = "Open" /\ u.life # "unused"
    BY <2>1, StatusReady DEF Status
  <2> HIDE DEF u
  <2>4. InStep(q)
    BY <2>3, Answers, Served DEF Event
  <2> QED  BY <2>2, <2>4, OneContext
<1> QED  BY <1>2, <1>3

LEMMA CreatingSecondaryStep ==
  ASSUME PdpInv, NEW c \in Contexts, CreatingSecondary(c) PROVE PdpInv'
<1>1. Ready(Idle(c)) /\ Idle(c).life # "unused" /\ Idle(c).state = "CreatingSecondary"
  BY Ended, Strategies DEF CreatingSecondary
<1>2. CASE Failed(c)
  <2> DEFINE t == Idle(c)
  <2>1. PICK q \in EtelDriverInput(c, t, "ContextDelete") : pdp' = [pdp EXCEPT ![c] = q]
    BY <1>2 DEF CreatingSecondary, Become
  <2>2. Ready(t) /\ t.state = "CreatingSecondary" /\ t.life # "unused"
    BY <1>1
  <2> HIDE DEF t
  <2> QED  BY <2>1, <2>2, Starts, Strategies, Served, OneContext
<1>3. CASE ~Failed(c)
  <2> DEFINE t == To(Idle(c), "CreatedSecondary")
             q == SpudManNotify(t, "SecondaryContextCreated", FALSE)
  <2>1. Ready(t) /\ t.state = "CreatedSecondary" /\ t.life # "unused"
    BY <1>1, ToReady DEF State
  <2>2. pdp' = [pdp EXCEPT ![c] = q]
    BY <1>3 DEF CreatingSecondary, Become
  <2> HIDE DEF t
  <2>3. InStep(q)
    BY <2>1, Answers, Served DEF Event
  <2> QED  BY <2>2, <2>3, OneContext
<1> QED  BY <1>2, <1>3

LEMMA SecondaryDeletedStep ==
  ASSUME PdpInv, NEW c \in Contexts, SecondaryDeleted(c) PROVE PdpInv'
<1> DEFINE t == To(Idle(c), "Initialised")
           u == [t EXCEPT !.iContextStatus = "deleted"]
           q == SpudManNotify(u, "SecondaryContextCreated", iErrorCode = "error")
<1>1. Ready(Idle(c)) /\ Idle(c).life # "unused"
  BY Ended, Strategies DEF SecondaryDeleted
<1>2. Ready(t) /\ t.state = "Initialised" /\ t.life # "unused"
  BY <1>1, ToReady DEF State
<1>3. pdp' = [pdp EXCEPT ![c] = q]
  BY DEF SecondaryDeleted, Become
<1> HIDE DEF t
<1>4. Ready(u) /\ u.state = "Initialised" /\ u.life # "unused"
  BY <1>2, StatusReady DEF Status
<1> HIDE DEF u
<1>5. InStep(q)
  BY <1>4, Answers, Served DEF Event
<1> QED  BY <1>3, <1>5, OneContext

LEMMA ActivatingSecondaryStep ==
  ASSUME PdpInv, NEW c \in Contexts, ActivatingSecondary(c) PROVE PdpInv'
<1> DEFINE f == To(Idle(c), "CreatedSecondary")
           g == To(Idle(c), "GettingNegQoS")
           a == [g EXCEPT !.iContextStatus = "active"]
           t == IF Failed(c) THEN f ELSE a
           q == SpudManNotify(t, "Activate", Failed(c))
<1>1. Ready(Idle(c)) /\ Idle(c).life # "unused" /\ Failed(c) \in BOOLEAN
  BY Ended, Strategies DEF ActivatingSecondary
<1>2. pdp' = [pdp EXCEPT ![c] = q]
  BY DEF ActivatingSecondary, Become
<1>3. /\ Ready(f) /\ f.state = "CreatedSecondary" /\ f.life # "unused"
      /\ Ready(g) /\ g.state = "GettingNegQoS" /\ g.life # "unused"
  BY <1>1, ToReady DEF State
<1> HIDE DEF f, g
<1>4. Ready(a) /\ a.state = "GettingNegQoS" /\ a.life # "unused"
  BY <1>3, StatusReady DEF Status
<1> HIDE DEF a
<1>5. Ready(t) /\ t.life # "unused" /\ None \in Serves(t.state)
  BY <1>3, <1>4, Served
<1> HIDE DEF t
<1>6. InStep(q)
  BY <1>1, <1>5, Answers DEF Event
<1> QED  BY <1>2, <1>6, OneContext

LEMMA AnsweringStep ==
  ASSUME PdpInv, NEW c \in Contexts, Answering(c) PROVE PdpInv'
<1>1. PICK x \in DOMAIN Serving :
        /\ NotifyFsm(c, Serving[x].strategy, x)
        /\ Become(c, {SpudManNotify(To(Idle(c), Serving[x].then), Serving[x].event, Failed(c))})
  BY DEF Answering
<1>2. /\ Serving[x].strategy \in Strategy /\ Serving[x].event \in Event
      /\ Serving[x].then \in {"CreatedSecondary", "Open"}
  BY Strategies DEF Serving, Event
<1> DEFINE t == To(Idle(c), Serving[x].then)
           q == SpudManNotify(t, Serving[x].event, Failed(c))
<1>3. Ready(Idle(c)) /\ Idle(c).life # "unused" /\ Failed(c) \in BOOLEAN
  BY <1>1, <1>2, Ended
<1>4. Ready(t) /\ t.state = Serving[x].then /\ t.life # "unused"
  BY <1>2, <1>3, ToReady DEF State
<1>5. pdp' = [pdp EXCEPT ![c] = q]
  BY <1>1 DEF Become
<1> HIDE DEF t
<1>6. InStep(q)
  BY <1>2, <1>3, <1>4, Answers, Served
<1> QED  BY <1>5, <1>6, OneContext

LEMMA DeletedStep ==
  ASSUME PdpInv, NEW c \in Contexts, Deleted(c) PROVE PdpInv'
<1>1. CASE /\ NotifyFsm(c, "ContextDelete", "Closing")
           /\ Become(c, {SpudManNotify([To(Idle(c), "Initialised") EXCEPT !.iContextStatus = "deleted"],
                                       "ContextDelete", Failed(c))})
  <2> DEFINE t == To(Idle(c), "Initialised")
             u == [t EXCEPT !.iContextStatus = "deleted"]
             q == SpudManNotify(u, "ContextDelete", Failed(c))
  <2>1. Ready(Idle(c)) /\ Idle(c).life # "unused" /\ Failed(c) \in BOOLEAN
    BY <1>1, Ended, Strategies
  <2>2. Ready(t) /\ t.state = "Initialised" /\ t.life # "unused"
    BY <2>1, ToReady DEF State
  <2>3. pdp' = [pdp EXCEPT ![c] = q]
    BY <1>1 DEF Become
  <2> HIDE DEF t
  <2>4. Ready(u) /\ u.state = "Initialised" /\ u.life # "unused"
    BY <2>2, StatusReady DEF Status
  <2> HIDE DEF u
  <2>5. InStep(q)
    BY <2>1, <2>4, Answers, Served DEF Event
  <2> QED  BY <2>3, <2>5, OneContext
<1>2. CASE /\ NotifyFsm(c, "ContextDelete", "Initialised")
           /\ Become(c, {[Idle(c) EXCEPT !.iContextStatus = "deleted"]})
  <2> DEFINE t == Idle(c)
             q == [t EXCEPT !.iContextStatus = "deleted"]
  <2>1. Ready(t) /\ t.state = "Initialised" /\ t.life # "unused"
    BY <1>2, Ended, Strategies
  <2>2. pdp' = [pdp EXCEPT ![c] = q]
    BY <1>2 DEF Become
  <2> HIDE DEF t
  <2>3. Ready(q) /\ q.state = "Initialised" /\ q.life # "unused"
    BY <2>1, StatusReady DEF Status
  <2> HIDE DEF q
  <2> QED  BY <2>2, <2>3, WaitsForNothing, Served, OneContext
<1> QED  BY <1>1, <1>2 DEF Deleted

\* The provider.

LEMMA NewFsmContextStep ==
  ASSUME PdpInv, NEW c \in Contexts, NewFsmContext(c) PROVE PdpInv'
<1> DEFINE p == [pdp[c] EXCEPT !.life = "alive",
                   !.awaited = IF c = Primary THEN "PrimaryContextCreated" ELSE "SecondaryContextCreated"]
<1>1. pdp[c] \in Pdp /\ pdp[c].strategy = None
  BY DEF PdpInv, InStep, NewFsmContext, Creatable
<1>2. Ready(p) /\ p.life = "alive"
  <2> DEFINE a == IF c = Primary THEN "PrimaryContextCreated" ELSE "SecondaryContextCreated"
             old == pdp[c]
  <2>1. p = [old EXCEPT !.life = "alive", !.awaited = a] /\ old \in Pdp /\ old.strategy = None
        /\ a \in Event
    BY <1>1 DEF Event
  <2> HIDE DEF p, a, old
  <2> QED  BY ONLY <2>1 DEF Ready, Pdp
<1>3. \E x \in State : \E s \in Strategy :
         /\ s \in Serves(x)
         /\ \E q \in EtelDriverInput(c, To(p, x), s) : pdp' = [pdp EXCEPT ![c] = q]
  <2>1. /\ "Create2ry" \in Serves("CreatingSecondary") /\ "Create1ry" \in Serves("CreatingPrimary")
        /\ "OpenPhone" \in Serves("OpeningPhone")
        /\ {"CreatingSecondary", "CreatingPrimary", "OpeningPhone"} \subseteq State
        /\ {"Create2ry", "Create1ry", "OpenPhone"} \subseteq Strategy
    BY Served, Strategies DEF State
  <2> HIDE DEF p
  <2> QED  BY <2>1 DEF NewFsmContext, Become, p
<1> HIDE DEF p
<1>4. PICK x \in State, s \in Strategy :
         /\ s \in Serves(x)
         /\ \E q \in EtelDriverInput(c, To(p, x), s) : pdp' = [pdp EXCEPT ![c] = q]
  BY <1>3
<1> DEFINE t == To(p, x)
<1>5. Ready(t) /\ t.state = x /\ t.life # "unused"
  BY <1>2, ToReady
<1>6. PICK q \in EtelDriverInput(c, t, s) : pdp' = [pdp EXCEPT ![c] = q]
  BY <1>4
<1> HIDE DEF t
<1> QED  BY <1>4, <1>5, <1>6, Starts, OneContext

\* A request is taken where nothing runs, or where its own strategy runs already.
LEMMA RequestsServed ==
  ASSUME NEW r \in Requests
  PROVE  /\ r.to \in State /\ r.starts \in Strategy /\ r.starts \in Serves(r.to) /\ r.asks \in Event
         /\ Serves(r.in) \subseteq {None} \cup Serves(r.to)
  BY Served, Strategies DEF Requests, State, Event

LEMMA RequestStep ==
  ASSUME PdpInv, NEW c \in Contexts, Request(c) PROVE PdpInv'
<1>1. PICK r \in Requests :
        /\ r.in = pdp[c].state
        /\ Become(c, EtelDriverInput(c, [To(pdp[c], r.to) EXCEPT !.awaited = r.asks, !.told = Nothing], r.starts))
  BY DEF Request
<1> DEFINE p == [To(pdp[c], r.to) EXCEPT !.awaited = r.asks, !.told = Nothing]
<1>2. InStep(pdp[c]) /\ pdp[c] \in Pdp /\ pdp[c].life = "alive"
  BY DEF PdpInv, Request
<1>3. /\ p \in Pdp /\ p.state = r.to /\ p.life = "alive"
      /\ p.strategy = pdp[c].strategy /\ p.step = pdp[c].step
  BY <1>2, RequestsServed DEF To, Pdp, Nothing
<1>4. PICK q \in EtelDriverInput(c, p, r.starts) : pdp' = [pdp EXCEPT ![c] = q]
  BY <1>1 DEF Become
<1> HIDE DEF p
<1>5. CASE p.strategy = None
  <2>1. Ready(p)
    BY <1>3, <1>5 DEF Ready
  <2>2. InStep(q)
    BY <1>3, <1>4, <2>1, Starts, RequestsServed
  <2> QED  BY <1>4, <2>2, OneContext
<1>6. CASE p.strategy # None
  <2>1. q = p
    BY <1>4, <1>6 DEF EtelDriverInput
  <2>2. p.strategy \in Serves(r.to)
    BY <1>1, <1>2, <1>3, <1>6, RequestsServed DEF InStep
  <2>3. InStep(q)
    BY <1>2, <1>3, <2>1, <2>2 DEF InStep, Stepping
  <2> QED  BY <1>4, <2>3, OneContext
<1> QED  BY <1>5, <1>6

LEMMA ContextDeleteStep ==
  ASSUME PdpInv, NEW c \in Contexts, ContextDelete(c) PROVE PdpInv'
<1> DEFINE p == [pdp[c] EXCEPT !.awaited = "ContextDelete"]
<1>1. InStep(pdp[c]) /\ pdp[c] \in Pdp /\ pdp[c].life = "alive"
  BY DEF PdpInv, ContextDelete
<1>2. p \in Pdp /\ Keeps(pdp[c], p) /\ p.step = pdp[c].step
  BY <1>1 DEF Pdp, Keeps, Event
<1>3. PICK q \in IF p.state = "Closing" THEN {p} ELSE Close(c, p) : pdp' = [pdp EXCEPT ![c] = q]
  BY DEF ContextDelete, Become
<1> HIDE DEF p
<1>4. InStep(p) /\ p.life # "unused"
  BY <1>1, <1>2 DEF InStep, Stepping, Keeps
<1>5. InStep(q)
  BY <1>2, <1>3, <1>4, ClosesInStep
<1> QED  BY <1>3, <1>5, OneContext

LEMMA DeleteFsmContextStep ==
  ASSUME PdpInv, NEW c \in Contexts, DeleteFsmContext(c) PROVE PdpInv'
<1> DEFINE q == [New EXCEPT !.life = "freed"]
<1>1. q \in Pdp /\ q.strategy = None /\ q.state = "Initialised" /\ q.life # "unused"
  <2>1. <<>> \in Seq(Status)
    OBVIOUS
  <2> QED  BY <2>1 DEF New, Nothing, Pdp, State, Status, StepName
<1>2. pdp' = [pdp EXCEPT ![c] = q]
  BY DEF DeleteFsmContext
<1> HIDE DEF q
<1> QED  BY <1>1, <1>2, WaitsForNothing, Served, OneContext DEF Ready

\* The TSY and the network.

LEMMA CompleteStep ==
  ASSUME PdpInv, NEW c \in Contexts, Complete(c) PROVE PdpInv'
<1>1. InStep(pdp[c]) /\ pdp[c] \in Pdp
  BY DEF PdpInv
<1>2. NetworkAfter(pdp[c]) \subseteq Status
  BY <1>1 DEF NetworkAfter, Pdp, Status
<1>3. \E x \in {"none", "error"}, n \in Status :
         pdp' = [pdp EXCEPT ![c] = [pdp[c] EXCEPT !.iStatus = x, !.network = n]]
  <2>1. CASE \E n \in NetworkAfter(pdp[c]) : pdp' = [pdp EXCEPT ![c].iStatus = "none", ![c].network = n]
    BY <1>1, <1>2, <2>1 DEF PdpInv, Pdp
  <2>2. CASE pdp' = [pdp EXCEPT ![c].iStatus = "error"]
    <3>1. pdp[c].network \in Status
      BY <1>1 DEF Pdp
    <3>2. [pdp[c] EXCEPT !.iStatus = "error"]
            = [pdp[c] EXCEPT !.iStatus = "error", !.network = pdp[c].network]
      BY <1>1 DEF Pdp
    <3> QED  BY <2>2, <3>1, <3>2
  <2> QED  BY <2>1, <2>2 DEF Complete
<1>4. PICK x \in {"none", "error"}, n \in Status :
         pdp' = [pdp EXCEPT ![c] = [pdp[c] EXCEPT !.iStatus = x, !.network = n]]
  BY <1>3
<1> DEFINE q == [pdp[c] EXCEPT !.iStatus = x, !.network = n]
<1>5. q \in Pdp /\ Keeps(pdp[c], q) /\ q.step = pdp[c].step /\ q.watching = pdp[c].watching
  BY <1>1 DEF Pdp, Keeps
<1> HIDE DEF q
<1>6. InStep(q)
  BY <1>1, <1>5 DEF InStep, Stepping, Keeps
<1> QED  BY <1>4, <1>6, OneContext DEF q

LEMMA NetworkChangeStep ==
  ASSUME PdpInv, NEW c \in Contexts, NetworkChange(c) PROVE PdpInv'
<1> DEFINE p == pdp[c]
<1>1. InStep(p) /\ p \in Pdp
  BY DEF PdpInv
<1>2. PICK n \in Moves[p.network] :
        pdp' = [pdp EXCEPT ![c] =
          [p EXCEPT !.network = n,
                    !.iStatus = IF p.step = "notifyStatusChange" THEN "none" ELSE p.iStatus,
                    !.changes = IF p.watching THEN Append(p.changes, n) ELSE p.changes]]
  BY DEF NetworkChange
<1>3. n \in Status
  BY <1>2 DEF NetworkChange, Moves, Status
<1> DEFINE q == [p EXCEPT !.network = n,
                    !.iStatus = IF p.step = "notifyStatusChange" THEN "none" ELSE p.iStatus,
                    !.changes = IF p.watching THEN Append(p.changes, n) ELSE p.changes]
<1> HIDE DEF p
<1>4. Append(p.changes, n) \in Seq(Status)
  <2>1. p.changes \in Seq(Status)
    BY <1>1 DEF Pdp
  <2> QED  BY <1>3, <2>1
<1>5. q \in Pdp /\ Keeps(p, q) /\ q.step = p.step /\ q.watching = p.watching
  BY <1>1, <1>3, <1>4 DEF Pdp, Keeps
<1>6. pdp' = [pdp EXCEPT ![c] = q]
  BY <1>2
<1> HIDE DEF q
<1>7. InStep(q)
  BY <1>1, <1>5 DEF InStep, Stepping, Keeps
<1> QED  BY <1>6, <1>7, OneContext

LEMMA NotifyStep ==
  ASSUME PdpInv, NEW c \in Contexts, Notify(c) PROVE PdpInv'
<1> DEFINE p == pdp[c]
           q == [p EXCEPT !.changes = Tail(@), !.iContextStatus = Head(p.changes),
                          !.watching = Head(p.changes) # "deleted"]
<1>1. InStep(p) /\ p \in Pdp /\ p.changes # <<>> /\ p.life # "unused"
  BY DEF PdpInv, Notify, InStep
<1>2. PICK r \in IF Head(p.changes) = p.iContextStatus THEN {q} ELSE StatusChange(c, q) :
        pdp' = [pdp EXCEPT ![c] = r]
  BY DEF Notify, Become
<1> HIDE DEF p
<1>3. Head(p.changes) \in Status /\ Tail(p.changes) \in Seq(Status)
  <2>1. p.changes \in Seq(Status)
    BY <1>1 DEF Pdp
  <2> QED  BY <1>1, <2>1
<1>4. q \in Pdp /\ Keeps(p, q) /\ q.step = p.step /\ q.life # "unused"
  BY <1>1, <1>3 DEF Pdp, Keeps
<1> HIDE DEF q
<1>5. InStep(q)
  BY <1>1, <1>4 DEF InStep, Stepping, Keeps
<1>6. InStep(r)
  <2>1. CASE r = q
    BY <1>5, <2>1
  <2>2. CASE r \in Close(c, q)
    BY <1>4, <2>2, ClosesInStep
  <2>3. ASSUME NEW to \in {"Open", "Suspended"}, q.state \in {"Open", "Suspended"},
               NEW event \in Event, r = SpudManNotify(To(q, to), event, FALSE)
        PROVE  InStep(r)
    <3> DEFINE t == To(q, to)
    <3>1. Ready(q)
      BY <1>5, <2>3, Served DEF InStep, Ready
    <3>2. Ready(t) /\ t.state \in {"Open", "Suspended"} /\ t.life # "unused"
      BY <3>1, <1>4, ToReady DEF State
    <3> HIDE DEF t
    <3>3. InStep(SpudManNotify(t, event, FALSE))
      BY <3>2, Answers, Served
    <3> QED  BY <2>3, <3>3 DEF t
  <2>4. q.state = "Open" => To(q, "Open") = q
    BY <1>4 DEF To, Pdp
  <2> QED  BY <1>2, <2>1, <2>2, <2>3, <2>4 DEF StatusChange, Event
<1> QED  BY <1>2, <1>6, OneContext

LEMMA PdpKept == PdpInv /\ [Next]_vars => PdpInv'
<1> SUFFICES ASSUME PdpInv, [Next]_vars PROVE PdpInv'
  OBVIOUS
<1>1. ASSUME NEW c \in Contexts, DriverRuns(c) PROVE PdpInv'
  BY <1>1, RunLStep, OpeningPhoneStep, CreatingPrimaryStep, ActivatingPrimaryStep,
     CreatingSecondaryStep, SecondaryDeletedStep, ActivatingSecondaryStep, AnsweringStep,
     DeletedStep DEF DriverRuns
<1>2. ASSUME NEW c \in Contexts,
             NewFsmContext(c) \/ Request(c) \/ ContextDelete(c) \/ DeleteFsmContext(c)
      PROVE  PdpInv'
  BY <1>2, NewFsmContextStep, RequestStep, ContextDeleteStep, DeleteFsmContextStep
<1>3. ASSUME NEW c \in Contexts, Notify(c) \/ Complete(c) \/ NetworkChange(c) PROVE PdpInv'
  BY <1>3, NotifyStep, CompleteStep, NetworkChangeStep
<1>4. CASE UNCHANGED vars
  BY <1>4 DEF vars, PdpInv
<1> QED  BY <1>1, <1>2, <1>3, <1>4 DEF Next

\* The driver of a context runs what the state of the context waits for, whatever is
\* cancelled, refused or fails, for every number of contexts and of changes of status.
THEOREM DriverAlwaysServes == Spec => []DriverServesState
<1>1. PdpInv => DriverServesState
  BY DEF PdpInv, InStep, DriverServesState
<1> QED  BY InitInStep, PdpKept, <1>1, PTL DEF Spec
-----------------------------------------------------------------------------
(* What providers are told.  The answer at the end of a strategy is true    *)
(* because of what the state has awaited and what the driver has done since. *)

Answering1st == {"OpeningPhone", "CreatingPrimary", "ActivatingPrimary"}
Creates == {"Create1ry", "Create2ry"}

\* What the provider waits for in a state whose strategy is s.
Asked(p, s) ==
  /\ p.state \in Answering1st => p.awaited = "PrimaryContextCreated"
  /\ p.state = "CreatingSecondary" => p.awaited = "SecondaryContextCreated"
  /\ p.state = "ActivatingSecondary" => p.awaited = "Activate"
  /\ p.state \in DOMAIN Serving /\ s # None => p.awaited = Serving[p.state].event
  /\ p.state \in {"Open", "Suspended"} => p.awaited = None

\* From its creation on a context has a sub-session until it is deleted; the status
\* of a deletion is known only where nothing but the deletion goes on.
Placed(p) ==
  /\ p.state \in {"ActivatingPrimary", "CreatedSecondary", "SettingQoS", "SettingTFT",
                  "ActivatingSecondary"} => p.opened
  /\ p.iContextStatus = "deleted" => p.state \in {"Closing", "Initialised"}
  /\ p.life = "unused" => p.iContextStatus # "deleted"

\* What the driver has done when it is at a step.
Opens(p) == p.strategy \in Creates => p.opened \/ p.iStatus = "error"
Watches(p) ==
  p.strategy = "ActivatePdp" /\ p.step = "finish" /\ p.iStatus # "error" => p.watching
Deletes(p) ==
  p.strategy = "ContextDelete" =>
    ~p.watching /\ p.step # "start" /\ (p.step = "finish" => ~p.opened)

Sure(p) == Asked(p, p.strategy) /\ Placed(p) /\ Opens(p) /\ Watches(p) /\ Deletes(p)

\* A creation of a secondary context that failed is remembered while the context is
\* deleted.
ErrorKept(c) ==
  pdp[c].state = "CreatingSecondary" =>
    c # Primary /\ (pdp[c].strategy = "ContextDelete" => iErrorCode = "error")

AnswerInv == PdpInv /\ \A c \in Contexts : Sure(pdp[c]) /\ ErrorKept(c)

\* AnswersAreTrue of one context.
TrueAnswer(p, q) ==
  q.told # p.told /\ q.told # Nothing =>
    /\ p.awaited \in {None, q.told.event} \/ q.told.event = "ContextDelete"
    /\ q.told.event \in {"SecondaryContextCreated", "Activate", "PrimaryContextCreated"}
         /\ ~q.told.error => q.opened
    /\ q.told.event \in {"Activate", "PrimaryContextCreated"} /\ ~q.told.error => q.watching
    /\ q.told.event = "ContextDelete" => ~q.opened /\ ~q.watching /\ q.strategy = None

\* iErrorCode of TPdpStateCreatingSecondary is for one context: two that fail together
\* overwrite it, and the second provider is told that its context is created.
OneSecondary == \A c, d \in Contexts \ {Primary} : c = d

\* TContextDeleteStrategy stops the notifier, deactivates and deletes, in this order.
LEMMA DeletionSteps ==
  /\ StepAfter("ContextDelete", "start") = "deactivate"
  /\ StepAfter("ContextDelete", "deactivate") = "deleteContext"
  /\ StepAfter("ContextDelete", "deleteContext") = "finish"
  /\ StepsOf("ContextDelete") = {"start", "deactivate", "deleteContext", "finish"}
<1> DEFINE q == <<"start", "deactivate", "deleteContext", "finish">>
<1>1. Steps["ContextDelete"] = q
  BY DEF Steps
<1>2. DOMAIN q = {1, 2, 3, 4} /\ q[1] = "start" /\ q[2] = "deactivate"
      /\ q[3] = "deleteContext" /\ q[4] = "finish"
  OBVIOUS
<1> HIDE DEF q
<1>3. /\ (CHOOSE i \in DOMAIN q : q[i] = "start") = 1
      /\ (CHOOSE i \in DOMAIN q : q[i] = "deactivate") = 2
      /\ (CHOOSE i \in DOMAIN q : q[i] = "deleteContext") = 3
  <2>1. \A i \in DOMAIN q : /\ q[i] = "start" <=> i = 1
                            /\ q[i] = "deactivate" <=> i = 2
                            /\ q[i] = "deleteContext" <=> i = 3
    BY <1>2
  <2> QED  BY <1>2, <2>1
<1>4. StepsOf("ContextDelete") = {"start", "deactivate", "deleteContext", "finish"}
  BY <1>1, <1>2 DEF StepsOf
<1> QED  BY <1>1, <1>2, <1>3, <1>4 DEF StepAfter

\* Only an activation waits for a change of status.
LEMMA CreationSteps ==
  "notifyStatusChange" \notin StepsOf("Create1ry") \cup StepsOf("Create2ry")
<1>1. Steps["Create1ry"] = <<"start", "initialiseContext", "setConfig", "setProfileParams", "finish">>
      /\ Steps["Create2ry"] = <<"start", "initialiseContext", "finish">>
  BY DEF Steps
<1>2. \A i \in DOMAIN <<"start", "initialiseContext", "setConfig", "setProfileParams", "finish">> :
         <<"start", "initialiseContext", "setConfig", "setProfileParams", "finish">>[i]
           # "notifyStatusChange"
  OBVIOUS
<1>3. \A i \in DOMAIN <<"start", "initialiseContext", "finish">> :
         <<"start", "initialiseContext", "finish">>[i] # "notifyStatusChange"
  OBVIOUS
<1> QED  BY <1>1, <1>2, <1>3 DEF StepsOf

\* What one call of Next does for the answer.
Says(p, q) == q.awaited = p.awaited /\ q.told = p.told
Driven(p, q) ==
  /\ Keeps(p, q) /\ Says(p, q) /\ q.iContextStatus = p.iContextStatus
  /\ p.strategy # "ContextDelete" /\ p.opened => q.opened
  /\ p.strategy \in Creates /\ (p.opened \/ p.step = "start") => q.opened \/ q.iStatus = "error"
  /\ Watches(q)
  /\ p.step = "start" \/ ~p.watching => Deletes(q)

LEMMA StrategyNextDriven ==
  ASSUME NEW c, NEW p \in Pdp, p.strategy # None, Stepping(p), p.step # "finish",
         NEW q \in StrategyNext(c, p)
  PROVE  Driven(p, q)
<1>1. CASE p.strategy = "ContextDelete"
  <2> DEFINE to == StepAfter("ContextDelete", p.step)
             g == Goes(p, to)
             h == [g EXCEPT !.iStatus = IF p.opened /\ to # "finish" THEN "pending" ELSE "none"]
  <2>1. q = IF p.step = "start" THEN [h EXCEPT !.watching = FALSE, !.changes = <<>>]
            ELSE IF to = "finish" THEN [h EXCEPT !.opened = FALSE] ELSE h
    BY <1>1 DEF StrategyNext, DeleteNext
  <2>2. /\ p.step \in {"start", "deactivate", "deleteContext"} /\ to # "start"
        /\ p.step = "start" => to # "finish"
    BY <1>1, DeletionSteps DEF Stepping
  <2> HIDE DEF to
  <2>3. /\ DOMAIN g = DOMAIN p /\ g.step = to /\ g.watching = p.watching /\ g.opened = p.opened
        /\ Keeps(p, g) /\ Says(p, g) /\ g.iContextStatus = p.iContextStatus
    BY DEF Goes, Pdp, Keeps, Says
  <2>4. DOMAIN p = {"life", "state", "iContextStatus", "strategy", "step", "iStatus",
                    "iCompletionStatus", "opened", "watching", "changes", "network",
                    "awaited", "told"}
    BY DEF Pdp
  <2> HIDE DEF g
  <2>5. /\ Keeps(p, q) /\ Says(p, q) /\ q.iContextStatus = p.iContextStatus /\ q.step = to
        /\ q.watching = (p.step # "start" /\ p.watching)
        /\ to = "finish" => ~q.opened
    BY <2>1, <2>2, <2>3, <2>4 DEF Keeps, Says, Pdp
  <2> QED  BY <1>1, <2>2, <2>5 DEF Driven, Watches, Deletes, Creates, Keeps
<1>2. CASE p.strategy = "ActivatePdp"
  <2>1. q = ActivateNext(c, p) \/ q = Inactive(p)
    BY <1>2 DEF StrategyNext
  <2>2. \/ \E s \in {"activate", "notifyStatusChange", "getConfig", "getProfileParams"} : q = Goes(p, s)
        \/ q = [Goes(p, "finish") EXCEPT !.iStatus = "error"]
        \/ q = [Goes(p, "finish") EXCEPT !.watching = TRUE]
    BY <2>1 DEF ActivateNext, Inactive, ReadsStatus, StartNotifications
  <2>3. \A s : /\ Goes(p, s).step = s /\ Goes(p, s).opened = p.opened
               /\ Keeps(p, Goes(p, s)) /\ Says(p, Goes(p, s))
               /\ Goes(p, s).iContextStatus = p.iContextStatus
               /\ DOMAIN Goes(p, s) = DOMAIN p
    BY DEF Goes, Pdp, Keeps, Says
  <2>4. /\ Keeps(p, q) /\ Says(p, q) /\ q.iContextStatus = p.iContextStatus
        /\ q.opened = p.opened
        /\ q.step = "finish" /\ q.iStatus # "error" => q.watching
    <3>1. CASE \E s \in {"activate", "notifyStatusChange", "getConfig", "getProfileParams"} :
                 q = Goes(p, s)
      BY <2>3, <3>1
    <3> DEFINE f == Goes(p, "finish")
    <3>2. /\ f.opened = p.opened /\ Keeps(p, f) /\ Says(p, f)
          /\ f.iContextStatus = p.iContextStatus /\ DOMAIN f = DOMAIN p
      BY <2>3
    <3>3. q = [f EXCEPT !.iStatus = "error"] \/ q = [f EXCEPT !.watching = TRUE] \/ <3>1!1
      BY <2>2
    <3> HIDE DEF f
    <3>4. CASE q = [f EXCEPT !.iStatus = "error"] \/ q = [f EXCEPT !.watching = TRUE]
      BY <3>2, <3>4 DEF Keeps, Says, Pdp
    <3> QED  BY <3>1, <3>3, <3>4
  <2> QED  BY <1>2, <2>4 DEF Driven, Watches, Deletes, Creates, Keeps
<1>3. CASE p.strategy \notin {"ContextDelete", "ActivatePdp"}
  <2> DEFINE opens == p.strategy \in Creates /\ p.step = "start"
             g == Goes(p, StepAfter(p.strategy, p.step))
  <2>1. q = [g EXCEPT !.opened = p.opened \/ opens] \/ q = [p EXCEPT !.iStatus = "error"]
    BY <1>3 DEF StrategyNext, Creates
  <2>2. Keeps(p, g) /\ Says(p, g) /\ g.iContextStatus = p.iContextStatus /\ DOMAIN g = DOMAIN p
    BY DEF Goes, Pdp, Keeps, Says
  <2> HIDE DEF g
  <2>3. /\ Keeps(p, q) /\ Says(p, q) /\ q.iContextStatus = p.iContextStatus
        /\ p.opened => q.opened
        /\ opens => q.opened \/ q.iStatus = "error"
    <3>1. DOMAIN p = DOMAIN [p EXCEPT !.iStatus = "error"] /\ "iStatus" \in DOMAIN p
          /\ "opened" \in DOMAIN p
      BY DEF Pdp
    <3> DEFINE b == p.opened \/ opens
    <3>2. (p.opened => b) /\ (opens => b)
      OBVIOUS
    <3>3. q = [g EXCEPT !.opened = b] \/ q = [p EXCEPT !.iStatus = "error"]
      BY <2>1
    <3> HIDE DEF b, opens
    <3>4. CASE q = [g EXCEPT !.opened = b]
      BY <2>2, <3>1, <3>2, <3>4 DEF Keeps, Says
    <3>5. CASE q = [p EXCEPT !.iStatus = "error"]
      BY <3>1, <3>2, <3>5 DEF Keeps, Says
    <3> QED  BY <3>3, <3>4, <3>5
  <2> QED  BY <1>3, <2>3 DEF Driven, Watches, Deletes, Creates, Keeps
<1> QED  BY <1>1, <1>2, <1>3

\* The pieces a state's answer is made of, and what they leave alone.
Same(p, q) == /\ q.opened = p.opened /\ q.watching = p.watching /\ q.life = p.life
              /\ q.iContextStatus = p.iContextStatus

LEMMA IdledSame ==
  ASSUME NEW p \in Pdp PROVE Same(p, Idled(p)) /\ Says(p, Idled(p)) /\ Idled(p).strategy = None
  BY DEF Idled, Same, Says, Pdp

LEMMA ToSame ==
  ASSUME NEW p \in Pdp, NEW state
  PROVE  Same(p, To(p, state)) /\ Says(p, To(p, state)) /\ To(p, state).strategy = p.strategy
  BY DEF To, Same, Says, Pdp

LEMMA NotifySame ==
  ASSUME NEW p \in Pdp, NEW event, NEW error \in BOOLEAN
  PROVE  LET q == SpudManNotify(p, event, error)
         IN /\ Same(p, q) /\ q.state = p.state /\ q.strategy = p.strategy
            /\ q.awaited = None /\ q.told = [event |-> event, error |-> error]
  BY DEF SpudManNotify, Same, Pdp

LEMMA StatusSame ==
  ASSUME NEW p \in Pdp, NEW status
  PROVE  LET q == [p EXCEPT !.iContextStatus = status]
         IN /\ q.opened = p.opened /\ q.watching = p.watching /\ q.life = p.life
            /\ q.state = p.state /\ Says(p, q) /\ q.iContextStatus = status
            /\ q.strategy = p.strategy
  BY DEF Says, Pdp

\* A context in a state that waits for nothing.
LEMMA RestsSure ==
  ASSUME NEW p, p.strategy = None, Asked(p, None), Placed(p) PROVE Sure(p)
<1>1. None \notin Strategy /\ None \notin Creates /\ None # "ActivatePdp" /\ None # "ContextDelete"
  BY NoneAssumption, Strategies DEF Strategy, Creates
<1> QED  BY <1>1 DEF Sure, Opens, Watches, Deletes

LEMMA TellsSure ==
  ASSUME NEW p, Ready(p), Placed(p), NEW event, NEW error \in BOOLEAN,
         p.state \in {"Initialised", "CreatedSecondary", "GettingNegQoS", "Open", "Suspended", "Closing"}
  PROVE  LET q == SpudManNotify(p, event, error)
         IN /\ Sure(q) /\ Same(p, q) /\ q.state = p.state /\ q.strategy = None
            /\ q.told = [event |-> event, error |-> error]
<1> DEFINE q == SpudManNotify(p, event, error)
<1>1. Same(p, q) /\ q.state = p.state /\ q.strategy = None /\ q.awaited = None
      /\ q.told = [event |-> event, error |-> error]
  <2>1. p \in Pdp /\ p.strategy = None
    BY DEF Ready
  <2>2. /\ Same(p, q) /\ q.state = p.state /\ q.strategy = p.strategy
        /\ q.awaited = None /\ q.told = [event |-> event, error |-> error]
    BY ONLY <2>1, NotifySame
  <2> QED  BY <2>1, <2>2
<1> HIDE DEF q
<1>2. Asked(q, None) /\ Placed(q)
  BY <1>1 DEF Asked, Answering1st, Placed, Same
<1> QED  BY <1>1, <1>2, RestsSure DEF q

\* A context whose driver has been given the strategy of its state.
LEMMA StartsSure ==
  ASSUME NEW c, NEW p, Ready(p), NEW s \in Strategy, s \in Serves(p.state),
         Asked(p, s), Placed(p), NEW q \in EtelDriverInput(c, p, s)
  PROVE  Sure(q) /\ Says(p, q) /\ q.strategy = s /\ q.state = p.state
<1> DEFINE b == [p EXCEPT !.strategy = s, !.step = "start", !.iCompletionStatus = "none"]
<1>1. s # None
  BY NoneAssumption DEF Strategy
<1>2. "start" \in StepsOf(s) /\ "start" \in StepName
  <2>1. 1 \in DOMAIN Steps[s] /\ Steps[s][1] = "start"
    BY StepSequences
  <2> QED  BY <2>1 DEF StepsOf, StepName
<1>3. /\ b \in Pdp /\ b.strategy = s /\ b.step = "start" /\ b.state = p.state
      /\ Same(p, b) /\ Says(p, b)
  BY <1>2 DEF Ready, Pdp, Same, Says
<1>4. q \in StrategyNext(c, b)
  BY DEF EtelDriverInput, Ready
<1> HIDE DEF b
<1>5. Driven(b, q)
  BY <1>1, <1>2, <1>3, <1>4, StrategyNextDriven DEF Stepping
<1>6. /\ q.state = p.state /\ q.strategy = s /\ Says(p, q) /\ q.life = p.life
      /\ q.iContextStatus = p.iContextStatus
  BY <1>3, <1>5 DEF Driven, Keeps, Says, Same
<1>7. Asked(q, s) /\ Placed(q)
  <2>1. s = "ContextDelete" \/ (p.opened => q.opened)
    BY <1>3, <1>5 DEF Driven, Same
  <2>2. Asked(q, s)
    BY <1>6 DEF Asked, Says
  <2>3. s = "ContextDelete" =>
          p.state \notin {"ActivatingPrimary", "CreatedSecondary", "SettingQoS", "SettingTFT",
                         "ActivatingSecondary"}
    BY NoneAssumption, Strategies, Served DEF Strategy
  <2> QED  BY <1>6, <2>1, <2>2, <2>3 DEF Placed
<1>8. Opens(q) /\ Watches(q) /\ Deletes(q)
  BY <1>3, <1>5, <1>6 DEF Driven, Opens, Watches
<1> QED  BY <1>6, <1>7, <1>8 DEF Sure

LEMMA MovesSure ==
  ASSUME NEW p, Ready(p), NEW state \in State
  PROVE  LET q == To(p, state)
         IN Ready(q) /\ q.state = state /\ Same(p, q) /\ Says(p, q)
<1>1. p \in Pdp
  BY DEF Ready
<1> QED  BY <1>1, ToReady, ToSame

\* A context whose strategy has ended.
LEMMA EndedSure ==
  ASSUME AnswerInv, NEW c \in Contexts, NEW s \in Strategy, NEW x, NotifyFsm(c, s, x)
  PROVE  /\ pdp[c].state = x /\ pdp[c].life # "unused"
         /\ Ready(Idle(c)) /\ Idle(c).state = x /\ Same(pdp[c], Idle(c)) /\ Says(pdp[c], Idle(c))
         /\ Asked(pdp[c], s) /\ Placed(pdp[c]) /\ Failed(c) \in BOOLEAN
         /\ ~Failed(c) /\ s \in Creates => pdp[c].opened
         /\ ~Failed(c) /\ s = "ActivatePdp" => pdp[c].watching
         /\ s = "ContextDelete" => ~pdp[c].opened /\ ~pdp[c].watching
<1>1. /\ pdp[c] \in Pdp /\ Ready(Idle(c)) /\ Idle(c).state = x
      /\ Idle(c).life # "unused" /\ Failed(c) \in BOOLEAN
  BY Ended DEF AnswerInv
<1>2. Same(pdp[c], Idle(c)) /\ Says(pdp[c], Idle(c))
  BY <1>1, IdledSame DEF Idle
<1>3. pdp[c].strategy = s /\ pdp[c].state = x /\ EndsStrategy(pdp[c])
  BY DEF NotifyFsm
<1>4. Sure(pdp[c])
  BY DEF AnswerInv
<1>5. ~Failed(c) => pdp[c].iStatus # "error"
  BY DEF Failed, Recorded
<1>6. s = "ContextDelete" => ~pdp[c].opened /\ ~pdp[c].watching
  BY <1>3, <1>4 DEF Sure, Deletes, EndsStrategy
<1>7. /\ ~Failed(c) /\ s \in Creates => pdp[c].opened
      /\ ~Failed(c) /\ s = "ActivatePdp" => pdp[c].watching
  BY <1>3, <1>4, <1>5 DEF Sure, Opens, Watches, EndsStrategy
<1> QED  BY <1>1, <1>2, <1>3, <1>4, <1>6, <1>7 DEF Sure, Same

\* Every context but one is as it was.
Truthful == \A c \in Contexts : TrueAnswer(pdp[c], pdp'[c])
Answered == \A c \in Contexts : Sure(pdp[c]) /\ ErrorKept(c)

LEMMA OneAnswer ==
  ASSUME AnswerInv, NEW c \in Contexts, NEW q, pdp' = [pdp EXCEPT ![c] = q],
         Sure(q), TrueAnswer(pdp[c], q), iErrorCode' = iErrorCode,
         q.state = "CreatingSecondary" =>
           c # Primary /\ (q.strategy = "ContextDelete" => iErrorCode = "error")
  PROVE  Answered' /\ Truthful
<1>1. pdp'[c] = q /\ \A d \in Contexts \ {c} : pdp'[d] = pdp[d]
  BY DEF AnswerInv, PdpInv
<1>2. \A d \in Contexts : Sure(pdp[d]) /\ ErrorKept(d)
  BY DEF AnswerInv
<1>3. ASSUME NEW d \in Contexts PROVE Sure(pdp'[d]) /\ ErrorKept(d)' /\ TrueAnswer(pdp[d], pdp'[d])
  <2>1. CASE d = c
    BY <1>1, <2>1 DEF ErrorKept
  <2>2. CASE d # c
    BY <1>1, <1>2, <2>2 DEF ErrorKept, TrueAnswer
  <2> QED  BY <2>1, <2>2
<1> QED  BY <1>3 DEF Answered, Truthful

\* A step of the only secondary context, whose error code it is.
LEMMA OneAnswerOfSecondary ==
  ASSUME AnswerInv, OneSecondary, NEW c \in Contexts, c # Primary, NEW q,
         pdp' = [pdp EXCEPT ![c] = q], Sure(q), TrueAnswer(pdp[c], q),
         q.state = "CreatingSecondary" /\ q.strategy = "ContextDelete" => iErrorCode' = "error"
  PROVE  Answered' /\ Truthful
<1>1. pdp'[c] = q /\ \A d \in Contexts \ {c} : pdp'[d] = pdp[d]
  BY DEF AnswerInv, PdpInv
<1>2. \A d \in Contexts : Sure(pdp[d]) /\ ErrorKept(d)
  BY DEF AnswerInv
<1>3. ASSUME NEW d \in Contexts PROVE Sure(pdp'[d]) /\ ErrorKept(d)' /\ TrueAnswer(pdp[d], pdp'[d])
  <2>1. CASE d = c
    BY <1>1, <2>1 DEF ErrorKept
  <2>2. CASE d # c
    <3>1. pdp'[d] = pdp[d] /\ d = Primary
      BY <1>1, <2>2 DEF OneSecondary
    <3> QED  BY <1>2, <3>1 DEF ErrorKept, TrueAnswer
  <2> QED  BY <2>1, <2>2
<1> QED  BY <1>3 DEF Answered, Truthful

\* A step that says nothing to a provider, or forgets what was said.
LEMMA Silent ==
  ASSUME NEW p, NEW q, q.told \in {p.told, Nothing} PROVE TrueAnswer(p, q)
  BY DEF TrueAnswer

-----------------------------------------------------------------------------
(* The actions, once more. *)

LEMMA RunLAnswers ==
  ASSUME AnswerInv, NEW c \in Contexts, RunL(c) PROVE Answered' /\ Truthful
<1> DEFINE o == pdp[c]
           p == [o EXCEPT !.iCompletionStatus = Recorded(o)]
<1>1. PICK q \in StrategyNext(c, p) : pdp' = [pdp EXCEPT ![c] = q]
  BY DEF RunL
<1>2. /\ InStep(o) /\ o \in Pdp /\ o.strategy # None /\ o.step # "finish" /\ Sure(o)
      /\ o.iStatus # "error" \/ o.strategy = "ContextDelete"
  BY DEF AnswerInv, PdpInv, RunL, Runs, EndsStrategy
<1>3. Recorded(o) \in {"none", "error"}
  BY <1>2 DEF Recorded, Pdp
<1> HIDE DEF o
<1>4. /\ p \in Pdp /\ Keeps(o, p) /\ Says(o, p) /\ p.step = o.step
      /\ p.opened = o.opened /\ p.watching = o.watching /\ p.iContextStatus = o.iContextStatus
  BY <1>2, <1>3 DEF Pdp, Keeps, Says
<1> HIDE DEF p
<1>5. Stepping(p) /\ p.strategy # None /\ p.step # "finish"
  BY <1>2, <1>4 DEF Stepping, Keeps, InStep
<1>6. Driven(p, q)
  BY <1>4, <1>5, StrategyNextDriven
<1>7. /\ Keeps(o, q) /\ Says(o, q) /\ q.iContextStatus = o.iContextStatus
      /\ o.strategy # "ContextDelete" /\ o.opened => q.opened
      /\ o.strategy \in Creates /\ o.opened => q.opened \/ q.iStatus = "error"
      /\ Watches(q)
      /\ ~o.watching => Deletes(q)
  BY <1>4, <1>6 DEF Driven, Keeps, Says
<1>8. Asked(q, q.strategy)
  BY <1>2, <1>7 DEF Sure, Asked, Keeps, Says
<1>9. Placed(q)
  <2>1. o.strategy = "ContextDelete" =>
          o.state \notin {"ActivatingPrimary", "CreatedSecondary", "SettingQoS", "SettingTFT",
                         "ActivatingSecondary"}
    BY <1>2, NoneAssumption, Strategies, Served DEF Strategy, InStep
  <2> QED  BY <1>2, <1>7, <2>1 DEF Sure, Placed, Keeps
<1>10. Opens(q)
  BY <1>2, <1>7 DEF Sure, Opens, Keeps, Creates
<1>11. Deletes(q)
  BY <1>2, <1>7 DEF Sure, Deletes, Keeps
<1>12. Sure(q)
  BY <1>7, <1>8, <1>9, <1>10, <1>11 DEF Sure
<1>13. TrueAnswer(o, q)
  BY <1>7, Silent DEF Says
<1>14. q.state = "CreatingSecondary" =>
         c # Primary /\ (q.strategy = "ContextDelete" => iErrorCode = "error")
  BY <1>7 DEF AnswerInv, ErrorKept, Keeps, o
<1> QED  BY <1>1, <1>12, <1>13, <1>14, OneAnswer DEF RunL, o

LEMMA OpeningPhoneAnswers ==
  ASSUME AnswerInv, NEW c \in Contexts, OpeningPhone(c) PROVE Answered' /\ Truthful
<1> DEFINE i == Idle(c)
<1>1. /\ pdp[c].state = "OpeningPhone" /\ pdp[c].life # "unused"
      /\ Ready(i) /\ Same(pdp[c], i) /\ Says(pdp[c], i)
      /\ pdp[c].awaited = "PrimaryContextCreated"
      /\ Placed(pdp[c])
  BY EndedSure, Strategies DEF OpeningPhone, Asked, Answering1st
<1>2. iErrorCode' = iErrorCode
  BY DEF OpeningPhone
<1>3. CASE Failed(c)
  <2> DEFINE t == To(i, "Initialised")
             q == SpudManNotify(t, "PrimaryContextCreated", TRUE)
  <2>1. pdp' = [pdp EXCEPT ![c] = q]
    BY <1>3 DEF OpeningPhone, Become
  <2> HIDE DEF i
  <2>2. Ready(t) /\ t.state = "Initialised" /\ Same(i, t)
    BY <1>1, MovesSure DEF State
  <2> HIDE DEF t
  <2>3. Placed(t)
    BY <1>1, <2>2 DEF Placed, Same
  <2>4. Sure(q) /\ q.state = "Initialised" /\ q.told = [event |-> "PrimaryContextCreated", error |-> TRUE]
    BY <2>2, <2>3, TellsSure
  <2> HIDE DEF q
  <2>5. TrueAnswer(pdp[c], q)
    BY <1>1, <2>4 DEF TrueAnswer
  <2> QED  BY <1>2, <2>1, <2>4, <2>5, OneAnswer
<1>4. CASE ~Failed(c)
  <2> DEFINE t == To(i, "CreatingPrimary")
  <2>1. PICK q \in EtelDriverInput(c, t, "Create1ry") : pdp' = [pdp EXCEPT ![c] = q]
    BY <1>4 DEF OpeningPhone, Become
  <2> HIDE DEF i
  <2>2. Ready(t) /\ t.state = "CreatingPrimary" /\ Same(i, t) /\ Says(i, t)
    BY <1>1, MovesSure DEF State
  <2> HIDE DEF t
  <2>3. Asked(t, "Create1ry") /\ Placed(t)
    BY <1>1, <2>2 DEF Asked, Placed, Same, Says, Serving
  <2>4. Sure(q) /\ q.state = "CreatingPrimary" /\ Says(t, q)
    BY <2>1, <2>2, <2>3, StartsSure, Strategies, Served
  <2>5. TrueAnswer(pdp[c], q)
    BY <1>1, <2>2, <2>4, Silent DEF Says
  <2> QED  BY <1>2, <2>1, <2>4, <2>5, OneAnswer
<1> QED  BY <1>3, <1>4

LEMMA CreatingPrimaryAnswers ==
  ASSUME AnswerInv, NEW c \in Contexts, CreatingPrimary(c) PROVE Answered' /\ Truthful
<1> DEFINE i == Idle(c)
<1>1. /\ pdp[c].state = "CreatingPrimary" /\ pdp[c].life # "unused"
      /\ Ready(i) /\ Same(pdp[c], i) /\ Says(pdp[c], i)
      /\ pdp[c].awaited = "PrimaryContextCreated" /\ Placed(pdp[c])
      /\ ~Failed(c) => pdp[c].opened
  BY EndedSure, Strategies DEF CreatingPrimary, Asked, Answering1st, Creates
<1>2. iErrorCode' = iErrorCode
  BY DEF CreatingPrimary
<1>3. CASE Failed(c)
  <2> DEFINE t == To(i, "Initialised")
             u == SpudManNotify(t, "PrimaryContextCreated", TRUE)
  <2>1. PICK q \in EtelDriverInput(c, u, "ContextDelete") : pdp' = [pdp EXCEPT ![c] = q]
    BY <1>3 DEF CreatingPrimary, Become
  <2> HIDE DEF i
  <2>2. Ready(t) /\ t.state = "Initialised" /\ Same(i, t)
    BY <1>1, MovesSure DEF State
  <2> HIDE DEF t
  <2>3. Placed(t)
    BY <1>1, <2>2 DEF Placed, Same
  <2>4. /\ Ready(u) /\ u.state = "Initialised" /\ Same(t, u)
        /\ u.told = [event |-> "PrimaryContextCreated", error |-> TRUE]
    BY <2>2, <2>3, TellsSure, NotifyReady DEF Event
  <2> HIDE DEF u
  <2>5. Asked(u, "ContextDelete") /\ Placed(u)
    BY <2>3, <2>4 DEF Asked, Answering1st, Placed, Same, Serving
  <2>6. Sure(q) /\ q.state = "Initialised" /\ Says(u, q)
    BY <2>1, <2>4, <2>5, StartsSure, Strategies, Served
  <2>7. TrueAnswer(pdp[c], q)
    BY <1>1, <2>4, <2>6 DEF TrueAnswer, Says
  <2> QED  BY <1>2, <2>1, <2>6, <2>7, OneAnswer
<1>4. CASE ~Failed(c)
  <2> DEFINE t == To(i, "ActivatingPrimary")
  <2>1. PICK q \in EtelDriverInput(c, t, "ActivatePdp") : pdp' = [pdp EXCEPT ![c] = q]
    BY <1>4 DEF CreatingPrimary, Become
  <2> HIDE DEF i
  <2>2. Ready(t) /\ t.state = "ActivatingPrimary" /\ Same(i, t) /\ Says(i, t)
    BY <1>1, MovesSure DEF State
  <2> HIDE DEF t
  <2>3. Asked(t, "ActivatePdp") /\ Placed(t)
    BY <1>1, <1>4, <2>2 DEF Asked, Placed, Same, Says, Serving
  <2>4. Sure(q) /\ q.state = "ActivatingPrimary" /\ Says(t, q)
    BY <2>1, <2>2, <2>3, StartsSure, Strategies, Served
  <2>5. TrueAnswer(pdp[c], q)
    BY <1>1, <2>2, <2>4, Silent DEF Says
  <2> QED  BY <1>2, <2>1, <2>4, <2>5, OneAnswer
<1> QED  BY <1>3, <1>4

LEMMA ActivatingPrimaryAnswers ==
  ASSUME AnswerInv, NEW c \in Contexts, ActivatingPrimary(c) PROVE Answered' /\ Truthful
<1> DEFINE i == Idle(c)
<1>1. /\ pdp[c].state = "ActivatingPrimary" /\ pdp[c].life # "unused"
      /\ Ready(i) /\ Same(pdp[c], i) /\ Says(pdp[c], i)
      /\ pdp[c].awaited = "PrimaryContextCreated" /\ Placed(pdp[c]) /\ pdp[c].opened
      /\ ~Failed(c) => pdp[c].watching
  BY EndedSure, Strategies DEF ActivatingPrimary, Asked, Answering1st, Placed
<1>2. iErrorCode' = iErrorCode
  BY DEF ActivatingPrimary
<1>3. CASE Failed(c)
  <2> DEFINE t == To(i, "Closing")
             u == SpudManNotify(t, "PrimaryContextCreated", TRUE)
  <2>1. PICK q \in EtelDriverInput(c, u, "ContextDelete") : pdp' = [pdp EXCEPT ![c] = q]
    BY <1>3 DEF ActivatingPrimary, Become
  <2> HIDE DEF i
  <2>2. Ready(t) /\ t.state = "Closing" /\ Same(i, t)
    BY <1>1, MovesSure DEF State
  <2> HIDE DEF t
  <2>3. Placed(t)
    BY <1>1, <2>2 DEF Placed, Same
  <2>4. /\ Ready(u) /\ u.state = "Closing" /\ Same(t, u)
        /\ u.told = [event |-> "PrimaryContextCreated", error |-> TRUE]
    BY <2>2, <2>3, TellsSure, NotifyReady DEF Event
  <2> HIDE DEF u
  <2>5. Asked(u, "ContextDelete") /\ Placed(u)
    BY <2>3, <2>4 DEF Asked, Answering1st, Placed, Same, Serving
  <2>6. Sure(q) /\ q.state = "Closing" /\ Says(u, q)
    BY <2>1, <2>4, <2>5, StartsSure, Strategies, Served
  <2>7. TrueAnswer(pdp[c], q)
    BY <1>1, <2>4, <2>6 DEF TrueAnswer, Says
  <2> QED  BY <1>2, <2>1, <2>6, <2>7, OneAnswer
<1>4. CASE ~Failed(c)
  <2> DEFINE t == To(i, "Open")
             u == [t EXCEPT !.iContextStatus = "active"]
             q == SpudManNotify(u, "PrimaryContextCreated", FALSE)
  <2>1. pdp' = [pdp EXCEPT ![c] = q]
    BY <1>4 DEF ActivatingPrimary, Become
  <2> HIDE DEF i
  <2>2. Ready(t) /\ t.state = "Open" /\ Same(i, t)
    BY <1>1, MovesSure DEF State
  <2> HIDE DEF t
  <2>3. /\ Ready(u) /\ u.state = "Open" /\ u.iContextStatus = "active"
        /\ u.opened = t.opened /\ u.watching = t.watching /\ u.life = t.life
    BY <2>2, StatusReady, StatusSame DEF Status, Ready
  <2> HIDE DEF u
  <2>4. Placed(u)
    BY <1>1, <2>3 DEF Placed
  <2>5. /\ Sure(q) /\ q.state = "Open" /\ Same(u, q)
        /\ q.told = [event |-> "PrimaryContextCreated", error |-> FALSE]
    BY <2>3, <2>4, TellsSure
  <2> HIDE DEF q
  <2>6. TrueAnswer(pdp[c], q)
    BY <1>1, <1>4, <2>2, <2>3, <2>5 DEF TrueAnswer, Same
  <2> QED  BY <1>2, <2>1, <2>5, <2>6, OneAnswer
<1> QED  BY <1>3, <1>4

LEMMA CreatingSecondaryAnswers ==
  ASSUME AnswerInv, OneSecondary, NEW c \in Contexts, CreatingSecondary(c)
  PROVE  Answered' /\ Truthful
<1> DEFINE i == Idle(c)
<1>1. /\ pdp[c].state = "CreatingSecondary" /\ i.state = "CreatingSecondary"
      /\ pdp[c].life # "unused" /\ Ready(i) /\ Same(pdp[c], i) /\ Says(pdp[c], i)
      /\ pdp[c].awaited = "SecondaryContextCreated" /\ Placed(pdp[c])
      /\ ~Failed(c) => pdp[c].opened
  BY EndedSure, Strategies DEF CreatingSecondary, Asked, Creates
<1>2. c # Primary
  BY <1>1 DEF AnswerInv, ErrorKept
<1>3. CASE Failed(c)
  <2>1. PICK q \in EtelDriverInput(c, i, "ContextDelete") : pdp' = [pdp EXCEPT ![c] = q]
    BY <1>3 DEF CreatingSecondary, Become
  <2>2. iErrorCode' = "error"
    BY <1>3 DEF CreatingSecondary
  <2> HIDE DEF i
  <2>3. Asked(i, "ContextDelete") /\ Placed(i)
    BY <1>1 DEF Asked, Answering1st, Placed, Same, Says, Serving
  <2>4. Sure(q) /\ q.state = "CreatingSecondary" /\ Says(i, q)
    BY <1>1, <2>1, <2>3, StartsSure, Strategies, Served
  <2>5. TrueAnswer(pdp[c], q)
    BY <1>1, <2>4, Silent DEF Says
  <2> QED  BY <1>2, <2>1, <2>2, <2>4, <2>5, OneAnswerOfSecondary
<1>4. CASE ~Failed(c)
  <2> DEFINE t == To(i, "CreatedSecondary")
             q == SpudManNotify(t, "SecondaryContextCreated", FALSE)
  <2>1. pdp' = [pdp EXCEPT ![c] = q] /\ iErrorCode' = iErrorCode
    BY <1>4 DEF CreatingSecondary, Become
  <2> HIDE DEF i
  <2>2. Ready(t) /\ t.state = "CreatedSecondary" /\ Same(i, t)
    BY <1>1, MovesSure DEF State
  <2> HIDE DEF t
  <2>3. Placed(t)
    BY <1>1, <1>4, <2>2 DEF Placed, Same
  <2>4. /\ Sure(q) /\ q.state = "CreatedSecondary" /\ Same(t, q)
        /\ q.told = [event |-> "SecondaryContextCreated", error |-> FALSE]
    BY <2>2, <2>3, TellsSure
  <2> HIDE DEF q
  <2>5. TrueAnswer(pdp[c], q)
    BY <1>1, <1>4, <2>2, <2>4 DEF TrueAnswer, Same
  <2> QED  BY <2>1, <2>4, <2>5, OneAnswer
<1> QED  BY <1>3, <1>4

LEMMA SecondaryDeletedAnswers ==
  ASSUME AnswerInv, OneSecondary, NEW c \in Contexts, SecondaryDeleted(c)
  PROVE  Answered' /\ Truthful
<1> DEFINE i == Idle(c)
           t == To(i, "Initialised")
           u == [t EXCEPT !.iContextStatus = "deleted"]
           e == iErrorCode = "error"
           q == SpudManNotify(u, "SecondaryContextCreated", e)
<1>1. /\ pdp[c].state = "CreatingSecondary" /\ pdp[c].life # "unused"
      /\ Ready(i) /\ Same(pdp[c], i) /\ pdp[c].awaited = "SecondaryContextCreated"
  BY EndedSure, Strategies DEF SecondaryDeleted, Asked
<1>2. c # Primary /\ e = TRUE
  BY <1>1 DEF AnswerInv, ErrorKept, SecondaryDeleted, NotifyFsm
<1>3. pdp' = [pdp EXCEPT ![c] = q]
  BY DEF SecondaryDeleted, Become
<1> HIDE DEF i
<1>4. Ready(t) /\ t.state = "Initialised" /\ Same(i, t)
  BY <1>1, MovesSure DEF State
<1> HIDE DEF t
<1>5. Ready(u) /\ u.state = "Initialised" /\ u.life = t.life
  BY <1>4, StatusReady, StatusSame DEF Status, Ready
<1> HIDE DEF u
<1>6. Placed(u)
  BY <1>1, <1>4, <1>5 DEF Placed, Same
<1> HIDE DEF e
<1>7. /\ Sure(q) /\ q.state = "Initialised"
      /\ q.told = [event |-> "SecondaryContextCreated", error |-> TRUE]
  BY <1>2, <1>5, <1>6, TellsSure
<1> HIDE DEF q
<1>8. TrueAnswer(pdp[c], q)
  BY <1>1, <1>7 DEF TrueAnswer
<1> QED  BY <1>2, <1>3, <1>7, <1>8, OneAnswerOfSecondary

LEMMA ActivatingSecondaryAnswers ==
  ASSUME AnswerInv, NEW c \in Contexts, ActivatingSecondary(c) PROVE Answered' /\ Truthful
<1> DEFINE i == Idle(c)
           f == To(i, "CreatedSecondary")
           g == To(i, "GettingNegQoS")
           a == [g EXCEPT !.iContextStatus = "active"]
           t == IF Failed(c) THEN f ELSE a
           q == SpudManNotify(t, "Activate", Failed(c))
<1>1. /\ pdp[c].state = "ActivatingSecondary" /\ pdp[c].life # "unused"
      /\ Ready(i) /\ Same(pdp[c], i) /\ pdp[c].awaited = "Activate"
      /\ Placed(pdp[c]) /\ pdp[c].opened /\ Failed(c) \in BOOLEAN
      /\ ~Failed(c) => pdp[c].watching
  BY EndedSure, Strategies DEF ActivatingSecondary, Asked, Placed
<1>2. pdp' = [pdp EXCEPT ![c] = q] /\ iErrorCode' = iErrorCode
  BY DEF ActivatingSecondary, Become
<1> HIDE DEF i
<1>3. /\ Ready(f) /\ f.state = "CreatedSecondary" /\ Same(i, f)
      /\ Ready(g) /\ g.state = "GettingNegQoS" /\ Same(i, g)
  BY <1>1, MovesSure DEF State
<1> HIDE DEF f, g
<1>4. /\ Ready(a) /\ a.state = "GettingNegQoS" /\ a.iContextStatus = "active"
      /\ a.opened = g.opened /\ a.watching = g.watching /\ a.life = g.life
  BY <1>3, StatusReady, StatusSame DEF Status, Ready
<1> HIDE DEF a
<1>5. /\ Ready(t) /\ t.state \in {"CreatedSecondary", "GettingNegQoS"} /\ t.opened
      /\ ~Failed(c) => t.watching
  BY <1>1, <1>3, <1>4 DEF Same
<1>6. Placed(t)
  BY <1>1, <1>3, <1>4 DEF Placed, Same
<1> HIDE DEF t
<1>7. /\ Sure(q) /\ q.state = t.state /\ Same(t, q)
      /\ q.told = [event |-> "Activate", error |-> Failed(c)]
  BY <1>1, <1>5, <1>6, TellsSure
<1> HIDE DEF q
<1>8. TrueAnswer(pdp[c], q)
  BY <1>1, <1>5, <1>7 DEF TrueAnswer, Same
<1> QED  BY <1>2, <1>5, <1>7, <1>8, OneAnswer

LEMMA AnsweringAnswers ==
  ASSUME AnswerInv, NEW c \in Contexts, Answering(c) PROVE Answered' /\ Truthful
<1>1. PICK x \in DOMAIN Serving :
        /\ NotifyFsm(c, Serving[x].strategy, x)
        /\ Become(c, {SpudManNotify(To(Idle(c), Serving[x].then), Serving[x].event, Failed(c))})
  BY DEF Answering
<1>2. iErrorCode' = iErrorCode
  BY DEF Answering
<1>3. /\ Serving[x].strategy \in Strategy
      /\ Serving[x].event \in {"QoSSet", "TFTModified", "ModifyActive", "GetNegQoS"}
      /\ \/ Serving[x].then = "Open"
         \/ Serving[x].then = "CreatedSecondary" /\ x \in {"SettingQoS", "SettingTFT"}
  BY Strategies DEF Serving
<1> DEFINE i == Idle(c)
           t == To(i, Serving[x].then)
           event == Serving[x].event
           q == SpudManNotify(t, event, Failed(c))
<1>4. pdp' = [pdp EXCEPT ![c] = q]
  BY <1>1 DEF Become
<1>5. /\ pdp[c].state = x /\ pdp[c].life # "unused" /\ Ready(i) /\ Same(pdp[c], i)
      /\ Asked(pdp[c], Serving[x].strategy) /\ Placed(pdp[c]) /\ Failed(c) \in BOOLEAN
  BY <1>1, <1>3, EndedSure
<1>6. pdp[c].awaited = event
  BY <1>3, <1>5, NoneAssumption DEF Asked, Strategy
<1> HIDE DEF i
<1>7. Ready(t) /\ t.state = Serving[x].then /\ Same(i, t)
  BY <1>3, <1>5, MovesSure DEF State
<1> HIDE DEF t
<1>8. Placed(t)
  <2>1. x \in {"SettingQoS", "SettingTFT"} => pdp[c].opened
    BY <1>5 DEF Placed
  <2>2. t.iContextStatus # "deleted"
    <3>1. x \notin {"Closing", "Initialised"}
      BY DEF Serving
    <3> QED  BY <1>5, <1>7, <3>1 DEF Placed, Same
  <2> QED  BY <1>3, <1>5, <1>7, <2>1, <2>2 DEF Placed, Same
<1> HIDE DEF event
<1>9. t.state \in {"CreatedSecondary", "Open"}
  BY <1>3, <1>7
<1>10. Sure(q) /\ q.state = t.state /\ q.told = [event |-> event, error |-> Failed(c)]
  BY <1>5, <1>7, <1>8, <1>9, TellsSure
<1>11. event \in {"QoSSet", "TFTModified", "ModifyActive", "GetNegQoS"}
  BY <1>3 DEF event
<1> HIDE DEF q
<1>12. TrueAnswer(pdp[c], q)
  BY <1>6, <1>10, <1>11 DEF TrueAnswer
<1> QED  BY <1>2, <1>4, <1>9, <1>10, <1>12, OneAnswer

LEMMA DeletedAnswers ==
  ASSUME AnswerInv, NEW c \in Contexts, Deleted(c) PROVE Answered' /\ Truthful
<1>1. iErrorCode' = iErrorCode
  BY DEF Deleted
<1> DEFINE i == Idle(c)
<1>2. CASE /\ NotifyFsm(c, "ContextDelete", "Closing")
           /\ Become(c, {SpudManNotify([To(Idle(c), "Initialised") EXCEPT !.iContextStatus = "deleted"],
                                       "ContextDelete", Failed(c))})
  <2> DEFINE t == To(i, "Initialised")
             u == [t EXCEPT !.iContextStatus = "deleted"]
             q == SpudManNotify(u, "ContextDelete", Failed(c))
  <2>1. /\ pdp[c].life # "unused" /\ Ready(i) /\ Same(pdp[c], i) /\ Failed(c) \in BOOLEAN
        /\ ~pdp[c].opened /\ ~pdp[c].watching
    BY <1>2, EndedSure, Strategies
  <2>2. pdp' = [pdp EXCEPT ![c] = q]
    BY <1>2 DEF Become
  <2> HIDE DEF i
  <2>3. Ready(t) /\ t.state = "Initialised" /\ Same(i, t)
    BY <2>1, MovesSure DEF State
  <2> HIDE DEF t
  <2>4. /\ Ready(u) /\ u.state = "Initialised"
        /\ u.opened = t.opened /\ u.watching = t.watching /\ u.life = t.life
    BY <2>3, StatusReady, StatusSame DEF Status, Ready
  <2> HIDE DEF u
  <2>5. Placed(u)
    BY <2>1, <2>3, <2>4 DEF Placed, Same
  <2>6. /\ Sure(q) /\ q.state = "Initialised" /\ Same(u, q) /\ q.strategy = None
        /\ q.told = [event |-> "ContextDelete", error |-> Failed(c)]
    BY <2>1, <2>4, <2>5, TellsSure
  <2> HIDE DEF q
  <2>7. TrueAnswer(pdp[c], q)
    BY <2>1, <2>3, <2>4, <2>6 DEF TrueAnswer, Same
  <2> QED  BY <1>1, <2>2, <2>6, <2>7, OneAnswer
<1>3. CASE /\ NotifyFsm(c, "ContextDelete", "Initialised")
           /\ Become(c, {[Idle(c) EXCEPT !.iContextStatus = "deleted"]})
  <2> DEFINE q == [i EXCEPT !.iContextStatus = "deleted"]
  <2>1. /\ pdp[c].life # "unused" /\ Ready(i) /\ i.state = "Initialised"
        /\ Same(pdp[c], i) /\ Says(pdp[c], i)
    BY <1>3, EndedSure, Strategies
  <2>2. pdp' = [pdp EXCEPT ![c] = q]
    BY <1>3 DEF Become
  <2> HIDE DEF i
  <2>3. Ready(q) /\ q.state = "Initialised" /\ q.life = i.life /\ Says(i, q)
    BY <2>1, StatusReady, StatusSame DEF Status, Ready
  <2> HIDE DEF q
  <2>4. Asked(q, None) /\ Placed(q)
    BY <2>1, <2>3 DEF Asked, Answering1st, Placed, Same
  <2>5. Sure(q)
    BY <2>3, <2>4, RestsSure DEF Ready
  <2>6. TrueAnswer(pdp[c], q)
    BY <2>1, <2>3, Silent DEF Says
  <2> QED  BY <1>1, <2>2, <2>3, <2>5, <2>6, OneAnswer
<1> QED  BY <1>2, <1>3 DEF Deleted

\* A context that is closed: the deletion is the only answer it still gives.
LEMMA ClosesSure ==
  ASSUME NEW c, NEW p \in Pdp, p.life # "unused", NEW q \in Close(c, p)
  PROVE  Sure(q) /\ q.state = "Closing" /\ q.told = Nothing
<1> DEFINE i == EtelDriverCancel(p)
           t == To(i, "Closing")
           u == [t EXCEPT !.told = Nothing]
<1>1. Ready(i) /\ Same(p, i)
  BY IdledReady, IdledSame DEF EtelDriverCancel
<1>2. q \in EtelDriverInput(c, u, "ContextDelete")
  BY DEF Close
<1> HIDE DEF i
<1>3. Ready(t) /\ t.state = "Closing" /\ Same(i, t)
  BY <1>1, MovesSure DEF State
<1> HIDE DEF t
<1>4. Ready(u) /\ u.state = "Closing" /\ Same(t, u) /\ u.told = Nothing
  BY <1>3 DEF Ready, Pdp, Same, Nothing
<1> HIDE DEF u
<1>5. Asked(u, "ContextDelete") /\ Placed(u)
  BY <1>1, <1>3, <1>4 DEF Asked, Answering1st, Placed, Same, Serving
<1> QED  BY <1>2, <1>4, <1>5, StartsSure, Strategies, Served DEF Says

LEMMA NewFsmContextAnswers ==
  ASSUME AnswerInv, NEW c \in Contexts, NewFsmContext(c) PROVE Answered' /\ Truthful
<1> DEFINE o == pdp[c]
           a == IF c = Primary THEN "PrimaryContextCreated" ELSE "SecondaryContextCreated"
           p == [o EXCEPT !.life = "alive", !.awaited = a]
<1>1. o \in Pdp /\ o.strategy = None /\ o.iContextStatus # "deleted" /\ iErrorCode' = iErrorCode
  BY DEF AnswerInv, PdpInv, InStep, NewFsmContext, Creatable, Sure, Placed
<1>2. \E x \in {"CreatingSecondary", "CreatingPrimary", "OpeningPhone"}, s \in Strategy :
         /\ s \in Serves(x) /\ s # "ContextDelete"
         /\ x = "CreatingSecondary" <=> c # Primary
         /\ \E q \in EtelDriverInput(c, To(p, x), s) : pdp' = [pdp EXCEPT ![c] = q]
  <2>1. /\ "Create2ry" \in Serves("CreatingSecondary") /\ "Create1ry" \in Serves("CreatingPrimary")
        /\ "OpenPhone" \in Serves("OpeningPhone")
        /\ {"Create2ry", "Create1ry", "OpenPhone"} \subseteq Strategy
    BY Served, Strategies
  <2> HIDE DEF p
  <2> QED  BY <2>1 DEF NewFsmContext, Become, p
<1>3. PICK x \in {"CreatingSecondary", "CreatingPrimary", "OpeningPhone"}, s \in Strategy :
         /\ s \in Serves(x) /\ s # "ContextDelete"
         /\ x = "CreatingSecondary" <=> c # Primary
         /\ \E q \in EtelDriverInput(c, To(p, x), s) : pdp' = [pdp EXCEPT ![c] = q]
  BY <1>2
<1>4. PICK q \in EtelDriverInput(c, To(p, x), s) : pdp' = [pdp EXCEPT ![c] = q]
  BY <1>3
<1>5. /\ Ready(p) /\ p.life = "alive" /\ p.awaited = a
      /\ p.iContextStatus = o.iContextStatus /\ p.told = o.told
  <2>1. a \in Event
    BY DEF Event
  <2> HIDE DEF a, o
  <2> QED  BY <1>1, <2>1 DEF Ready, Pdp
<1> HIDE DEF p
<1> DEFINE t == To(p, x)
<1>6. Ready(t) /\ t.state = x /\ Same(p, t) /\ Says(p, t)
  BY <1>3, <1>5, MovesSure DEF State
<1> HIDE DEF t
<1>7. Asked(t, s) /\ Placed(t)
  BY <1>1, <1>3, <1>5, <1>6 DEF Asked, Answering1st, Placed, Same, Says, Serving
<1>8. Sure(q) /\ Says(t, q) /\ q.strategy = s /\ q.state = x
  BY <1>3, <1>4, <1>6, <1>7, StartsSure DEF t
<1>9. TrueAnswer(o, q)
  BY <1>5, <1>6, <1>8, Silent DEF Says
<1> QED  BY <1>1, <1>3, <1>4, <1>8, <1>9, OneAnswer DEF o

\* What a provider may ask for, and what the state that is asked answers.
LEMMA RequestsAsked ==
  ASSUME NEW r \in Requests
  PROVE  /\ \/ /\ r.to \in {"ActivatingSecondary", "SettingQoS", "SettingTFT"}
               /\ r.in = "CreatedSecondary"
            \/ r.to \in {"ChangingQoS", "ChangingTFT", "ModifyingActive", "GettingNegQoS"}
         /\ r.to = "ActivatingSecondary" => r.asks = "Activate"
         /\ r.to \in DOMAIN Serving => r.asks = Serving[r.to].event
         /\ r.in \in {"CreatedSecondary", "Open", "GettingNegQoS"}
         /\ r.starts # None
<1>1. r.starts \in Strategy /\ None \notin Strategy
  BY RequestsServed, NoneAssumption DEF Strategy
<1> QED  BY <1>1 DEF Requests, Serving

\* A provider that awaits nothing asks where no strategy runs.
LEMMA RequestAnswers ==
  ASSUME AnswerInv, NEW c \in Contexts, Request(c) PROVE Answered' /\ Truthful
<1> DEFINE o == pdp[c]
<1>1. PICK r \in Requests :
        /\ r.in = o.state
        /\ Become(c, EtelDriverInput(c, [To(o, r.to) EXCEPT !.awaited = r.asks, !.told = Nothing], r.starts))
  BY DEF Request
<1> DEFINE p == [To(o, r.to) EXCEPT !.awaited = r.asks, !.told = Nothing]
<1>2. /\ InStep(o) /\ o \in Pdp /\ o.life = "alive" /\ o.awaited = None
      /\ Sure(o) /\ iErrorCode' = iErrorCode
  BY DEF AnswerInv, PdpInv, Request
<1>3. PICK q \in EtelDriverInput(c, p, r.starts) : pdp' = [pdp EXCEPT ![c] = q]
  BY <1>1 DEF Become
<1> HIDE DEF o
<1>4. /\ r.to \in State /\ r.asks \in Event /\ r.starts \in Strategy /\ r.starts \in Serves(r.to)
      /\ r.in \in {"CreatedSecondary", "Open", "GettingNegQoS"}
  BY RequestsServed, RequestsAsked
<1>5. o.strategy = None
  <2>1. o.state = "GettingNegQoS" /\ o.strategy # None => o.awaited = "GetNegQoS"
    BY <1>2 DEF Sure, Asked, Serving
  <2>2. "GetNegQoS" # None
    BY NoneAssumption, Strategies DEF Strategy
  <2> QED  BY <1>1, <1>2, <1>4, <2>1, <2>2, Served DEF InStep
<1>6. /\ Ready(p) /\ p.state = r.to /\ p.awaited = r.asks /\ p.told = Nothing /\ Same(o, p)
  BY <1>2, <1>4, <1>5 DEF Ready, Pdp, To, Same, Nothing
<1> HIDE DEF p
<1>7. Asked(p, r.starts)
  BY <1>4, <1>6, RequestsAsked DEF Asked, Answering1st
<1>8. Placed(p)
  <2>1. o.iContextStatus # "deleted" /\ (r.in = "CreatedSecondary" => o.opened)
    BY <1>1, <1>2, <1>4 DEF Sure, Placed
  <2> QED  BY <1>2, <1>6, <2>1, RequestsAsked DEF Placed, Same
<1>9. Sure(q) /\ Says(p, q) /\ q.state = r.to
  BY <1>3, <1>4, <1>6, <1>7, <1>8, StartsSure
<1>10. TrueAnswer(o, q)
  BY <1>6, <1>9, Silent DEF Says
<1>11. q.state # "CreatingSecondary"
  BY <1>9, RequestsAsked
<1> QED  BY <1>2, <1>3, <1>9, <1>10, <1>11, OneAnswer DEF o

LEMMA ContextDeleteAnswers ==
  ASSUME AnswerInv, NEW c \in Contexts, ContextDelete(c) PROVE Answered' /\ Truthful
<1> DEFINE o == pdp[c]
           p == [o EXCEPT !.awaited = "ContextDelete"]
<1>1. o \in Pdp /\ InStep(o) /\ Sure(o) /\ o.life = "alive" /\ iErrorCode' = iErrorCode
  BY DEF AnswerInv, PdpInv, ContextDelete
<1>2. PICK q \in IF p.state = "Closing" THEN {p} ELSE Close(c, p) : pdp' = [pdp EXCEPT ![c] = q]
  BY DEF ContextDelete, Become
<1> HIDE DEF o
<1>3. /\ p \in Pdp /\ Same(o, p) /\ Keeps(o, p) /\ p.told = o.told
      /\ p.step = o.step /\ p.iStatus = o.iStatus
  BY <1>1 DEF Pdp, Same, Keeps, Event
<1> HIDE DEF p
<1>4. Placed(p) /\ p.life # "unused"
  BY <1>1, <1>3 DEF Sure, Placed, Same, Keeps
<1>5. Sure(q) /\ q.state = "Closing" /\ q.told \in {o.told, Nothing}
  <2>1. CASE p.state = "Closing"
    <3>1. q = p
      BY <1>2, <2>1
    <3>2. Asked(p, p.strategy)
      BY <2>1 DEF Asked, Answering1st, Serving
    <3>3. Opens(p) /\ Watches(p) /\ Deletes(p)
      BY <1>1, <1>3 DEF Sure, Opens, Watches, Deletes, Keeps, Same
    <3> QED  BY <1>3, <1>4, <2>1, <3>1, <3>2, <3>3 DEF Sure
  <2>2. CASE p.state # "Closing"
    BY <1>2, <1>3, <1>4, <2>2, ClosesSure
  <2> QED  BY <2>1, <2>2
<1>6. TrueAnswer(o, q)
  BY <1>5, Silent
<1> QED  BY <1>1, <1>2, <1>5, <1>6, OneAnswer DEF o

LEMMA DeleteFsmContextAnswers ==
  ASSUME AnswerInv, NEW c \in Contexts, DeleteFsmContext(c) PROVE Answered' /\ Truthful
<1> DEFINE q == [New EXCEPT !.life = "freed"]
<1>1. /\ q.strategy = None /\ q.state = "Initialised" /\ q.life = "freed" /\ q.told = Nothing
      /\ q.iContextStatus = "unknown"
  BY DEF New
<1>2. pdp' = [pdp EXCEPT ![c] = q] /\ iErrorCode' = iErrorCode
  BY DEF DeleteFsmContext
<1> HIDE DEF q
<1>3. Asked(q, None) /\ Placed(q)
  BY <1>1 DEF Asked, Answering1st, Placed, Serving
<1>4. Sure(q)
  BY <1>1, <1>3, RestsSure
<1>5. TrueAnswer(pdp[c], q)
  BY <1>1, Silent
<1> QED  BY <1>1, <1>2, <1>4, <1>5, OneAnswer

\* A step of the TSY or the network leaves what was asked as it is.
LEMMA OutsideSure ==
  ASSUME NEW p, NEW q, Sure(p), Stepping(p), Keeps(p, q), Says(p, q), Same(p, q), q.step = p.step,
         \/ q.iStatus = p.iStatus
         \/ p.iStatus = "pending" /\ q.iStatus \in {"none", "error"}
         \/ p.step = "notifyStatusChange"
  PROVE  Sure(q) /\ TrueAnswer(p, q)
<1>1. Asked(q, q.strategy) /\ Placed(q) /\ Deletes(q)
  BY DEF Sure, Asked, Placed, Deletes, Keeps, Says, Same
<1>2. Opens(q)
  <2>1. p.strategy \in Creates => p.step # "notifyStatusChange"
    <3>1. \A s \in Creates : s # None
      BY NoneAssumption, Strategies DEF Strategy, Creates
    <3> QED  BY <3>1, CreationSteps DEF Stepping, Creates
  <2> QED  BY <2>1 DEF Sure, Opens, Keeps, Same
<1>3. Watches(q)
  BY DEF Sure, Watches, Keeps, Same
<1> QED  BY <1>1, <1>2, <1>3, Silent DEF Sure, Says

LEMMA CompleteAnswers ==
  ASSUME AnswerInv, NEW c \in Contexts, Complete(c) PROVE Answered' /\ Truthful
<1> DEFINE p == pdp[c]
<1>1. /\ InStep(p) /\ p \in Pdp /\ Sure(p) /\ p.iStatus = "pending" /\ iErrorCode' = iErrorCode
  BY DEF AnswerInv, PdpInv, Complete
<1> DEFINE Left(q) == /\ pdp' = [pdp EXCEPT ![c] = q] /\ q.iStatus \in {"none", "error"}
                      /\ Keeps(p, q) /\ Says(p, q) /\ Same(p, q) /\ q.step = p.step
<1>2. \E q : Left(q)
  <2>1. ASSUME NEW n, pdp' = [pdp EXCEPT ![c].iStatus = "none", ![c].network = n]
        PROVE  \E q : Left(q)
    <3> DEFINE q == [p EXCEPT !.iStatus = "none", !.network = n]
    <3>1. pdp' = [pdp EXCEPT ![c] = q]
      BY <2>1 DEF AnswerInv, PdpInv, Pdp
    <3>2. /\ q.iStatus = "none" /\ Keeps(p, q) /\ Says(p, q) /\ Same(p, q) /\ q.step = p.step
      BY <1>1 DEF Pdp, Keeps, Says, Same
    <3> QED  BY <3>1, <3>2
  <2>2. ASSUME pdp' = [pdp EXCEPT ![c].iStatus = "error"] 
        PROVE  \E q : Left(q)
    <3> DEFINE q == [p EXCEPT !.iStatus = "error"]
    <3>1. pdp' = [pdp EXCEPT ![c] = q]
      BY <2>2 DEF AnswerInv, PdpInv, Pdp
    <3>2. /\ q.iStatus = "error" /\ Keeps(p, q) /\ Says(p, q) /\ Same(p, q) /\ q.step = p.step
      BY <1>1 DEF Pdp, Keeps, Says, Same
    <3> QED  BY <3>1, <3>2
  <2> QED  BY <2>1, <2>2 DEF Complete
<1>3. PICK q : Left(q)
  BY <1>2
<1>4. Sure(q) /\ TrueAnswer(p, q)
  BY <1>1, <1>3, OutsideSure DEF InStep
<1>5. q.state = "CreatingSecondary" =>
        c # Primary /\ (q.strategy = "ContextDelete" => iErrorCode = "error")
  BY <1>3 DEF AnswerInv, ErrorKept, Keeps
<1> QED  BY <1>1, <1>3, <1>4, <1>5, OneAnswer

LEMMA NetworkChangeAnswers ==
  ASSUME AnswerInv, NEW c \in Contexts, NetworkChange(c) PROVE Answered' /\ Truthful
<1> DEFINE p == pdp[c]
<1>1. InStep(p) /\ p \in Pdp /\ Sure(p) /\ iErrorCode' = iErrorCode
  BY DEF AnswerInv, PdpInv, NetworkChange
<1>2. PICK n \in Moves[p.network] :
        pdp' = [pdp EXCEPT ![c] =
          [p EXCEPT !.network = n,
                    !.iStatus = IF p.step = "notifyStatusChange" THEN "none" ELSE p.iStatus,
                    !.changes = IF p.watching THEN Append(p.changes, n) ELSE p.changes]]
  BY DEF NetworkChange
<1> DEFINE x == IF p.step = "notifyStatusChange" THEN "none" ELSE p.iStatus
           y == IF p.watching THEN Append(p.changes, n) ELSE p.changes
           q == [p EXCEPT !.network = n, !.iStatus = x, !.changes = y]
<1>3. pdp' = [pdp EXCEPT ![c] = q]
  BY <1>2
<1>4. x = p.iStatus \/ p.step = "notifyStatusChange"
  OBVIOUS
<1> HIDE DEF p, x, y
<1>5. Keeps(p, q) /\ Says(p, q) /\ Same(p, q) /\ q.step = p.step /\ q.iStatus = x
  BY <1>1 DEF Pdp, Keeps, Says, Same
<1> HIDE DEF q
<1>6. Sure(q) /\ TrueAnswer(p, q)
  BY <1>1, <1>4, <1>5, OutsideSure DEF InStep
<1>7. q.state = "CreatingSecondary" =>
        c # Primary /\ (q.strategy = "ContextDelete" => iErrorCode = "error")
  BY <1>5 DEF AnswerInv, ErrorKept, Keeps, p
<1> QED  BY <1>1, <1>3, <1>6, <1>7, OneAnswer DEF p

\* A new status closes the context or tells its provider, who awaits nothing.
LEMMA NotifyAnswers ==
  ASSUME AnswerInv, NEW c \in Contexts, Notify(c) PROVE Answered' /\ Truthful
<1> DEFINE p == pdp[c]
           status == Head(p.changes)
           more == Tail(p.changes)
           w == status # "deleted"
           q == [p EXCEPT !.changes = more, !.iContextStatus = status, !.watching = w]
<1>1. /\ InStep(p) /\ p \in Pdp /\ p.changes # <<>> /\ p.life # "unused" /\ p.watching
      /\ Sure(p) /\ iErrorCode' = iErrorCode
  BY DEF AnswerInv, PdpInv, Notify, InStep
<1>2. PICK r \in IF status = p.iContextStatus THEN {q} ELSE StatusChange(c, q) :
        pdp' = [pdp EXCEPT ![c] = r]
  BY DEF Notify, Become
<1> HIDE DEF p
<1>3. status \in Status /\ more \in Seq(Status) /\ w \in BOOLEAN /\ (w <=> status # "deleted")
  <2>1. p.changes \in Seq(Status)
    BY <1>1 DEF Pdp
  <2> QED  BY <1>1, <2>1
<1> HIDE DEF status, more, w
<1>4. /\ q \in Pdp /\ Keeps(p, q) /\ Says(p, q) /\ q.opened = p.opened
      /\ q.iContextStatus = status /\ q.watching = w /\ q.step = p.step /\ q.iStatus = p.iStatus
  BY <1>1, <1>3 DEF Pdp, Keeps, Says
<1> HIDE DEF q
<1>5. Asked(q, q.strategy)
  BY <1>1, <1>4 DEF Sure, Asked, Keeps, Says
<1>6. p.strategy # "ContextDelete"
  BY <1>1 DEF Sure, Deletes
<1>7. /\ q.life # "unused"
      /\ status # "deleted" \/ status = p.iContextStatus \/ q.state = "Initialised" => Placed(q)
  BY <1>1, <1>4 DEF Sure, Placed, Keeps
<1>8. CASE status = "deleted" /\ status # p.iContextStatus /\ q.state # "Initialised"
  <2>1. r \in Close(c, q)
    <3>1. StatusChange(c, q) = Close(c, q)
      BY <1>4, <1>8 DEF StatusChange
    <3> QED  BY <1>2, <1>8, <3>1 DEF p
  <2>2. Sure(r) /\ r.state = "Closing" /\ r.told = Nothing
    BY <1>4, <1>7, <2>1, ClosesSure
  <2>3. TrueAnswer(p, r)
    BY <2>2, Silent
  <2> QED  BY <1>1, <1>2, <2>2, <2>3, OneAnswer DEF p
<1>9. CASE status # "deleted" \/ status = p.iContextStatus \/ q.state = "Initialised"
  <2>1. Watches(q) /\ Opens(q) /\ Deletes(q)
    <3>1. status = "deleted" => p.state \in {"Closing", "Initialised"}
      BY <1>1, <1>4, <1>9 DEF Sure, Placed, Keeps
    <3>2. p.strategy = "ActivatePdp" => q.watching
      <4>1. p.strategy = "ActivatePdp" => p.state \notin {"Closing", "Initialised"}
        BY <1>1, NoneAssumption, Strategies, Served DEF Strategy, InStep
      <4> QED  BY <1>3, <1>4, <3>1, <4>1
    <3>3. Opens(q)
      BY <1>1, <1>4 DEF Sure, Opens, Keeps
    <3> QED  BY <1>4, <1>6, <3>2, <3>3 DEF Watches, Deletes, Keeps
  <2>2. Sure(q)
    BY <1>5, <1>7, <1>9, <2>1 DEF Sure
  <2>3. CASE r = q
    <3>1. TrueAnswer(p, q)
      BY <1>4, Silent DEF Says
    <3>2. q.state = "CreatingSecondary" =>
            c # Primary /\ (q.strategy = "ContextDelete" => iErrorCode = "error")
      BY <1>4 DEF AnswerInv, ErrorKept, Keeps, p
    <3> QED  BY <1>1, <1>2, <2>2, <2>3, <3>1, <3>2, OneAnswer DEF p
  <2>4. ASSUME NEW to \in {"Open", "Suspended"}, q.state \in {"Open", "Suspended"},
               NEW event \in {"ContextBlocked", "ContextUnblocked", "ContextParametersChange"},
               r = SpudManNotify(To(q, to), event, FALSE)
        PROVE  Answered' /\ Truthful
    <3> DEFINE t == To(q, to)
               u == SpudManNotify(t, event, FALSE)
    <3>1. q.strategy = None /\ q.awaited = None /\ Ready(q)
      <4>1. q.strategy = None
        BY <1>1, <1>4, <2>4, Served DEF InStep, Keeps
      <4> QED  BY <1>4, <1>5, <2>4, <4>1 DEF Asked, Ready
    <3>2. Ready(t) /\ t.state = to /\ Same(q, t)
      BY <3>1, MovesSure DEF State
    <3> HIDE DEF t
    <3>3. Placed(t)
      BY <1>7, <1>9, <2>4, <3>2 DEF Placed, Same
    <3>4. Sure(u) /\ u.state = to /\ u.told = [event |-> event, error |-> FALSE]
      BY <3>2, <3>3, TellsSure
    <3>5. r = u
      BY <2>4 DEF t
    <3> HIDE DEF u
    <3>6. TrueAnswer(p, u)
      BY <1>4, <3>1, <3>4 DEF TrueAnswer, Says
    <3> QED  BY <1>1, <1>2, <3>4, <3>5, <3>6, OneAnswer DEF p
  <2>5. q.state = "Open" => To(q, "Open") = q
    BY <1>4 DEF To, Pdp
  <2> QED  BY <1>2, <1>4, <1>9, <2>3, <2>4, <2>5 DEF StatusChange
<1> QED  BY <1>8, <1>9

LEMMA InitAnswers == Init => AnswerInv
<1> SUFFICES ASSUME Init PROVE AnswerInv
  OBVIOUS
<1>1. PdpInv /\ \A c \in Contexts : pdp[c] = New
  BY InitInStep DEF Init
<1>2. New.strategy = None /\ New.state = "Initialised" /\ New.iContextStatus = "unknown"
  BY DEF New
<1>3. Asked(New, None) /\ Placed(New)
  BY <1>2 DEF Asked, Answering1st, Placed, Serving
<1>4. Sure(New)
  BY <1>2, <1>3, RestsSure
<1> QED  BY <1>1, <1>2, <1>4 DEF AnswerInv, ErrorKept

\* What a provider is told is so, for one secondary context, any number of changes of
\* status, and whatever is refused, fails or is cancelled.
THEOREM AnswersAlwaysTrue == ASSUME OneSecondary PROVE Spec => AnswersAreTrue
<1>1. AnswerInv /\ [Next]_vars => Answered' /\ Truthful
  <2> SUFFICES ASSUME AnswerInv, [Next]_vars PROVE Answered' /\ Truthful
    OBVIOUS
  <2>1. ASSUME NEW c \in Contexts, DriverRuns(c) PROVE Answered' /\ Truthful
    BY <2>1, RunLAnswers, OpeningPhoneAnswers, CreatingPrimaryAnswers, ActivatingPrimaryAnswers,
       CreatingSecondaryAnswers, SecondaryDeletedAnswers, ActivatingSecondaryAnswers,
       AnsweringAnswers, DeletedAnswers DEF DriverRuns
  <2>2. ASSUME NEW c \in Contexts,
               NewFsmContext(c) \/ Request(c) \/ ContextDelete(c) \/ DeleteFsmContext(c)
        PROVE  Answered' /\ Truthful
    BY <2>2, NewFsmContextAnswers, RequestAnswers, ContextDeleteAnswers, DeleteFsmContextAnswers
  <2>3. ASSUME NEW c \in Contexts, Notify(c) \/ Complete(c) \/ NetworkChange(c)
        PROVE  Answered' /\ Truthful
    BY <2>3, NotifyAnswers, CompleteAnswers, NetworkChangeAnswers
  <2>4. CASE UNCHANGED vars
    BY <2>4 DEF vars, AnswerInv, Answered, Truthful, ErrorKept, TrueAnswer
  <2> QED  BY <2>1, <2>2, <2>3, <2>4 DEF Next
<1>2. AnswerInv /\ [Next]_vars => AnswerInv'
  BY <1>1, PdpKept DEF AnswerInv, Answered
<1>3. Truthful => [\A c \in Contexts :
          LET told == pdp'[c].told IN
          told # pdp[c].told /\ told # Nothing =>
            /\ pdp[c].awaited \in {None, told.event} \/ told.event = "ContextDelete"
            /\ told.event \in {"SecondaryContextCreated", "Activate", "PrimaryContextCreated"}
                 /\ ~told.error => pdp'[c].opened
            /\ told.event \in {"Activate", "PrimaryContextCreated"} /\ ~told.error
                 => pdp'[c].watching
            /\ told.event = "ContextDelete" =>
                 ~pdp'[c].opened /\ ~pdp'[c].watching /\ pdp'[c].strategy = None]_vars
  BY DEF Truthful, TrueAnswer
<1> QED  BY InitAnswers, <1>1, <1>2, <1>3, PTL DEF Spec, AnswersAreTrue
=============================================================================
