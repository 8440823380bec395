------------------------ MODULE SmsDiskMonitorProofs ------------------------
(***************************************************************************)
(* Proofs about SmsDiskMonitor, for every size of the disk, every pair of  *)
(* limits and every set of faults.                                         *)
(***************************************************************************)
EXTENDS SmsDiskMonitor, TLAPS

\* What a request for a notification leaves behind.
LEMMA NotifyStep ==
  ASSUME NEW s \in {"MonitorLowLimit", "MonitorHighLimit"}, NotifyDiskSpace(s)
  PROVE  /\ free' \in Level /\ state' = s /\ request' \in {"placed", "done"}
         /\ "read_error" \notin Fault /\ request' = "placed" => free' <= Limit(s)
<1> PICK f \in Level, g \in Level : \E seen \in GetFreeDiskSpace(g) :
      /\ free' = g /\ state' = s
      /\ request' = IF seen > Limit(s) \/ Crosses(f, g, Limit(s)) THEN "done" ELSE "placed"
  BY DEF NotifyDiskSpace
<1> PICK seen \in GetFreeDiskSpace(g) :
      /\ free' = g /\ state' = s
      /\ request' = IF seen > Limit(s) \/ Crosses(f, g, Limit(s)) THEN "done" ELSE "placed"
  OBVIOUS
<1>1. free' \in Level /\ state' = s /\ request' \in {"placed", "done"}
  OBVIOUS
<1>2. ASSUME "read_error" \notin Fault, request' = "placed" PROVE free' <= Limit(s)
  <2>1. seen = g
    BY <1>2 DEF GetFreeDiskSpace
  <2>2. Limit(s) \in Nat /\ g \in Nat
    BY LimitAssumption DEF Limit, Level
  <2> QED  BY <1>2, <2>1, <2>2
<1> QED  BY <1>1, <1>2

LEMMA MonitorTypeStep == MonitorTypeOK /\ [Next]_vars => MonitorTypeOK'
<1> SUFFICES ASSUME MonitorTypeOK, [Next]_vars PROVE MonitorTypeOK'
  OBVIOUS
<1> USE DEF MonitorTypeOK
<1>1. ASSUME NEW c \in Class, CheckDiskSpaceForPDU(c) PROVE MonitorTypeOK'
  <2>1. /\ on' = on /\ nackdClass' = nackdClass \cup {c}
        /\ held' = held \cup {c} /\ lost' = lost \ {c}
    BY <1>1 DEF CheckDiskSpaceForPDU
  <2>2. /\ free' \in Level /\ request' \in {"none", "placed", "done", "failed"}
        /\ state' \in {"Idle", "MonitorLowLimit", "MonitorHighLimit", "ResumeReception"}
    BY <1>1, NotifyStep DEF CheckDiskSpaceForPDU
  <2> QED  BY <2>1, <2>2
<1>2. CASE Notified
  <2>1. on' = on
    BY <1>2 DEF Notified
  <2> PICK f \in GetFreeDiskSpace(free) :
       \/ f >= Limit(state) /\ ResumeSmsReception
       \/ /\ f < Limit(state) /\ request = "done"
          /\ NotifyDiskSpace(state) /\ UNCHANGED <<nackdClass, held, lost>>
       \/ /\ f < Limit(state) /\ request = "failed"
          /\ state' = "Idle" /\ request' = "none" /\ lost' = held
          /\ UNCHANGED <<free, nackdClass, held>>
    BY <1>2 DEF Notified
  <2>2. CASE ResumeSmsReception
    BY <2>1, <2>2 DEF ResumeSmsReception
  <2>3. CASE NotifyDiskSpace(state) /\ UNCHANGED <<nackdClass, held, lost>>
    BY <1>2, <2>1, <2>3, NotifyStep DEF Notified, Monitoring
  <2>4. CASE /\ state' = "Idle" /\ request' = "none" /\ lost' = held
             /\ UNCHANGED <<free, nackdClass, held>>
    BY <2>1, <2>4
  <2> QED  BY <2>2, <2>3, <2>4
<1>3. CASE ResumeDone
  <2>1. UNCHANGED <<on, nackdClass, held, lost>>
    BY <1>3 DEF ResumeDone
  <2>2. /\ free' \in Level /\ request' \in {"none", "placed", "done", "failed"}
        /\ state' \in {"Idle", "MonitorLowLimit", "MonitorHighLimit", "ResumeReception"}
    BY <1>3, NotifyStep DEF ResumeDone
  <2> QED  BY <2>1, <2>2
<1>4. CASE PowerDown
  BY <1>4 DEF PowerDown
<1>5. CASE PowerUp
  BY <1>5 DEF PowerUp
<1>6. CASE SpaceChanges
  BY <1>6 DEF SpaceChanges
<1>7. CASE NotifyFails
  BY <1>7 DEF NotifyFails
<1>8. CASE UNCHANGED vars
  BY <1>8 DEF vars
<1> QED  BY <1>1, <1>2, <1>3, <1>4, <1>5, <1>6, <1>7, <1>8 DEF Next

\* The type invariant of the monitor holds in every reachable state.
THEOREM MonitorTypeCorrect == Spec => []MonitorTypeOK
<1>1. Init => MonitorTypeOK
  BY DEF Init, MonitorTypeOK
<1> QED  BY <1>1, MonitorTypeStep, PTL DEF Spec

-----------------------------------------------------------------------------
LEMMA WatchedStep ==
  MonitorTypeOK /\ RefusedIsWatched /\ [Next]_vars => RefusedIsWatched'
<1> SUFFICES ASSUME MonitorTypeOK, RefusedIsWatched, [Next]_vars PROVE RefusedIsWatched'
  OBVIOUS
<1> USE DEF RefusedIsWatched, Waiting
<1>0. /\ nackdClass \subseteq Class /\ held \subseteq Class /\ lost \subseteq Class
      /\ state \in {"Idle", "MonitorLowLimit", "MonitorHighLimit", "ResumeReception"}
  BY DEF MonitorTypeOK
<1>1. ASSUME NEW c \in Class, CheckDiskSpaceForPDU(c) PROVE RefusedIsWatched'
  <2>1. /\ on /\ on' = on /\ nackdClass' = nackdClass \cup {c}
        /\ held' = held \cup {c} /\ lost' = lost \ {c}
    BY <1>1 DEF CheckDiskSpaceForPDU
  <2>2. Waiting' = Waiting \cup {c}
    BY <2>1
  <2> PICK f \in GetFreeDiskSpace(free) :
       /\ ~EnoughFor(c, f)
       /\ \/ /\ Monitors(f)
             /\ NotifyDiskSpace(IF f < LowLimit THEN "MonitorLowLimit" ELSE "MonitorHighLimit")
          \/ ~Monitors(f) /\ UNCHANGED <<free, state, request>>
    BY <1>1 DEF CheckDiskSpaceForPDU
  <2>3. f \in Int
    BY DEF GetFreeDiskSpace, MonitorTypeOK, Level
  <2>4. ~(f < LowLimit) => c = "other"
    BY <2>3, LimitAssumption DEF EnoughFor, Class
  <2>5. CASE Monitors(f) /\ f < LowLimit
    BY <2>5, NotifyStep
  <2>6. CASE Monitors(f) /\ ~(f < LowLimit)
    <3>1. state' = "MonitorHighLimit"
      BY <2>6, NotifyStep
    <3>2. Waiting = {}
      BY <2>1, <2>6 DEF Monitors
    <3> QED  BY <3>1, <3>2, <2>2, <2>4, <2>6
  <2>7. CASE ~Monitors(f)
    <3>1. state' = state /\ state # "Idle" /\ (state = "MonitorHighLimit" => c = "other")
      BY <2>7, <2>4 DEF Monitors
    <3>2. CASE state = "MonitorHighLimit"
      <4>1. Waiting \subseteq {"other"}
        BY <3>2, <2>1
      <4> QED  BY <4>1, <3>1, <3>2, <2>2
    <3>3. CASE state = "ResumeReception"
      <4>1. Waiting \subseteq nackdClass
        BY <3>3, <2>1
      <4> QED  BY <4>1, <3>1, <3>3, <2>1, <2>2
    <3> QED  BY <1>0, <3>1, <3>2, <3>3
  <2> QED  BY <2>5, <2>6, <2>7
<1>2. CASE Notified
  <2> PICK f \in GetFreeDiskSpace(free) :
       \/ f >= Limit(state) /\ ResumeSmsReception
       \/ /\ f < Limit(state) /\ request = "done"
          /\ NotifyDiskSpace(state) /\ UNCHANGED <<nackdClass, held, lost>>
       \/ /\ f < Limit(state) /\ request = "failed"
          /\ state' = "Idle" /\ request' = "none" /\ lost' = held
          /\ UNCHANGED <<free, nackdClass, held>>
    BY <1>2 DEF Notified
  <2>1. CASE ResumeSmsReception
    BY <2>1 DEF ResumeSmsReception
  <2>2. CASE NotifyDiskSpace(state) /\ UNCHANGED <<nackdClass, held, lost>>
    <3>1. state' = state /\ state # "ResumeReception" /\ on' = on
      BY <1>2, <2>2, NotifyStep DEF Notified, Monitoring
    <3> QED  BY <3>1, <2>2
  <2>3. CASE lost' = held /\ held' = held
    BY <2>3
  <2> QED  BY <2>1, <2>2, <2>3
<1>3. CASE ResumeDone
  <2>1. /\ state = "ResumeReception" /\ UNCHANGED <<on, nackdClass, held, lost>>
    BY <1>3 DEF ResumeDone
  <2>2. on => Waiting \subseteq nackdClass
    BY <2>1
  <2>3. CASE "zero" \in nackdClass /\ NotifyDiskSpace("MonitorLowLimit")
    BY <2>3, NotifyStep
  <2>4. CASE nackdClass = {"other"} /\ NotifyDiskSpace("MonitorHighLimit")
    <3>1. state' = "MonitorHighLimit"
      BY <2>4, NotifyStep
    <3> QED  BY <3>1, <2>1, <2>2, <2>4
  <2>5. CASE nackdClass = {}
    BY <2>1, <2>2, <2>5
  <2> QED  BY <1>3, <2>3, <2>4, <2>5 DEF ResumeDone
<1>4. CASE PowerDown
  BY <1>4 DEF PowerDown
<1>5. CASE PowerUp
  BY <1>5 DEF PowerUp
<1>6. CASE SpaceChanges
  BY <1>6 DEF SpaceChanges
<1>7. CASE NotifyFails
  BY <1>7 DEF NotifyFails
<1>8. CASE UNCHANGED vars
  BY <1>8 DEF vars
<1> QED  BY <1>1, <1>2, <1>3, <1>4, <1>5, <1>6, <1>7, <1>8 DEF Next

\* Whatever fails and whatever the space does, a PDU that has been refused is watched
\* for, or its loss is known: the flags of the two classes cover each other's gaps.
THEOREM RefusedAlwaysWatched == Spec => []RefusedIsWatched
<1>1. Init => RefusedIsWatched
  BY DEF Init, RefusedIsWatched, Waiting
<1> QED  BY <1>1, WatchedStep, MonitorTypeCorrect, PTL DEF Spec

-----------------------------------------------------------------------------
LEMMA AwakeStep ==
  ASSUME "read_error" \notin Fault
  PROVE  MonitorTypeOK /\ MonitorTypeOK' /\ NoSleepAboveLimit /\ [Next]_vars
           => NoSleepAboveLimit'
<1> SUFFICES ASSUME MonitorTypeOK, MonitorTypeOK', NoSleepAboveLimit, [Next]_vars
             PROVE  NoSleepAboveLimit'
  OBVIOUS
<1> USE DEF NoSleepAboveLimit
<1>0. ASSUME NEW s \in {"MonitorLowLimit", "MonitorHighLimit"}, NotifyDiskSpace(s)
      PROVE  NoSleepAboveLimit'
  <2>1. state' = s /\ (request' = "placed" => free' <= Limit(s))
    BY <1>0, NotifyStep
  <2> QED  BY <2>1 DEF Limit
<1>1. ASSUME NEW c \in Class, CheckDiskSpaceForPDU(c) PROVE NoSleepAboveLimit'
  <2>1. CASE UNCHANGED <<free, state, request>>
    BY <2>1 DEF Monitoring, Limit
  <2>2. CASE \E f \in GetFreeDiskSpace(free) :
               NotifyDiskSpace(IF f < LowLimit THEN "MonitorLowLimit" ELSE "MonitorHighLimit")
    BY <2>2, <1>0
  <2> QED  BY <1>1, <2>1, <2>2 DEF CheckDiskSpaceForPDU
<1>2. CASE Notified
  BY <1>2, <1>0 DEF Notified, ResumeSmsReception, Monitoring
<1>3. CASE ResumeDone
  BY <1>3, <1>0 DEF ResumeDone, Monitoring
<1>4. CASE PowerDown
  BY <1>4 DEF PowerDown, Monitoring
<1>5. CASE PowerUp
  BY <1>5 DEF PowerUp, Monitoring, Limit
<1>6. CASE SpaceChanges
  <2>1. state' = state /\ Monitoring' = Monitoring /\ Limit(state)' = Limit(state)
    BY <1>6 DEF SpaceChanges, Monitoring, Limit
  <2>2. Limit(state) \in Nat /\ free \in Nat /\ free' \in Nat
    BY LimitAssumption DEF Limit, MonitorTypeOK, Level
  <2>3. CASE Monitoring /\ request = "placed"
    BY <1>6, <2>1, <2>2, <2>3 DEF SpaceChanges, Crosses
  <2>4. CASE ~(Monitoring /\ request = "placed")
    BY <1>6, <2>1, <2>4 DEF SpaceChanges
  <2> QED  BY <2>3, <2>4
<1>7. CASE NotifyFails
  BY <1>7 DEF NotifyFails
<1>8. CASE UNCHANGED vars
  BY <1>8 DEF vars, Monitoring, Limit
<1> QED  BY <1>1, <1>2, <1>3, <1>4, <1>5, <1>6, <1>7, <1>8 DEF Next

\* If the free space can be read, the monitor never waits for an increase that has
\* happened, however the space moves between its looks and its requests.
THEOREM NeverSleepsAboveLimit ==
  ASSUME "read_error" \notin Fault
  PROVE  Spec => []NoSleepAboveLimit
<1>1. Init => NoSleepAboveLimit
  BY DEF Init, NoSleepAboveLimit
<1>2. MonitorTypeOK /\ MonitorTypeOK' /\ NoSleepAboveLimit /\ [Next]_vars
        => NoSleepAboveLimit'
  BY AwakeStep
<1> QED  BY <1>1, <1>2, MonitorTypeCorrect, PTL DEF Spec

-----------------------------------------------------------------------------
\* A notification only fails where the faults allow it.
FailureAllowed == request = "failed" => "notify_error" \in Fault

LEMMA FailureStep == MonitorTypeOK /\ FailureAllowed /\ [Next]_vars => FailureAllowed'
<1> SUFFICES ASSUME MonitorTypeOK, FailureAllowed, [Next]_vars PROVE FailureAllowed'
  OBVIOUS
<1> USE DEF FailureAllowed
<1>1. ASSUME NEW s \in {"MonitorLowLimit", "MonitorHighLimit"}, NotifyDiskSpace(s)
      PROVE  FailureAllowed'
  BY <1>1, NotifyStep
<1>2. CASE \E c \in Class : CheckDiskSpaceForPDU(c)
  BY <1>1, <1>2 DEF CheckDiskSpaceForPDU
<1>3. CASE Notified
  BY <1>1, <1>3 DEF Notified, ResumeSmsReception, Monitoring
<1>4. CASE ResumeDone
  BY <1>1, <1>4 DEF ResumeDone
<1>5. CASE PowerDown \/ PowerUp \/ SpaceChanges \/ NotifyFails \/ UNCHANGED vars
  BY <1>5 DEF PowerDown, PowerUp, SpaceChanges, NotifyFails, vars
<1> QED  BY <1>2, <1>3, <1>4, <1>5 DEF Next

LEMMA WatchStep ==
  MonitorTypeOK /\ FailureAllowed /\ [Next]_vars
    => [Watch!Next]_<<IF Monitoring THEN "Monitor"
                      ELSE IF state = "ResumeReception" THEN "Resume" ELSE "Idle",
                      nackdClass # {}, held # {}>>
<1> DEFINE monitor == IF Monitoring THEN "Monitor"
                      ELSE IF state = "ResumeReception" THEN "Resume" ELSE "Idle"
           nackd == nackdClass # {}
           isHeld == held # {}
<1> SUFFICES ASSUME MonitorTypeOK, FailureAllowed, [Next]_vars
             PROVE  Watch!Next \/ UNCHANGED <<monitor, nackd, isHeld>>
  OBVIOUS
<1>0. ASSUME NEW s \in {"MonitorLowLimit", "MonitorHighLimit"}, NotifyDiskSpace(s)
      PROVE  monitor' = "Monitor"
  BY <1>0, NotifyStep DEF Monitoring
<1>1. ASSUME NEW c \in Class, CheckDiskSpaceForPDU(c) PROVE Watch!Refused
  <2>1. nackd' = TRUE /\ isHeld' = TRUE
    BY <1>1 DEF CheckDiskSpaceForPDU
  <2>2. monitor' = IF monitor = "Idle" THEN "Monitor" ELSE monitor
    <3>1. CASE UNCHANGED state /\ state # "Idle"
      BY <3>1 DEF Monitoring, MonitorTypeOK
    <3>2. CASE /\ state \in {"Idle", "MonitorHighLimit"}
               /\ \E f \in GetFreeDiskSpace(free) :
                    NotifyDiskSpace(IF f < LowLimit THEN "MonitorLowLimit"
                                                    ELSE "MonitorHighLimit")
      <4>1. monitor' = "Monitor"
        BY <3>2, <1>0
      <4> QED  BY <4>1, <3>2 DEF Monitoring
    <3> QED  BY <1>1, <3>1, <3>2 DEF CheckDiskSpaceForPDU, Monitors
  <2> QED  BY <2>1, <2>2 DEF Watch!Refused
<1>2. CASE Notified
  <2>1. monitor = "Monitor"
    BY <1>2 DEF Notified
  <2> PICK f \in GetFreeDiskSpace(free) :
       \/ f >= Limit(state) /\ ResumeSmsReception
       \/ /\ f < Limit(state) /\ request = "done"
          /\ NotifyDiskSpace(state) /\ UNCHANGED <<nackdClass, held, lost>>
       \/ /\ f < Limit(state) /\ request = "failed"
          /\ state' = "Idle" /\ request' = "none" /\ lost' = held
          /\ UNCHANGED <<free, nackdClass, held>>
    BY <1>2 DEF Notified
  <2>2. CASE ResumeSmsReception
    <3>1. monitor' = "Resume" /\ nackd' = FALSE
      BY <2>2 DEF ResumeSmsReception, Monitoring
    <3>2. isHeld' = FALSE \/ ("resume_error" \in Fault /\ isHeld' = isHeld)
      BY <2>2 DEF ResumeSmsReception
    <3> QED  BY <2>1, <3>1, <3>2 DEF Watch!SpaceFreed, Watch!Next
  <2>3. CASE NotifyDiskSpace(state) /\ UNCHANGED <<nackdClass, held, lost>>
    <3>1. monitor' = "Monitor"
      BY <1>2, <2>3, <1>0 DEF Notified, Monitoring
    <3> QED  BY <2>1, <2>3, <3>1
  <2>4. CASE /\ request = "failed" /\ state' = "Idle"
             /\ UNCHANGED <<free, nackdClass, held>>
    <3>1. monitor' = "Idle" /\ UNCHANGED <<nackd, isHeld>>
      BY <2>4 DEF Monitoring
    <3> QED  BY <2>1, <2>4, <3>1 DEF FailureAllowed, Watch!NotifyFailed, Watch!Next
  <2> QED  BY <2>2, <2>3, <2>4
<1>3. CASE ResumeDone
  <2>1. monitor = "Resume" /\ UNCHANGED <<nackd, isHeld>>
    BY <1>3 DEF ResumeDone, Monitoring
  <2>2. monitor' = IF nackd THEN "Monitor" ELSE "Idle"
    <3>1. CASE "zero" \in nackdClass /\ NotifyDiskSpace("MonitorLowLimit")
      BY <3>1, <1>0
    <3>2. CASE nackdClass = {"other"} /\ NotifyDiskSpace("MonitorHighLimit")
      BY <3>2, <1>0
    <3>3. CASE nackdClass = {} /\ state' = "Idle"
      BY <3>3 DEF Monitoring
    <3> QED  BY <1>3, <3>1, <3>2, <3>3 DEF ResumeDone
  <2> QED  BY <2>1, <2>2 DEF Watch!ResumeDone, Watch!Next
<1>4. CASE PowerDown
  <2>1. monitor' = "Idle" /\ UNCHANGED <<nackd, isHeld>>
    BY <1>4 DEF PowerDown, Monitoring
  <2> QED  BY <2>1 DEF Watch!Cancelled, Watch!Next
<1>5. CASE PowerUp
  <2>1. isHeld' = FALSE /\ UNCHANGED <<monitor, nackd>>
    BY <1>5 DEF PowerUp, Monitoring
  <2> QED  BY <2>1 DEF Watch!Released, Watch!Next
<1>6. CASE SpaceChanges \/ NotifyFails \/ UNCHANGED vars
  BY <1>6 DEF SpaceChanges, NotifyFails, vars, Monitoring
<1> QED  BY <1>1, <1>2, <1>3, <1>4, <1>5, <1>6 DEF Next, Watch!Next

\* The monitor, with its two limits, its two flags and a disk that moves under it,
\* implements the steps the model of the PDU reader is built on.
THEOREM MonitorImplementsWatch == Spec => ImplementsDiskWatch
<1>1. Init => Watch!Init /\ FailureAllowed
  BY DEF Init, Watch!Init, FailureAllowed, Monitoring
<1>2. Spec => []FailureAllowed
  BY <1>1, FailureStep, MonitorTypeCorrect, PTL DEF Spec
<1> QED  BY <1>1, <1>2, WatchStep, MonitorTypeCorrect, PTL
         DEF Spec, ImplementsDiskWatch, Watch!Spec
=============================================================================
