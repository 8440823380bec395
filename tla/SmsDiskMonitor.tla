--------------------------- MODULE SmsDiskMonitor ---------------------------
(***************************************************************************)
(* CSmsMonitorDiskSpace: a PDU that does not fit on the disk is refused,   *)
(* and the free space is monitored until reception can be resumed.  Class  *)
(* 0 messages need less space than others.  The space changes between the  *)
(* reads of one handler, and the file server reports that a limit has been *)
(* crossed, not that it has been passed already.                           *)
(* Source: smsprotocols/smsstack/smsprot/Src/smspmondsk.cpp.               *)
(***************************************************************************)
EXTENDS Integers

CONSTANTS
  LowLimit, HighLimit,   \* iLowLimit, iHighLimit
  MaxFree,               \* the size of the disk
  Fault                  \* what may go wrong

Faults == {"read_error", "notify_error", "resume_error", "power"}

ASSUME LimitAssumption ==
  LowLimit \in Nat /\ HighLimit \in Nat /\ LowLimit < HighLimit /\ HighLimit < MaxFree
ASSUME DiskFaultAssumption == MaxFree \in Nat /\ Fault \subseteq Faults

Class == {"zero", "other"}
Level == 0..MaxFree

VARIABLES
  free,        \* free space on drive C
  on,          \* the modem is on and the reader started
  state,       \* iState
  request,     \* the notification: "none", "placed", "done" or "failed"
  nackdClass,  \* the classes whose flag (iNAckdClassZero, iNAckdClassOther) is set
  held,        \* TSY: the classes of the PDUs refused since reception was resumed
  lost         \* those of them whose notification, or resumption, has failed

vars == <<free, on, state, request, nackdClass, held, lost>>

MonitorTypeOK ==
  /\ free \in Level /\ on \in BOOLEAN
  /\ state \in {"Idle", "MonitorLowLimit", "MonitorHighLimit", "ResumeReception"}
  /\ request \in {"none", "placed", "done", "failed"}
  /\ {nackdClass, held, lost} \subseteq SUBSET Class

Init ==
  /\ free \in Level /\ on = TRUE
  /\ state = "Idle" /\ request = "none" /\ nackdClass = {} /\ held = {} /\ lost = {}

Monitoring == state \in {"MonitorLowLimit", "MonitorHighLimit"}
Limit(s) == IF s = "MonitorLowLimit" THEN LowLimit ELSE HighLimit

\* GetFreeDiskSpace: an error, which is negative, is as good as a full disk.
GetFreeDiskSpace(f) == {f} \cup IF "read_error" \in Fault THEN {-1} ELSE {}

\* RFs::NotifyDiskSpace reports an increase above the limit or a decrease below it.
Crosses(f, g, limit) == (f <= limit /\ limit < g) \/ (f >= limit /\ limit > g)

\* The space is f when the request is placed and g when it is read again.
NotifyUnchecked(s) ==                                             \* mutant
  \E f \in Level, g \in Level :
    /\ free' = g /\ state' = s
    /\ request' = IF Crosses(f, g, Limit(s)) THEN "done" ELSE "placed"
NotifyDiskSpace(s) ==
  \E f \in Level, g \in Level : \E seen \in GetFreeDiskSpace(g) :
    /\ free' = g /\ state' = s
    /\ request' = IF seen > Limit(s) \/ Crosses(f, g, Limit(s)) THEN "done" ELSE "placed"

\* Reception is resumed; the TSY takes it at once or, when it fails, not at all.
ResumeKeepingFlags ==                                             \* mutant
  /\ state' = "ResumeReception" /\ request' = "none"
  /\ held' = {} /\ lost' = {} /\ UNCHANGED <<free, nackdClass>>
ResumeSmsReception ==
  /\ state' = "ResumeReception" /\ request' = "none" /\ nackdClass' = {}
  /\ \/ held' = {} /\ lost' = {}
     \/ "resume_error" \in Fault /\ held' = held /\ lost' = held
  /\ UNCHANGED free

\* CheckDiskSpaceForPDUL, when it leaves with KErrDiskFull.
EnoughFor(c, f) == f >= HighLimit \/ (f >= LowLimit /\ c = "zero")
MonitorsIdle(f) == state = "Idle"                                 \* mutant
Monitors(f) == state = "Idle" \/ (f < LowLimit /\ state = "MonitorHighLimit")
CheckDiskSpaceForPDU(c) ==
  /\ on /\ UNCHANGED on
  /\ nackdClass' = nackdClass \cup {c} /\ held' = held \cup {c} /\ lost' = lost \ {c}
  /\ \E f \in GetFreeDiskSpace(free) :
       /\ ~EnoughFor(c, f)
       /\ \/ /\ Monitors(f)
             /\ NotifyDiskSpace(IF f < LowLimit THEN "MonitorLowLimit" ELSE "MonitorHighLimit")
          \/ ~Monitors(f) /\ UNCHANGED <<free, state, request>>

\* RunL when the notification completes.
Notified ==
  /\ Monitoring /\ request \in {"done", "failed"}
  /\ UNCHANGED on
  /\ \E f \in GetFreeDiskSpace(free) :
       \/ f >= Limit(state) /\ ResumeSmsReception
       \/ /\ f < Limit(state) /\ request = "done"
          /\ NotifyDiskSpace(state) /\ UNCHANGED <<nackdClass, held, lost>>
       \/ /\ f < Limit(state) /\ request = "failed"
          /\ state' = "Idle" /\ request' = "none" /\ lost' = held
          /\ UNCHANGED <<free, nackdClass, held>>

\* RunL when reception has been resumed: PDUs may have been refused meanwhile.
ResumeDoneToIdle ==                                               \* mutant
  /\ state = "ResumeReception" /\ state' = "Idle"
  /\ UNCHANGED <<free, on, request, nackdClass, held, lost>>
ResumeDone ==
  /\ state = "ResumeReception"
  /\ UNCHANGED <<on, nackdClass, held, lost>>
  /\ \/ "zero" \in nackdClass /\ NotifyDiskSpace("MonitorLowLimit")
     \/ nackdClass = {"other"} /\ NotifyDiskSpace("MonitorHighLimit")
     \/ nackdClass = {} /\ state' = "Idle" /\ UNCHANGED <<free, request>>

\* PowerDown cancels the monitor and leaves its flags; the next Start of the
\* reader resumes reception before it asks for a PDU.
PowerDown ==
  /\ "power" \in Fault /\ on /\ on' = FALSE
  /\ state' = "Idle" /\ request' = "none"
  /\ UNCHANGED <<free, nackdClass, held, lost>>
PowerUp ==
  /\ ~on /\ on' = TRUE /\ held' = {} /\ lost' = {}
  /\ UNCHANGED <<free, state, request, nackdClass>>

\* The file server.
SpaceChanges ==
  /\ free' \in Level \ {free}
  /\ request' = IF Monitoring /\ request = "placed" /\ Crosses(free, free', Limit(state))
                THEN "done" ELSE request
  /\ UNCHANGED <<on, state, nackdClass, held, lost>>
NotifyFails ==
  /\ "notify_error" \in Fault /\ request = "placed" /\ request' = "failed"
  /\ UNCHANGED <<free, on, state, nackdClass, held, lost>>

Next ==
  \/ \E c \in Class : CheckDiskSpaceForPDU(c)
  \/ Notified \/ ResumeDone \/ PowerDown \/ PowerUp \/ SpaceChanges \/ NotifyFails

Spec == Init /\ [][Next]_vars

\* Requests complete, and an active object whose request has completed runs.
FairSpec == Spec /\ WF_vars(Notified) /\ WF_vars(ResumeDone)

-----------------------------------------------------------------------------
\* While the TSY holds messages back because a PDU has been refused, the monitor
\* is at work, unless a request of it has failed since: it watches a limit, or is
\* resuming and has noted the refusal.  For a class 0 PDU it watches the low limit.
Waiting == held \ lost
RefusedIsWatched ==
  on /\ Waiting # {} =>
    \/ state = "ResumeReception" /\ Waiting \subseteq nackdClass
    \/ state = "MonitorLowLimit"
    \/ state = "MonitorHighLimit" /\ Waiting = {"other"}

\* The monitor never waits for an increase that has happened already, between one
\* look at the disk and the notification it has asked for.
NoSleepAboveLimit ==
  Monitoring /\ request = "placed" => free <= Limit(state)

\* While the modem is on, reception is resumed for class 0 messages once the space
\* stays above the low limit, and for all once it stays above the high limit.
ResumedWhenRoom ==
  /\ <>[](free > LowLimit) => <>[](on => "zero" \notin Waiting)
  /\ <>[](free > HighLimit) => <>[](on => Waiting = {})

\* The monitor is what the PDU reader takes it for.
Watch == INSTANCE DiskWatch WITH
  monitor <- IF Monitoring THEN "Monitor"
             ELSE IF state = "ResumeReception" THEN "Resume" ELSE "Idle",
  nackd <- nackdClass # {},
  held <- held # {}
ImplementsDiskWatch == Watch!Spec
=============================================================================
