----------------------------- MODULE DiskWatch -----------------------------
(***************************************************************************)
(* What CSmsMonitorDiskSpace promises the PDU reader: once a PDU has been  *)
(* refused because the disk is full, the disk is watched, and when there   *)
(* is room again the TSY is told to resume.  SmsReceive is built on these  *)
(* steps and SmsDiskMonitor implements them.                               *)
(* Source: smsprotocols/smsstack/smsprot/Src/smspmondsk.cpp.               *)
(***************************************************************************)
CONSTANT Fault

VARIABLES
  monitor,     \* iState, whichever the limit
  nackd,       \* iNAckdClassZero or iNAckdClassOther
  held         \* TSY: told to hold messages back

Init == monitor = "Idle" /\ nackd = FALSE /\ held = FALSE

Refused ==
  /\ monitor' = IF monitor = "Idle" THEN "Monitor" ELSE monitor
  /\ nackd' = TRUE /\ held' = TRUE

SpaceFreed ==
  /\ monitor = "Monitor" /\ monitor' = "Resume" /\ nackd' = FALSE
  /\ held' = FALSE \/ ("resume_error" \in Fault /\ held' = held)

NotifyFailed ==
  /\ "notify_error" \in Fault /\ monitor = "Monitor" /\ monitor' = "Idle"
  /\ UNCHANGED <<nackd, held>>

ResumeDone ==
  /\ monitor = "Resume" /\ monitor' = IF nackd THEN "Monitor" ELSE "Idle"
  /\ UNCHANGED <<nackd, held>>

\* Power down; the reader that is started again resumes reception itself.
Cancelled == monitor' = "Idle" /\ UNCHANGED <<nackd, held>>
Released == held' = FALSE /\ UNCHANGED <<monitor, nackd>>

Next == Refused \/ SpaceFreed \/ NotifyFailed \/ ResumeDone \/ Cancelled \/ Released

Spec == Init /\ [][Next]_<<monitor, nackd, held>>
=============================================================================
