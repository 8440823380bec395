-------------------------- MODULE NotificationQueue --------------------------
(***************************************************************************)
(* What the circular buffer of a re-posted request promises its client: a  *)
(* bounded queue of the events it has not read, that drops the oldest when *)
(* it is full and says so with the next one it hands over.                 *)
(***************************************************************************)
EXTENDS Naturals, Sequences

CONSTANTS Value, Slots

VARIABLES
  queue,      \* events the client has not read, oldest first
  lost,       \* an event was dropped since the client last read
  waiting,    \* the client has its request outstanding
  delivered   \* what the client's last request completed with

Init == queue = <<>> /\ lost = FALSE /\ waiting = TRUE /\ delivered = <<>>

Event(v) ==
  \/ /\ waiting
     /\ delivered' = <<v, "KErrNone">>
     /\ waiting' = FALSE
     /\ UNCHANGED <<queue, lost>>
  \/ /\ ~waiting
     /\ IF Len(queue) < Slots
        THEN queue' = Append(queue, v) /\ lost' = lost
        ELSE queue' = Append(Tail(queue), v) /\ lost' = TRUE
     /\ UNCHANGED <<waiting, delivered>>

\* A single-slot notification is never told of the events it has missed.
Read(same) ==
  /\ ~waiting /\ queue # <<>>
  /\ delivered' = <<Head(queue), IF (lost /\ Slots > 1) \/ ~same
                                 THEN "KErrOverflow" ELSE "KErrNone">>
  /\ queue' = Tail(queue) /\ lost' = FALSE
  /\ UNCHANGED waiting

Await ==
  /\ ~waiting /\ queue = <<>>
  /\ waiting' = TRUE
  /\ UNCHANGED <<queue, lost, delivered>>

Next == (\E v \in Value : Event(v)) \/ (\E same \in BOOLEAN : Read(same)) \/ Await

vars == <<queue, lost, waiting, delivered>>
Spec == Init /\ [][Next]_vars
=============================================================================
