----------------------------- MODULE TsyContract -----------------------------
(***************************************************************************)
(* What the ETel server promises the telephony module (TSY) of one phone:  *)
(* which requests it may find itself working on at a time and when a new   *)
(* one may arrive.  The clients, the lists and the sharing are hidden.     *)
(***************************************************************************)
EXTENDS Naturals

CONSTANTS Object, Ipc, Handle, FlowControlObeyed, MultipleCompletion, RePost, MaxHold

Request == Object \X Ipc \X Handle

VARIABLES
  busy,    \* requests the TSY has: <<object, ipc, handle>>
  asked,   \* handles it was asked to cancel
  held     \* its suspends not yet resumed

vars == <<busy, asked, held>>

Init == busy = {} /\ asked = {} /\ held = 0

FlowControlled(S) == {r \in S : r[2] \in FlowControlObeyed}
Handles(S) == {r[3] : r \in S}

\* r may be passed to a TSY that has S: one flow controlled request at a time, and
\* one per object of a request with multiple completion.
Admits(S, r) ==
  /\ r[3] \notin Handles(S)
  /\ r[2] \in FlowControlObeyed => FlowControlled(S) = {}
  /\ r[2] \in MultipleCompletion => \A s \in S : <<s[1], s[2]>> # <<r[1], r[2]>>

\* A client's request goes straight down.
Begin(r) ==
  /\ Admits(busy, r)
  /\ r[2] \in FlowControlObeyed => held = 0
  /\ busy' = busy \cup {r}
  /\ UNCHANGED <<asked, held>>

\* r ends; what follows in the same step is nothing, r for another client that
\* shares it, or, if the flow is free and r was in its way, a request that waited.
End(r) ==
  /\ r \in busy
  /\ asked' = asked \ {r[3]}
  /\ \/ busy' = busy \ {r}
     \/ \E s \in Request :
          /\ Admits(busy \ {r}, s)
          /\ busy' = (busy \ {r}) \cup {s}
          /\ \/ <<s[1], s[2]>> = <<r[1], r[2]>> /\ r[2] \in MultipleCompletion
             \/ {r[2], s[2]} \subseteq FlowControlObeyed /\ held = 0
  /\ UNCHANGED held

\* A notification is reported and goes on.
Report(r) ==
  /\ r \in busy /\ r[2] \in RePost
  /\ asked' = asked \ {r[3]}
  /\ UNCHANGED <<busy, held>>

Cancel(H) ==
  /\ H \subseteq Handles(busy)
  /\ asked' = asked \cup H
  /\ UNCHANGED <<busy, held>>

Suspend ==
  /\ held < MaxHold
  /\ held' = held + 1
  /\ UNCHANGED <<busy, asked>>

Resume ==
  /\ held > 0
  /\ held' = held - 1
  /\ \/ busy' = busy
     \/ \E r \in Request : /\ r[2] \in FlowControlObeyed /\ held = 1
                           /\ Admits(busy, r)
                           /\ busy' = busy \cup {r}
  /\ UNCHANGED asked

Next ==
  \/ \E r \in Request : Begin(r) \/ End(r) \/ Report(r)
  \/ \E H \in SUBSET Handle : Cancel(H)
  \/ Suspend \/ Resume

Spec == Init /\ [][Next]_vars
=============================================================================
