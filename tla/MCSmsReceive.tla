---------------------------- MODULE MCSmsReceive ----------------------------
(* Small instances of SmsReceive for TLC. *)
EXTENDS SmsReceive, TLC

CONSTANTS text, push, junk, client, wap, port, t1, t2

\* A text of two PDUs, a message of one to a port (of the WAP protocol, or
\* of a socket), one that does not decode; a text to the WAP protocol.
TwoPartText == [m \in Msg |-> IF m = text THEN 2 ELSE 1]
PushToPort == [m \in Msg |-> IF m = push THEN wap ELSE client]
PushToSocket == [m \in Msg |-> IF m = push THEN port ELSE client]

TextToPort == [m \in Msg |-> IF m = text THEN wap ELSE client]
Stamps == Permutations({t1, t2})
=============================================================================
