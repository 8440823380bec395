----------------------------- MODULE MCSmsSend -----------------------------
(* Small instances of SmsSend for TLC. *)
EXTENDS SmsSend

CONSTANTS a, b

\* Client a has a message of three PDUs, the other one of one.
OneLong == [d \in Client |-> IF d = a THEN 3 ELSE 1]
=============================================================================
