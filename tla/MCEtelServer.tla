---------------------------- MODULE MCEtelServer ----------------------------
(* Small instances of EtelServer for TLC. *)
EXTENDS EtelServer, TLC

CONSTANTS s1, s2, s3, phone, call, request, notify

\* Two sessions on the phone, one on a call of it.
PhoneAndCall == [s \in Session |-> IF s = s3 THEN call ELSE phone]

Owners == [o \in Object |-> {o, phone}]
=============================================================================
