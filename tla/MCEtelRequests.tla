-------------------------- MODULE MCEtelRequests --------------------------
(* Small instances of EtelRequests for TLC. *)
EXTENDS EtelRequests, TLC

CONSTANTS c1, c2, c3, phone, line,
          initialise, setting, getInfo, notify, status

OneObject == [c \in Client |-> phone]
TwoObjects == [c \in Client |-> IF c = c3 THEN line ELSE phone]

ClientSymmetry == Permutations(Client)
=============================================================================
