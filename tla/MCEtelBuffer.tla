----------------------------- MODULE MCEtelBuffer -----------------------------
(* A small instance of EtelBuffer for TLC. *)
EXTENDS EtelBuffer

CONSTANTS v1, v2, v3
=============================================================================
