--------------------------- MODULE MCPdpContexts ---------------------------
(* A primary and a secondary context. *)
EXTENDS PdpContexts

CONSTANTS pdp1, pdp2
=============================================================================
