--------------------------- MODULE MCMapTransfer ---------------------------
(* Model checking of MapTransfer with two calls that share the main loop.  *)
EXTENDS MapTransfer

CONSTANTS c1, c2

MCCalls == {c1, c2}

============================================================================
