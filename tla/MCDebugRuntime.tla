--------------------------- MODULE MCDebugRuntime ---------------------------
(***************************************************************************)
(* DebugRuntime with a debug adapter c1 and a second client thread c2.     *)
(***************************************************************************)
EXTENDS DebugRuntime

CONSTANTS c1, c2

=============================================================================
