--------------------------- MODULE MCPinLifecycle ---------------------------
(* TLC instance of PinLifecycle: see MCPinLifecycle.cfg.                   *)
EXTENDS PinLifecycle
=============================================================================
