-------------------------------- MODULE MCBridge --------------------------------
(* Instances of BridgeManager for TLC: one thread starts, stops and waits (the *)
(* UI thread of the REPL and the main thread of remote-control in one), the    *)
(* engine thread runs `/remote-control status`.                                *)
EXTENDS BridgeManager, TLC

CONSTANTS ui, engine, r1, r2

ReplCallers == {ui, engine}
ReplOperations == (ui :> {"start", "stop", "wait"}) @@ (engine :> {"status"})
=============================================================================
