--------------------------------- MODULE MCMcp ---------------------------------
(* Instances of McpManager for TLC. *)
EXTENDS McpManager, TLC

CONSTANTS notes, search
=============================================================================
