-------------------------------- MODULE MCRemote --------------------------------
(* Instances of RemoteSession for TLC. *)
EXTENDS RemoteSession, TLC
=============================================================================
