---------------------------- MODULE MCRemoteClient ----------------------------
(* A small instance of RemoteClient. *)
EXTENDS RemoteClient

Calls == {"acquire", "force", "command"}
===============================================================================
