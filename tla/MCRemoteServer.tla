---------------------------- MODULE MCRemoteServer ----------------------------
(* A small instance of the remote server. *)
EXTENDS RemoteServer

=============================================================================
