---------------------------- MODULE MCWebServer ----------------------------
(* WebServer with the groups of MCDeletions. *)
EXTENDS WebServer, MCDeletions
=============================================================================
