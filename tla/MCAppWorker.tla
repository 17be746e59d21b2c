---------------------------- MODULE MCAppWorker ----------------------------
(* Two debrid services and a handful of user commands. *)
EXTENDS AppWorker
=============================================================================
