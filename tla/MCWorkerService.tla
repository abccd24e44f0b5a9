-------------------------- MODULE MCWorkerService --------------------------
(* One name and one server directory: what matters is the order of commands. *)
EXTENDS WorkerService
=============================================================================
