---------------------------- MODULE MCSignalWait ----------------------------
(* SignalWait with the server thread and a worker, three callbacks each:   *)
(* responses of earlier rounds are there to be mistaken for a new one, and *)
(* rounds overlap and then no longer do.                                   *)
EXTENDS SignalWait

CONSTANTS server, worker
=============================================================================
