-------------------------- MODULE MCThreadedReply --------------------------
(* ThreadedReply with two addresses, three connections over time and two   *)
(* workers: enough for a connection to die while its callback runs and for *)
(* its address to be given to another client, with a third one beside it.  *)
EXTENDS ThreadedReply
=============================================================================
