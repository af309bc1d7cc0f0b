---------------------------- MODULE MCThreadPool ----------------------------
(* ThreadPool on a small instance. Two workers are the fewest that compete *)
(* for the mutex and for a wakeup, a third one can steal a task from the   *)
(* worker that was woken for it; three tasks keep one queued behind two    *)
(* running ones.                                                           *)
EXTENDS ThreadPool
=============================================================================
