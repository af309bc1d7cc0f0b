------------------------------ MODULE TaskPool ------------------------------
(***************************************************************************)
(* What a user of ThreadPool relies on, without threads, locks or wakeups: *)
(* tasks are started in the order they were submitted, each once; once the *)
(* pool is closed, a single task can still slip through and everything     *)
(* else that is pending stays pending for ever.                            *)
(***************************************************************************)
EXTENDS Sequences

CONSTANT Tasks

VARIABLES pending,   \* tasks waiting, in order
          running,   \* tasks being executed
          complete,  \* tasks that have returned
          known,     \* every task ever submitted
          closed,    \* the pool has been told to stop
          late       \* a task was started after that

absVars == <<pending, running, complete, known, closed, late>>

Init ==
    /\ pending = <<>>
    /\ running = {}
    /\ complete = {}
    /\ known = {}
    /\ closed = FALSE
    /\ late = FALSE

Submit(t) ==
    /\ t \notin known
    /\ known' = known \cup {t}
    /\ pending' = Append(pending, t)
    /\ UNCHANGED <<running, complete, closed, late>>

Start ==
    /\ pending # <<>>
    /\ ~late
    /\ running' = running \cup {Head(pending)}
    /\ pending' = Tail(pending)
    /\ late' = closed
    /\ UNCHANGED <<complete, known, closed>>

Finish(t) ==
    /\ t \in running
    /\ running' = running \ {t}
    /\ complete' = complete \cup {t}
    /\ UNCHANGED <<pending, known, closed, late>>

Close ==
    /\ ~closed
    /\ closed' = TRUE
    /\ UNCHANGED <<pending, running, complete, known, late>>

Next ==
    \/ \E t \in Tasks : Submit(t) \/ Finish(t)
    \/ Start
    \/ Close

Spec == Init /\ [][Next]_absVars
=============================================================================
