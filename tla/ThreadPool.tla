----------------------------- MODULE ThreadPool -----------------------------
(***************************************************************************)
(* The worker pool of Restgoose (ThreadPool, threadpool.cpp) with the      *)
(* blocking queue it is built on (threadsafe_queue, threadsafequeue.h).    *)
(* Threaded endpoints and asynchronous HTTP clients run on it.             *)
(*                                                                         *)
(* The queue's mutex, its condition variable and the two atomic flags are  *)
(* separate pieces of state, and a worker is modelled at the granularity   *)
(* at which another thread can get in between: every read of an atomic     *)
(* flag, every acquisition of the mutex, and the atomic "unlock and block" *)
(* of condition_variable::wait are steps of their own.                     *)
(***************************************************************************)
EXTENDS Naturals, Sequences, FiniteSets

CONSTANTS Workers,    \* the threads the operating system can give the pool
          Tasks,      \* the functions callers submit, each at most once
          MinWorkers, \* threads the constructor asks for (1 in the code)
          NoThread,   \* nobody: the mutex is free
          NoTask

ASSUME PoolAssumption ==
    /\ NoThread \notin Workers
    /\ NoTask \notin Tasks
    /\ MinWorkers \in Nat
    /\ IsFiniteSet(Workers)

VARIABLES
    queue,      \* m_work_queue.m_data_queue
    mutex,      \* m_work_queue.m_mut: the worker that holds it, or NoThread
    waiting,    \* workers blocked on m_work_queue.m_data_cond
    exitFlag,   \* m_work_queue.m_exit
    done,       \* m_bDone
    threads,    \* m_vThreads
    toAdd,      \* iterations left in the loop of AddWorkers
    pc,         \* where each worker is
    task,       \* the local variable task of WorkerThread
    owner,      \* where the thread is that constructs the pool and calls
                \* AddWorkers and Stop
    submitted,  \* history: the tasks pushed, in order
    started,    \* history: the tasks popped, in order
    finished,   \* history: the tasks that have returned
    exitMark    \* history: Len(started) when m_exit was set

vars == <<queue, mutex, waiting, exitFlag, done, threads, toAdd, pc, task,
          owner, submitted, started, finished, exitMark>>

history == <<submitted, started, finished, exitMark>>

(* "lock" waits for the mutex, "check" evaluates the predicate of wait(),  *)
(* "block" has found it false, "recheck" has found it true and tests       *)
(* m_exit again, "pop" has passed that test.                               *)
PcValue == {"unborn", "loop", "lock", "check", "block", "wait", "recheck",
            "pop", "run", "ended"}

Locking == {"check", "block", "recheck", "pop"}

Init ==
    /\ queue = <<>>
    /\ mutex = NoThread
    /\ waiting = {}
    /\ exitFlag = FALSE
    /\ done = FALSE
    /\ threads = {}
    /\ toAdd = MinWorkers
    /\ pc = [w \in Workers |-> "unborn"]
    /\ task = [w \in Workers |-> NoTask]
    /\ owner = "constructing"
    /\ submitted = <<>>
    /\ started = <<>>
    /\ finished = {}
    /\ exitMark = 0

InSeq(s) == {s[i] : i \in 1 .. Len(s)}

-----------------------------------------------------------------------------
(* A faulty NotifyOne: push() forgets it.                                  *)
NotifyNobody == UNCHANGED <<waiting, pc>>

(* Any caller that has the pool, so once it is constructed:                *)
(* threadsafe_queue::push as one critical section.                         *)
(* notify_one wakes one waiting worker, if there is one.                   *)
NotifyOne ==
    IF waiting = {} THEN UNCHANGED <<waiting, pc>>
    ELSE \E w \in waiting : /\ waiting' = waiting \ {w}
                            /\ pc' = [pc EXCEPT ![w] = "lock"]

Submit(t) ==
    /\ t \notin InSeq(submitted)
    /\ owner # "constructing"
    /\ mutex = NoThread
    /\ queue' = Append(queue, t)
    /\ submitted' = Append(submitted, t)
    /\ NotifyOne
    /\ UNCHANGED <<mutex, exitFlag, done, threads, toAdd, task, owner,
                   started, finished, exitMark>>

-----------------------------------------------------------------------------
(* The owner: AddWorkers, from the constructor and from CreateWorkers.     *)
InAddWorkers == owner \in {"constructing", "adding"}

CreateWorkers(n) ==
    /\ owner = "idle"
    /\ n > Cardinality(threads)
    /\ owner' = "adding"
    /\ toAdd' = n - Cardinality(threads)
    /\ UNCHANGED <<queue, mutex, waiting, exitFlag, done, threads, pc, task,
                   history>>

AddWorker ==
    /\ InAddWorkers
    /\ toAdd > 0
    /\ \E w \in Workers \ threads :
         /\ pc[w] = "unborn"
         /\ threads' = threads \cup {w}
         /\ pc' = [pc EXCEPT ![w] = "loop"]
    /\ toAdd' = toAdd - 1
    /\ UNCHANGED <<queue, mutex, waiting, exitFlag, done, task, owner,
                   history>>

(* The loop is over, or std::thread threw and the catch returns what there *)
(* is: the system has no thread left to give.                              *)
AddWorkersReturn ==
    /\ InAddWorkers
    /\ toAdd = 0 \/ \A w \in Workers \ threads : pc[w] # "unborn"
    /\ owner' = "idle"
    /\ toAdd' = 0
    /\ UNCHANGED <<queue, mutex, waiting, exitFlag, done, threads, pc, task,
                   history>>

-----------------------------------------------------------------------------
(* The owner: Stop. threadsafe_queue::exit does not take the mutex.        *)
StopSetDone ==
    /\ owner = "idle"
    /\ done' = TRUE
    /\ owner' = "setExit"
    /\ UNCHANGED <<queue, mutex, waiting, exitFlag, threads, toAdd, pc, task,
                   history>>

StopSetExit ==
    /\ owner = "setExit"
    /\ exitFlag' = TRUE
    /\ exitMark' = Len(started)
    /\ owner' = "notify"
    /\ UNCHANGED <<queue, mutex, waiting, done, threads, toAdd, pc, task,
                   submitted, started, finished>>

(* A faulty StopNotifyAll: notify_one in its place.                        *)
StopNotifyOne ==
    /\ owner = "notify"
    /\ NotifyOne
    /\ owner' = "join"
    /\ UNCHANGED <<queue, mutex, exitFlag, done, threads, toAdd, task,
                   history>>

StopNotifyAll ==
    /\ owner = "notify"
    /\ waiting' = {}
    /\ pc' = [w \in Workers |-> IF w \in waiting THEN "lock" ELSE pc[w]]
    /\ owner' = "join"
    /\ UNCHANGED <<queue, mutex, exitFlag, done, threads, toAdd, task,
                   history>>

(* A faulty StopJoined: the threads are detached.                          *)
StopDetached ==
    /\ owner = "join"
    /\ threads' = {}
    /\ owner' = "stopped"
    /\ UNCHANGED <<queue, mutex, waiting, exitFlag, done, toAdd, pc, task,
                   history>>

StopJoined ==
    /\ owner = "join"
    /\ \A w \in threads : pc[w] = "ended"
    /\ threads' = {}
    /\ owner' = "stopped"
    /\ UNCHANGED <<queue, mutex, waiting, exitFlag, done, toAdd, pc, task,
                   history>>

-----------------------------------------------------------------------------
(* A worker: WorkerThread and wait_and_pop.                                *)
Goto(w, l) == pc' = [pc EXCEPT ![w] = l]

TestDone(w) ==
    /\ pc[w] = "loop"
    /\ Goto(w, IF done THEN "ended" ELSE "lock")
    /\ UNCHANGED <<queue, mutex, waiting, exitFlag, done, threads, toAdd,
                   task, owner, history>>

Lock(w) ==
    /\ pc[w] = "lock"
    /\ mutex = NoThread
    /\ mutex' = w
    /\ Goto(w, "check")
    /\ UNCHANGED <<queue, waiting, exitFlag, done, threads, toAdd, task,
                   owner, history>>

EvalPredicate(w) ==
    /\ pc[w] = "check"
    /\ Goto(w, IF queue # <<>> \/ exitFlag THEN "recheck" ELSE "block")
    /\ UNCHANGED <<queue, mutex, waiting, exitFlag, done, threads, toAdd,
                   task, owner, history>>

Block(w) ==
    /\ pc[w] = "block"
    /\ mutex' = NoThread
    /\ waiting' = waiting \cup {w}
    /\ Goto(w, "wait")
    /\ UNCHANGED <<queue, exitFlag, done, threads, toAdd, task, owner,
                   history>>

SpuriousWake(w) ==
    /\ pc[w] = "wait"
    /\ waiting' = waiting \ {w}
    /\ Goto(w, "lock")
    /\ UNCHANGED <<queue, mutex, exitFlag, done, threads, toAdd, task, owner,
                   history>>

Recheck(w) ==
    /\ pc[w] = "recheck"
    /\ IF exitFlag THEN mutex' = NoThread /\ Goto(w, "loop")
                   ELSE mutex' = mutex /\ Goto(w, "pop")
    /\ UNCHANGED <<queue, waiting, exitFlag, done, threads, toAdd, task,
                   owner, history>>

(* Another: the newest task first.                                         *)
PopBack(w) ==
    /\ pc[w] = "pop"
    /\ LET t == queue[Len(queue)]
       IN /\ task' = [task EXCEPT ![w] = t]
          /\ started' = Append(started, t)
    /\ queue' = SubSeq(queue, 1, Len(queue) - 1)
    /\ mutex' = NoThread
    /\ Goto(w, "run")
    /\ UNCHANGED <<waiting, exitFlag, done, threads, toAdd, owner, submitted,
                   finished, exitMark>>

Pop(w) ==
    /\ pc[w] = "pop"
    /\ task' = [task EXCEPT ![w] = Head(queue)]
    /\ queue' = Tail(queue)
    /\ started' = Append(started, Head(queue))
    /\ mutex' = NoThread
    /\ Goto(w, "run")
    /\ UNCHANGED <<waiting, exitFlag, done, threads, toAdd, owner, submitted,
                   finished, exitMark>>

Run(w) ==
    /\ pc[w] = "run"
    /\ finished' = finished \cup {task[w]}
    /\ task' = [task EXCEPT ![w] = NoTask]
    /\ Goto(w, "loop")
    /\ UNCHANGED <<queue, mutex, waiting, exitFlag, done, threads, toAdd,
                   owner, submitted, started, exitMark>>

(* The steps a worker takes when the scheduler runs it.                    *)
Worker(w) ==
    \/ TestDone(w) \/ Lock(w) \/ EvalPredicate(w) \/ Block(w)
    \/ Recheck(w) \/ Pop(w) \/ Run(w)

Owner ==
    \/ AddWorker \/ AddWorkersReturn
    \/ StopSetExit \/ StopNotifyAll \/ StopJoined

Next ==
    \/ \E t \in Tasks : Submit(t)
    \/ \E n \in 1 .. Cardinality(Workers) : CreateWorkers(n)
    \/ StopSetDone
    \/ Owner
    \/ \E w \in Workers : Worker(w) \/ SpuriousWake(w)

(* Every thread is scheduled, a mutex that is free again and again is      *)
(* obtained, submitted tasks return and Stop runs to the join. Nobody has  *)
(* to submit a task or call Stop, and no spurious wakeup has to happen.    *)
Fairness ==
    /\ WF_vars(Owner)
    /\ \A w \in Workers : WF_vars(Worker(w)) /\ SF_vars(Lock(w))

Spec == Init /\ [][Next]_vars /\ Fairness

-----------------------------------------------------------------------------
TypeOK ==
    /\ queue \in Seq(Tasks)
    /\ mutex \in Workers \cup {NoThread}
    /\ waiting \subseteq Workers
    /\ exitFlag \in BOOLEAN
    /\ done \in BOOLEAN
    /\ threads \subseteq Workers
    /\ toAdd \in Nat
    /\ pc \in [Workers -> PcValue]
    /\ task \in [Workers -> Tasks \cup {NoTask}]
    /\ owner \in {"constructing", "adding", "idle", "setExit", "notify", "join",
                  "stopped"}
    /\ submitted \in Seq(Tasks)
    /\ started \in Seq(Tasks)
    /\ finished \subseteq Tasks
    /\ exitMark \in Nat

(* Tasks leave the queue in the order they came, none lost, none twice.    *)
Fifo == submitted = started \o queue

(* wait_and_pop never takes the front of an empty queue: front() on one is *)
(* undefined. The second test of m_exit and the mutex are what rules it    *)
(* out.                                                                    *)
PopsNonEmpty == \A w \in Workers : pc[w] = "pop" => queue # <<>>

(* Work conservation, the lost-wakeup property of push(): as long as the   *)
(* pool is not stopped, a worker sleeps only if every queued task has an   *)
(* awake worker of its own on the way to it.                               *)
OnTheWay == {w \in Workers : pc[w] \in {"lock", "check", "recheck", "pop"}}

NoSleepOnWork ==
    waiting # {} /\ ~exitFlag => Len(queue) <= Cardinality(OnTheWay)

(* After exit() has set m_exit at most one more task is popped: by the     *)
(* worker that had already passed the second test of m_exit.               *)
OneStartAfterExit == exitFlag => Len(started) <= exitMark + 1

(* When Stop() has returned, no worker runs a task and none ever will.     *)
QuietAfterStop ==
    owner = "stopped" =>
        /\ \A w \in Workers : pc[w] \in {"unborn", "ended"}
        /\ finished = InSeq(started)

(* A queued task is started, unless the pool is stopped first.             *)
QueuedIsRun ==
    \A t \in Tasks : t \in InSeq(queue) ~> (t \in InSeq(started) \/ done)

(* exit()'s notify_all reaches every worker that is blocked when it runs:  *)
(* such a worker ends.                                                     *)
NotifiedWorkersEnd ==
    \A w \in Workers :
        (w \in waiting /\ owner = "notify") ~> (pc[w] = "ended")

(* threadpool.h documents Stop as "Stop the threadpool": a call of Stop    *)
(* returns, with the threads joined.                                       *)
StopReturns == (owner = "setExit") ~> (owner = "stopped")

-----------------------------------------------------------------------------
(* What the pool promises: see TaskPool.                                   *)
TaskPool ==
    INSTANCE TaskPool WITH
        pending <- queue,
        running <- {task[w] : w \in {v \in Workers : pc[v] = "run"}},
        complete <- finished,
        known <- InSeq(submitted),
        closed <- exitFlag,
        late <- exitFlag /\ Len(started) > exitMark

Implements == TaskPool!Spec
=============================================================================
