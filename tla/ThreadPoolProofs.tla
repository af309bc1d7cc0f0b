-------------------------- MODULE ThreadPoolProofs --------------------------
(***************************************************************************)
(* Proofs about ThreadPool, for any set of workers and of tasks. The       *)
(* inductive invariant adds to the safety properties what makes them       *)
(* stable: who holds the mutex, who is in the condition variable's wait    *)
(* set, what a worker has learned under the mutex, and how far Stop has    *)
(* come. The last part shows that ThreadPool implements TaskPool.          *)
(***************************************************************************)
EXTENDS ThreadPool, FiniteSetTheorems, TLAPS

MutexOwner ==
    \A w \in Workers : pc[w] \in Locking <=> mutex = w

WaitSet == waiting = {w \in Workers : pc[w] = "wait"}

UnderLock ==
    \A w \in Workers :
        /\ pc[w] = "block" => queue = <<>>
        /\ pc[w] = "recheck" => queue # <<>> \/ exitFlag
        /\ pc[w] = "pop" => queue # <<>>

StopProgress ==
    /\ owner \in {"constructing", "adding", "idle"} => ~done
    /\ exitFlag <=> owner \in {"notify", "join", "stopped"}

StartsAfterExit ==
    exitFlag =>
        \/ Len(started) = exitMark
        \/ /\ Len(started) = exitMark + 1
           /\ \A w \in Workers : pc[w] # "pop"

ThreadTable ==
    /\ \A w \in Workers : w \in threads => pc[w] # "unborn"
    /\ owner # "stopped" =>
          \A w \in Workers : pc[w] # "unborn" => w \in threads
    /\ owner = "stopped" => \A w \in Workers : pc[w] \in {"unborn", "ended"}

Running == {task[w] : w \in {v \in Workers : pc[v] = "run"}}

Accounted ==
    /\ \A w \in Workers : pc[w] = "run" => task[w] \in Tasks
    /\ InSeq(started) = finished \cup Running

IInv ==
    /\ TypeOK
    /\ MutexOwner
    /\ WaitSet
    /\ UnderLock
    /\ StopProgress
    /\ StartsAfterExit
    /\ ThreadTable
    /\ Accounted
    /\ Fifo
    /\ NoSleepOnWork
(* The pool's table of threads is finite, so that its size is a number.    *)
LEMMA ThreadsCard ==
    ASSUME TypeOK
    PROVE  IsFiniteSet(threads) /\ Cardinality(threads) \in Nat
BY PoolAssumption, FS_Subset, FS_CardinalityType DEF TypeOK

(* Types are preserved; Pop relies on the queue not being empty.           *)
LEMMA TypeStep ==
    ASSUME IInv, [Next]_vars
    PROVE  TypeOK'
<1> USE PoolAssumption DEF IInv, TypeOK, PcValue, history
<1>1. ASSUME NEW t \in Tasks, Submit(t) PROVE TypeOK'
    BY <1>1 DEF Submit, NotifyOne
<1>2. ASSUME NEW n \in 1 .. Cardinality(Workers), CreateWorkers(n)
      PROVE  TypeOK'
    BY <1>2, ThreadsCard, FS_CardinalityType DEF CreateWorkers
<1>3. CASE AddWorker
    BY <1>3 DEF AddWorker, InAddWorkers
<1>4. CASE AddWorkersReturn
    BY <1>4 DEF AddWorkersReturn, InAddWorkers
<1>5. CASE StopSetDone
    BY <1>5 DEF StopSetDone
<1>6. CASE StopSetExit
    BY <1>6 DEF StopSetExit
<1>7. CASE StopNotifyAll
    BY <1>7 DEF StopNotifyAll
<1>8. CASE StopJoined
    BY <1>8 DEF StopJoined
<1>9. ASSUME NEW w \in Workers, TestDone(w) PROVE TypeOK'
    BY <1>9 DEF TestDone, Goto
<1>10. ASSUME NEW w \in Workers, Lock(w) PROVE TypeOK'
    BY <1>10 DEF Lock, Goto
<1>11. ASSUME NEW w \in Workers, EvalPredicate(w) PROVE TypeOK'
    BY <1>11 DEF EvalPredicate, Goto
<1>12. ASSUME NEW w \in Workers, Block(w) PROVE TypeOK'
    BY <1>12 DEF Block, Goto
<1>13. ASSUME NEW w \in Workers, SpuriousWake(w) PROVE TypeOK'
    BY <1>13 DEF SpuriousWake, Goto
<1>14. ASSUME NEW w \in Workers, Recheck(w) PROVE TypeOK'
    BY <1>14 DEF Recheck, Goto
<1>15. ASSUME NEW w \in Workers, Pop(w) PROVE TypeOK'
    BY <1>15 DEF Pop, Goto, UnderLock
<1>16. ASSUME NEW w \in Workers, Run(w) PROVE TypeOK'
    BY <1>16 DEF Run, Goto, Accounted
<1>17. CASE UNCHANGED vars
    BY <1>17 DEF vars
<1>18. QED
    BY <1>1, <1>2, <1>3, <1>4, <1>5, <1>6, <1>7, <1>8, <1>9, <1>10, <1>11, <1>12, <1>13, <1>14, <1>15, <1>16, <1>17 DEF Next, Owner, Worker

(* The mutex is held by the one worker that is inside wait_and_pop.        *)
LEMMA MutexStep ==
    ASSUME IInv, [Next]_vars
    PROVE  MutexOwner'
<1> USE PoolAssumption DEF IInv, TypeOK, PcValue, history, MutexOwner, Locking, WaitSet
<1>1. ASSUME NEW t \in Tasks, Submit(t) PROVE MutexOwner'
    BY <1>1 DEF Submit, NotifyOne
<1>2. ASSUME NEW n \in 1 .. Cardinality(Workers), CreateWorkers(n)
      PROVE  MutexOwner'
    BY <1>2 DEF CreateWorkers
<1>3. CASE AddWorker
    BY <1>3 DEF AddWorker, InAddWorkers
<1>4. CASE AddWorkersReturn
    BY <1>4 DEF AddWorkersReturn, InAddWorkers
<1>5. CASE StopSetDone
    BY <1>5 DEF StopSetDone
<1>6. CASE StopSetExit
    BY <1>6 DEF StopSetExit
<1>7. CASE StopNotifyAll
    BY <1>7 DEF StopNotifyAll
<1>8. CASE StopJoined
    BY <1>8 DEF StopJoined
<1>9. ASSUME NEW w \in Workers, TestDone(w) PROVE MutexOwner'
    BY <1>9 DEF TestDone, Goto
<1>10. ASSUME NEW w \in Workers, Lock(w) PROVE MutexOwner'
    BY <1>10 DEF Lock, Goto
<1>11. ASSUME NEW w \in Workers, EvalPredicate(w) PROVE MutexOwner'
    BY <1>11 DEF EvalPredicate, Goto
<1>12. ASSUME NEW w \in Workers, Block(w) PROVE MutexOwner'
    BY <1>12 DEF Block, Goto
<1>13. ASSUME NEW w \in Workers, SpuriousWake(w) PROVE MutexOwner'
    BY <1>13 DEF SpuriousWake, Goto
<1>14. ASSUME NEW w \in Workers, Recheck(w) PROVE MutexOwner'
    BY <1>14 DEF Recheck, Goto
<1>15. ASSUME NEW w \in Workers, Pop(w) PROVE MutexOwner'
    BY <1>15 DEF Pop, Goto
<1>16. ASSUME NEW w \in Workers, Run(w) PROVE MutexOwner'
    BY <1>16 DEF Run, Goto
<1>17. CASE UNCHANGED vars
    BY <1>17 DEF vars
<1>18. QED
    BY <1>1, <1>2, <1>3, <1>4, <1>5, <1>6, <1>7, <1>8, <1>9, <1>10, <1>11, <1>12, <1>13, <1>14, <1>15, <1>16, <1>17 DEF Next, Owner, Worker

(* The wait set of the condition variable is the set of blocked workers.   *)
LEMMA WaitStep ==
    ASSUME IInv, [Next]_vars
    PROVE  WaitSet'
<1> USE PoolAssumption DEF IInv, TypeOK, PcValue, history, WaitSet
<1>1. ASSUME NEW t \in Tasks, Submit(t) PROVE WaitSet'
    BY <1>1 DEF Submit, NotifyOne
<1>2. ASSUME NEW n \in 1 .. Cardinality(Workers), CreateWorkers(n)
      PROVE  WaitSet'
    BY <1>2 DEF CreateWorkers
<1>3. CASE AddWorker
    BY <1>3 DEF AddWorker, InAddWorkers
<1>4. CASE AddWorkersReturn
    BY <1>4 DEF AddWorkersReturn, InAddWorkers
<1>5. CASE StopSetDone
    BY <1>5 DEF StopSetDone
<1>6. CASE StopSetExit
    BY <1>6 DEF StopSetExit
<1>7. CASE StopNotifyAll
    BY <1>7 DEF StopNotifyAll
<1>8. CASE StopJoined
    BY <1>8 DEF StopJoined
<1>9. ASSUME NEW w \in Workers, TestDone(w) PROVE WaitSet'
    BY <1>9 DEF TestDone, Goto
<1>10. ASSUME NEW w \in Workers, Lock(w) PROVE WaitSet'
    BY <1>10 DEF Lock, Goto
<1>11. ASSUME NEW w \in Workers, EvalPredicate(w) PROVE WaitSet'
    BY <1>11 DEF EvalPredicate, Goto
<1>12. ASSUME NEW w \in Workers, Block(w) PROVE WaitSet'
    BY <1>12 DEF Block, Goto
<1>13. ASSUME NEW w \in Workers, SpuriousWake(w) PROVE WaitSet'
    BY <1>13 DEF SpuriousWake, Goto
<1>14. ASSUME NEW w \in Workers, Recheck(w) PROVE WaitSet'
    BY <1>14 DEF Recheck, Goto
<1>15. ASSUME NEW w \in Workers, Pop(w) PROVE WaitSet'
    BY <1>15 DEF Pop, Goto
<1>16. ASSUME NEW w \in Workers, Run(w) PROVE WaitSet'
    BY <1>16 DEF Run, Goto
<1>17. CASE UNCHANGED vars
    BY <1>17 DEF vars
<1>18. QED
    BY <1>1, <1>2, <1>3, <1>4, <1>5, <1>6, <1>7, <1>8, <1>9, <1>10, <1>11, <1>12, <1>13, <1>14, <1>15, <1>16, <1>17 DEF Next, Owner, Worker

(* What a worker has read under the mutex stays true until it lets go.     *)
LEMMA UnderLockStep ==
    ASSUME IInv, [Next]_vars
    PROVE  UnderLock'
<1> USE PoolAssumption DEF IInv, TypeOK, PcValue, history, UnderLock, MutexOwner, Locking, WaitSet
<1>1. ASSUME NEW t \in Tasks, Submit(t) PROVE UnderLock'
    BY <1>1 DEF Submit, NotifyOne
<1>2. ASSUME NEW n \in 1 .. Cardinality(Workers), CreateWorkers(n)
      PROVE  UnderLock'
    BY <1>2 DEF CreateWorkers
<1>3. CASE AddWorker
    BY <1>3 DEF AddWorker, InAddWorkers
<1>4. CASE AddWorkersReturn
    BY <1>4 DEF AddWorkersReturn, InAddWorkers
<1>5. CASE StopSetDone
    BY <1>5 DEF StopSetDone
<1>6. CASE StopSetExit
    BY <1>6 DEF StopSetExit
<1>7. CASE StopNotifyAll
    BY <1>7 DEF StopNotifyAll
<1>8. CASE StopJoined
    BY <1>8 DEF StopJoined
<1>9. ASSUME NEW w \in Workers, TestDone(w) PROVE UnderLock'
    BY <1>9 DEF TestDone, Goto
<1>10. ASSUME NEW w \in Workers, Lock(w) PROVE UnderLock'
    BY <1>10 DEF Lock, Goto
<1>11. ASSUME NEW w \in Workers, EvalPredicate(w) PROVE UnderLock'
    BY <1>11 DEF EvalPredicate, Goto
<1>12. ASSUME NEW w \in Workers, Block(w) PROVE UnderLock'
    BY <1>12 DEF Block, Goto
<1>13. ASSUME NEW w \in Workers, SpuriousWake(w) PROVE UnderLock'
    BY <1>13 DEF SpuriousWake, Goto
<1>14. ASSUME NEW w \in Workers, Recheck(w) PROVE UnderLock'
    BY <1>14 DEF Recheck, Goto
<1>15. ASSUME NEW w \in Workers, Pop(w) PROVE UnderLock'
    BY <1>15 DEF Pop, Goto
<1>16. ASSUME NEW w \in Workers, Run(w) PROVE UnderLock'
    BY <1>16 DEF Run, Goto
<1>17. CASE UNCHANGED vars
    BY <1>17 DEF vars
<1>18. QED
    BY <1>1, <1>2, <1>3, <1>4, <1>5, <1>6, <1>7, <1>8, <1>9, <1>10, <1>11, <1>12, <1>13, <1>14, <1>15, <1>16, <1>17 DEF Next, Owner, Worker

(* The two flags tell how far Stop has come.                               *)
LEMMA StopStep ==
    ASSUME IInv, [Next]_vars
    PROVE  StopProgress'
<1> USE PoolAssumption DEF IInv, TypeOK, PcValue, history, StopProgress
<1>1. ASSUME NEW t \in Tasks, Submit(t) PROVE StopProgress'
    BY <1>1 DEF Submit, NotifyOne
<1>2. ASSUME NEW n \in 1 .. Cardinality(Workers), CreateWorkers(n)
      PROVE  StopProgress'
    BY <1>2 DEF CreateWorkers
<1>3. CASE AddWorker
    BY <1>3 DEF AddWorker, InAddWorkers
<1>4. CASE AddWorkersReturn
    BY <1>4 DEF AddWorkersReturn, InAddWorkers
<1>5. CASE StopSetDone
    BY <1>5 DEF StopSetDone
<1>6. CASE StopSetExit
    BY <1>6 DEF StopSetExit
<1>7. CASE StopNotifyAll
    BY <1>7 DEF StopNotifyAll
<1>8. CASE StopJoined
    BY <1>8 DEF StopJoined
<1>9. ASSUME NEW w \in Workers, TestDone(w) PROVE StopProgress'
    BY <1>9 DEF TestDone, Goto
<1>10. ASSUME NEW w \in Workers, Lock(w) PROVE StopProgress'
    BY <1>10 DEF Lock, Goto
<1>11. ASSUME NEW w \in Workers, EvalPredicate(w) PROVE StopProgress'
    BY <1>11 DEF EvalPredicate, Goto
<1>12. ASSUME NEW w \in Workers, Block(w) PROVE StopProgress'
    BY <1>12 DEF Block, Goto
<1>13. ASSUME NEW w \in Workers, SpuriousWake(w) PROVE StopProgress'
    BY <1>13 DEF SpuriousWake, Goto
<1>14. ASSUME NEW w \in Workers, Recheck(w) PROVE StopProgress'
    BY <1>14 DEF Recheck, Goto
<1>15. ASSUME NEW w \in Workers, Pop(w) PROVE StopProgress'
    BY <1>15 DEF Pop, Goto
<1>16. ASSUME NEW w \in Workers, Run(w) PROVE StopProgress'
    BY <1>16 DEF Run, Goto
<1>17. CASE UNCHANGED vars
    BY <1>17 DEF vars
<1>18. QED
    BY <1>1, <1>2, <1>3, <1>4, <1>5, <1>6, <1>7, <1>8, <1>9, <1>10, <1>11, <1>12, <1>13, <1>14, <1>15, <1>16, <1>17 DEF Next, Owner, Worker

(* Only the holder of the mutex can still pop after exit().                *)
LEMMA StartsStep ==
    ASSUME IInv, [Next]_vars
    PROVE  StartsAfterExit'
<1> USE PoolAssumption DEF IInv, TypeOK, PcValue, history, StopProgress, StartsAfterExit, MutexOwner, Locking, WaitSet
<1>1. ASSUME NEW t \in Tasks, Submit(t) PROVE StartsAfterExit'
    BY <1>1 DEF Submit, NotifyOne
<1>2. ASSUME NEW n \in 1 .. Cardinality(Workers), CreateWorkers(n)
      PROVE  StartsAfterExit'
    BY <1>2 DEF CreateWorkers
<1>3. CASE AddWorker
    BY <1>3 DEF AddWorker, InAddWorkers
<1>4. CASE AddWorkersReturn
    BY <1>4 DEF AddWorkersReturn, InAddWorkers
<1>5. CASE StopSetDone
    BY <1>5 DEF StopSetDone
<1>6. CASE StopSetExit
    BY <1>6 DEF StopSetExit
<1>7. CASE StopNotifyAll
    BY <1>7 DEF StopNotifyAll
<1>8. CASE StopJoined
    BY <1>8 DEF StopJoined
<1>9. ASSUME NEW w \in Workers, TestDone(w) PROVE StartsAfterExit'
    BY <1>9 DEF TestDone, Goto
<1>10. ASSUME NEW w \in Workers, Lock(w) PROVE StartsAfterExit'
    BY <1>10 DEF Lock, Goto
<1>11. ASSUME NEW w \in Workers, EvalPredicate(w) PROVE StartsAfterExit'
    BY <1>11 DEF EvalPredicate, Goto
<1>12. ASSUME NEW w \in Workers, Block(w) PROVE StartsAfterExit'
    BY <1>12 DEF Block, Goto
<1>13. ASSUME NEW w \in Workers, SpuriousWake(w) PROVE StartsAfterExit'
    BY <1>13 DEF SpuriousWake, Goto
<1>14. ASSUME NEW w \in Workers, Recheck(w) PROVE StartsAfterExit'
    BY <1>14 DEF Recheck, Goto
<1>15. ASSUME NEW w \in Workers, Pop(w) PROVE StartsAfterExit'
    BY <1>15 DEF Pop, Goto
<1>16. ASSUME NEW w \in Workers, Run(w) PROVE StartsAfterExit'
    BY <1>16 DEF Run, Goto
<1>17. CASE UNCHANGED vars
    BY <1>17 DEF vars
<1>18. QED
    BY <1>1, <1>2, <1>3, <1>4, <1>5, <1>6, <1>7, <1>8, <1>9, <1>10, <1>11, <1>12, <1>13, <1>14, <1>15, <1>16, <1>17 DEF Next, Owner, Worker

(* Every thread that runs is in m_vThreads until Stop has joined it.       *)
LEMMA ThreadStep ==
    ASSUME IInv, [Next]_vars
    PROVE  ThreadTable'
<1> USE PoolAssumption DEF IInv, TypeOK, PcValue, history, ThreadTable, StopProgress, WaitSet
<1>1. ASSUME NEW t \in Tasks, Submit(t) PROVE ThreadTable'
    BY <1>1 DEF Submit, NotifyOne
<1>2. ASSUME NEW n \in 1 .. Cardinality(Workers), CreateWorkers(n)
      PROVE  ThreadTable'
    BY <1>2 DEF CreateWorkers
<1>3. CASE AddWorker
    BY <1>3 DEF AddWorker, InAddWorkers
<1>4. CASE AddWorkersReturn
    BY <1>4 DEF AddWorkersReturn, InAddWorkers
<1>5. CASE StopSetDone
    BY <1>5 DEF StopSetDone
<1>6. CASE StopSetExit
    BY <1>6 DEF StopSetExit
<1>7. CASE StopNotifyAll
    BY <1>7 DEF StopNotifyAll
<1>8. CASE StopJoined
    BY <1>8 DEF StopJoined
<1>9. ASSUME NEW w \in Workers, TestDone(w) PROVE ThreadTable'
    BY <1>9 DEF TestDone, Goto
<1>10. ASSUME NEW w \in Workers, Lock(w) PROVE ThreadTable'
    BY <1>10 DEF Lock, Goto
<1>11. ASSUME NEW w \in Workers, EvalPredicate(w) PROVE ThreadTable'
    BY <1>11 DEF EvalPredicate, Goto
<1>12. ASSUME NEW w \in Workers, Block(w) PROVE ThreadTable'
    BY <1>12 DEF Block, Goto
<1>13. ASSUME NEW w \in Workers, SpuriousWake(w) PROVE ThreadTable'
    BY <1>13 DEF SpuriousWake, Goto
<1>14. ASSUME NEW w \in Workers, Recheck(w) PROVE ThreadTable'
    BY <1>14 DEF Recheck, Goto
<1>15. ASSUME NEW w \in Workers, Pop(w) PROVE ThreadTable'
    BY <1>15 DEF Pop, Goto
<1>16. ASSUME NEW w \in Workers, Run(w) PROVE ThreadTable'
    BY <1>16 DEF Run, Goto
<1>17. CASE UNCHANGED vars
    BY <1>17 DEF vars
<1>18. QED
    BY <1>1, <1>2, <1>3, <1>4, <1>5, <1>6, <1>7, <1>8, <1>9, <1>10, <1>11, <1>12, <1>13, <1>14, <1>15, <1>16, <1>17 DEF Next, Owner, Worker

(* Appending adds one element to the range of a sequence.                  *)
LEMMA InSeqAppend ==
    ASSUME NEW S, NEW s \in Seq(S), NEW e \in S
    PROVE  InSeq(Append(s, e)) = InSeq(s) \cup {e}
<1> DEFINE r == Append(s, e)
<1>1. /\ Len(s) \in Nat
      /\ Len(r) = Len(s) + 1
      /\ \A i \in 1 .. Len(s) : r[i] = s[i]
      /\ r[Len(s) + 1] = e
    OBVIOUS
<1>2. InSeq(r) \subseteq InSeq(s) \cup {e}
    BY <1>1 DEF InSeq
<1>3. ASSUME NEW x \in InSeq(s) PROVE x \in InSeq(r)
  <2>1. PICK i \in 1 .. Len(s) : x = s[i]
      BY <1>3 DEF InSeq
  <2>2. i \in 1 .. Len(r) /\ x = r[i]
      BY <1>1, <2>1
  <2>3. QED
      BY <2>2 DEF InSeq
<1>4. e \in InSeq(r)
    BY <1>1 DEF InSeq
<1>5. QED
    BY <1>2, <1>3, <1>4

(* Moving the head of one sequence to the end of another.                  *)
LEMMA MoveHead ==
    ASSUME NEW S, NEW s \in Seq(S), NEW q \in Seq(S), q # <<>>
    PROVE  s \o q = Append(s, Head(q)) \o Tail(q)
OBVIOUS

(* No step loses, duplicates or reorders a task.                           *)
LEMMA FifoStep ==
    ASSUME IInv, [Next]_vars
    PROVE  Fifo'
<1> USE PoolAssumption DEF IInv, history
<1>1. ASSUME NEW t \in Tasks, Submit(t) PROVE Fifo'
  <2>1. /\ queue' = Append(queue, t)
        /\ submitted' = Append(submitted, t)
        /\ started' = started
      BY <1>1 DEF Submit, Fifo
  <2>2. submitted = started \o queue
      BY DEF Fifo
  <2>3. started \in Seq(Tasks) /\ queue \in Seq(Tasks)
      BY DEF TypeOK
  <2>4. Append(started \o queue, t) = started \o Append(queue, t)
      BY <2>3
  <2>5. QED
      BY <2>1, <2>2, <2>4 DEF Fifo
<1>2. ASSUME NEW n \in 1 .. Cardinality(Workers), CreateWorkers(n)
      PROVE  Fifo'
    BY <1>2 DEF CreateWorkers, Fifo
<1>3. CASE AddWorker
    BY <1>3 DEF AddWorker, InAddWorkers, Fifo
<1>4. CASE AddWorkersReturn
    BY <1>4 DEF AddWorkersReturn, InAddWorkers, Fifo
<1>5. CASE StopSetDone
    BY <1>5 DEF StopSetDone, Fifo
<1>6. CASE StopSetExit
    BY <1>6 DEF StopSetExit, Fifo
<1>7. CASE StopNotifyAll
    BY <1>7 DEF StopNotifyAll, Fifo
<1>8. CASE StopJoined
    BY <1>8 DEF StopJoined, Fifo
<1>9. ASSUME NEW w \in Workers, TestDone(w) PROVE Fifo'
    BY <1>9 DEF TestDone, Goto, Fifo
<1>10. ASSUME NEW w \in Workers, Lock(w) PROVE Fifo'
    BY <1>10 DEF Lock, Goto, Fifo
<1>11. ASSUME NEW w \in Workers, EvalPredicate(w) PROVE Fifo'
    BY <1>11 DEF EvalPredicate, Goto, Fifo
<1>12. ASSUME NEW w \in Workers, Block(w) PROVE Fifo'
    BY <1>12 DEF Block, Goto, Fifo
<1>13. ASSUME NEW w \in Workers, SpuriousWake(w) PROVE Fifo'
    BY <1>13 DEF SpuriousWake, Goto, Fifo
<1>14. ASSUME NEW w \in Workers, Recheck(w) PROVE Fifo'
    BY <1>14 DEF Recheck, Goto, Fifo
<1>15. ASSUME NEW w \in Workers, Pop(w) PROVE Fifo'
    BY <1>15, MoveHead DEF Pop, UnderLock, TypeOK, Fifo
<1>16. ASSUME NEW w \in Workers, Run(w) PROVE Fifo'
    BY <1>16 DEF Run, Goto, Fifo
<1>17. CASE UNCHANGED vars
    BY <1>17 DEF vars, Fifo
<1>18. QED
    BY <1>1, <1>2, <1>3, <1>4, <1>5, <1>6, <1>7, <1>8, <1>9, <1>10, <1>11, <1>12, <1>13, <1>14, <1>15, <1>16, <1>17 DEF Next, Owner, Worker

(* A started task is being run by a worker or has returned.                *)
LEMMA AccountedStep ==
    ASSUME IInv, [Next]_vars
    PROVE  Accounted'
<1> USE PoolAssumption DEF IInv, TypeOK, Accounted, Running, ThreadTable, PcValue, WaitSet, history
<1>1. ASSUME NEW t \in Tasks, Submit(t) PROVE Accounted'
    BY <1>1 DEF Submit, NotifyOne
<1>2. ASSUME NEW n \in 1 .. Cardinality(Workers), CreateWorkers(n)
      PROVE  Accounted'
    BY <1>2 DEF CreateWorkers
<1>3. CASE AddWorker
    BY <1>3 DEF AddWorker, InAddWorkers
<1>4. CASE AddWorkersReturn
    BY <1>4 DEF AddWorkersReturn, InAddWorkers
<1>5. CASE StopSetDone
    BY <1>5 DEF StopSetDone
<1>6. CASE StopSetExit
    BY <1>6 DEF StopSetExit
<1>7. CASE StopNotifyAll
    BY <1>7 DEF StopNotifyAll
<1>8. CASE StopJoined
    BY <1>8 DEF StopJoined
<1>9. ASSUME NEW w \in Workers, TestDone(w) PROVE Accounted'
    BY <1>9 DEF TestDone, Goto
<1>10. ASSUME NEW w \in Workers, Lock(w) PROVE Accounted'
    BY <1>10 DEF Lock, Goto
<1>11. ASSUME NEW w \in Workers, EvalPredicate(w) PROVE Accounted'
    BY <1>11 DEF EvalPredicate, Goto
<1>12. ASSUME NEW w \in Workers, Block(w) PROVE Accounted'
    BY <1>12 DEF Block, Goto
<1>13. ASSUME NEW w \in Workers, SpuriousWake(w) PROVE Accounted'
    BY <1>13 DEF SpuriousWake, Goto
<1>14. ASSUME NEW w \in Workers, Recheck(w) PROVE Accounted'
    BY <1>14 DEF Recheck, Goto
<1>15. ASSUME NEW w \in Workers, Pop(w) PROVE Accounted'
  <2>1. Head(queue) \in Tasks
      BY <1>15 DEF Pop, UnderLock
  <2>2. InSeq(started') = InSeq(started) \cup {Head(queue)}
      BY <1>15, <2>1, InSeqAppend DEF Pop
  <2>3. Running' = Running \cup {Head(queue)}
      BY <1>15 DEF Pop, Goto
  <2>4. QED
      BY <1>15, <2>1, <2>2, <2>3 DEF Pop, Goto
<1>16. ASSUME NEW w \in Workers, Run(w) PROVE Accounted'
    BY <1>16 DEF Run, Goto
<1>17. CASE UNCHANGED vars
    BY <1>17 DEF vars
<1>18. QED
    BY <1>1, <1>2, <1>3, <1>4, <1>5, <1>6, <1>7, <1>8, <1>9, <1>10, <1>11, <1>12, <1>13, <1>14, <1>15, <1>16, <1>17 DEF Next, Owner, Worker

(* The workers on their way to the queue can be counted.                   *)
LEMMA OnTheWayFinite ==
    IsFiniteSet(OnTheWay) /\ Cardinality(OnTheWay) \in Nat
BY PoolAssumption, FS_Subset, FS_CardinalityType DEF OnTheWay

(* A worker joining the others on the way never hurts.                     *)
LEMMA OnTheWayGrows ==
    ASSUME OnTheWay \subseteq OnTheWay', IInv, queue' = queue,
           waiting' \subseteq waiting, exitFlag' = exitFlag
    PROVE  NoSleepOnWork'
<1>1. IsFiniteSet(OnTheWay')
    BY PoolAssumption, FS_Subset DEF OnTheWay
<1>2. /\ Cardinality(OnTheWay) <= Cardinality(OnTheWay')
      /\ Cardinality(OnTheWay') \in Nat
    BY <1>1, FS_Subset, FS_CardinalityType
<1>3. QED
    BY <1>2, OnTheWayFinite DEF IInv, NoSleepOnWork, TypeOK

(* Work conservation is preserved: a push wakes a worker, a pop uses one.  *)
LEMMA NoSleepStep ==
    ASSUME IInv, [Next]_vars
    PROVE  NoSleepOnWork'
<1> USE PoolAssumption DEF IInv, TypeOK, PcValue, NoSleepOnWork, history
<1>1. ASSUME NEW t \in Tasks, Submit(t) PROVE NoSleepOnWork'
  <2>1. CASE waiting = {}
      BY <1>1, <2>1 DEF Submit, NotifyOne
  <2>2. CASE waiting # {}
    <3>1. PICK v \in waiting : pc' = [pc EXCEPT ![v] = "lock"]
        BY <1>1, <2>2 DEF Submit, NotifyOne
    <3>2. OnTheWay' = OnTheWay \cup {v} /\ v \notin OnTheWay
        BY <3>1 DEF OnTheWay, WaitSet
    <3>3. Cardinality(OnTheWay') = Cardinality(OnTheWay) + 1
        BY <3>2, OnTheWayFinite, FS_AddElement
    <3>4. Len(queue') = Len(queue) + 1 /\ Len(queue) \in Nat
        BY <1>1 DEF Submit
    <3>5. QED
        BY <1>1, <2>2, <3>3, <3>4, OnTheWayFinite DEF Submit
  <2>3. QED
      BY <2>1, <2>2
<1>2. ASSUME NEW n \in 1 .. Cardinality(Workers), CreateWorkers(n)
      PROVE  NoSleepOnWork'
    BY <1>2, OnTheWayGrows DEF CreateWorkers, OnTheWay
<1>3. CASE AddWorker
    BY <1>3, OnTheWayGrows DEF AddWorker, InAddWorkers, OnTheWay
<1>4. CASE AddWorkersReturn
    BY <1>4, OnTheWayGrows DEF AddWorkersReturn, InAddWorkers, OnTheWay
<1>5. CASE StopSetDone
    BY <1>5, OnTheWayGrows DEF StopSetDone, OnTheWay
<1>6. CASE StopSetExit
    BY <1>6 DEF StopSetExit
<1>7. CASE StopNotifyAll
    BY <1>7 DEF StopNotifyAll
<1>8. CASE StopJoined
    BY <1>8, OnTheWayGrows DEF StopJoined, OnTheWay
<1>9. ASSUME NEW w \in Workers, TestDone(w) PROVE NoSleepOnWork'
    BY <1>9, OnTheWayGrows DEF TestDone, Goto, OnTheWay
<1>10. ASSUME NEW w \in Workers, Lock(w) PROVE NoSleepOnWork'
    BY <1>10, OnTheWayGrows DEF Lock, Goto, OnTheWay
<1>11. ASSUME NEW w \in Workers, EvalPredicate(w) PROVE NoSleepOnWork'
  <2>1. CASE queue # <<>> \/ exitFlag
      BY <1>11, <2>1, OnTheWayGrows DEF EvalPredicate, Goto, OnTheWay
  <2>2. CASE queue = <<>>
    <3>1. Len(queue') = 0
        BY <1>11, <2>2 DEF EvalPredicate
    <3>2. Cardinality(OnTheWay') \in Nat
        BY PoolAssumption, FS_Subset, FS_CardinalityType DEF OnTheWay
    <3>3. QED
        BY <3>1, <3>2
  <2>3. QED
      BY <2>1, <2>2
<1>12. ASSUME NEW w \in Workers, Block(w) PROVE NoSleepOnWork'
  <2>1. Len(queue') = 0
      BY <1>12 DEF Block, UnderLock
  <2>2. Cardinality(OnTheWay') \in Nat
      BY PoolAssumption, FS_Subset, FS_CardinalityType DEF OnTheWay
  <2>3. QED
      BY <2>1, <2>2
<1>13. ASSUME NEW w \in Workers, SpuriousWake(w) PROVE NoSleepOnWork'
    BY <1>13, OnTheWayGrows DEF SpuriousWake, Goto, OnTheWay
<1>14. ASSUME NEW w \in Workers, Recheck(w) PROVE NoSleepOnWork'
  <2>1. CASE exitFlag
      BY <1>14, <2>1 DEF Recheck
  <2>2. CASE ~exitFlag
      BY <1>14, <2>2, OnTheWayGrows DEF Recheck, Goto, OnTheWay
  <2>3. QED
      BY <2>1, <2>2
<1>15. ASSUME NEW w \in Workers, Pop(w) PROVE NoSleepOnWork'
  <2>1. OnTheWay' = OnTheWay \ {w} /\ w \in OnTheWay
      BY <1>15 DEF Pop, Goto, OnTheWay
  <2>2. Cardinality(OnTheWay') = Cardinality(OnTheWay) - 1
      BY <2>1, OnTheWayFinite, FS_RemoveElement
  <2>3. Len(queue') = Len(queue) - 1 /\ Len(queue) \in Nat
      BY <1>15 DEF Pop, UnderLock
  <2>4. QED
      BY <1>15, <2>2, <2>3, OnTheWayFinite DEF Pop
<1>16. ASSUME NEW w \in Workers, Run(w) PROVE NoSleepOnWork'
    BY <1>16, OnTheWayGrows DEF Run, Goto, OnTheWay
<1>17. CASE UNCHANGED vars
    BY <1>17 DEF vars, OnTheWay
<1>18. QED
    BY <1>1, <1>2, <1>3, <1>4, <1>5, <1>6, <1>7, <1>8, <1>9, <1>10, <1>11, <1>12, <1>13, <1>14, <1>15, <1>16, <1>17 DEF Next, Owner, Worker

(* The invariant holds when the constructor starts.                        *)
LEMMA InitIInv == Init => IInv
<1> SUFFICES ASSUME Init PROVE IInv
    OBVIOUS
<1>1. Len(queue) = 0
    BY DEF Init
<1>2. NoSleepOnWork
    BY <1>1, OnTheWayFinite DEF NoSleepOnWork
<1>3. Accounted
    BY DEF Init, Accounted, Running, InSeq
<1>4. TypeOK
  <2>1. <<>> \in Seq(Tasks)
      OBVIOUS
  <2>2. /\ pc \in [Workers -> PcValue]
        /\ task \in [Workers -> Tasks \cup {NoTask}]
      BY DEF Init, PcValue
  <2>3. QED
      BY <2>1, <2>2, PoolAssumption DEF Init, TypeOK
<1>5. MutexOwner
    BY PoolAssumption DEF Init, MutexOwner, Locking
<1>6. WaitSet /\ UnderLock
    BY DEF Init, WaitSet, UnderLock
<1>7. StopProgress /\ StartsAfterExit /\ ThreadTable /\ Fifo
    BY DEF Init, StopProgress, StartsAfterExit, ThreadTable, Fifo
<1>8. QED
    BY <1>2, <1>3, <1>4, <1>5, <1>6, <1>7 DEF IInv

(* Every step preserves the invariant.                                     *)
LEMMA NextIInv == IInv /\ [Next]_vars => IInv'
<1> SUFFICES ASSUME IInv, [Next]_vars PROVE IInv'
    OBVIOUS
<1>1. TypeOK' /\ MutexOwner' /\ WaitSet' /\ UnderLock'
    BY TypeStep, MutexStep, WaitStep, UnderLockStep
<1>2. StopProgress' /\ StartsAfterExit' /\ ThreadTable'
    BY StopStep, StartsStep, ThreadStep
<1>3. Fifo' /\ Accounted' /\ NoSleepOnWork'
    BY FifoStep, AccountedStep, NoSleepStep
<1>4. QED
    BY <1>1, <1>2, <1>3 DEF IInv

(* The inductive invariant holds in every reachable state.                 *)
LEMMA PoolInvariant == Spec => []IInv
<1>1. QED
    BY InitIInv, NextIInv, PTL DEF Spec

-----------------------------------------------------------------------------
(* Every variable keeps its type: in particular a worker only ever runs a  *)
(* task somebody submitted.                                                *)
THEOREM PoolTypeCorrect == Spec => []TypeOK
<1>1. IInv => TypeOK
    BY DEF IInv
<1>2. QED
    BY <1>1, PoolInvariant, PTL

(* No task is lost, duplicated or overtaken in the queue, however pushes   *)
(* and pops interleave.                                                    *)
THEOREM PoolFifo == Spec => []Fifo
<1>1. IInv => Fifo
    BY DEF IInv
<1>2. QED
    BY <1>1, PoolInvariant, PTL

(* wait_and_pop never reads the front of an empty queue.                   *)
THEOREM PoolPopsNonEmpty == Spec => []PopsNonEmpty
<1>1. IInv => PopsNonEmpty
    BY DEF IInv, UnderLock, PopsNonEmpty
<1>2. QED
    BY <1>1, PoolInvariant, PTL

(* push() loses no wakeup, for any number of workers and any interleaving. *)
THEOREM PoolNoSleepOnWork == Spec => []NoSleepOnWork
<1>1. IInv => NoSleepOnWork
    BY DEF IInv
<1>2. QED
    BY <1>1, PoolInvariant, PTL

(* After exit() at most one more task is started.                          *)
THEOREM PoolOneStartAfterExit == Spec => []OneStartAfterExit
<1>1. IInv => OneStartAfterExit
    BY DEF IInv, TypeOK, StartsAfterExit, OneStartAfterExit
<1>2. QED
    BY <1>1, PoolInvariant, PTL

(* Once Stop has returned no worker is left and no started task is         *)
(* unfinished.                                                             *)
THEOREM PoolQuietAfterStop == Spec => []QuietAfterStop
<1>1. ASSUME IInv, owner = "stopped" PROVE QuietAfterStop
  <2>1. Running = {}
      BY <1>1 DEF IInv, ThreadTable, Running
  <2>2. QED
      BY <1>1, <2>1 DEF IInv, ThreadTable, Accounted, QuietAfterStop
<1>2. IInv => QuietAfterStop
    BY <1>1 DEF QuietAfterStop
<1>3. QED
    BY <1>2, PoolInvariant, PTL

-----------------------------------------------------------------------------
(* ThreadPool implements TaskPool: the push, the pop of wait_and_pop, the  *)
(* return of a task and exit()'s store are the abstract steps, everything  *)
(* else stutters. What IInv lacks for that is that no task is run by two   *)
(* workers.                                                                *)
Distinct(s) == \A j, k \in 1 .. Len(s) : s[j] = s[k] => j = k

NoTwins ==
    \A v, w \in Workers :
        pc[v] = "run" /\ pc[w] = "run" /\ task[v] = task[w] => v = w

RInv == IInv /\ Distinct(submitted) /\ NoTwins

-----------------------------------------------------------------------------
(* The task that is next has not been started before.                      *)
LEMMA HeadIsNew ==
    ASSUME RInv, queue # <<>>
    PROVE  /\ Head(queue) \in Tasks
           /\ Head(queue) \notin InSeq(started)
           /\ Head(queue) \notin Running
<1>1. queue \in Seq(Tasks) /\ started \in Seq(Tasks)
    BY DEF RInv, IInv, TypeOK
<1>2. Head(queue) \in Tasks
    BY <1>1
<1>3. Head(queue) \notin InSeq(started)
  <2> SUFFICES ASSUME NEW i \in 1 .. Len(started), started[i] = Head(queue)
               PROVE  FALSE
      BY DEF InSeq
  <2>1. /\ submitted[i] = started[i]
        /\ submitted[Len(started) + 1] = Head(queue)
        /\ Len(submitted) = Len(started) + Len(queue)
        /\ Len(started) \in Nat /\ Len(queue) \in Nat \ {0}
      BY <1>1 DEF RInv, IInv, Fifo
  <2>2. /\ i \in 1 .. Len(submitted) /\ Len(started) + 1 \in 1 .. Len(submitted)
        /\ i # Len(started) + 1
      BY <2>1
  <2>3. QED
      BY <2>1, <2>2 DEF RInv, Distinct
<1>4. QED
    BY <1>2, <1>3 DEF RInv, IInv, Accounted

(* Submit refuses a task that was submitted before.                        *)
LEMMA DistinctAppend ==
    ASSUME NEW s \in Seq(Tasks), NEW t \in Tasks, t \notin InSeq(s), Distinct(s)
    PROVE  Distinct(Append(s, t)) /\ InSeq(Append(s, t)) = InSeq(s) \cup {t}
<1>1. /\ Len(s) \in Nat /\ Len(Append(s, t)) = Len(s) + 1
      /\ \A i \in 1 .. Len(s) : Append(s, t)[i] = s[i] /\ s[i] # t
      /\ Append(s, t)[Len(s) + 1] = t
    BY DEF InSeq
<1>2. Distinct(Append(s, t))
    BY <1>1 DEF Distinct
<1>3. QED
    BY <1>2, InSeqAppend

(* The strengthened invariant holds before anything is submitted.          *)
LEMMA InitRInv == Init => RInv
BY InitIInv DEF Init, RInv, Distinct, NoTwins

(* No step submits a task again or gives one to two workers.               *)
LEMMA NextRInv == RInv /\ [Next]_vars => RInv'
<1> SUFFICES ASSUME RInv, [Next]_vars PROVE RInv'
    OBVIOUS
<1>1. IInv'
    BY NextIInv DEF RInv
<1>2. Distinct(submitted)'
  <2>1. ASSUME NEW t \in Tasks, Submit(t) PROVE Distinct(submitted')
      BY <2>1, DistinctAppend DEF Submit, RInv, IInv, TypeOK
  <2>2. CASE UNCHANGED submitted
      BY <2>2 DEF RInv
  <2>3. QED
      BY <2>1, <2>2
         DEF Next, Owner, Worker, CreateWorkers, AddWorker, AddWorkersReturn,
             StopSetDone, StopSetExit, StopNotifyAll, StopJoined, TestDone,
             Lock, EvalPredicate, Block, SpuriousWake, Recheck, Pop, Run,
             history, vars
<1>3. NoTwins'
  <2>0. /\ pc \in [Workers -> PcValue]
        /\ task \in [Workers -> Tasks \cup {NoTask}]
        /\ WaitSet /\ ThreadTable /\ NoTwins
      BY DEF RInv, IInv, TypeOK
  <2>1. ASSUME NEW t \in Tasks, Submit(t) PROVE NoTwins'
      BY <2>0, <2>1 DEF Submit, NotifyOne, WaitSet, NoTwins
  <2>2. CASE AddWorker
      BY <2>0, <2>2 DEF AddWorker, NoTwins
  <2>3. CASE StopNotifyAll
      BY <2>0, <2>3 DEF StopNotifyAll, NoTwins
  <2>4. ASSUME NEW w \in Workers,
               TestDone(w) \/ Lock(w) \/ EvalPredicate(w) \/ Block(w)
               \/ SpuriousWake(w) \/ Recheck(w) \/ Run(w)
        PROVE  NoTwins'
      BY <2>0, <2>4
         DEF TestDone, Lock, EvalPredicate, Block, SpuriousWake, Recheck, Run,
             Goto, NoTwins
  <2>5. ASSUME NEW w \in Workers, Pop(w) PROVE NoTwins'
    <3>1. Head(queue) \notin Running
        BY <2>5, HeadIsNew DEF Pop, RInv, IInv, UnderLock
    <3>2. QED
        BY <2>0, <2>5, <3>1 DEF Pop, Goto, Running, NoTwins
  <2>6. CASE UNCHANGED <<pc, task>>
      BY <2>0, <2>6 DEF NoTwins
  <2>7. QED
      BY <2>1, <2>2, <2>3, <2>4, <2>5, <2>6
         DEF Next, Owner, Worker, CreateWorkers, AddWorkersReturn,
             StopSetDone, StopSetExit, StopJoined, vars
<1>4. QED
    BY <1>1, <1>2, <1>3 DEF RInv

-----------------------------------------------------------------------------
(* A new pool is a TaskPool with nothing submitted.                        *)
LEMMA InitImplements == Init => TaskPool!Init
BY DEF Init, TaskPool!Init, InSeq

(* The four actions that are steps of TaskPool.                            *)
LEMMA SubmitImplements ==
    ASSUME RInv, NEW t \in Tasks, Submit(t)
    PROVE  TaskPool!Submit(t)
<1>1. Running' = Running
  <2>1. \A v \in Workers : pc'[v] = "run" <=> pc[v] = "run"
      BY DEF Submit, NotifyOne, WaitSet, RInv, IInv, TypeOK
  <2>2. QED
      BY <2>1 DEF Submit, Running
<1>2. InSeq(submitted') = InSeq(submitted) \cup {t}
    BY DistinctAppend DEF Submit, RInv, IInv, TypeOK
<1>3. QED
    BY <1>1, <1>2 DEF Submit, TaskPool!Submit, Running

(* wait_and_pop's pop starts the oldest task.                              *)
LEMMA PopImplements ==
    ASSUME RInv, NEW w \in Workers, Pop(w)
    PROVE  TaskPool!Start
<1>1. Running' = Running \cup {Head(queue)}
  <2>1. /\ \A v \in Workers \ {w} : pc'[v] = pc[v] /\ task'[v] = task[v]
        /\ pc[w] = "pop" /\ pc'[w] = "run" /\ task'[w] = Head(queue)
      BY DEF Pop, Goto, RInv, IInv, TypeOK
  <2>2. QED
      BY <2>1 DEF Running
<1>2. queue # <<>>
    BY DEF Pop, RInv, IInv, UnderLock
<1>3. exitFlag => Len(started) = exitMark
    BY DEF Pop, RInv, IInv, StartsAfterExit
<1>4. Len(started') = Len(started) + 1 /\ Len(started) \in Nat
    BY <1>2 DEF Pop, RInv, IInv, TypeOK
<1>5. /\ exitFlag \in BOOLEAN /\ exitFlag' = exitFlag
      /\ exitMark \in Nat /\ exitMark' = exitMark
    BY DEF Pop, RInv, IInv, TypeOK
<1>6. /\ ~(exitFlag /\ Len(started) > exitMark)
      /\ (exitFlag' /\ Len(started') > exitMark') = exitFlag
    BY <1>3, <1>4, <1>5
<1>7. QED
    BY <1>1, <1>2, <1>6 DEF Pop, TaskPool!Start, Running

(* A task that returns is finished, and no other worker still runs it.     *)
LEMMA RunImplements ==
    ASSUME RInv, NEW w \in Workers, Run(w)
    PROVE  task[w] \in Tasks /\ TaskPool!Finish(task[w])
<1>1. /\ \A v \in Workers \ {w} : pc'[v] = pc[v] /\ task'[v] = task[v]
      /\ pc[w] = "run" /\ pc'[w] = "loop"
    BY DEF Run, Goto, RInv, IInv, TypeOK
<1>2. Running' = Running \ {task[w]} /\ task[w] \in Running
    BY <1>1 DEF Running, RInv, NoTwins
<1>3. task[w] \in Tasks
    BY <1>1 DEF RInv, IInv, Accounted
<1>4. QED
    BY <1>2, <1>3 DEF Run, TaskPool!Finish, Running

(* The store to m_exit is what closes the pool.                            *)
LEMMA ExitImplements ==
    ASSUME RInv, StopSetExit
    PROVE  TaskPool!Close
<1>1. ~exitFlag
    BY DEF StopSetExit, RInv, IInv, StopProgress
<1>2. Len(started) \in Nat
    BY DEF RInv, IInv, TypeOK
<1>3. QED
    BY <1>1, <1>2 DEF StopSetExit, TaskPool!Close

(* Everything else is invisible to the user of the pool.                   *)
LEMMA Stutters ==
    ASSUME RInv, UNCHANGED <<queue, exitFlag, submitted, started, finished,
                             exitMark>>,
           Running' = Running
    PROVE  UNCHANGED TaskPool!absVars
BY DEF TaskPool!absVars, Running

(* Every step of the pool is a step of TaskPool or invisible.              *)
LEMMA NextImplements ==
    RInv /\ [Next]_vars => [TaskPool!Next]_(TaskPool!absVars)
<1> SUFFICES ASSUME RInv, [Next]_vars
             PROVE  TaskPool!Next \/ UNCHANGED TaskPool!absVars
    OBVIOUS
<1>0. pc \in [Workers -> PcValue] /\ WaitSet
    BY DEF RInv, IInv, TypeOK
<1>1. ASSUME NEW t \in Tasks, Submit(t) PROVE TaskPool!Next
    BY <1>1, SubmitImplements DEF TaskPool!Next
<1>2. ASSUME NEW w \in Workers, Pop(w) PROVE TaskPool!Next
    BY <1>2, PopImplements DEF TaskPool!Next
<1>3. ASSUME NEW w \in Workers, Run(w) PROVE TaskPool!Next
  <2>1. task[w] \in Tasks /\ TaskPool!Finish(task[w])
      BY <1>3, RunImplements
  <2>2. \E t \in Tasks : TaskPool!Finish(t)
      BY <2>1 DEF TaskPool!Finish
  <2>3. QED
      BY <2>2 DEF TaskPool!Next
<1>4. CASE StopSetExit
    BY <1>4, ExitImplements DEF TaskPool!Next
<1>5. CASE AddWorker
  <2>1. Running' = Running
      BY <1>0, <1>5 DEF AddWorker, Running
  <2>2. QED
      BY <1>5, <2>1, Stutters DEF AddWorker, history
<1>6. CASE StopNotifyAll
  <2>1. Running' = Running
      BY <1>0, <1>6 DEF StopNotifyAll, WaitSet, Running
  <2>2. QED
      BY <1>6, <2>1, Stutters DEF StopNotifyAll, history
<1>7. ASSUME NEW w \in Workers,
             TestDone(w) \/ Lock(w) \/ EvalPredicate(w) \/ Block(w)
             \/ SpuriousWake(w) \/ Recheck(w)
      PROVE  UNCHANGED TaskPool!absVars
  <2>1. /\ \A v \in Workers \ {w} : pc'[v] = pc[v]
        /\ pc[w] # "run" /\ pc'[w] # "run" /\ task' = task
      BY <1>0, <1>7
         DEF TestDone, Lock, EvalPredicate, Block, SpuriousWake, Recheck, Goto
  <2>2. Running' = Running
      BY <2>1 DEF Running
  <2>3. QED
      BY <1>7, <2>2, Stutters
         DEF TestDone, Lock, EvalPredicate, Block, SpuriousWake, Recheck,
             history
<1>8. CASE (\E n \in 1 .. Cardinality(Workers) : CreateWorkers(n))
           \/ AddWorkersReturn \/ StopSetDone \/ StopJoined \/ UNCHANGED vars
  <2>1. Running' = Running
      BY <1>8 DEF CreateWorkers, AddWorkersReturn, StopSetDone, StopJoined,
                  vars, Running
  <2>2. QED
      BY <1>8, <2>1, Stutters
         DEF CreateWorkers, AddWorkersReturn, StopSetDone, StopJoined, vars,
             history
<1>9. QED
    BY <1>1, <1>2, <1>3, <1>4, <1>5, <1>6, <1>7, <1>8 DEF Next, Owner, Worker

(* The pool with its threads, flags and condition variable does what       *)
(* TaskPool promises: tasks in order, each once, at most one after exit(). *)
THEOREM PoolImplements == Spec => Implements
<1>1. Spec => []RInv
    BY InitRInv, NextRInv, PTL DEF Spec
<1>2. QED
    BY <1>1, InitImplements, NextImplements, PTL
       DEF Spec, Implements, TaskPool!Spec

=============================================================================
