------------------------ MODULE ThreadedReplyProofs ------------------------
(***************************************************************************)
(* Proofs about ThreadedReply, for any number of addresses, connections,   *)
(* workers and endpoints. The inductive invariant says whose each address, *)
(* lambda and queued response is: the connection that stands at the        *)
(* address, or one that has closed.                                        *)
(***************************************************************************)
EXTENDS ThreadedReply, SequenceTheorems, FiniteSetTheorems, TLAPS

(* Mongoose's ids: those of live connections are used, open, and unique;   *)
(* those still to come belong to nobody.                                   *)
LiveIds ==
    /\ \A p \in live : id[p] \in Ids /\ id[p] < nextId
    /\ \A p \in live : phase[id[p]] \notin {"none", "closed"}
    /\ \A p, q \in live : id[p] = id[q] => p = q
    /\ \A i \in Ids : i >= nextId => phase[i] = "none"

WorkersHaveJobs == \A w \in Workers : wpc[w] # "idle" => wjob[w] \in Job

StoppedIsEmpty == ~running => live = {}

(* What a lambda or a queue holds for an address is of the connection that *)
(* is there, or of a closed one.                                           *)
Of(p, r) == phase[r] = "closed" \/ (p \in live /\ id[p] = r)

JobsAreTheirs == \A k \in 1 .. Len(jobs) : Of(jobs[k].ptr, jobs[k].req)
WorkersAreTheirs ==
    \A w \in Workers : wpc[w] # "idle" => Of(wjob[w].ptr, wjob[w].req)
ResponsesAreTheirs ==
    \A p \in DOMAIN connQueue : \A k \in 1 .. Len(connQueue[p]) :
        Of(p, connQueue[p][k])

IInv ==
    /\ TypeOK
    /\ QueuesAreOfLiveConnections
    /\ LiveIds
    /\ WorkersHaveJobs
    /\ StoppedIsEmpty
    /\ JobsAreTheirs
    /\ WorkersAreTheirs
    /\ ResponsesAreTheirs
    /\ OnlyOrphansGoAstray
    /\ NoStrandedResponse

-----------------------------------------------------------------------------
(* A server that has just started has neither connections nor lambdas.     *)
LEMMA InitIInv == Init => IInv
<1> SUFFICES ASSUME Init PROVE IInv
    OBVIOUS
<1>1. TypeOK
    BY DEF Init, TypeOK
<1>2. /\ QueuesAreOfLiveConnections /\ LiveIds /\ WorkersHaveJobs
      /\ StoppedIsEmpty /\ JobsAreTheirs /\ WorkersAreTheirs
      /\ ResponsesAreTheirs
    BY DEF Init, QueuesAreOfLiveConnections, LiveIds, WorkersHaveJobs,
           StoppedIsEmpty, JobsAreTheirs, WorkersAreTheirs,
           ResponsesAreTheirs
<1>3. OnlyOrphansGoAstray /\ NoStrandedResponse
    BY DEF Init, OnlyOrphansGoAstray, NoStrandedResponse
<1>4. QED
    BY <1>1, <1>2, <1>3 DEF IInv

-----------------------------------------------------------------------------
(* Types: what is put into a queue or handed to DoReply is a request.      *)
LEMMA NextTypeOK == IInv /\ [Next]_vars => TypeOK'
<1> SUFFICES ASSUME TypeOK, QueuesAreOfLiveConnections, LiveIds,
                    WorkersHaveJobs, [Next]_vars
             PROVE  TypeOK'
    BY DEF IInv
<1>1. ASSUME NEW p \in Pointers, Accept(p) PROVE TypeOK'
    BY <1>1 DEF Accept, workerVars, TypeOK, Ids
<1>2. ASSUME NEW p \in Pointers, Close(p) PROVE TypeOK'
    BY <1>2 DEF Close, workerVars, TypeOK
<1>3. ASSUME NEW p \in Pointers, NEW e \in AllPoints, Request(p, e)
      PROVE  TypeOK'
  <2>1. ASSUME NEW auth \in BOOLEAN, NEW multipart \in BOOLEAN,
               AnswerNow(p, e, auth, multipart)
        PROVE  TypeOK'
      BY <1>3, <2>1, AppendProperties
         DEF Request, AnswerNow, DoReply, serverVars, workerVars, TypeOK,
             LiveIds
  <2>2. ASSUME NEW auth \in BOOLEAN, NEW multipart \in BOOLEAN,
               DoReplyThreaded(p, e, auth, multipart)
        PROVE  TypeOK'
    <3>1. jobs' \in Seq(Job)
        BY <1>3, <2>2, AppendProperties
           DEF Request, DoReplyThreaded, TypeOK, Job, LiveIds
    <3>2. /\ DOMAIN connQueue' \subseteq Pointers
          /\ \A q \in DOMAIN connQueue' : connQueue'[q] \in Seq(Ids)
        BY <2>2 DEF DoReplyThreaded, TypeOK
    <3>3. QED
        BY <1>3, <2>2, <3>1, <3>2
           DEF Request, DoReplyThreaded, serverVars, workerVars, TypeOK
  <2>3. QED
      BY <1>3, <2>1, <2>2 DEF Request
<1>4. ASSUME NEW i \in Ids, HandleWakeup(i) PROVE TypeOK'
  <2>1. wakeups' \in [Ids -> Nat]
      BY <1>4 DEF HandleWakeup, TypeOK
  <2>2. ASSUME NEW p \in live \cap DOMAIN connQueue, id[p] = i,
               connQueue[p] # <<>>, DoReply(p, Head(connQueue[p])),
               connQueue' = [connQueue EXCEPT ![p] = Tail(@)]
        PROVE  TypeOK'
    <3>1. Head(connQueue[p]) \in Ids /\ Tail(connQueue[p]) \in Seq(Ids)
        BY <2>2, HeadTailProperties DEF TypeOK
    <3>2. /\ DOMAIN connQueue' \subseteq Pointers
          /\ \A q \in DOMAIN connQueue' : connQueue'[q] \in Seq(Ids)
        BY <2>2, <3>1 DEF TypeOK
    <3>3. replies' \in [Ids -> Seq(Ids)]
        BY <2>2, <3>1, AppendProperties DEF DoReply, TypeOK
    <3>4. QED
        BY <1>4, <2>1, <2>2, <3>2, <3>3
           DEF HandleWakeup, DoReply, serverVars, workerVars, TypeOK
  <2>3. CASE UNCHANGED <<connQueue, phase, replies>>
      BY <1>4, <2>1, <2>3 DEF HandleWakeup, serverVars, workerVars, TypeOK
  <2>4. QED
      BY <1>4, <2>2, <2>3 DEF HandleWakeup
<1>5. CASE StopServer
    BY <1>5 DEF StopServer, workerVars, TypeOK
<1>6. ASSUME NEW e \in AllPoints, AddEndpoint(e) \/ DeleteEndpoint(e)
      PROVE  TypeOK'
    BY <1>6 DEF AddEndpoint, DeleteEndpoint, serverVars, workerVars, TypeOK
<1>7. ASSUME NEW w \in Workers, Fetch(w) PROVE TypeOK'
  <2>1. Head(jobs) \in Job /\ Tail(jobs) \in Seq(Job)
      BY <1>7, HeadTailProperties DEF Fetch, TypeOK
  <2>2. QED
      BY <1>7, <2>1 DEF Fetch, serverVars, TypeOK
<1>8. ASSUME NEW w \in Workers, Lookup(w) PROVE TypeOK'
    BY <1>8 DEF Lookup, WorkersHaveJobs, Job, serverVars, TypeOK
<1>9. ASSUME NEW w \in Workers, Push(w) PROVE TypeOK'
  <2>1. wjob[w].req \in Ids
      BY <1>9 DEF Push, WorkersHaveJobs, Job
  <2>2. \A q \in DOMAIN connQueue' : connQueue'[q] \in Seq(Ids)
      BY <1>9, <2>1, AppendProperties DEF Push, TypeOK
  <2>3. QED
      BY <1>9, <2>2 DEF Push, serverVars, TypeOK
<1>10. ASSUME NEW w \in Workers, Wakeup(w) PROVE TypeOK'
  <2>1. PICK i \in Ids :
          wakeups' = [wakeups EXCEPT ![i] = IF running THEN @ + 1 ELSE @]
      BY <1>10 DEF Wakeup, LiveIds
  <2>2. wakeups' \in [Ids -> Nat]
      BY <2>1 DEF TypeOK
  <2>3. QED
      BY <1>10, <2>2 DEF Wakeup, serverVars, TypeOK
<1>11. CASE UNCHANGED vars
    BY <1>11 DEF vars, TypeOK
<1>12. QED
    BY <1>1, <1>2, <1>3, <1>4, <1>5, <1>6, <1>7, <1>8, <1>9, <1>10, <1>11
       DEF Next, Worker

-----------------------------------------------------------------------------
(* Where the connections are.                                              *)
LEMMA NextLiveIds ==
    TypeOK /\ LiveIds /\ [Next]_vars => LiveIds'
<1> SUFFICES ASSUME TypeOK, LiveIds, [Next]_vars PROVE LiveIds'
    OBVIOUS
<1>1. ASSUME NEW p \in Pointers, Accept(p) PROVE LiveIds'
  <2>1. \A q \in live : id'[q] = id[q] /\ id[q] # nextId
      BY <1>1 DEF Accept, TypeOK, LiveIds
  <2>2. id'[p] = nextId /\ phase'[nextId] = "open" /\ nextId' = nextId + 1
      BY <1>1 DEF Accept, TypeOK
  <2>3. \A i \in Ids : i # nextId => phase'[i] = phase[i]
      BY <1>1 DEF Accept, TypeOK
  <2>4. live' = live \cup {p} /\ nextId \in Ids
      BY <1>1 DEF Accept
  <2>5. QED
      BY <2>1, <2>2, <2>3, <2>4 DEF TypeOK, LiveIds, Ids
<1>2. ASSUME NEW p \in Pointers, Close(p) PROVE LiveIds'
    BY <1>2 DEF Close, TypeOK, LiveIds
<1>3. ASSUME NEW p \in Pointers, NEW e \in AllPoints, Request(p, e)
      PROVE  LiveIds'
    BY <1>3
       DEF Request, AnswerNow, DoReply, DoReplyThreaded, serverVars, TypeOK,
           LiveIds
<1>4. ASSUME NEW i \in Ids, HandleWakeup(i) PROVE LiveIds'
    BY <1>4 DEF HandleWakeup, DoReply, serverVars, TypeOK, LiveIds
<1>5. CASE StopServer
  <2>1. \A i \in Ids : phase[i] = "none" => phase'[i] = "none"
      BY <1>5 DEF StopServer, LiveIds
  <2>2. QED
      BY <1>5, <2>1 DEF StopServer, LiveIds
<1>6. ASSUME NEW e \in AllPoints, AddEndpoint(e) \/ DeleteEndpoint(e)
      PROVE  LiveIds'
    BY <1>6 DEF AddEndpoint, DeleteEndpoint, serverVars, LiveIds
<1>7. ASSUME NEW w \in Workers, Worker(w) PROVE LiveIds'
    BY <1>7 DEF Worker, Fetch, Lookup, Push, Wakeup, serverVars, LiveIds
<1>8. CASE UNCHANGED vars
    BY <1>8 DEF vars, LiveIds
<1>9. QED
    BY <1>1, <1>2, <1>3, <1>4, <1>5, <1>6, <1>7, <1>8 DEF Next

(* MG_EV_CLOSE erases the queue with the connection, and a late worker     *)
(* does not make a new one.                                                *)
LEMMA NextQueues ==
    /\ TypeOK /\ QueuesAreOfLiveConnections /\ StoppedIsEmpty
    /\ [Next]_vars
    => QueuesAreOfLiveConnections' /\ StoppedIsEmpty'
<1> SUFFICES ASSUME TypeOK, QueuesAreOfLiveConnections, StoppedIsEmpty,
                    [Next]_vars
             PROVE  QueuesAreOfLiveConnections' /\ StoppedIsEmpty'
    OBVIOUS
<1> USE DEF QueuesAreOfLiveConnections, StoppedIsEmpty
<1>1. ASSUME NEW p \in Pointers, Accept(p) \/ Close(p)
      PROVE  QueuesAreOfLiveConnections' /\ StoppedIsEmpty'
    BY <1>1 DEF Accept, Close
<1>2. ASSUME NEW p \in Pointers, NEW e \in AllPoints, Request(p, e)
      PROVE  QueuesAreOfLiveConnections' /\ StoppedIsEmpty'
    BY <1>2 DEF Request, AnswerNow, DoReplyThreaded, serverVars
<1>3. ASSUME NEW i \in Ids, HandleWakeup(i)
      PROVE  QueuesAreOfLiveConnections' /\ StoppedIsEmpty'
    BY <1>3 DEF HandleWakeup, serverVars
<1>4. CASE StopServer
    BY <1>4 DEF StopServer
<1>5. ASSUME NEW e \in AllPoints, AddEndpoint(e) \/ DeleteEndpoint(e)
      PROVE  QueuesAreOfLiveConnections' /\ StoppedIsEmpty'
    BY <1>5 DEF AddEndpoint, DeleteEndpoint, serverVars
<1>6. ASSUME NEW w \in Workers, Worker(w)
      PROVE  QueuesAreOfLiveConnections' /\ StoppedIsEmpty'
    BY <1>6 DEF Worker, Fetch, Lookup, Push, Wakeup, serverVars
<1>7. CASE UNCHANGED vars
    BY <1>7 DEF vars
<1>8. QED
    BY <1>1, <1>2, <1>3, <1>4, <1>5, <1>6, <1>7 DEF Next

(* A worker that is not idle runs a lambda.                                *)
LEMMA NextWorkersHaveJobs ==
    TypeOK /\ WorkersHaveJobs /\ [Next]_vars => WorkersHaveJobs'
<1> SUFFICES ASSUME TypeOK, WorkersHaveJobs, [Next]_vars
             PROVE  WorkersHaveJobs'
    OBVIOUS
<1>1. ASSUME NEW w \in Workers, Fetch(w) PROVE WorkersHaveJobs'
  <2>1. Head(jobs) \in Job
      BY <1>1, HeadTailProperties DEF Fetch, TypeOK
  <2>2. QED
      BY <1>1, <2>1 DEF Fetch, TypeOK, WorkersHaveJobs
<1>2. ASSUME NEW w \in Workers, Lookup(w) \/ Push(w) \/ Wakeup(w)
      PROVE  WorkersHaveJobs'
    BY <1>2 DEF Lookup, Push, Wakeup, TypeOK, WorkersHaveJobs
<1>3. CASE UNCHANGED workerVars
    BY <1>3 DEF workerVars, WorkersHaveJobs
<1>4. QED
    BY <1>1, <1>2, <1>3
       DEF Next, Worker, Accept, Close, Request, HandleWakeup, StopServer,
           AddEndpoint, DeleteEndpoint, vars, workerVars

-----------------------------------------------------------------------------
(* A closed connection stays closed.                                       *)
LEMMA ClosedIsFinal ==
    TypeOK /\ LiveIds /\ [Next]_vars
    => \A r \in Ids : phase[r] = "closed" => phase'[r] = "closed"
<1> SUFFICES ASSUME TypeOK, LiveIds, [Next]_vars,
                    NEW r \in Ids, phase[r] = "closed"
             PROVE  phase'[r] = "closed"
    OBVIOUS
<1>1. ASSUME NEW p \in Pointers, Accept(p) PROVE phase'[r] = "closed"
  <2>1. phase[nextId] = "none"
      BY <1>1 DEF Accept, TypeOK, LiveIds, Ids
  <2>2. QED
      BY <1>1, <2>1 DEF Accept, TypeOK
<1>2. ASSUME NEW p \in Pointers, Close(p) PROVE phase'[r] = "closed"
    BY <1>2 DEF Close, TypeOK, LiveIds
<1>3. ASSUME NEW p \in Pointers, NEW e \in AllPoints, Request(p, e)
      PROVE  phase'[r] = "closed"
    BY <1>3 DEF Request, AnswerNow, DoReply, DoReplyThreaded, TypeOK, LiveIds
<1>4. ASSUME NEW i \in Ids, HandleWakeup(i) PROVE phase'[r] = "closed"
    BY <1>4 DEF HandleWakeup, DoReply, TypeOK, LiveIds
<1>5. CASE StopServer
    BY <1>5 DEF StopServer
<1>6. CASE UNCHANGED phase
    BY <1>6
<1>7. QED
    BY <1>1, <1>2, <1>3, <1>4, <1>5, <1>6
       DEF Next, Worker, AddEndpoint, DeleteEndpoint, Fetch, Lookup, Push,
           Wakeup, vars

(* Of after a step, for an address and a request from before it.           *)
StillOf(p, r) == phase'[r] = "closed" \/ (p \in live' /\ id'[p] = r)

(* What was of the connection at an address, or of a closed one, remains   *)
(* so: an address is given out again only after its connection closed.     *)
LEMMA OfIsStable ==
    TypeOK /\ LiveIds /\ [Next]_vars
    => \A p \in Pointers, r \in Ids : Of(p, r) => StillOf(p, r)
<1> SUFFICES ASSUME TypeOK, LiveIds, [Next]_vars,
                    NEW p \in Pointers, NEW r \in Ids, Of(p, r)
             PROVE  StillOf(p, r)
    OBVIOUS
<1>1. CASE phase[r] = "closed"
    BY <1>1, ClosedIsFinal DEF StillOf
<1>2. CASE p \in live /\ id[p] = r
  <2>1. ASSUME NEW q \in Pointers, Accept(q) PROVE StillOf(p, r)
      BY <1>2, <2>1 DEF Accept, TypeOK, StillOf
  <2>2. ASSUME NEW q \in Pointers, Close(q) PROVE StillOf(p, r)
      BY <1>2, <2>2 DEF Close, TypeOK, StillOf
  <2>3. CASE StopServer
      BY <1>2, <2>3 DEF StopServer, StillOf
  <2>4. CASE UNCHANGED <<live, id>>
      BY <1>2, <2>4 DEF StillOf
  <2>5. QED
      BY <2>1, <2>2, <2>3, <2>4
         DEF Next, Worker, Request, HandleWakeup, AddEndpoint,
             DeleteEndpoint, Fetch, Lookup, Push, Wakeup, serverVars, vars
<1>3. QED
    BY <1>1, <1>2 DEF Of

-----------------------------------------------------------------------------
(* DoReplyThreaded gives the pool a lambda for the connection that asks.   *)
LEMMA NextJobsAreTheirs ==
    TypeOK /\ LiveIds /\ JobsAreTheirs /\ [Next]_vars => JobsAreTheirs'
<1> SUFFICES ASSUME TypeOK, LiveIds, JobsAreTheirs, [Next]_vars
             PROVE  JobsAreTheirs'
    OBVIOUS
<1>1. \A k \in 1 .. Len(jobs) : StillOf(jobs[k].ptr, jobs[k].req)
  <2>1. \A k \in 1 .. Len(jobs) : jobs[k] \in Job
      BY DEF TypeOK
  <2>2. QED
      BY <2>1, OfIsStable DEF JobsAreTheirs, Job
<1>2. CASE UNCHANGED jobs
    BY <1>1, <1>2 DEF JobsAreTheirs, StillOf, Of
<1>3. ASSUME NEW p \in Pointers, NEW e \in AllPoints, Request(p, e),
             NEW auth \in BOOLEAN, NEW multipart \in BOOLEAN,
             DoReplyThreaded(p, e, auth, multipart)
      PROVE  JobsAreTheirs'
  <2> DEFINE job == [ptr |-> p, req |-> id[p], point |-> e]
  <2>1. /\ Len(jobs') = Len(jobs) + 1 /\ Len(jobs) \in Nat
        /\ \A k \in 1 .. Len(jobs) : jobs'[k] = jobs[k]
        /\ jobs'[Len(jobs) + 1] = job
      BY <1>3 DEF DoReplyThreaded, TypeOK
  <2>2. StillOf(job.ptr, job.req)
      BY <1>3 DEF Request, serverVars, StillOf
  <2>3. QED
      BY <1>1, <2>1, <2>2 DEF JobsAreTheirs, StillOf, Of
<1>4. ASSUME NEW w \in Workers, Fetch(w) PROVE JobsAreTheirs'
  <2>1. /\ Len(jobs') = Len(jobs) - 1 /\ Len(jobs) \in Nat
        /\ \A k \in 1 .. Len(jobs') : jobs'[k] = jobs[k + 1]
      BY <1>4 DEF Fetch, TypeOK
  <2>2. QED
      BY <1>1, <2>1 DEF JobsAreTheirs, StillOf, Of
<1>5. QED
    BY <1>2, <1>3, <1>4
       DEF Next, Worker, Accept, Close, Request, AnswerNow, HandleWakeup,
           StopServer, AddEndpoint, DeleteEndpoint, Lookup, Push, Wakeup, vars

(* A worker runs the lambda it fetched, whatever closes meanwhile.         *)
LEMMA NextWorkersAreTheirs ==
    /\ TypeOK /\ LiveIds /\ WorkersHaveJobs /\ JobsAreTheirs
    /\ WorkersAreTheirs /\ [Next]_vars
    => WorkersAreTheirs'
<1> SUFFICES ASSUME TypeOK, LiveIds, WorkersHaveJobs, JobsAreTheirs,
                    WorkersAreTheirs, [Next]_vars
             PROVE  WorkersAreTheirs'
    OBVIOUS
<1>1. \A w \in Workers :
        wpc[w] # "idle" => StillOf(wjob[w].ptr, wjob[w].req)
    BY OfIsStable DEF WorkersHaveJobs, WorkersAreTheirs, Job
<1>2. CASE UNCHANGED workerVars
    BY <1>1, <1>2 DEF workerVars, WorkersAreTheirs, StillOf, Of
<1>3. ASSUME NEW w \in Workers, Fetch(w) PROVE WorkersAreTheirs'
  <2>1. /\ Head(jobs) = jobs[1] /\ 1 \in 1 .. Len(jobs) /\ jobs[1] \in Job
      BY <1>3 DEF Fetch, TypeOK
  <2>2. StillOf(jobs[1].ptr, jobs[1].req)
      BY <2>1, OfIsStable DEF JobsAreTheirs, Job
  <2>3. QED
      BY <1>1, <1>3, <2>1, <2>2
         DEF Fetch, TypeOK, WorkersAreTheirs, StillOf, Of
<1>4. ASSUME NEW w \in Workers, Lookup(w) \/ Push(w) \/ Wakeup(w)
      PROVE  WorkersAreTheirs'
    BY <1>1, <1>4
       DEF Lookup, Push, Wakeup, TypeOK, WorkersAreTheirs, StillOf, Of
<1>5. QED
    BY <1>2, <1>3, <1>4
       DEF Next, Worker, Accept, Close, Request, HandleWakeup, StopServer,
           AddEndpoint, DeleteEndpoint, vars, workerVars

(* A response is queued under the address of its own connection, if that   *)
(* is still there; the queue of a closed connection is erased.             *)
LEMMA NextResponsesAreTheirs ==
    /\ TypeOK /\ LiveIds /\ WorkersHaveJobs /\ WorkersAreTheirs
    /\ ResponsesAreTheirs /\ [Next]_vars
    => ResponsesAreTheirs'
<1> SUFFICES ASSUME TypeOK, LiveIds, WorkersHaveJobs, WorkersAreTheirs,
                    ResponsesAreTheirs, [Next]_vars
             PROVE  ResponsesAreTheirs'
    OBVIOUS
<1>1. \A p \in DOMAIN connQueue : \A k \in 1 .. Len(connQueue[p]) :
        StillOf(p, connQueue[p][k])
    BY OfIsStable DEF TypeOK, ResponsesAreTheirs
<1>2. CASE UNCHANGED connQueue
    BY <1>1, <1>2 DEF ResponsesAreTheirs, StillOf, Of
<1>3. ASSUME NEW p \in Pointers, NEW e \in AllPoints,
             NEW auth \in BOOLEAN, NEW multipart \in BOOLEAN,
             DoReplyThreaded(p, e, auth, multipart)
      PROVE  ResponsesAreTheirs'
    BY <1>1, <1>3 DEF DoReplyThreaded, ResponsesAreTheirs, StillOf, Of
<1>4. ASSUME NEW p \in Pointers, Close(p) PROVE ResponsesAreTheirs'
    BY <1>1, <1>4 DEF Close, ResponsesAreTheirs, StillOf, Of
<1>5. CASE StopServer
    BY <1>5 DEF StopServer, ResponsesAreTheirs
<1>6. ASSUME NEW i \in Ids, HandleWakeup(i), ~UNCHANGED connQueue
      PROVE  ResponsesAreTheirs'
  <2>1. PICK p \in DOMAIN connQueue :
          /\ connQueue[p] # <<>>
          /\ connQueue' = [connQueue EXCEPT ![p] = Tail(@)]
      BY <1>6 DEF HandleWakeup
  <2>2. /\ Len(connQueue'[p]) = Len(connQueue[p]) - 1
        /\ Len(connQueue[p]) \in Nat
        /\ \A k \in 1 .. Len(connQueue'[p]) :
              connQueue'[p][k] = connQueue[p][k + 1]
      BY <2>1 DEF TypeOK
  <2>3. QED
      BY <1>1, <2>1, <2>2 DEF ResponsesAreTheirs, StillOf, Of
<1>7. ASSUME NEW w \in Workers, Push(w) PROVE ResponsesAreTheirs'
  <2>1. StillOf(wjob[w].ptr, wjob[w].req) /\ wjob[w].req \in Ids
      BY <1>7, OfIsStable
         DEF Push, WorkersHaveJobs, WorkersAreTheirs, Job
  <2>2. ASSUME NEW p \in DOMAIN connQueue, p = wjob[w].ptr
        PROVE  /\ Len(connQueue'[p]) = Len(connQueue[p]) + 1
               /\ Len(connQueue[p]) \in Nat
               /\ \A k \in 1 .. Len(connQueue[p]) :
                     connQueue'[p][k] = connQueue[p][k]
               /\ connQueue'[p][Len(connQueue[p]) + 1] = wjob[w].req
      BY <1>7, <2>1, <2>2 DEF Push, TypeOK
  <2>3. /\ DOMAIN connQueue' = DOMAIN connQueue
        /\ \A p \in DOMAIN connQueue :
              p # wjob[w].ptr => connQueue'[p] = connQueue[p]
      BY <1>7 DEF Push
  <2>4. QED
      BY <1>1, <2>1, <2>2, <2>3 DEF ResponsesAreTheirs, StillOf, Of
<1>8. QED
    BY <1>2, <1>3, <1>4, <1>5, <1>6, <1>7
       DEF Next, Worker, Accept, Request, AnswerNow, AddEndpoint,
           DeleteEndpoint, Fetch, Lookup, Wakeup, vars

-----------------------------------------------------------------------------
(* What is handed to DoReply is of the connection it is handed to, or of   *)
(* one that has closed.                                                    *)
LEMMA NextOnlyOrphansGoAstray ==
    /\ TypeOK /\ LiveIds /\ ResponsesAreTheirs /\ OnlyOrphansGoAstray
    /\ [Next]_vars
    => OnlyOrphansGoAstray'
<1> SUFFICES ASSUME TypeOK, LiveIds, ResponsesAreTheirs,
                    OnlyOrphansGoAstray, [Next]_vars
             PROVE  OnlyOrphansGoAstray'
    OBVIOUS
<1>1. \A i \in Ids : \A k \in 1 .. Len(replies[i]) :
        replies[i][k] # i => phase'[replies[i][k]] = "closed"
  <2>1. \A i \in Ids : \A k \in 1 .. Len(replies[i]) : replies[i][k] \in Ids
      BY DEF TypeOK
  <2>2. QED
      BY <2>1, ClosedIsFinal DEF OnlyOrphansGoAstray
<1>2. CASE UNCHANGED replies
    BY <1>1, <1>2 DEF OnlyOrphansGoAstray
<1>3. ASSUME NEW p \in Pointers, NEW resp \in Ids, p \in live,
             DoReply(p, resp), Of(p, resp)
      PROVE  OnlyOrphansGoAstray'
  <2>1. resp # id[p] => phase'[resp] = "closed"
      BY <1>3, ClosedIsFinal DEF Of
  <2>2. id[p] \in Ids
      BY <1>3 DEF LiveIds
  <2>3. /\ Len(replies'[id[p]]) = Len(replies[id[p]]) + 1
        /\ Len(replies[id[p]]) \in Nat
        /\ \A k \in 1 .. Len(replies[id[p]]) :
              replies'[id[p]][k] = replies[id[p]][k]
        /\ replies'[id[p]][Len(replies[id[p]]) + 1] = resp
      BY <1>3, <2>2 DEF DoReply, TypeOK
  <2>4. \A i \in Ids : i # id[p] => replies'[i] = replies[i]
      BY <1>3 DEF DoReply, TypeOK
  <2>5. QED
      BY <1>1, <2>1, <2>2, <2>3, <2>4 DEF OnlyOrphansGoAstray
<1>4. ASSUME NEW p \in Pointers, NEW e \in AllPoints, Request(p, e),
             NEW auth \in BOOLEAN, NEW multipart \in BOOLEAN,
             AnswerNow(p, e, auth, multipart)
      PROVE  OnlyOrphansGoAstray'
    BY <1>3, <1>4 DEF Request, AnswerNow, Of, LiveIds
<1>5. ASSUME NEW i \in Ids, HandleWakeup(i), ~UNCHANGED replies
      PROVE  OnlyOrphansGoAstray'
  <2>1. PICK p \in live \cap DOMAIN connQueue :
          connQueue[p] # <<>> /\ DoReply(p, Head(connQueue[p]))
      BY <1>5 DEF HandleWakeup
  <2>2. /\ Head(connQueue[p]) = connQueue[p][1]
        /\ 1 \in 1 .. Len(connQueue[p]) /\ Head(connQueue[p]) \in Ids
      BY <2>1 DEF TypeOK
  <2>3. Of(p, Head(connQueue[p]))
      BY <2>1, <2>2 DEF ResponsesAreTheirs
  <2>4. QED
      BY <1>3, <2>1, <2>2, <2>3 DEF TypeOK
<1>6. QED
    BY <1>2, <1>4, <1>5
       DEF Next, Worker, Accept, Close, Request, DoReplyThreaded, StopServer,
           AddEndpoint, DeleteEndpoint, Fetch, Lookup, Push, Wakeup, vars

-----------------------------------------------------------------------------
(* The workers of a pool can be counted.                                   *)
LEMMA AboutToWakeFinite ==
    ASSUME NEW p
    PROVE  /\ IsFiniteSet(AboutToWake(p))
           /\ Cardinality(AboutToWake(p)) \in Nat
BY ReplyAssumption, FS_Subset, FS_CardinalityType DEF AboutToWake

(* The count behind NoStrandedResponse: a push adds one response and one   *)
(* worker that is about to wake, who then turns into a wakeup; a wakeup is *)
(* consumed with one response, or finds none.                              *)
LEMMA NextNoStrandedResponse ==
    /\ TypeOK /\ QueuesAreOfLiveConnections /\ LiveIds /\ StoppedIsEmpty
    /\ NoStrandedResponse /\ [Next]_vars
    => NoStrandedResponse'
<1> SUFFICES ASSUME TypeOK, QueuesAreOfLiveConnections, LiveIds,
                    StoppedIsEmpty, NoStrandedResponse, [Next]_vars
             PROVE  NoStrandedResponse'
    OBVIOUS
<1> DEFINE Coming(p) == Cardinality(AboutToWake(p))
           Hints(p) == wakeups[id[p]]
<1>0. \A p \in DOMAIN connQueue :
        /\ Len(connQueue[p]) \in Nat /\ Hints(p) \in Nat /\ Coming(p) \in Nat
        /\ p \in live /\ id[p] \in Ids
        /\ Len(connQueue[p]) <= Hints(p) + Coming(p)
    BY AboutToWakeFinite
       DEF TypeOK, QueuesAreOfLiveConnections, LiveIds, NoStrandedResponse
<1>1. CASE UNCHANGED <<connQueue, wakeups, id, wpc, wjob>>
    BY <1>1 DEF NoStrandedResponse, AboutToWake
<1>2. ASSUME NEW p \in Pointers, Accept(p) PROVE NoStrandedResponse'
  <2>1. \A q \in DOMAIN connQueue : id'[q] = id[q]
      BY <1>0, <1>2 DEF Accept, TypeOK
  <2>2. QED
      BY <1>2, <2>1 DEF Accept, workerVars, NoStrandedResponse, AboutToWake
<1>3. ASSUME NEW p \in Pointers, Close(p) PROVE NoStrandedResponse'
    BY <1>3 DEF Close, workerVars, NoStrandedResponse, AboutToWake
<1>4. CASE StopServer
    BY <1>4 DEF StopServer, NoStrandedResponse
<1>5. ASSUME NEW p \in Pointers, NEW e \in AllPoints, Request(p, e),
             NEW auth \in BOOLEAN, NEW multipart \in BOOLEAN,
             DoReplyThreaded(p, e, auth, multipart)
      PROVE  NoStrandedResponse'
  <2>1. UNCHANGED <<wakeups, id, wpc, wjob>> /\ p \in live
      BY <1>5 DEF Request, serverVars, workerVars
  <2>2. \A q \in DOMAIN connQueue' :
          \/ q \in DOMAIN connQueue /\ connQueue'[q] = connQueue[q]
          \/ q = p /\ connQueue'[q] = <<>>
      BY <1>5 DEF DoReplyThreaded
  <2>3. Hints(p) \in Nat /\ Coming(p) \in Nat
      BY <2>1, AboutToWakeFinite DEF TypeOK, LiveIds
  <2>4. ASSUME NEW q \in DOMAIN connQueue'
        PROVE  Len(connQueue'[q]) <= Hints(q) + Coming(q)
      BY <1>0, <2>2, <2>3, <2>4
  <2>5. QED
      BY <2>1, <2>4 DEF NoStrandedResponse, AboutToWake
<1>6. ASSUME NEW i \in Ids, HandleWakeup(i) PROVE NoStrandedResponse'
  <2>1. /\ UNCHANGED <<id, wpc, wjob>>
        /\ wakeups' = [wakeups EXCEPT ![i] = @ - 1] /\ wakeups[i] > 0
      BY <1>6 DEF HandleWakeup, serverVars, workerVars
  <2>2. ASSUME NEW q \in DOMAIN connQueue
        PROVE  Len(connQueue'[q]) <= wakeups'[id[q]] + Coming(q)
    <3>1. CASE id[q] # i
      <4>1. connQueue'[q] = connQueue[q]
          BY <1>6, <3>1 DEF HandleWakeup
      <4>2. wakeups'[id[q]] = wakeups[id[q]]
          BY <1>0, <2>1, <3>1 DEF TypeOK
      <4>3. QED
          BY <1>0, <4>1, <4>2
    <3>2. CASE id[q] = i
      <4>1. wakeups'[id[q]] = wakeups[id[q]] - 1 /\ wakeups'[id[q]] \in Nat
          BY <2>1, <3>2 DEF TypeOK
      <4>2. \/ connQueue[q] # <<>> /\ connQueue'[q] = Tail(connQueue[q])
            \/ connQueue'[q] = <<>>
          BY <1>0, <1>6, <3>2 DEF HandleWakeup, LiveIds
      <4>3. \/ Len(connQueue'[q]) = Len(connQueue[q]) - 1
            \/ Len(connQueue'[q]) = 0
          BY <4>2 DEF TypeOK
      <4>4. QED
          BY <1>0, <4>1, <4>3
    <3>3. QED
        BY <3>1, <3>2
  <2>3. DOMAIN connQueue' = DOMAIN connQueue
      BY <1>6 DEF HandleWakeup
  <2>4. QED
      BY <2>1, <2>2, <2>3 DEF NoStrandedResponse, AboutToWake
<1>7. ASSUME NEW w \in Workers, Fetch(w) \/ Lookup(w)
      PROVE  NoStrandedResponse'
  <2>1. UNCHANGED <<id, wakeups, connQueue>>
      BY <1>7 DEF Fetch, Lookup, serverVars
  <2>2. ASSUME NEW p \in DOMAIN connQueue
        PROVE  Len(connQueue[p]) <= wakeups[id[p]]
                                    + Cardinality(AboutToWake(p)')
    <3>1. AboutToWake(p)' = AboutToWake(p)
        BY <1>7 DEF Fetch, Lookup, TypeOK, AboutToWake
    <3>2. QED
        BY <1>0, <3>1
  <2>3. QED
      BY <2>1, <2>2 DEF NoStrandedResponse
<1>8. ASSUME NEW w \in Workers, Push(w) PROVE NoStrandedResponse'
  <2>1. DOMAIN connQueue' = DOMAIN connQueue /\ UNCHANGED <<id, wakeups>>
      BY <1>8 DEF Push, serverVars
  <2>2. ASSUME NEW p \in DOMAIN connQueue
        PROVE  Len(connQueue'[p]) <= wakeups[id[p]]
                                     + Cardinality(AboutToWake(p)')
    <3>1. CASE p # wjob[w].ptr
      <4>1. AboutToWake(p)' = AboutToWake(p) /\ connQueue'[p] = connQueue[p]
          BY <1>8, <3>1 DEF Push, TypeOK, AboutToWake
      <4>2. QED
          BY <1>0, <4>1
    <3>2. CASE p = wjob[w].ptr
      <4>1. AboutToWake(p)' = AboutToWake(p) \cup {w} /\ w \notin AboutToWake(p)
          BY <1>8, <3>2 DEF Push, TypeOK, AboutToWake
      <4>2. Cardinality(AboutToWake(p)') = Coming(p) + 1
          BY <4>1, AboutToWakeFinite, FS_AddElement
      <4>3. Len(connQueue'[p]) = Len(connQueue[p]) + 1
          BY <1>8, <3>2 DEF Push, TypeOK
      <4>4. QED
          BY <1>0, <4>2, <4>3
    <3>3. QED
        BY <3>1, <3>2
  <2>3. QED
      BY <2>1, <2>2 DEF NoStrandedResponse
<1>9. ASSUME NEW w \in Workers, Wakeup(w) PROVE NoStrandedResponse'
  <2>1. UNCHANGED <<id, connQueue>>
      BY <1>9 DEF Wakeup, serverVars
  <2>2. ASSUME NEW p \in DOMAIN connQueue
        PROVE  Len(connQueue[p]) <= wakeups'[id[p]]
                                    + Cardinality(AboutToWake(p)')
    <3>1. wakeups'[id[p]] \in Nat /\ wakeups'[id[p]] >= wakeups[id[p]]
      <4>1. PICK i : wakeups' = [wakeups EXCEPT
                                   ![i] = IF running THEN @ + 1 ELSE @]
          BY <1>9 DEF Wakeup
      <4>2. QED
          BY <1>0, <4>1 DEF TypeOK
    <3>2. CASE p # wjob[w].ptr
      <4>1. AboutToWake(p)' = AboutToWake(p)
          BY <1>9, <3>2 DEF Wakeup, TypeOK, AboutToWake
      <4>2. QED
          BY <1>0, <3>1, <4>1
    <3>3. CASE p = wjob[w].ptr
      <4>1. AboutToWake(p)' = AboutToWake(p) \ {w} /\ w \in AboutToWake(p)
          BY <1>9, <3>3 DEF Wakeup, TypeOK, AboutToWake
      <4>2. Cardinality(AboutToWake(p)') = Coming(p) - 1
          BY <4>1, AboutToWakeFinite, FS_RemoveElement
      <4>3. wakeups'[id[p]] = wakeups[id[p]] + 1
          BY <1>0, <1>9, <3>3 DEF Wakeup, TypeOK, StoppedIsEmpty
      <4>4. QED
          BY <1>0, <4>2, <4>3
    <3>4. QED
        BY <3>2, <3>3
  <2>3. QED
      BY <2>1, <2>2 DEF NoStrandedResponse
<1>10. QED
    BY <1>1, <1>2, <1>3, <1>4, <1>5, <1>6, <1>7, <1>8, <1>9
       DEF Next, Worker, Request, AnswerNow, AddEndpoint, DeleteEndpoint,
           serverVars, workerVars, vars

-----------------------------------------------------------------------------
(* Every step preserves the invariant.                                     *)
LEMMA NextIInv == IInv /\ [Next]_vars => IInv'
BY NextTypeOK, NextLiveIds, NextQueues, NextWorkersHaveJobs,
   NextJobsAreTheirs, NextWorkersAreTheirs, NextResponsesAreTheirs,
   NextOnlyOrphansGoAstray, NextNoStrandedResponse DEF IInv

(* The inductive invariant holds in every reachable state.                 *)
LEMMA ReplyInvariant == Spec => []IInv
<1>1. QED
    BY InitIInv, NextIInv, PTL DEF Spec

(* Every variable keeps its type: in particular ids, lambdas and responses *)
(* are only ever of connections that were accepted.                        *)
THEOREM ReplyTypeCorrect == Spec => []TypeOK
<1>1. IInv => TypeOK
    BY DEF IInv
<1>2. QED
    BY <1>1, ReplyInvariant, PTL

(* m_mConnectionQueue never holds an address without a connection, however *)
(* closes, requests and late workers interleave.                           *)
THEOREM ReplyQueuesAreOfLiveConnections ==
    Spec => []QueuesAreOfLiveConnections
<1>1. IInv => QueuesAreOfLiveConnections
    BY DEF IInv
<1>2. QED
    BY <1>1, ReplyInvariant, PTL

(* No response waits without a hint: for each one in a queue there is a    *)
(* wakeup in the pipe, or a worker that is about to send one.              *)
THEOREM ReplyNoStrandedResponse == Spec => []NoStrandedResponse
<1>1. IInv => NoStrandedResponse
    BY DEF IInv
<1>2. QED
    BY <1>1, ReplyInvariant, PTL

(* A response that reaches another client than the one that asked was made *)
(* for a connection that has closed: clients that stay get their own.      *)
THEOREM ReplyOnlyOrphansGoAstray == Spec => []OnlyOrphansGoAstray
<1>1. IInv => OnlyOrphansGoAstray
    BY DEF IInv
<1>2. QED
    BY <1>1, ReplyInvariant, PTL

-----------------------------------------------------------------------------
(* Where a request is, or its response: in a lambda that waits, in one     *)
(* that a worker runs and has not pushed, in a queue, or handed to DoReply.*)
Waits(k, r) == k \in 1 .. Len(jobs) /\ jobs[k].req = r
Runs(w, r) == w \in Workers /\ wpc[w] \in {"lookup", "call"} /\ wjob[w].req = r
Queues(p, k, r) ==
    p \in DOMAIN connQueue /\ k \in 1 .. Len(connQueue[p]) /\ connQueue[p][k] = r
Sent(i, k, r) == i \in Ids /\ k \in 1 .. Len(replies[i]) /\ replies[i][k] = r

AnyWaits(r) == \E k : Waits(k, r)
AnyRuns(r) == \E w : Runs(w, r)
AnyQueues(r) == \E p, k : Queues(p, k, r)
AnySent(r) == \E i, k : Sent(i, k, r)

(* It is in one of them, once, and in none before it was made.             *)
Once(r) ==
    /\ \A k, l : Waits(k, r) /\ Waits(l, r) => k = l
    /\ \A v, w : Runs(v, r) /\ Runs(w, r) => v = w
    /\ \A p, q, k, l : Queues(p, k, r) /\ Queues(q, l, r) => p = q /\ k = l
    /\ \A i, j, k, l : Sent(i, k, r) /\ Sent(j, l, r) => i = j /\ k = l
    /\ AnyWaits(r) => ~AnyRuns(r) /\ ~AnyQueues(r) /\ ~AnySent(r)
    /\ AnyRuns(r) => ~AnyQueues(r) /\ ~AnySent(r)
    /\ AnyQueues(r) => ~AnySent(r)

Nowhere(r) == ~AnyWaits(r) /\ ~AnyRuns(r) /\ ~AnyQueues(r) /\ ~AnySent(r)

OnceInv ==
    \A r \in Ids :
        /\ Once(r)
        /\ phase[r] \in {"none", "open"} => Nowhere(r)

LEMMA InitOnce == Init => OnceInv
<1> SUFFICES ASSUME Init, NEW r \in Ids PROVE Once(r) /\ Nowhere(r)
    BY DEF OnceInv
<1>1. \A k : ~Waits(k, r)
    BY DEF Init, Waits
<1>2. \A w : ~Runs(w, r)
    BY DEF Init, Runs
<1>3. \A p, k : ~Queues(p, k, r)
    BY DEF Init, Queues
<1>4. \A i, k : ~Sent(i, k, r)
    BY DEF Init, Sent
<1>5. QED
    BY <1>1, <1>2, <1>3, <1>4
       DEF Once, Nowhere, AnyWaits, AnyRuns, AnyQueues, AnySent

(* A step that adds no place to those of a request.                        *)
Fewer(r) ==
    /\ \A k : Waits(k, r)' => Waits(k, r)
    /\ \A w : Runs(w, r)' => Runs(w, r)
    /\ \A p, k : Queues(p, k, r)' => Queues(p, k, r)
    /\ \A i, k : Sent(i, k, r)' => Sent(i, k, r)

LEMMA FewerIsOnce ==
    ASSUME NEW r, Once(r), Fewer(r)
    PROVE  Once(r)' /\ (Nowhere(r) => Nowhere(r)')
BY DEF Once, Fewer, Nowhere, AnyWaits, AnyRuns, AnyQueues, AnySent

LEMMA NextOnce ==
    IInv /\ OnceInv /\ [Next]_vars => OnceInv'
<1> SUFFICES ASSUME IInv, OnceInv, [Next]_vars, NEW r \in Ids
             PROVE  /\ Once(r)'
                    /\ phase'[r] \in {"none", "open"} => Nowhere(r)'
    BY DEF OnceInv
<1> USE DEF Waits, Runs, Queues, Sent
<1>0. TypeOK /\ LiveIds /\ WorkersHaveJobs
    BY DEF IInv
<1>1. Once(r) /\ (phase[r] \in {"none", "open"} => Nowhere(r))
    BY DEF OnceInv
<1>2. ASSUME Fewer(r), phase'[r] \in {"none", "open"} => phase[r] \in {"none", "open"}
      PROVE  /\ Once(r)'
             /\ phase'[r] \in {"none", "open"} => Nowhere(r)'
    BY <1>1, <1>2, FewerIsOnce
<1>3. CASE UNCHANGED <<jobs, workerVars, connQueue, replies>>
           /\ (phase'[r] \in {"none", "open"} => phase[r] \in {"none", "open"})
    BY <1>2, <1>3 DEF workerVars, Fewer
<1>4. ASSUME NEW p \in Pointers, Accept(p)
      PROVE  phase'[r] \in {"none", "open"} => phase[r] \in {"none", "open"}
    BY <1>0, <1>4 DEF Accept, TypeOK, LiveIds, Ids
<1>5. ASSUME NEW p \in Pointers, Close(p)
      PROVE  Fewer(r) /\ (phase'[r] \in {"none", "open"} => phase[r] \in {"none", "open"})
    BY <1>0, <1>5 DEF Close, workerVars, TypeOK, Fewer
<1>6. CASE StopServer
  <2>1. Fewer(r)
      BY <1>6 DEF StopServer, workerVars, Fewer
  <2>2. phase'[r] \in {"none", "open"} => phase[r] \in {"none", "open"}
      BY <1>6 DEF StopServer
  <2>3. QED
      BY <1>2, <2>1, <2>2
<1>7. ASSUME NEW p \in Pointers, NEW e \in AllPoints, Request(p, e)
      PROVE  /\ Once(r)'
             /\ phase'[r] \in {"none", "open"} => Nowhere(r)'
  <2>0. id[p] \in Ids /\ phase[id[p]] = "open" /\ UNCHANGED workerVars
      BY <1>0, <1>7 DEF Request, LiveIds
  <2>1. Nowhere(id[p])
      BY <2>0 DEF OnceInv
  <2>2. ASSUME NEW auth \in BOOLEAN, NEW multipart \in BOOLEAN,
               AnswerNow(p, e, auth, multipart)
        PROVE  /\ Once(r)'
               /\ phase'[r] \in {"none", "open"} => Nowhere(r)'
    <3>1. /\ UNCHANGED <<connQueue, jobs>>
          /\ replies' = [replies EXCEPT ![id[p]] = Append(@, id[p])]
          /\ phase' = [phase EXCEPT ![id[p]] = "answered"]
        BY <2>2 DEF AnswerNow, DoReply
    <3>2. /\ \A i \in Ids \ {id[p]} : replies'[i] = replies[i]
          /\ Len(replies'[id[p]]) = Len(replies[id[p]]) + 1
          /\ Len(replies[id[p]]) \in Nat
          /\ \A k \in 1 .. Len(replies[id[p]]) :
                replies'[id[p]][k] = replies[id[p]][k]
          /\ replies'[id[p]][Len(replies[id[p]]) + 1] = id[p]
        BY <1>0, <2>0, <3>1 DEF TypeOK
    <3>3. CASE r # id[p]
      <4>1. Fewer(r)
          BY <2>0, <3>1, <3>2, <3>3 DEF workerVars, Fewer
      <4>2. phase'[r] = phase[r]
          BY <1>0, <3>1, <3>3 DEF TypeOK
      <4>3. QED
          BY <1>2, <4>1, <4>2
    <3>4. CASE r = id[p]
      <4>1. \A k : ~Waits(k, r)'
          BY <2>1, <3>1, <3>4 DEF Nowhere, AnyWaits
      <4>2. \A w : ~Runs(w, r)'
          BY <2>0, <2>1, <3>4 DEF Nowhere, AnyRuns, workerVars
      <4>3. \A q, k : ~Queues(q, k, r)'
          BY <2>1, <3>1, <3>4 DEF Nowhere, AnyQueues
      <4>4. \A i, k : Sent(i, k, r)' => i = id[p] /\ k = Len(replies[id[p]]) + 1
        <5>1. \A i, k : ~Sent(i, k, r)
            BY <2>1, <3>4 DEF Nowhere, AnySent
        <5>2. QED
            BY <3>2, <5>1
      <4>5. phase'[r] = "answered"
          BY <1>0, <2>0, <3>1, <3>4 DEF TypeOK
      <4>6. QED
          BY <4>1, <4>2, <4>3, <4>4, <4>5
             DEF Once, AnyWaits, AnyRuns, AnyQueues, AnySent
    <3>5. QED
        BY <3>3, <3>4
  <2>3. ASSUME NEW auth \in BOOLEAN, NEW multipart \in BOOLEAN,
               DoReplyThreaded(p, e, auth, multipart)
        PROVE  /\ Once(r)'
               /\ phase'[r] \in {"none", "open"} => Nowhere(r)'
    <3>1. /\ UNCHANGED replies
          /\ jobs' = Append(jobs, [ptr |-> p, req |-> id[p], point |-> e])
          /\ phase' = [phase EXCEPT ![id[p]] = "waiting"]
        BY <2>3 DEF DoReplyThreaded
    <3>2. /\ Len(jobs') = Len(jobs) + 1 /\ Len(jobs) \in Nat
          /\ \A k \in 1 .. Len(jobs) : jobs'[k] = jobs[k]
          /\ jobs'[Len(jobs) + 1].req = id[p]
        BY <1>0, <3>1 DEF TypeOK
    <3>3. \A q, k : Queues(q, k, r)' => Queues(q, k, r)
        BY <2>3 DEF DoReplyThreaded
    <3>4. CASE r # id[p]
      <4>1. Fewer(r)
          BY <2>0, <3>1, <3>2, <3>3, <3>4 DEF workerVars, Fewer
      <4>2. phase'[r] = phase[r]
          BY <1>0, <3>1, <3>4 DEF TypeOK
      <4>3. QED
          BY <1>2, <4>1, <4>2
    <3>5. CASE r = id[p]
      <4>1. \A k : Waits(k, r)' => k = Len(jobs) + 1
        <5>1. \A k : ~Waits(k, r)
            BY <2>1, <3>5 DEF Nowhere, AnyWaits
        <5>2. QED
            BY <3>2, <5>1
      <4>2. \A w : ~Runs(w, r)'
          BY <2>0, <2>1, <3>5 DEF Nowhere, AnyRuns, workerVars
      <4>3. \A q, k : ~Queues(q, k, r)'
          BY <2>1, <3>3, <3>5 DEF Nowhere, AnyQueues
      <4>4. \A i, k : ~Sent(i, k, r)'
          BY <2>1, <3>1, <3>5 DEF Nowhere, AnySent
      <4>5. phase'[r] = "waiting"
          BY <1>0, <2>0, <3>1, <3>5 DEF TypeOK
      <4>6. QED
          BY <4>1, <4>2, <4>3, <4>4, <4>5
             DEF Once, AnyWaits, AnyRuns, AnyQueues, AnySent
    <3>6. QED
        BY <3>4, <3>5
  <2>4. QED
      BY <1>7, <2>2, <2>3 DEF Request
(* The first response of a queue becomes the last one handed to DoReply.   *)
<1>8. ASSUME NEW i \in Ids, HandleWakeup(i)
      PROVE  /\ Once(r)'
             /\ phase'[r] \in {"none", "open"} => Nowhere(r)'
  <2>1. UNCHANGED <<jobs, wpc, wjob>>
      BY <1>8 DEF HandleWakeup, workerVars
  <2>2. CASE UNCHANGED <<connQueue, phase, replies>>
      BY <1>3, <2>1, <2>2 DEF workerVars
  <2>3. ASSUME NEW p \in live \cap DOMAIN connQueue, id[p] = i,
               connQueue[p] # <<>>, DoReply(p, Head(connQueue[p])),
               connQueue' = [connQueue EXCEPT ![p] = Tail(@)]
        PROVE  /\ Once(r)'
               /\ phase'[r] \in {"none", "open"} => Nowhere(r)'
    <3>1. PICK h \in Ids : h = connQueue[p][1] /\ h = Head(connQueue[p])
        BY <1>0, <2>3 DEF TypeOK
    <3>2. /\ DOMAIN connQueue' = DOMAIN connQueue
          /\ \A q \in DOMAIN connQueue \ {p} : connQueue'[q] = connQueue[q]
          /\ Len(connQueue'[p]) = Len(connQueue[p]) - 1
          /\ Len(connQueue[p]) \in Nat \ {0}
          /\ \A k \in 1 .. Len(connQueue'[p]) :
                connQueue'[p][k] = connQueue[p][k + 1]
        BY <1>0, <2>3 DEF TypeOK
    <3>3. /\ \A j \in Ids \ {i} : replies'[j] = replies[j]
          /\ Len(replies'[i]) = Len(replies[i]) + 1 /\ Len(replies[i]) \in Nat
          /\ \A k \in 1 .. Len(replies[i]) : replies'[i][k] = replies[i][k]
          /\ replies'[i][Len(replies[i]) + 1] = h
        BY <1>0, <2>3, <3>1 DEF DoReply, TypeOK
    <3>4. phase' = [phase EXCEPT ![i] = "answered"] /\ phase[i] \notin {"none", "closed"}
        BY <1>0, <2>3 DEF DoReply, LiveIds
    <3>5. phase'[r] \in {"none", "open"} => phase[r] \in {"none", "open"}
        BY <1>0, <3>4 DEF TypeOK
    <3>6. \A q, k : Queues(q, k, r)' =>
             \/ q # p /\ Queues(q, k, r)
             \/ q = p /\ k + 1 # 1 /\ k \in Nat /\ Queues(q, k + 1, r)
        BY <3>2
    <3>7. \A j, k : Sent(j, k, r)' =>
             Sent(j, k, r) \/ (j = i /\ k = Len(replies[i]) + 1 /\ r = h)
        BY <3>3
    <3>8. Queues(p, 1, h)
        BY <3>1, <3>2
    <3>9. CASE r = h
      <4>1. /\ \A k : ~Waits(k, r) /\ \A w : ~Runs(w, r)
            /\ \A j, k : ~Sent(j, k, r)
            /\ \A q, k : Queues(q, k, r) => q = p /\ k = 1
            /\ phase[r] \notin {"none", "open"}
          BY <1>1, <3>8, <3>9
             DEF Once, Nowhere, AnyWaits, AnyRuns, AnyQueues, AnySent
      <4>2. \A q, k : ~Queues(q, k, r)'
          BY <3>6, <4>1
      <4>3. \A j, k : Sent(j, k, r)' => j = i /\ k = Len(replies[i]) + 1
          BY <3>7, <4>1
      <4>4. /\ \A k : ~Waits(k, r)' /\ \A w : ~Runs(w, r)'
          BY <2>1, <4>1
      <4>5. QED
          BY <3>5, <4>1, <4>2, <4>3, <4>4
             DEF Once, AnyWaits, AnyRuns, AnyQueues, AnySent
    <3>10. CASE r # h
      <4>1. \A j, k : Sent(j, k, r)' => Sent(j, k, r)
          BY <3>7, <3>10
      <4>2. /\ \A k : Waits(k, r)' => Waits(k, r)
            /\ \A w : Runs(w, r)' => Runs(w, r)
          BY <2>1
      <4>3. AnyQueues(r)' => AnyQueues(r)
          BY <3>6 DEF AnyQueues
      <4>4. \A q, o, k, l : Queues(q, k, r)' /\ Queues(o, l, r)' => q = o /\ k = l
        <5>1. SUFFICES ASSUME NEW q, NEW o, NEW k, NEW l,
                              Queues(q, k, r)', Queues(o, l, r)'
                       PROVE  q = o /\ k = l
            OBVIOUS
        <5>2. PICK m : /\ Queues(q, m, r)
                       /\ \/ q # p /\ m = k
                          \/ q = p /\ m = k + 1 /\ k \in Nat
            BY <3>6, <5>1
        <5>3. PICK n : /\ Queues(o, n, r)
                       /\ \/ o # p /\ n = l
                          \/ o = p /\ n = l + 1 /\ l \in Nat
            BY <3>6, <5>1
        <5>4. q = o /\ m = n
            BY <1>1, <5>2, <5>3 DEF Once
        <5>5. QED
            BY <5>2, <5>3, <5>4
      <4>5. Once(r)' /\ (Nowhere(r) => Nowhere(r)')
        <5> HIDE DEF Waits, Runs, Queues, Sent
        <5>1. QED
            BY <1>1, <4>1, <4>2, <4>3, <4>4
               DEF Once, Nowhere, AnyWaits, AnyRuns, AnyQueues, AnySent
      <4>6. QED
          BY <1>1, <3>5, <4>5
    <3>11. QED
        BY <3>9, <3>10
  <2>4. QED
      BY <1>8, <2>2, <2>3 DEF HandleWakeup
(* The first lambda that waits becomes the one that the worker runs.       *)
<1>9. ASSUME NEW w \in Workers, Fetch(w)
      PROVE  /\ Once(r)'
             /\ phase'[r] \in {"none", "open"} => Nowhere(r)'
  <2>1. /\ wpc[w] = "idle" /\ UNCHANGED <<phase, connQueue, replies>>
        /\ wjob' = [wjob EXCEPT ![w] = Head(jobs)]
        /\ wpc' = [wpc EXCEPT ![w] = "lookup"]
      BY <1>9 DEF Fetch
  <2>2. /\ Len(jobs') = Len(jobs) - 1 /\ Len(jobs) \in Nat \ {0}
        /\ \A k \in 1 .. Len(jobs') : jobs'[k] = jobs[k + 1]
        /\ Head(jobs) = jobs[1]
      BY <1>0, <1>9 DEF Fetch, TypeOK
  <2>3. \A k : Waits(k, r)' => k + 1 # 1 /\ k \in Nat /\ Waits(k + 1, r)
      BY <2>2
  <2>4. \A v : Runs(v, r)' => \/ v # w /\ Runs(v, r)
                              \/ v = w /\ r = jobs[1].req
      BY <1>0, <2>1, <2>2 DEF TypeOK
  <2>5. /\ \A q, k : Queues(q, k, r)' => Queues(q, k, r)
        /\ \A j, k : Sent(j, k, r)' => Sent(j, k, r)
      BY <2>1
  <2>6. CASE r = jobs[1].req
    <3>1. Waits(1, r)
        BY <2>2, <2>6
    <3>2. /\ \A k : Waits(k, r) => k = 1
          /\ \A v : ~Runs(v, r) /\ \A q, k : ~Queues(q, k, r)
          /\ \A j, k : ~Sent(j, k, r) /\ phase[r] \notin {"none", "open"}
        BY <1>1, <3>1
           DEF Once, Nowhere, AnyWaits, AnyRuns, AnyQueues, AnySent
    <3>3. /\ \A k : ~Waits(k, r)'
          /\ \A v : Runs(v, r)' => v = w
          /\ \A q, k : ~Queues(q, k, r)' /\ \A j, l : ~Sent(j, l, r)'
        BY <2>3, <2>4, <2>5, <3>2
    <3>4. QED
        BY <2>1, <3>2, <3>3 DEF Once, AnyWaits, AnyRuns, AnyQueues, AnySent
  <2>7. CASE r # jobs[1].req
    <3>1. \A k, l : Waits(k, r)' /\ Waits(l, r)' => k = l
      <4>1. \A k, l : Waits(k, r)' /\ Waits(l, r)' => k + 1 = l + 1
          BY <1>1, <2>3 DEF Once
      <4>2. \A k : Waits(k, r)' => k \in Nat
          BY <2>3
      <4>3. QED
          BY <4>1, <4>2
    <3>2. AnyWaits(r)' => AnyWaits(r)
        BY <2>3 DEF AnyWaits
    <3>3. \A v : Runs(v, r)' => Runs(v, r)
        BY <2>4, <2>7
    <3>4. Once(r)' /\ (Nowhere(r) => Nowhere(r)')
      <4> HIDE DEF Waits, Runs, Queues, Sent
      <4>1. QED
          BY <1>1, <2>5, <3>1, <3>2, <3>3
             DEF Once, Nowhere, AnyWaits, AnyRuns, AnyQueues, AnySent
    <3>5. QED
        BY <1>1, <2>1, <3>4
  <2>8. QED
      BY <2>6, <2>7
<1>10. ASSUME NEW w \in Workers, Lookup(w) \/ Wakeup(w)
       PROVE  Fewer(r) /\ UNCHANGED phase
    BY <1>0, <1>10 DEF Lookup, Wakeup, TypeOK, Fewer
(* What the worker ran becomes the last response of a queue, or is lost.   *)
<1>11. ASSUME NEW w \in Workers, Push(w)
       PROVE  /\ Once(r)'
              /\ phase'[r] \in {"none", "open"} => Nowhere(r)'
  <2>1. /\ wpc[w] = "call" /\ wpc' = [wpc EXCEPT ![w] = "wakeup"]
        /\ UNCHANGED <<phase, jobs, wjob, replies>>
      BY <1>11 DEF Push
  <2> DEFINE d == wjob[w]
  <2>2. d \in Job /\ d.req \in Ids
      BY <1>0, <2>1 DEF WorkersHaveJobs, Job
  <2>3. /\ DOMAIN connQueue' = DOMAIN connQueue
        /\ \A q \in DOMAIN connQueue \ {d.ptr} : connQueue'[q] = connQueue[q]
        /\ d.ptr \in DOMAIN connQueue =>
              connQueue'[d.ptr] = Append(connQueue[d.ptr], d.req)
      BY <1>11 DEF Push
  <2>4. d.ptr \in DOMAIN connQueue =>
           /\ Len(connQueue'[d.ptr]) = Len(connQueue[d.ptr]) + 1
           /\ Len(connQueue[d.ptr]) \in Nat
           /\ \A k \in 1 .. Len(connQueue[d.ptr]) :
                 connQueue'[d.ptr][k] = connQueue[d.ptr][k]
           /\ connQueue'[d.ptr][Len(connQueue[d.ptr]) + 1] = d.req
    <3>1. \A q \in Seq(Ids), x \in Ids :
             /\ Len(Append(q, x)) = Len(q) + 1 /\ Len(q) \in Nat
             /\ \A k \in 1 .. Len(q) : Append(q, x)[k] = q[k]
             /\ Append(q, x)[Len(q) + 1] = x
        OBVIOUS
    <3>2. d.ptr \in DOMAIN connQueue => connQueue[d.ptr] \in Seq(Ids)
        BY <1>0 DEF TypeOK
    <3>3. QED
        BY <2>2, <2>3, <3>1, <3>2
  <2>5. \A q, k : Queues(q, k, r)' =>
           \/ Queues(q, k, r)
           \/ q = d.ptr /\ k = Len(connQueue[d.ptr]) + 1 /\ r = d.req
      BY <2>3, <2>4
  <2>6. \A v : Runs(v, r)' => v # w /\ Runs(v, r)
      BY <1>0, <2>1 DEF TypeOK
  <2>7. /\ \A k : Waits(k, r)' => Waits(k, r)
        /\ \A j, k : Sent(j, k, r)' => Sent(j, k, r)
      BY <2>1
  <2>8. CASE r = d.req
    <3>1. Runs(w, r)
        BY <2>1, <2>8
    <3>2. /\ \A v : Runs(v, r) => v = w
          /\ \A k : ~Waits(k, r) /\ \A q, l : ~Queues(q, l, r)
          /\ \A j, k : ~Sent(j, k, r) /\ phase[r] \notin {"none", "open"}
        BY <1>1, <3>1
           DEF Once, Nowhere, AnyWaits, AnyRuns, AnyQueues, AnySent
    <3>3. /\ \A v : ~Runs(v, r)' /\ \A k : ~Waits(k, r)'
          /\ \A j, k : ~Sent(j, k, r)'
          /\ \A q, k : Queues(q, k, r)' =>
                q = d.ptr /\ k = Len(connQueue[d.ptr]) + 1
        BY <2>5, <2>6, <2>7, <3>2
    <3>4. QED
        BY <2>1, <3>2, <3>3 DEF Once, AnyWaits, AnyRuns, AnyQueues, AnySent
  <2>9. CASE r # d.req
    <3>1. Fewer(r)
        BY <2>5, <2>6, <2>7, <2>9 DEF Fewer
    <3>2. QED
        BY <1>2, <2>1, <3>1
  <2>10. QED
      BY <2>8, <2>9
<1>12. CASE UNCHANGED vars
    BY <1>3, <1>12 DEF vars, workerVars
<1>13. ASSUME NEW e \in AllPoints, AddEndpoint(e) \/ DeleteEndpoint(e)
       PROVE  UNCHANGED <<phase, jobs, workerVars, connQueue, replies>>
    BY <1>13 DEF AddEndpoint, DeleteEndpoint
<1>14. ASSUME NEW p \in Pointers, Accept(p)
       PROVE  UNCHANGED <<jobs, workerVars, connQueue, replies>>
    BY <1>14 DEF Accept
<1>15. QED
  <2>1. CASE \E p \in Pointers : Accept(p)
      BY <1>3, <1>4, <1>14, <2>1
  <2>2. CASE \E p \in Pointers : Close(p)
      BY <1>2, <1>5, <2>2
  <2>3. CASE \E e \in AllPoints : AddEndpoint(e) \/ DeleteEndpoint(e)
      BY <1>3, <1>13, <2>3
  <2>4. CASE \E w \in Workers : Worker(w)
      BY <1>2, <1>9, <1>10, <1>11, <2>4 DEF Worker
  <2>5. QED
      BY <1>6, <1>7, <1>8, <1>12, <2>1, <2>2, <2>3, <2>4 DEF Next

(* No client is sent the response to its request twice, through whatever   *)
(* lambda, queue and wakeup it came.                                       *)
THEOREM ReplyAtMostOneReply == Spec => []AtMostOneReply
<1>1. IInv /\ OnceInv => AtMostOneReply
  <2>1. SUFFICES ASSUME TypeOK, OnceInv, NEW i \in Ids
                 PROVE  Cardinality({k \in 1 .. Len(replies[i]) :
                                       replies[i][k] = i}) <= 1
      BY DEF IInv, AtMostOneReply
  <2> DEFINE S == {k \in 1 .. Len(replies[i]) : replies[i][k] = i}
  <2>2. \A k, l \in S : k = l
      BY <2>1 DEF OnceInv, Once, Sent
  <2>3. Cardinality(S) <= 1
    <3> HIDE DEF S
    <3>1. CASE S = {}
        BY <3>1, FS_EmptySet
    <3>2. CASE S # {}
      <4>1. PICK k \in S : TRUE
          BY <3>2
      <4>2. S = {k}
          BY <2>2, <4>1
      <4>3. Cardinality(S) = 1
          BY <4>2, FS_Singleton
      <4>4. QED
          BY <4>3
    <3>3. QED
        BY <3>1, <3>2
  <2>4. QED
      BY <2>3
<1>2. Spec => [](IInv /\ OnceInv)
    BY InitIInv, NextIInv, InitOnce, NextOnce, PTL DEF Spec
<1>3. QED
    BY <1>1, <1>2, PTL
=============================================================================
