--------------------------- MODULE ThreadedReply ---------------------------
(***************************************************************************)
(* How MongooseServer answers an API request, in particular one whose      *)
(* endpoint was added with bUseThread: the server thread dispatches the    *)
(* request to the thread pool, a worker runs the callback, leaves the      *)
(* response in a queue kept under the ADDRESS of the connection, and wakes *)
(* the server thread through Mongoose's wakeup pipe with the connection's  *)
(* id.                                                                     *)
(*                                                                         *)
(* Actors: the server thread (Accept, Request, Close, HandleWakeup,        *)
(* StopServer), the workers, and any thread that changes the endpoint      *)
(* tables. Each critical section of m_mutexEndpoints and of                *)
(* m_mutexConnectionQueue is one step. A connection carries one request in *)
(* its life, because Mongoose does not parse another one before the first  *)
(* response is marked complete, which Restgoose never does: a request is   *)
(* named by the id of its connection.                                      *)
(***************************************************************************)
EXTENDS Naturals, Sequences, FiniteSets

CONSTANTS
    Pointers,     \* the addresses mg_connection objects can have
    MaxId,        \* connections accepted during a run (bounds the model)
    Workers,      \* threads of the pool
    Points,       \* methodpoints of AddEndpoint
    ExPoints,     \* methodpoints of AddEndpointEx
    NoPointer, NoPoint

ASSUME ReplyAssumption ==
    /\ MaxId \in Nat
    /\ IsFiniteSet(Workers)
    /\ NoPointer \notin Pointers
    /\ NoPoint \notin Points \cup ExPoints

Ids == 1 .. MaxId
AllPoints == Points \cup ExPoints

VARIABLES
    running,    \* m_bLoop: the server thread is in Loop
    live,       \* the addresses at which there is a connection
    id,         \* pConnection->id as it stands in memory at each address
    nextId,     \* the id Mongoose gives to the next connection
    phase,      \* per connection: "none", "open", "waiting", "answered", "closed"
    table,      \* m_mEndpoints, m_mEndpointExs: "none", "server", "thread"
    connQueue,  \* m_mConnectionQueue, a queue of responses per known address
    jobs,       \* the lambdas waiting in the thread pool
    wpc, wjob,  \* where each worker is, and the lambda it runs
    wakeups,    \* wakeup messages in the pipe, per connection id
    replies,    \* history: the responses handed to DoReply, per connection
    dropped     \* history: requests whose lambda found no endpoint

vars == <<running, live, id, nextId, phase, table, connQueue, jobs, wpc, wjob,
          wakeups, replies, dropped>>

serverVars == <<running, live, id, nextId>>
workerVars == <<wpc, wjob>>

Job == [ptr : Pointers, req : Ids, point : AllPoints]
NoJob == [ptr |-> NoPointer, req |-> 0, point |-> NoPoint]

Init ==
    /\ running = TRUE
    /\ live = {}
    /\ id = [p \in Pointers |-> 0]
    /\ nextId = 1
    /\ phase = [i \in Ids |-> "none"]
    /\ table \in [AllPoints -> {"none", "server", "thread"}]
    /\ connQueue = [p \in {} |-> <<>>]
    /\ jobs = <<>>
    /\ wpc = [w \in Workers |-> "idle"]
    /\ wjob = [w \in Workers |-> NoJob]
    /\ wakeups = [i \in Ids |-> 0]
    /\ replies = [i \in Ids |-> <<>>]
    /\ dropped = {}

-----------------------------------------------------------------------------
(* The server thread.                                                      *)
(* A client connects: Mongoose allocates the connection at a free address, *)
(* also at one that a lambda still refers to.                              *)
Accept(p) ==
    /\ running
    /\ p \notin live
    /\ nextId \in Ids
    /\ live' = live \cup {p}
    /\ id' = [id EXCEPT ![p] = nextId]
    /\ nextId' = nextId + 1
    /\ phase' = [phase EXCEPT ![nextId] = "open"]
    /\ UNCHANGED <<running, table, connQueue, jobs, workerVars, wakeups,
                   replies, dropped>>

DoReply(p, resp) ==
    /\ replies' = [replies EXCEPT ![id[p]] = Append(@, resp)]
    /\ phase' = [phase EXCEPT ![id[p]] = "answered"]

(* A request whose answer is made in the server thread: not authorised,    *)
(* no such endpoint, or a callback that is not threaded. EventHttpApi-     *)
(* Multipart does not look at the wildcard endpoints.                      *)
Visible(e, multipart) == e \in Points \/ ~multipart

AnswerNow(p, e, auth, multipart) ==
    /\ ~auth \/ ~Visible(e, multipart) \/ table[e] # "thread"
    /\ DoReply(p, id[p])
    /\ UNCHANGED <<connQueue, jobs>>

(* DoReplyThreaded, DoReplyExThreaded: make sure there is a queue for the  *)
(* address and give the lambda to the pool.                                *)
DoReplyThreaded(p, e, auth, multipart) ==
    /\ auth /\ Visible(e, multipart) /\ table[e] = "thread"
    /\ connQueue' = [q \in DOMAIN connQueue \cup {p} |->
                        IF q \in DOMAIN connQueue THEN connQueue[q] ELSE <<>>]
    /\ jobs' = Append(jobs, [ptr |-> p, req |-> id[p], point |-> e])
    /\ phase' = [phase EXCEPT ![id[p]] = "waiting"]
    /\ UNCHANGED replies

Request(p, e) ==
    /\ running
    /\ p \in live
    /\ phase[id[p]] = "open"
    /\ \E auth, multipart \in BOOLEAN :
          \/ AnswerNow(p, e, auth, multipart)
          \/ DoReplyThreaded(p, e, auth, multipart)
    /\ UNCHANGED <<serverVars, table, workerVars, wakeups, dropped>>

(* A faulty Close: the queue of the address stays.                         *)
CloseKeepsQueue(p) ==
    /\ running
    /\ p \in live
    /\ live' = live \ {p}
    /\ phase' = [phase EXCEPT ![id[p]] = "closed"]
    /\ UNCHANGED <<running, id, nextId, table, connQueue, jobs, workerVars,
                   wakeups, replies, dropped>>

(* MG_EV_CLOSE: the queue of the address is erased, then Mongoose frees    *)
(* the connection. Its id stays in the freed memory until it is reused.    *)
Close(p) ==
    /\ running
    /\ p \in live
    /\ live' = live \ {p}
    /\ connQueue' = [q \in DOMAIN connQueue \ {p} |-> connQueue[q]]
    /\ phase' = [phase EXCEPT ![id[p]] = "closed"]
    /\ UNCHANGED <<running, id, nextId, table, jobs, workerVars, wakeups,
                   replies, dropped>>

(* Two faulty HandleWakeups: the response it sends stays in the queue.     *)
HandleWakeupKeeps(i) ==
    /\ running
    /\ wakeups[i] > 0
    /\ wakeups' = [wakeups EXCEPT ![i] = @ - 1]
    /\ \E p \in live \cap DOMAIN connQueue :
          id[p] = i /\ connQueue[p] # <<>> /\ DoReply(p, Head(connQueue[p]))
    /\ UNCHANGED <<serverVars, table, connQueue, jobs, workerVars, dropped>>

(* ... or it takes a response of whichever queue has one.                  *)
HandleWakeupOfAny(i) ==
    /\ running
    /\ wakeups[i] > 0
    /\ wakeups' = [wakeups EXCEPT ![i] = @ - 1]
    /\ \E p \in live, q \in DOMAIN connQueue :
          /\ id[p] = i /\ connQueue[q] # <<>>
          /\ DoReply(p, Head(connQueue[q]))
          /\ connQueue' = [connQueue EXCEPT ![q] = Tail(@)]
    /\ UNCHANGED <<serverVars, table, jobs, workerVars, dropped>>

(* MG_EV_WAKEUP reaches the live connection with that id, if there is one; *)
(* HandleThreadedMessage then sends one response of the connection's queue.*)
HandleWakeup(i) ==
    /\ running
    /\ wakeups[i] > 0
    /\ wakeups' = [wakeups EXCEPT ![i] = @ - 1]
    /\ \/ \E p \in live \cap DOMAIN connQueue :
             /\ id[p] = i
             /\ connQueue[p] # <<>>
             /\ DoReply(p, Head(connQueue[p]))
             /\ connQueue' = [connQueue EXCEPT ![p] = Tail(@)]
       \/ /\ \A p \in live \cap DOMAIN connQueue :
                id[p] = i => connQueue[p] = <<>>
          /\ UNCHANGED <<connQueue, phase, replies>>
    /\ UNCHANGED <<serverVars, table, jobs, workerVars, dropped>>

(* Stop ends Loop; mg_mgr_free then closes every connection, each with its *)
(* MG_EV_CLOSE, and the wakeup pipe with what is in it. Workers go on.     *)
StopServer ==
    /\ running
    /\ running' = FALSE
    /\ live' = {}
    /\ connQueue' = [q \in {} |-> <<>>]
    /\ phase' = [i \in Ids |-> IF \E p \in live : id[p] = i THEN "closed"
                                                            ELSE phase[i]]
    /\ wakeups' = [i \in Ids |-> 0]
    /\ UNCHANGED <<id, nextId, table, jobs, workerVars, replies,
                   dropped>>

-----------------------------------------------------------------------------
(* Any thread: AddEndpoint(Ex) of a new methodpoint and DeleteEndpoint(Ex).*)
AddEndpoint(e) ==
    /\ table[e] = "none"
    /\ \E kind \in {"server", "thread"} :
          table' = [table EXCEPT ![e] = kind]
    /\ UNCHANGED <<serverVars, phase, connQueue, jobs, workerVars, wakeups,
                   replies, dropped>>

DeleteEndpoint(e) ==
    /\ table[e] # "none"
    /\ table' = [table EXCEPT ![e] = "none"]
    /\ UNCHANGED <<serverVars, phase, connQueue, jobs, workerVars, wakeups,
                   replies, dropped>>

-----------------------------------------------------------------------------
(* A worker of the pool: the lambda of DoReplyThreaded.                    *)
Fetch(w) ==
    /\ wpc[w] = "idle"
    /\ jobs # <<>>
    /\ wjob' = [wjob EXCEPT ![w] = Head(jobs)]
    /\ jobs' = Tail(jobs)
    /\ wpc' = [wpc EXCEPT ![w] = "lookup"]
    /\ UNCHANGED <<serverVars, phase, table, connQueue, wakeups, replies,
                   dropped>>

(* The endpoint is looked up again, whatever stands in the table now.      *)
Lookup(w) ==
    /\ wpc[w] = "lookup"
    /\ \/ /\ table[wjob[w].point] # "none"
          /\ wpc' = [wpc EXCEPT ![w] = "call"]
          /\ UNCHANGED <<wjob, dropped>>
       \/ /\ table[wjob[w].point] = "none"
          /\ wpc' = [wpc EXCEPT ![w] = "idle"]
          /\ wjob' = [wjob EXCEPT ![w] = NoJob]
          /\ dropped' = dropped \cup {wjob[w].req}
    /\ UNCHANGED <<serverVars, phase, table, connQueue, jobs, wakeups,
                   replies>>

(* The callback returns and its response is queued, if the address has a   *)
(* queue.                                                                  *)
Push(w) ==
    /\ wpc[w] = "call"
    /\ connQueue' = [q \in DOMAIN connQueue |->
                        IF q = wjob[w].ptr
                        THEN Append(connQueue[q], wjob[w].req)
                        ELSE connQueue[q]]
    /\ wpc' = [wpc EXCEPT ![w] = "wakeup"]
    /\ UNCHANGED <<serverVars, phase, table, jobs, wjob, wakeups, replies,
                   dropped>>

(* A faulty Wakeup: there is none.                                         *)
NoWakeup(w) ==
    /\ wpc[w] = "wakeup"
    /\ wpc' = [wpc EXCEPT ![w] = "idle"]
    /\ wjob' = [wjob EXCEPT ![w] = NoJob]
    /\ UNCHANGED <<serverVars, phase, table, connQueue, jobs, wakeups,
                   replies, dropped>>

(* mg_wakeup(&m_mgr, pConnection->id): if the connection has been freed    *)
(* the id read is whatever the memory holds. After mg_mgr_free there is no *)
(* pipe to write to.                                                       *)
Wakeup(w) ==
    /\ wpc[w] = "wakeup"
    /\ \E i \in IF wjob[w].ptr \in live THEN {id[wjob[w].ptr]} ELSE Ids :
          wakeups' = [wakeups EXCEPT ![i] = IF running THEN @ + 1 ELSE @]
    /\ wpc' = [wpc EXCEPT ![w] = "idle"]
    /\ wjob' = [wjob EXCEPT ![w] = NoJob]
    /\ UNCHANGED <<serverVars, phase, table, connQueue, jobs, replies,
                   dropped>>

Worker(w) == Fetch(w) \/ Lookup(w) \/ Push(w) \/ Wakeup(w)

Next ==
    \/ \E p \in Pointers : Accept(p) \/ Close(p)
    \/ \E p \in Pointers, e \in AllPoints : Request(p, e)
    \/ \E i \in Ids : HandleWakeup(i)
    \/ StopServer
    \/ \E e \in AllPoints : AddEndpoint(e) \/ DeleteEndpoint(e)
    \/ \E w \in Workers : Worker(w)

(* Workers run and their callbacks return; the server thread polls, so     *)
(* every wakeup in the pipe is handled. Clients need not do anything.      *)
Fairness ==
    /\ \A w \in Workers : WF_vars(Worker(w))
    /\ \A i \in Ids : WF_vars(HandleWakeup(i))

Spec == Init /\ [][Next]_vars /\ Fairness

-----------------------------------------------------------------------------
TypeOK ==
    /\ running \in BOOLEAN
    /\ live \subseteq Pointers
    /\ id \in [Pointers -> Nat]
    /\ nextId \in Nat
    /\ phase \in [Ids -> {"none", "open", "waiting", "answered", "closed"}]
    /\ table \in [AllPoints -> {"none", "server", "thread"}]
    /\ DOMAIN connQueue \subseteq Pointers
    /\ \A p \in DOMAIN connQueue : connQueue[p] \in Seq(Ids)
    /\ jobs \in Seq(Job)
    /\ wpc \in [Workers -> {"idle", "lookup", "call", "wakeup"}]
    /\ wjob \in [Workers -> Job \cup {NoJob}]
    /\ wakeups \in [Ids -> Nat]
    /\ replies \in [Ids -> Seq(Ids)]
    /\ dropped \subseteq Ids

(* No response is stranded: whatever waits in the queue of a live          *)
(* connection, there is a wakeup for it in the pipe or a worker about to   *)
(* send one. HandleThreadedMessage takes one response per wakeup, so this  *)
(* must be a count.                                                        *)
AboutToWake(p) == {w \in Workers : wpc[w] = "wakeup" /\ wjob[w].ptr = p}

NoStrandedResponse ==
    \A p \in DOMAIN connQueue :
        Len(connQueue[p]) <= wakeups[id[p]] + Cardinality(AboutToWake(p))

(* m_mConnectionQueue holds no address of a connection that is gone: a     *)
(* late worker finds no queue and drops its response.                      *)
QueuesAreOfLiveConnections == DOMAIN connQueue \subseteq live

(* RestGoose.h: the response a callback returns "will be sent back to the  *)
(* client" - the one that made the request.                                *)
ReplyIsToItsRequest ==
    \A i \in Ids : \A k \in 1 .. Len(replies[i]) : replies[i][k] = i

(* What holds of it although addresses are used again: a response goes     *)
(* astray only when the connection it was made for has closed.             *)
OnlyOrphansGoAstray ==
    \A i \in Ids : \A k \in 1 .. Len(replies[i]) :
        replies[i][k] # i => phase[replies[i][k]] = "closed"

(* A connection is sent the response to its own request at most once.      *)
AtMostOneReply ==
    \A i \in Ids : Cardinality({k \in 1 .. Len(replies[i]) :
                                  replies[i][k] = i}) <= 1

(* A threaded request is answered, unless its connection closes or its     *)
(* endpoint is gone when the worker looks it up.                           *)
RequestAnswered ==
    \A i \in Ids :
        phase[i] = "waiting" ~> (phase[i] \in {"answered", "closed"}
                                 \/ i \in dropped)
=============================================================================
