# Restgoose in TLA+

Restgoose is a C++ library around the Mongoose network library: an HTTP and
websocket server whose endpoints are callbacks (`RestGoose.h`,
`MongooseServer`), an HTTP client (`HttpClientImpl`), a websocket client
(`WebSocketClientImpl`), and a thread pool on which threaded endpoints and
asynchronous clients run. This directory holds TLA+ modules of its core, the TLC
configurations that check them on small instances, and proofs for TLAPS.
Paths below are relative to the repository (`src/…` are its sources, `include/…`
its headers); `PROJECT.json` maps every definition to the lines it stands for.

## 1. Inventory

| Component | State | Operations | What is hard | What makes it correct |
|---|---|---|---|---|
| Thread pool and queue (`threadpool.*`, `threadsafequeue.h`) | queue, mutex, condition variable, `m_exit`, `m_bDone`, `m_vThreads` | `Submit`, `CreateWorkers`, `Stop`, worker loop | lost wakeups, stop while workers test the flags | FIFO, no pop of an empty queue, no worker asleep on work, `Stop` quiesces and returns |
| Threaded replies (`mongooseserver.cpp` 898–1205) | `m_mConnectionQueue` by address, wakeup pipe, endpoint table | dispatch, worker's lookup/push/wakeup, `HandleThreadedMessage`, close, `Stop` | connection dies while its callback runs; address reused; endpoint changed | the response reaches its own request, once; every request is answered |
| Websocket server (358–572, 841–902, 1751–1842, 1952–2012, 2117–2161) | `m_mSubscribers` by address, counter, message queue, close flag | upgrade, authenticate, subscribe, PING, CLOSE frame, close all, send | three ways to end, address reuse, self-locking, ordering | records are of their connection, callbacks once, counter exact, silent clients end, messages ordered and delivered |
| Routing and authorization (575–753, 904–1003, 1391–1523, 1633–1748, 1851–1944, 2015–2224) | endpoint tables, options, websocket maps, users, token callback, unprotected set | adders, removers, authorization setters, `EventHttp` | tables that must agree, two ways to compare, wildcard indices | no request served without authorization; what is listed, advertised and called agrees |
| HTTP client (`httpclientimpl.*`) | `m_eStatus`, response, part index, file stream, proxy state | `Run`, `DoLoop`, handlers, `Cancel` | `Cancel` against handlers, timeouts per hop, buffer boundaries, tunnel | `Run` returns, with a code; body as long as promised; tunnel before request |
| Client set-up and asynchronous run (`httpclient.cpp`, `httpclientimpl.cpp` 557–572, 947–1095) | request fields, callbacks, run id | setters, `Run(callback)` | setters while a run waits in the pool, several runs of one client | settings of a started run do not change, each run calls its own callback |
| Signal and wait (`mongooseserver.cpp` 1892–1915) | `m_signal`, `m_cvSync`, `m_mutex` | `PrimeWait`, `Wait`, `GetSignalResponse`, `Signal` | signal before wait, an old answer still in place, several waiters, callbacks that hold the mutex | a callback that waits is released, with its own answer |
| Downloads, connection limit (1206–1222, 1544–1631) | `m_mFileDownloads` by address, number of connections | `HandleOpen`, `DoReplyText`, `DoReplyFile`, `EventWrite` | partial writes, buffer boundaries, close half way, address reuse | the body is as long as promised, streams go with their connection, the limit holds |
| Websocket client (`websocketclientimpl.cpp`) | connections by endpoint, queue of endpoints, errors, message queues | `Connect`, `Send`, `CloseConnection`, `Stop`, loop, handshake events, timeout and PINGs | own thread against callers, a connection that fails before it is entered, messages before it is open | no dangling pointer, one close per connection, messages kept in order, no endpoint stays half connected |
| Configuration, placeholders, façades, utilities, `rlockfreequeue.h` (unused), `docs/html` (generated) | fields | setters, text | – | – |

How they interact: Mongoose calls `MongooseServer::HandleEvent` in the server
thread (`Loop`). An endpoint with `bUseThread` is submitted to the one
`ThreadPool`; the worker hands its response back through `m_mConnectionQueue`
and `mg_wakeup`. Websocket messages come from any thread through a
`moodycamel::ConcurrentQueue` (`USE_CONCURRENT_QUEUE` is defined in every build)
and leave in `Loop`. Asynchronous HTTP clients run on the pool as well. A
callback of the server may stop it in `Wait` until the application calls
`Signal`. The websocket client has a Mongoose manager and a thread of its own,
and shares nothing with the server.

## 2. Modules

| Module | Models | Composition |
|---|---|---|
| `ThreadPool` | pool, queue, flags, mutex and condition variable step by step | `INSTANCE TaskPool` with a refinement mapping |
| `TaskPool` | what a user of the pool relies on | abstract |
| `ThreadPoolProofs` | inductive invariant and theorems, and the proof that `ThreadPool` implements `TaskPool` | extends `ThreadPool` |
| `ThreadedReply` | requests, workers, reply queues, wakeups, table changes | the pool is taken as the FIFO that `TaskPool` promises |
| `ThreadedReplyProofs` | inductive invariant and theorems | extends `ThreadedReply` |
| `WsServer` | subscriber records, `Loop` after the poll, messages | |
| `Routing` | the tables and the answer to a request | |
| `HttpClient` | one `Run` | |
| `WsClient` | the websocket client's table, its thread and its callers | |
| `SignalWait` | callbacks that wait for the application | callbacks in the server thread and, as in `ThreadedReply`, on workers |
| `SignalWaitProofs` | inductive invariant and theorems | extends `SignalWait` |
| `FileTransfer` | a connection from `HandleOpen` to its close, and the file sent over it | what `ThreadedReply` calls a reply is sent here |
| `FileTransferProofs` | inductive invariant and theorems | extends `FileTransfer` |
| `WsClientProofs` | inductive invariant and theorems | extends `WsClient` |
| `WsServerProofs` | inductive invariant and theorems | extends `WsServer` |
| `HttpClientProofs` | inductive invariant and theorems | extends `HttpClient` |
| `RoutingProofs` | inductive invariant and theorems | extends `Routing` |
| `MC…` | constants of the runs | extend their module |

### ThreadPool
Every read of an atomic flag, acquisition of the mutex, and the "unlock and
block" of `wait()` is a step: `wait_and_pop` is `Lock`, `EvalPredicate`,
`Block` (or `Recheck`), `Pop`; `exit()` is `StopSetExit` and `StopNotifyAll`,
without the mutex, as in the code. `push` is one step: all of it, the `notify_one`
that wakes a waiter or nobody included, is inside its `lock_guard`.
`SpuriousWake` is always possible. `owner` is the thread that constructs the
pool, adds workers and stops it; the singleton cannot be used by `Submit` before
its constructor returns, but tasks may be submitted while workers are added.

### ThreadedReply
One step per critical section. `connQueue` is `m_mConnectionQueue`, keyed by
address; `id` is what stands in memory at that address, also after the
connection has been freed. The allocator may give out an address that a lambda
still refers to; a worker whose connection is gone reads any id. A request is
named by the id of its connection, and a response by the request it was made
for. `m_lastPeer` and replies that are files are left out.

### WsServer
`pass` is the place of the server thread in `Loop`; what happens in `mg_mgr_poll`
is one event per step, what happens after it (close all, PINGs, the queue) is
in order. `closing` distinguishes connections marked inside a poll, between
polls, or draining, because they differ in whether another frame may still be
read. An upgrade without the key of the handshake is refused by Mongoose but
recorded by the code (`rejected`), and CLOSE frames come at any time; both are
part of the run. `counter` is unsigned and wraps at `Modulus`. A query string that
fails leaves what `EventHttpWebsocket` leaves. `DoCloseWebsockets` goes over every key
of `m_mSubscribers`, also over the address that a refused upgrade has left there and
whose connection has been freed. Writing to that is undefined; two outcomes are
modelled: it goes unnoticed, or the program crashes there (`UseFreedConnection`,
`pass` is "crashed", and no thread does anything any more). A heap that is corrupted and
crashes later, or an address that an HTTP connection has taken over, is not.

### Routing
Endpoints are sequences of tokens; keys compare in upper case
(`case_ins_less`), segments as written, as in the code. `options` is a bag,
because `m_mmOptions` is a multimap. The loops that go over a string and push
back part of it (`split_string`, the two in `GetMethodPoint` and `FindEndpointEx`)
are `Kept`, a recursive function of which tokens are kept. A call and a request
are one step each. `Beyond` stands for what reading behind the end of a vector
gives (undefined behaviour in the loop for `**`). The patterns are given in the
order of the map.

### HttpClient
`setup` is what the client was given before `Run`: parts, whether the proxy's own
url is https, whether there is a process timeout. It is chosen in `Init` from
`Setups` and never changes, so that one run checks several clients. `pc` is the place in `Run`; each poll is `IdlePoll` or one handler, followed by
`DoLoop`'s tests. Lengths are in units, `Chunk` is `SendFile`'s buffer, so that
files smaller, equal and larger than a buffer are checked. `Tick` lets the two
timeouts pass. `Cancel` is two writes, between any two steps; a handler is one
step with respect to it. In the code it may fall inside one: `HandleWroteEvent` reads
`m_eStatus` in lines 802 and 808, `HandleSimpleWroteEvent` again in 835 or 843 and stores
`kSending` in 838 or 844. A `Cancel` in between makes `SendFile` run without opening
the file and send nothing, and has its `kComplete` overwritten. These interleavings
are not explored.

### WsClient
The client's thread is in `mg_mgr_poll` when `todo` is empty, and events may
come; otherwise `todo` lists what it still does before it returns there: the
second half of an event handler (`MarkConnectionConnected` goes on with the
callback, `DoConnect` and `SendMessages`) or of a pass of `Loop`. `DoConnect` is
`Take` (under the mutex), `Refused` or `Connected` (without it) and `Emplace`
(under it again), so that calls of other threads fall between them, and an error
that Mongoose raises inside `mg_ws_connect` reaches its handler before the
connection is in `m_mConnection`. `closing` distinguishes connections marked
inside a poll, whose input may still be handled, from those marked between two.
`accepted`, `received`, `target` and `closes` are histories. Which servers are
reached in the clear, over TLS, or through a proxy is `Route`; the proxy's 1xx
answers, certificates and DNS are abstracted. `mg_wakeup` is sent to the
connection with id 1, as `m_nPipe` says.

### SignalWait
A callback is `Call`, one round
(`PrimeWait`, `AskMain`, `Wait`, `GetSignalResponse`), and `Return`. The look of
`Wait` at the code and its block are one step under the mutex, as
`condition_variable::wait` has it; `Signal` is two, because `GetSignalResponse`
reads without the mutex and may come between them (`Torn`). The token callback
runs with `m_mutex` held, and its `PrimeWait` blocks on itself (`hung`).
`AskMain` and `TakeUp` are the application's, as `README.md` describes it.

### FileTransfer
Lengths are counted in units, `Buffer` of which are the 65535 bytes of
`EventWrite`. `SocketWrite` lets the socket take any part of the send buffer and
raises `MG_EV_WRITE`, which reads on. A stream is what is left of its file
(`KeepRest`). `AtMaximum` counts what `get_number_of_connections` counts: the
connection that is being opened, those about to close, the listener and the
receiving end of the wakeup pipe.

### What is assumed of Mongoose, the allocator and the standard library
* one HTTP request per accepted connection: no further one is parsed before the
  reply is complete, and the server drains after replying;
* `mg_ws_upgrade` raises `MG_EV_WS_OPEN` at once, or answers 426 if the key is missing;
* a CLOSE frame raises `MG_EV_WS_CTL`, is echoed, drains, and ends in `MG_EV_CLOSE`;
* a connection with `is_closing` gets no input and is closed by the next poll;
* `mg_wakeup` reaches the live connection with that id, or nobody; ids increase and
  are never reused, addresses are;
* a lost connection raises `MG_EV_CLOSE` without `MG_EV_ERROR`;
* `condition_variable::wait` may wake spuriously; the concurrent queue is FIFO
  per producer.

## 3. Runs

Passing runs (deadlock is not checked: every one of these systems may come to
rest, with the pool stopped, the clients gone, or `Run` returned).

| Run | Instance and why it is enough | Shows |
|---|---|---|
| `pool` | 3 workers, 3 tasks: two compete for mutex and wakeup, the third steals; one task stays queued behind two | `NoSleepOnWork`, `QuietAfterStop`; `Implements`: the pool is a `TaskPool`; `QueuedIsRun`: queued tasks start unless the pool is stopped; `NotifiedWorkersEnd`: a worker blocked when `notify_all` runs ends |
| `reply` | 2 addresses, 3 connections, 2 workers, one wildcard endpoint (whose multipart requests are answered as not found, the others as an exact endpoint's): a connection dies while its callback runs, its address is used again, and a third client is there beside it | `NoStrandedResponse`: a queued response has a wakeup in the pipe or a worker about to send one; `QueuesAreOfLiveConnections`; `OnlyOrphansGoAstray`: only a response whose own connection has closed reaches somebody else; `AtMostOneReply`; `RequestAnswered` unless the connection closes or the endpoint is gone |
| `ws` | an address used by 2 connections one after the other, 2 messages of one sender, 4 authentication modes (what holds for several addresses, and for several senders, is proved) | `RecordsAreCurrent`, `NoMessageAfterClose`, `DeliveredToGranted`, `ReceivedInOrder`: a client gets what the sender sends in that order, and once; `CloseAllCloses`; `SilentClientIsClosed`; `MessageDelivered`: it reaches who is subscribed to its endpoint |
| `routing` | any 3 changes of the tables (2 spellings of an endpoint, 7 patterns of which one ends in `**` and 2 are malformed, a websocket endpoint with all or some callbacks, a user, a token callback, 2 unprotected sets, a redirect), 15 requests after each: the shortest histories that add, overlap and delete | `OptionsAreRegistered`, `WildcardsRebuildPath`, `OnlyAuthorisedAreServed`, `NotFoundIsHonest` |
| `client` | no body, a text, a file with a rest, a file of two whole buffers, four parts with an empty file and one of more than a buffer; 2 redirects, proxy, TLS, TLS proxy, unreadable files, lost connections, `Cancel` | `TunnelFirst`, `UnreadableIsReported`, `BodyIsContentLength`, `RunReturns`; `TypeOK` bounds the hops |
| `wsclient` | one server, reached through a CONNECT tunnel (the longest way); 3 calls of `Connect`, so that connections without an entry, a connection beside a failing one and a third after both occur; 2 messages, PINGs on. Several servers, and those reached directly or over TLS only, are in the theorems, not in this run | `TablesAreOfLiveConnections`: pointers of the table are of live connections, made for their endpoint; `OneClose`: each end is told once; `MessagesKept`: in order; `ConnectEnds`: the endpoint does not stay queued, in hand or half connected; `UnwantedIsClosed`: `CloseConnection`, or a silent server, ends the connection; `EarlyMessageIsSent`: each message |
| `wait` | the server thread and one of the pool, 3 callbacks each: a round alone, overlapped, and alone again with the old answer in place | `OwnAnswer`: one at a time, a callback gets the response to its own question, whole; `WaitReturns`: it is released |
| `files` | 3 addresses and 3 connections under a limit with room for 2 clients; bodies of 0, 2 and 3 units with a buffer of 2: empty, one whole buffer, one and a rest | `DownloadsAreOfLiveConnections`, `BodyIsComplete`, `ServedWithinLimit`, `RequestEnds` |

Where a property is weaker than one would write it down at first, the code is
the reason:

* `OnlyOrphansGoAstray` is what remains of "a response reaches its own request"
  (`ReplyIsToItsRequest`, run `reply_reuse`).
* `RecordsAreCurrent` leaves out the records of refused upgrades, which
  `MG_EV_CLOSE` does not erase (line 1174 asks for `is_websocket`).
* The liveness properties of `WsServer` end with `\/ Stopped`: in basic mode
  `AuthenticateWebsocketBasic` locks `m_mutex` while its caller holds it (`hung`), and
  `CloseAllWebsockets` may crash the program once an upgrade has been refused. So
  `CloseAllCloses` is less than `RestGoose.h:278` says, "Closes all open websocket
  connections".
* `MessageDelivered` is about clients subscribed to the message's very endpoint, on
  which code and `src/README.md` agree; about endpoints below it see `ws_audience`.
* `WildcardsRebuildPath` leaves out patterns that end in `**`, whose segments are
  shifted by one (below).
* `NotFoundIsHonest` speaks of a single matching pattern, because the first
  pattern that matches hides the others, and of requests that are not multipart,
  because those never reach a pattern. `DocumentedMatch` knows `*` and `**` as whole
  segments; `?`, and `*` inside a segment, which `RestGoose.h:163` has as well, are left
  out: the code compares them as they are written (MS:2207).
* `UnreadableIsReported` holds for bodies of several parts:
  `HandleMultipartWroteEvent` keeps the error; for a single file
  `HandleSimpleWroteEvent` overwrites the state that `SendFile` has set.
* `RunReturns` needs a process timeout: without one a lost connection is never
  noticed (HC:551).
* `OwnAnswer` and `WaitReturns` leave out callbacks whose rounds overlap: there is
  one `m_signal` and one `notify_one`, so that a waiter may be left for ever or get
  another's answer.
* `ServedWithinLimit` is about connections that are served: one that is refused is
  there until Mongoose closes it.
* `ConnectEnds`, `UnwantedIsClosed` and `EarlyMessageIsSent` end with `\/ ~run`, as
  `Loop` does.
* `ConnectEnds` is about an endpoint, not about each call of `Connect`. When a second
  call for the endpoint is in the queue before the first is entered, its connection gets
  no entry (WC:520): it occurs in the run, is never upgraded or timed out, and only its
  server or the destructor ends it. `OneClose` is about such connections too.

The violation runs show where the code does something else than its
documentation says. Each checks one property that quotes it:

| Run | Disagreement |
|---|---|
| `pool_stop` | `exit()` sets the flag and notifies without the mutex: a worker between predicate and block sleeps through it, and `Stop` waits for ever |
| `reply_reuse` | a late response is delivered to the next client at the same address |
| `ws_audience` | a message goes to clients whose subscription is a prefix of its endpoint (MS:1823): to those of the endpoints above it, where `src/README.md:196` says to those of the endpoints below |
| `wsclient_send` | a message sent on an open connection wakes only the connection with id 1, and stays in its queue when that is another one or gone |

Noticed while modelling, and modelled as the code has it, but not made a run
(`MS` is `src/mongooseserver.cpp`, `HC` is `src/httpclientimpl.cpp`, `WC` is
`src/websocketclientimpl.cpp`):

* MS:1017 – a threaded callback that is deleted and added again without
  `bUseThread` while its request waits runs on the worker all the same.
* MS:898 – `m_lastPeer` is overwritten by each request, also while callbacks on
  workers ask for `GetCurrentPeer`.
* MS:2007 – a client that misses its PING gets `funcClose` twice.
* MS:875 – `funcOpen` is not called for a client that authenticates with its
  first message; MS:845 – it is called for a request that Mongoose refused to
  upgrade.
* MS:254 – basic authentication of a websocket locks `m_mutex` twice.
* MS:2137 – `DoCloseWebsockets` calls `mg_ws_send` on and marks every key of
  `m_mSubscribers`; a refused upgrade that has closed since leaves one whose connection
  has been freed (MS:1174 erases the records of websockets only).
* MS:464 – what `funcMessage` returns is ignored.
* MS:1521 – deleting one method forgets the options of all methods of the endpoint.
* MS:1878 – `GetEndpoints` leaves out wildcard endpoints; MS:2207 – `?` is compared
  as a literal.
* MS:1404 – `AddWebsocketEndpoint` that fails keeps what it has added before;
  MS:698 – an endpoint without `funcAuthentication` is never upgraded.
* MS:1860 – `AddBAUser` returns true for a user that was there and false for a
  new one.
* MS:727 – a request outside the api tree may get no answer.
* MS:541 – `CloseWebsocket` runs for a CLOSE frame and for the close that follows,
  so that the unsigned number of websocket connections (`RestGoose.h:244`) is
  decremented twice.
* MS:2196 – the loop for `**` advances before it reads, skips the first segment
  and reads one behind the last (`RestGoose.h:170` gives the segments that match).
* MS:642 – of two redundant slashes at the end of a uri one is left.
* MS:1612 – a file that cannot be opened is answered with nothing, in spite of the
  comment "send a 404 response", and its connection is neither drained nor closed.
* MS:1215 – the limit counts the listener and the wakeup pipe: with
  `SetMaxConnections(N)` N−2 clients are served (`RestGoose.h:131`).
* MS:1618 – each partial write reads another 65535 bytes, so that the send buffer
  of a slow client may grow to the whole file.
* MS:617 – `PrimeWait` called from the token callback locks `m_mutex` again.
* HC:714 – the process timeout starts anew with each redirect; HC:810 – header
  bytes are counted as uploaded body.
* HC:551 – `evt_handler` ignores `MG_EV_CLOSE`, so that without a process timeout a
  lost connection is never noticed; HC:112 – handlers overwrite the `kComplete`
  that `Cancel` has stored, and the run goes on; HC:942 – `Cancel` writes the
  status before the code, and `Run` may return between them.
* `src/httpclient.cpp:52` – setters return false "if already called Run with a
  callback function" (`httpclient.h`) only once the pool has begun that run, and
  never for the callback with two parameters; HC:698 – the callback with three
  parameters is kept, and later runs of the client call it instead of their own.
* WC:551 – `Connect` returns true for an endpoint that is connected
  (`websocketclient.h:41` says false). Called after `CloseConnection` and before
  the close event, it is ignored; called twice before the first is entered, it
  makes a connection without an entry (WC:520), which is never upgraded or timed
  out, and whose close is reported with an empty url.
* WC:565 – `CloseConnection` does nothing for an endpoint that is still queued;
  messages queued for a connection that closes are dropped.
* WC:272 – closes are reported after `Stop`, from the destructor; WC:640 –
  `RemoveCallbacks` is not synchronised with the thread that calls them.

### Bounds
`Workers`, `Tasks`, `Pointers`, `MaxId` (connections in a run), `MaxMessages`
(per sender), `MaxRounds` (callbacks per thread), `Sizes`, `Setups` (clients), `MaxCalls` (table changes), `MaxRedirects`, `Modulus`. Every
other counter is bounded by these. The histories (`started`, `replies`,
`received`, `closed`, `hops`, …) are read by properties only.

### Fairness
* `ThreadPool`: each thread is scheduled (weak fairness of workers and of the
  stopping thread) and a mutex that becomes free again and again is obtained
  (strong fairness of `Lock`). Nobody has to submit, stop, or wake spuriously.
* `ThreadedReply`: workers run and callbacks return; wakeups in the pipe are read.
* `WsServer`: the loop turns, unless it has locked itself (`hung`) or crashed; connections marked for closing are closed; a second
  passes again and again (PINGs). Clients do nothing they do not want to.
* `HttpClient`: the thread of `Run` goes on and time passes; nothing of the network.
* `WsClient`: the thread goes on, polls return, what is marked is closed, and the
  three and four seconds pass; nothing of the servers. The run `wsclient_send`
  also has wakeups delivered to a connection with id 1.
* `SignalWait`: callbacks go on, and the application answers what it was asked.
* `FileTransfer`: the server polls, and a client reads or goes; nothing makes
  clients come.

## 4. Proofs

### The pool
`ThreadPoolProofs` proves, for any finite set of workers and any tasks, from
`PoolAssumption` only: `PoolTypeCorrect`, `PoolFifo`, `PoolPopsNonEmpty`,
`PoolNoSleepOnWork`, `PoolOneStartAfterExit`, `PoolQuietAfterStop`.

None of the properties is inductive by itself. `IInv` adds
* `MutexOwner`: exactly the worker between `Lock` and the end of its critical
  section holds the mutex – so that what it has learned there stays true;
* `WaitSet`: the wait set is the set of workers at "wait";
* `UnderLock`: "block" has seen an empty queue, "recheck" a queue that is not
  empty or the exit flag, "pop" one that is not empty;
* `StopProgress`, `StartsAfterExit`: how far `Stop` has come and that nobody but
  one worker in "pop" can still start a task;
* `ThreadTable`, `Accounted`: every thread that exists is in `m_vThreads` until
  they have been joined, and what was started is finished or running.

Each conjunct has a lemma with one step per action; `InitIInv` and `NextIInv`
combine them, and `PoolInvariant` gives `Spec => []IInv`. `NoSleepOnWork` is the
one that needs cardinalities: a push adds one task and wakes one waiter, who is
then on the way; a worker leaves the way only by taking a task, by finding the
queue empty, or after exit.

The same module proves `PoolImplements`, `Spec => Implements`: the initial
states are initial states of `TaskPool`, `Submit`, `Pop`, `Run` and `StopSetExit`
are its steps, and every other action stutters. Besides `IInv` this needs that no
task was submitted twice and that no two workers run the same task (`RInv`): the
abstract state has the set of running tasks, and `Finish` takes one out of it.

### Threaded replies
`ThreadedReplyProofs` proves, for any addresses, connections, endpoints and any
finite set of workers, from `ReplyAssumption`: `ReplyTypeCorrect`,
`ReplyQueuesAreOfLiveConnections`, `ReplyNoStrandedResponse`,
`ReplyOnlyOrphansGoAstray` and `ReplyAtMostOneReply`. The argument is about whose an address is. `Of(p, r)`
says that connection `r` stands at `p`, or has closed; a step never undoes that
(`OfIsStable`), because an address is given out again only after `MG_EV_CLOSE`
and a closed connection stays closed (`ClosedIsFinal`). `IInv` states it for every
lambda that waits (`JobsAreTheirs`), that a worker runs (`WorkersAreTheirs`) and
for every queued response (`ResponsesAreTheirs`); `LiveIds` says that the ids of
live connections are unique and those to come unused. `NoStrandedResponse` counts:
`Push` adds a response and a worker about to wake, `Wakeup` turns that worker into
a wakeup, `HandleWakeup` takes one of each or finds no response. `AtMostOneReply`
has an invariant of its own, `OnceInv`: a request, or the response made for it, is
in one place only (a waiting lambda, a running worker, a queue, or sent), and
nowhere before its connection has been made.

### Waiting
`SignalWaitProofs` proves `WaitTypeOK` and `WaitOwnAnswer` for any threads and
rounds. `WaitInv` says, of a round that nobody overlaps (`Alone`), where its one
question is at each place: with the application, being answered, or in `m_signal`
with the code set. So the code alone tells `Wait` whether the answer is there,
which is what `PrimeWait`'s reset is for, and no `Signal` can be half way when
the response is read.

### Files
`FileTransferProofs` proves `FileTypeOK`, `FileDownloadsAreOfLiveConnections`,
`FileBodyIsComplete` and `FileServedWithinLimit`, for any addresses, limit, sizes
and buffer. `FileInv` adds `Conserved`: what was written, what is in the send
buffer and what is left of the stream are together headers and length, and no
send buffer is empty while a stream is left, so that draining cannot close the
connection between two reads. The limit needs the cardinality of the served
connections to grow by one only, in `Accept`.

### Websocket client
`WsClientProofs` proves `ClientTypeOK`, `ClientTablesAreOfLiveConnections`,
`ClientOneClose` and `ClientMessagesKept`, for any servers, routes, connections
and messages, from `WsClientAssumption`. `ClientInv` adds
* `LiveIds`: the numbers of live connections are used, and none was made to a
  server that is refused, so that every entry has a route;
* `Untouched`: nothing was accepted for a connection before it has an entry, nor
  for one that is yet to come – so that `Emplace` can enter an empty queue;
* `TodoInv`: what the client's thread still has to do. A connection that is to be
  entered is live, its own and not in the table yet, even with `DoConnect` inside
  `DoConnect`; one endpoint at a time is being connected to; and the calls of
  `Connect` cover the numbers given out, the queue and the one in hand.

There is one lemma per action. Those that change flags only share `FlagsInv` and
`StateStays`; `TodoStays`, `TodoShrinks` and `TodoAnew` are the three things a
step does to the thread's list.

### Websocket server
`WsServerProofs` proves `WsRecordsAreCurrent`, `WsNoMessageAfterClose`,
`WsDeliveredToGranted`, `WsReceivedInOrder` and `WsTypeOK`, for any addresses,
connections, topics, targets, producers, modes and counter width, from
`WsAssumption`. `WsInv` adds `Owners` (no two records
are of the same connection, and none is of one that is still to come),
`ToldAreClosing` (a record outlives `funcClose` only on a connection that was
marked between two polls, from which nothing is read any more),
`RefusedAreRejected` (a connection that is no websocket was refused) and
`AuthIsGranted` (who counts as authenticated has been, and a record left by a
refused upgrade does not count where clients authenticate by a message). Steps that
concern records in the same way share a lemma: `RecordsChange`, `RecordErased`.
`OrderInv` is what makes the order of messages inductive: what a sender has queued
is numbered upwards, and everything in its queue is later than what any client has
received from it (`QueuesAscend`, `QueuedIsLater`). `RestTypes` has the types of the
variables that these invariants do not mention.

### HTTP client
`HttpClientProofs` proves `HttpTunnelFirst`, `HttpUnreadableIsReported`,
`HttpHopsBounded`, `HttpTypeOK` and `HttpBodyIsContentLength`, for any clients,
buffer, proxies and redirects, from
`ClientAssumption`. `HeadersInv` ties `headers` to the connection and
`m_proxyState`, which `Reset` clears before each hop; `ReportInv` is that a part
that fails completes the run, after which `DoLoop` leaves before another handler
can overwrite the code; `HopsInv` counts connections against redirects.

The length of a body needs more. `BodyInv` says, between any two handlers, what has
been handed over so far: for a single file, what has been read and what is left of it
are its size (`SimpleInv`); for several parts, the parts before this one and, once it
is open, its header and what has been read of it (`MultipartInv`). `PromiseInv` is
that nothing of a body is touched before `SendRequestHeaders` has promised its length,
and that a redirect starts again from nothing. The sum of the parts is the recursive
function `LengthUpTo`. That it adds up and grows for every list of parts is an
induction, done without an induction theorem: the set of the places at which a claim
fails has a least element if it has one (`Least`, from the well-foundedness of
finite subsets), and the equation of the function rules that one out.

### Routing
`RoutingProofs` states every invariant of the run `routing` as a theorem, for any
methods, endpoints, patterns, users, requests and unprotected sets and any number of
changes: `RoutingTypeOK`, `RoutingOptionsAreRegistered`,
`RoutingOnlyAuthorisedAreServed`, `RoutingNotFoundIsHonest` and
`RoutingWildcardsRebuildPath`, from `RoutingAssumption` (uris, patterns and
unprotected endpoints are sequences of tokens).

What is inductive about the tables is short: `TablesInv` (one spelling of an endpoint
in `m_mEndpoints` and each method once in `m_mmOptions`, which the bag's sum in
`AddEndpoint` and its restriction in `DeleteEndpoint` keep), `KindsInv`, and
`PatternsInv` (only well-formed patterns). The other properties are about the request
that has just been answered and the tables it was answered from, and rest on what the
loops over strings compute:
* `Kept`, the loop that pushes back some places of a string, exists and returns a
  sequence for every string (`LoopExists`, `KeptUpToKeeps`, `KeptIsSeq`), and two
  loops that see the same keep the same (`KeptPrefix`); by the least length for which
  it would fail, as above;
* `MethodPointKeepsSegments`: whatever slashes a client writes, `GetMethodPoint`
  keeps the method and the segments of the uri (`SegmentsAppend`,
  `SegmentsOfFront`, `SegmentsOfSingleSlashes`), so that what is matched is what was
  asked for;
* `UnprotectedCovers`: a methodpoint that `MethodPointUnprotected` accepts is equal to
  an unprotected one or below it;
* `MatchesAsDocumented`, `OnlyMatchIsFound`: `Matches` is what `RestGoose.h` explains,
  and a pattern that alone matches is the one `FindEndpointEx` takes;
* `NoDoubleWildcard`, `SinglesAreWilds`: the segment that is kept for the k-th `*` is
  the one in its place, and there are as many as wildcards.

### Only model-checked
All liveness (`QueuedIsRun`, `NotifiedWorkersEnd`, `RequestAnswered`, `CloseAllCloses`,
`SilentClientIsClosed`, `MessageDelivered`, `RunReturns`, `ConnectEnds`,
`UnwantedIsClosed`, `EarlyMessageIsSent`, `WaitReturns`, `RequestEnds`: fairness is
out of the prover's reach). Every invariant of a passing run, and `Implements`, is
also a theorem. The other way round, the type invariants
of `ThreadPool`, `ThreadedReply`, `WsServer`, `SignalWait` and `FileTransfer`, and the
pool's `Fifo`, `PopsNonEmpty` and `OneStartAfterExit`, are proved and no longer part of
the runs; `Implements` covers the latter three there.

## 5. Not modelled

* The HTTP client's set-up and asynchronous run: its setters assign fields and
  `Run(callback)` is one task of the pool that calls the `Run` of `HttpClient`.
  What goes wrong there is plain from the code, and listed above.
* Configuration setters, TLS set-up, headers, page placeholders, façades and value
  types have no behaviour of their own. `rlockfreequeue.h` is included by nobody.
* `docs/html` is generated by Doxygen; its scripts are the documentation's, not
  the library's.
* Data races on configuration (`m_tokenCallback`, `m_mUsers`): the setters are
  meant to be called before `Run`. `m_lastPeer` and the overflow of the wakeup
  pipe have no retry or lock in the code to be checked.
* JSON accesses that throw and a redirect without `Location`, in the client; the
  websocket client's proxy exclusions and DNS.

## 6. Plan

Done, in this order: `ThreadPool` (everything threaded rests on it) with its
proofs and refinement, `ThreadedReply`, `WsServer`, `Routing`, `HttpClient`,
`WsClient`, `SignalWait` and `FileTransfer`, all with their proofs.

Next: safety facts that the liveness properties rest on and that can be proved, for
instance that a worker which holds a response is always about to push it, or that a
connection which is asked to close stays marked until it is gone.
