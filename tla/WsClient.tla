------------------------------ MODULE WsClient ------------------------------
(***************************************************************************)
(* WebSocketClientImpl: the table of connections by endpoint, its queue of *)
(* endpoints to connect to, and what the connect callback is told.         *)
(*                                                                         *)
(* The client's own thread alternates between mg_mgr_poll, in which        *)
(* Mongoose reports events, and DoConnect and CheckConnections; todo is    *)
(* what it still has to do before it goes back to Mongoose. Every critical *)
(* section of m_mutex is a step of its own, so that Connect, SendMessage,  *)
(* CloseConnection and Stop, which any thread calls, fall between them.    *)
(*                                                                         *)
(* A connection is named by its Mongoose id. Addresses, headers, DNS and   *)
(* certificates are abstracted; what a message says is its number.         *)
(***************************************************************************)
EXTENDS Naturals, Sequences, FiniteSets

CONSTANTS
    Endpoints,     \* urls of servers
    NoEndpoint,    \* endpoint(""), what FindUrl gives for an unknown connection
    Route,         \* how each is reached, see HandleInitialConnection
    PingPong,      \* m_bPingPong
    MaxId,         \* calls of Connect that are queued (bounds the model)
    MaxMessages    \* messages accepted by SendMessage (bounds the model)

ASSUME WsClientAssumption ==
    /\ NoEndpoint \notin Endpoints
    /\ Route \in [Endpoints -> {"plain", "tls", "tunnel", "refused"}]
    /\ PingPong \in BOOLEAN
    /\ MaxId \in Nat \ {0} /\ MaxMessages \in Nat

Ids == 1 .. MaxId
Codes == {"none", "initFail", "timeout", "ping", "status"}
Stages == {"connecting", "awaitingConnect", "awaitingTls", "upgrading", "ready"}

(* What the thread has to do: the second half of an event, or of a pass of *)
(* Loop.                                                                   *)
Step == [do : {"take", "connect", "emplace", "opened", "send", "check"},
         e : Endpoints \cup {NoEndpoint}, conn : 0 .. MaxId]
Do(what) == [do |-> what, e |-> NoEndpoint, conn |-> 0]

VARIABLES
    run,        \* m_bRun
    thread,     \* "loop", "joined" by Stop, "freed" by mg_mgr_free
    todo,       \* see Step
    queue,      \* m_qConnection, whose length is m_nQueued
    table,      \* m_mConnection
    error,      \* m_mConnectionError
    live,       \* connections that Mongoose has
    closing,    \* is_closing: "no", or marked while "polling" or "between" polls
    nextId,     \* the number of the next connection
    wakeup,     \* there is a wakeup in Mongoose's pipe
    asked,      \* calls of Connect that have been queued
    sent,       \* messages that SendMessage has accepted
    target,     \* history: the endpoint each live connection was made for
    accepted,   \* history: the messages accepted for it
    received,   \* history: the messages sent on it
    closes      \* history: how often the connect callback was told that a
                \* connection is closed

vars == <<run, thread, todo, queue, table, error, live, closing, nextId,
          wakeup, asked, sent, target, accepted, received, closes>>

mongoose == <<live, nextId, target>>
calls == <<run, asked, sent, accepted>>

Connection == [conn : Ids, connected : BOOLEAN, ponged : BOOLEAN,
               toClose : BOOLEAN, stage : Stages, q : Seq(1 .. MaxMessages)]

Init ==
    /\ run = TRUE
    /\ thread = "loop"
    /\ todo = <<>>
    /\ queue = <<>>
    /\ table = [e \in {} |-> 0]
    /\ error = [i \in {} |-> "none"]
    /\ live = {}
    /\ closing = [i \in Ids |-> "no"]
    /\ nextId = 1
    /\ wakeup = FALSE
    /\ asked = 0
    /\ sent = 0
    /\ target = [i \in Ids |-> NoEndpoint]
    /\ accepted = [i \in Ids |-> <<>>]
    /\ received = [i \in Ids |-> <<>>]
    /\ closes = [i \in Ids |-> 0]

Known == DOMAIN table
Without(f, x) == [y \in DOMAIN f \ {x} |-> f[y]]
With(f, x, v) == [y \in DOMAIN f \cup {x} |-> IF y = x THEN v ELSE f[y]]

(* The entries of a connection: one, or none for an orphan.                *)
EntriesOf(i) == {e \in Known : table[e].conn = i}
FindUrl(i) == IF EntriesOf(i) = {} THEN NoEndpoint
                                   ELSE CHOOSE e \in EntriesOf(i) : TRUE

Polling == thread = "loop" /\ todo = <<>>
(* Mongoose reads nothing from a connection marked between two polls; of   *)
(* one marked while it polls, the rest of what it has read.                *)
Readable(i) == Polling /\ i \in live /\ closing[i] # "between"
Fresh(i) == Readable(i) /\ closing[i] = "no"
Mark(i) == closing' = [closing EXCEPT ![i] = "polling"]

-----------------------------------------------------------------------------
(* Calls of other threads. The wakeup that follows the unlock is part of   *)
(* the step: one that comes later finds less to send, or nothing.          *)
Connect(e) ==
    /\ thread # "freed"
    /\ asked < MaxId
    /\ e \notin Known
    /\ queue' = Append(queue, e)
    /\ asked' = asked + 1
    /\ UNCHANGED <<mongoose, closes, run, thread, todo, table, error,
                   closing, wakeup, sent, accepted, received>>

(* A faulty SendMessage: m_mConnection[theEndpoint] makes an entry.        *)
SendToAnyone(e) ==
    /\ thread # "freed"
    /\ sent < MaxMessages
    /\ sent' = sent + 1
    /\ table' = IF e \in Known THEN [table EXCEPT ![e].q = Append(@, sent + 1)]
                ELSE With(table, e, [conn |-> 0, q |-> <<sent + 1>>])
    /\ wakeup' = TRUE
    /\ UNCHANGED <<mongoose, closes, run, thread, todo, queue, error,
                   closing, asked, accepted, received>>

SendMessage(e) ==
    /\ thread # "freed"
    /\ sent < MaxMessages
    /\ e \in Known
    /\ sent' = sent + 1
    /\ table' = [table EXCEPT ![e].q = Append(@, sent + 1)]
    /\ accepted' = [accepted EXCEPT ![table[e].conn] = Append(@, sent + 1)]
    /\ wakeup' = TRUE
    /\ UNCHANGED <<mongoose, closes, run, thread, todo, queue, error,
                   closing, asked, received>>

(* CloseConnection(endpoint).                                              *)
CloseConnection(e) ==
    /\ thread # "freed"
    /\ e \in Known
    /\ table' = [table EXCEPT ![e].toClose = TRUE]
    /\ wakeup' = TRUE
    /\ UNCHANGED <<mongoose, calls, closes, thread, todo, queue, error,
                   closing, received>>

(* Stop; its join ends when the thread has left Loop.                      *)
Stop ==
    /\ run
    /\ run' = FALSE
    /\ UNCHANGED <<mongoose, closes, thread, todo, queue, table, error,
                   closing, wakeup, asked, sent, accepted, received>>

(* The destructor: mg_mgr_free raises MG_EV_CLOSE for what there is.       *)
Free ==
    /\ thread = "joined"
    /\ thread' = "freed"
    /\ live' = {}
    /\ closing' = [i \in Ids |-> "no"]
    /\ error' = [i \in {} |-> "none"]
    /\ table' = [e \in {} |-> 0]
    /\ closes' = [i \in Ids |-> IF i \in live THEN closes[i] + 1 ELSE closes[i]]
    /\ UNCHANGED <<nextId, target, calls, todo, queue, wakeup, received>>

-----------------------------------------------------------------------------
(* Events of a connection that is being made. An orphan has no entry, and  *)
(* none of them does anything for it.                                      *)
Advance(e, stage) == table' = [table EXCEPT ![e].stage = stage]

(* MG_EV_CONNECT. Directly to a ws server the upgrade is sent at once; for *)
(* wss, or through an https proxy, TLS is first, for wss through a proxy   *)
(* the CONNECT request before it.                                          *)
HandleInitialConnection(i) ==
    /\ Fresh(i)
    /\ \E e \in EntriesOf(i) :
          /\ table[e].stage = "connecting"
          /\ Advance(e, CASE Route[e] = "plain"  -> "upgrading"
                          [] Route[e] = "tls"    -> "awaitingTls"
                          [] Route[e] = "tunnel" -> "awaitingConnect")
    /\ UNCHANGED <<mongoose, calls, closes, thread, todo, queue, error,
                   closing, wakeup, received>>

(* The proxy's answer: TLS with the server comes next, or the status is    *)
(* what the callback will be told. Answers 1xx are skipped; a malformed    *)
(* one is an error.                                                        *)
HandleProxyRead(i) ==
    /\ Fresh(i)
    /\ \E e \in EntriesOf(i) :
          /\ table[e].stage = "awaitingConnect"
          /\ \/ Advance(e, "awaitingTls") /\ UNCHANGED <<error, closing>>
             \/ /\ error' = With(error, i, "status")
                /\ Mark(i)
                /\ UNCHANGED table
    /\ UNCHANGED <<mongoose, calls, closes, thread, todo, queue, wakeup,
                   received>>

HandleTlsHandshake(i) ==
    /\ Fresh(i)
    /\ \E e \in EntriesOf(i) :
          table[e].stage = "awaitingTls" /\ Advance(e, "upgrading")
    /\ UNCHANGED <<mongoose, calls, closes, thread, todo, queue, error,
                   closing, wakeup, received>>

(* MG_EV_WS_OPEN, and MarkConnectionConnected up to its unlock; the        *)
(* callback, DoConnect and SendMessages are steps of todo.                 *)
OpenWithoutSending(i) ==
    /\ Fresh(i)
    /\ \E e \in EntriesOf(i) :
          /\ table[e].stage = "upgrading"
          /\ table' = [table EXCEPT ![e].stage = "ready", ![e].connected = TRUE]
          /\ todo' = <<[do |-> "opened", e |-> e, conn |-> i], Do("take")>>
    /\ UNCHANGED <<mongoose, calls, closes, thread, queue, error, closing,
                   wakeup, received>>

WsOpen(i) ==
    /\ Fresh(i)
    /\ \E e \in EntriesOf(i) :
          /\ table[e].stage = "upgrading"
          /\ table' = [table EXCEPT ![e].stage = "ready", ![e].connected = TRUE]
          /\ todo' = <<[do |-> "opened", e |-> e, conn |-> i], Do("take"),
                       Do("send")>>
    /\ UNCHANGED <<mongoose, calls, closes, thread, queue, error, closing,
                   wakeup, received>>

(* The callback is told, and may refuse.                                   *)
Opened ==
    /\ thread = "loop" /\ todo # <<>> /\ Head(todo).do = "opened"
    /\ LET s == Head(todo)
       IN UNCHANGED closing \/ (run /\ Mark(s.conn))
    /\ todo' = Tail(todo)
    /\ UNCHANGED <<mongoose, calls, closes, thread, queue, table, error,
                   wakeup, received>>

(* MG_EV_ERROR, at any time of a connection's life; Mongoose marks it too. *)
Error(i) ==
    /\ Fresh(i)
    /\ error' = With(error, i, "initFail")
    /\ table' = [e \in Known |-> IF table[e].conn = i
                                 THEN [table[e] EXCEPT !.connected = FALSE]
                                 ELSE table[e]]
    /\ Mark(i)
    /\ todo' = <<Do("take")>>
    /\ UNCHANGED <<mongoose, calls, closes, thread, queue, wakeup, received>>

-----------------------------------------------------------------------------
(* Events of an open websocket: a message that the callback answers with   *)
(* false (after which Mongoose closes), a CLOSE frame, a PONG.             *)
Message(i) ==
    /\ Readable(i) /\ run
    /\ \E e \in EntriesOf(i) : table[e].connected
    /\ Mark(i)
    /\ UNCHANGED <<mongoose, calls, closes, thread, todo, queue, table,
                   error, wakeup, received>>

(* A faulty CtlEvent: it tells the callback itself.                        *)
CloseFrameTells(i) ==
    /\ Readable(i)
    /\ \E e \in EntriesOf(i) : table[e].connected
    /\ Mark(i)
    /\ closes' = [closes EXCEPT ![i] = @ + 1]
    /\ UNCHANGED <<mongoose, calls, thread, todo, queue, table, error,
                   wakeup, received>>

CloseFrame(i) ==
    /\ Readable(i)
    /\ \E e \in EntriesOf(i) : table[e].connected
    /\ Mark(i)
    /\ UNCHANGED <<mongoose, calls, closes, thread, todo, queue, table,
                   error, wakeup, received>>

CheckPong(i) ==
    /\ Readable(i)
    /\ \E e \in EntriesOf(i) :
          /\ table[e].connected
          /\ table' = [table EXCEPT ![e].ponged = TRUE]
    /\ UNCHANGED <<mongoose, calls, closes, thread, todo, queue, error,
                   closing, wakeup, received>>

(* MG_EV_CLOSE, for whatever reason. The callback is told whether m_bRun   *)
(* is set or not.                                                          *)
Ended(i) ==
    /\ Polling
    /\ i \in live
    /\ live' = live \ {i}
    /\ closing' = [closing EXCEPT ![i] = "no"]
    /\ error' = Without(error, i)
    /\ closes' = [closes EXCEPT ![i] = @ + 1]
    /\ target' = [target EXCEPT ![i] = NoEndpoint]
    /\ accepted' = [accepted EXCEPT ![i] = <<>>]
    /\ received' = [received EXCEPT ![i] = <<>>]
    /\ UNCHANGED <<nextId, run, asked, sent, thread, todo, queue, wakeup>>

(* A faulty CloseEvent: EraseConnection is not called.                     *)
CloseKeepsEntry(i) == Ended(i) /\ UNCHANGED table

CloseEvent(i) == Ended(i) /\ table' = Without(table, FindUrl(i))

(* mg_wakeup raises MG_EV_WAKEUP on the connection with the id m_nPipe, 1: *)
(* the client's first, as long as it is there. If Mongoose has given id 1  *)
(* to its end of the pipe, mg_wakeup_init's, the handler is not even the   *)
(* client's, and this action never happens; so fairness does not ask for   *)
(* it.                                                                     *)
Wakeup ==
    /\ Polling
    /\ wakeup
    /\ wakeup' = FALSE
    /\ todo' = IF 1 \in live THEN <<Do("send")>> ELSE <<>>
    /\ UNCHANGED <<mongoose, calls, closes, thread, queue, table, error,
                   closing, received>>

-----------------------------------------------------------------------------
(* SendMessages.                                                           *)
Sendable == {e \in Known : table[e].connected /\ closing[table[e].conn] = "no"}

(* A faulty one: it takes the messages from the back of the queue.         *)
SendBackwards ==
    /\ thread = "loop" /\ todo # <<>> /\ Head(todo).do = "send"
    /\ received' = [i \in Ids |->
                      IF EntriesOf(i) \cap Sendable = {} THEN received[i]
                      ELSE LET q == table[FindUrl(i)].q
                           IN received[i] \o [k \in 1 .. Len(q) |->
                                                q[Len(q) + 1 - k]]]
    /\ table' = [e \in Known |-> IF e \in Sendable
                                 THEN [table[e] EXCEPT !.q = <<>>]
                                 ELSE table[e]]
    /\ todo' = Tail(todo)
    /\ UNCHANGED <<mongoose, calls, closes, thread, queue, error, closing,
                   wakeup>>

SendMessages ==
    /\ thread = "loop" /\ todo # <<>> /\ Head(todo).do = "send"
    /\ received' = [i \in Ids |->
                      IF EntriesOf(i) \cap Sendable = {} THEN received[i]
                      ELSE received[i] \o table[FindUrl(i)].q]
    /\ table' = [e \in Known |-> IF e \in Sendable
                                 THEN [table[e] EXCEPT !.q = <<>>]
                                 ELSE table[e]]
    /\ todo' = Tail(todo)
    /\ UNCHANGED <<mongoose, calls, closes, thread, queue, error, closing,
                   wakeup>>

(* DoConnect: the endpoint and the settings are taken under the mutex, ... *)
Take ==
    /\ thread = "loop" /\ todo # <<>> /\ Head(todo).do = "take"
    /\ IF queue = <<>>
       THEN todo' = Tail(todo) /\ UNCHANGED queue
       ELSE /\ todo' = <<[do |-> "connect", e |-> Head(queue), conn |-> 0]>> \o Tail(todo)
            /\ queue' = Tail(queue)
    /\ UNCHANGED <<mongoose, calls, closes, thread, table, error, closing,
                   wakeup, received>>

(* ... wss through an https proxy is refused, or mg_ws_connect gives no    *)
(* connection and the callback is told; or it gives one, to be entered ... *)
Refused ==
    /\ thread = "loop" /\ todo # <<>> /\ Head(todo).do = "connect"
    /\ todo' = Tail(todo)
    /\ UNCHANGED <<mongoose, calls, closes, thread, queue, table, error,
                   closing, wakeup, received>>

(* ... and which may have failed already: MG_EV_ERROR was raised before it *)
(* is in m_mConnection, and its handler runs DoConnect inside DoConnect.   *)
Connected ==
    /\ thread = "loop" /\ todo # <<>> /\ Head(todo).do = "connect"
    /\ Route[Head(todo).e] # "refused"
    /\ live' = live \cup {nextId}
    /\ nextId' = nextId + 1
    /\ target' = [target EXCEPT ![nextId] = Head(todo).e]
    /\ LET emplace == [do |-> "emplace", e |-> Head(todo).e, conn |-> nextId]
       IN \/ /\ todo' = <<emplace>> \o Tail(todo)
             /\ UNCHANGED <<error, closing>>
          \/ /\ todo' = <<Do("take"), emplace>> \o Tail(todo)
             /\ error' = With(error, nextId, "initFail")
             /\ closing' = [closing EXCEPT ![nextId] = "between"]
    /\ UNCHANGED <<calls, closes, thread, queue, table, wakeup,
                   received>>

(* ... in m_mConnection, unless try_emplace finds the endpoint there.      *)
Emplace ==
    /\ thread = "loop" /\ todo # <<>> /\ Head(todo).do = "emplace"
    /\ LET s == Head(todo)
           new == [conn |-> s.conn, connected |-> FALSE, ponged |-> TRUE,
                   toClose |-> FALSE, stage |-> "connecting", q |-> <<>>]
       IN table' = IF s.e \in Known THEN table ELSE With(table, s.e, new)
    /\ todo' = Tail(todo)
    /\ UNCHANGED <<mongoose, calls, closes, thread, queue, error, closing,
                   wakeup, received>>

-----------------------------------------------------------------------------
(* CheckConnections, when the time of the endpoints in late is up:         *)
(* CheckToClose, else CheckTimeout (3 s) and CheckPingPong (4 s).          *)
Waiting(late) == {e \in late : ~table[e].toClose /\ closing[table[e].conn] = "no"}
TimedOut(late) == {e \in Waiting(late) : ~table[e].connected}
PingDue(late) == {e \in Waiting(late) : PingPong /\ table[e].connected}
Silent(late) == {e \in PingDue(late) : ~table[e].ponged}
ConnOf(E) == {table[e].conn : e \in E}

LeaveLoop == IF run THEN "loop" ELSE "joined"

(* A faulty one: is_closing is not set for who does not answer PINGs.      *)
CheckWithoutPong(late) ==
    /\ thread = "loop" /\ todo # <<>> /\ Head(todo).do = "check"
    /\ LET Marked == ConnOf({e \in Known : table[e].toClose} \cup TimedOut(late))
       IN closing' = [i \in Ids |-> IF i \in Marked THEN "between" ELSE closing[i]]
    /\ table' = [e \in Known |->
                   IF e \in PingDue(late) THEN [table[e] EXCEPT !.ponged = FALSE]
                                          ELSE table[e]]
    /\ todo' = <<>>
    /\ thread' = LeaveLoop
    /\ UNCHANGED <<mongoose, calls, closes, queue, error, wakeup, received>>

CheckConnections(late) ==
    /\ thread = "loop" /\ todo # <<>> /\ Head(todo).do = "check"
    /\ LET Marked == ConnOf({e \in Known : table[e].toClose}
                           \cup TimedOut(late) \cup Silent(late))
           Code(i) == IF i \in ConnOf(TimedOut(late)) THEN "timeout" ELSE "ping"
           Reported == ConnOf(TimedOut(late) \cup Silent(late))
       IN /\ closing' = [i \in Ids |-> IF i \in Marked THEN "between"
                                                      ELSE closing[i]]
          /\ error' = [i \in DOMAIN error \cup Reported |->
                         IF i \in Reported THEN Code(i) ELSE error[i]]
    /\ table' = [e \in Known |->
                   IF e \in PingDue(late) THEN [table[e] EXCEPT !.ponged = FALSE]
                                          ELSE table[e]]
    /\ todo' = <<>>
    /\ thread' = LeaveLoop
    /\ UNCHANGED <<mongoose, calls, closes, queue, wakeup, received>>

(* mg_mgr_poll returns when it has closed what was marked before it, and   *)
(* in it. A faulty Loop leaves DoConnect to MarkConnectionConnected.       *)
EndPollNoConnect ==
    /\ Polling
    /\ \A i \in live : closing[i] = "no"
    /\ IF run THEN todo' = <<Do("check")>> /\ UNCHANGED thread
              ELSE thread' = "joined" /\ UNCHANGED todo
    /\ UNCHANGED <<mongoose, calls, closes, queue, table, error, closing,
                   wakeup, received>>

EndPoll ==
    /\ Polling
    /\ \A i \in live : closing[i] = "no"
    /\ IF run THEN todo' = <<Do("take"), Do("check")>> /\ UNCHANGED thread
              ELSE thread' = "joined" /\ UNCHANGED todo
    /\ UNCHANGED <<mongoose, calls, closes, queue, table, error, closing,
                   wakeup, received>>

Call ==
    \/ \E e \in Endpoints : Connect(e) \/ SendMessage(e) \/ CloseConnection(e)
    \/ Stop \/ Free

Handshake(i) ==
    HandleInitialConnection(i) \/ HandleProxyRead(i) \/ HandleTlsHandshake(i)

Event(i) ==
    \/ Handshake(i) \/ WsOpen(i) \/ Error(i)
    \/ Message(i) \/ CloseFrame(i) \/ CheckPong(i)

Work ==
    \/ Opened \/ Take \/ Refused \/ Connected \/ Emplace \/ SendMessages
    \/ \E late \in SUBSET Known : CheckConnections(late)

Next ==
    \/ Call
    \/ \E i \in Ids : Event(i) \/ CloseEvent(i)
    \/ Wakeup \/ EndPoll \/ Work

(* The thread goes on, polls return, a wakeup arrives, what is marked is   *)
(* closed, and time passes: nothing is assumed of the servers.             *)
Fairness ==
    /\ WF_vars(Work)
    /\ SF_vars(EndPoll) /\ SF_vars(CheckConnections(Known))
    /\ \A i \in Ids : SF_vars(closing[i] # "no" /\ CloseEvent(i))

Spec == Init /\ [][Next]_vars /\ Fairness

(* Mongoose that numbers the client's connections from 1.                  *)
SpecWithWakeups == Spec /\ SF_vars(Wakeup)

-----------------------------------------------------------------------------
TypeOK ==
    /\ run \in BOOLEAN /\ wakeup \in BOOLEAN
    /\ thread \in {"loop", "joined", "freed"}
    /\ todo \in Seq(Step)
    /\ queue \in Seq(Endpoints)
    /\ Known \subseteq Endpoints
    /\ \A e \in Known : table[e] \in Connection
    /\ live \subseteq Ids
    /\ DOMAIN error \subseteq Ids
    /\ \A i \in DOMAIN error : error[i] \in Codes
    /\ closing \in [Ids -> {"no", "polling", "between"}]
    /\ nextId \in 1 .. MaxId + 1
    /\ asked \in 0 .. MaxId /\ sent \in 0 .. MaxMessages
    /\ target \in [Ids -> Endpoints \cup {NoEndpoint}]
    /\ accepted \in [Ids -> Seq(1 .. MaxMessages)]
    /\ received \in [Ids -> Seq(1 .. MaxMessages)]
    /\ closes \in [Ids -> Nat]

(* The pointer of every entry is that of a connection Mongoose still has,  *)
(* made for the entry's endpoint, and no two entries share one: the loops  *)
(* of CheckConnections and SendMessages follow it without looking. No code *)
(* is kept for a connection that is gone.                                  *)
TablesAreOfLiveConnections ==
    /\ \A e \in Known : table[e].conn \in live /\ target[table[e].conn] = e
    /\ DOMAIN error \subseteq live

(* However a connection ends, by timeout, silence, a frame of the server,  *)
(* the callback's own answer, CloseConnection or the destructor, the       *)
(* connect callback is told so exactly once, and not before.               *)
OneClose ==
    \A i \in Ids : closes[i] = IF i < nextId /\ i \notin live THEN 1 ELSE 0

(* What SendMessage accepted for a connection is sent on it, in order and  *)
(* once, or still queued, as long as the connection is there.              *)
MessagesKept ==
    \A e \in Known :
        LET i == table[e].conn IN received[i] \o table[e].q = accepted[i]

(* An endpoint does not stay between Connect and open, whatever its server *)
(* does: one that is queued, in the thread's hands or in the table without *)
(* being connected comes to be connected there, or is there no more. This  *)
(* is about endpoints, not about calls: the connection of a second Connect *)
(* that finds the endpoint in the table (try_emplace) gets no entry, and   *)
(* only its server or the destructor ends it.                              *)
Pending(e) ==
    \/ \E k \in 1 .. Len(queue) : queue[k] = e
    \/ \E k \in 1 .. Len(todo) : todo[k].do \in {"connect", "emplace"} /\ todo[k].e = e
    \/ e \in Known /\ ~table[e].connected

ConnectEnds == \A e \in Endpoints : Pending(e) ~> (~Pending(e) \/ ~run)

(* Closed in the end, whatever the server does, is a connection that       *)
(* CloseConnection was called for, at whatever stage it was, and, with     *)
(* PINGs, one whose server does not answer them.                           *)
Unwanted(i) == \E e \in EntriesOf(i) : table[e].toClose \/ ~table[e].ponged

UnwantedIsClosed ==
    \A i \in Ids : Unwanted(i) ~> (i \notin live \/ ~Unwanted(i) \/ ~run)

(* Every message that was accepted before its connection opened leaves its *)
(* queue, not only the first of them: it is sent, by MessagesKept, or its  *)
(* connection is gone.                                                     *)
Waits(e, n) == \E k \in 1 .. Len(table[e].q) : table[e].q[k] = n

EarlyMessageIsSent ==
    \A n \in 1 .. MaxMessages :
        (\E e \in Known : ~table[e].connected /\ Waits(e, n))
            ~> (~run \/ \A e \in Known : ~Waits(e, n))

(* websocketclient.h: Send "attempts to send a message to the given        *)
(* endpoint". A message accepted for an open connection is sent on it.     *)
Unsent(i) == \E e \in EntriesOf(i) : table[e].connected /\ table[e].q # <<>>

SendIsAttempted ==
    \A i \in Ids : Unsent(i) ~> (i \notin live \/ ~Unsent(i) \/ ~run)
=============================================================================
