------------------------------ MODULE WsServer ------------------------------
(***************************************************************************)
(* The websocket side of MongooseServer: the life of a subscriber record   *)
(* from the upgrade to the close, its authentication, its subscriptions,   *)
(* PING supervision, CloseAllWebsockets and the queue of outgoing messages.*)
(*                                                                         *)
(* Everything but SendWebsocketMessage, CloseAllWebsockets and             *)
(* RemoveWebsocketEndpoint runs in the server thread, whose loop is        *)
(* modelled by pass: in "poll" Mongoose delivers events of connections,    *)
(* "after" is the part of Loop behind mg_mgr_poll, "queue" is SendWSQueue. *)
(* Subscriber records are kept by the ADDRESS of a connection; an address  *)
(* is used again by later connections.                                     *)
(***************************************************************************)
EXTENDS Naturals, Sequences, SequencesExt, FiniteSets

CONSTANTS
    Pointers,      \* addresses of mg_connection objects
    MaxId,         \* websocket connections in a run (bounds the model)
    AuthModes,     \* "none", "basic", "bearer" (token in a message), "query"
    Uri,           \* the websocket endpoint, a sequence of path segments
    Topics,        \* endpoints that clients subscribe to, likewise
    Targets,       \* sets of endpoints that messages are sent to
    Producers,     \* threads that call SendWebsocketMessage
    MaxMessages,   \* messages each of them sends (bounds the model)
    Modulus        \* where m_nWebsocketConnections wraps (2^32 in the code)

ASSUME WsAssumption ==
    /\ MaxId \in Nat /\ MaxMessages \in Nat /\ Modulus \in Nat \ {0}
    /\ AuthModes \subseteq {"none", "basic", "bearer", "query"}
    /\ Uri \in Topics /\ Targets \subseteq SUBSET Topics

Ids == 1 .. MaxId
Message == [from : Producers, n : 1 .. MaxMessages, to : Targets]

VARIABLES
    mode,       \* m_tokenCallback, m_mUsers and m_bAuthenticateWSViaQuery
    registered, \* the callbacks of Uri are in the four endpoint maps
    pass,       \* where the server thread is in Loop, or "crashed"
    hung,       \* the server thread waits for a mutex it holds itself
    live,       \* addresses at which there is a connection
    id,         \* which connection that is
    nextId,
    isWs,       \* addresses whose connection has is_websocket set
    closing,    \* is_closing and is_draining: "no", "draining", marked while
                \* "polling", or marked "between" two polls
    subs,       \* m_mSubscribers
    counter,    \* m_nWebsocketConnections
    closeAll,   \* m_bCloseWebsockets
    queue,      \* m_qWsMessages: first in, first out for each producer
    sent,       \* messages each producer has enqueued
    granted,    \* history: connections found authenticated at some time
    opened,     \* history: connections funcOpen was called for
    closed,     \* history: calls of funcClose per connection
    rejected,   \* history: connections whose upgrade Mongoose has refused
    received,   \* history: what mg_ws_send gave each connection
    gone        \* history: connections that have been closed

vars == <<mode, registered, pass, hung, live, id, nextId, isWs, closing, subs,
          counter, closeAll, queue, sent, granted, opened, closed, rejected,
          received, gone>>

connVars == <<live, id, nextId, gone>>
apiVars == <<mode, registered, closeAll, queue, sent>>
history == <<granted, opened, closed, rejected, received>>

Subscriber == [owner : Ids, auth : BOOLEAN, ponged : BOOLEAN,
               topics : SUBSET Topics]

Init ==
    /\ mode \in AuthModes
    /\ registered = TRUE
    /\ pass = "poll"
    /\ hung = FALSE
    /\ live = {}
    /\ id = [p \in Pointers |-> 0]
    /\ nextId = 1
    /\ isWs = {}
    /\ closing = [p \in Pointers |-> "no"]
    /\ subs = [p \in {} |-> 0]
    /\ counter = 0
    /\ closeAll = FALSE
    /\ queue = [t \in Producers |-> <<>>]
    /\ sent = [t \in Producers |-> 0]
    /\ granted = {}
    /\ opened = {}
    /\ closed = [i \in Ids |-> 0]
    /\ rejected = {}
    /\ received = [i \in Ids |-> <<>>]
    /\ gone = {}

Known == DOMAIN subs
Without(f, S) == [x \in DOMAIN f \ S |-> f[x]]
With(f, x, v) == [y \in DOMAIN f \cup {x} |-> IF y = x THEN v ELSE f[y]]

(* funcClose of the endpoint, if there is one, for the owners of records.  *)
CallClose(owners) ==
    closed' = [i \in Ids |-> IF registered /\ i \in owners THEN closed[i] + 1
                                                           ELSE closed[i]]

Polling == pass = "poll" /\ ~hung
(* Mongoose reads nothing more from a connection marked between two polls. *)
Readable(p) == Polling /\ p \in live /\ closing[p] # "between"

-----------------------------------------------------------------------------
(* A faulty CloseWebsocket: the record stays.                              *)
CloseKeepsRecord(p) ==
    /\ counter' = (counter + Modulus - 1) % Modulus
    /\ UNCHANGED subs
    /\ CallClose(IF p \in Known THEN {subs[p].owner} ELSE {})

(* CloseWebsocket.                                                         *)
CloseWebsocket(p) ==
    /\ counter' = (counter + Modulus - 1) % Modulus
    /\ subs' = Without(subs, {p})
    /\ CallClose(IF p \in Known THEN {subs[p].owner} ELSE {})

(* MG_EV_CLOSE, for whatever reason; the connection is freed afterwards.   *)
(* Only a websocket's record is erased.                                    *)
Close(p) ==
    /\ Polling
    /\ p \in live
    /\ IF p \in isWs THEN CloseWebsocket(p)
                     ELSE UNCHANGED <<counter, subs, closed>>
    /\ live' = live \ {p}
    /\ isWs' = isWs \ {p}
    /\ closing' = [closing EXCEPT ![p] = "no"]
    /\ gone' = gone \cup {id[p]}
    /\ UNCHANGED <<apiVars, pass, hung, id, nextId, granted, opened,
                   rejected, received>>

-----------------------------------------------------------------------------
(* EventHttpWebsocket: a client connects to Uri and its request, the only  *)
(* one of the connection, asks for an upgrade. When the key is missing     *)
(* mg_ws_upgrade answers 426 and leaves is_websocket unset, and the handler*)
(* carries on all the same. try_emplace keeps a record that is there.      *)
Record(p) ==
    IF p \in Known
    THEN [subs[p] EXCEPT !.topics = @ \cup {Uri}]
    ELSE [owner |-> nextId, auth |-> FALSE, ponged |-> TRUE, topics |-> {Uri}]

(* No authentication, or funcAuthentication accepts the token of the query.*)
OpenAtOnce(p) ==
    /\ mode \in {"none", "query"}
    /\ subs' = With(subs, p, [Record(p) EXCEPT !.auth = TRUE])
    /\ granted' = granted \cup {nextId}
    /\ opened' = opened \cup {nextId}

(* It refuses the token. The record is erased, and its bAuthenticated read *)
(* afterwards, so that funcOpen may be called or not.                      *)
RefuseQuery(p) ==
    /\ mode = "query"
    /\ subs' = Without(subs, {p})
    /\ opened' \in {opened, opened \cup {nextId}}
    /\ UNCHANGED granted

(* The client has to authenticate itself with its first message.           *)
AwaitAuthentication(p) ==
    /\ mode \in {"basic", "bearer"}
    /\ subs' = With(subs, p, Record(p))
    /\ opened' = IF Record(p).auth THEN opened \cup {nextId} ELSE opened
    /\ UNCHANGED granted

Upgrade(p) ==
    /\ Polling
    /\ registered
    /\ p \notin live /\ nextId \in Ids
    /\ live' = live \cup {p}
    /\ id' = [id EXCEPT ![p] = nextId]
    /\ nextId' = nextId + 1
    /\ \E accepted \in BOOLEAN :
          /\ isWs' = IF accepted THEN isWs \cup {p} ELSE isWs
          /\ rejected' = IF accepted THEN rejected ELSE rejected \cup {nextId}
          /\ counter' = IF accepted THEN (counter + 1) % Modulus ELSE counter
          /\ \/ /\ OpenAtOnce(p) \/ AwaitAuthentication(p)
                /\ closing' = [closing EXCEPT
                                 ![p] = IF accepted THEN "no" ELSE "draining"]
             \/ /\ RefuseQuery(p)
                /\ closing' = [closing EXCEPT ![p] = "polling"]
    /\ UNCHANGED <<apiVars, pass, hung, closed, received, gone>>

-----------------------------------------------------------------------------
(* Frames of an established websocket.                                     *)
DropSubscriber(p) ==
    /\ subs' = Without(subs, {p})
    /\ closing' = [closing EXCEPT ![p] = "polling"]

(* "_authentication": DoWebsocketAuthentication. In basic mode a message   *)
(* with user and password makes AuthenticateWebsocketBasic lock m_mutex,   *)
(* which AuthenticateWebsocket holds already.                              *)
Authenticate(p) ==
    /\ Readable(p) /\ p \in isWs \cap Known
    /\ \/ /\ mode = "none" \/ (mode \in {"bearer", "query"} /\ registered)
          /\ \E T \in SUBSET Topics :
                subs' = [subs EXCEPT ![p].auth = TRUE,
                                     ![p].topics = @ \cup T]
          /\ granted' = granted \cup {id[p]}
          /\ UNCHANGED <<closing, hung>>
       \/ /\ mode # "none"
          /\ DropSubscriber(p)
          /\ UNCHANGED <<hung, granted>>
       \/ /\ mode = "basic"
          /\ hung' = TRUE
          /\ UNCHANGED <<closing, granted, subs>>
    /\ UNCHANGED <<apiVars, connVars, pass, isWs, counter, opened, closed,
                   rejected, received>>

(* "_add" and "_remove", before or after authentication.                   *)
Subscribe(p) ==
    /\ Readable(p) /\ p \in isWs \cap Known
    /\ \/ /\ subs[p].auth
          /\ \E t \in Topics :
                \/ subs' = [subs EXCEPT ![p].topics = @ \cup {t}]
                \/ subs' = [subs EXCEPT ![p].topics = @ \ {t}]
          /\ UNCHANGED closing
       \/ ~subs[p].auth /\ DropSubscriber(p)
    /\ UNCHANGED <<apiVars, connVars, history, pass, hung, isWs, counter>>

(* Any other message: funcMessage is called and its result ignored, or an  *)
(* unauthenticated client is dropped.                                      *)
ExternalMessage(p) ==
    /\ Readable(p) /\ p \in isWs \cap Known
    /\ ~subs[p].auth => DropSubscriber(p)
    /\ subs[p].auth => UNCHANGED <<subs, closing>>
    /\ UNCHANGED <<apiVars, connVars, history, pass, hung, isWs, counter>>

Pong(p) ==
    /\ Readable(p) /\ p \in isWs \cap Known
    /\ subs' = [subs EXCEPT ![p].ponged = TRUE]
    /\ UNCHANGED <<apiVars, connVars, history, pass, hung, isWs, closing,
                   counter>>

(* A CLOSE frame: MG_EV_WS_CTL, and Mongoose starts draining; MG_EV_CLOSE  *)
(* follows in its own time.                                                *)
CloseFrame(p) ==
    /\ Readable(p) /\ p \in isWs
    /\ CloseWebsocket(p)
    /\ closing' = [closing EXCEPT ![p] = IF @ = "no" THEN "draining" ELSE @]
    /\ UNCHANGED <<apiVars, connVars, pass, hung, isWs, granted, opened,
                   rejected, received>>

-----------------------------------------------------------------------------
(* The rest of Loop. mg_mgr_poll closes what is marked before it returns.  *)
EndPoll ==
    /\ Polling
    /\ \A p \in live : closing[p] \in {"no", "draining"}
    /\ pass' = "after"
    /\ UNCHANGED <<apiVars, connVars, history, hung, isWs, closing, subs,
                   counter>>

(* A faulty DoCloseWebsockets: is_closing is not set.                      *)
ForgetWebsockets ==
    /\ pass = "after"
    /\ closeAll
    /\ closeAll' = FALSE
    /\ CallClose({subs[p].owner : p \in Known})
    /\ subs' = [p \in {} |-> 0]
    /\ pass' = "poll"
    /\ UNCHANGED <<mode, registered, queue, sent, connVars, hung, isWs,
                   closing, counter, granted, opened, rejected, received>>

(* It writes to every key of m_mSubscribers, connection or not. At the key *)
(* that a refused upgrade has left that is memory freed by MG_EV_CLOSE: the*)
(* write goes unnoticed, or the program crashes.                           *)
UseFreedConnection ==
    /\ Known \ live # {}
    /\ pass' = "crashed"
    /\ UNCHANGED <<apiVars, connVars, history, hung, isWs, closing, subs,
                   counter>>

CloseKnown ==
    /\ closeAll' = FALSE
    /\ closing' = [p \in Pointers |-> IF p \in Known \cap live THEN "between"
                                                             ELSE closing[p]]
    /\ CallClose({subs[p].owner : p \in Known})
    /\ subs' = [p \in {} |-> 0]
    /\ pass' = "poll"
    /\ UNCHANGED <<mode, registered, queue, sent, connVars, hung, isWs,
                   counter, granted, opened, rejected, received>>

DoCloseWebsockets ==
    /\ pass = "after"
    /\ closeAll
    /\ CloseKnown \/ UseFreedConnection

(* SendAndCheckPings: the second has not passed, or it has.                *)
PingNotDue ==
    /\ pass = "after"
    /\ ~closeAll
    /\ pass' = "queue"
    /\ UNCHANGED <<apiVars, connVars, history, hung, isWs, closing, subs,
                   counter>>

(* A faulty SendAndCheckPings: neither is it here.                         *)
ReportSilence ==
    /\ pass = "after"
    /\ ~closeAll
    /\ CallClose({subs[p].owner : p \in {q \in isWs \cap Known : ~subs[q].ponged}})
    /\ subs' = [p \in Known |-> IF p \in isWs THEN [subs[p] EXCEPT !.ponged = FALSE]
                                             ELSE subs[p]]
    /\ pass' = "queue"
    /\ UNCHANGED <<apiVars, connVars, hung, isWs, closing, counter, granted,
                   opened, rejected, received>>

SendAndCheckPings ==
    /\ pass = "after"
    /\ ~closeAll
    /\ LET Late == {p \in isWs \cap Known : ~subs[p].ponged}
       IN /\ closing' = [p \in Pointers |-> IF p \in Late THEN "between"
                                                         ELSE closing[p]]
          /\ CallClose({subs[p].owner : p \in Late})
          /\ subs' = [p \in Known |-> IF p \in isWs \ Late
                                      THEN [subs[p] EXCEPT !.ponged = FALSE]
                                      ELSE subs[p]]
    /\ pass' = "queue"
    /\ UNCHANGED <<apiVars, connVars, hung, isWs, counter, granted, opened,
                   rejected, received>>

(* SendWSQueue: one message at a time, in an order that respects each      *)
(* producer's, to every authenticated websocket subscribed to a prefix of  *)
(* one of its endpoints.                                                   *)
WebsocketSubscribedToEndpoint(s, topic) ==
    \E t \in s.topics : IsPrefix(t, topic)

(* A faulty Audience: authenticated or not.                                *)
AudienceOfAll(m) ==
    {p \in isWs \cap Known :
        \E topic \in m.to : WebsocketSubscribedToEndpoint(subs[p], topic)}

Audience(m) ==
    {p \in isWs \cap Known :
        /\ subs[p].auth
        /\ \E topic \in m.to : WebsocketSubscribedToEndpoint(subs[p], topic)}

(* A faulty SendNext: the message is lost.                                 *)
SendNothing(t) ==
    /\ pass = "queue"
    /\ queue[t] # <<>>
    /\ queue' = [queue EXCEPT ![t] = Tail(@)]
    /\ UNCHANGED <<mode, registered, closeAll, sent, connVars, history, pass,
                   hung, isWs, closing, subs, counter>>

(* A faulty SendNext: last in, first out.                                  *)
SendNewest(t) ==
    /\ pass = "queue"
    /\ queue[t] # <<>>
    /\ LET m == Last(queue[t])
           To == {id[p] : p \in Audience(m)}
       IN received' = [i \in Ids |-> IF i \in To THEN Append(received[i], m)
                                                 ELSE received[i]]
    /\ queue' = [queue EXCEPT ![t] = Front(@)]
    /\ UNCHANGED <<mode, registered, closeAll, sent, connVars, pass, hung,
                   isWs, closing, subs, counter, granted, opened, closed,
                   rejected>>

SendNext(t) ==
    /\ pass = "queue"
    /\ queue[t] # <<>>
    /\ LET m == Head(queue[t])
           To == {id[p] : p \in Audience(m)}
       IN received' = [i \in Ids |-> IF i \in To THEN Append(received[i], m)
                                                 ELSE received[i]]
    /\ queue' = [queue EXCEPT ![t] = Tail(@)]
    /\ UNCHANGED <<mode, registered, closeAll, sent, connVars, pass, hung,
                   isWs, closing, subs, counter, granted, opened, closed,
                   rejected>>

QueueEmpty ==
    /\ pass = "queue"
    /\ \A t \in Producers : queue[t] = <<>>
    /\ pass' = "poll"
    /\ UNCHANGED <<apiVars, connVars, history, hung, isWs, closing, subs,
                   counter>>

-----------------------------------------------------------------------------
(* Other threads.                                                          *)
SendWebsocketMessage(t) ==
    /\ sent[t] < MaxMessages
    /\ sent' = [sent EXCEPT ![t] = @ + 1]
    /\ \E to \in Targets :
          queue' = [queue EXCEPT
                      ![t] = Append(@, [from |-> t, n |-> sent[t] + 1,
                                        to |-> to])]
    /\ UNCHANGED <<mode, registered, closeAll, connVars, history, pass, hung,
                   isWs, closing, subs, counter>>

CloseAllWebsockets ==
    /\ ~closeAll
    /\ closeAll' = TRUE
    /\ UNCHANGED <<mode, registered, queue, sent, connVars, history, pass,
                   hung, isWs, closing, subs, counter>>

RemoveWebsocketEndpoint ==
    /\ registered
    /\ registered' = FALSE
    /\ UNCHANGED <<mode, closeAll, queue, sent, connVars, history, pass, hung,
                   isWs, closing, subs, counter>>

Frame(p) ==
    Authenticate(p) \/ Subscribe(p) \/ ExternalMessage(p) \/ CloseFrame(p)

Loop ==
    \/ EndPoll \/ DoCloseWebsockets \/ PingNotDue
    \/ \E t \in Producers : SendNext(t)
    \/ QueueEmpty

Next ==
    \/ \E p \in Pointers :
          Upgrade(p) \/ Close(p) \/ Frame(p) \/ Pong(p)
    \/ Loop \/ SendAndCheckPings
    \/ /\ pass # "crashed"
       /\ \/ \E t \in Producers : SendWebsocketMessage(t)
          \/ CloseAllWebsockets \/ RemoveWebsocketEndpoint

(* The server thread keeps looping, a connection marked as closing is      *)
(* closed by the poll that finds it, one that drains by some poll, and a   *)
(* second passes again and again.                                          *)
Fairness ==
    /\ WF_vars(Loop)
    /\ SF_vars(EndPoll)
    /\ SF_vars(SendAndCheckPings)
    /\ \A p \in Pointers : SF_vars(closing[p] # "no" /\ Close(p))

Spec == Init /\ [][Next]_vars /\ Fairness

-----------------------------------------------------------------------------
TypeOK ==
    /\ mode \in AuthModes
    /\ registered \in BOOLEAN /\ hung \in BOOLEAN /\ closeAll \in BOOLEAN
    /\ pass \in {"poll", "after", "queue", "crashed"}
    /\ live \subseteq Pointers /\ isWs \subseteq live
    /\ id \in [Pointers -> 0 .. MaxId]
    /\ nextId \in 1 .. MaxId + 1
    /\ closing \in [Pointers -> {"no", "draining", "polling", "between"}]
    /\ Known \subseteq Pointers
    /\ \A p \in Known : subs[p] \in Subscriber
    /\ counter \in 0 .. Modulus - 1
    /\ queue \in [Producers -> Seq(Message)]
    /\ sent \in [Producers -> 0 .. MaxMessages]
    /\ granted \subseteq Ids /\ opened \subseteq Ids
    /\ rejected \subseteq Ids /\ gone \subseteq Ids
    /\ closed \in [Ids -> Nat]
    /\ received \in [Ids -> Seq(Message)]

(* A subscriber record under an address is the record of the connection at *)
(* that address: no record of a websocket outlives it to be found by the   *)
(* next one. Every path on which a websocket ends must erase it; only what *)
(* a refused upgrade leaves behind is not erased by MG_EV_CLOSE.           *)
RecordsAreCurrent ==
    \A p \in Known :
        subs[p].owner \notin rejected => p \in live /\ subs[p].owner = id[p]

(* Once funcClose has been called for a connection no message of it        *)
(* reaches funcMessage any more, on any of the three ways to be closed.    *)
NoMessageAfterClose ==
    \A p \in isWs \cap Known :
        Readable(p) /\ subs[p].auth => closed[subs[p].owner] = 0

(* A connection gets the messages of one producer in the order in which    *)
(* they were sent, and none of them twice, whatever other producers,       *)
(* subscriptions and reused addresses come in between.                     *)
ReceivedInOrder ==
    \A i \in Ids : \A j, k \in 1 .. Len(received[i]) :
        j < k /\ received[i][j].from = received[i][k].from
            => received[i][j].n < received[i][k].n

(* Messages go to connections that have been authenticated, never to one   *)
(* that found a record somebody else had authenticated.                    *)
DeliveredToGranted == \A i \in Ids : received[i] # <<>> => i \in granted

(* What the properties below except: the server thread has locked itself   *)
(* out, or the program is gone.                                            *)
Stopped == hung \/ pass = "crashed"

(* A call of CloseAllWebsockets closes every connection known at the time, *)
(* unless a record that a refused upgrade has left makes it crash.         *)
CloseAllCloses ==
    \A i \in Ids :
        (closeAll /\ \E p \in Known : id[p] = i) ~> (i \in gone \/ Stopped)

(* A client that stops answering PINGs is closed.                          *)
SilentClientIsClosed ==
    \A i \in Ids :
        (\E p \in isWs \cap Known : id[p] = i /\ ~subs[p].ponged)
            ~> (\/ i \in gone \/ Stopped
                \/ \E p \in Known : id[p] = i /\ subs[p].ponged)

Queued(m) == \E k \in 1 .. Len(queue[m.from]) : queue[m.from][k] = m
Got(i, m) == \E k \in 1 .. Len(received[i]) : received[i][k] = m
Subscribed(i, t) ==
    \E p \in isWs \cap Known : id[p] = i /\ subs[p].auth /\ t \in subs[p].topics

(* A queued message reaches every authenticated client that is subscribed  *)
(* to one of its endpoints and stays so. (Of endpoints below or above them *)
(* this says nothing: see RelativesReached.)                               *)
MessageDelivered ==
    \A i \in Ids : \A m \in Message : \A t \in m.to :
        Queued(m) /\ Subscribed(i, t)
            ~> (Got(i, m) \/ ~Subscribed(i, t) \/ Stopped)

(* src/README.md, "Sending Websocket Messages To A Client": a message sent *)
(* to an endpoint is also sent to a client of an endpoint below it. (The   *)
(* code sends it to clients of the endpoints above it.)                    *)
RelativesReached ==
    \A i \in Ids : \A m \in Message : \A t \in Topics :
        Queued(m) /\ Subscribed(i, t) /\ (\E topic \in m.to : IsPrefix(topic, t))
            ~> (Got(i, m) \/ ~Subscribed(i, t) \/ Stopped)
=============================================================================
