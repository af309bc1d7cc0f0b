--------------------------- MODULE WsClientProofs ---------------------------
(***************************************************************************)
(* Proofs about WsClient, for any servers, routes, number of connections   *)
(* and messages: types, that the table's pointers are of live connections, *)
(* that each end of a connection is told once, and that messages are kept. *)
(***************************************************************************)
EXTENDS WsClient, SequenceTheorems, TLAPS

Entering(s) ==
    /\ s.conn \in live
    /\ target[s.conn] = s.e
    /\ EntriesOf(s.conn) = {}

InHand == IF todo # <<>> /\ todo[1].do = "connect" THEN 1 ELSE 0

(* What the thread has still to do: it connects to one endpoint at a time, *)
(* and next; connections to be entered in the table are live, their own,   *)
(* and not there yet; nothing is left to do outside Loop. The numbers of   *)
(* connections suffice for what is queued and in hand.                     *)
TodoInv ==
    /\ \A k \in 1 .. Len(todo) :
          /\ todo[k].do = "connect" => k = 1 /\ todo[k].e \in Endpoints
          /\ todo[k].do = "emplace" => Entering(todo[k])
    /\ \A k, l \in 1 .. Len(todo) :
          todo[k].do = "emplace" /\ todo[l].do = "emplace"
             /\ todo[k].conn = todo[l].conn => k = l
    /\ thread # "loop" => todo = <<>>
    /\ nextId - 1 + Len(queue) + InHand <= asked

(* Connections are numbered in the order they are made, and no server is   *)
(* connected to that is refused.                                           *)
LiveIds ==
    /\ \A i \in live : i < nextId
    /\ \A i \in live : target[i] \in Endpoints /\ Route[target[i]] # "refused"

(* Nothing is accepted for a connection before it has an entry.            *)
Untouched ==
    \A i \in Ids :
        i >= nextId \/ (i \in live /\ EntriesOf(i) = {}) =>
            accepted[i] = <<>> /\ received[i] = <<>>

StateInv ==
    /\ TypeOK
    /\ TablesAreOfLiveConnections
    /\ OneClose
    /\ MessagesKept
    /\ LiveIds
    /\ Untouched

ClientInv == StateInv /\ TodoInv

-----------------------------------------------------------------------------
LEMMA InitClientInv == Init => ClientInv
  <1> SUFFICES ASSUME Init PROVE ClientInv
    OBVIOUS
  <1>1. TypeOK
    <2> USE WsClientAssumption DEF Init, Ids
    <2>1. /\ run \in BOOLEAN /\ wakeup \in BOOLEAN /\ thread = "loop"
          /\ live \subseteq Ids
      OBVIOUS
    <2>5. todo \in Seq(Step) /\ queue \in Seq(Endpoints)
      OBVIOUS
    <2>6. /\ nextId \in 1 .. MaxId + 1
          /\ asked \in 0 .. MaxId /\ sent \in 0 .. MaxMessages
      OBVIOUS
    <2>2. /\ Known = {}
          /\ DOMAIN error = {}
          /\ closing \in [Ids -> {"no", "polling", "between"}]
      BY DEF Known
    <2>3. /\ target \in [Ids -> Endpoints \cup {NoEndpoint}]
          /\ closes \in [Ids -> Nat]
      OBVIOUS
    <2>4. /\ accepted \in [Ids -> Seq(1 .. MaxMessages)]
          /\ received \in [Ids -> Seq(1 .. MaxMessages)]
      OBVIOUS
    <2> QED  BY <2>1, <2>2, <2>3, <2>4, <2>5, <2>6 DEF TypeOK
  <1>2. TablesAreOfLiveConnections /\ MessagesKept
    BY DEF Init, TablesAreOfLiveConnections, MessagesKept, Known
  <1>3. OneClose /\ LiveIds /\ Untouched
    BY DEF Init, OneClose, LiveIds, Untouched, Ids
  <1>4. TodoInv
    BY DEF Init, TodoInv, InHand
  <1> QED  BY <1>1, <1>2, <1>3, <1>4 DEF ClientInv, StateInv

(* Most steps leave the table's pointers and messages as they are.         *)
SamePointers ==
    /\ Known' = Known
    /\ \A e \in Known : table'[e].conn = table[e].conn

SameEntries ==
    /\ SamePointers
    /\ \A e \in Known : table'[e] \in Connection /\ table'[e].q = table[e].q

SameConnections == UNCHANGED <<live, nextId, target, accepted, received, closes>>

(* What such a step has to keep beside.                                    *)
TypesKept ==
    /\ run' \in BOOLEAN /\ wakeup' \in BOOLEAN
    /\ thread' \in {"loop", "joined", "freed"}
    /\ todo' \in Seq(Step)
    /\ queue' \in Seq(Endpoints)
    /\ DOMAIN error' \subseteq live
    /\ \A i \in DOMAIN error' : error'[i] \in Codes
    /\ closing' \in [Ids -> {"no", "polling", "between"}]
    /\ asked' \in 0 .. MaxId /\ sent' \in 0 .. MaxMessages

LEMMA EntriesStay ==
  ASSUME SamePointers
  PROVE  \A i : EntriesOf(i)' = EntriesOf(i)
  BY DEF SamePointers, EntriesOf, Known

LEMMA StateStays ==
  ASSUME StateInv, SameEntries, SameConnections, TypesKept
  PROVE  StateInv'
  <1>1. TypeOK'
    BY DEF StateInv, TypeOK, SameEntries, SamePointers, SameConnections, TypesKept,
           Known
  <1>2. TablesAreOfLiveConnections'
    BY DEF StateInv, TablesAreOfLiveConnections, SameEntries, SamePointers,
           SameConnections, TypesKept, Known
  <1>3. OneClose'
    BY DEF StateInv, OneClose, SameConnections
  <1>4. MessagesKept'
    BY DEF StateInv, MessagesKept, SameEntries, SamePointers, SameConnections,
           Known
  <1>5. LiveIds'
    BY DEF StateInv, LiveIds, SameConnections
  <1>6. Untouched'
    BY EntriesStay DEF StateInv, Untouched, SameEntries, SameConnections
  <1> QED  BY <1>1, <1>2, <1>3, <1>4, <1>5, <1>6 DEF StateInv

(* As many connections are queued or in hand as before, or fewer.          *)
QueueKept == Len(queue') - asked' <= Len(queue) - asked

(* todo is left alone, ...                                                 *)
LEMMA TodoStays ==
  ASSUME ClientInv, SamePointers, UNCHANGED <<live, nextId, target>>,
         UNCHANGED <<todo, thread>>, asked' \in Nat, queue' \in Seq(Endpoints),
         QueueKept
  PROVE  TodoInv'
  <1>1. \A k \in 1 .. Len(todo) :
           todo[k].do = "emplace" => Entering(todo[k])'
    BY EntriesStay DEF Entering, ClientInv, TodoInv
  <1>2. InHand' = InHand /\ InHand \in {0, 1}
    BY DEF InHand
  <1>3. nextId' - 1 + Len(queue') + InHand' <= asked'
    BY <1>2 DEF ClientInv, StateInv, TypeOK, TodoInv, QueueKept
  <1> QED  BY <1>1, <1>3 DEF ClientInv, TodoInv

(* ... or begins anew, with nothing to connect to or to enter, ...         *)
LEMMA TodoAnew ==
  ASSUME ClientInv, UNCHANGED <<nextId, asked, queue>>,
         todo' \in Seq(Step),
         \A k \in 1 .. Len(todo') : todo'[k].do \notin {"connect", "emplace"},
         thread' # "loop" => todo' = <<>>
  PROVE  TodoInv'
  <1>1. InHand' = 0
    BY DEF InHand
  <1>2. nextId' - 1 + Len(queue') + InHand' <= asked'
    <2>1. InHand \in {0, 1}
      BY DEF InHand
    <2> QED  BY <1>1, <2>1 DEF ClientInv, StateInv, TypeOK, TodoInv
  <1> QED  BY <1>2 DEF TodoInv

(* ... or its first step is done.                                          *)
LEMMA TailOf ==
  ASSUME NEW s \in Seq(Step), s # <<>>
  PROVE  /\ Tail(s) \in Seq(Step)
         /\ Len(Tail(s)) = Len(s) - 1
         /\ Head(s) = s[1]
         /\ s[1] \in Step
         /\ Len(s) \in Nat \ {0}
         /\ \A k \in 1 .. Len(Tail(s)) : Tail(s)[k] = s[k + 1] /\ k + 1 \in 1 .. Len(s)
  OBVIOUS

Remaining(s) == \E k \in 1 .. Len(todo) : k # 1 /\ s = todo[k]

LEMMA RemainingStay ==
  ASSUME ClientInv, SamePointers, UNCHANGED <<live, target>>
  PROVE  \A s : Remaining(s) /\ s.do = "emplace" => Entering(s)'
  BY EntriesStay DEF Remaining, Entering, ClientInv, TodoInv

LEMMA TodoShrinks ==
  ASSUME ClientInv,
         \A s : Remaining(s) /\ s.do = "emplace" => Entering(s)',
         todo # <<>>, todo' = Tail(todo), thread = "loop",
         UNCHANGED <<nextId, thread, asked, queue>>
  PROVE  TodoInv'
  <1>1. todo \in Seq(Step)
    BY DEF ClientInv, StateInv, TypeOK
  <1>3. \A k \in 1 .. Len(todo') : /\ todo'[k] = todo[k + 1]
                                 /\ k + 1 \in 1 .. Len(todo)
                                 /\ k \in Nat \ {0}
    BY <1>1, TailOf
  <1>4. \A k \in 1 .. Len(todo') :
           /\ todo'[k].do # "connect"
           /\ todo'[k].do = "emplace" => Entering(todo[k])'
    <2> SUFFICES ASSUME NEW k \in 1 .. Len(todo')
                 PROVE  /\ todo'[k].do # "connect"
                        /\ todo'[k].do = "emplace" => Entering(todo[k])'
      OBVIOUS
    <2>1. todo'[k] = todo[k + 1] /\ k + 1 \in 1 .. Len(todo) /\ k + 1 # 1
      BY <1>3
    <2>2. todo[k + 1].do # "connect"
      BY <2>1 DEF ClientInv, TodoInv
    <2>3. Remaining(todo'[k])
      BY <2>1 DEF Remaining
    <2>4. todo'[k].do = "emplace" => Entering(todo[k])'
      BY <2>3 DEF Entering
    <2> QED  BY <2>1, <2>2, <2>4
  <1>5. \A k, l \in 1 .. Len(todo') :
           todo'[k].do = "emplace" /\ todo'[l].do = "emplace"
              /\ todo'[k].conn = todo'[l].conn => k = l
    <2> SUFFICES ASSUME NEW k \in 1 .. Len(todo'), NEW l \in 1 .. Len(todo'),
                        todo'[k].do = "emplace", todo'[l].do = "emplace",
                        todo'[k].conn = todo'[l].conn
                 PROVE  k = l
      OBVIOUS
    <2>1. k + 1 = l + 1
      BY <1>3 DEF ClientInv, TodoInv
    <2> QED  BY <2>1
  <1>6. InHand' = 0
    <2>1. CASE todo' = <<>>
      BY <2>1 DEF InHand
    <2>2. CASE todo' # <<>>
      <3>1. todo' \in Seq(Step)
        BY <1>1, TailOf
      <3>2. 1 \in 1 .. Len(todo')
        BY <2>2, <3>1
      <3> QED  BY <1>4, <3>2 DEF InHand
    <2> QED  BY <2>1, <2>2
  <1>7. nextId' - 1 + Len(queue') + InHand' <= asked'
    <2>1. InHand \in {0, 1}
      BY DEF InHand
    <2> QED  BY <1>6, <2>1 DEF ClientInv, StateInv, TypeOK, TodoInv
  <1>8. thread' = "loop"
    OBVIOUS
  <1> QED  BY <1>4, <1>5, <1>7, <1>8 DEF TodoInv

-----------------------------------------------------------------------------
(* Calls of other threads.                                                 *)
LEMMA ConnectInv ==
  ASSUME ClientInv, NEW e \in Endpoints, Connect(e)
  PROVE  ClientInv'
  <1>1. /\ queue' = Append(queue, e) /\ asked' = asked + 1 /\ asked < MaxId
        /\ UNCHANGED <<live, nextId, target, closes, run, thread, todo, table,
                      error, closing, wakeup, sent, accepted, received>>
    BY DEF Connect, mongoose
  <1>2. /\ queue \in Seq(Endpoints) /\ asked \in 0 .. MaxId
        /\ queue' \in Seq(Endpoints) /\ Len(queue') = Len(queue) + 1
        /\ asked' \in 0 .. MaxId
    BY <1>1, WsClientAssumption DEF ClientInv, StateInv, TypeOK
  <1>3. SameEntries
    BY <1>1 DEF SameEntries, SamePointers, ClientInv, StateInv, TypeOK, Known
  <1>4. TypesKept
    BY <1>1, <1>2 DEF TypesKept, ClientInv, StateInv, TypeOK,
                      TablesAreOfLiveConnections
  <1>5. StateInv'
    BY <1>1, <1>3, <1>4, StateStays DEF ClientInv, SameConnections
  <1>6. TodoInv'
    BY <1>1, <1>2, <1>3, TodoStays DEF QueueKept, SameEntries
  <1> QED  BY <1>5, <1>6 DEF ClientInv

LEMMA CloseConnectionInv ==
  ASSUME ClientInv, NEW e \in Endpoints, CloseConnection(e)
  PROVE  ClientInv'
  <1>1. /\ e \in Known
        /\ table' = [table EXCEPT ![e].toClose = TRUE]
        /\ wakeup' = TRUE
        /\ UNCHANGED <<live, nextId, target, closes, run, thread, todo, queue,
                      error, closing, asked, sent, accepted, received>>
    BY DEF CloseConnection, mongoose, calls
  <1>2. SameEntries
    BY <1>1 DEF SameEntries, SamePointers, ClientInv, StateInv, TypeOK, Known, Connection
  <1>3. TypesKept
    BY <1>1 DEF TypesKept, ClientInv, StateInv, TypeOK,
                TablesAreOfLiveConnections
  <1>4. StateInv'
    BY <1>1, <1>2, <1>3, StateStays DEF ClientInv, SameConnections
  <1>5. TodoInv'
    BY <1>1, <1>2, TodoStays DEF QueueKept, SameEntries, ClientInv, StateInv, TypeOK
  <1> QED  BY <1>4, <1>5 DEF ClientInv

LEMMA StopInv ==
  ASSUME ClientInv, Stop
  PROVE  ClientInv'
  <1>1. /\ run' = FALSE
        /\ UNCHANGED <<live, nextId, target, closes, thread, todo, queue, table,
                      error, closing, wakeup, asked, sent, accepted, received>>
    BY DEF Stop, mongoose
  <1>2. SameEntries
    BY <1>1 DEF SameEntries, SamePointers, ClientInv, StateInv, TypeOK, Known
  <1>3. TypesKept
    BY <1>1 DEF TypesKept, ClientInv, StateInv, TypeOK,
                TablesAreOfLiveConnections
  <1>4. StateInv'
    BY <1>1, <1>2, <1>3, StateStays DEF ClientInv, SameConnections
  <1>5. TodoInv'
    BY <1>1, <1>2, TodoStays DEF QueueKept, SameEntries, ClientInv, StateInv, TypeOK
  <1> QED  BY <1>4, <1>5 DEF ClientInv

-----------------------------------------------------------------------------
(* Events that only mark the connection or change the flags of its entry.  *)
(* A stage, an error code, closing.                                        *)
FlagsOnly ==
    /\ SameEntries
    /\ DOMAIN error' \subseteq live
    /\ \A i \in DOMAIN error' : error'[i] \in Codes
    /\ closing' \in [Ids -> {"no", "polling", "between"}]
    /\ UNCHANGED <<live, nextId, target, closes, run, queue, wakeup, asked,
                  sent, accepted, received>>

LEMMA FlagsInv ==
  ASSUME ClientInv, FlagsOnly, UNCHANGED <<thread, todo>>
  PROVE  ClientInv'
  <1>1. TypesKept
    BY DEF FlagsOnly, TypesKept, ClientInv, StateInv, TypeOK
  <1>2. StateInv'
    BY <1>1, StateStays DEF ClientInv, FlagsOnly, SameConnections
  <1>3. TodoInv'
    BY TodoStays DEF FlagsOnly, SameEntries, QueueKept, ClientInv, StateInv, TypeOK
  <1> QED  BY <1>2, <1>3 DEF ClientInv

LEMMA AdvanceFlags ==
  ASSUME ClientInv, NEW e \in Known, NEW stage \in Stages, Advance(e, stage)
  PROVE  SameEntries
  BY DEF Advance, SameEntries, SamePointers, ClientInv, StateInv, TypeOK, Known,
         Connection

LEMMA UnchangedEntries ==
  ASSUME ClientInv, UNCHANGED table
  PROVE  SameEntries
  BY DEF SameEntries, SamePointers, ClientInv, StateInv, TypeOK, Known

(* What FlagsOnly asks of error and closing, when they are left alone.     *)
LEMMA ErrorsAndMarks ==
  ASSUME ClientInv
  PROVE  /\ DOMAIN error \subseteq live
         /\ \A i \in DOMAIN error : error[i] \in Codes
         /\ closing \in [Ids -> {"no", "polling", "between"}]
         /\ live \subseteq Ids
  BY DEF ClientInv, StateInv, TypeOK, TablesAreOfLiveConnections

LEMMA MarkTypes ==
  ASSUME ClientInv, NEW i \in Ids, Mark(i)
  PROVE  closing' \in [Ids -> {"no", "polling", "between"}]
  BY ErrorsAndMarks DEF Mark

LEMMA ErrorTypes ==
  ASSUME ClientInv, NEW i \in live, NEW c \in Codes, error' = With(error, i, c)
  PROVE  /\ DOMAIN error' \subseteq live
         /\ \A j \in DOMAIN error' : error'[j] \in Codes
  BY ErrorsAndMarks DEF With

LEMMA EntryRoutes ==
  ASSUME ClientInv
  PROVE  \A e \in Known : Route[e] # "refused" /\ e \in Endpoints
  BY DEF ClientInv, StateInv, TypeOK, TablesAreOfLiveConnections, LiveIds

LEMMA HandleInitialConnectionInv ==
  ASSUME ClientInv, NEW i \in Ids, HandleInitialConnection(i)
  PROVE  ClientInv'
  <1>1. UNCHANGED <<live, nextId, target, run, asked, sent, accepted, closes,
                    thread, todo, queue, error, closing, wakeup, received>>
    BY DEF HandleInitialConnection, mongoose, calls
  <1>2. SameEntries
    <2>1. PICK e \in EntriesOf(i) :
             Advance(e, CASE Route[e] = "plain"  -> "upgrading"
                          [] Route[e] = "tls"    -> "awaitingTls"
                          [] Route[e] = "tunnel" -> "awaitingConnect")
      BY DEF HandleInitialConnection
    <2>2. e \in Known /\ Route[e] \in {"plain", "tls", "tunnel"}
      BY EntryRoutes, WsClientAssumption DEF EntriesOf
    <2>3. (CASE Route[e] = "plain"  -> "upgrading"
             [] Route[e] = "tls"    -> "awaitingTls"
             [] Route[e] = "tunnel" -> "awaitingConnect") \in Stages
      BY <2>2 DEF Stages
    <2> QED  BY <2>1, <2>2, <2>3, AdvanceFlags
  <1> QED  BY <1>1, <1>2, ErrorsAndMarks, FlagsInv DEF FlagsOnly

LEMMA HandleProxyReadInv ==
  ASSUME ClientInv, NEW i \in Ids, HandleProxyRead(i)
  PROVE  ClientInv'
  <1>1. /\ i \in live
        /\ UNCHANGED <<live, nextId, target, run, asked, sent, accepted, closes,
                      thread, todo, queue, wakeup, received>>
    BY DEF HandleProxyRead, mongoose, calls, Fresh, Readable
  <1>2. PICK e \in EntriesOf(i) :
           \/ Advance(e, "awaitingTls") /\ UNCHANGED <<error, closing>>
           \/ error' = With(error, i, "status") /\ Mark(i) /\ UNCHANGED table
    BY DEF HandleProxyRead
  <1>3. e \in Known /\ "awaitingTls" \in Stages /\ "status" \in Codes
    BY DEF EntriesOf, Stages, Codes
  <1>4. CASE Advance(e, "awaitingTls") /\ UNCHANGED <<error, closing>>
    BY <1>1, <1>3, <1>4, AdvanceFlags, ErrorsAndMarks, FlagsInv DEF FlagsOnly
  <1>5. CASE error' = With(error, i, "status") /\ Mark(i) /\ UNCHANGED table
    BY <1>1, <1>3, <1>5, UnchangedEntries, MarkTypes, ErrorTypes, FlagsInv
    DEF FlagsOnly
  <1> QED  BY <1>2, <1>4, <1>5

LEMMA HandleTlsHandshakeInv ==
  ASSUME ClientInv, NEW i \in Ids, HandleTlsHandshake(i)
  PROVE  ClientInv'
  <1>1. UNCHANGED <<live, nextId, target, run, asked, sent, accepted, closes,
                    thread, todo, queue, error, closing, wakeup, received>>
    BY DEF HandleTlsHandshake, mongoose, calls
  <1>2. PICK e \in EntriesOf(i) : Advance(e, "upgrading")
    BY DEF HandleTlsHandshake
  <1>3. SameEntries
    BY <1>2, AdvanceFlags DEF EntriesOf, Stages
  <1> QED  BY <1>1, <1>3, ErrorsAndMarks, FlagsInv DEF FlagsOnly

(* A message answered with false, and a CLOSE frame.                       *)
LEMMA MarkInv ==
  ASSUME ClientInv, NEW i \in Ids, Message(i) \/ CloseFrame(i)
  PROVE  ClientInv'
  <1>1. /\ Mark(i)
        /\ UNCHANGED <<live, nextId, target, run, asked, sent, accepted, closes,
                      thread, todo, queue, table, error, wakeup, received>>
    BY DEF Message, CloseFrame, mongoose, calls
  <1> QED  BY <1>1, UnchangedEntries, MarkTypes, ErrorsAndMarks, FlagsInv
           DEF FlagsOnly

LEMMA CheckPongInv ==
  ASSUME ClientInv, NEW i \in Ids, CheckPong(i)
  PROVE  ClientInv'
  <1>1. UNCHANGED <<live, nextId, target, run, asked, sent, accepted, closes,
                    thread, todo, queue, error, closing, wakeup, received>>
    BY DEF CheckPong, mongoose, calls
  <1>2. PICK e \in EntriesOf(i) : table' = [table EXCEPT ![e].ponged = TRUE]
    BY DEF CheckPong
  <1>3. SameEntries
    BY <1>2 DEF EntriesOf, SameEntries, SamePointers, ClientInv, StateInv, TypeOK, Known,
                Connection
  <1> QED  BY <1>1, <1>3, ErrorsAndMarks, FlagsInv DEF FlagsOnly

-----------------------------------------------------------------------------
(* Steps that begin a new list of things to do, or do the first of them.   *)
LEMMA StepsAreSteps ==
  /\ \A what \in {"take", "send", "check"} :
        Do(what) \in Step /\ Do(what).do = what
  /\ \A e \in Endpoints \cup {NoEndpoint}, i \in 0 .. MaxId :
        [do |-> "opened", e |-> e, conn |-> i] \in Step
  /\ \A e \in Endpoints \cup {NoEndpoint} :
        [do |-> "connect", e |-> e, conn |-> 0] \in Step
  <1>1. 0 \in 0 .. MaxId
    BY WsClientAssumption
  <1> QED  BY <1>1 DEF Step, Do

(* The state's half of these steps.                                        *)
LEMMA WorkState ==
  ASSUME ClientInv, FlagsOnly, todo' \in Seq(Step),
         thread' \in {"loop", "joined", "freed"}
  PROVE  StateInv'
  <1>1. TypesKept
    BY DEF FlagsOnly, TypesKept, ClientInv, StateInv, TypeOK
  <1> QED  BY <1>1, StateStays DEF ClientInv, FlagsOnly, SameConnections

LEMMA WorkFirst ==
  ASSUME ClientInv, FlagsOnly, thread = "loop", todo # <<>>,
         todo' = Tail(todo), thread' = thread
  PROVE  ClientInv'
  <1>1. todo' \in Seq(Step)
    BY DEF ClientInv, StateInv, TypeOK
  <1>2. StateInv'
    BY <1>1, WorkState
  <1>3. TodoInv'
    BY RemainingStay, TodoShrinks DEF FlagsOnly, SameEntries
  <1> QED  BY <1>2, <1>3 DEF ClientInv

LEMMA WorkAnew ==
  ASSUME ClientInv, FlagsOnly, todo' \in Seq(Step),
         \A k \in 1 .. Len(todo') : todo'[k].do \notin {"connect", "emplace"},
         thread' \in {"loop", "joined", "freed"},
         thread' # "loop" => todo' = <<>>
  PROVE  ClientInv'
  <1>1. StateInv'
    BY WorkState
  <1>2. TodoInv'
    BY TodoAnew DEF FlagsOnly
  <1> QED  BY <1>1, <1>2 DEF ClientInv

LEMMA WsOpenInv ==
  ASSUME ClientInv, NEW i \in Ids, WsOpen(i)
  PROVE  ClientInv'
  <1>1. /\ thread = "loop"
        /\ UNCHANGED <<live, nextId, target, run, asked, sent, accepted, closes,
                      thread, queue, error, closing, wakeup, received>>
    BY DEF WsOpen, mongoose, calls, Fresh, Readable, Polling
  <1>2. PICK e \in EntriesOf(i) :
           /\ table' = [table EXCEPT ![e].stage = "ready", ![e].connected = TRUE]
           /\ todo' = <<[do |-> "opened", e |-> e, conn |-> i], Do("take"),
                        Do("send")>>
    BY DEF WsOpen
  <1>3. e \in Known /\ e \in Endpoints /\ i \in 0 .. MaxId
    BY EntryRoutes, WsClientAssumption DEF EntriesOf, Ids
  <1>4. SameEntries
    BY <1>2, <1>3 DEF SameEntries, SamePointers, ClientInv, StateInv, TypeOK, Known,
                      Connection, Stages
  <1>5. FlagsOnly
    BY <1>1, <1>4, ErrorsAndMarks DEF FlagsOnly
  <1>6. /\ todo' \in Seq(Step)
        /\ \A k \in 1 .. Len(todo') : todo'[k].do \notin {"connect", "emplace"}
    <2> DEFINE s == [do |-> "opened", e |-> e, conn |-> i]
    <2>1. s \in Step /\ s.do = "opened"
      BY <1>3, StepsAreSteps
    <2>2. /\ Do("take") \in Step /\ Do("take").do = "take"
          /\ Do("send") \in Step /\ Do("send").do = "send"
      BY StepsAreSteps
    <2>3. todo' = <<s, Do("take"), Do("send")>>
      BY <1>2
    <2> HIDE DEF s
    <2> QED  BY <2>1, <2>2, <2>3
  <1> QED  BY <1>1, <1>5, <1>6, WorkAnew

LEMMA OpenedInv ==
  ASSUME ClientInv, Opened
  PROVE  ClientInv'
  <1>1. /\ thread = "loop" /\ todo # <<>> /\ todo' = Tail(todo)
        /\ UNCHANGED <<live, nextId, target, run, asked, sent, accepted, closes,
                      thread, queue, table, error, wakeup, received>>
    BY DEF Opened, mongoose, calls
  <1>2. closing' = closing \/ \E i : closing' = [closing EXCEPT ![i] = "polling"]
    BY DEF Opened, Mark
  <1>3. closing' \in [Ids -> {"no", "polling", "between"}]
    BY <1>2, ErrorsAndMarks
  <1> QED  BY <1>1, <1>3, UnchangedEntries, ErrorsAndMarks, WorkFirst
           DEF FlagsOnly

LEMMA ErrorInv ==
  ASSUME ClientInv, NEW i \in Ids, Error(i)
  PROVE  ClientInv'
  <1>1. /\ thread = "loop" /\ i \in live
        /\ error' = With(error, i, "initFail") /\ Mark(i)
        /\ todo' = <<Do("take")>>
        /\ UNCHANGED <<live, nextId, target, run, asked, sent, accepted, closes,
                      thread, queue, wakeup, received>>
    BY DEF Error, mongoose, calls, Fresh, Readable, Polling
  <1>2. table' = [e \in Known |-> IF table[e].conn = i
                                  THEN [table[e] EXCEPT !.connected = FALSE]
                                  ELSE table[e]]
    BY DEF Error
  <1>3. SameEntries
    BY <1>2 DEF SameEntries, SamePointers, ClientInv, StateInv, TypeOK, Known, Connection
  <1>4. "initFail" \in Codes
    BY DEF Codes
  <1>5. FlagsOnly
    BY <1>1, <1>3, <1>4, MarkTypes, ErrorTypes DEF FlagsOnly
  <1>6. Do("take") \in Step /\ Do("take").do = "take"
    BY StepsAreSteps
  <1> QED  BY <1>1, <1>5, <1>6, WorkAnew

LEMMA WakeupInv ==
  ASSUME ClientInv, Wakeup
  PROVE  ClientInv'
  <1>1. /\ thread = "loop" /\ wakeup' = FALSE
        /\ todo' = <<Do("send")>> \/ todo' = <<>>
        /\ UNCHANGED <<live, nextId, target, run, asked, sent, accepted, closes,
                      thread, queue, table, error, closing, received>>
    BY DEF Wakeup, mongoose, calls, Polling
  <1>2. Do("send") \in Step /\ Do("send").do = "send"
    BY StepsAreSteps
  <1>3. todo' \in Seq(Step)
    <2>1. CASE todo' = <<>>
      BY <2>1
    <2>2. CASE todo' = <<Do("send")>>
      BY <1>2, <2>2
    <2> QED  BY <1>1, <2>1, <2>2
  <1>4. \A k \in 1 .. Len(todo') : todo'[k].do \notin {"connect", "emplace"}
    BY <1>1, <1>2
  <1>5. SameEntries
    BY <1>1, UnchangedEntries
  <1>6. StateInv'
    <2>1. TypesKept
      BY <1>1, <1>3, ErrorsAndMarks DEF TypesKept, ClientInv, StateInv, TypeOK
    <2> QED  BY <1>1, <1>5, <2>1, StateStays DEF ClientInv, SameConnections
  <1>7. TodoInv'
    BY <1>1, <1>3, <1>4, TodoAnew
  <1> QED  BY <1>6, <1>7 DEF ClientInv

LEMMA EndPollInv ==
  ASSUME ClientInv, EndPoll
  PROVE  ClientInv'
  <1>1. /\ thread = "loop" /\ todo = <<>>
        /\ \/ todo' = <<Do("take"), Do("check")>> /\ thread' = "loop"
           \/ todo' = <<>> /\ thread' = "joined"
        /\ UNCHANGED <<live, nextId, target, run, asked, sent, accepted, closes,
                      queue, table, error, closing, wakeup, received>>
    BY DEF EndPoll, mongoose, calls, Polling
  <1>2. /\ Do("take") \in Step /\ Do("take").do = "take"
        /\ Do("check") \in Step /\ Do("check").do = "check"
    BY StepsAreSteps
  <1>3. /\ todo' \in Seq(Step)
        /\ \A k \in 1 .. Len(todo') : todo'[k].do \notin {"connect", "emplace"}
    <2>1. CASE todo' = <<>>
      BY <2>1
    <2>2. CASE todo' = <<Do("take"), Do("check")>>
      BY <1>2, <2>2
    <2> QED  BY <1>1, <2>1, <2>2
  <1>4. FlagsOnly
    BY <1>1, UnchangedEntries, ErrorsAndMarks DEF FlagsOnly
  <1> QED  BY <1>1, <1>3, <1>4, WorkAnew

LEMMA RefusedInv ==
  ASSUME ClientInv, Refused
  PROVE  ClientInv'
  <1>1. /\ thread = "loop" /\ todo # <<>> /\ todo' = Tail(todo)
        /\ UNCHANGED <<live, nextId, target, run, asked, sent, accepted, closes,
                      thread, queue, table, error, closing, wakeup, received>>
    BY DEF Refused, mongoose, calls
  <1> QED  BY <1>1, UnchangedEntries, ErrorsAndMarks, WorkFirst DEF FlagsOnly

LEMMA CheckConnectionsInv ==
  ASSUME ClientInv, NEW late \in SUBSET Known, CheckConnections(late)
  PROVE  ClientInv'
  <1> DEFINE Marked == ConnOf({e \in Known : table[e].toClose}
                              \cup TimedOut(late) \cup Silent(late))
             Code(i) == IF i \in ConnOf(TimedOut(late)) THEN "timeout" ELSE "ping"
             Reported == ConnOf(TimedOut(late) \cup Silent(late))
  <1>1. /\ todo' = <<>> /\ thread' = LeaveLoop
        /\ closing' = [i \in Ids |-> IF i \in Marked THEN "between" ELSE closing[i]]
        /\ error' = [i \in DOMAIN error \cup Reported |->
                        IF i \in Reported THEN Code(i) ELSE error[i]]
        /\ table' = [e \in Known |->
                        IF e \in PingDue(late) THEN [table[e] EXCEPT !.ponged = FALSE]
                                               ELSE table[e]]
        /\ UNCHANGED <<live, nextId, target, run, asked, sent, accepted, closes,
                      queue, wakeup, received>>
    BY DEF CheckConnections, mongoose, calls
  <1>2. Reported \subseteq live
    BY DEF ConnOf, TimedOut, Silent, PingDue, Waiting, ClientInv, StateInv,
           TablesAreOfLiveConnections
  <1>3. \A i : Code(i) \in Codes
    BY DEF Codes
  <1> HIDE DEF Marked, Code, Reported
  <1>4. SameEntries
    BY <1>1 DEF SameEntries, SamePointers, ClientInv, StateInv, TypeOK, Known, Connection
  <1>5. closing' \in [Ids -> {"no", "polling", "between"}]
    BY <1>1, ErrorsAndMarks
  <1>6. DOMAIN error' \subseteq live /\ \A i \in DOMAIN error' : error'[i] \in Codes
    BY <1>1, <1>2, <1>3, ErrorsAndMarks
  <1>7. FlagsOnly
    BY <1>1, <1>4, <1>5, <1>6 DEF FlagsOnly
  <1>8. thread' \in {"loop", "joined", "freed"}
    BY <1>1 DEF LeaveLoop
  <1>9. todo' \in Seq(Step) /\ Len(todo') = 0
    BY <1>1
  <1> QED  BY <1>1, <1>7, <1>8, <1>9, WorkAnew

-----------------------------------------------------------------------------
(* The steps that move messages.                                           *)
LEMMA OneEntry ==
  ASSUME ClientInv, NEW e \in Known, NEW f \in Known,
         table[e].conn = table[f].conn
  PROVE  e = f
  BY DEF ClientInv, StateInv, TablesAreOfLiveConnections

LEMMA FindUrlOfEntry ==
  ASSUME ClientInv, NEW e \in Known
  PROVE  /\ FindUrl(table[e].conn) = e
         /\ EntriesOf(table[e].conn) = {e}
  <1>1. EntriesOf(table[e].conn) = {e}
    BY OneEntry DEF EntriesOf
  <1> QED  BY <1>1 DEF FindUrl

LEMMA EntryTypes ==
  ASSUME ClientInv, NEW e \in Known
  PROVE  /\ e \in Endpoints
         /\ table[e] \in Connection
         /\ table[e].conn \in Ids
         /\ table[e].conn \in live
         /\ table[e].q \in Seq(1 .. MaxMessages)
  BY DEF ClientInv, StateInv, TypeOK, TablesAreOfLiveConnections, Connection

LEMMA AppendToConcat ==
  ASSUME NEW s \in Seq(1 .. MaxMessages), NEW t \in Seq(1 .. MaxMessages),
         NEW m \in 1 .. MaxMessages
  PROVE  s \o Append(t, m) = Append(s \o t, m)
  <1> DEFINE S == 1 .. MaxMessages
  <1> HIDE DEF S
  <1>0. s \in Seq(S) /\ t \in Seq(S) /\ m \in S
    BY DEF S
  <1>1. <<m>> \in Seq(S) /\ s \o t \in Seq(S)
    BY <1>0, ConcatProperties
  <1>2. Append(t, m) = t \o <<m>> /\ Append(s \o t, m) = (s \o t) \o <<m>>
    BY <1>0, <1>1, AppendIsConcat
  <1>3. (s \o t) \o <<m>> = s \o (t \o <<m>>)
    BY <1>0, <1>1, ConcatAssociative
  <1> QED  BY <1>2, <1>3

LEMMA SendMessageInv ==
  ASSUME ClientInv, NEW e \in Endpoints, SendMessage(e)
  PROVE  ClientInv'
  <1> DEFINE c == table[e].conn
  <1>1. /\ e \in Known /\ sent < MaxMessages /\ sent' = sent + 1
        /\ table' = [table EXCEPT ![e].q = Append(@, sent + 1)]
        /\ accepted' = [accepted EXCEPT ![c] = Append(@, sent + 1)]
        /\ wakeup' = TRUE
        /\ UNCHANGED <<live, nextId, target, closes, run, thread, todo, queue,
                      error, closing, asked, received>>
    BY DEF SendMessage, mongoose
  <1>2. sent + 1 \in 1 .. MaxMessages /\ sent' \in 0 .. MaxMessages
    BY <1>1, WsClientAssumption DEF ClientInv, StateInv, TypeOK
  <1>3. /\ c \in Ids /\ c \in live
        /\ table[e].q \in Seq(1 .. MaxMessages)
        /\ accepted[c] \in Seq(1 .. MaxMessages)
        /\ received[c] \in Seq(1 .. MaxMessages)
    BY <1>1, EntryTypes DEF ClientInv, StateInv, TypeOK
  <1>4. Append(table[e].q, sent + 1) \in Seq(1 .. MaxMessages)
    BY <1>2, <1>3
  <1>5. /\ Known' = Known
        /\ table'[e] = [table[e] EXCEPT !.q = Append(table[e].q, sent + 1)]
        /\ \A f \in Known \ {e} : table'[f] = table[f]
    BY <1>1 DEF Known
  <1>6. /\ table'[e] \in Connection
        /\ table'[e].conn = c
        /\ table'[e].q = Append(table[e].q, sent + 1)
    <2>1. PICK q : q = Append(table[e].q, sent + 1)
      OBVIOUS
    <2>2. table'[e] = [table[e] EXCEPT !.q = q] /\ q \in Seq(1 .. MaxMessages)
      BY <1>4, <1>5, <2>1
    <2>3. table[e] \in Connection
      BY <1>1, EntryTypes
    <2> QED  BY <2>1, <2>2, <2>3 DEF Connection
  <1>7. SamePointers
    BY <1>5, <1>6 DEF SamePointers
  <1>8. TypeOK'
    <2>1. \A f \in Known' : table'[f] \in Connection
      BY <1>5, <1>6, EntryTypes
    <2>2. accepted' \in [Ids -> Seq(1 .. MaxMessages)]
      BY <1>1, <1>2, <1>3 DEF ClientInv, StateInv, TypeOK
    <2> QED  BY <1>1, <1>2, <1>5, <2>1, <2>2 DEF ClientInv, StateInv, TypeOK
  <1>9. TablesAreOfLiveConnections'
    BY <1>1, <1>7 DEF SamePointers, ClientInv, StateInv,
                      TablesAreOfLiveConnections, Known
  <1>10. MessagesKept'
    <2> SUFFICES ASSUME NEW f \in Known
                 PROVE  received[table[f].conn] \o table'[f].q
                           = accepted'[table[f].conn]
      BY <1>1, <1>5, <1>7 DEF MessagesKept, SamePointers
    <2>1. received[table[f].conn] \o table[f].q = accepted[table[f].conn]
      BY DEF ClientInv, StateInv, MessagesKept
    <2>2. CASE f = e
      <3>1. received[c] \o Append(table[e].q, sent + 1)
               = Append(received[c] \o table[e].q, sent + 1)
        BY <1>2, <1>3, AppendToConcat
      <3>2. accepted'[c] = Append(accepted[c], sent + 1)
        BY <1>1, <1>3 DEF ClientInv, StateInv, TypeOK
      <3> QED  BY <1>6, <2>1, <2>2, <3>1, <3>2
    <2>3. CASE f # e
      <3>1. table[f].conn # c
        BY <1>1, <2>3, OneEntry
      <3>2. accepted'[table[f].conn] = accepted[table[f].conn]
        BY <1>1, <3>1, EntryTypes DEF ClientInv, StateInv, TypeOK
      <3> QED  BY <1>5, <2>1, <2>3, <3>2
    <2> QED  BY <2>2, <2>3
  <1>11. OneClose' /\ LiveIds'
    BY <1>1 DEF ClientInv, StateInv, OneClose, LiveIds
  <1>12. Untouched'
    <2> SUFFICES ASSUME NEW i \in Ids,
                        i >= nextId \/ (i \in live /\ EntriesOf(i) = {})
                 PROVE  accepted'[i] = <<>> /\ received[i] = <<>>
      BY <1>1, <1>7, EntriesStay DEF Untouched
    <2>1. accepted[i] = <<>> /\ received[i] = <<>>
      BY DEF ClientInv, StateInv, Untouched
    <2>2. i # c
      <3>1. e \in EntriesOf(c)
        BY <1>1 DEF EntriesOf
      <3>2. ~(c >= nextId)
        BY <1>3 DEF ClientInv, StateInv, TypeOK, LiveIds, Ids
      <3> QED  BY <3>1, <3>2
    <2> QED  BY <1>1, <2>1, <2>2 DEF ClientInv, StateInv, TypeOK
  <1>13. TodoInv'
    BY <1>1, <1>7, TodoStays DEF QueueKept, ClientInv, StateInv, TypeOK
  <1> QED  BY <1>8, <1>9, <1>10, <1>11, <1>12, <1>13 DEF ClientInv, StateInv

LEMMA SendMessagesInv ==
  ASSUME ClientInv, SendMessages
  PROVE  ClientInv'
  <1>1. /\ thread = "loop" /\ todo # <<>> /\ todo' = Tail(todo)
        /\ received' = [i \in Ids |->
                          IF EntriesOf(i) \cap Sendable = {} THEN received[i]
                          ELSE received[i] \o table[FindUrl(i)].q]
        /\ table' = [e \in Known |-> IF e \in Sendable
                                     THEN [table[e] EXCEPT !.q = <<>>]
                                     ELSE table[e]]
        /\ UNCHANGED <<live, nextId, target, run, asked, sent, accepted, closes,
                      thread, queue, error, closing, wakeup>>
    BY DEF SendMessages, mongoose, calls
  <1>2. /\ Known' = Known
        /\ \A e \in Known : /\ table'[e] \in Connection
                            /\ table'[e].conn = table[e].conn
                            /\ e \in Sendable => table'[e].q = <<>>
                            /\ e \notin Sendable => table'[e].q = table[e].q
    <2>1. <<>> \in Seq(1 .. MaxMessages)
      OBVIOUS
    <2>2. Known' = Known
      BY <1>1 DEF Known
    <2>3. \A e \in Known : e \in Sendable =>
             table'[e] = [table[e] EXCEPT !.q = <<>>]
      BY <1>1
    <2>4. \A e \in Known : e \notin Sendable => table'[e] = table[e]
      BY <1>1
    <2> SUFFICES ASSUME NEW e \in Known
                 PROVE  /\ table'[e] \in Connection
                        /\ table'[e].conn = table[e].conn
                        /\ e \in Sendable => table'[e].q = <<>>
                        /\ e \notin Sendable => table'[e].q = table[e].q
      BY <2>2
    <2>5. table[e] \in Connection
      BY EntryTypes
    <2>6. CASE e \in Sendable
      BY <2>1, <2>3, <2>5, <2>6 DEF Connection
    <2>7. CASE e \notin Sendable
      BY <2>4, <2>5, <2>7
    <2> QED  BY <2>6, <2>7
  <1>3. SamePointers
    BY <1>2 DEF SamePointers
  <1>4. \A e \in Known : received'[table[e].conn] =
                            IF e \in Sendable
                            THEN received[table[e].conn] \o table[e].q
                            ELSE received[table[e].conn]
    BY <1>1, FindUrlOfEntry, EntryTypes
  <1>5. \A i \in Ids : EntriesOf(i) = {} => received'[i] = received[i]
    BY <1>1
  <1>6. TypeOK'
    <2>1. received' \in [Ids -> Seq(1 .. MaxMessages)]
      <3> SUFFICES ASSUME NEW i \in Ids
                   PROVE  received'[i] \in Seq(1 .. MaxMessages)
        BY <1>1
      <3>1. received[i] \in Seq(1 .. MaxMessages)
        BY DEF ClientInv, StateInv, TypeOK
      <3>2. CASE EntriesOf(i) = {}
        BY <1>5, <3>1, <3>2
      <3>3. CASE EntriesOf(i) # {}
        <4>1. PICK e \in Known : table[e].conn = i
          BY <3>3 DEF EntriesOf
        <4>2. table[e].q \in Seq(1 .. MaxMessages)
          BY EntryTypes
        <4>3. received[i] \o table[e].q \in Seq(1 .. MaxMessages)
          BY <3>1, <4>2, ConcatProperties
        <4> QED  BY <1>4, <3>1, <4>1, <4>3
      <3> QED  BY <3>2, <3>3
    <2>2. todo' \in Seq(Step)
      BY <1>1, TailOf DEF ClientInv, StateInv, TypeOK
    <2> QED  BY <1>1, <1>2, <2>1, <2>2 DEF ClientInv, StateInv, TypeOK
  <1>7. TablesAreOfLiveConnections'
    BY <1>1, <1>3 DEF SamePointers, ClientInv, StateInv,
                      TablesAreOfLiveConnections, Known
  <1>8. MessagesKept'
    <2> SUFFICES ASSUME NEW e \in Known
                 PROVE  received'[table[e].conn] \o table'[e].q
                           = accepted[table[e].conn]
      BY <1>1, <1>2 DEF MessagesKept
    <2>1. received[table[e].conn] \o table[e].q = accepted[table[e].conn]
      BY DEF ClientInv, StateInv, MessagesKept
    <2>2. accepted[table[e].conn] \in Seq(1 .. MaxMessages)
      BY EntryTypes DEF ClientInv, StateInv, TypeOK
    <2>3. CASE e \in Sendable
      <3>1. accepted[table[e].conn] \o <<>> = accepted[table[e].conn]
        BY <2>2, ConcatEmptySeq
      <3> QED  BY <1>2, <1>4, <2>1, <2>3, <3>1
    <2>4. CASE e \notin Sendable
      BY <1>2, <1>4, <2>1, <2>4
    <2> QED  BY <2>3, <2>4
  <1>9. OneClose' /\ LiveIds'
    BY <1>1 DEF ClientInv, StateInv, OneClose, LiveIds
  <1>10. Untouched'
    <2> SUFFICES ASSUME NEW i \in Ids,
                        i >= nextId \/ (i \in live /\ EntriesOf(i) = {})
                 PROVE  accepted[i] = <<>> /\ received'[i] = <<>>
      BY <1>1, <1>3, EntriesStay DEF Untouched
    <2>1. accepted[i] = <<>> /\ received[i] = <<>>
      BY DEF ClientInv, StateInv, Untouched
    <2>2. EntriesOf(i) = {}
      BY EntryTypes DEF ClientInv, StateInv, TypeOK, LiveIds, Ids, EntriesOf
    <2> QED  BY <1>5, <2>1, <2>2
  <1>11. TodoInv'
    BY <1>1, <1>3, RemainingStay, TodoShrinks
  <1> QED  BY <1>6, <1>7, <1>8, <1>9, <1>10, <1>11 DEF ClientInv, StateInv

-----------------------------------------------------------------------------
(* The steps that make and enter connections.                              *)
LEMMA ReplaceFirst ==
  ASSUME NEW s \in Seq(Step), s # <<>>, NEW x \in Step
  PROVE  /\ <<x>> \o Tail(s) \in Seq(Step)
         /\ Len(<<x>> \o Tail(s)) = Len(s)
         /\ (<<x>> \o Tail(s))[1] = x
         /\ \A k \in 1 .. Len(s) : k # 1 => (<<x>> \o Tail(s))[k] = s[k]
  OBVIOUS

LEMMA TakeInv ==
  ASSUME ClientInv, Take
  PROVE  ClientInv'
  <1>1. /\ thread = "loop" /\ todo # <<>> /\ Head(todo).do = "take"
        /\ UNCHANGED <<live, nextId, target, run, asked, sent, accepted, closes,
                      thread, table, error, closing, wakeup, received>>
    BY DEF Take, mongoose, calls
  <1>2. CASE queue = <<>>
    <2>1. todo' = Tail(todo) /\ queue' = queue
      BY <1>2 DEF Take
    <2> QED  BY <1>1, <2>1, UnchangedEntries, ErrorsAndMarks, WorkFirst
             DEF FlagsOnly
  <1>3. CASE queue # <<>>
    <2> DEFINE s == [do |-> "connect", e |-> Head(queue), conn |-> 0]
    <2>1. todo' = <<s>> \o Tail(todo) /\ queue' = Tail(queue)
      BY <1>3 DEF Take
    <2>2. todo \in Seq(Step) /\ queue \in Seq(Endpoints) /\ asked \in 0 .. MaxId
      BY DEF ClientInv, StateInv, TypeOK
    <2>3. /\ Head(queue) \in Endpoints /\ queue' \in Seq(Endpoints)
          /\ Len(queue') = Len(queue) - 1 /\ Len(queue) \in Nat
      BY <1>3, <2>1, <2>2
    <2>4. s \in Step /\ s.do = "connect" /\ s.e \in Endpoints
      BY <2>3, StepsAreSteps
    <2> HIDE DEF s
    <2>5. /\ todo' \in Seq(Step) /\ Len(todo') = Len(todo) /\ todo'[1] = s
          /\ \A k \in 1 .. Len(todo) : k # 1 => todo'[k] = todo[k]
      BY <1>1, <2>1, <2>2, <2>4, ReplaceFirst
    <2>6. SameEntries
      BY <1>1, UnchangedEntries
    <2>7. StateInv'
      <3>1. TypesKept
        BY <1>1, <2>3, <2>5, ErrorsAndMarks DEF TypesKept, ClientInv, StateInv,
                                                TypeOK
      <3> QED  BY <1>1, <2>6, <3>1, StateStays DEF ClientInv, SameConnections
    <2>8. TodoInv'
      <3>1. \A k \in 1 .. Len(todo') :
               /\ todo'[k].do = "connect" => k = 1 /\ todo'[k].e \in Endpoints
               /\ todo'[k].do = "emplace" => k # 1 /\ Entering(todo[k])'
        <4> SUFFICES ASSUME NEW k \in 1 .. Len(todo)
                     PROVE  /\ todo'[k].do = "connect" =>
                                  k = 1 /\ todo'[k].e \in Endpoints
                            /\ todo'[k].do = "emplace" =>
                                  k # 1 /\ Entering(todo[k])'
          BY <2>5
        <4>1. CASE k = 1
          BY <2>4, <2>5, <4>1
        <4>2. CASE k # 1
          <5>1. todo'[k] = todo[k] /\ Remaining(todo'[k])
            BY <2>5, <4>2 DEF Remaining
          <5>2. todo[k].do # "connect"
            BY <4>2 DEF ClientInv, TodoInv
          <5>3. todo'[k].do = "emplace" => Entering(todo[k])'
            BY <1>1, <2>6, <5>1, RemainingStay DEF SameEntries, Entering
          <5> QED  BY <4>2, <5>1, <5>2, <5>3
        <4> QED  BY <4>1, <4>2
      <3>2. \A k, l \in 1 .. Len(todo') :
               todo'[k].do = "emplace" /\ todo'[l].do = "emplace"
                  /\ todo'[k].conn = todo'[l].conn => k = l
        BY <2>5, <3>1 DEF ClientInv, TodoInv
      <3>3. InHand = 0 /\ InHand' \in {0, 1}
        BY <1>1, <2>2, TailOf DEF InHand
      <3>4. nextId' - 1 + Len(queue') + InHand' <= asked'
        BY <1>1, <2>2, <2>3, <3>3 DEF ClientInv, StateInv, TypeOK, TodoInv
      <3> QED  BY <1>1, <3>1, <3>2, <3>4 DEF TodoInv
    <2> QED  BY <2>7, <2>8 DEF ClientInv
  <1> QED  BY <1>2, <1>3

(* One step, or two, and then the rest of todo.                            *)
LEMMA TwoFirst ==
  ASSUME NEW s \in Seq(Step), s # <<>>, NEW x \in Step, NEW y \in Step
  PROVE  /\ <<x, y>> \o Tail(s) \in Seq(Step)
         /\ Len(<<x, y>> \o Tail(s)) = Len(s) + 1
         /\ (<<x, y>> \o Tail(s))[1] = x
         /\ (<<x, y>> \o Tail(s))[2] = y
         /\ \A k \in 1 .. Len(s) + 1 :
               k # 1 /\ k # 2 => /\ (<<x, y>> \o Tail(s))[k] = s[k - 1]
                                /\ k - 1 \in 1 .. Len(s) /\ k - 1 # 1
  OBVIOUS

LEMMA ConnectedInv ==
  ASSUME ClientInv, Connected
  PROVE  ClientInv'
  <1> DEFINE first == Head(todo)
  <1>1. /\ thread = "loop" /\ todo # <<>> /\ first.do = "connect"
        /\ Route[first.e] # "refused"
        /\ live' = live \cup {nextId} /\ nextId' = nextId + 1
        /\ target' = [target EXCEPT ![nextId] = first.e]
        /\ UNCHANGED <<run, asked, sent, accepted, closes, thread, queue,
                      table, wakeup, received>>
    BY DEF Connected, calls
  <1>2. /\ todo \in Seq(Step) /\ nextId \in Nat /\ asked \in 0 .. MaxId
        /\ Len(queue) \in Nat
    BY DEF ClientInv, StateInv, TypeOK
  <1>3. first = todo[1] /\ first \in Step /\ 1 \in 1 .. Len(todo)
    BY <1>1, <1>2, TailOf
  <1>4. first.e \in Endpoints
    BY <1>1, <1>3 DEF ClientInv, TodoInv
  <1>5. InHand = 1
    BY <1>1, <1>3 DEF InHand
  <1>6. nextId \in Ids
    BY <1>2, <1>5, WsClientAssumption DEF ClientInv, StateInv, TypeOK, TodoInv, Ids
  <1>7. PICK new \in Step :
           /\ new.do = "emplace" /\ new.conn = nextId /\ new.e = first.e
           /\ \/ todo' = <<new>> \o Tail(todo) /\ UNCHANGED <<error, closing>>
              \/ /\ todo' = <<Do("take"), new>> \o Tail(todo)
                 /\ error' = With(error, nextId, "initFail")
                 /\ closing' = [closing EXCEPT ![nextId] = "between"]
    <2>1. [do |-> "emplace", e |-> first.e, conn |-> nextId] \in Step
      BY <1>4, <1>6 DEF Step, Ids
    <2> QED  BY <2>1 DEF Connected
  <1>8. Do("take") \in Step /\ Do("take").do = "take"
    BY StepsAreSteps
  <1> HIDE DEF first
  (* New ones have numbers of their own.                                   *)
  <1>9. /\ \A i \in live : i # nextId /\ target'[i] = target[i] /\ i \in live'
        /\ target'[nextId] = first.e
    BY <1>1, <1>6 DEF ClientInv, StateInv, TypeOK, LiveIds
  <1>10. \A i : EntriesOf(i)' = EntriesOf(i)
    BY <1>1 DEF EntriesOf, Known
  <1>11. EntriesOf(nextId) = {}
    BY <1>9, EntryTypes DEF EntriesOf
  <1>12. /\ DOMAIN error' \subseteq live'
         /\ \A i \in DOMAIN error' : error'[i] \in Codes
         /\ closing' \in [Ids -> {"no", "polling", "between"}]
    <2>1. "initFail" \in Codes
      BY DEF Codes
    <2> QED  BY <1>1, <1>7, <2>1, ErrorsAndMarks DEF With
  <1>13. todo' \in Seq(Step)
    <2>1. CASE todo' = <<new>> \o Tail(todo)
      BY <1>1, <1>2, <1>7, <2>1, ReplaceFirst
    <2>2. CASE todo' = <<Do("take"), new>> \o Tail(todo)
      BY <1>1, <1>2, <1>7, <1>8, <2>2, TwoFirst
    <2> QED  BY <1>7, <2>1, <2>2
  <1>14. StateInv'
    <2>1. TypeOK'
      <3>1. /\ live' \subseteq Ids /\ nextId' \in 1 .. MaxId + 1
            /\ target' \in [Ids -> Endpoints \cup {NoEndpoint}]
        BY <1>1, <1>4, <1>6, WsClientAssumption DEF ClientInv, StateInv, TypeOK, Ids
      <3>2. \A i \in DOMAIN error' : i \in Ids
        BY <1>12, <3>1
      <3> QED  BY <1>1, <1>12, <1>13, <3>1, <3>2
               DEF ClientInv, StateInv, TypeOK, Known
    <2>2. TablesAreOfLiveConnections'
      BY <1>1, <1>9, <1>12
      DEF ClientInv, StateInv, TablesAreOfLiveConnections, Known
    <2>3. OneClose'
      BY <1>1, <1>2, <1>6 DEF ClientInv, StateInv, OneClose, Ids
    <2>4. MessagesKept'
      BY <1>1 DEF ClientInv, StateInv, MessagesKept, Known
    <2>5. LiveIds'
      <3> SUFFICES ASSUME NEW i \in live'
                   PROVE  /\ i < nextId'
                          /\ target'[i] \in Endpoints
                          /\ Route[target'[i]] # "refused"
        BY DEF LiveIds
      <3>1. CASE i = nextId
        BY <1>1, <1>2, <1>4, <1>9, <3>1
      <3>2. CASE i \in live
        <4>1. i < nextId /\ i \in Nat
          BY <3>2, ErrorsAndMarks DEF ClientInv, StateInv, LiveIds, Ids
        <4> QED  BY <1>1, <1>2, <1>9, <3>2, <4>1 DEF ClientInv, StateInv, LiveIds
      <3> QED  BY <1>1, <3>1, <3>2
    <2>6. Untouched'
      <3> SUFFICES ASSUME NEW i \in Ids,
                          i >= nextId' \/ (i \in live' /\ EntriesOf(i) = {})
                   PROVE  accepted[i] = <<>> /\ received[i] = <<>>
        BY <1>1, <1>10 DEF Untouched
      <3>1. i >= nextId \/ (i \in live /\ EntriesOf(i) = {})
        BY <1>1, <1>2 DEF Ids
      <3> QED  BY <3>1 DEF ClientInv, StateInv, Untouched
    <2> QED  BY <2>1, <2>2, <2>3, <2>4, <2>5, <2>6 DEF StateInv
  (* Where the steps of todo' come from.                                   *)
  <1>15. \E p \in 1 .. 2 : \A k \in 1 .. Len(todo') :
            \/ k = p /\ todo'[k] = new
            \/ k # p /\ todo'[k].do = "take"
            \/ /\ k # p /\ k - p + 1 \in 1 .. Len(todo) /\ k - p + 1 # 1
               /\ todo'[k] = todo[k - p + 1]
    <2>1. CASE todo' = <<new>> \o Tail(todo)
      <3>1. \A k \in 1 .. Len(todo') :
               \/ k = 1 /\ todo'[k] = new
               \/ k # 1 /\ k \in 1 .. Len(todo) /\ todo'[k] = todo[k]
        BY <1>1, <1>2, <1>7, <2>1, ReplaceFirst
      <3>2. \A k \in 1 .. Len(todo') : k - 1 + 1 = k
        OBVIOUS
      <3> QED  BY <3>1, <3>2
    <2>2. CASE todo' = <<Do("take"), new>> \o Tail(todo)
      <3>1. \A k \in 1 .. Len(todo') :
               \/ k = 1 /\ todo'[k] = Do("take")
               \/ k = 2 /\ todo'[k] = new
               \/ /\ k # 2 /\ k - 1 \in 1 .. Len(todo) /\ k - 1 # 1
                  /\ todo'[k] = todo[k - 1]
        BY <1>1, <1>2, <1>7, <1>8, <2>2, TwoFirst
      <3>2. \A k \in 1 .. Len(todo') : k - 2 + 1 = k - 1
        OBVIOUS
      <3> QED  BY <1>8, <3>1, <3>2
    <2> QED  BY <1>7, <2>1, <2>2
  <1>16. TodoInv'
    <2>1. PICK p \in 1 .. 2 : \A k \in 1 .. Len(todo') :
             \/ k = p /\ todo'[k] = new
             \/ k # p /\ todo'[k].do = "take"
             \/ /\ k # p /\ k - p + 1 \in 1 .. Len(todo) /\ k - p + 1 # 1
                /\ todo'[k] = todo[k - p + 1]
      BY <1>15
    <2>2. \A s : Remaining(s) =>
             /\ s.do # "connect"
             /\ s.do = "emplace" => Entering(s)' /\ s.conn # nextId
      <3> SUFFICES ASSUME NEW s, Remaining(s)
                   PROVE  /\ s.do # "connect"
                          /\ s.do = "emplace" => Entering(s)' /\ s.conn # nextId
        OBVIOUS
      <3>1. s.do # "connect" /\ (s.do = "emplace" => Entering(s))
        BY DEF Remaining, ClientInv, TodoInv
      <3>2. CASE s.do = "emplace"
        <4>1. s.conn \in live /\ target[s.conn] = s.e /\ EntriesOf(s.conn) = {}
          BY <3>1, <3>2 DEF Entering
        <4>2. s.conn \in live' /\ target'[s.conn] = s.e /\ s.conn # nextId
          BY <1>9, <4>1
        <4>3. EntriesOf(s.conn)' = {}
          BY <1>10, <4>1
        <4> QED  BY <3>1, <4>2, <4>3 DEF Entering
      <3> QED  BY <3>1, <3>2
    <2>3. Entering(new)'
      BY <1>1, <1>7, <1>9, <1>10, <1>11 DEF Entering
    <2>4. \A k \in 1 .. Len(todo') :
             \/ k = p /\ todo'[k] = new
             \/ k # p /\ todo'[k].do = "take"
             \/ k # p /\ Remaining(todo'[k])
      BY <2>1 DEF Remaining
    <2>5. \A k \in 1 .. Len(todo') :
             /\ todo'[k].do # "connect"
             /\ todo'[k].do = "emplace" => Entering(todo[k])'
      <3> SUFFICES ASSUME NEW k \in 1 .. Len(todo')
                   PROVE  /\ todo'[k].do # "connect"
                          /\ todo'[k].do = "emplace" => Entering(todo[k])'
        OBVIOUS
      <3>1. CASE todo'[k] = new
        BY <1>7, <2>3, <3>1 DEF Entering
      <3>2. CASE todo'[k].do = "take"
        BY <3>2
      <3>3. CASE Remaining(todo'[k])
        BY <2>2, <3>3 DEF Entering
      <3> QED  BY <2>4, <3>1, <3>2, <3>3
    <2>6. \A k, l \in 1 .. Len(todo') :
             todo'[k].do = "emplace" /\ todo'[l].do = "emplace"
                /\ todo'[k].conn = todo'[l].conn => k = l
      <3> SUFFICES ASSUME NEW k \in 1 .. Len(todo'), NEW l \in 1 .. Len(todo'),
                          todo'[k].do = "emplace", todo'[l].do = "emplace",
                          todo'[k].conn = todo'[l].conn
                   PROVE  k = l
        OBVIOUS
      <3>1. CASE k = p \/ l = p
        BY <1>7, <2>2, <2>4, <3>1
      <3>2. CASE k # p /\ l # p
        <4>1. k - p + 1 \in 1 .. Len(todo) /\ todo'[k] = todo[k - p + 1]
          BY <2>1, <3>2
        <4>2. l - p + 1 \in 1 .. Len(todo) /\ todo'[l] = todo[l - p + 1]
          BY <2>1, <3>2
        <4>3. k - p + 1 = l - p + 1
          BY <4>1, <4>2 DEF ClientInv, TodoInv
        <4> QED  BY <4>3
      <3> QED  BY <3>1, <3>2
    <2>7. InHand' = 0
      <3>1. CASE todo' = <<>>
        BY <3>1 DEF InHand
      <3>2. CASE todo' # <<>>
        <4>1. 1 \in 1 .. Len(todo')
          BY <1>13, <3>2
        <4> QED  BY <2>5, <4>1 DEF InHand
      <3> QED  BY <3>1, <3>2
    <2>8. nextId' - 1 + Len(queue') + InHand' <= asked'
      BY <1>1, <1>2, <1>5, <2>7 DEF ClientInv, TodoInv
    <2> QED  BY <1>1, <2>5, <2>6, <2>8 DEF TodoInv
  <1> QED  BY <1>14, <1>16 DEF ClientInv

LEMMA EmplaceInv ==
  ASSUME ClientInv, Emplace
  PROVE  ClientInv'
  <1> DEFINE s == Head(todo)
             new == [conn |-> s.conn, connected |-> FALSE, ponged |-> TRUE,
                     toClose |-> FALSE, stage |-> "connecting", q |-> <<>>]
  <1>1. /\ thread = "loop" /\ todo # <<>> /\ s.do = "emplace"
        /\ table' = IF s.e \in Known THEN table ELSE With(table, s.e, new)
        /\ todo' = Tail(todo)
        /\ UNCHANGED <<live, nextId, target, run, asked, sent, accepted, closes,
                      thread, queue, error, closing, wakeup, received>>
    BY DEF Emplace, mongoose, calls
  <1>2. todo \in Seq(Step)
    BY DEF ClientInv, StateInv, TypeOK
  <1>3. s = todo[1] /\ 1 \in 1 .. Len(todo)
    BY <1>1, <1>2, TailOf
  <1>4. s.conn \in live /\ target[s.conn] = s.e /\ EntriesOf(s.conn) = {}
    BY <1>1, <1>3 DEF ClientInv, TodoInv, Entering
  <1>5. s.e \in Endpoints /\ s.conn \in Ids
    BY <1>4, ErrorsAndMarks DEF ClientInv, StateInv, LiveIds
  <1>6. new \in Connection
    <2>1. <<>> \in Seq(1 .. MaxMessages) /\ "connecting" \in Stages
      BY DEF Stages
    <2> HIDE DEF s
    <2> QED  BY <1>5, <2>1 DEF Connection
  <1>7. new.conn = s.conn /\ new.q = <<>>
    OBVIOUS
  <1> HIDE DEF s, new
  <1>8. CASE s.e \in Known
    <2>1. table' = table
      BY <1>1, <1>8
    <2> QED  BY <1>1, <2>1, UnchangedEntries, ErrorsAndMarks, WorkFirst
             DEF FlagsOnly
  <1>9. CASE s.e \notin Known
    <2>1. /\ Known' = Known \cup {s.e} /\ table'[s.e] = new
          /\ \A e \in Known : table'[e] = table[e]
      BY <1>1, <1>9 DEF Known, With
    <2>2. \A i : EntriesOf(i)' = IF i = s.conn THEN {s.e} ELSE EntriesOf(i)
      BY <1>4, <1>7, <1>9, <2>1 DEF EntriesOf
    <2>3. TypeOK'
      <3>1. Known' \subseteq Endpoints /\ \A e \in Known' : table'[e] \in Connection
        BY <1>5, <1>6, <2>1, EntryTypes
      <3>2. todo' \in Seq(Step)
        BY <1>1, <1>2, TailOf
      <3> QED  BY <1>1, <3>1, <3>2 DEF ClientInv, StateInv, TypeOK
    <2>4. TablesAreOfLiveConnections'
      BY <1>1, <1>4, <1>7, <1>9, <2>1
      DEF ClientInv, StateInv, TablesAreOfLiveConnections
    <2>5. OneClose' /\ LiveIds'
      BY <1>1 DEF ClientInv, StateInv, OneClose, LiveIds
    <2>6. MessagesKept'
      <3> SUFFICES ASSUME NEW e \in Known'
                   PROVE  received[table'[e].conn] \o table'[e].q
                             = accepted[table'[e].conn]
        BY <1>1 DEF MessagesKept
      <3>1. CASE e = s.e
        <4>1. accepted[s.conn] = <<>> /\ received[s.conn] = <<>>
          BY <1>4, <1>5 DEF ClientInv, StateInv, Untouched
        <4>2. <<>> \o <<>> = <<>>
          OBVIOUS
        <4> QED  BY <1>7, <2>1, <3>1, <4>1, <4>2
      <3>2. CASE e \in Known
        BY <2>1, <3>2 DEF ClientInv, StateInv, MessagesKept
      <3> QED  BY <2>1, <3>1, <3>2
    <2>7. Untouched'
      <3> SUFFICES ASSUME NEW i \in Ids,
                          i >= nextId \/ (i \in live /\ EntriesOf(i)' = {})
                   PROVE  accepted[i] = <<>> /\ received[i] = <<>>
        BY <1>1 DEF Untouched
      <3>1. i >= nextId \/ (i \in live /\ EntriesOf(i) = {})
        BY <2>2
      <3> QED  BY <3>1 DEF ClientInv, StateInv, Untouched
    <2>8. \A t : Remaining(t) /\ t.do = "emplace" => Entering(t)'
      <3> SUFFICES ASSUME NEW t, Remaining(t), t.do = "emplace"
                   PROVE  Entering(t)'
        OBVIOUS
      <3>1. Entering(t) /\ t.conn # s.conn
        BY <1>1, <1>3 DEF Remaining, ClientInv, TodoInv
      <3> QED  BY <1>1, <2>2, <3>1 DEF Entering
    <2>9. TodoInv'
      BY <1>1, <2>8, TodoShrinks
    <2> QED  BY <2>3, <2>4, <2>5, <2>6, <2>7, <2>9 DEF ClientInv, StateInv
  <1> QED  BY <1>8, <1>9

-----------------------------------------------------------------------------
(* The steps that end connections.                                         *)
LEMMA CloseEventInv ==
  ASSUME ClientInv, NEW i \in Ids, CloseEvent(i)
  PROVE  ClientInv'
  <1>1. /\ todo = <<>> /\ thread = "loop" /\ i \in live
        /\ live' = live \ {i}
        /\ closing' = [closing EXCEPT ![i] = "no"]
        /\ error' = Without(error, i)
        /\ closes' = [closes EXCEPT ![i] = @ + 1]
        /\ target' = [target EXCEPT ![i] = NoEndpoint]
        /\ accepted' = [accepted EXCEPT ![i] = <<>>]
        /\ received' = [received EXCEPT ![i] = <<>>]
        /\ table' = Without(table, FindUrl(i))
        /\ UNCHANGED <<nextId, run, asked, sent, thread, todo, queue, wakeup>>
    BY DEF CloseEvent, Ended, Polling
  <1>2. /\ Known' = Known \ EntriesOf(i)
        /\ \A e \in Known' : table'[e] = table[e] /\ table[e].conn # i
    <2>1. Known' = Known \ {FindUrl(i)}
          /\ \A e \in Known' : table'[e] = table[e]
      BY <1>1 DEF Known, Without
    <2>2. CASE EntriesOf(i) = {}
      <3>1. FindUrl(i) \notin Known
        BY <2>2, WsClientAssumption DEF FindUrl, ClientInv, StateInv, TypeOK
      <3> QED  BY <2>1, <2>2, <3>1 DEF EntriesOf
    <2>3. CASE EntriesOf(i) # {}
      <3>1. PICK e \in Known : table[e].conn = i
        BY <2>3 DEF EntriesOf
      <3>2. FindUrl(i) = e /\ EntriesOf(i) = {e}
        BY <3>1, FindUrlOfEntry
      <3> QED  BY <2>1, <3>2 DEF EntriesOf
    <2> QED  BY <2>2, <2>3
  <1>3. \A j : j # i => EntriesOf(j)' = EntriesOf(j)
    BY <1>2 DEF EntriesOf
  <1>4. TypeOK'
    <2>1. /\ accepted' \in [Ids -> Seq(1 .. MaxMessages)]
          /\ received' \in [Ids -> Seq(1 .. MaxMessages)]
      <3>1. <<>> \in Seq(1 .. MaxMessages)
        OBVIOUS
      <3> QED  BY <1>1, <3>1 DEF ClientInv, StateInv, TypeOK
    <2>2. /\ closing' \in [Ids -> {"no", "polling", "between"}]
          /\ target' \in [Ids -> Endpoints \cup {NoEndpoint}]
          /\ closes' \in [Ids -> Nat]
      BY <1>1 DEF ClientInv, StateInv, TypeOK
    <2>3. /\ DOMAIN error' \subseteq Ids
          /\ \A j \in DOMAIN error' : error'[j] \in Codes
      BY <1>1 DEF ClientInv, StateInv, TypeOK, Without
    <2>4. Known' \subseteq Endpoints /\ \A e \in Known' : table'[e] \in Connection
      BY <1>2, EntryTypes
    <2> QED  BY <1>1, <2>1, <2>2, <2>3, <2>4 DEF ClientInv, StateInv, TypeOK
  <1>5. TablesAreOfLiveConnections'
    <2>1. DOMAIN error' \subseteq live'
      BY <1>1, ErrorsAndMarks DEF Without
    <2>2. \A e \in Known' : table'[e].conn \in live' /\ target'[table'[e].conn] = e
      BY <1>1, <1>2, EntryTypes
      DEF ClientInv, StateInv, TypeOK, TablesAreOfLiveConnections
    <2> QED  BY <2>1, <2>2 DEF TablesAreOfLiveConnections
  <1>6. OneClose'
    <2>1. i < nextId /\ closes[i] = 0
      BY <1>1 DEF ClientInv, StateInv, LiveIds, OneClose
    <2> QED  BY <1>1, <2>1 DEF ClientInv, StateInv, TypeOK, OneClose
  <1>7. MessagesKept'
    <2> SUFFICES ASSUME NEW e \in Known'
                 PROVE  received'[table'[e].conn] \o table'[e].q
                           = accepted'[table'[e].conn]
      BY DEF MessagesKept
    <2>1. e \in Known /\ table'[e] = table[e] /\ table[e].conn # i
      BY <1>2
    <2>2. /\ received'[table[e].conn] = received[table[e].conn]
          /\ accepted'[table[e].conn] = accepted[table[e].conn]
      BY <1>1, <2>1, EntryTypes DEF ClientInv, StateInv, TypeOK
    <2> QED  BY <2>1, <2>2 DEF ClientInv, StateInv, MessagesKept
  <1>8. LiveIds'
    BY <1>1, ErrorsAndMarks DEF ClientInv, StateInv, TypeOK, LiveIds
  <1>9. Untouched'
    <2> SUFFICES ASSUME NEW j \in Ids,
                        j >= nextId \/ (j \in live' /\ EntriesOf(j)' = {})
                 PROVE  accepted'[j] = <<>> /\ received'[j] = <<>>
      BY <1>1 DEF Untouched
    <2>1. CASE j = i
      BY <1>1, <2>1 DEF ClientInv, StateInv, TypeOK
    <2>2. CASE j # i
      <3>1. accepted[j] = <<>> /\ received[j] = <<>>
        BY <1>1, <1>3, <2>2 DEF ClientInv, StateInv, Untouched
      <3> QED  BY <1>1, <2>2, <3>1 DEF ClientInv, StateInv, TypeOK
    <2> QED  BY <2>1, <2>2
  <1>10. TodoInv'
    <2>1. todo' \in Seq(Step) /\ Len(todo') = 0
      BY <1>1
    <2> QED  BY <1>1, <2>1, TodoAnew
  <1> QED  BY <1>4, <1>5, <1>6, <1>7, <1>8, <1>9, <1>10 DEF ClientInv, StateInv

LEMMA FreeInv ==
  ASSUME ClientInv, Free
  PROVE  ClientInv'
  <1>1. /\ thread = "joined" /\ thread' = "freed" /\ live' = {}
        /\ closing' = [i \in Ids |-> "no"]
        /\ error' = [i \in {} |-> "none"]
        /\ table' = [e \in {} |-> 0]
        /\ closes' = [i \in Ids |-> IF i \in live THEN closes[i] + 1 ELSE closes[i]]
        /\ UNCHANGED <<nextId, target, run, asked, sent, accepted, todo, queue,
                      wakeup, received>>
    BY DEF Free, calls
  <1>2. todo = <<>>
    BY <1>1 DEF ClientInv, TodoInv
  <1>3. Known' = {} /\ DOMAIN error' = {}
    BY <1>1 DEF Known
  <1>4. TypeOK'
    <2>1. closes' \in [Ids -> Nat]
      BY <1>1 DEF ClientInv, StateInv, TypeOK
    <2> QED  BY <1>1, <1>3, <2>1 DEF ClientInv, StateInv, TypeOK
  <1>5. TablesAreOfLiveConnections' /\ MessagesKept'
    BY <1>3 DEF TablesAreOfLiveConnections, MessagesKept
  <1>6. OneClose'
    BY <1>1 DEF ClientInv, StateInv, TypeOK, OneClose, LiveIds
  <1>7. LiveIds' /\ Untouched'
    BY <1>1 DEF ClientInv, StateInv, LiveIds, Untouched
  <1>8. TodoInv'
    <2>1. todo' \in Seq(Step) /\ Len(todo') = 0
      BY <1>1, <1>2
    <2> QED  BY <1>1, <1>2, <2>1, TodoAnew
  <1> QED  BY <1>4, <1>5, <1>6, <1>7, <1>8 DEF ClientInv, StateInv

-----------------------------------------------------------------------------
LEMMA NextClientInv == ClientInv /\ [Next]_vars => ClientInv'
  <1> SUFFICES ASSUME ClientInv, [Next]_vars PROVE ClientInv'
    OBVIOUS
  <1>1. CASE Call
    BY <1>1, ConnectInv, SendMessageInv, CloseConnectionInv, StopInv, FreeInv
    DEF Call
  <1>2. ASSUME NEW i \in Ids, Event(i) PROVE ClientInv'
    BY <1>2, HandleInitialConnectionInv, HandleProxyReadInv,
       HandleTlsHandshakeInv, WsOpenInv, ErrorInv, MarkInv, CheckPongInv
    DEF Event, Handshake
  <1>3. ASSUME NEW i \in Ids, CloseEvent(i) PROVE ClientInv'
    BY <1>3, CloseEventInv
  <1>4. CASE Wakeup \/ EndPoll
    BY <1>4, WakeupInv, EndPollInv
  <1>5. CASE Work
    BY <1>5, OpenedInv, TakeInv, RefusedInv, ConnectedInv, EmplaceInv,
       SendMessagesInv, CheckConnectionsInv
    DEF Work
  <1>6. CASE UNCHANGED vars
    <2>1. FlagsOnly /\ UNCHANGED <<thread, todo>>
      BY <1>6, UnchangedEntries, ErrorsAndMarks DEF vars, FlagsOnly
    <2> QED  BY <2>1, FlagsInv
  <1> QED  BY <1>1, <1>2, <1>3, <1>4, <1>5, <1>6 DEF Next

THEOREM ClientInvariant == Spec => []ClientInv
  BY InitClientInv, NextClientInv, PTL DEF Spec

(* The types of the client's tables, of its queue and of what is left for  *)
(* its thread to do, for any number of connections and messages.           *)
THEOREM ClientTypeOK == Spec => []TypeOK
  <1>1. ClientInv => TypeOK
    BY DEF ClientInv, StateInv
  <1> QED  BY <1>1, ClientInvariant, PTL

(* CheckConnections and SendMessages follow only pointers of connections   *)
(* that Mongoose still has, each the endpoint's own; no code outlives its  *)
(* connection.                                                             *)
THEOREM ClientTablesAreOfLiveConnections == Spec => []TablesAreOfLiveConnections
  <1>1. ClientInv => TablesAreOfLiveConnections
    BY DEF ClientInv, StateInv
  <1> QED  BY <1>1, ClientInvariant, PTL

(* The connect callback is told of each connection's end exactly once,     *)
(* however it ends.                                                        *)
THEOREM ClientOneClose == Spec => []OneClose
  <1>1. ClientInv => OneClose
    BY DEF ClientInv, StateInv
  <1> QED  BY <1>1, ClientInvariant, PTL

(* What SendMessage accepts for a connection is sent on it in order, once, *)
(* or still queued, while the connection is there.                         *)
THEOREM ClientMessagesKept == Spec => []MessagesKept
  <1>1. ClientInv => MessagesKept
    BY DEF ClientInv, StateInv
  <1> QED  BY <1>1, ClientInvariant, PTL

=============================================================================
