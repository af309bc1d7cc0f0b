--------------------------- MODULE WsServerProofs ---------------------------
(***************************************************************************)
(* Proofs about WsServer, for any addresses, connections, topics, targets, *)
(* producers and ways to authenticate: whose a subscriber record is, that  *)
(* nobody is heard after funcClose, and who is sent messages.              *)
(***************************************************************************)
EXTENDS WsServer, TLAPS

RecordTypes ==
    /\ live \subseteq Pointers /\ isWs \subseteq live
    /\ id \in [Pointers -> 0 .. MaxId]
    /\ nextId \in 1 .. MaxId + 1
    /\ closing \in [Pointers -> {"no", "draining", "polling", "between"}]
    /\ Known \subseteq Pointers
    /\ \A p \in Known : subs[p] \in Subscriber
    /\ closed \in [Ids -> Nat]

(* A connection that is no websocket is one whose upgrade was refused.     *)
RefusedAreRejected == \A p \in live \ isWs : id[p] \in rejected

(* No connection has two records, nor one that is still to come.           *)
Owners ==
    /\ \A p \in Known : subs[p].owner < nextId
    /\ \A p, q \in Known : subs[p].owner = subs[q].owner => p = q
    /\ \A i \in Ids : i >= nextId => closed[i] = 0

(* A record is left after funcClose only until the poll that closes its    *)
(* connection, from which nothing more is read.                            *)
ToldAreClosing ==
    \A p \in Known :
        closed[subs[p].owner] = 0 \/ (p \in isWs /\ closing[p] = "between")

(* Who counts as authenticated was, and no record that a refused upgrade   *)
(* leaves behind is when clients have to authenticate with a message.      *)
AuthIsGranted ==
    /\ \A p \in isWs \cap Known : subs[p].auth => id[p] \in granted
    /\ mode \in {"basic", "bearer"} => \A p \in Known \ isWs : ~subs[p].auth

WsInv ==
    /\ RecordTypes
    /\ RecordsAreCurrent
    /\ RefusedAreRejected
    /\ Owners
    /\ ToldAreClosing
    /\ AuthIsGranted
    /\ DeliveredToGranted

-----------------------------------------------------------------------------
LEMMA InitWsInv == Init => WsInv
  <1> SUFFICES ASSUME Init PROVE WsInv
    OBVIOUS
  <1>1. RecordTypes
    BY WsAssumption DEF Init, RecordTypes, Known
  <1>2. RecordsAreCurrent /\ RefusedAreRejected /\ Owners /\ ToldAreClosing
    BY DEF Init, RecordsAreCurrent, RefusedAreRejected, Owners, ToldAreClosing,
           Known
  <1>3. AuthIsGranted /\ DeliveredToGranted
    BY DEF Init, AuthIsGranted, DeliveredToGranted, Known
  <1> QED  BY <1>1, <1>2, <1>3 DEF WsInv

(* Steps that concern no record and no connection.                         *)
LEMMA NothingChanges ==
  ASSUME WsInv,
         UNCHANGED <<mode, connVars, isWs, closing, subs, granted, closed,
                     rejected, received>>
  PROVE  WsInv'
  BY DEF WsInv, RecordTypes, RecordsAreCurrent, RefusedAreRejected, Owners,
         ToldAreClosing, AuthIsGranted, DeliveredToGranted, connVars, Known

(* Steps that change whether records are authenticated, what they are      *)
(* subscribed to and whether they answered the last PING.                  *)
LEMMA RecordsChange ==
  ASSUME WsInv,
         Known' = Known,
         \A p \in Known : /\ subs'[p] \in Subscriber
                          /\ subs'[p].owner = subs[p].owner
                          /\ subs'[p].auth =>
                                \/ subs[p].auth
                                \/ p \in isWs /\ id[p] \in granted',
         granted \subseteq granted',
         UNCHANGED <<mode, connVars, isWs, closing, closed, rejected, received>>
  PROVE  WsInv'
  <1>1. RecordTypes' /\ RefusedAreRejected'
    BY DEF WsInv, RecordTypes, RefusedAreRejected, connVars, Known
  <1>2. RecordsAreCurrent' /\ Owners' /\ ToldAreClosing'
    BY DEF WsInv, RecordsAreCurrent, Owners, ToldAreClosing, connVars
  <1>3. AuthIsGranted' /\ DeliveredToGranted'
    BY DEF WsInv, AuthIsGranted, DeliveredToGranted, connVars
  <1> QED  BY <1>1, <1>2, <1>3 DEF WsInv

(* Steps that erase a record and mark the connection, or do not.           *)
LEMMA RecordErased ==
  ASSUME WsInv, NEW p \in Pointers,
         subs' = Without(subs, {p}),
         \A q \in Pointers \ {p} : closing'[q] = closing[q],
         closing' \in [Pointers -> {"no", "draining", "polling", "between"}],
         closed' \in [Ids -> Nat],
         \A i \in Ids : closed'[i] = closed[i]
                        \/ (p \in Known /\ i = subs[p].owner),
         UNCHANGED <<mode, connVars, isWs, granted, rejected, received>>
  PROVE  WsInv'
  <1>1. /\ Known' = Known \ {p}
        /\ \A q \in Known' : subs'[q] = subs[q]
    BY DEF Known, Without
  <1>2. RecordTypes' /\ RefusedAreRejected'
    BY <1>1 DEF WsInv, RecordTypes, RefusedAreRejected, connVars
  <1>3. RecordsAreCurrent'
    BY <1>1 DEF WsInv, RecordsAreCurrent, connVars
  <1>4. \A q \in Known' : /\ subs[q].owner \in Ids
                          /\ closed'[subs[q].owner] = closed[subs[q].owner]
    BY <1>1 DEF WsInv, RecordTypes, Owners, Subscriber
  <1>5. Owners'
    <2>1. \A i \in Ids : i >= nextId => closed'[i] = 0
      BY DEF WsInv, RecordTypes, Owners, Subscriber, Ids
    <2>2. nextId' = nextId
      BY DEF connVars
    <2>3. \A q \in Known' : subs'[q].owner < nextId
      BY <1>1 DEF WsInv, Owners
    <2>4. ASSUME NEW q \in Known', NEW r \in Known',
                 subs'[q].owner = subs'[r].owner
          PROVE  q = r
      <3>1. q \in Known /\ r \in Known /\ subs[q].owner = subs[r].owner
        BY <1>1, <2>4
      <3> QED  BY <3>1 DEF WsInv, Owners
    <2> QED  BY <2>1, <2>2, <2>3, <2>4 DEF Owners
  <1>6. ToldAreClosing'
    BY <1>1, <1>4 DEF WsInv, RecordTypes, ToldAreClosing
  <1>7. AuthIsGranted' /\ DeliveredToGranted'
    BY <1>1 DEF WsInv, AuthIsGranted, DeliveredToGranted, connVars
  <1> QED  BY <1>2, <1>3, <1>5, <1>6, <1>7 DEF WsInv

-----------------------------------------------------------------------------
(* Frames.                                                                 *)
LEMMA DropInv ==
  ASSUME WsInv, NEW p \in Pointers, DropSubscriber(p),
         UNCHANGED <<mode, connVars, isWs, granted, closed, rejected, received>>
  PROVE  WsInv'
  <1>1. /\ subs' = Without(subs, {p})
        /\ closing' = [closing EXCEPT ![p] = "polling"]
    BY DEF DropSubscriber
  <1>2. /\ closing' \in [Pointers -> {"no", "draining", "polling", "between"}]
        /\ \A q \in Pointers \ {p} : closing'[q] = closing[q]
        /\ closed' \in [Ids -> Nat]
    BY <1>1 DEF WsInv, RecordTypes
  <1> QED  BY <1>1, <1>2, RecordErased

LEMMA AuthenticateInv ==
  ASSUME WsInv, NEW p \in Pointers, Authenticate(p)
  PROVE  WsInv'
  <1>1. /\ p \in isWs /\ p \in Known
        /\ UNCHANGED <<mode, connVars, isWs, closed, rejected, received>>
    BY DEF Authenticate, apiVars
  <1>2. ASSUME NEW T \in SUBSET Topics,
               subs' = [subs EXCEPT ![p].auth = TRUE, ![p].topics = @ \cup T],
               granted' = granted \cup {id[p]}, UNCHANGED closing
        PROVE  WsInv'
    <2>1. /\ Known' = Known
          /\ \A q \in Known \ {p} : subs'[q] = subs[q]
      BY <1>2 DEF Known
    <2>2. /\ subs'[p] \in Subscriber /\ subs'[p].owner = subs[p].owner
      BY <1>1, <1>2 DEF WsInv, RecordTypes, Known, Subscriber
    <2>3. \A q \in Known : subs[q] \in Subscriber
      BY DEF WsInv, RecordTypes
    <2> QED  BY <1>1, <1>2, <2>1, <2>2, <2>3, RecordsChange
  <1>3. CASE DropSubscriber(p) /\ UNCHANGED <<hung, granted>>
    BY <1>1, <1>3, DropInv
  <1>4. CASE UNCHANGED <<closing, granted, subs>>
    BY <1>1, <1>4, NothingChanges
  <1> QED  BY <1>2, <1>3, <1>4 DEF Authenticate

LEMMA SubscribeInv ==
  ASSUME WsInv, NEW p \in Pointers, Subscribe(p)
  PROVE  WsInv'
  <1>1. /\ p \in isWs /\ p \in Known
        /\ UNCHANGED <<mode, connVars, isWs, closed, rejected, received, granted>>
    BY DEF Subscribe, apiVars, history
  <1>2. ASSUME NEW t \in Topics, UNCHANGED closing,
               \/ subs' = [subs EXCEPT ![p].topics = @ \cup {t}]
               \/ subs' = [subs EXCEPT ![p].topics = @ \ {t}]
        PROVE  WsInv'
    <2>1. /\ Known' = Known
          /\ \A q \in Known \ {p} : subs'[q] = subs[q]
      BY <1>2 DEF Known
    <2>2. /\ subs'[p] \in Subscriber /\ subs'[p].owner = subs[p].owner
          /\ subs'[p].auth = subs[p].auth
      BY <1>1, <1>2 DEF WsInv, RecordTypes, Known, Subscriber
    <2>3. \A q \in Known : subs[q] \in Subscriber
      BY DEF WsInv, RecordTypes
    <2> QED  BY <1>1, <1>2, <2>1, <2>2, <2>3, RecordsChange
  <1>3. CASE DropSubscriber(p)
    BY <1>1, <1>3, DropInv
  <1> QED  BY <1>2, <1>3 DEF Subscribe

LEMMA ExternalMessageInv ==
  ASSUME WsInv, NEW p \in Pointers, ExternalMessage(p)
  PROVE  WsInv'
  <1>1. UNCHANGED <<mode, connVars, isWs, closed, rejected, received, granted>>
    BY DEF ExternalMessage, apiVars, history
  <1>2. CASE DropSubscriber(p)
    BY <1>1, <1>2, DropInv
  <1>3. CASE UNCHANGED <<subs, closing>>
    BY <1>1, <1>3, NothingChanges
  <1> QED  BY <1>2, <1>3 DEF ExternalMessage

LEMMA PongInv ==
  ASSUME WsInv, NEW p \in Pointers, Pong(p)
  PROVE  WsInv'
  <1>1. /\ p \in isWs /\ p \in Known
        /\ subs' = [subs EXCEPT ![p].ponged = TRUE]
        /\ UNCHANGED <<mode, connVars, isWs, closed, rejected, received, granted,
                      closing>>
    BY DEF Pong, apiVars, history
  <1>2. /\ Known' = Known
        /\ \A q \in Known \ {p} : subs'[q] = subs[q]
    BY <1>1 DEF Known
  <1>3. /\ subs'[p] \in Subscriber /\ subs'[p].owner = subs[p].owner
        /\ subs'[p].auth = subs[p].auth
    BY <1>1 DEF WsInv, RecordTypes, Known, Subscriber
  <1>4. \A q \in Known : subs[q] \in Subscriber
    BY DEF WsInv, RecordTypes
  <1> QED  BY <1>1, <1>2, <1>3, <1>4, RecordsChange

LEMMA CallCloseTypes ==
  ASSUME WsInv, NEW S, CallClose(S)
  PROVE  /\ closed' \in [Ids -> Nat]
         /\ \A i \in Ids : i \notin S => closed'[i] = closed[i]
  BY DEF CallClose, WsInv, RecordTypes

LEMMA CloseFrameInv ==
  ASSUME WsInv, NEW p \in Pointers, CloseFrame(p)
  PROVE  WsInv'
  <1>1. /\ subs' = Without(subs, {p})
        /\ CallClose(IF p \in Known THEN {subs[p].owner} ELSE {})
        /\ closing' = [closing EXCEPT ![p] = IF @ = "no" THEN "draining" ELSE @]
        /\ UNCHANGED <<mode, connVars, isWs, rejected, received, granted>>
    BY DEF CloseFrame, CloseWebsocket, apiVars
  <1>2. /\ closing' \in [Pointers -> {"no", "draining", "polling", "between"}]
        /\ \A q \in Pointers \ {p} : closing'[q] = closing[q]
    BY <1>1 DEF WsInv, RecordTypes
  <1>3. /\ closed' \in [Ids -> Nat]
        /\ \A i \in Ids : closed'[i] = closed[i]
                          \/ (p \in Known /\ i = subs[p].owner)
    BY <1>1, CallCloseTypes
  <1> QED  BY <1>1, <1>2, <1>3, RecordErased

-----------------------------------------------------------------------------
(* Connections come and go.                                                *)
LEMMA CloseInv ==
  ASSUME WsInv, NEW p \in Pointers, Close(p)
  PROVE  WsInv'
  <1>1. /\ p \in live
        /\ live' = live \ {p} /\ isWs' = isWs \ {p}
        /\ closing' = [closing EXCEPT ![p] = "no"]
        /\ UNCHANGED <<mode, id, nextId, granted, rejected, received>>
    BY DEF Close, apiVars
  <1>2. /\ Known' \subseteq Known
        /\ \A q \in Known' : subs'[q] = subs[q]
        /\ p \in isWs => p \notin Known'
        /\ \A q \in Known \ {p} : q \in Known'
    BY DEF Close, CloseWebsocket, Without, Known
  <1>3. /\ closed' \in [Ids -> Nat]
        /\ \A i \in Ids : \/ closed'[i] = closed[i]
                          \/ p \in Known /\ p \in isWs /\ i = subs[p].owner
    <2>1. CASE p \in isWs
      BY <2>1, CallCloseTypes DEF Close, CloseWebsocket
    <2>2. CASE p \notin isWs
      BY <2>2 DEF Close, WsInv, RecordTypes
    <2> QED  BY <2>1, <2>2
  <1>4. RecordTypes'
    BY <1>1, <1>2, <1>3 DEF WsInv, RecordTypes
  <1>5. RecordsAreCurrent'
    BY <1>1, <1>2 DEF WsInv, RecordsAreCurrent, RefusedAreRejected
  <1>6. RefusedAreRejected'
    BY <1>1 DEF WsInv, RefusedAreRejected
  <1>7. \A q \in Known' : /\ subs[q].owner \in Ids
                          /\ closed'[subs[q].owner] = closed[subs[q].owner]
    BY <1>2, <1>3 DEF WsInv, RecordTypes, Owners, Subscriber
  <1>8. Owners'
    <2>1. \A i \in Ids : i >= nextId => closed'[i] = 0
      BY <1>3 DEF WsInv, RecordTypes, Owners, Subscriber, Ids
    <2>2. \A q \in Known' : subs'[q].owner < nextId
      BY <1>2 DEF WsInv, Owners
    <2>3. \A q, r \in Known' : subs'[q].owner = subs'[r].owner => q = r
      BY <1>2 DEF WsInv, Owners
    <2> QED  BY <1>1, <2>1, <2>2, <2>3 DEF Owners
  <1>9. ToldAreClosing'
    <2> SUFFICES ASSUME NEW q \in Known'
                 PROVE  \/ closed'[subs'[q].owner] = 0
                        \/ q \in isWs' /\ closing'[q] = "between"
      BY DEF ToldAreClosing
    <2>1. q \in Known /\ subs'[q] = subs[q] /\ (q \in isWs => q # p)
      BY <1>2
    <2>2. closed[subs[q].owner] = 0 \/ (q \in isWs /\ closing[q] = "between")
      BY <2>1 DEF WsInv, ToldAreClosing
    <2> QED  BY <1>1, <1>7, <2>1, <2>2 DEF WsInv, RecordTypes
  <1>10. AuthIsGranted'
    BY <1>1, <1>2 DEF WsInv, AuthIsGranted
  <1>11. DeliveredToGranted'
    BY <1>1 DEF WsInv, DeliveredToGranted
  <1> QED  BY <1>4, <1>5, <1>6, <1>8, <1>9, <1>10, <1>11 DEF WsInv

LEMMA UpgradeInv ==
  ASSUME WsInv, NEW p \in Pointers, Upgrade(p)
  PROVE  WsInv'
  <1>1. /\ p \notin live /\ nextId \in Ids
        /\ live' = live \cup {p}
        /\ id' = [id EXCEPT ![p] = nextId]
        /\ nextId' = nextId + 1
        /\ UNCHANGED <<mode, closed, received>>
    BY DEF Upgrade, apiVars
  <1>2. PICK accepted \in BOOLEAN :
           /\ isWs' = IF accepted THEN isWs \cup {p} ELSE isWs
           /\ rejected' = IF accepted THEN rejected ELSE rejected \cup {nextId}
           /\ \/ /\ OpenAtOnce(p) \/ AwaitAuthentication(p)
                 /\ closing' = [closing EXCEPT
                                  ![p] = IF accepted THEN "no" ELSE "draining"]
              \/ /\ RefuseQuery(p)
                 /\ closing' = [closing EXCEPT ![p] = "polling"]
    BY DEF Upgrade
  (* The records: others stay, and p has a new one, an orphan's or none.   *)
  <1>3. Uri \in Topics
    BY WsAssumption
  <1>4. /\ Record(p) \in Subscriber
        /\ p \in Known => /\ Record(p).owner = subs[p].owner
                          /\ Record(p).auth = subs[p].auth
        /\ p \notin Known => Record(p).owner = nextId /\ Record(p).auth = FALSE
    BY <1>1, <1>3 DEF Record, WsInv, RecordTypes, Subscriber
  <1>5. [Record(p) EXCEPT !.auth = TRUE] \in Subscriber
        /\ [Record(p) EXCEPT !.auth = TRUE].owner = Record(p).owner
    BY <1>4 DEF Subscriber
  <1>6. /\ Known' \subseteq Known \cup {p}
        /\ \A q \in Known \ {p} : q \in Known' /\ subs'[q] = subs[q]
        /\ p \in Known' => subs'[p] \in Subscriber
                           /\ subs'[p].owner = Record(p).owner
    BY <1>2, <1>4, <1>5
       DEF OpenAtOnce, AwaitAuthentication, RefuseQuery, With, Without, Known
  <1>7. /\ granted \subseteq granted'
        /\ p \in Known' /\ subs'[p].auth =>
              \/ nextId \in granted' /\ mode \in {"none", "query"}
              \/ p \in Known /\ subs[p].auth /\ mode \in {"basic", "bearer"}
    BY <1>2, <1>4
       DEF OpenAtOnce, AwaitAuthentication, RefuseQuery, With, Without, Known
  (* An orphan's record is not authenticated when that takes a message.    *)
  <1>8. p \in Known' /\ subs'[p].auth =>
           nextId \in granted' /\ mode \in {"none", "query"}
    BY <1>1, <1>7 DEF WsInv, RecordTypes, AuthIsGranted
  <1>9. \A q \in live : q # p /\ id'[q] = id[q]
    BY <1>1 DEF WsInv, RecordTypes
  <1>10. id'[p] = nextId
    BY <1>1 DEF WsInv, RecordTypes
  <1>11. RecordTypes'
    <2>1. closing' \in [Pointers -> {"no", "draining", "polling", "between"}]
      BY <1>2 DEF WsInv, RecordTypes
    <2>2. /\ id' \in [Pointers -> 0 .. MaxId] /\ nextId' \in 1 .. MaxId + 1
      BY <1>1, WsAssumption DEF WsInv, RecordTypes, Ids
    <2>3. live' \subseteq Pointers /\ isWs' \subseteq live'
      BY <1>1, <1>2 DEF WsInv, RecordTypes
    <2>4. Known' \subseteq Pointers /\ \A q \in Known' : subs'[q] \in Subscriber
      BY <1>6 DEF WsInv, RecordTypes
    <2> QED  BY <1>1, <2>1, <2>2, <2>3, <2>4 DEF WsInv, RecordTypes
  <1>12. RecordsAreCurrent'
    <2> SUFFICES ASSUME NEW q \in Known', subs'[q].owner \notin rejected'
                 PROVE  q \in live' /\ subs'[q].owner = id'[q]
      BY DEF RecordsAreCurrent
    <2>1. rejected \subseteq rejected'
      BY <1>2
    <2>2. CASE q # p
      BY <1>1, <1>6, <1>9, <2>1, <2>2 DEF WsInv, RecordsAreCurrent
    <2>3. CASE q = p
      <3>1. p \notin Known
        BY <1>1, <1>4, <1>6, <2>1, <2>3 DEF WsInv, RecordsAreCurrent
      <3> QED  BY <1>1, <1>4, <1>6, <1>10, <2>3, <3>1
    <2> QED  BY <2>2, <2>3
  <1>13. RefusedAreRejected'
    BY <1>1, <1>2, <1>9, <1>10 DEF WsInv, RefusedAreRejected
  <1>14. Owners'
    <2>1. nextId \in Nat /\ \A q \in Known : subs[q].owner \in Nat
      BY DEF WsInv, RecordTypes, Subscriber, Ids
    <2>2. \A q \in Known' : subs'[q].owner < nextId + 1
      BY <1>4, <1>6, <2>1 DEF WsInv, Owners
    <2>3. \A q, r \in Known' : subs'[q].owner = subs'[r].owner => q = r
      <3>1. \A q \in Known' \ {p} : subs'[q].owner = subs[q].owner /\ q \in Known
        BY <1>6
      <3>2. p \in Known' => \/ p \in Known /\ subs'[p].owner = subs[p].owner
                            \/ subs'[p].owner = nextId
        BY <1>4, <1>6
      <3>3. \A q \in Known : subs[q].owner < nextId /\ subs[q].owner # nextId
        BY <2>1 DEF WsInv, Owners
      <3> QED  BY <3>1, <3>2, <3>3 DEF WsInv, Owners
    <2>4. \A i \in Ids : i >= nextId + 1 => closed[i] = 0
      BY <2>1 DEF WsInv, Owners, Ids
    <2> QED  BY <1>1, <2>2, <2>3, <2>4 DEF Owners
  <1>15. ToldAreClosing'
    <2> SUFFICES ASSUME NEW q \in Known'
                 PROVE  \/ closed[subs'[q].owner] = 0
                        \/ q \in isWs' /\ closing'[q] = "between"
      BY <1>1 DEF ToldAreClosing
    <2>1. CASE q # p
      <3>1. closing'[q] = closing[q] /\ (q \in isWs => q \in isWs')
        BY <1>2, <1>6, <2>1 DEF WsInv, RecordTypes
      <3> QED  BY <1>6, <2>1, <3>1 DEF WsInv, ToldAreClosing
    <2>2. CASE q = p /\ p \in Known
      <3>1. p \notin isWs
        BY <1>1 DEF WsInv, RecordTypes
      <3> QED  BY <1>4, <1>6, <2>2, <3>1 DEF WsInv, ToldAreClosing
    <2>3. CASE q = p /\ p \notin Known
      <3>1. closed[nextId] = 0
        BY <1>1 DEF WsInv, Owners, Ids
      <3> QED  BY <1>4, <1>6, <2>3, <3>1
    <2> QED  BY <2>1, <2>2, <2>3
  <1>16. AuthIsGranted'
    <2>1. \A q \in isWs' \cap Known' : subs'[q].auth => id'[q] \in granted'
      <3> SUFFICES ASSUME NEW q \in isWs' \cap Known', subs'[q].auth
                   PROVE  id'[q] \in granted'
        OBVIOUS
      <3>1. CASE q = p
        BY <1>8, <1>10, <3>1
      <3>2. CASE q # p
        <4>1. q \in isWs /\ q \in Known /\ subs'[q] = subs[q]
          BY <1>2, <1>6, <3>2
        <4>2. id'[q] = id[q]
          BY <1>9, <4>1 DEF WsInv, RecordTypes
        <4> QED  BY <1>7, <4>1, <4>2 DEF WsInv, AuthIsGranted
      <3> QED  BY <3>1, <3>2
    <2>2. mode \in {"basic", "bearer"} => \A q \in Known' \ isWs' : ~subs'[q].auth
      <3> SUFFICES ASSUME mode \in {"basic", "bearer"}, NEW q \in Known' \ isWs'
                   PROVE  ~subs'[q].auth
        OBVIOUS
      <3>1. CASE q = p
        BY <1>8, <3>1
      <3>2. CASE q # p
        <4>1. q \notin isWs /\ q \in Known /\ subs'[q] = subs[q]
          BY <1>2, <1>6, <3>2
        <4> QED  BY <4>1 DEF WsInv, AuthIsGranted
      <3> QED  BY <3>1, <3>2
    <2> QED  BY <1>1, <2>1, <2>2 DEF AuthIsGranted
  <1>17. DeliveredToGranted'
    BY <1>1, <1>7 DEF WsInv, DeliveredToGranted
  <1> QED  BY <1>11, <1>12, <1>13, <1>14, <1>15, <1>16, <1>17 DEF WsInv

-----------------------------------------------------------------------------
(* The rest of Loop.                                                       *)
LEMMA CloseKnownInv ==
  ASSUME WsInv, CloseKnown
  PROVE  WsInv'
  <1>1. /\ closing' = [p \in Pointers |-> IF p \in Known \cap live THEN "between"
                                                                   ELSE closing[p]]
        /\ CallClose({subs[p].owner : p \in Known})
        /\ subs' = [p \in {} |-> 0]
        /\ UNCHANGED <<mode, connVars, isWs, granted, rejected, received>>
    BY DEF CloseKnown
  <1>2. Known' = {}
    BY <1>1 DEF Known
  <1>3. /\ closed' \in [Ids -> Nat]
        /\ \A i \in Ids : i \notin {subs[p].owner : p \in Known} =>
                             closed'[i] = closed[i]
    BY <1>1, CallCloseTypes
  <1>4. closing' \in [Pointers -> {"no", "draining", "polling", "between"}]
    BY <1>1 DEF WsInv, RecordTypes
  <1>5. RecordTypes'
    BY <1>1, <1>2, <1>3, <1>4 DEF WsInv, RecordTypes, connVars
  <1>6. \A i \in Ids : i >= nextId => closed'[i] = 0
    BY <1>3 DEF WsInv, RecordTypes, Owners, Subscriber, Ids
  <1>7. RecordsAreCurrent' /\ RefusedAreRejected' /\ Owners' /\ ToldAreClosing'
    BY <1>1, <1>2, <1>6
    DEF WsInv, RecordsAreCurrent, RefusedAreRejected, Owners, ToldAreClosing,
        connVars
  <1>8. AuthIsGranted' /\ DeliveredToGranted'
    BY <1>1, <1>2 DEF WsInv, AuthIsGranted, DeliveredToGranted
  <1> QED  BY <1>5, <1>7, <1>8 DEF WsInv

LEMMA SendAndCheckPingsInv ==
  ASSUME WsInv, SendAndCheckPings
  PROVE  WsInv'
  <1> DEFINE Late == {p \in isWs \cap Known : ~subs[p].ponged}
  <1>1. /\ closing' = [p \in Pointers |-> IF p \in Late THEN "between"
                                                       ELSE closing[p]]
        /\ CallClose({subs[p].owner : p \in Late})
        /\ subs' = [p \in Known |-> IF p \in isWs \ Late
                                    THEN [subs[p] EXCEPT !.ponged = FALSE]
                                    ELSE subs[p]]
        /\ UNCHANGED <<mode, connVars, isWs, granted, rejected, received>>
    BY DEF SendAndCheckPings, apiVars
  <1>2. Late \subseteq Known /\ Late \subseteq isWs
    OBVIOUS
  <1> HIDE DEF Late
  <1>3. /\ Known' = Known
        /\ \A p \in Known : /\ subs'[p] \in Subscriber
                            /\ subs'[p].owner = subs[p].owner
                            /\ subs'[p].auth = subs[p].auth
    <2>1. \A p \in Known : subs[p] \in Subscriber
      BY DEF WsInv, RecordTypes
    <2> QED  BY <1>1, <2>1 DEF Known, Subscriber
  <1>4. /\ closed' \in [Ids -> Nat]
        /\ \A i \in Ids : i \notin {subs[p].owner : p \in Late} =>
                             closed'[i] = closed[i]
    BY <1>1, CallCloseTypes
  <1>5. closing' \in [Pointers -> {"no", "draining", "polling", "between"}]
    BY <1>1 DEF WsInv, RecordTypes
  <1>6. RecordTypes'
    BY <1>1, <1>3, <1>4, <1>5 DEF WsInv, RecordTypes, connVars
  <1>7. RecordsAreCurrent' /\ RefusedAreRejected'
    BY <1>1, <1>3 DEF WsInv, RecordsAreCurrent, RefusedAreRejected, connVars
  <1>8. Owners'
    <2>1. \A i \in Ids : i >= nextId => closed'[i] = 0
      BY <1>2, <1>4 DEF WsInv, RecordTypes, Owners, Subscriber, Ids
    <2> QED  BY <1>1, <1>3, <2>1 DEF WsInv, Owners, connVars
  <1>9. ToldAreClosing'
    <2> SUFFICES ASSUME NEW p \in Known
                 PROVE  \/ closed'[subs[p].owner] = 0
                        \/ p \in isWs /\ closing'[p] = "between"
      BY <1>1, <1>3 DEF ToldAreClosing
    <2>1. CASE p \in Late
      BY <1>1, <1>2, <2>1 DEF WsInv, RecordTypes
    <2>2. CASE p \notin Late
      <3>1. subs[p].owner \notin {subs[q].owner : q \in Late}
        BY <1>2, <2>2 DEF WsInv, Owners
      <3>2. subs[p].owner \in Ids /\ p \in Pointers
        BY DEF WsInv, RecordTypes, Subscriber
      <3> QED  BY <1>1, <1>4, <2>2, <3>1, <3>2 DEF WsInv, ToldAreClosing
    <2> QED  BY <2>1, <2>2
  <1>10. AuthIsGranted' /\ DeliveredToGranted'
    BY <1>1, <1>3 DEF WsInv, AuthIsGranted, DeliveredToGranted, connVars
  <1> QED  BY <1>6, <1>7, <1>8, <1>9, <1>10 DEF WsInv

LEMMA SendNextInv ==
  ASSUME WsInv, NEW t \in Producers, SendNext(t)
  PROVE  WsInv'
  <1> DEFINE m == Head(queue[t])
             To == {id[p] : p \in Audience(m)}
  <1>1. /\ received' = [i \in Ids |-> IF i \in To THEN Append(received[i], m)
                                                 ELSE received[i]]
        /\ UNCHANGED <<mode, connVars, isWs, closing, subs, granted, closed,
                      rejected>>
    BY DEF SendNext
  <1>2. To \subseteq granted
    BY DEF Audience, WsInv, AuthIsGranted
  <1> HIDE DEF To, m
  <1>3. DeliveredToGranted'
    BY <1>1, <1>2 DEF WsInv, DeliveredToGranted
  <1>4. RecordTypes' /\ RecordsAreCurrent' /\ RefusedAreRejected'
    BY <1>1 DEF WsInv, RecordTypes, RecordsAreCurrent, RefusedAreRejected,
                connVars, Known
  <1>5. Owners' /\ ToldAreClosing' /\ AuthIsGranted'
    BY <1>1 DEF WsInv, Owners, ToldAreClosing, AuthIsGranted, connVars, Known
  <1> QED  BY <1>3, <1>4, <1>5 DEF WsInv

-----------------------------------------------------------------------------
LEMMA NextWsInv == WsInv /\ [Next]_vars => WsInv'
  <1> SUFFICES ASSUME WsInv, [Next]_vars PROVE WsInv'
    OBVIOUS
  <1>1. ASSUME NEW p \in Pointers, Upgrade(p) \/ Close(p) \/ Frame(p) \/ Pong(p)
        PROVE  WsInv'
    BY <1>1, UpgradeInv, CloseInv, AuthenticateInv, SubscribeInv,
       ExternalMessageInv, CloseFrameInv, PongInv
    DEF Frame
  <1>2. ASSUME NEW t \in Producers, SendNext(t) PROVE WsInv'
    BY <1>2, SendNextInv
  <1>3. CASE DoCloseWebsockets \/ SendAndCheckPings
    <2>1. CASE UseFreedConnection
      BY <2>1, NothingChanges DEF UseFreedConnection, apiVars, history
    <2> QED  BY <1>3, <2>1, CloseKnownInv, SendAndCheckPingsInv
             DEF DoCloseWebsockets
  <1>4. CASE EndPoll \/ PingNotDue \/ QueueEmpty
    BY <1>4, NothingChanges DEF EndPoll, PingNotDue, QueueEmpty, apiVars, history
  <1>5. ASSUME NEW t \in Producers, SendWebsocketMessage(t) PROVE WsInv'
    BY <1>5, NothingChanges DEF SendWebsocketMessage, history
  <1>6. CASE CloseAllWebsockets \/ RemoveWebsocketEndpoint
    BY <1>6, NothingChanges DEF CloseAllWebsockets, RemoveWebsocketEndpoint, history
  <1>7. CASE UNCHANGED vars
    BY <1>7, NothingChanges DEF vars, connVars
  <1> QED  BY <1>1, <1>2, <1>3, <1>4, <1>5, <1>6, <1>7 DEF Next, Loop

THEOREM WsInvariant == Spec => []WsInv
  BY InitWsInv, NextWsInv, PTL DEF Spec

(* A record of m_mSubscribers is of the connection that stands at its      *)
(* address, or of one whose upgrade Mongoose had refused, through any      *)
(* reuse of addresses and on every path on which a websocket ends.         *)
THEOREM WsRecordsAreCurrent == Spec => []RecordsAreCurrent
  <1>1. WsInv => RecordsAreCurrent
    BY DEF WsInv
  <1> QED  BY <1>1, WsInvariant, PTL

(* Nothing a client sends reaches funcMessage once funcClose was called    *)
(* for it, after a CLOSE frame, CloseAllWebsockets or missing PONGs.       *)
THEOREM WsNoMessageAfterClose == Spec => []NoMessageAfterClose
  <1>1. WsInv => NoMessageAfterClose
    BY DEF WsInv, ToldAreClosing, NoMessageAfterClose, Readable
  <1> QED  BY <1>1, WsInvariant, PTL

(* Messages are sent only to connections that have been authenticated      *)
(* themselves, whatever record they found under their address.             *)
THEOREM WsDeliveredToGranted == Spec => []DeliveredToGranted
  <1>1. WsInv => DeliveredToGranted
    BY DEF WsInv
  <1> QED  BY <1>1, WsInvariant, PTL

-----------------------------------------------------------------------------
(* The other variables. A connection that is there has a number.           *)
RestTypes ==
    /\ mode \in AuthModes
    /\ registered \in BOOLEAN /\ hung \in BOOLEAN /\ closeAll \in BOOLEAN
    /\ pass \in {"poll", "after", "queue", "crashed"}
    /\ \A p \in live : id[p] \in Ids
    /\ counter \in 0 .. Modulus - 1
    /\ queue \in [Producers -> Seq(Message)]
    /\ sent \in [Producers -> 0 .. MaxMessages]
    /\ granted \subseteq Ids /\ opened \subseteq Ids
    /\ rejected \subseteq Ids /\ gone \subseteq Ids
    /\ received \in [Ids -> Seq(Message)]

LEMMA CounterWraps ==
  ASSUME counter \in 0 .. Modulus - 1
  PROVE  /\ (counter + 1) % Modulus \in 0 .. Modulus - 1
         /\ (counter + Modulus - 1) % Modulus \in 0 .. Modulus - 1
  BY WsAssumption

LEMMA RestUpgrade ==
  ASSUME WsInv, RestTypes, NEW p \in Pointers, Upgrade(p) PROVE RestTypes'
  <1>1. nextId \in Ids /\ id' = [id EXCEPT ![p] = nextId]
        /\ live' = live \cup {p}
    BY DEF Upgrade
  <1>2. \A q \in live' : id'[q] \in Ids
    BY <1>1 DEF WsInv, RecordTypes, RestTypes
  <1>3. granted' \subseteq Ids /\ opened' \subseteq Ids
    BY <1>1 DEF Upgrade, OpenAtOnce, AwaitAuthentication, RefuseQuery, RestTypes
  <1>4. rejected' \subseteq Ids /\ counter' \in 0 .. Modulus - 1
    BY <1>1, CounterWraps DEF Upgrade, RestTypes
  <1>5. UNCHANGED <<apiVars, pass, hung, received, gone>>
    BY DEF Upgrade
  <1> QED  BY <1>2, <1>3, <1>4, <1>5 DEF RestTypes, apiVars

LEMMA RestClose ==
  ASSUME WsInv, RestTypes, NEW p \in Pointers, Close(p) PROVE RestTypes'
  <1>1. p \in live /\ live' = live \ {p} /\ gone' = gone \cup {id[p]}
        /\ UNCHANGED <<apiVars, pass, hung, id, granted, opened, rejected,
                       received>>
    BY DEF Close
  <1>2. counter' \in 0 .. Modulus - 1
    BY CounterWraps DEF Close, CloseWebsocket, RestTypes
  <1> QED  BY <1>1, <1>2 DEF RestTypes, apiVars

LEMMA RestFrame ==
  ASSUME WsInv, RestTypes, NEW p \in Pointers, Frame(p) \/ Pong(p)
  PROVE  RestTypes'
  <1>1. CASE Authenticate(p)
    <2>1. id[p] \in Ids
      BY <1>1 DEF Authenticate, WsInv, RecordTypes, RestTypes
    <2>2. granted' \subseteq Ids /\ hung' \in BOOLEAN
      BY <1>1, <2>1 DEF Authenticate, RestTypes
    <2> QED  BY <1>1, <2>2 DEF Authenticate, RestTypes, apiVars, connVars
  <1>2. CASE Subscribe(p) \/ ExternalMessage(p) \/ Pong(p)
    BY <1>2 DEF Subscribe, ExternalMessage, Pong, RestTypes, apiVars, connVars,
                history
  <1>3. CASE CloseFrame(p)
    <2>1. counter' \in 0 .. Modulus - 1
      BY <1>3, CounterWraps DEF CloseFrame, CloseWebsocket, RestTypes
    <2> QED  BY <1>3, <2>1 DEF CloseFrame, RestTypes, apiVars, connVars
  <1> QED  BY <1>1, <1>2, <1>3 DEF Frame

LEMMA RestSendNext ==
  ASSUME RestTypes, NEW t \in Producers, SendNext(t) PROVE RestTypes'
  <1>1. queue[t] \in Seq(Message) /\ queue[t] # <<>>
    BY DEF SendNext, RestTypes
  <1>2. Head(queue[t]) \in Message /\ Tail(queue[t]) \in Seq(Message)
    BY <1>1
  <1>3. received' \in [Ids -> Seq(Message)]
    BY <1>2 DEF SendNext, RestTypes
  <1>4. queue' \in [Producers -> Seq(Message)]
    BY <1>2 DEF SendNext, RestTypes
  <1> QED  BY <1>3, <1>4 DEF SendNext, RestTypes, connVars

LEMMA RestSend ==
  ASSUME RestTypes, NEW t \in Producers, SendWebsocketMessage(t)
  PROVE  RestTypes'
  <1>1. PICK to \in Targets :
          queue' = [queue EXCEPT
                      ![t] = Append(@, [from |-> t, n |-> sent[t] + 1,
                                        to |-> to])]
    BY DEF SendWebsocketMessage
  <1>2. sent[t] \in 0 .. MaxMessages /\ sent[t] < MaxMessages
    BY DEF SendWebsocketMessage, RestTypes
  <1>3. [from |-> t, n |-> sent[t] + 1, to |-> to] \in Message
    BY <1>2, WsAssumption DEF Message
  <1>4. queue' \in [Producers -> Seq(Message)]
    BY <1>1, <1>3 DEF RestTypes
  <1>5. sent' \in [Producers -> 0 .. MaxMessages]
    BY <1>2, WsAssumption DEF SendWebsocketMessage, RestTypes
  <1> QED  BY <1>4, <1>5 DEF SendWebsocketMessage, RestTypes, connVars, history

LEMMA NextRestTypes == WsInv /\ RestTypes /\ [Next]_vars => RestTypes'
  <1> SUFFICES ASSUME WsInv, RestTypes, [Next]_vars PROVE RestTypes'
    OBVIOUS
  <1>1. ASSUME NEW p \in Pointers, Upgrade(p) \/ Close(p) \/ Frame(p) \/ Pong(p)
        PROVE  RestTypes'
    BY <1>1, RestUpgrade, RestClose, RestFrame
  <1>2. ASSUME NEW t \in Producers, SendNext(t) \/ SendWebsocketMessage(t)
        PROVE  RestTypes'
    BY <1>2, RestSendNext, RestSend
  <1>3. CASE EndPoll \/ PingNotDue \/ QueueEmpty
    BY <1>3 DEF EndPoll, PingNotDue, QueueEmpty, RestTypes, apiVars, connVars,
                history
  <1>4. CASE DoCloseWebsockets \/ SendAndCheckPings
    BY <1>4 DEF DoCloseWebsockets, CloseKnown, UseFreedConnection,
                SendAndCheckPings, RestTypes, apiVars, connVars, history
  <1>5. CASE CloseAllWebsockets \/ RemoveWebsocketEndpoint
    BY <1>5 DEF CloseAllWebsockets, RemoveWebsocketEndpoint, RestTypes,
                connVars, history
  <1>6. CASE UNCHANGED vars
    BY <1>6 DEF vars, RestTypes
  <1> QED  BY <1>1, <1>2, <1>3, <1>4, <1>5, <1>6 DEF Next, Loop

LEMMA InitRestTypes == Init => RestTypes
  <1> SUFFICES ASSUME Init PROVE RestTypes
    OBVIOUS
  <1>1. <<>> \in Seq(Message)
    OBVIOUS
  <1>2. /\ queue \in [Producers -> Seq(Message)]
        /\ received \in [Ids -> Seq(Message)]
    BY <1>1 DEF Init
  <1>3. /\ sent \in [Producers -> 0 .. MaxMessages]
        /\ counter \in 0 .. Modulus - 1
    BY WsAssumption DEF Init
  <1> QED  BY <1>2, <1>3 DEF Init, RestTypes

THEOREM WsRestTypes == Spec => []RestTypes
  BY InitRestTypes, NextRestTypes, WsInvariant, PTL DEF Spec

(* Every variable keeps its type; the counter of connections wraps within  *)
(* its width however often it is decremented.                              *)
THEOREM WsTypeOK == Spec => []TypeOK
  <1>1. WsInv /\ RestTypes => TypeOK
    BY DEF WsInv, RecordTypes, RestTypes, TypeOK
  <1> QED  BY <1>1, WsInvariant, WsRestTypes, PTL

-----------------------------------------------------------------------------
LEMMA SeqElement ==
  ASSUME NEW S, NEW s \in Seq(S)
  PROVE  /\ Len(s) \in Nat
         /\ \A k \in 1 .. Len(s) : s[k] \in S
  OBVIOUS

LEMMA SeqTail ==
  ASSUME NEW S, NEW s \in Seq(S), s # <<>>
  PROVE  /\ Len(s) \in Nat \ {0}
         /\ Head(s) = s[1]
         /\ Tail(s) \in Seq(S)
         /\ Len(Tail(s)) = Len(s) - 1
         /\ \A k \in 1 .. Len(Tail(s)) : Tail(s)[k] = s[k + 1]
  OBVIOUS

LEMMA SeqAppend ==
  ASSUME NEW S, NEW s \in Seq(S), NEW e,
         NEW k \in 1 .. Len(Append(s, e))
  PROVE  \/ k \in 1 .. Len(s) /\ Append(s, e)[k] = s[k]
         \/ k = Len(s) + 1 /\ Append(s, e)[k] = e
  OBVIOUS

(* What a producer has queued is numbered upwards, and higher than what    *)
(* anybody has received from it.                                           *)
QueuesAscend ==
    \A t \in Producers : \A k \in 1 .. Len(queue[t]) :
        /\ queue[t][k].from = t
        /\ queue[t][k].n <= sent[t]
        /\ \A j \in 1 .. Len(queue[t]) : j < k => queue[t][j].n < queue[t][k].n

QueuedIsLater ==
    \A i \in Ids : \A j \in 1 .. Len(received[i]) :
        LET m == received[i][j]
        IN /\ m.n <= sent[m.from]
           /\ \A k \in 1 .. Len(queue[m.from]) : m.n < queue[m.from][k].n

OrderInv == QueuesAscend /\ QueuedIsLater /\ ReceivedInOrder

LEMMA OrderSendNext ==
  ASSUME RestTypes, OrderInv, NEW t \in Producers, SendNext(t)
  PROVE  OrderInv'
  <1> DEFINE q == queue[t]
             m == Head(q)
  <1>1. /\ q \in Seq(Message) /\ q # <<>>
        /\ m = q[1] /\ m \in Message /\ m.from = t
    <2>1. q \in Seq(Message) /\ q # <<>>
      BY DEF SendNext, RestTypes
    <2>2. m = q[1] /\ 1 \in 1 .. Len(q)
      BY <2>1, SeqTail
    <2> QED  BY <2>1, <2>2, SeqElement DEF OrderInv, QueuesAscend
  <1>2. /\ Len(q) \in Nat \ {0}
        /\ Len(Tail(q)) = Len(q) - 1
        /\ \A k \in 1 .. Len(Tail(q)) : Tail(q)[k] = q[k + 1]
    BY <1>1, SeqTail
  <1>3. /\ queue' = [queue EXCEPT ![t] = Tail(q)]
        /\ queue'[t] = Tail(q)
        /\ \A u \in Producers \ {t} : queue'[u] = queue[u]
        /\ sent' = sent
    BY DEF SendNext, RestTypes
  <1>4. \A k \in 1 .. Len(Tail(q)) : /\ k + 1 \in 1 .. Len(q)
                                    /\ 1 \in 1 .. Len(q)
                                    /\ m.n < Tail(q)[k].n
    BY <1>1, <1>2 DEF OrderInv, QueuesAscend
  <1>5. QueuesAscend'
    <2> SUFFICES ASSUME NEW u \in Producers, NEW k \in 1 .. Len(queue'[u])
                 PROVE  /\ queue'[u][k].from = u
                        /\ queue'[u][k].n <= sent[u]
                        /\ \A j \in 1 .. Len(queue'[u]) :
                             j < k => queue'[u][j].n < queue'[u][k].n
      BY <1>3 DEF QueuesAscend
    <2>1. CASE u = t
      <3> HIDE DEF m, q
      <3>1. k + 1 \in 1 .. Len(q) /\ queue'[u][k] = q[k + 1]
        BY <1>2, <1>3, <2>1
      <3>2. ASSUME NEW j \in 1 .. Len(queue'[u]), j < k
            PROVE  /\ j + 1 \in 1 .. Len(q) /\ j + 1 < k + 1
                   /\ queue'[u][j] = q[j + 1]
        BY <1>2, <1>3, <2>1, <3>2
      <3>3. /\ q[k + 1].from = t /\ q[k + 1].n <= sent[t]
            /\ \A j \in 1 .. Len(q) : j < k + 1 => q[j].n < q[k + 1].n
        BY <3>1 DEF OrderInv, QueuesAscend, q
      <3> QED  BY <2>1, <3>1, <3>2, <3>3
    <2>2. CASE u # t
      BY <1>3, <2>2 DEF OrderInv, QueuesAscend
    <2> QED  BY <2>1, <2>2
  <1>6. ASSUME NEW i \in Ids
        PROVE  received'[i] = received[i] \/ received'[i] = Append(received[i], m)
    BY <1>6 DEF SendNext, RestTypes
  <1>7. ASSUME NEW i \in Ids, NEW j \in 1 .. Len(received'[i])
        PROVE  \/ j \in 1 .. Len(received[i]) /\ received'[i][j] = received[i][j]
               \/ j = Len(received[i]) + 1 /\ received'[i][j] = m
    <2> HIDE DEF m, q
    <2>1. received[i] \in Seq(Message)
      BY DEF RestTypes
    <2> QED  BY <1>6, <1>7, <2>1, SeqAppend
  <1> HIDE DEF m, q
  <1>8. QueuedIsLater'
    <2> SUFFICES ASSUME NEW i \in Ids, NEW j \in 1 .. Len(received'[i])
                 PROVE  LET r == received'[i][j]
                        IN /\ r.n <= sent[r.from]
                           /\ \A k \in 1 .. Len(queue'[r.from]) :
                                r.n < queue'[r.from][k].n
      BY <1>3 DEF QueuedIsLater
    <2> DEFINE r == received'[i][j]
    <2>1. CASE j \in 1 .. Len(received[i]) /\ r = received[i][j]
      <3>1. r \in Message /\ r.from \in Producers
        <4>1. received[i] \in Seq(Message)
          BY DEF RestTypes
        <4>2. r \in Message
          BY <2>1, <4>1, SeqElement
        <4> QED  BY <4>2 DEF Message
      <3>2. /\ r.n <= sent[r.from]
            /\ \A k \in 1 .. Len(queue[r.from]) : r.n < queue[r.from][k].n
        BY <2>1 DEF OrderInv, QueuedIsLater
      <3>3. CASE r.from = t
        <4>1. \A k \in 1 .. Len(Tail(q)) : r.n < q[k + 1].n
          BY <1>4, <3>2, <3>3 DEF q
        <4> QED  BY <1>2, <1>3, <3>2, <3>3, <4>1
      <3>4. CASE r.from # t
        BY <1>3, <3>1, <3>2, <3>4
      <3> QED  BY <3>3, <3>4
    <2>2. CASE r = m
      <3>1. m.n <= sent[t]
        BY <1>1 DEF OrderInv, QueuesAscend, q
      <3> QED  BY <1>1, <1>3, <1>4, <2>2, <3>1
    <2> QED  BY <1>7, <2>1, <2>2
  <1>9. ReceivedInOrder'
    <2> SUFFICES ASSUME NEW i \in Ids, NEW j \in 1 .. Len(received'[i]),
                        NEW k \in 1 .. Len(received'[i]), j < k,
                        received'[i][j].from = received'[i][k].from
                 PROVE  received'[i][j].n < received'[i][k].n
      BY DEF ReceivedInOrder
    <2>0. Len(received[i]) \in Nat
      BY DEF RestTypes
    <2>1. j \in 1 .. Len(received[i]) /\ received'[i][j] = received[i][j]
      BY <1>6, <1>7, <2>0 DEF RestTypes
    <2>2. CASE k \in 1 .. Len(received[i]) /\ received'[i][k] = received[i][k]
      BY <2>1, <2>2 DEF OrderInv, ReceivedInOrder
    <2>3. CASE received'[i][k] = m
      <3>1. received[i][j].from = t
        BY <1>1, <2>1, <2>3
      <3>2. 1 \in 1 .. Len(queue[t]) /\ queue[t][1] = m
        BY <1>1 DEF q
      <3> QED  BY <2>1, <2>3, <3>1, <3>2 DEF OrderInv, QueuedIsLater
    <2> QED  BY <1>7, <2>2, <2>3
  <1> QED  BY <1>5, <1>8, <1>9 DEF OrderInv

LEMMA OrderSend ==
  ASSUME RestTypes, OrderInv, NEW t \in Producers, SendWebsocketMessage(t)
  PROVE  OrderInv'
  <1>1. PICK to \in Targets :
          queue' = [queue EXCEPT
                      ![t] = Append(@, [from |-> t, n |-> sent[t] + 1,
                                        to |-> to])]
    BY DEF SendWebsocketMessage
  <1> DEFINE m == [from |-> t, n |-> sent[t] + 1, to |-> to]
  <1>2. m.from = t /\ m.n = sent[t] + 1 /\ sent[t] \in Nat
    BY WsAssumption DEF RestTypes
  <1>3. /\ queue[t] \in Seq(Message) /\ queue'[t] = Append(queue[t], m)
        /\ \A u \in Producers \ {t} : queue'[u] = queue[u]
        /\ sent'[t] = sent[t] + 1
        /\ \A u \in Producers \ {t} : sent'[u] = sent[u]
        /\ received' = received
    BY <1>1 DEF SendWebsocketMessage, RestTypes, history
  <1> HIDE DEF m
  <1>4. ASSUME NEW k \in 1 .. Len(queue'[t])
        PROVE  \/ k \in 1 .. Len(queue[t]) /\ queue'[t][k] = queue[t][k]
               \/ k = Len(queue[t]) + 1 /\ queue'[t][k] = m
    BY <1>3, <1>4, SeqAppend
  <1>5. \A k \in 1 .. Len(queue[t]) : queue[t][k].n \in Nat
    <2>1. \A k \in 1 .. Len(queue[t]) : queue[t][k] \in Message
      BY <1>3, SeqElement
    <2> QED  BY <2>1, WsAssumption DEF Message
  <1>6. QueuesAscend'
    <2> SUFFICES ASSUME NEW u \in Producers, NEW k \in 1 .. Len(queue'[u])
                 PROVE  /\ queue'[u][k].from = u
                        /\ queue'[u][k].n <= sent'[u]
                        /\ \A j \in 1 .. Len(queue'[u]) :
                             j < k => queue'[u][j].n < queue'[u][k].n
      BY DEF QueuesAscend
    <2>1. CASE u # t
      BY <1>3, <2>1 DEF OrderInv, QueuesAscend
    <2>2. CASE u = t /\ k \in 1 .. Len(queue[t]) /\ queue'[t][k] = queue[t][k]
      <3>1. ASSUME NEW j \in 1 .. Len(queue'[t]), j < k
            PROVE  j \in 1 .. Len(queue[t]) /\ queue'[t][j] = queue[t][j]
        BY <1>3, <1>4, <2>2, <3>1
      <3>2. /\ queue[t][k].from = t /\ queue[t][k].n <= sent[t]
            /\ \A j \in 1 .. Len(queue[t]) :
                 j < k => queue[t][j].n < queue[t][k].n
        BY <2>2 DEF OrderInv, QueuesAscend
      <3>3. queue[t][k].n <= sent'[t]
        BY <1>2, <1>3, <1>5, <2>2, <3>2
      <3> QED  BY <2>2, <3>1, <3>2, <3>3
    <2>3. CASE u = t /\ k = Len(queue[t]) + 1 /\ queue'[t][k] = m
      <3>1. ASSUME NEW j \in 1 .. Len(queue'[t]), j < k
            PROVE  j \in 1 .. Len(queue[t]) /\ queue'[t][j] = queue[t][j]
        BY <1>3, <1>4, <2>3, <3>1
      <3>2. \A j \in 1 .. Len(queue[t]) : queue[t][j].n < m.n
        BY <1>2, <1>5 DEF OrderInv, QueuesAscend
      <3> QED  BY <1>2, <1>3, <2>3, <3>1, <3>2
    <2> QED  BY <1>4, <2>1, <2>2, <2>3
  <1>7. QueuedIsLater'
    <2> SUFFICES ASSUME NEW i \in Ids, NEW j \in 1 .. Len(received[i])
                 PROVE  LET r == received[i][j]
                        IN /\ r.n <= sent'[r.from]
                           /\ \A k \in 1 .. Len(queue'[r.from]) :
                                r.n < queue'[r.from][k].n
      BY <1>3 DEF QueuedIsLater
    <2> DEFINE r == received[i][j]
    <2>1. r.from \in Producers /\ r.n \in Nat
      <3>1. received[i] \in Seq(Message)
        BY DEF RestTypes
      <3>2. r \in Message
        BY <3>1, SeqElement
      <3> QED  BY <3>2, WsAssumption DEF Message
    <2>2. /\ r.n <= sent[r.from]
          /\ \A k \in 1 .. Len(queue[r.from]) : r.n < queue[r.from][k].n
      BY DEF OrderInv, QueuedIsLater
    <2> HIDE DEF r
    <2>3. CASE r.from = t
      <3>1. ASSUME NEW k \in 1 .. Len(queue'[t]) PROVE r.n < queue'[t][k].n
        <4>1. r.n <= sent[t] /\ r.n < m.n
          BY <1>2, <2>1, <2>2, <2>3
        <4>2. CASE queue'[t][k] = m
          BY <4>1, <4>2
        <4>3. CASE k \in 1 .. Len(queue[t]) /\ queue'[t][k] = queue[t][k]
          BY <2>2, <2>3, <4>3
        <4> QED  BY <1>4, <3>1, <4>2, <4>3
      <3>2. r.n <= sent'[r.from]
        <4>1. r.n <= sent[t] /\ r.n \in Nat
          BY <2>1, <2>2, <2>3
        <4>2. sent'[t] = sent[t] + 1 /\ sent[t] \in Nat
          BY <1>2, <1>3
        <4> HIDE DEF m
        <4>3. r.n <= sent'[t]
          BY <4>1, <4>2
        <4> QED  BY <2>3, <4>3
      <3> QED  BY <2>3, <3>1, <3>2 DEF r
    <2>4. CASE r.from # t
      BY <1>3, <2>1, <2>2, <2>4 DEF r
    <2> QED  BY <2>3, <2>4
  <1>8. ReceivedInOrder'
    BY <1>3 DEF OrderInv, ReceivedInOrder
  <1> QED  BY <1>6, <1>7, <1>8 DEF OrderInv

LEMMA OrderStays ==
  ASSUME OrderInv, UNCHANGED <<queue, sent, received>> PROVE OrderInv'
  BY DEF OrderInv, QueuesAscend, QueuedIsLater, ReceivedInOrder

LEMMA NextOrderInv == RestTypes /\ OrderInv /\ [Next]_vars => OrderInv'
  <1> SUFFICES ASSUME RestTypes, OrderInv, [Next]_vars PROVE OrderInv'
    OBVIOUS
  <1>1. ASSUME NEW p \in Pointers, Upgrade(p) \/ Close(p) \/ Frame(p) \/ Pong(p)
        PROVE  OrderInv'
    BY <1>1, OrderStays DEF Upgrade, Close, Frame, Pong, Authenticate, Subscribe,
       ExternalMessage, CloseFrame, apiVars, history
  <1>2. ASSUME NEW t \in Producers, SendNext(t) \/ SendWebsocketMessage(t)
        PROVE  OrderInv'
    BY <1>2, OrderSendNext, OrderSend
  <1>3. CASE \/ EndPoll \/ PingNotDue \/ QueueEmpty \/ DoCloseWebsockets
             \/ SendAndCheckPings
    BY <1>3, OrderStays DEF EndPoll, PingNotDue, QueueEmpty, DoCloseWebsockets,
       CloseKnown, UseFreedConnection, SendAndCheckPings, apiVars, history
  <1>4. CASE CloseAllWebsockets \/ RemoveWebsocketEndpoint
    BY <1>4, OrderStays DEF CloseAllWebsockets, RemoveWebsocketEndpoint, history
  <1>5. CASE UNCHANGED vars
    BY <1>5, OrderStays DEF vars
  <1> QED  BY <1>1, <1>2, <1>3, <1>4, <1>5 DEF Next, Loop

(* Each connection gets a producer's messages in the order in which they   *)
(* were sent and none of them twice, for any producers and messages.       *)
THEOREM WsReceivedInOrder == Spec => []ReceivedInOrder
  <1>1. Init => OrderInv
    BY DEF Init, OrderInv, QueuesAscend, QueuedIsLater, ReceivedInOrder
  <1>2. OrderInv => ReceivedInOrder
    BY DEF OrderInv
  <1> QED  BY <1>1, <1>2, NextOrderInv, WsRestTypes, PTL DEF Spec
=============================================================================
