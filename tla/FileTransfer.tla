---------------------------- MODULE FileTransfer ----------------------------
(***************************************************************************)
(* A client's connection to MongooseServer from HandleOpen to MG_EV_CLOSE, *)
(* and how a response that is a file is sent over it: the limit on the     *)
(* number of connections, the streams m_mFileDownloads keeps under the     *)
(* address of a connection, and EventWrite, which reads the next buffer of *)
(* the file whenever Mongoose has put some bytes into the socket.          *)
(*                                                                         *)
(* Everything here runs in the server thread. Against it stand the client  *)
(* and the network: the socket takes any part of what is waiting, the      *)
(* client may go at any moment, and its address may be given to another.   *)
(* A connection carries one request in its life (see ThreadedReply).       *)
(* Lengths are counted in units; Buffer of them are the 65535 bytes of     *)
(* EventWrite, and the headers of a response are one.                      *)
(***************************************************************************)
EXTENDS Integers, FiniteSets

CONSTANTS
    Pointers,        \* the addresses mg_connection objects can have
    MaxId,           \* connections accepted during a run (bounds the model)
    MaxConnections,  \* m_nMaxConnections
    Sizes,           \* lengths of the bodies and of the files there are
    Buffer           \* the length of the array buffer of EventWrite

ASSUME FileAssumption ==
    /\ IsFiniteSet(Pointers)
    /\ MaxId \in Nat
    /\ MaxConnections \in Nat
    /\ Sizes \subseteq Nat
    /\ Buffer \in Nat \ {0}

Ids == 1 .. MaxId
Headers == 1

(* Connections the manager has before any client comes: the receiving end  *)
(* of the wakeup pipe and the listener.                                    *)
OwnConnections == 2

VARIABLES
    at,         \* the connection at each address, or 0
    nextId,     \* the id Mongoose gives to the next connection
    conn,       \* what there is to know of each connection
    downloads   \* m_mFileDownloads: what is left of the file, per address

vars == <<at, nextId, conn, downloads>>

(* "silent": the file to answer with could not be opened. "complete" and   *)
(* "broken": closed after everything was sent, or before.                  *)
Phase == {"none", "open", "silent", "answered", "complete", "broken"}

(* closing and draining are Mongoose's flags, out is its send buffer,      *)
(* length the Content-Length of the headers, written what the socket took. *)
Connection == [phase : Phase, closing : BOOLEAN, draining : BOOLEAN,
               out : Nat, length : Int, written : Nat]

Unused == [phase |-> "none", closing |-> FALSE, draining |-> FALSE,
           out |-> 0, length |-> 0, written |-> 0]

Init ==
    /\ at = [p \in Pointers |-> 0]
    /\ nextId = 1
    /\ conn = [i \in Ids |-> Unused]
    /\ downloads = [p \in {} |-> 0]

Live == {p \in Pointers : at[p] # 0}

Without(p) == [q \in DOMAIN downloads \ {p} |-> downloads[q]]

-----------------------------------------------------------------------------
(* A faulty HandleOpen: it refuses only when the limit was passed before.  *)
AtMaximumLate == OwnConnections + Cardinality(Live) > MaxConnections

(* get_number_of_connections counts the connection that is being opened,   *)
(* those that are about to close, the listener and the pipe.               *)
AtMaximum == OwnConnections + Cardinality(Live) + 1 > MaxConnections

(* A client connects; HandleOpen closes at once one that the access list   *)
(* does not allow or that comes on top of the limit.                       *)
Accept(p, allowed) ==
    /\ at[p] = 0
    /\ nextId \in Ids
    /\ at' = [at EXCEPT ![p] = nextId]
    /\ nextId' = nextId + 1
    /\ conn' = [conn EXCEPT ![nextId] =
                  [Unused EXCEPT !.phase = "open",
                                 !.closing = ~allowed \/ AtMaximum]]
    /\ UNCHANGED downloads

Requesting(p) ==
    /\ at[p] # 0
    /\ conn[at[p]].phase = "open"
    /\ ~conn[at[p]].closing

(* The headers are sent, with a Content-Length, and the first bytes of the *)
(* body; the connection is to close once it has drained.                   *)
Answered(c, length, bytes) ==
    [c EXCEPT !.phase = "answered", !.draining = TRUE, !.length = length,
              !.out = Headers + bytes]

(* A response that is text: DoReplyText.                                   *)
ReplyText(p, size) ==
    /\ Requesting(p)
    /\ conn' = [conn EXCEPT ![at[p]] = Answered(@, size, size)]
    /\ UNCHANGED <<at, nextId, downloads>>

Chunk(left) == IF left < Buffer THEN left ELSE Buffer

(* A faulty EventWrite: the stream is erased after any read.               *)
StopsAfterOneBuffer(p, left) == downloads' = Without(p)

(* EventWrite, what it leaves of the stream: it is erased by the first     *)
(* read that does not fill the buffer, so for a file of whole buffers by   *)
(* one that finds nothing.                                                 *)
KeepRest(p, left) ==
    downloads' = IF Chunk(left) < Buffer THEN Without(p)
                    ELSE [q \in DOMAIN downloads \cup {p} |->
                             IF q = p THEN left - Buffer ELSE downloads[q]]

(* A faulty DoReplyFile: it does not mark the connection as draining.      *)
ReplyFileAndStay(p, size) ==
    /\ Requesting(p)
    /\ KeepRest(p, size)
    /\ conn' = [conn EXCEPT ![at[p]] =
                  [Answered(@, size, Chunk(size)) EXCEPT !.draining = FALSE]]
    /\ UNCHANGED <<at, nextId>>

(* A response that is a file: DoReplyFile sends the headers and the first  *)
(* buffer. insert() keeps a stream that is there for the address; opening  *)
(* it again fails, tellg() gives -1 and there is nothing to read.          *)
ReplyFile(p, size) ==
    LET kept == p \in DOMAIN downloads
        left == IF kept THEN 0 ELSE size
    IN  /\ Requesting(p)
        /\ KeepRest(p, left)
        /\ conn' = [conn EXCEPT ![at[p]] =
                      Answered(@, IF kept THEN -1 ELSE size, Chunk(left))]
        /\ UNCHANGED <<at, nextId>>

(* The file cannot be opened: the stream is erased and that is all.        *)
ReplyMissingFile(p) ==
    /\ Requesting(p)
    /\ conn' = [conn EXCEPT ![at[p]].phase = "silent"]
    /\ downloads' = Without(p)
    /\ UNCHANGED <<at, nextId>>

(* The socket takes some of the bytes, then MG_EV_WRITE: EventWrite.       *)
Written(c, n, bytes) == [c EXCEPT !.written = @ + n, !.out = @ - n + bytes]

Take(p, n) ==
    IF p \in DOMAIN downloads
       THEN /\ KeepRest(p, downloads[p])
            /\ conn' = [conn EXCEPT ![at[p]] =
                          Written(@, n, Chunk(downloads[p]))]
       ELSE /\ conn' = [conn EXCEPT ![at[p]] = Written(@, n, 0)]
            /\ UNCHANGED downloads

SocketWrite(p) ==
    /\ at[p] # 0
    /\ \E n \in 1 .. conn[at[p]].out : Take(p, n)
    /\ UNCHANGED <<at, nextId>>

(* The client closes, or the connection fails.                             *)
PeerCloses(p) ==
    /\ at[p] # 0
    /\ ~conn[at[p]].closing
    /\ conn' = [conn EXCEPT ![at[p]].closing = TRUE]
    /\ UNCHANGED <<at, nextId, downloads>>

Drained(c) == c.draining /\ c.out = 0

CloseTo(p) ==
    /\ at[p] # 0
    /\ conn[at[p]].closing \/ Drained(conn[at[p]])
    /\ conn' = [conn EXCEPT ![at[p]].phase =
                  IF Drained(conn[at[p]]) THEN "complete" ELSE "broken"]
    /\ at' = [at EXCEPT ![p] = 0]
    /\ UNCHANGED nextId

(* A faulty MG_EV_CLOSE: it forgets the stream.                            *)
CloseKeepsStream(p) == CloseTo(p) /\ UNCHANGED downloads

(* At the end of a round of mg_mgr_poll: Mongoose closes a connection that *)
(* has drained or is to be closed; MG_EV_CLOSE erases its stream.          *)
Close(p) == CloseTo(p) /\ downloads' = Without(p)

Next ==
    \E p \in Pointers :
        \/ \E allowed \in BOOLEAN : Accept(p, allowed)
        \/ \E size \in Sizes : ReplyText(p, size) \/ ReplyFile(p, size)
        \/ ReplyMissingFile(p)
        \/ SocketWrite(p)
        \/ PeerCloses(p)
        \/ Close(p)

(* The server thread polls every connection again and again, and a client  *)
(* that stays reads what it is sent. Nobody has to connect or to leave.    *)
Fairness == \A p \in Pointers : WF_vars(SocketWrite(p)) /\ WF_vars(Close(p))

Spec == Init /\ [][Next]_vars /\ Fairness

-----------------------------------------------------------------------------
(* Types. An address holds a connection that was accepted and is not       *)
(* closed, and two addresses never the same one.                           *)
TypeOK ==
    /\ at \in [Pointers -> {0} \cup Ids]
    /\ nextId \in 1 .. MaxId + 1
    /\ conn \in [Ids -> Connection]
    /\ DOMAIN downloads \subseteq Pointers
    /\ \A p \in DOMAIN downloads : downloads[p] \in Nat
    /\ \A p \in Live : /\ at[p] < nextId
                       /\ conn[at[p]].phase \in {"open", "silent", "answered"}
    /\ \A p, q \in Live : at[p] = at[q] => p = q

(* A stream is kept for a connection that is being answered, and goes with *)
(* it: the next connection at its address finds none. Otherwise that one's *)
(* file would not be opened, and the bytes of another client's file would  *)
(* follow whatever it is sent.                                             *)
DownloadsAreOfLiveConnections ==
    \A p \in DOMAIN downloads : at[p] # 0 /\ conn[at[p]].phase = "answered"

(* A client whose connection the server closed by itself was sent the      *)
(* headers and exactly Content-Length bytes, whatever parts the socket     *)
(* took and however the file's length compares to the buffer's; and nobody *)
(* is ever sent more.                                                      *)
BodyIsComplete ==
    \A i \in Ids :
        /\ conn[i].phase = "complete" =>
              conn[i].written = Headers + conn[i].length
        /\ conn[i].phase = "answered" =>
              conn[i].written + conn[i].out <= Headers + conn[i].length

(* At no time are there more connections that the server serves, with its  *)
(* own two, than were set (RestGoose.h: "Set the maximum number of         *)
(* connections the server will accept").                                   *)
ServedWithinLimit ==
    LET served == {p \in Live : ~conn[at[p]].closing}
    IN  served # {} => OwnConnections + Cardinality(served) <= MaxConnections

(* A response comes to its end, and a connection that was refused or that  *)
(* the client has left is given back.                                      *)
RequestEnds ==
    \A i \in Ids :
        (conn[i].phase = "answered" \/ conn[i].closing)
            ~> conn[i].phase \in {"complete", "broken"}

=============================================================================
