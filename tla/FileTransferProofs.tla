------------------------- MODULE FileTransferProofs -------------------------
(***************************************************************************)
(* Proofs about FileTransfer, for any number of addresses, connections,    *)
(* any limit, any lengths and any buffer: streams belong to connections    *)
(* that are being answered, a client gets Content-Length bytes, and the    *)
(* limit is kept.                                                          *)
(***************************************************************************)
EXTENDS FileTransfer, FiniteSetTheorems, TLAPS

At(p) == conn[at[p]]
Left(p) == IF p \in DOMAIN downloads THEN downloads[p] ELSE 0

(* What was written, what waits in the send buffer and what is left of the *)
(* stream make up the response; a stream is left only while something      *)
(* waits, so that there will be another MG_EV_WRITE.                       *)
Conserved ==
    \A p \in Live :
        /\ At(p).draining => At(p).phase = "answered"
        /\ At(p).phase = "answered" =>
              /\ At(p).draining
              /\ At(p).written + At(p).out + Left(p)
                    = Headers + At(p).length
              /\ p \in DOMAIN downloads => At(p).out > 0
        /\ At(p).phase = "open" => At(p).written = 0 /\ At(p).out = 0
        /\ At(p).phase = "silent" => At(p).out = 0

(* A connection that is being answered is at some address.                 *)
AnsweredIsLive ==
    \A i \in Ids : conn[i].phase = "answered" => \E p \in Pointers : at[p] = i

CompleteBodies ==
    \A i \in Ids : conn[i].phase = "complete" =>
                      conn[i].written = Headers + conn[i].length

FileInv ==
    /\ TypeOK
    /\ DownloadsAreOfLiveConnections
    /\ Conserved
    /\ AnsweredIsLive
    /\ CompleteBodies

-----------------------------------------------------------------------------
LEMMA InitFileInv == Init => FileInv
  BY FileAssumption
  DEF Init, FileInv, TypeOK, DownloadsAreOfLiveConnections, Conserved,
      AnsweredIsLive, CompleteBodies, Connection, Unused, Phase, Ids, Live

(* KeepRest: the stream after a read, and what is left of it.              *)
LEMMA KeepRestLeft ==
  ASSUME TypeOK, NEW p \in Pointers, NEW left \in Nat, KeepRest(p, left)
  PROVE  /\ Chunk(left) \in Nat
         /\ DOMAIN downloads' \subseteq DOMAIN downloads \cup {p}
         /\ \A q \in DOMAIN downloads' : downloads'[q] \in Nat
         /\ \A q \in Pointers \ {p} : Left(q)' = Left(q)
         /\ \A q \in Pointers \ {p} :
               q \in DOMAIN downloads' <=> q \in DOMAIN downloads
         /\ Chunk(left) + Left(p)' = left
         /\ p \in DOMAIN downloads' => Chunk(left) > 0
  <1>1. CASE left < Buffer
    BY <1>1, FileAssumption DEF TypeOK, KeepRest, Chunk, Left, Without
  <1>2. CASE ~(left < Buffer)
    BY <1>2, FileAssumption DEF TypeOK, KeepRest, Chunk, Left
  <1> QED  BY <1>1, <1>2

(* Where the stream goes, those of the other addresses stay.               *)
LEMMA WithoutLeft ==
  ASSUME TypeOK, NEW p \in Pointers, downloads' = Without(p)
  PROVE  /\ DOMAIN downloads' = DOMAIN downloads \ {p}
         /\ \A q \in DOMAIN downloads' : downloads'[q] \in Nat
         /\ \A q \in Pointers \ {p} : Left(q)' = Left(q)
  BY DEF TypeOK, Without, Left

(* What every step but Accept and Close has to show: it changes what is    *)
(* known of the connection at one address.                                 *)
LEMMA StepAt ==
  ASSUME FileInv, NEW p \in Live, NEW c \in Connection,
         conn' = [conn EXCEPT ![at[p]] = c],
         UNCHANGED <<at, nextId>>,
         c.phase \in {"open", "silent", "answered"},
         DOMAIN downloads' \subseteq Pointers,
         \A q \in DOMAIN downloads' : downloads'[q] \in Nat,
         \A q \in Pointers \ {p} : Left(q)' = Left(q),
         \A q \in Pointers \ {p} :
            q \in DOMAIN downloads' <=> q \in DOMAIN downloads,
         p \in DOMAIN downloads' => c.phase = "answered" /\ c.out > 0,
         c.draining => c.phase = "answered",
         c.phase = "answered" =>
            c.draining /\ c.written + c.out + Left(p)' = Headers + c.length,
         c.phase = "open" => c.written = 0 /\ c.out = 0,
         c.phase = "silent" => c.out = 0
  PROVE  FileInv'
  <1>1. p \in Pointers /\ at[p] \in Ids /\ TypeOK
    BY DEF FileInv, TypeOK, Live
  <1>2. Live' = Live
    BY DEF Live
  <1>3. /\ At(p)' = c
        /\ \A q \in Live \ {p} : At(q)' = At(q)
        /\ \A i \in Ids \ {at[p]} : conn'[i] = conn[i]
        /\ conn'[at[p]] = c
    BY <1>1 DEF At, TypeOK, Live
  <1>4. TypeOK'
    BY <1>1, <1>2, <1>3 DEF TypeOK, At, Live
  <1>5. DownloadsAreOfLiveConnections'
    BY <1>1, <1>2, <1>3 DEF FileInv, DownloadsAreOfLiveConnections, At, Live
  <1>6. Conserved'
    <2> SUFFICES ASSUME NEW q \in Live
                 PROVE  /\ At(q)'.draining => At(q)'.phase = "answered"
                        /\ At(q)'.phase = "answered" =>
                              /\ At(q)'.draining
                              /\ At(q)'.written + At(q)'.out + Left(q)'
                                    = Headers + At(q)'.length
                              /\ q \in DOMAIN downloads' => At(q)'.out > 0
                        /\ At(q)'.phase = "open" =>
                              At(q)'.written = 0 /\ At(q)'.out = 0
                        /\ At(q)'.phase = "silent" => At(q)'.out = 0
      BY <1>2 DEF Conserved
    <2>1. CASE q = p
      BY <2>1, <1>3
    <2>2. CASE q # p
      BY <2>2, <1>3 DEF FileInv, Conserved, Live
    <2> QED  BY <2>1, <2>2
  <1>7. AnsweredIsLive' /\ CompleteBodies'
    BY <1>1, <1>3 DEF FileInv, AnsweredIsLive, CompleteBodies
  <1> QED  BY <1>4, <1>5, <1>6, <1>7 DEF FileInv

-----------------------------------------------------------------------------
(* The record of a connection after a response was begun, and after the    *)
(* socket took something.                                                  *)
LEMMA AnsweredRecord ==
  ASSUME NEW c \in Connection, NEW length \in Int, NEW bytes \in Nat
  PROVE  /\ Answered(c, length, bytes) \in Connection
         /\ Answered(c, length, bytes).phase = "answered"
         /\ Answered(c, length, bytes).draining
         /\ Answered(c, length, bytes).closing = c.closing
         /\ Answered(c, length, bytes).length = length
         /\ Answered(c, length, bytes).out = Headers + bytes
         /\ Answered(c, length, bytes).written = c.written
  <1>1. PICK o \in Nat : o = Headers + bytes
    BY DEF Headers
  <1>5. PICK v : v = [c EXCEPT !.phase = "answered", !.draining = TRUE,
                               !.length = length, !.out = o]
    OBVIOUS
  <1>2. v = [phase |-> "answered", closing |-> c.closing, draining |-> TRUE,
             out |-> o, length |-> length, written |-> c.written]
    BY <1>5 DEF Connection
  <1>3. Answered(c, length, bytes) = v
    BY <1>1, <1>5 DEF Answered
  <1>4. v \in Connection /\ v.phase = "answered" /\ v.draining
        /\ v.closing = c.closing /\ v.length = length /\ v.out = o /\ v.written = c.written
    BY <1>2 DEF Connection, Phase
  <1> QED  BY <1>1, <1>3, <1>4

LEMMA WrittenRecord ==
  ASSUME NEW c \in Connection, NEW bytes \in Nat, NEW n \in 1 .. c.out
  PROVE  /\ Written(c, n, bytes) \in Connection
         /\ Written(c, n, bytes).phase = c.phase
         /\ Written(c, n, bytes).draining = c.draining
         /\ Written(c, n, bytes).closing = c.closing
         /\ Written(c, n, bytes).length = c.length
         /\ Written(c, n, bytes).out = c.out - n + bytes
         /\ Written(c, n, bytes).written = c.written + n
  <1>1. c.out \in Nat /\ c.written \in Nat
    BY DEF Connection
  <1>2. PICK o \in Nat : o = c.out - n + bytes
    BY <1>1
  <1>3. PICK w \in Nat : w = c.written + n
    BY <1>1
  <1>7. PICK v : v = [c EXCEPT !.written = w, !.out = o]
    OBVIOUS
  <1>4. v = [phase |-> c.phase, closing |-> c.closing,
             draining |-> c.draining, out |-> o, length |-> c.length,
             written |-> w]
    BY <1>7 DEF Connection
  <1>5. Written(c, n, bytes) = v
    BY <1>2, <1>3, <1>7 DEF Written
  <1>6. v \in Connection /\ v.phase = c.phase /\ v.draining = c.draining
        /\ v.closing = c.closing
        /\ v.length = c.length /\ v.out = o /\ v.written = w
    BY <1>4 DEF Connection, Phase
  <1> QED  BY <1>2, <1>3, <1>5, <1>6

(* An open connection has no stream and nothing to send.                   *)
LEMMA RequestingIsFresh ==
  ASSUME FileInv, NEW p \in Pointers, Requesting(p)
  PROVE  /\ p \in Live /\ p \notin DOMAIN downloads
         /\ At(p) \in Connection /\ At(p).written = 0 /\ Left(p) = 0
         /\ ~At(p).draining
  BY DEF FileInv, TypeOK, DownloadsAreOfLiveConnections, Conserved, Requesting,
         Live, At, Left

LEMMA ReplyTextInv ==
  ASSUME FileInv, NEW p \in Pointers, NEW size \in Sizes, ReplyText(p, size)
  PROVE  FileInv'
  <1>1. Requesting(p) /\ UNCHANGED <<at, nextId, downloads>>
    BY DEF ReplyText
  <1>2. p \in Live /\ Left(p) = 0 /\ At(p) \in Connection
        /\ At(p).written = 0 /\ p \notin DOMAIN downloads
    BY <1>1, RequestingIsFresh
  <1>3. size \in Nat
    BY FileAssumption
  <1> DEFINE c == Answered(At(p), size, size)
  <1>4. conn' = [conn EXCEPT ![at[p]] = c]
    BY DEF ReplyText, At
  <1>5. c \in Connection /\ c.phase = "answered" /\ c.draining
        /\ c.written = 0 /\ c.out = Headers + size /\ c.length = size
    BY <1>2, <1>3, AnsweredRecord
  <1> HIDE DEF c
  <1>6. \A q \in Pointers : Left(q)' = Left(q)
    BY <1>1 DEF Left
  <1>7. c.written + c.out + Left(p)' = Headers + c.length
    BY <1>2, <1>3, <1>5, <1>6 DEF Headers
  <1> QED
    BY <1>1, <1>2, <1>4, <1>5, <1>6, <1>7, StepAt DEF FileInv, TypeOK

LEMMA ReplyFileInv ==
  ASSUME FileInv, NEW p \in Pointers, NEW size \in Sizes, ReplyFile(p, size)
  PROVE  FileInv'
  <1>1. Requesting(p)
    BY DEF ReplyFile
  <1>2. p \in Live /\ At(p) \in Connection /\ At(p).written = 0
        /\ p \notin DOMAIN downloads
    BY <1>1, RequestingIsFresh
  <1>3. size \in Nat /\ Chunk(size) \in Nat
    BY FileAssumption DEF Chunk
  <1> DEFINE c == Answered(At(p), size, Chunk(size))
  <1>4. KeepRest(p, size) /\ UNCHANGED <<at, nextId>>
        /\ conn' = [conn EXCEPT ![at[p]] = c]
    BY <1>2 DEF ReplyFile, At
  <1>5. /\ DOMAIN downloads' \subseteq DOMAIN downloads \cup {p}
        /\ \A q \in DOMAIN downloads' : downloads'[q] \in Nat
        /\ \A q \in Pointers \ {p} : Left(q)' = Left(q)
        /\ \A q \in Pointers \ {p} :
              q \in DOMAIN downloads' <=> q \in DOMAIN downloads
        /\ Chunk(size) + Left(p)' = size
    BY <1>3, <1>4, KeepRestLeft DEF FileInv
  <1>6. c \in Connection /\ c.phase = "answered" /\ c.draining
        /\ c.written = 0 /\ c.out = Headers + Chunk(size) /\ c.length = size
    BY <1>2, <1>3, AnsweredRecord
  <1> HIDE DEF c
  <1>7. Left(p)' \in Nat
    BY <1>5 DEF Left
  <1>8. c.written + c.out + Left(p)' = Headers + c.length /\ c.out > 0
    BY <1>3, <1>5, <1>6, <1>7 DEF Headers
  <1>9. DOMAIN downloads' \subseteq Pointers
    BY <1>5 DEF FileInv, TypeOK
  <1> QED
    BY <1>2, <1>4, <1>5, <1>6, <1>8, <1>9, StepAt

LEMMA ReplyMissingFileInv ==
  ASSUME FileInv, NEW p \in Pointers, ReplyMissingFile(p)
  PROVE  FileInv'
  <1>1. Requesting(p) /\ UNCHANGED <<at, nextId>> /\ downloads' = Without(p)
    BY DEF ReplyMissingFile
  <1>2. p \in Live /\ At(p) \in Connection /\ p \notin DOMAIN downloads
        /\ ~At(p).draining /\ At(p).out = 0
    BY <1>1, RequestingIsFresh DEF FileInv, Conserved, Requesting, At
  <1> DEFINE c == [At(p) EXCEPT !.phase = "silent"]
  <1>3. conn' = [conn EXCEPT ![at[p]] = c]
    BY <1>2 DEF ReplyMissingFile, At, Connection
  <1>4. c \in Connection /\ c.phase = "silent" /\ ~c.draining /\ c.out = 0
    BY <1>2 DEF Connection, Phase
  <1>5. /\ DOMAIN downloads' = DOMAIN downloads \ {p}
        /\ \A q \in DOMAIN downloads' : downloads'[q] \in Nat
        /\ \A q \in Pointers \ {p} : Left(q)' = Left(q)
    BY <1>1, WithoutLeft DEF FileInv
  <1>6. DOMAIN downloads' \subseteq Pointers
    BY <1>5 DEF FileInv, TypeOK
  <1> HIDE DEF c
  <1> QED
    BY <1>1, <1>2, <1>3, <1>4, <1>5, <1>6, StepAt

LEMMA PeerClosesInv ==
  ASSUME FileInv, NEW p \in Pointers, PeerCloses(p)
  PROVE  FileInv'
  <1>1. p \in Live /\ At(p) \in Connection /\ UNCHANGED <<at, nextId, downloads>>
    BY DEF PeerCloses, FileInv, TypeOK, Live, At
  <1> DEFINE c == [At(p) EXCEPT !.closing = TRUE]
  <1>2. conn' = [conn EXCEPT ![at[p]] = c]
    BY <1>1 DEF PeerCloses, At, Connection
  <1>3. c \in Connection /\ c.phase = At(p).phase /\ c.draining = At(p).draining
        /\ c.out = At(p).out /\ c.written = At(p).written
        /\ c.length = At(p).length
    BY <1>1 DEF Connection
  <1>4. At(p).phase \in {"open", "silent", "answered"}
    BY <1>1 DEF FileInv, TypeOK, At
  <1>5. \A q \in Pointers : Left(q)' = Left(q)
    BY <1>1 DEF Left
  <1>6. p \in DOMAIN downloads => At(p).phase = "answered" /\ At(p).out > 0
    BY <1>1 DEF FileInv, DownloadsAreOfLiveConnections, Conserved, At
  <1>7. /\ At(p).draining => At(p).phase = "answered"
        /\ At(p).phase = "answered" =>
              At(p).draining /\ At(p).written + At(p).out + Left(p)
                                    = Headers + At(p).length
        /\ At(p).phase = "open" => At(p).written = 0 /\ At(p).out = 0
        /\ At(p).phase = "silent" => At(p).out = 0
    BY <1>1 DEF FileInv, Conserved
  <1>8. p \in Pointers /\ Left(p)' = Left(p)
    BY <1>5
  <1> HIDE DEF c
  <1> QED
    BY <1>1, <1>2, <1>3, <1>4, <1>5, <1>6, <1>7, <1>8, StepAt
    DEF FileInv, TypeOK

(* The socket takes some bytes, and EventWrite reads on if it can.         *)
LEMMA SocketWriteInv ==
  ASSUME FileInv, NEW p \in Pointers, SocketWrite(p)
  PROVE  FileInv'
  <1>1. PICK n \in 1 .. At(p).out : Take(p, n)
    BY DEF SocketWrite, At
  <1>2. p \in Live /\ UNCHANGED <<at, nextId>> /\ At(p) \in Connection
    BY DEF SocketWrite, FileInv, TypeOK, Live, At
  <1>3. At(p).phase = "answered" /\ At(p).draining
        /\ At(p).written + At(p).out + Left(p) = Headers + At(p).length
    BY <1>1, <1>2 DEF FileInv, TypeOK, Conserved, At, Connection
  <1>6. At(p).written \in Nat /\ At(p).out \in Nat /\ At(p).length \in Int
    BY <1>2 DEF Connection
  <1>4. CASE p \in DOMAIN downloads
    <2>1. PICK left \in Nat : left = downloads[p] /\ Left(p) = left
      BY <1>4 DEF FileInv, TypeOK, Left
    <2>5. Chunk(left) \in Nat
      BY FileAssumption DEF Chunk
    <2> DEFINE c == Written(At(p), n, Chunk(left))
    <2>2. KeepRest(p, left) /\ conn' = [conn EXCEPT ![at[p]] = c]
      BY <1>1, <1>4, <2>1 DEF Take, At
    <2>3. /\ DOMAIN downloads' \subseteq DOMAIN downloads \cup {p}
          /\ \A q \in DOMAIN downloads' : downloads'[q] \in Nat
          /\ \A q \in Pointers \ {p} : Left(q)' = Left(q)
          /\ \A q \in Pointers \ {p} :
                q \in DOMAIN downloads' <=> q \in DOMAIN downloads
          /\ Chunk(left) + Left(p)' = left
          /\ p \in DOMAIN downloads' => Chunk(left) > 0
      BY <2>2, KeepRestLeft DEF FileInv
    <2>4. c \in Connection /\ c.phase = "answered" /\ c.draining
          /\ c.written = At(p).written + n
          /\ c.out = At(p).out - n + Chunk(left) /\ c.length = At(p).length
      BY <1>2, <1>3, <2>5, WrittenRecord
    <2> HIDE DEF c
    <2>10. Left(p)' \in Nat
      BY <2>3 DEF Left
    <2>6. c.written + c.out + Left(p)' = Headers + c.length
      BY <1>3, <1>6, <2>1, <2>3, <2>4, <2>5, <2>10 DEF Headers
    <2>7. p \in DOMAIN downloads' => c.out > 0
      BY <1>6, <2>3, <2>4, <2>5
    <2>8. DOMAIN downloads' \subseteq Pointers
      BY <2>3 DEF FileInv, TypeOK
    <2> QED
      BY <1>2, <2>2, <2>3, <2>4, <2>6, <2>7, <2>8, StepAt
  <1>5. CASE p \notin DOMAIN downloads
    <2> DEFINE c == Written(At(p), n, 0)
    <2>1. UNCHANGED downloads /\ conn' = [conn EXCEPT ![at[p]] = c]
      BY <1>1, <1>5 DEF Take, At
    <2>2. c \in Connection /\ c.phase = "answered" /\ c.draining
          /\ c.written = At(p).written + n
          /\ c.out = At(p).out - n + 0 /\ c.length = At(p).length
      BY <1>2, <1>3, WrittenRecord
    <2> HIDE DEF c
    <2>3. \A q \in Pointers : Left(q)' = Left(q)
      BY <2>1 DEF Left
    <2>4. c.written + c.out + Left(p)' = Headers + c.length
      <3>1. Left(p)' = 0 /\ Left(p) = 0
        BY <1>5, <2>3 DEF Left
      <3> QED  BY <1>3, <1>6, <2>2, <3>1 DEF Headers
    <2>5. DOMAIN downloads' \subseteq Pointers
          /\ \A q \in DOMAIN downloads' : downloads'[q] \in Nat
      BY <2>1 DEF FileInv, TypeOK
    <2> QED
      BY <1>2, <1>5, <2>1, <2>2, <2>3, <2>4, <2>5, StepAt
  <1> QED  BY <1>4, <1>5

LEMMA AcceptInv ==
  ASSUME FileInv, NEW p \in Pointers, NEW allowed \in BOOLEAN,
         Accept(p, allowed)
  PROVE  FileInv'
  <1>3. PICK refused \in BOOLEAN : refused = (~allowed \/ AtMaximum)
    OBVIOUS
  <1>1. PICK c : c = [Unused EXCEPT !.phase = "open", !.closing = refused]
    OBVIOUS
  <1>2. conn' = [conn EXCEPT ![nextId] = c]
    BY <1>1, <1>3 DEF Accept
  <1>12. c = [phase |-> "open", closing |-> refused, draining |-> FALSE,
              out |-> 0, length |-> 0, written |-> 0]
    BY <1>1 DEF Unused
  <1>4. c \in Connection /\ c.phase = "open" /\ ~c.draining
        /\ c.written = 0 /\ c.out = 0
    BY <1>12 DEF Connection, Phase
  <1>5. TypeOK /\ nextId \in Ids /\ nextId \in Nat /\ at[p] = 0
        /\ at' = [at EXCEPT ![p] = nextId] /\ nextId' = nextId + 1
        /\ UNCHANGED downloads
    BY DEF Accept, FileInv, Ids
  <1>6. Live' = Live \cup {p} /\ p \notin Live
    BY <1>5 DEF Live, Ids, TypeOK
  <1>7. /\ At(p)' = c
        /\ \A q \in Live : at[q] # nextId /\ at'[q] = at[q]
        /\ \A q \in Live : At(q)' = At(q)
        /\ \A i \in Ids : conn'[i] = IF i = nextId THEN c ELSE conn[i]
    BY <1>2, <1>5, <1>6 DEF TypeOK, At, Live, Ids
  <1>8. TypeOK'
    <2>1. nextId' \in 1 .. MaxId + 1
      BY <1>5, FileAssumption DEF Ids
    <2>2. at' \in [Pointers -> {0} \cup Ids] /\ conn' \in [Ids -> Connection]
      BY <1>2, <1>4, <1>5 DEF TypeOK
    <2>3. \A q \in Live' : at'[q] < nextId'
                           /\ conn'[at'[q]].phase \in {"open", "silent", "answered"}
      BY <1>4, <1>5, <1>6, <1>7 DEF TypeOK, At, Live, Ids
    <2>4. \A q, r \in Live' : at'[q] = at'[r] => q = r
      BY <1>5, <1>6, <1>7 DEF TypeOK
    <2> QED  BY <1>5, <2>1, <2>2, <2>3, <2>4 DEF TypeOK
  <1>9. DownloadsAreOfLiveConnections'
    BY <1>5, <1>6, <1>7
    DEF FileInv, DownloadsAreOfLiveConnections, TypeOK, Live, At
  <1>10. Conserved'
    <2>1. \A q \in Live : Left(q)' = Left(q)
      BY <1>5 DEF Left
    <2>2. At(p)'.phase = "open" /\ ~At(p)'.draining /\ At(p)'.written = 0
          /\ At(p)'.out = 0
      BY <1>4, <1>7
    <2>3. \A q \in Live : At(q)' = At(q)
      BY <1>7
    <2> QED  BY <1>5, <1>6, <2>1, <2>2, <2>3 DEF FileInv, Conserved
  <1>11. AnsweredIsLive' /\ CompleteBodies'
    BY <1>4, <1>5, <1>7
    DEF FileInv, AnsweredIsLive, CompleteBodies, TypeOK, Ids
  <1> QED  BY <1>8, <1>9, <1>10, <1>11 DEF FileInv

(* A connection that drained has no stream left: everything was written.   *)
LEMMA CloseInv ==
  ASSUME FileInv, NEW p \in Pointers, Close(p)
  PROVE  FileInv'
  <1>1. TypeOK /\ p \in Live /\ at[p] \in Ids /\ UNCHANGED nextId
        /\ at' = [at EXCEPT ![p] = 0] /\ downloads' = Without(p)
    BY DEF Close, CloseTo, FileInv, TypeOK, Live
  <1>2. PICK c : c = [At(p) EXCEPT !.phase =
                         IF Drained(At(p)) THEN "complete" ELSE "broken"]
    OBVIOUS
  <1>3. conn' = [conn EXCEPT ![at[p]] = c] /\ At(p) \in Connection
    BY <1>1, <1>2 DEF Close, CloseTo, At, TypeOK
  <1>4. c \in Connection /\ c.phase \in {"complete", "broken"}
        /\ (c.phase = "complete" => Drained(At(p)))
        /\ c.written = At(p).written /\ c.length = At(p).length
    BY <1>2, <1>3 DEF Connection, Phase
  <1>5. Live' = Live \ {p}
    BY <1>1 DEF Live, TypeOK
  <1>6. /\ \A q \in Live \ {p} : at[q] # at[p] /\ at'[q] = at[q]
        /\ \A q \in Live \ {p} : At(q)' = At(q)
        /\ \A i \in Ids : conn'[i] = IF i = at[p] THEN c ELSE conn[i]
    BY <1>1, <1>3 DEF TypeOK, At, Live
  <1>7. /\ DOMAIN downloads' = DOMAIN downloads \ {p}
        /\ \A q \in DOMAIN downloads' : downloads'[q] \in Nat
        /\ \A q \in Pointers \ {p} : Left(q)' = Left(q)
    BY <1>1, WithoutLeft
  <1>8. TypeOK'
    <2>1. at' \in [Pointers -> {0} \cup Ids] /\ conn' \in [Ids -> Connection]
      BY <1>1, <1>3, <1>4 DEF TypeOK
    <2>2. \A q \in Live' : at'[q] < nextId'
                           /\ conn'[at'[q]].phase \in {"open", "silent", "answered"}
      BY <1>1, <1>5, <1>6 DEF TypeOK, At, Live
    <2>3. \A q, r \in Live' : at'[q] = at'[r] => q = r
      BY <1>1, <1>5, <1>6 DEF TypeOK
    <2> QED  BY <1>1, <1>7, <2>1, <2>2, <2>3 DEF TypeOK
  <1>9. DownloadsAreOfLiveConnections'
    BY <1>1, <1>5, <1>6, <1>7
    DEF FileInv, DownloadsAreOfLiveConnections, TypeOK, Live, At
  <1>10. Conserved'
    BY <1>1, <1>5, <1>6, <1>7 DEF FileInv, Conserved, Live
  <1>11. AnsweredIsLive'
    BY <1>1, <1>4, <1>6 DEF FileInv, AnsweredIsLive, TypeOK
  <1>12. ASSUME Drained(At(p))
         PROVE  At(p).written = Headers + At(p).length
    <2>1. At(p).phase = "answered" /\ At(p).out = 0
      BY <1>1, <1>12 DEF FileInv, Conserved, Drained
    <2>2. p \notin DOMAIN downloads
      BY <1>1, <2>1 DEF FileInv, Conserved
    <2>3. Left(p) = 0
      BY <2>2 DEF Left
    <2>4. At(p).written + At(p).out + Left(p) = Headers + At(p).length
      BY <1>1, <2>1 DEF FileInv, Conserved
    <2>5. At(p).written \in Nat
      BY <1>3 DEF Connection
    <2> QED  BY <2>1, <2>3, <2>4, <2>5
  <1>13. CompleteBodies'
    BY <1>4, <1>6, <1>12 DEF FileInv, CompleteBodies
  <1> QED  BY <1>8, <1>9, <1>10, <1>11, <1>13 DEF FileInv

LEMMA FileInvIsInvariant == Spec => []FileInv
  <1>1. FileInv /\ [Next]_vars => FileInv'
    <2> SUFFICES ASSUME FileInv, [Next]_vars PROVE FileInv'
      OBVIOUS
    <2>1. CASE UNCHANGED vars
      BY <2>1
      DEF vars, FileInv, TypeOK, DownloadsAreOfLiveConnections, Conserved,
          AnsweredIsLive, CompleteBodies, Live, At, Left
    <2> QED
      BY <2>1, AcceptInv, ReplyTextInv, ReplyFileInv, ReplyMissingFileInv,
         SocketWriteInv, PeerClosesInv, CloseInv
      DEF Next
  <1> QED  BY <1>1, InitFileInv, PTL DEF Spec

(* Types of the server's connections and streams.                          *)
THEOREM FileTypeOK == Spec => []TypeOK
  BY FileInvIsInvariant, PTL DEF FileInv

(* m_mFileDownloads has streams of connections that are being answered and *)
(* of no others, however addresses are used again.                         *)
THEOREM FileDownloadsAreOfLiveConnections ==
    Spec => []DownloadsAreOfLiveConnections
  BY FileInvIsInvariant, PTL DEF FileInv

(* A connection the server closes after draining was sent exactly          *)
(* Content-Length bytes of body, for every length of file and of buffer.   *)
THEOREM FileBodyIsComplete == Spec => []BodyIsComplete
  <1>1. FileInv => BodyIsComplete
    <2> SUFFICES ASSUME FileInv, NEW i \in Ids, conn[i].phase = "answered"
                 PROVE  conn[i].written + conn[i].out
                            <= Headers + conn[i].length
      BY DEF FileInv, CompleteBodies, BodyIsComplete
    <2>1. PICK p \in Pointers : at[p] = i
      BY DEF FileInv, AnsweredIsLive
    <2>2. p \in Live /\ At(p) = conn[i] /\ conn[i] \in Connection
      BY <2>1 DEF FileInv, TypeOK, Live, At, Ids
    <2>3. conn[i].written + conn[i].out + Left(p) = Headers + conn[i].length
      BY <2>2 DEF FileInv, Conserved
    <2>4. Left(p) \in Nat
      BY DEF FileInv, TypeOK, Left
    <2> QED  BY <2>2, <2>3, <2>4 DEF Connection, Headers
  <1> QED  BY <1>1, FileInvIsInvariant, PTL

-----------------------------------------------------------------------------
Served == {p \in Live : ~conn[at[p]].closing}

LEMMA ServedIsFinite == IsFiniteSet(Live) /\ IsFiniteSet(Served)
  BY FileAssumption, FS_Subset DEF Live, Served

(* A step that serves nobody new keeps the limit.                          *)
LEMMA FewerServed ==
  ASSUME ServedWithinLimit, Served' \subseteq Served
  PROVE  ServedWithinLimit'
  <1>1. Cardinality(Served') <= Cardinality(Served)
        /\ Cardinality(Served') \in Nat /\ Cardinality(Served) \in Nat
    BY ServedIsFinite, FS_Subset, FS_CardinalityType
  <1> QED
    BY <1>1, FileAssumption DEF ServedWithinLimit, Served, OwnConnections

(* Accepting serves one more only when it, the others that are open and    *)
(* the server's own connections are within the limit.                      *)
LEMMA AcceptWithinLimit ==
  ASSUME FileInv, ServedWithinLimit, NEW p \in Pointers,
         NEW allowed \in BOOLEAN, Accept(p, allowed)
  PROVE  ServedWithinLimit'
  <1>1. TypeOK /\ nextId \in Ids /\ nextId \in Nat /\ at[p] = 0
        /\ at' = [at EXCEPT ![p] = nextId]
    BY DEF Accept, FileInv, Ids
  <1>2. Live' = Live \cup {p} /\ p \notin Live
    BY <1>1 DEF Live, Ids, TypeOK
  <1>3. \A q \in Live : at'[q] = at[q] /\ conn'[at'[q]] = conn[at[q]]
    BY <1>1, <1>2 DEF Accept, TypeOK, Live
  <1>4. conn'[at'[p]].closing = (~allowed \/ AtMaximum)
    BY <1>1 DEF Accept, TypeOK, Unused
  <1>5. CASE ~allowed \/ AtMaximum
    <2>1. Served' \subseteq Served
      BY <1>2, <1>3, <1>4, <1>5 DEF Served
    <2> QED  BY <2>1, FewerServed
  <1>6. CASE ~AtMaximum
    <2>1. Cardinality(Live') = Cardinality(Live) + 1 /\ IsFiniteSet(Live')
      BY <1>2, ServedIsFinite, FS_AddElement
    <2>2. Served' \subseteq Live'
      BY DEF Served
    <2>3. Cardinality(Served') <= Cardinality(Live')
          /\ Cardinality(Served') \in Nat /\ Cardinality(Live) \in Nat
      BY <2>1, <2>2, ServedIsFinite, FS_Subset, FS_CardinalityType
    <2> QED
      BY <1>6, <2>1, <2>3, FileAssumption
      DEF AtMaximum, ServedWithinLimit, Served, OwnConnections
  <1> QED  BY <1>5, <1>6

(* The connections that are served, with the listener and the wakeup pipe, *)
(* never exceed the limit that was set.                                    *)
THEOREM FileServedWithinLimit == Spec => []ServedWithinLimit
  <1>1. Init => ServedWithinLimit
    BY DEF Init, ServedWithinLimit, Live
  <1>2. FileInv /\ ServedWithinLimit /\ [Next]_vars => ServedWithinLimit'
    <2> SUFFICES ASSUME FileInv, ServedWithinLimit, [Next]_vars
                 PROVE  ServedWithinLimit'
      OBVIOUS
    <2>1. CASE UNCHANGED vars
      BY <2>1 DEF vars, ServedWithinLimit, Live
    <2>2. ASSUME NEW p \in Pointers, UNCHANGED at, p \in Live, NEW c,
                 conn' = [conn EXCEPT ![at[p]] = c],
                 c.closing \/ c.closing = At(p).closing
          PROVE  ServedWithinLimit'
      <3>1. Served' \subseteq Served
        BY <2>2 DEF FileInv, TypeOK, Served, Live, At
      <3> QED  BY <3>1, FewerServed
    <2>3. ASSUME NEW p \in Pointers, NEW size \in Sizes, ReplyText(p, size)
          PROVE  ServedWithinLimit'
      <3>1. p \in Live /\ At(p) \in Connection /\ size \in Nat
        BY <2>3, RequestingIsFresh, FileAssumption DEF ReplyText
      <3>2. conn' = [conn EXCEPT ![at[p]] = Answered(At(p), size, size)]
            /\ UNCHANGED at
        BY <2>3 DEF ReplyText, At
      <3>3. Answered(At(p), size, size).closing = At(p).closing
        BY <3>1, AnsweredRecord
      <3> QED  BY <2>2, <3>1, <3>2, <3>3
    <2>4. ASSUME NEW p \in Pointers, NEW size \in Sizes, ReplyFile(p, size)
          PROVE  ServedWithinLimit'
      <3>1. p \in Live /\ At(p) \in Connection /\ p \notin DOMAIN downloads
            /\ size \in Nat /\ Chunk(size) \in Nat
        BY <2>4, RequestingIsFresh, FileAssumption DEF ReplyFile, Chunk
      <3>2. conn' = [conn EXCEPT ![at[p]] =
                        Answered(At(p), size, Chunk(size))]
            /\ UNCHANGED at
        BY <2>4, <3>1 DEF ReplyFile, At
      <3>3. Answered(At(p), size, Chunk(size)).closing = At(p).closing
        BY <3>1, AnsweredRecord
      <3> QED  BY <2>2, <3>1, <3>2, <3>3
    <2>5. ASSUME NEW p \in Pointers, ReplyMissingFile(p)
          PROVE  ServedWithinLimit'
      <3>1. p \in Live /\ At(p) \in Connection
        BY <2>5, RequestingIsFresh DEF ReplyMissingFile
      <3>2. PICK c : c = [At(p) EXCEPT !.phase = "silent"]
        OBVIOUS
      <3>3. conn' = [conn EXCEPT ![at[p]] = c] /\ c.closing = At(p).closing
        BY <2>5, <3>1, <3>2 DEF ReplyMissingFile, At, Connection
      <3> QED  BY <2>2, <2>5, <3>1, <3>3 DEF ReplyMissingFile
    <2>6. ASSUME NEW p \in Pointers, SocketWrite(p)
          PROVE  ServedWithinLimit'
      <3>1. PICK n \in 1 .. At(p).out : Take(p, n)
        BY <2>6 DEF SocketWrite, At
      <3>2. PICK bytes \in Nat :
               conn' = [conn EXCEPT ![at[p]] = Written(At(p), n, bytes)]
        <4>1. CASE p \in DOMAIN downloads
          <5>1. Chunk(downloads[p]) \in Nat
            BY <4>1, FileAssumption DEF FileInv, TypeOK, Chunk
          <5> QED  BY <3>1, <4>1, <5>1 DEF Take, At
        <4>2. CASE p \notin DOMAIN downloads
          BY <3>1, <4>2 DEF Take, At
        <4> QED  BY <4>1, <4>2
      <3>3. p \in Live /\ At(p) \in Connection
        BY <2>6 DEF SocketWrite, FileInv, TypeOK, Live, At
      <3> QED
        BY <2>2, <2>6, <3>1, <3>2, <3>3, WrittenRecord DEF SocketWrite
    <2>7. ASSUME NEW p \in Pointers, PeerCloses(p)
          PROVE  ServedWithinLimit'
      <3>1. p \in Live /\ At(p) \in Connection
        BY <2>7 DEF PeerCloses, FileInv, TypeOK, Live, At
      <3>2. PICK c : c = [At(p) EXCEPT !.closing = TRUE]
        OBVIOUS
      <3>3. conn' = [conn EXCEPT ![at[p]] = c] /\ c.closing
        BY <2>7, <3>1, <3>2 DEF PeerCloses, At, Connection
      <3> QED  BY <2>2, <2>7, <3>1, <3>3 DEF PeerCloses
    <2>8. ASSUME NEW p \in Pointers, Close(p)
          PROVE  ServedWithinLimit'
      <3>1. Live' = Live \ {p}
        BY <2>8 DEF Close, CloseTo, FileInv, TypeOK, Live
      <3>2. \A q \in Live' : at'[q] = at[q] /\ conn'[at[q]] = conn[at[q]]
        BY <2>8, <3>1 DEF Close, CloseTo, FileInv, TypeOK, Live
      <3>3. Served' \subseteq Served
        BY <3>1, <3>2 DEF Served
      <3> QED  BY <3>3, FewerServed
    <2> QED
      BY <2>1, <2>3, <2>4, <2>5, <2>6, <2>7, <2>8, AcceptWithinLimit DEF Next
  <1> QED  BY <1>1, <1>2, FileInvIsInvariant, PTL DEF Spec

=============================================================================
