----------------------------- MODULE HttpClient -----------------------------
(***************************************************************************)
(* One Run of HttpClientImpl: the retry loop over redirects, DoLoop around *)
(* mg_mgr_poll with its two timeouts, the event handlers that send the     *)
(* request and the body, the CONNECT tunnel of a proxy, and Cancel, which  *)
(* another thread calls.                                                   *)
(*                                                                         *)
(* Run and the handlers share one thread. A poll of the one connection     *)
(* calls at most one handler that does something: a reply marks the        *)
(* connection as closing, and the write behind it is then ignored.         *)
(* m_eStatus is atomic; Cancel writes it, and then the response code,      *)
(* between any two steps of that thread.                                   *)
(* Lengths are in units: 1 for the header of a part, the line end behind   *)
(* it and the last boundary.                                               *)
(***************************************************************************)
EXTENDS Integers, Sequences

CONSTANTS
    Setups,        \* what clients are set up with before Run:
                   \* parts (m_vPostData, a sequence of [file, size]),
                   \* proxyIsTls (the proxy's own url is https) and
                   \* processLimit (processTimeout is not 0)
    Chunk,         \* the buffer of SendFile (61440 in the code)
    HeaderLength,  \* of the request's headers
    MaxRedirects,  \* kMaxRedirects
    Proxies,       \* may a hop need the proxy? a subset of BOOLEAN
    Tls,           \* may a hop's target be https? a subset of BOOLEAN
    FileErrors,    \* may a file fail to open?
    PeerCloses,    \* may the peer close without a reply?
    Cancels        \* does another thread call Cancel?

ASSUME ClientAssumption ==
    /\ \A s \in Setups :
         /\ s.proxyIsTls \in BOOLEAN /\ s.processLimit \in BOOLEAN
         /\ s.parts \in Seq([file : BOOLEAN, size : Nat])
    /\ Chunk \in Nat \ {0} /\ HeaderLength \in Nat \ {0} /\ MaxRedirects \in Nat
    /\ Proxies \subseteq BOOLEAN /\ Tls \subseteq BOOLEAN
    /\ FileErrors \in BOOLEAN /\ PeerCloses \in BOOLEAN /\ Cancels \in BOOLEAN

VARIABLES
    setup,       \* the client's own, see Setups
    pc,          \* Run: "reset", "connect", "loop", "polled", "after", "done"
    status,      \* m_eStatus
    code,        \* m_response.nHttpCode, by kind
    redirects,   \* m_nRedirects
    conn,        \* the connection: "none", "opening", "open", "closing", "lost"
    proxyState,  \* m_proxyState
    viaProxy,    \* m_bUseProxy
    tls,         \* the target of this hop is https
    late,        \* the timeouts that have passed since DoLoop began
    length,      \* m_nContentLength
    uploaded,    \* m_nBytesSent
    part,        \* m_nPostPart, counted from 1
    file,        \* what is left to read of m_ifs, or Closed
    pending,     \* what Mongoose has still to write to the socket
    headers,     \* history: the origin's headers have been sent on this hop
    handed,      \* history: body handed to mg_send on this hop
    hops,        \* history: connections made by this Run
    unreadable,  \* history: a file could not be opened
    canceller,   \* Cancel: "no", "status" written, "code" written
    overdue,     \* history: processTimeout has passed since Run began
    returned     \* history: the code that Run returned

vars == <<setup, pc, status, code, redirects, conn, proxyState, viaProxy,
          tls, late, length, uploaded, part, file, pending, headers, handed, hops,
          unreadable, canceller, overdue, returned>>

hopVars == <<redirects, viaProxy, tls, hops>>
bodyVars == <<length, uploaded, part, file, pending, headers, handed,
              unreadable>>
outside == <<setup, canceller, overdue, returned>>

Closed == -1
Parts == setup.parts
ProxyIsTls == setup.proxyIsTls
ProcessLimit == setup.processLimit
Single == Len(Parts) = 1
SizeOf(k) == Parts[k].size

(* The loop of ComputeAndCacheContentLength: the first k parts, each with  *)
(* its header and its line end.                                            *)
LengthUpTo(parts) ==
    LET f[k \in 0 .. Len(parts)] ==
            IF k = 0 THEN 0 ELSE f[k - 1] + 2 + parts[k].size
    IN f

(* A faulty ContentLength: without the last boundary.                      *)
LengthOfParts == IF Single THEN SizeOf(1) ELSE LengthUpTo(Parts)[Len(Parts)]

(* ComputeAndCacheContentLength.                                           *)
ContentLength ==
    CASE Len(Parts) = 0 -> 0
      [] Single -> SizeOf(1)
      [] OTHER -> LengthUpTo(Parts)[Len(Parts)] + 1

Init ==
    /\ setup \in Setups
    /\ pc = "reset" /\ status = "connecting" /\ code = "none"
    /\ redirects = 0 /\ conn = "none" /\ proxyState = "none"
    /\ viaProxy = FALSE /\ tls = FALSE /\ late = {}
    /\ length = 0 /\ uploaded = 0 /\ part = 1 /\ file = Closed
    /\ pending = 0 /\ headers = FALSE /\ handed = 0
    /\ hops = 0 /\ unreadable = FALSE
    /\ canceller = "no" /\ overdue = FALSE /\ returned = "none"

-----------------------------------------------------------------------------
(* Run: ResetConnectionState.                                              *)
Reset ==
    /\ pc = "reset"
    /\ status' = "connecting" /\ code' = "none" /\ proxyState' = "none"
    /\ length' = 0 /\ uploaded' = 0 /\ part' = 1 /\ file' = Closed
    /\ pending' = 0 /\ headers' = FALSE /\ handed' = 0
    /\ pc' = "connect"
    /\ UNCHANGED <<conn, late, hopVars, unreadable, outside>>

Return(c) == pc' = "done" /\ returned' = c

(* is_proxy_needed, mg_http_connect and the first test of DoLoop. TLS      *)
(* inside TLS is refused, and Mongoose may be unable to create the         *)
(* connection.                                                             *)
Connect ==
    /\ pc = "connect"
    /\ \E via \in Proxies, https \in Tls :
         /\ viaProxy' = via /\ tls' = https
         /\ \/ /\ via /\ ProxyIsTls /\ https
               /\ status' = "complete" /\ code' = "errConnection"
               /\ Return("errConnection")
               /\ UNCHANGED <<conn, late, hops>>
            \/ /\ ~(via /\ ProxyIsTls /\ https)
               /\ code' = "errSetup"
               /\ Return("errSetup")
               /\ UNCHANGED <<status, conn, late, hops>>
            \/ /\ ~(via /\ ProxyIsTls /\ https)
               /\ conn' = "opening"
               /\ late' = {}
               /\ hops' = hops + 1
               /\ pc' = IF status = "complete" THEN "after" ELSE "loop"
               /\ UNCHANGED <<status, code, returned>>
    /\ UNCHANGED <<setup, redirects, proxyState, bodyVars, canceller, overdue>>

(* DoLoop: a poll in which nothing happens, and the tests after each poll. *)
IdlePoll ==
    /\ pc = "loop"
    /\ pc' = "polled"
    /\ UNCHANGED <<status, code, conn, proxyState, late, hopVars, bodyVars,
                   outside>>

(* A faulty TimedOut: only for the connection.                             *)
ConnectionTimedOut == status = "connecting" /\ "connection" \in late

TimedOut ==
    \/ status = "connecting" /\ "connection" \in late
    \/ status # "connecting" /\ ProcessLimit /\ "process" \in late

DoLoop ==
    /\ pc = "polled"
    /\ pc' = IF TimedOut \/ status \in {"redirecting", "complete"}
             THEN "after" ELSE "loop"
    /\ UNCHANGED <<status, code, conn, proxyState, late, hopVars, bodyVars,
                   outside>>

(* A faulty AfterLoop: one redirect more.                                  *)
Ends(c) == status' = "complete" /\ code' = c /\ Return(c) /\ UNCHANGED redirects

RedirectOnceMore ==
    /\ pc = "after"
    /\ conn' = "none"
    /\ \/ /\ status = "redirecting" /\ redirects <= MaxRedirects
          /\ redirects' = redirects + 1
          /\ status' = "connecting"
          /\ pc' = "reset"
          /\ UNCHANGED <<code, returned>>
       \/ status = "redirecting" /\ redirects > MaxRedirects /\ Ends("errReply")
       \/ status = "complete" /\ Ends(code)
       \/ status \notin {"redirecting", "complete"} /\ Ends("errTime")
    /\ UNCHANGED <<setup, proxyState, viaProxy, tls, late, hops, bodyVars,
                   canceller, overdue>>

(* Run: what became of the hop; mg_mgr_free closes the connection.         *)
AfterLoop ==
    /\ pc = "after"
    /\ conn' = "none"
    /\ \/ /\ status = "redirecting" /\ redirects < MaxRedirects
          /\ redirects' = redirects + 1
          /\ status' = "connecting"
          /\ pc' = "reset"
          /\ UNCHANGED <<code, returned>>
       \/ /\ status = "redirecting" /\ redirects >= MaxRedirects
          /\ status' = "complete" /\ code' = "errReply"
          /\ Return("errReply")
          /\ UNCHANGED redirects
       \/ /\ status = "complete"
          /\ Return(code)
          /\ UNCHANGED <<status, code, redirects>>
       \/ /\ status \notin {"redirecting", "complete"}
          /\ code' = "errTime"
          /\ Return("errTime")
          /\ UNCHANGED <<status, redirects>>
    /\ UNCHANGED <<setup, proxyState, viaProxy, tls, late, hops, bodyVars,
                   canceller, overdue>>

-----------------------------------------------------------------------------
(* The handlers. SendRequestHeaders measures the files on the way, and one *)
(* that cannot be opened completes the run.                                *)
Event == pc = "loop" /\ pc' = "polled"

(* A faulty SendRequestHeaders: goes on with a file it cannot read.        *)
SendHeadersAnyway(reached) ==
    /\ headers' = TRUE
    /\ pending' = pending + HeaderLength
    /\ length' = ContentLength
    /\ status' = reached
    /\ unreadable' = (FileErrors /\ \E k \in 1 .. Len(Parts) : Parts[k].file)
    /\ code' = IF unreadable' THEN "errFile" ELSE code
    /\ UNCHANGED <<uploaded, part, file, handed>>

SendRequestHeaders(reached) ==
    /\ headers' = TRUE
    /\ pending' = pending + HeaderLength
    /\ \/ /\ length' = ContentLength
          /\ status' = reached
          /\ UNCHANGED <<code, unreadable>>
       \/ /\ FileErrors /\ \E k \in 1 .. Len(Parts) : Parts[k].file
          /\ \E k \in {j \in 1 .. Len(Parts) : Parts[j].file} :
                length' = ContentLength - SizeOf(k)
          /\ status' = "complete" /\ code' = "errFile"
          /\ unreadable' = TRUE
    /\ UNCHANGED <<uploaded, part, file, handed>>

(* MG_EV_CONNECT, to the target or to a proxy for an http target.          *)
HandleConnectEventDirect ==
    /\ Event
    /\ conn = "opening" /\ ~(viaProxy /\ tls)
    /\ conn' = "open"
    /\ proxyState' = IF viaProxy THEN "ready" ELSE proxyState
    /\ SendRequestHeaders("connected")
    /\ UNCHANGED <<late, hopVars, outside>>

(* ... to a proxy for an https target: CONNECT first.                      *)
HandleConnectEventToProxy ==
    /\ Event
    /\ conn = "opening" /\ viaProxy /\ tls
    /\ conn' = "open"
    /\ status' = "connected"
    /\ proxyState' = "awaitingConnect"
    /\ pending' = HeaderLength
    /\ UNCHANGED <<code, late, hopVars, length, uploaded, part, file, headers,
                   handed, unreadable, outside>>

(* MG_EV_HTTP_HDRS with a 2xx from the proxy, then MG_EV_TLS_HS.           *)
HandleHttpHeaders ==
    /\ Event
    /\ conn = "open" /\ proxyState = "awaitingConnect" /\ pending = 0
    /\ proxyState' = "awaitingTls"
    /\ UNCHANGED <<status, code, conn, late, hopVars, bodyVars, outside>>

HandleTlsHandshakeEvent ==
    /\ Event
    /\ conn = "open" /\ proxyState = "awaitingTls"
    /\ proxyState' = "ready"
    /\ SendRequestHeaders(status)
    /\ UNCHANGED <<conn, late, hopVars, outside>>

(* MG_EV_HTTP_MSG with a final status line, from the proxy that refuses or *)
(* from the origin, once it has seen the headers.                          *)
HandleMessageEvent(kind) ==
    /\ Event
    /\ conn = "open"
    /\ \/ proxyState = "awaitingConnect"
       \/ headers /\ status # "connected"
    /\ code' = IF kind = "malformed" THEN "errReply" ELSE "reply"
    /\ status' = IF kind = "redirect" /\ proxyState # "awaitingConnect"
                 THEN "redirecting" ELSE "complete"
    /\ conn' = "closing"
    /\ UNCHANGED <<proxyState, late, hopVars, bodyVars, outside>>

(* MG_EV_ERROR: no connection, or no TLS.                                  *)
HandleErrorEvent ==
    /\ Event
    /\ conn = "opening" \/ (conn = "open" /\ (tls \/ (viaProxy /\ ProxyIsTls)))
    /\ code' = "errConnection"
    /\ status' = "complete"
    /\ conn' = "closing"
    /\ UNCHANGED <<proxyState, late, hopVars, bodyVars, outside>>

(* The peer closes or resets the connection: Mongoose sends MG_EV_CLOSE    *)
(* and no MG_EV_ERROR, and evt_handler has no case for it.                 *)
PeerClose ==
    /\ PeerCloses
    /\ Event
    /\ conn = "open"
    /\ conn' = "lost"
    /\ UNCHANGED <<status, code, proxyState, late, hopVars, bodyVars, outside>>

-----------------------------------------------------------------------------
CannotOpen ==
    /\ FileErrors
    /\ unreadable' = TRUE
    /\ code' = "errFile"
    /\ file' = Closed

(* SendFile: min(Chunk, rest) units, and the end of file is seen only by a *)
(* read that asks for more than there is.                                  *)
AtEnd(rest) == rest < Chunk
Read(rest) == IF AtEnd(rest) THEN rest ELSE Chunk
RestOf(rest) == IF AtEnd(rest) THEN Closed ELSE rest - Chunk

HandleSimpleWrote(n) ==
    LET first == status = "connected"
        rest == IF first THEN SizeOf(1) ELSE file
    IN /\ Single
       /\ \/ /\ ~Parts[1].file
             /\ handed' = IF first THEN handed + SizeOf(1) ELSE handed
             /\ pending' = pending - n + (handed' - handed)
             /\ UNCHANGED <<file, code, unreadable>>
          \/ /\ Parts[1].file /\ rest # Closed
             /\ handed' = handed + Read(rest)
             /\ pending' = pending - n + Read(rest)
             /\ file' = RestOf(rest)
             /\ UNCHANGED <<code, unreadable>>
          \/ /\ Parts[1].file /\ rest = Closed
             /\ pending' = pending - n
             /\ UNCHANGED <<handed, file, code, unreadable>>
          \/ /\ Parts[1].file /\ first /\ CannotOpen
             /\ pending' = pending - n
             /\ UNCHANGED handed
       /\ status' = "sending"
       /\ UNCHANGED part

(* What one call sends: the header of a part that is begun, text or a      *)
(* piece of a file, the line end of a part that is finished, and the last  *)
(* boundary after the last part.                                           *)
SendPiece(n, units, rest, finished) ==
    LET last == finished /\ part = Len(Parts)
        sent == units + (IF finished THEN 1 ELSE 0) + (IF last THEN 1 ELSE 0)
    IN /\ handed' = handed + sent
       /\ pending' = pending - n + sent
       /\ file' = rest
       /\ part' = IF finished THEN part + 1 ELSE part
       /\ status' = "sending"
       /\ UNCHANGED <<code, unreadable>>

HandleMultipartWrote(n) ==
    /\ ~Single
    /\ \/ /\ part > Len(Parts)
          /\ pending' = pending - n
          /\ status' = "sending"
          /\ UNCHANGED <<handed, file, part, code, unreadable>>
       \/ /\ part <= Len(Parts) /\ file = Closed /\ ~Parts[part].file
          /\ SendPiece(n, 1 + SizeOf(part), Closed, TRUE)
       \/ /\ part <= Len(Parts) /\ file = Closed /\ Parts[part].file
          /\ SendPiece(n, 1 + Read(SizeOf(part)), RestOf(SizeOf(part)),
                       AtEnd(SizeOf(part)))
       \/ /\ part <= Len(Parts) /\ file = Closed /\ Parts[part].file
          /\ CannotOpen
          /\ handed' = handed + 1
          /\ pending' = pending - n + 1
          /\ status' = "complete"
          /\ UNCHANGED part
       \/ /\ part <= Len(Parts) /\ file # Closed
          /\ SendPiece(n, Read(file), RestOf(file), AtEnd(file))

(* A faulty HandleWroteEvent: no test of m_proxyState.                     *)
WroteToAnyone(n) ==
    /\ Event
    /\ conn = "open" /\ n <= pending /\ status # "complete"
    /\ uploaded' = IF status # "connected" THEN uploaded + n ELSE uploaded
    /\ HandleSimpleWrote(n) \/ HandleMultipartWrote(n)
    /\ UNCHANGED <<conn, proxyState, late, hopVars, length, headers, outside>>

HandleWroteEvent(n) ==
    /\ Event
    /\ conn = "open" /\ n <= pending
    /\ IF status = "complete" \/ proxyState \in {"awaitingConnect", "awaitingTls"}
       THEN /\ pending' = pending - n
            /\ UNCHANGED <<uploaded, handed, file, part, status, code, unreadable>>
       ELSE /\ uploaded' = IF status # "connected" THEN uploaded + n ELSE uploaded
            /\ HandleSimpleWrote(n) \/ HandleMultipartWrote(n)
    /\ UNCHANGED <<conn, proxyState, late, hopVars, length, headers, outside>>

-----------------------------------------------------------------------------
(* Another thread: Cancel, one write after the other.                      *)
Cancel ==
    /\ Cancels
    /\ \/ /\ canceller = "no" /\ pc # "done"
          /\ status' = "complete"
          /\ canceller' = "status"
          /\ UNCHANGED code
       \/ /\ canceller = "status"
          /\ code' = "cancelled"
          /\ canceller' = "code"
          /\ UNCHANGED status
    /\ UNCHANGED <<setup, pc, conn, proxyState, late, hopVars, bodyVars,
                   overdue, returned>>

(* Time passes: no timeout of a hop is longer ago than that of the Run.    *)
Tick ==
    /\ pc \in {"loop", "polled"}
    /\ \/ "connection" \notin late /\ late' = late \cup {"connection"}
          /\ UNCHANGED overdue
       \/ ~overdue /\ overdue' = TRUE
          /\ UNCHANGED late
       \/ overdue /\ "process" \notin late /\ late' = late \cup {"process"}
          /\ UNCHANGED overdue
    /\ UNCHANGED <<setup, pc, status, code, conn, proxyState, hopVars,
                   bodyVars, canceller, returned>>

Replies == {"final", "redirect", "malformed"}
MaxUnits == HeaderLength + ContentLength

Handlers ==
    \/ HandleConnectEventDirect \/ HandleConnectEventToProxy
    \/ HandleHttpHeaders \/ HandleTlsHandshakeEvent \/ HandleErrorEvent
    \/ \E kind \in Replies : HandleMessageEvent(kind)
    \/ \E n \in 1 .. MaxUnits : HandleWroteEvent(n)
    \/ PeerClose

Run == Reset \/ Connect \/ IdlePoll \/ DoLoop \/ AfterLoop

Next == Run \/ Handlers \/ Cancel \/ Tick

(* The thread of Run goes on and time passes; nothing is assumed of the    *)
(* network.                                                                *)
Fairness == WF_vars(Run \/ Handlers) /\ WF_vars(Tick)

Spec == Init /\ [][Next]_vars /\ Fairness

-----------------------------------------------------------------------------
Code == {"none", "reply", "errSetup", "errConnection", "errTime", "errReply",
         "errFile", "cancelled"}

(* Types. However the server redirects, a Run makes at most one connection *)
(* more than the redirects it allows.                                      *)
TypeOK ==
    /\ setup \in Setups
    /\ pc \in {"reset", "connect", "loop", "polled", "after", "done"}
    /\ status \in {"connecting", "connected", "sending", "complete",
                   "redirecting"}
    /\ code \in Code /\ returned \in Code
    /\ redirects \in 0 .. MaxRedirects
    /\ conn \in {"none", "opening", "open", "closing", "lost"}
    /\ proxyState \in {"none", "awaitingConnect", "awaitingTls", "ready"}
    /\ viaProxy \in BOOLEAN /\ tls \in BOOLEAN
    /\ late \subseteq {"connection", "process"}
    /\ length \in 0 .. ContentLength
    /\ uploaded \in Nat /\ pending \in Nat /\ handed \in Nat
    /\ hops \in 0 .. MaxRedirects + 1
    /\ part \in 1 .. Len(Parts) + 1
    /\ file \in Nat \cup {Closed}
    /\ headers \in BOOLEAN /\ unreadable \in BOOLEAN /\ overdue \in BOOLEAN
    /\ canceller \in {"no", "status", "code"}

(* The body is exactly as long as the Content-Length that the headers      *)
(* promised: never longer, and no shorter once the last piece is sent;     *)
(* whatever the files' sizes are against the buffer of SendFile, and on    *)
(* every hop of a redirected request.                                      *)
BodyIsSent ==
    /\ headers /\ status = "sending"
    /\ IF Single THEN file = Closed ELSE part > Len(Parts)

BodyIsContentLength ==
    ~unreadable =>
        /\ handed <= length
        /\ BodyIsSent => handed = length

(* No body before the headers of its request, and nothing of a request for *)
(* an https target on a proxy's connection before the tunnel is encrypted. *)
TunnelFirst ==
    /\ handed > 0 => headers
    /\ viaProxy /\ tls /\ headers => proxyState = "ready"

(* README: nHttpCode may be ERROR_FILE_READ; a file among several parts    *)
(* that cannot be read, when it is measured or when it is sent, is what    *)
(* Run reports, whatever else happens to the connection.                   *)
UnreadableIsReported ==
    pc = "done" /\ unreadable /\ ~Single /\ canceller = "no"
        => returned = "errFile"

(* Run returns, whatever the peers do, when there is a process timeout.    *)
RunReturns == ProcessLimit => <>(pc = "done")
=============================================================================
