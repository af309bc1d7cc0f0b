--------------------------- MODULE HttpClientProofs ---------------------------
(***************************************************************************)
(* Proofs about HttpClient, for any clients, buffer, number of redirects   *)
(* and mixture of proxies and TLS, with and without Cancel: nothing of a   *)
(* request leaves before the tunnel is there, a file that cannot be read   *)
(* is reported, redirects end, and the body is as long as Content-Length.  *)
(***************************************************************************)
EXTENDS HttpClient, FiniteSetTheorems, TLAPS

(* Run: a hop has its connection from Connect until AfterLoop.             *)
HopInv ==
    /\ pc \in {"reset", "connect", "loop", "polled", "after", "done"}
    /\ pc \in {"reset", "connect"} => conn = "none"
    /\ pc = "connect" => ~headers /\ proxyState = "none"

(* While a hop's connection is open, its headers have been sent unless an  *)
(* answer of the proxy is awaited.                                         *)
HeadersInv ==
    /\ conn = "opening" => ~headers /\ proxyState = "none"
    /\ proxyState \in {"awaitingConnect", "awaitingTls"} => ~headers
    /\ conn = "open" /\ proxyState \notin {"awaitingConnect", "awaitingTls"}
         => headers

(* A part that cannot be read has completed the run, whose next step is to *)
(* leave the loop: no handler comes in between to overwrite the code.      *)
ReportInv ==
    unreadable /\ ~Single /\ canceller = "no" =>
        /\ pc \in {"polled", "after", "done"}
        /\ status = "complete" /\ code = "errFile"
        /\ pc = "done" => returned = "errFile"

(* One connection for each redirect that was followed, and one more.       *)
HopsInv ==
    /\ redirects \in 0 .. MaxRedirects
    /\ hops \in Nat
    /\ pc \in {"reset", "connect"} => hops <= redirects
    /\ hops <= redirects + 1

HttpInv == HopInv /\ HeadersInv /\ TunnelFirst /\ ReportInv /\ HopsInv

LEMMA InitHttpInv == Init => HttpInv
  BY ClientAssumption
     DEF Init, HttpInv, HopInv, HeadersInv, TunnelFirst, ReportInv, HopsInv

-----------------------------------------------------------------------------
(* The steps of Run.                                                       *)
LEMMA ResetInv == ASSUME HttpInv, Reset PROVE HttpInv'
  <1>1. HopInv' /\ HeadersInv' /\ TunnelFirst'
    BY DEF HttpInv, HopInv, HeadersInv, TunnelFirst, Reset, hopVars, outside
  <1>2. ReportInv'
    BY DEF HttpInv, ReportInv, Reset, outside, Single, Parts
  <1>3. HopsInv'
    BY DEF HttpInv, HopsInv, Reset, hopVars
  <1> QED  BY <1>1, <1>2, <1>3 DEF HttpInv

LEMMA ConnectInv == ASSUME HttpInv, Connect PROVE HttpInv'
  <1>1. HopInv' /\ HeadersInv' /\ TunnelFirst'
    BY DEF HttpInv, HopInv, HeadersInv, TunnelFirst, Connect, Return, bodyVars
  <1>2. ReportInv'
    BY DEF HttpInv, ReportInv, Connect, bodyVars, Single, Parts
  <1>3. HopsInv'
    BY ClientAssumption DEF HttpInv, HopsInv, Connect, Return
  <1> QED  BY <1>1, <1>2, <1>3 DEF HttpInv

LEMMA AfterLoopInv == ASSUME HttpInv, AfterLoop PROVE HttpInv'
  <1>1. HopInv' /\ HeadersInv' /\ TunnelFirst'
    BY DEF HttpInv, HopInv, HeadersInv, TunnelFirst, AfterLoop, Return, bodyVars
  <1>2. ReportInv'
    BY DEF HttpInv, ReportInv, AfterLoop, Return, bodyVars, Single, Parts
  <1>3. HopsInv'
    BY ClientAssumption DEF HttpInv, HopsInv, AfterLoop, Return
  <1> QED  BY <1>1, <1>2, <1>3 DEF HttpInv

LEMMA PollInv == ASSUME HttpInv, IdlePoll \/ DoLoop PROVE HttpInv'
  <1>1. HopInv' /\ HeadersInv' /\ TunnelFirst'
    BY DEF HttpInv, HopInv, HeadersInv, TunnelFirst, IdlePoll, DoLoop,
           hopVars, bodyVars
  <1>2. ReportInv'
    BY DEF HttpInv, ReportInv, IdlePoll, DoLoop, bodyVars, outside, Single, Parts
  <1>3. HopsInv'
    BY DEF HttpInv, HopsInv, IdlePoll, DoLoop, hopVars
  <1> QED  BY <1>1, <1>2, <1>3 DEF HttpInv

-----------------------------------------------------------------------------
(* The handlers run in the loop, where no file has failed yet.             *)
LEMMA ReadableInLoop ==
  ASSUME HttpInv, Event, UNCHANGED <<outside, hopVars>>,
         unreadable' = unreadable
           \/ (unreadable' /\ status' = "complete" /\ code' = "errFile")
           \/ Single
  PROVE  ReportInv' /\ HopsInv'
  <1>1. ReportInv'
    BY DEF HttpInv, ReportInv, Event, outside, Single, Parts
  <1>2. HopsInv'
    BY DEF HttpInv, HopsInv, Event, hopVars
  <1> QED  BY <1>1, <1>2

(* Handlers that send no headers and no body.                              *)
LEMMA QuietHandlerInv ==
  ASSUME HttpInv,
         \/ HandleHttpHeaders \/ HandleErrorEvent \/ PeerClose
         \/ \E kind \in Replies : HandleMessageEvent(kind)
  PROVE  HttpInv'
  <1>1. HopInv' /\ HeadersInv' /\ TunnelFirst'
    BY DEF HttpInv, HopInv, HeadersInv, TunnelFirst, HandleHttpHeaders,
           HandleErrorEvent, PeerClose, HandleMessageEvent, Event, hopVars,
           bodyVars
  <1>2. Event /\ UNCHANGED <<outside, hopVars>> /\ unreadable' = unreadable
    BY DEF HandleHttpHeaders, HandleErrorEvent, PeerClose, HandleMessageEvent,
           bodyVars
  <1>3. ReportInv' /\ HopsInv'
    BY <1>2, ReadableInLoop
  <1> QED  BY <1>1, <1>3 DEF HttpInv

(* Handlers that send the headers of a request, or CONNECT.                *)
LEMMA HeadersHandlerInv ==
  ASSUME HttpInv,
         \/ HandleConnectEventDirect \/ HandleConnectEventToProxy
         \/ HandleTlsHandshakeEvent
  PROVE  HttpInv'
  <1>1. HopInv' /\ HeadersInv' /\ TunnelFirst'
    <2>1. CASE HandleConnectEventDirect
      <3>1. /\ headers' /\ conn' = "open" /\ handed' = handed
            /\ UNCHANGED <<viaProxy, tls>> /\ ~(viaProxy /\ tls)
            /\ pc' = "polled"
            /\ proxyState' = IF viaProxy THEN "ready" ELSE proxyState
            /\ conn = "opening"
        BY <2>1 DEF HandleConnectEventDirect, SendRequestHeaders, hopVars, Event
      <3> QED  BY <3>1 DEF HttpInv, HopInv, HeadersInv, TunnelFirst
    <2>2. CASE HandleConnectEventToProxy
      BY <2>2 DEF HttpInv, HopInv, HeadersInv, TunnelFirst, hopVars, Event,
                  HandleConnectEventToProxy
    <2>3. CASE HandleTlsHandshakeEvent
      BY <2>3 DEF HttpInv, HopInv, HeadersInv, TunnelFirst, hopVars, Event,
                  HandleTlsHandshakeEvent, SendRequestHeaders
    <2> QED  BY <2>1, <2>2, <2>3
  <1>2. /\ Event /\ UNCHANGED <<outside, hopVars>>
        /\ \/ unreadable' = unreadable
           \/ unreadable' /\ status' = "complete" /\ code' = "errFile"
    BY DEF HandleConnectEventDirect, HandleConnectEventToProxy,
           HandleTlsHandshakeEvent, SendRequestHeaders
  <1>3. ReportInv' /\ HopsInv'
    BY <1>2, ReadableInLoop
  <1> QED  BY <1>1, <1>3 DEF HttpInv

(* HandleWroteEvent sends of the body only on a connection whose headers   *)
(* have been sent.                                                         *)
LEMMA WroteInv ==
  ASSUME HttpInv, NEW n \in 1 .. MaxUnits, HandleWroteEvent(n) PROVE HttpInv'
  <1>1. /\ Event /\ UNCHANGED <<outside, hopVars>>
        /\ UNCHANGED <<conn, proxyState, headers>>
        /\ conn = "open"
    BY DEF HandleWroteEvent
  <1>2. handed' = handed \/ headers
    BY DEF HandleWroteEvent, HttpInv, HeadersInv
  <1>3. HopInv' /\ HeadersInv' /\ TunnelFirst'
    BY <1>1, <1>2 DEF HttpInv, HopInv, HeadersInv, TunnelFirst, Event, hopVars
  <1>4. \/ unreadable' = unreadable
        \/ unreadable' /\ status' = "complete" /\ code' = "errFile"
        \/ Single
    <2>1. CASE UNCHANGED unreadable
      BY <2>1
    <2>2. CASE HandleSimpleWrote(n)
      BY <2>2 DEF HandleSimpleWrote
    <2>3. CASE HandleMultipartWrote(n)
      BY <2>3 DEF HandleMultipartWrote, SendPiece, CannotOpen
    <2> QED  BY <2>1, <2>2, <2>3 DEF HandleWroteEvent
  <1>5. ReportInv' /\ HopsInv'
    BY <1>1, <1>4, ReadableInLoop
  <1> QED  BY <1>3, <1>5 DEF HttpInv

-----------------------------------------------------------------------------
(* Other threads, and time.                                                *)
LEMMA OutsideInv == ASSUME HttpInv, Cancel \/ Tick PROVE HttpInv'
  <1>1. HopInv' /\ HeadersInv' /\ TunnelFirst'
    BY DEF HttpInv, HopInv, HeadersInv, TunnelFirst, Cancel, Tick, hopVars,
           bodyVars
  <1>2. ReportInv'
    BY DEF HttpInv, ReportInv, Cancel, Tick, bodyVars, Single, Parts
  <1>3. HopsInv'
    BY DEF HttpInv, HopsInv, Cancel, Tick, hopVars
  <1> QED  BY <1>1, <1>2, <1>3 DEF HttpInv

LEMMA NextHttpInv == HttpInv /\ [Next]_vars => HttpInv'
  <1> SUFFICES ASSUME HttpInv, [Next]_vars PROVE HttpInv'
    OBVIOUS
  <1>1. CASE Run
    BY <1>1, ResetInv, ConnectInv, PollInv, AfterLoopInv DEF Run
  <1>2. CASE Handlers
    BY <1>2, QuietHandlerInv, HeadersHandlerInv, WroteInv DEF Handlers
  <1>3. CASE Cancel \/ Tick
    BY <1>3, OutsideInv
  <1>4. CASE UNCHANGED vars
    BY <1>4 DEF vars, HttpInv, HopInv, HeadersInv, TunnelFirst, ReportInv,
                HopsInv, Single, Parts
  <1> QED  BY <1>1, <1>2, <1>3, <1>4 DEF Next

THEOREM HttpInvariant == Spec => []HttpInv
  BY InitHttpInv, NextHttpInv, PTL DEF Spec

(* Through any redirects, over proxies and not, no body is sent before the *)
(* headers of its request, and nothing of a request for an https target on *)
(* a proxy's connection before the tunnel is encrypted.                    *)
THEOREM HttpTunnelFirst == Spec => []TunnelFirst
  <1>1. HttpInv => TunnelFirst
    BY DEF HttpInv
  <1> QED  BY <1>1, HttpInvariant, PTL

(* A file among several parts that cannot be read, when it is measured or  *)
(* when it is sent, is what Run reports: no event comes in between.        *)
THEOREM HttpUnreadableIsReported == Spec => []UnreadableIsReported
  <1>1. HttpInv => UnreadableIsReported
    BY DEF HttpInv, ReportInv, UnreadableIsReported
  <1> QED  BY <1>1, HttpInvariant, PTL

(* However servers redirect, Run makes at most one connection more than    *)
(* the redirects it allows (kMaxRedirects).                                *)
THEOREM HttpHopsBounded == Spec => [](hops <= MaxRedirects + 1)
  <1>1. HttpInv => hops <= MaxRedirects + 1
    BY ClientAssumption DEF HttpInv, HopsInv
  <1> QED  BY <1>1, HttpInvariant, PTL

-----------------------------------------------------------------------------
(* The length of a body. LengthUpTo is a recursive function: that it is    *)
(* what its equation says takes an induction over the number of parts,     *)
(* stated by the least part for which a claim fails.                       *)
LEMMA Least ==
  ASSUME NEW T, T \subseteq Nat, T # {}
  PROVE  \E x \in T : \A y \in T : x <= y
  <1> DEFINE below == {1 .. x : x \in T}
  <1>1. ASSUME NEW x \in T PROVE 1 .. x \in FiniteSubsetsOf(Nat)
    <2>1. x \in Int /\ 1 .. x \subseteq Nat
      OBVIOUS
    <2>2. IsFiniteSet(1 .. x)
      BY <2>1, FS_Interval
    <2> QED  BY <2>1, <2>2 DEF FiniteSubsetsOf
  <1>2. below \subseteq FiniteSubsetsOf(Nat) /\ below # {}
    BY <1>1
  <1>3. PICK b \in below :
          \A c \in below : <<c, b>> \notin StrictSubsetOrdering(Nat)
    BY <1>2, FS_StrictSubsetOrderingWellFounded, WFMin
  <1>4. PICK x \in T : b = 1 .. x
    OBVIOUS
  <1>5. ASSUME NEW y \in T, y < x PROVE FALSE
    <2>1. 1 .. y \in below /\ 1 .. y \subseteq 1 .. x
      BY <1>5
    <2>2. x \in 1 .. x /\ x \notin 1 .. y
      BY <1>5
    <2>3. <<1 .. y, 1 .. x>> \in StrictSubsetOrdering(Nat)
      BY <2>1, <2>2 DEF StrictSubsetOrdering
    <2> QED  BY <1>3, <1>4, <2>1, <2>3
  <1> QED  BY <1>5

LEMMA SeqElement ==
  ASSUME NEW S, NEW s \in Seq(S)
  PROVE  Len(s) \in Nat /\ \A i \in 1 .. Len(s) : s[i] \in S
  OBVIOUS

PartsSet == Seq([file : BOOLEAN, size : Nat])

(* f adds up the first n parts.                                            *)
AddsUp(f, n, parts) ==
    /\ f \in [0 .. n -> Nat]
    /\ f[0] = 0
    /\ \A k \in 1 .. n : f[k] = f[k - 1] + 2 + parts[k].size

LEMMA SizeIsNat ==
  ASSUME NEW parts \in PartsSet
  PROVE  /\ Len(parts) \in Nat
         /\ \A k \in 1 .. Len(parts) :
              parts[k].size \in Nat /\ parts[k].file \in BOOLEAN
  <1>1. /\ Len(parts) \in Nat
        /\ \A k \in 1 .. Len(parts) : parts[k] \in [file : BOOLEAN, size : Nat]
    BY SeqElement DEF PartsSet
  <1> QED  BY <1>1

LEMMA SumExists ==
  ASSUME NEW parts \in PartsSet
  PROVE  \E f : AddsUp(f, Len(parts), parts)
  <1> DEFINE N == Len(parts)
             Bad == {n \in 0 .. N : ~\E f : AddsUp(f, n, parts)}
  <1>1. N \in Nat
    BY SizeIsNat
  <1>2. SUFFICES ASSUME Bad # {} PROVE FALSE
    BY <1>1
  <1>3. PICK n \in Bad : \A m \in Bad : n <= m
    <2>1. Bad \subseteq Nat
      BY <1>1
    <2> HIDE DEF Bad
    <2> QED  BY <1>2, <2>1, Least
  <1>4. n # 0
    <2>1. AddsUp([k \in 0 .. 0 |-> 0], 0, parts)
      BY DEF AddsUp
    <2> QED  BY <2>1
  <1>5. n - 1 \in 0 .. N /\ n - 1 \notin Bad /\ n \in 1 .. N
    BY <1>1, <1>3, <1>4
  <1>6. PICK f : AddsUp(f, n - 1, parts)
    BY <1>5
  <1> DEFINE g == [k \in 0 .. n |->
                     IF k = n THEN f[n - 1] + 2 + parts[n].size ELSE f[k]]
  <1>7. parts[n].size \in Nat /\ f[n - 1] \in Nat
    BY <1>5, <1>6, SizeIsNat DEF AddsUp
  <1>8. g \in [0 .. n -> Nat] /\ g[0] = 0
    BY <1>5, <1>6, <1>7 DEF AddsUp
  <1>9. ASSUME NEW k \in 1 .. n PROVE g[k] = g[k - 1] + 2 + parts[k].size
    BY <1>5, <1>6, <1>7, <1>9 DEF AddsUp
  <1>10. AddsUp(g, n, parts)
    BY <1>8, <1>9 DEF AddsUp
  <1> QED  BY <1>10

LEMMA LengthUpToAddsUp ==
  ASSUME NEW parts \in PartsSet
  PROVE  AddsUp(LengthUpTo(parts), Len(parts), parts)
  <1> DEFINE N == Len(parts)
             Eq(f) == f = [k \in 0 .. N |->
                             IF k = 0 THEN 0 ELSE f[k - 1] + 2 + parts[k].size]
             g == LengthUpTo(parts)
  <1>1. N \in Nat
    BY SizeIsNat
  <1>2. ASSUME NEW f, AddsUp(f, N, parts) PROVE Eq(f)
    BY <1>1, <1>2 DEF AddsUp
  <1>3. \E f : Eq(f)
    BY <1>2, SumExists
  <1>4. g = CHOOSE f : Eq(f)
    BY DEF LengthUpTo
  <1>5. Eq(g)
    BY <1>3, <1>4
  <1> HIDE DEF g
  <1>6. /\ DOMAIN g = 0 .. N /\ g[0] = 0
        /\ \A k \in 1 .. N : g[k] = g[k - 1] + 2 + parts[k].size
    BY <1>1, <1>5
  <1> DEFINE Bad == {k \in 0 .. N : g[k] \notin Nat}
  <1>7. Bad = {}
    <2> SUFFICES ASSUME Bad # {} PROVE FALSE
      OBVIOUS
    <2>1. PICK k \in Bad : \A m \in Bad : k <= m
      <3>1. Bad \subseteq Nat
        BY <1>1
      <3> HIDE DEF Bad
      <3> QED  BY <3>1, Least
    <2>2. k \in 1 .. N
      BY <1>1, <1>6
    <2>3. k - 1 \in 0 .. N /\ k - 1 \notin Bad
      BY <1>1, <2>1, <2>2
    <2>4. parts[k].size \in Nat
      BY <2>2, SizeIsNat
    <2> QED  BY <1>6, <2>2, <2>3, <2>4
  <1>8. g \in [0 .. N -> Nat]
    BY <1>5, <1>7
  <1> QED  BY <1>6, <1>8 DEF AddsUp, g

(* No part ends behind the end of all of them.                             *)
LEMMA LengthGrows ==
  ASSUME NEW parts \in PartsSet, NEW j \in 0 .. Len(parts)
  PROVE  LengthUpTo(parts)[j] <= LengthUpTo(parts)[Len(parts)]
  <1> DEFINE N == Len(parts)
             g == LengthUpTo(parts)
             Bad == {d \in 0 .. N : g[N - d] > g[N]}
  <1>1. N \in Nat /\ AddsUp(g, N, parts)
    BY SizeIsNat, LengthUpToAddsUp
  <1> HIDE DEF g
  <1>2. Bad = {}
    <2> SUFFICES ASSUME Bad # {} PROVE FALSE
      OBVIOUS
    <2>1. PICK d \in Bad : \A e \in Bad : d <= e
      <3>1. Bad \subseteq Nat
        BY <1>1
      <3> HIDE DEF Bad
      <3> QED  BY <3>1, Least
    <2>2. N - d \in 0 .. N /\ N \in 0 .. N
      BY <1>1
    <2>3. d # 0
      BY <1>1, <2>2 DEF AddsUp
    <2>4. d - 1 \in 0 .. N /\ d - 1 \notin Bad
      BY <1>1, <2>1, <2>3
    <2>5. N - d + 1 \in 1 .. N /\ N - (d - 1) = N - d + 1
      BY <1>1, <2>3
    <2>6. parts[N - d + 1].size \in Nat
      BY <2>5, SizeIsNat
    <2>7. g[N - d] <= g[N - d + 1]
      <3>1. g[N - d + 1] = g[(N - d + 1) - 1] + 2 + parts[N - d + 1].size
        BY <1>1, <2>5 DEF AddsUp
      <3>2. (N - d + 1) - 1 = N - d /\ g[N - d] \in Nat
        BY <1>1, <2>2 DEF AddsUp
      <3> QED  BY <2>6, <3>1, <3>2
    <2>8. g[N - d] \in Nat /\ g[N - d + 1] \in Nat /\ g[N] \in Nat
      <3>1. N - d + 1 \in 0 .. N
        BY <1>1, <2>5
      <3>2. g \in [0 .. N -> Nat]
        BY <1>1 DEF AddsUp
      <3> HIDE DEF N
      <3> QED  BY <2>2, <3>1, <3>2
    <2>9. g[N - d + 1] <= g[N]
      BY <2>4, <2>5, <2>8
    <2> QED  BY <2>7, <2>8, <2>9
  <1>3. N - j \in 0 .. N /\ N - (N - j) = j /\ g[j] \in Nat /\ g[N] \in Nat
    BY <1>1 DEF AddsUp
  <1>4. ~(g[j] > g[N])
    BY <1>2, <1>3
  <1> QED  BY <1>3, <1>4 DEF g

(* What SendFile and the handlers rely on: the lengths of the client's     *)
(* parts, and the Content-Length they amount to.                           *)
LEMMA Lengths ==
  ASSUME setup \in Setups
  PROVE  /\ Len(Parts) \in Nat /\ ContentLength \in Nat
         /\ \A k \in 1 .. Len(Parts) :
              SizeOf(k) \in Nat /\ SizeOf(k) <= ContentLength
         /\ Len(Parts) = 0 => ContentLength = 0
         /\ Single => ContentLength = SizeOf(1)
         /\ LengthUpTo(Parts)[0] = 0
         /\ \A k \in 0 .. Len(Parts) : LengthUpTo(Parts)[k] \in Nat
         /\ \A k \in 1 .. Len(Parts) :
              LengthUpTo(Parts)[k] = LengthUpTo(Parts)[k - 1] + 2 + SizeOf(k)
         /\ ~Single /\ Len(Parts) # 0 =>
              ContentLength = LengthUpTo(Parts)[Len(Parts)] + 1
  <1> DEFINE g == LengthUpTo(Parts)
             N == Len(Parts)
  <1>1. Parts \in PartsSet
    BY ClientAssumption DEF Parts, PartsSet
  <1>2. N \in Nat /\ \A k \in 1 .. N : SizeOf(k) \in Nat
    BY <1>1, SizeIsNat DEF SizeOf
  <1>3. /\ g \in [0 .. N -> Nat] /\ g[0] = 0
        /\ \A k \in 1 .. N : g[k] = g[k - 1] + 2 + SizeOf(k)
    BY <1>1, LengthUpToAddsUp DEF AddsUp, SizeOf
  <1>4. \A k \in 0 .. N : g[k] <= g[N]
    BY <1>1, LengthGrows
  <1>5. /\ N = 0 => ContentLength = 0
        /\ Single => ContentLength = SizeOf(1)
        /\ ~Single /\ N # 0 => ContentLength = g[N] + 1
    BY <1>2 DEF ContentLength, Single
  <1> HIDE DEF g
  <1>6. \A k \in 0 .. N : g[k] \in Nat
    BY <1>3
  <1>7. ContentLength \in Nat
    BY <1>2, <1>5, <1>6 DEF Single
  <1>8. ASSUME NEW k \in 1 .. N PROVE SizeOf(k) <= ContentLength
    <2>1. CASE Single
      BY <1>2, <1>5, <2>1 DEF Single
    <2>2. CASE ~Single
      <3>1. k - 1 \in 0 .. N /\ k \in 0 .. N /\ N \in 0 .. N
        BY <1>2
      <3>2. g[k] = g[k - 1] + 2 + SizeOf(k) /\ g[k] <= g[N]
        BY <1>3, <1>4, <3>1
      <3>3. g[k - 1] \in Nat /\ g[k] \in Nat /\ g[N] \in Nat
        BY <1>6, <3>1
      <3>4. ContentLength = g[N] + 1
        BY <1>2, <1>5, <2>2
      <3> QED  BY <1>2, <3>2, <3>3, <3>4
    <2> QED  BY <2>1, <2>2
  <1> QED  BY <1>2, <1>3, <1>5, <1>6, <1>7, <1>8 DEF g

LEMMA SetupKept ==
  ASSUME UNCHANGED setup
  PROVE  /\ Parts' = Parts /\ ContentLength' = ContentLength
         /\ Single' = Single
  BY DEF Parts, ContentLength, Single, SizeOf

-----------------------------------------------------------------------------
(* Types. What is counted or measured has its own invariant below.         *)
KindsInv ==
    /\ setup \in Setups
    /\ pc \in {"reset", "connect", "loop", "polled", "after", "done"}
    /\ status \in {"connecting", "connected", "sending", "complete",
                   "redirecting"}
    /\ code \in Code /\ returned \in Code
    /\ conn \in {"none", "opening", "open", "closing", "lost"}
    /\ proxyState \in {"none", "awaitingConnect", "awaitingTls", "ready"}
    /\ late \subseteq {"connection", "process"}
    /\ canceller \in {"no", "status", "code"}

FlagsInv ==
    /\ viaProxy \in BOOLEAN /\ tls \in BOOLEAN
    /\ headers \in BOOLEAN /\ unreadable \in BOOLEAN /\ overdue \in BOOLEAN

MeasuresInv ==
    /\ length \in 0 .. ContentLength
    /\ uploaded \in Nat /\ pending \in Nat /\ handed \in Nat
    /\ part \in 1 .. Len(Parts) + 1
    /\ file \in Nat \cup {Closed}

LEMMA InitKinds == Init => KindsInv /\ FlagsInv
  BY DEF Init, KindsInv, FlagsInv, Code

LEMMA NextFlags == FlagsInv /\ [Next]_vars => FlagsInv'
  <1> SUFFICES ASSUME FlagsInv, [Next]_vars PROVE FlagsInv'
    OBVIOUS
  <1> USE DEF FlagsInv, hopVars, bodyVars, outside
  <1>1. CASE Reset \/ IdlePoll \/ DoLoop \/ AfterLoop
    BY <1>1 DEF Reset, IdlePoll, DoLoop, AfterLoop, Return
  <1>2. CASE Connect
    BY <1>2, ClientAssumption DEF Connect
  <1>3. CASE HandleConnectEventDirect \/ HandleTlsHandshakeEvent
    BY <1>3 DEF HandleConnectEventDirect, HandleTlsHandshakeEvent,
                SendRequestHeaders
  <1>4. CASE \/ HandleConnectEventToProxy \/ HandleHttpHeaders
             \/ HandleErrorEvent \/ PeerClose
             \/ \E kind \in Replies : HandleMessageEvent(kind)
    BY <1>4 DEF HandleConnectEventToProxy, HandleHttpHeaders, HandleErrorEvent,
                PeerClose, HandleMessageEvent
  <1>5. ASSUME NEW n \in 1 .. MaxUnits, HandleWroteEvent(n) PROVE FlagsInv'
    <2>1. unreadable' = unreadable \/ unreadable' = TRUE
      BY <1>5 DEF HandleWroteEvent, HandleSimpleWrote, HandleMultipartWrote,
                  SendPiece, CannotOpen
    <2> QED  BY <1>5, <2>1 DEF HandleWroteEvent
  <1>6. CASE Cancel \/ Tick
    BY <1>6 DEF Cancel, Tick
  <1>7. CASE UNCHANGED vars
    BY <1>7 DEF vars
  <1> QED  BY <1>1, <1>2, <1>3, <1>4, <1>5, <1>6, <1>7 DEF Next, Run, Handlers

LEMMA RunKinds == ASSUME KindsInv, Run PROVE KindsInv'
  <1>1. CASE Reset
    BY <1>1 DEF KindsInv, Reset, hopVars, outside, Code
  <1>2. CASE Connect
    BY <1>2 DEF KindsInv, Connect, Return, Code
  <1>3. CASE IdlePoll \/ DoLoop
    BY <1>3 DEF KindsInv, IdlePoll, DoLoop, outside
  <1>4. CASE AfterLoop
    BY <1>4 DEF KindsInv, AfterLoop, Return, Code
  <1> QED  BY <1>1, <1>2, <1>3, <1>4 DEF Run

Statuses == {"connecting", "connected", "sending", "complete", "redirecting"}

LEMMA SendHeadersKinds ==
  ASSUME KindsInv, NEW reached \in Statuses, SendRequestHeaders(reached)
  PROVE  code' \in Code /\ status' \in Statuses
  BY DEF KindsInv, SendRequestHeaders, Code, Statuses

LEMMA WroteKinds ==
  ASSUME KindsInv, NEW n, HandleSimpleWrote(n) \/ HandleMultipartWrote(n)
  PROVE  code' \in Code /\ status' \in Statuses
  <1>1. CASE HandleSimpleWrote(n)
    BY <1>1 DEF KindsInv, HandleSimpleWrote, CannotOpen, Code, Statuses
  <1>2. CASE HandleMultipartWrote(n)
    BY <1>2 DEF KindsInv, HandleMultipartWrote, SendPiece, CannotOpen, Code,
                Statuses
  <1> QED  BY <1>1, <1>2

LEMMA HandlersKinds == ASSUME KindsInv, Handlers PROVE KindsInv'
  <1>1. CASE HandleConnectEventDirect
    BY <1>1, SendHeadersKinds
       DEF KindsInv, HandleConnectEventDirect, Event, outside, Statuses
  <1>2. CASE HandleConnectEventToProxy
    BY <1>2 DEF KindsInv, HandleConnectEventToProxy, Event, outside
  <1>3. CASE HandleTlsHandshakeEvent
    BY <1>3, SendHeadersKinds
       DEF KindsInv, HandleTlsHandshakeEvent, Event, outside, Statuses
  <1>4. CASE HandleHttpHeaders \/ HandleErrorEvent \/ PeerClose
    BY <1>4 DEF KindsInv, HandleHttpHeaders, HandleErrorEvent, PeerClose, Code,
                Event, outside
  <1>5. CASE \E kind \in Replies : HandleMessageEvent(kind)
    BY <1>5 DEF KindsInv, HandleMessageEvent, Code, Event, outside
  <1>6. ASSUME NEW n \in 1 .. MaxUnits, HandleWroteEvent(n) PROVE KindsInv'
    <2>1. code' \in Code /\ status' \in Statuses
      BY <1>6, WroteKinds DEF HandleWroteEvent, KindsInv, Statuses
    <2> QED  BY <1>6, <2>1 DEF KindsInv, HandleWroteEvent, Event, outside, Statuses
  <1> QED  BY <1>1, <1>2, <1>3, <1>4, <1>5, <1>6 DEF Handlers

LEMMA NextKinds == KindsInv /\ [Next]_vars => KindsInv'
  <1> SUFFICES ASSUME KindsInv, [Next]_vars PROVE KindsInv'
    OBVIOUS
  <1>1. CASE Cancel \/ Tick
    BY <1>1 DEF KindsInv, Cancel, Tick, Code
  <1>2. CASE UNCHANGED vars
    BY <1>2 DEF KindsInv, vars
  <1> QED  BY <1>1, <1>2, RunKinds, HandlersKinds DEF Next

-----------------------------------------------------------------------------
(* What is still to read of the part that is being sent.                   *)
Rest == IF file = Closed THEN 0 ELSE file

(* The one body of a request without parts: begun by the first write after *)
(* the headers.                                                            *)
SimpleInv ==
    ~unreadable /\ Single =>
        /\ handed + Rest <= SizeOf(1)
        /\ status = "connected" => handed = 0 /\ file = Closed
        /\ status = "sending" => handed + Rest = SizeOf(1)

(* Between two handlers, what has been handed over is the parts before     *)
(* this one, and of this one the header and what has been read.            *)
MultipartInv ==
    ~unreadable /\ ~Single =>
        /\ part > Len(Parts) => file = Closed /\ handed = ContentLength
        /\ part <= Len(Parts) /\ file = Closed =>
             handed = LengthUpTo(Parts)[part - 1]
        /\ part <= Len(Parts) /\ file # Closed =>
             /\ file <= SizeOf(part)
             /\ handed = LengthUpTo(Parts)[part - 1] + 1 + SizeOf(part) - file

(* Nothing of the body is touched before the headers, which say how long   *)
(* it will be; and only these states of Run see a write.                   *)
PromiseInv ==
    /\ ~headers => part = 1 /\ file = Closed
    /\ headers /\ ~unreadable => length = ContentLength
    /\ conn = "open" => status \in {"connected", "sending", "complete"}

BodyInv == MeasuresInv /\ PromiseInv /\ SimpleInv /\ MultipartInv

LEMMA InitBody == Init => BodyInv
  <1> SUFFICES ASSUME Init PROVE BodyInv
    OBVIOUS
  <1>1. setup \in Setups
    BY DEF Init
  <1> HIDE DEF Single
  <1> QED  BY <1>1, Lengths DEF Init, BodyInv, MeasuresInv, PromiseInv,
             SimpleInv, MultipartInv, Rest, Closed

(* A hop begins with nothing sent.                                         *)
LEMMA ResetBody == ASSUME HttpInv, KindsInv, Reset PROVE BodyInv'
  <1>1. setup \in Setups /\ UNCHANGED setup
    BY DEF KindsInv, Reset, outside
  <1>2. /\ length' = 0 /\ uploaded' = 0 /\ part' = 1 /\ file' = Closed
        /\ pending' = 0 /\ ~headers' /\ handed' = 0 /\ status' = "connecting"
        /\ conn' = "none"
    BY DEF Reset, HttpInv, HopInv
  <1>3. /\ Parts' = Parts /\ ContentLength' = ContentLength
        /\ Single' = Single
    BY <1>1, SetupKept
  <1>4. MeasuresInv'
    BY <1>1, <1>2, <1>3, Lengths DEF MeasuresInv, Closed
  <1>5. PromiseInv'
    BY <1>2, <1>3 DEF PromiseInv
  <1>6. SimpleInv'
    <2> SUFFICES ASSUME Single PROVE SimpleInv'
      BY <1>3 DEF SimpleInv
    <2>1. SizeOf(1)' = SizeOf(1) /\ SizeOf(1) \in Nat
      BY <1>1, <1>3, Lengths DEF Single, SizeOf
    <2> QED  BY <1>2, <1>3, <2>1 DEF SimpleInv, Rest, Closed
  <1>7. MultipartInv'
    BY <1>1, <1>2, <1>3, Lengths DEF MultipartInv, Closed
  <1> QED  BY <1>4, <1>5, <1>6, <1>7 DEF BodyInv

(* Steps that leave the body alone, whatever they do to the run: none of   *)
(* them takes it back to a state in which a write would go on with it.     *)
LEMMA QuietBody ==
  ASSUME KindsInv, BodyInv,
         UNCHANGED <<setup, length, part, file, headers, handed, unreadable>>,
         uploaded' \in Nat, pending' \in Nat,
         status' \in {status, "connecting", "complete", "redirecting"},
         conn' = "open" => conn = "open" /\ status' \in {status, "complete"}
  PROVE  BodyInv'
  <1>1. /\ Parts' = Parts /\ ContentLength' = ContentLength
        /\ Single' = Single
    BY SetupKept
  <1>2. MeasuresInv'
    BY <1>1 DEF BodyInv, MeasuresInv
  <1>3. PromiseInv'
    BY <1>1 DEF BodyInv, PromiseInv
  <1>4. SimpleInv'
    BY <1>1 DEF BodyInv, SimpleInv, Rest, SizeOf
  <1>5. MultipartInv'
    BY <1>1 DEF BodyInv, MultipartInv, SizeOf
  <1> QED  BY <1>2, <1>3, <1>4, <1>5 DEF BodyInv

LEMMA QuietStepsBody ==
  ASSUME HttpInv, KindsInv, BodyInv,
         \/ Connect \/ IdlePoll \/ DoLoop \/ AfterLoop
         \/ HandleHttpHeaders \/ HandleErrorEvent \/ PeerClose
         \/ \E kind \in Replies : HandleMessageEvent(kind)
         \/ HandleConnectEventToProxy \/ Cancel \/ Tick
  PROVE  BodyInv'
  <1>1. uploaded \in Nat /\ pending \in Nat
    BY DEF BodyInv, MeasuresInv
  <1>2. CASE HandleConnectEventToProxy
    <2>1. /\ UNCHANGED <<setup, uploaded, length, part, file, headers, handed,
                         unreadable>>
          /\ status' = "connected" /\ pending' = HeaderLength
      BY <1>2 DEF HandleConnectEventToProxy, outside
    <2>2. ~headers /\ handed = 0 /\ part = 1 /\ file = Closed
      BY <1>2 DEF HandleConnectEventToProxy, HttpInv, HeadersInv, TunnelFirst,
                  BodyInv, PromiseInv, MeasuresInv
    <2>3. /\ Parts' = Parts /\ ContentLength' = ContentLength
          /\ Single' = Single
      BY <2>1, SetupKept
    <2>4. MeasuresInv'
      BY <1>1, <2>1, <2>3, ClientAssumption DEF BodyInv, MeasuresInv
    <2>5. PromiseInv' /\ MultipartInv'
      BY <2>1, <2>2, <2>3
         DEF BodyInv, PromiseInv, MultipartInv, SizeOf
    <2>6. SimpleInv'
      BY <2>1, <2>2, <2>3 DEF BodyInv, SimpleInv, Rest, SizeOf
    <2> QED  BY <2>4, <2>5, <2>6 DEF BodyInv
  <1>3. CASE ~HandleConnectEventToProxy
    <2>1. /\ UNCHANGED <<setup, uploaded, pending, length, part, file, headers,
                         handed, unreadable>>
          /\ status' \in {status, "connecting", "complete", "redirecting"}
          /\ conn' = "open" => conn = "open" /\ status' \in {status, "complete"}
      BY <1>3 DEF HttpInv, HopInv, Connect, IdlePoll, DoLoop, AfterLoop,
                  HandleHttpHeaders, HandleErrorEvent, PeerClose,
                  HandleMessageEvent, Cancel, Tick, bodyVars, outside
    <2> QED  BY <1>1, <2>1, QuietBody
  <1> QED  BY <1>2, <1>3

(* SendRequestHeaders: the length is promised before anything of the body  *)
(* has been sent.                                                          *)
LEMMA SendHeadersBody ==
  ASSUME HttpInv, KindsInv, BodyInv,
         HandleConnectEventDirect \/ HandleTlsHandshakeEvent
  PROVE  BodyInv'
  <1>1. /\ UNCHANGED <<setup, uploaded, part, file, handed>>
        /\ headers' /\ pending' = pending + HeaderLength
        /\ \/ /\ length' = ContentLength
              /\ status' \in {status, "connected"}
              /\ conn = "opening" => status' = "connected"
              /\ UNCHANGED unreadable
           \/ /\ \E k \in 1 .. Len(Parts) : length' = ContentLength - SizeOf(k)
              /\ status' = "complete"
              /\ unreadable'
        /\ conn \in {"opening", "open"}
    BY DEF HandleConnectEventDirect, HandleTlsHandshakeEvent,
           SendRequestHeaders, outside
  <1>2. ~headers /\ handed = 0 /\ part = 1 /\ file = Closed
    BY DEF HandleConnectEventDirect, HandleTlsHandshakeEvent, HttpInv,
           HeadersInv, TunnelFirst, BodyInv, PromiseInv, MeasuresInv
  <1>3. /\ Parts' = Parts /\ ContentLength' = ContentLength
        /\ Single' = Single
    BY <1>1, SetupKept
  <1>4. setup \in Setups
    BY DEF KindsInv
  <1>5. length' \in 0 .. ContentLength
    BY <1>1, <1>4, Lengths
  <1>6. MeasuresInv'
    BY <1>1, <1>3, <1>5, ClientAssumption DEF BodyInv, MeasuresInv
  <1>7. PromiseInv'
    <2>1. status' \in {"connected", "sending", "complete"}
      BY <1>1 DEF BodyInv, PromiseInv
    <2> QED  BY <1>1, <1>3, <2>1 DEF PromiseInv
  <1>8. SimpleInv'
    <2> SUFFICES ASSUME Single, ~unreadable', ~unreadable PROVE SimpleInv'
      BY <1>1, <1>3 DEF SimpleInv
    <2>1. SizeOf(1)' = SizeOf(1) /\ Rest' = Rest
      BY <1>1, <1>3 DEF SizeOf, Rest
    <2>2. status' # status => status' = "connected"
      BY <1>1
    <2> QED  BY <1>1, <1>2, <1>3, <2>1, <2>2 DEF BodyInv, SimpleInv
  <1>9. MultipartInv'
    BY <1>1, <1>3 DEF BodyInv, MultipartInv, SizeOf
  <1> QED  BY <1>6, <1>7, <1>8, <1>9 DEF BodyInv

-----------------------------------------------------------------------------
(* SendFile: what is read and what is left make up what there was.         *)
LEMMA ReadAndRest ==
  ASSUME NEW rest \in Nat
  PROVE  /\ Read(rest) \in Nat
         /\ AtEnd(rest) => RestOf(rest) = Closed /\ Read(rest) = rest
         /\ ~AtEnd(rest) => /\ RestOf(rest) \in Nat
                            /\ RestOf(rest) # Closed
                            /\ Read(rest) + RestOf(rest) = rest
  BY ClientAssumption DEF Read, RestOf, AtEnd, Closed

LEMMA SimpleWroteBody ==
  ASSUME KindsInv, BodyInv, NEW n \in Nat, n <= pending, HandleSimpleWrote(n),
         status \in {"connected", "sending"}, UNCHANGED setup
  PROVE  /\ handed' \in Nat /\ pending' \in Nat
         /\ file' \in Nat \cup {Closed} /\ part' = part
         /\ SimpleInv' /\ MultipartInv' /\ status' = "sending"
  <1> DEFINE first == status = "connected"
             rest == IF first THEN SizeOf(1) ELSE file
  <1>1. SizeOf(1) \in Nat
    BY Lengths DEF KindsInv, HandleSimpleWrote, Single
  <1>2. /\ handed \in Nat /\ pending \in Nat
        /\ file \in Nat \cup {Closed}
    BY DEF BodyInv, MeasuresInv
  <1>3. Single /\ Single' /\ SizeOf(1)' = SizeOf(1) /\ part' = part
        /\ status' = "sending"
    BY SetupKept DEF HandleSimpleWrote, SizeOf
  <1>4. MultipartInv'
    BY <1>3 DEF MultipartInv
  <1>5. ~unreadable =>
          /\ first => handed = 0 /\ file = Closed
          /\ ~first => handed + Rest = SizeOf(1)
    BY <1>3 DEF BodyInv, SimpleInv
  <1>6. SUFFICES /\ handed' \in Nat /\ pending' \in Nat
                 /\ file' \in Nat \cup {Closed}
                 /\ ~unreadable' => handed' + Rest' = SizeOf(1)
    <2> SUFFICES ASSUME handed' + Rest' = SizeOf(1), ~unreadable'
                 PROVE  SimpleInv'
      BY <1>3, <1>4 DEF SimpleInv
    <2> QED  BY <1>1, <1>3 DEF SimpleInv
  <1>7. CASE ~Parts[1].file
    <2>1. /\ handed' = IF first THEN handed + SizeOf(1) ELSE handed
          /\ pending' = pending - n + (handed' - handed)
          /\ UNCHANGED <<file, unreadable>>
      BY <1>7 DEF HandleSimpleWrote
    <2> QED  BY <1>1, <1>2, <1>5, <2>1 DEF Rest, Closed
  <1>8. CASE /\ rest # Closed
             /\ handed' = handed + Read(rest)
             /\ pending' = pending - n + Read(rest)
             /\ file' = RestOf(rest) /\ UNCHANGED unreadable
    <2>1. rest \in Nat
      BY <1>1, <1>2, <1>8
    <2>2. first \/ file = rest
      OBVIOUS
    <2> HIDE DEF rest
    <2>3. handed' \in Nat /\ pending' \in Nat /\ file' \in Nat \cup {Closed}
      BY <1>2, <1>8, <2>1, ReadAndRest
    <2>4. ~unreadable => handed + rest = SizeOf(1)
      BY <1>1, <1>2, <1>5, <1>8, <2>1, <2>2 DEF Rest, rest
    <2>5. handed' + Rest' = handed + rest
      BY <1>2, <1>8, <2>1, ReadAndRest DEF Rest, Closed
    <2> QED  BY <1>8, <2>3, <2>4, <2>5
  <1>9. CASE /\ rest = Closed /\ pending' = pending - n
             /\ UNCHANGED <<handed, file, unreadable>>
    <2>1. ~first
      BY <1>1, <1>9 DEF Closed
    <2> QED  BY <1>2, <1>5, <1>9, <2>1 DEF Rest
  <1>10. CASE CannotOpen /\ pending' = pending - n /\ UNCHANGED handed
    BY <1>2, <1>10 DEF CannotOpen
  <1> QED  BY <1>7, <1>8, <1>9, <1>10 DEF HandleSimpleWrote

LEMMA MoveOver ==
  ASSUME NEW h \in Nat, NEW u \in Nat, NEW r \in Nat, NEW x \in Nat,
         NEW s \in Nat
  PROVE  /\ h + u + r = x + 1 + s => h + u = x + 1 + s - r
         /\ h = x + 1 + s - (u + r) => h + u + r = x + 1 + s
  OBVIOUS

(* SendPiece keeps the books when it is given what has been read of the    *)
(* part, and what is left.                                                 *)
LEMMA SendPieceBody ==
  ASSUME KindsInv, BodyInv, ~Single, part <= Len(Parts), UNCHANGED setup,
         NEW n \in Nat, n <= pending,
         NEW units \in Nat, NEW rest \in Nat \cup {Closed},
         NEW finished \in BOOLEAN, SendPiece(n, units, rest, finished),
         finished <=> rest = Closed,
         ~unreadable =>
           handed + units + (IF finished THEN 0 ELSE rest)
             = LengthUpTo(Parts)[part - 1] + 1 + SizeOf(part),
         ~unreadable /\ ~finished => rest <= SizeOf(part)
  PROVE  /\ handed' \in Nat /\ pending' \in Nat
         /\ file' \in Nat \cup {Closed} /\ part' \in 1 .. Len(Parts) + 1
         /\ MultipartInv' /\ status' = "sending"
  <1> DEFINE L == LengthUpTo(Parts)
             N == Len(Parts)
  <1>1. setup \in Setups /\ N \in Nat /\ ContentLength \in Nat
    BY Lengths DEF KindsInv
  <1>2. /\ part \in 1 .. N /\ handed \in Nat /\ pending \in Nat
    BY <1>1 DEF BodyInv, MeasuresInv
  <1>3. /\ L[part - 1] \in Nat /\ L[part] \in Nat /\ SizeOf(part) \in Nat
        /\ L[part] = L[part - 1] + 2 + SizeOf(part)
        /\ ContentLength = L[N] + 1
    <2>1. part - 1 \in 0 .. N /\ part \in 0 .. N /\ N # 0
      BY <1>1, <1>2
    <2> QED  BY <1>1, <1>2, <2>1, Lengths
  <1>4. /\ Parts' = Parts /\ ContentLength' = ContentLength
        /\ Single' = Single /\ SizeOf(part)' = Parts[part'].size
    BY SetupKept DEF SizeOf
  <1> HIDE DEF L, N
  <1>5. CASE finished
    <2>1. /\ rest = Closed /\ file' = Closed /\ part' = part + 1
          /\ ~unreadable => handed + units = L[part - 1] + 1 + SizeOf(part)
      BY <1>2, <1>5 DEF SendPiece, L
    <2>2. CASE part = N
      <3>1. handed' = handed + units + 2 /\ pending' = pending - n + units + 2
        BY <1>2, <1>5, <2>2 DEF SendPiece, N
      <3>2. ~unreadable => handed' = ContentLength
        BY <1>2, <1>3, <2>1, <2>2, <3>1
      <3>3. part' > N /\ ~(part' <= N)
        BY <1>1, <2>1, <2>2
      <3> QED  BY <1>1, <1>2, <1>4, <2>1, <3>1, <3>2, <3>3
               DEF MultipartInv, SendPiece, N
    <2>3. CASE part < N
      <3>1. handed' = handed + units + 1 /\ pending' = pending - n + units + 1
        BY <1>2, <1>5, <2>3 DEF SendPiece, N
      <3>2. ~unreadable => handed' = L[part]
        BY <1>2, <1>3, <2>1, <3>1
      <3>3. part' <= N /\ ~(part' > N) /\ part' - 1 = part
        BY <1>1, <1>2, <2>1, <2>3
      <3> QED  BY <1>1, <1>2, <1>4, <2>1, <3>1, <3>2, <3>3
               DEF MultipartInv, SendPiece, N, L
    <2> QED  BY <1>1, <1>2, <2>2, <2>3
  <1>6. CASE ~finished
    <2>1. /\ rest \in Nat /\ rest # Closed /\ file' = rest /\ part' = part
          /\ handed' = handed + units /\ pending' = pending - n + units
          /\ ~unreadable => handed + units + rest = L[part - 1] + 1 + SizeOf(part)
      BY <1>2, <1>6 DEF SendPiece, L
    <2>2. ASSUME ~unreadable
          PROVE  handed' = L[part - 1] + 1 + SizeOf(part) - file'
      <3> DEFINE x == L[part - 1]
                 size == SizeOf(part)
      <3>1. handed + units + rest = x + 1 + size
        BY <2>1, <2>2
      <3>2. x \in Nat /\ size \in Nat
        BY <1>3
      <3> HIDE DEF x, size
      <3>3. handed + units = x + 1 + size - rest
        BY <1>2, <2>1, <3>1, <3>2, MoveOver
      <3> QED  BY <2>1, <3>3 DEF x, size
    <2>3. SizeOf(part)' = SizeOf(part) /\ (~unreadable => file' <= SizeOf(part))
      BY <1>4, <1>6, <2>1 DEF SizeOf
    <2>4. ~(part' > N)
      BY <1>1, <1>2, <2>1
    <2> QED  BY <1>1, <1>2, <1>4, <2>1, <2>2, <2>3, <2>4
             DEF MultipartInv, SendPiece, N, L
  <1> QED  BY <1>5, <1>6

LEMMA MultipartWroteBody ==
  ASSUME KindsInv, BodyInv, NEW n \in Nat, n <= pending,
         HandleMultipartWrote(n), UNCHANGED setup
  PROVE  /\ handed' \in Nat /\ pending' \in Nat
         /\ file' \in Nat \cup {Closed} /\ part' \in 1 .. Len(Parts) + 1
         /\ MultipartInv' /\ status' \in {"sending", "complete"}
  <1>1. ~Single /\ setup \in Setups /\ Len(Parts) \in Nat
    BY Lengths DEF HandleMultipartWrote, KindsInv
  <1>2. /\ handed \in Nat /\ pending \in Nat
        /\ file \in Nat \cup {Closed} /\ part \in 1 .. Len(Parts) + 1
    BY DEF BodyInv, MeasuresInv
  <1>3. part <= Len(Parts) =>
          SizeOf(part) \in Nat /\ LengthUpTo(Parts)[part - 1] \in Nat
    <2> SUFFICES ASSUME part <= Len(Parts)
                 PROVE  SizeOf(part) \in Nat /\ LengthUpTo(Parts)[part - 1] \in Nat
      OBVIOUS
    <2>1. part \in 1 .. Len(Parts) /\ part - 1 \in 0 .. Len(Parts)
      BY <1>1, <1>2
    <2> QED  BY <1>1, <2>1, Lengths
  <1>4. ~unreadable /\ part <= Len(Parts) =>
          IF file = Closed
          THEN handed = LengthUpTo(Parts)[part - 1]
          ELSE /\ file <= SizeOf(part)
               /\ handed = LengthUpTo(Parts)[part - 1] + 1 + SizeOf(part) - file
    BY <1>1 DEF BodyInv, MultipartInv
  <1>5. CASE /\ part > Len(Parts) /\ pending' = pending - n /\ status' = "sending"
             /\ UNCHANGED <<handed, file, part, unreadable>>
    <2>1. MultipartInv'
      BY <1>5, SetupKept DEF BodyInv, MultipartInv, SizeOf
    <2> QED  BY <1>2, <1>5, <2>1
  <1>6. CASE /\ part <= Len(Parts) /\ file = Closed /\ ~Parts[part].file
             /\ SendPiece(n, 1 + SizeOf(part), Closed, TRUE)
    <2>1. 1 + SizeOf(part) \in Nat
      BY <1>3, <1>6
    <2>2. ~unreadable =>
            handed + (1 + SizeOf(part)) + 0
              = LengthUpTo(Parts)[part - 1] + 1 + SizeOf(part)
      BY <1>2, <1>3, <1>4, <1>6
    <2> QED  BY <1>1, <1>6, <2>1, <2>2, SendPieceBody
  <1>7. CASE /\ part <= Len(Parts) /\ file = Closed /\ Parts[part].file
             /\ SendPiece(n, 1 + Read(SizeOf(part)), RestOf(SizeOf(part)),
                          AtEnd(SizeOf(part)))
    <2> DEFINE units == 1 + Read(SizeOf(part))
               rest == RestOf(SizeOf(part))
               finished == AtEnd(SizeOf(part))
    <2>1. SizeOf(part) \in Nat
      BY <1>3, <1>7
    <2>2. /\ Read(SizeOf(part)) \in Nat
          /\ finished => rest = Closed /\ Read(SizeOf(part)) = SizeOf(part)
          /\ ~finished => rest \in Nat /\ rest # Closed
                           /\ Read(SizeOf(part)) + rest = SizeOf(part)
      BY <2>1, ReadAndRest
    <2>3. finished \in BOOLEAN
      BY DEF AtEnd
    <2>4. SendPiece(n, units, rest, finished)
      BY <1>7
    <2> HIDE DEF rest, finished
    <2>5. /\ units \in Nat /\ rest \in Nat \cup {Closed}
          /\ (finished <=> rest = Closed) /\ (~finished => rest <= SizeOf(part))
      BY <2>1, <2>2, <2>3
    <2>6. ~unreadable =>
            handed + units + (IF finished THEN 0 ELSE rest)
              = LengthUpTo(Parts)[part - 1] + 1 + SizeOf(part)
      BY <1>2, <1>3, <1>4, <1>7, <2>1, <2>2
    <2> HIDE DEF units
    <2> QED  BY <1>1, <1>7, <2>3, <2>4, <2>5, <2>6, SendPieceBody
  <1>8. CASE /\ part <= Len(Parts) /\ file = Closed /\ CannotOpen
             /\ handed' = handed + 1 /\ pending' = pending - n + 1
             /\ status' = "complete" /\ UNCHANGED part
    BY <1>2, <1>8 DEF CannotOpen, MultipartInv
  <1>9. CASE /\ part <= Len(Parts) /\ file # Closed
             /\ SendPiece(n, Read(file), RestOf(file), AtEnd(file))
    <2> DEFINE units == Read(file)
               rest == RestOf(file)
               finished == AtEnd(file)
    <2>1. file \in Nat
      BY <1>2, <1>9
    <2>2. /\ units \in Nat
          /\ finished => rest = Closed /\ units = file
          /\ ~finished => rest \in Nat /\ rest # Closed /\ units + rest = file
      BY <2>1, ReadAndRest
    <2>3. finished \in BOOLEAN
      BY DEF AtEnd
    <2>4. SendPiece(n, units, rest, finished)
      BY <1>9
    <2> HIDE DEF rest, finished, units
    <2>5. rest \in Nat \cup {Closed} /\ (finished <=> rest = Closed)
      BY <2>1, <2>2, <2>3
    <2>6. ASSUME ~unreadable
          PROVE  handed + units + (IF finished THEN 0 ELSE rest)
                   = LengthUpTo(Parts)[part - 1] + 1 + SizeOf(part)
      <3> DEFINE x == LengthUpTo(Parts)[part - 1]
                 size == SizeOf(part)
                 left == IF finished THEN 0 ELSE rest
      <3>1. handed = x + 1 + size - file
        BY <1>4, <1>9, <2>6
      <3>2. units + left = file /\ left \in Nat
        BY <2>1, <2>2
      <3>3. x \in Nat /\ size \in Nat
        BY <1>3, <1>9
      <3> HIDE DEF x, size, left
      <3>4. handed + units + left = x + 1 + size
        BY <1>2, <2>2, <3>1, <3>2, <3>3, MoveOver
      <3> QED  BY <3>4 DEF x, size, left
    <2>7. ~unreadable /\ ~finished => rest <= SizeOf(part)
      BY <1>3, <1>4, <1>9, <2>1, <2>2
    <2> QED  BY <1>1, <1>9, <2>2, <2>3, <2>4, <2>5, <2>6, <2>7, SendPieceBody
  <1> QED  BY <1>5, <1>6, <1>7, <1>8, <1>9 DEF HandleMultipartWrote

LEMMA WroteBody ==
  ASSUME HttpInv, KindsInv, BodyInv, NEW n \in 1 .. MaxUnits, HandleWroteEvent(n)
  PROVE  BodyInv'
  <1>1. /\ conn = "open" /\ UNCHANGED <<setup, conn, length, headers>>
        /\ n <= pending
    BY DEF HandleWroteEvent, outside
  <1>2. n \in Nat /\ setup \in Setups
    BY Lengths, ClientAssumption DEF KindsInv, MaxUnits
  <1>3. /\ pending \in Nat /\ uploaded \in Nat
        /\ status \in {"connected", "sending", "complete"}
    BY <1>1 DEF BodyInv, MeasuresInv, PromiseInv
  <1>4. CASE /\ pending' = pending - n
             /\ UNCHANGED <<uploaded, handed, file, part, status, code, unreadable>>
    <2>1. pending' \in Nat
      BY <1>1, <1>2, <1>3, <1>4
    <2> QED  BY <1>1, <1>3, <1>4, <2>1, QuietBody
  <1>5. CASE /\ status # "complete"
             /\ proxyState \notin {"awaitingConnect", "awaitingTls"}
             /\ uploaded' = IF status # "connected" THEN uploaded + n
                            ELSE uploaded
             /\ HandleSimpleWrote(n) \/ HandleMultipartWrote(n)
    <2>1. /\ Parts' = Parts /\ ContentLength' = ContentLength
          /\ Single' = Single /\ Len(Parts) \in Nat
      BY <1>1, <1>2, SetupKept, Lengths
    <2>2. unreadable' \/ UNCHANGED unreadable
      BY <1>5 DEF HandleSimpleWrote, HandleMultipartWrote, SendPiece, CannotOpen
    <2>3. /\ handed' \in Nat /\ pending' \in Nat
          /\ file' \in Nat \cup {Closed} /\ part' \in 1 .. Len(Parts) + 1
          /\ SimpleInv' /\ MultipartInv' /\ status' \in {"sending", "complete"}
      <3>1. CASE HandleSimpleWrote(n)
        <4>1. part \in 1 .. Len(Parts) + 1
          BY DEF BodyInv, MeasuresInv
        <4> QED  BY <1>1, <1>2, <1>3, <1>5, <3>1, <4>1, SimpleWroteBody
      <3>2. CASE HandleMultipartWrote(n)
        <4>1. SimpleInv'
          BY <2>1, <3>2 DEF HandleMultipartWrote, SimpleInv
        <4> QED  BY <1>1, <1>2, <3>2, <4>1, MultipartWroteBody
      <3> QED  BY <1>5, <3>1, <3>2
    <2>4. MeasuresInv'
      BY <1>1, <1>2, <1>3, <1>5, <2>1, <2>3 DEF BodyInv, MeasuresInv
    <2>5. PromiseInv'
      <3>1. headers
        BY <1>1, <1>5 DEF HttpInv, HeadersInv
      <3> QED  BY <1>1, <2>1, <2>2, <2>3, <3>1 DEF BodyInv, PromiseInv
    <2> QED  BY <2>3, <2>4, <2>5 DEF BodyInv
  <1> QED  BY <1>4, <1>5 DEF HandleWroteEvent

AllInv == HttpInv /\ KindsInv /\ FlagsInv /\ BodyInv

LEMMA NextBody == AllInv /\ [Next]_vars => BodyInv'
  <1> SUFFICES ASSUME AllInv, [Next]_vars PROVE BodyInv'
    OBVIOUS
  <1>1. HttpInv /\ KindsInv /\ BodyInv
    BY DEF AllInv
  <1>2. CASE Reset
    BY <1>1, <1>2, ResetBody
  <1>3. CASE \/ Connect \/ IdlePoll \/ DoLoop \/ AfterLoop
             \/ HandleHttpHeaders \/ HandleErrorEvent \/ PeerClose
             \/ \E kind \in Replies : HandleMessageEvent(kind)
             \/ HandleConnectEventToProxy \/ Cancel \/ Tick
    BY <1>1, <1>3, QuietStepsBody
  <1>4. CASE HandleConnectEventDirect \/ HandleTlsHandshakeEvent
    BY <1>1, <1>4, SendHeadersBody
  <1>5. CASE \E n \in 1 .. MaxUnits : HandleWroteEvent(n)
    BY <1>1, <1>5, WroteBody
  <1>6. CASE UNCHANGED vars
    <2>1. /\ UNCHANGED <<setup, length, part, file, headers, handed, unreadable,
                         uploaded, pending, status, conn>>
          /\ uploaded \in Nat /\ pending \in Nat
      BY <1>1, <1>6 DEF vars, BodyInv, MeasuresInv
    <2>2. conn = "open" => status \in {status, "complete"}
      OBVIOUS
    <2> QED  BY <1>1, <2>1, <2>2, QuietBody
  <1> QED  BY <1>2, <1>3, <1>4, <1>5, <1>6 DEF Next, Run, Handlers

THEOREM HttpAllInvariant == Spec => []AllInv
  <1>1. Init => AllInv
    BY InitHttpInv, InitKinds, InitBody DEF AllInv
  <1>2. AllInv /\ [Next]_vars => AllInv'
    BY NextHttpInv, NextKinds, NextFlags, NextBody DEF AllInv
  <1> QED  BY <1>1, <1>2, PTL DEF Spec

(* Types, with the bounds they state: no more redirects than kMaxRedirects *)
(* and one connection more, no Content-Length above that of the whole      *)
(* body, and no part behind the last.                                      *)
THEOREM HttpTypeOK == Spec => []TypeOK
  <1>1. AllInv => TypeOK
    <2> SUFFICES ASSUME AllInv PROVE TypeOK
      OBVIOUS
    <2>1. hops \in 0 .. MaxRedirects + 1 /\ redirects \in 0 .. MaxRedirects
      BY ClientAssumption DEF AllInv, HttpInv, HopsInv
    <2>2. KindsInv /\ FlagsInv /\ MeasuresInv
      BY DEF AllInv, BodyInv
    <2> QED  BY <2>1, <2>2 DEF TypeOK, KindsInv, FlagsInv, MeasuresInv
  <1> QED  BY <1>1, HttpAllInvariant, PTL

(* Whatever the sizes of the parts are against the buffer of SendFile, on  *)
(* every hop and with every write event: no more of the body is handed to  *)
(* the connection than Content-Length promised, and no less once the last  *)
(* piece is sent.                                                          *)
THEOREM HttpBodyIsContentLength == Spec => []BodyIsContentLength
  <1>1. AllInv => BodyIsContentLength
    <2> SUFFICES ASSUME AllInv, ~unreadable
                 PROVE  handed <= length /\ (BodyIsSent => handed = length)
      BY DEF BodyIsContentLength
    <2>1. setup \in Setups /\ BodyInv /\ TunnelFirst
      BY DEF AllInv, KindsInv, HttpInv
    <2>2. /\ handed \in Nat /\ length \in Nat /\ ContentLength \in Nat
          /\ file \in Nat \cup {Closed} /\ part \in 1 .. Len(Parts) + 1
          /\ Len(Parts) \in Nat
      BY <2>1, Lengths DEF BodyInv, MeasuresInv
    <2>3. CASE ~headers
      BY <2>1, <2>2, <2>3 DEF TunnelFirst, BodyIsSent
    <2>4. CASE headers /\ Single
      <3>1. length = SizeOf(1)
        BY <2>1, <2>4, Lengths DEF BodyInv, PromiseInv
      <3>2. /\ handed + Rest <= SizeOf(1)
            /\ status = "sending" => handed + Rest = SizeOf(1)
        BY <2>1, <2>4 DEF BodyInv, SimpleInv
      <3> QED  BY <2>2, <2>4, <3>1, <3>2 DEF BodyIsSent, Rest, Closed
    <2>5. CASE headers /\ ~Single
      <3>1. length = ContentLength
        BY <2>1, <2>5 DEF BodyInv, PromiseInv
      <3>2. part > Len(Parts) => handed = ContentLength
        BY <2>1, <2>5 DEF BodyInv, MultipartInv
      <3>3. ASSUME part <= Len(Parts) PROVE handed <= ContentLength
        <4> DEFINE x == LengthUpTo(Parts)[part - 1]
                   size == SizeOf(part)
        <4>1. /\ part \in 1 .. Len(Parts) /\ part - 1 \in 0 .. Len(Parts)
              /\ Parts \in PartsSet
          BY <2>1, <2>2, <3>3, ClientAssumption DEF Parts, PartsSet
        <4>2. x \in Nat /\ size \in Nat /\ LengthUpTo(Parts)[part] = x + 2 + size
          BY <2>1, <4>1, Lengths
        <4>3. LengthUpTo(Parts)[part] <= LengthUpTo(Parts)[Len(Parts)]
          BY <2>2, <4>1, LengthGrows
        <4>4. /\ ContentLength = LengthUpTo(Parts)[Len(Parts)] + 1
              /\ LengthUpTo(Parts)[Len(Parts)] \in Nat
          BY <2>1, <2>2, <2>5, <4>1, Lengths
        <4>5. \/ handed = x
              \/ file \in Nat /\ handed = x + 1 + size - file
          BY <2>1, <2>2, <2>5, <3>3 DEF BodyInv, MultipartInv
        <4> HIDE DEF x, size
        <4> QED  BY <2>2, <4>2, <4>3, <4>4, <4>5
      <3> QED  BY <2>2, <2>5, <3>1, <3>2, <3>3 DEF BodyIsSent
    <2> QED  BY <2>3, <2>4, <2>5
  <1> QED  BY <1>1, HttpAllInvariant, PTL

=============================================================================
