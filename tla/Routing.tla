------------------------------- MODULE Routing -------------------------------
(***************************************************************************)
(* Which answer MongooseServer gives to an HTTP request: the tables that   *)
(* AddEndpoint, AddEndpointEx, AddWebsocketEndpoint and the authorization  *)
(* setters build, and the way EventHttp goes through them.                 *)
(*                                                                         *)
(* An endpoint is a sequence of tokens, "/" or a path segment. Tables are  *)
(* keyed by the endpoint in upper case (case_ins_less, end_less); segments *)
(* are compared as they are written. Every call holds m_mutexEndpoints, or *)
(* m_mutexWebsocketEndpoints, from its first read to its last write, and a *)
(* request that is not threaded is answered in one event of the server     *)
(* thread, so that a call and a request are one step each. Websockets are  *)
(* enabled, and the not-found callback and the static root are set before  *)
(* the server runs.                                                        *)
(***************************************************************************)
EXTENDS Naturals, Sequences, SequencesExt, FiniteSets

CONSTANTS
    Methods,     \* HTTP methods of endpoints
    Plain,       \* endpoints for AddEndpoint
    Patterns,    \* endpoints for AddEndpointEx, a sequence in map order
    WsPoints,    \* endpoints for AddWebsocketEndpoint
    Given,       \* the sets of callbacks that it is called with
    Users,       \* user names
    Requests,    \* what clients ask for, see Request below
    Unprotected, \* sets of methodpoints for SetUnprotectedEndpoints
    Redirects,   \* types for OverallRedirect
    ApiRoot,     \* m_ApiRoot
    Pages,       \* endpoints with a file under the static root
    Upper,       \* the upper case of each token
    Longer,      \* pairs of tokens of which the first begins with the second
    Beyond,      \* what std::vector gives behind its end
    Anonymous, Token,   \* credentials that name no user
    MaxCalls     \* changes to the tables in a run (bounds the model)

ASSUME RoutingAssumption ==
    /\ MaxCalls \in Nat
    /\ Token \notin Users /\ Anonymous \notin Users /\ Token # Anonymous
    /\ Given \subseteq SUBSET {"auth", "open", "message", "close"}
    /\ Redirects \subseteq {"none", "permanent", "temporary", "unavailable"}
    /\ \A r \in Requests :
         /\ r.method \in Methods \cup {"OPTIONS"}
         /\ r.multipart \in BOOLEAN
         /\ r.creds \in Users \cup {Token, Anonymous}
         /\ r.uri \in Seq(DOMAIN Upper) \ {<<>>}
    /\ Plain \subseteq Seq(DOMAIN Upper)
    /\ Patterns \in Seq(Seq(DOMAIN Upper))
    /\ \A S \in Unprotected : \A b \in S : b.ep \in Seq(DOMAIN Upper)

VARIABLES
    endpoints,   \* m_mEndpoints
    options,     \* m_mmOptions, a bag
    exs,         \* m_mEndpointExs: the methods of mCallbacks per pattern
    ws,          \* the four maps of websocket callbacks
    users,       \* the names in m_mUsers
    token,       \* m_tokenCallback is set
    handler,     \* m_tokenCallbackHandleNotAuthorized is set
    unprotected, \* m_setUnprotected
    redirect,    \* m_redirectType
    notFound,    \* m_callbackNotFound is set
    staticRoot,  \* m_sStaticRootDir is not empty
    calls,       \* changes made so far
    result,      \* history: the call just made and what it returned
    last         \* history: the request just answered and what was sent

tables == <<endpoints, options, exs, ws>>
authVars == <<users, token, handler, unprotected>>
siteVars == <<redirect, notFound, staticRoot>>
vars == <<tables, authVars, siteVars, calls, result, last>>

PatternSet == {Patterns[k] : k \in 1 .. Len(Patterns)}
Methodpoint == [method : Methods, ep : Plain \cup PatternSet]
WsMaps == {"auth", "open", "message", "close"}
NoCall == <<"none", FALSE>>
NoRequest == [req |-> Anonymous, sent |-> "none", detail |-> <<>>]

Fold(e) == [k \in 1 .. Len(e) |-> Upper[e[k]]]
SameKey(e, f) == Fold(e) = Fold(f)
SamePoint(a, b) == a.method = b.method /\ SameKey(a.ep, b.ep)

(* What a loop over e has pushed back after n steps when it keeps what is  *)
(* at the places in K, and what it has at the end.                         *)
KeptUpTo(e, K) ==
    LET kept[n \in 0 .. Len(e)] ==
            IF n = 0 THEN <<>>
            ELSE IF n \in K THEN Append(kept[n - 1], e[n]) ELSE kept[n - 1]
    IN kept

Kept(e, K) == KeptUpTo(e, K)[Len(e)]

(* split_string(e, '/').                                                   *)
Segments(e) == Kept(e, {k \in 1 .. Len(e) : e[k] # "/"})

Init ==
    /\ endpoints = {} /\ options = EmptyBag /\ exs = [p \in {} |-> {}]
    /\ ws = [m \in WsMaps |-> {}]
    /\ users = {} /\ token = FALSE /\ handler = FALSE /\ unprotected = {}
    /\ redirect = "none" /\ notFound \in BOOLEAN /\ staticRoot \in BOOLEAN
    /\ calls = 0
    /\ result = NoCall
    /\ last = NoRequest

Call(name, ok) ==
    /\ calls < MaxCalls
    /\ calls' = calls + 1
    /\ result' = <<name, ok>>
    /\ last' = NoRequest

-----------------------------------------------------------------------------
(* The tables of endpoints.                                                *)
AddEndpoint(a) ==
    LET New == ~\E b \in endpoints : SamePoint(a, b)
    IN /\ Call("AddEndpoint", New)
       /\ endpoints' = IF New THEN endpoints \cup {a} ELSE endpoints
       /\ options' = IF New THEN options (+) SetToBag({a}) ELSE options
       /\ UNCHANGED <<exs, ws, authVars, siteVars>>

(* A faulty DeleteEndpoint: m_mmOptions is forgotten.                      *)
DeleteEndpointOnly(a) ==
    /\ Call("DeleteEndpoint", \E b \in endpoints : SamePoint(a, b))
    /\ endpoints' = {b \in endpoints : ~SamePoint(a, b)}
    /\ UNCHANGED <<options, exs, ws, authVars, siteVars>>

(* multimap::erase takes every method of the endpoint.                     *)
DeleteEndpoint(a) ==
    /\ Call("DeleteEndpoint", \E b \in endpoints : SamePoint(a, b))
    /\ endpoints' = {b \in endpoints : ~SamePoint(a, b)}
    /\ options' = Restrict(options, {b \in DOMAIN options : ~SameKey(a.ep, b.ep)})
    /\ UNCHANGED <<exs, ws, authVars, siteVars>>

(* "**" only at the end, and at least one segment.                         *)
WellFormed(p) ==
    /\ \A k \in 1 .. Len(p) : p[k] = "**" => k = Len(p)
    /\ Segments(p) # <<>>

AddEndpointEx(p, m) ==
    LET Same == {q \in DOMAIN exs : SameKey(p, q)}
        New == WellFormed(p) /\ \A q \in Same : m \notin exs[q]
    IN /\ Call("AddEndpointEx", New)
       /\ exs' = IF ~New THEN exs
                 ELSE IF Same = {}
                 THEN [q \in DOMAIN exs \cup {p} |->
                          IF q = p THEN {m} ELSE exs[q]]
                 ELSE [q \in DOMAIN exs |->
                          IF q \in Same THEN exs[q] \cup {m} ELSE exs[q]]
       /\ UNCHANGED <<endpoints, options, ws, authVars, siteVars>>

(* A faulty DeleteEndpointEx: a pattern without methods stays.             *)
DeleteMethodEx(p, m) ==
    LET Same == {q \in DOMAIN exs : SameKey(p, q) /\ m \in exs[q]}
    IN /\ Call("DeleteEndpointEx", Same # {})
       /\ exs' = [q \in DOMAIN exs |-> exs[q] \ (IF q \in Same THEN {m} ELSE {})]
       /\ UNCHANGED <<endpoints, options, ws, authVars, siteVars>>

DeleteEndpointEx(p, m) ==
    LET Same == {q \in DOMAIN exs : SameKey(p, q) /\ m \in exs[q]}
        Rest == {q \in DOMAIN exs : q \notin Same \/ exs[q] # {m}}
    IN /\ Call("DeleteEndpointEx", Same # {})
       /\ exs' = [q \in Rest |-> IF q \in Same THEN exs[q] \ {m} ELSE exs[q]]
       /\ UNCHANGED <<endpoints, options, ws, authVars, siteVars>>

(* The maps are tried in turn for the callbacks that are given; the first  *)
(* that has the endpoint ends the call.                                    *)
Order == <<"auth", "open", "message", "close">>

AddWebsocketEndpoint(e, given) ==
    LET Taken(m) == m \in given /\ \E f \in ws[m] : SameKey(e, f)
        Reached(k) == \A j \in 1 .. k : ~Taken(Order[j])
        Added == {Order[k] : k \in {j \in 1 .. 4 : Reached(j)}} \cap given
    IN /\ Call("AddWebsocketEndpoint", Reached(4))
       /\ ws' = [m \in WsMaps |-> IF m \in Added THEN ws[m] \cup {e} ELSE ws[m]]
       /\ UNCHANGED <<endpoints, options, exs, authVars, siteVars>>

RemoveWebsocketEndpoint(e) ==
    /\ Call("RemoveWebsocketEndpoint", TRUE)
    /\ ws' = [m \in WsMaps |-> {f \in ws[m] : ~SameKey(e, f)}]
    /\ UNCHANGED <<endpoints, options, exs, authVars, siteVars>>

-----------------------------------------------------------------------------
(* Authorization and the rest of the configuration.                        *)
AddBAUser(u) ==
    /\ Call("AddBAUser", ~token /\ u \in users)
    /\ users' = IF token THEN users ELSE users \cup {u}
    /\ UNCHANGED <<tables, token, handler, unprotected, siteVars>>

DeleteBAUser(u) ==
    /\ Call("DeleteBAUser", ~token)
    /\ users' = IF token THEN users ELSE users \ {u}
    /\ UNCHANGED <<tables, token, handler, unprotected, siteVars>>

SetAuthorizationTypeBearer ==
    /\ Call("SetAuthorizationTypeBearer", TRUE)
    /\ users' = {} /\ token' = TRUE /\ handler' \in BOOLEAN
    /\ UNCHANGED <<tables, unprotected, siteVars>>

SetAuthorizationTypeBasic(u) ==
    /\ Call("SetAuthorizationTypeBasic", TRUE)
    /\ token' = FALSE /\ users' = users \cup {u}
    /\ UNCHANGED <<tables, handler, unprotected, siteVars>>

SetAuthorizationTypeNone ==
    /\ Call("SetAuthorizationTypeNone", TRUE)
    /\ token' = FALSE /\ users' = {}
    /\ UNCHANGED <<tables, handler, unprotected, siteVars>>

SetUnprotectedEndpoints(S) ==
    /\ Call("SetUnprotectedEndpoints", TRUE)
    /\ unprotected' = S
    /\ UNCHANGED <<tables, users, token, handler, siteVars>>

OverallRedirect(type) ==
    /\ Call("OverallRedirect", TRUE)
    /\ redirect' = type
    /\ UNCHANGED <<tables, authVars, notFound, staticRoot>>

-----------------------------------------------------------------------------
(* Requests. GetMethodPoint takes one "/" off the end, then makes one of   *)
(* adjacent ones.                                                          *)
WithoutLast(u) == IF Len(u) > 1 /\ Last(u) = "/" THEN Front(u) ELSE u

SingleSlashes(u) ==
    Kept(u, {k \in 1 .. Len(u) : k = 1 \/ u[k] # "/" \/ u[k - 1] # "/"})

GetMethodPoint(r) ==
    [method |-> r.method, ep |-> SingleSlashes(WithoutLast(r.uri))]

(* The string of the endpoint begins with the string of the root.          *)
InApiTree(e) ==
    LET n == Len(ApiRoot)
    IN /\ Len(e) >= n
       /\ Front(ApiRoot) = SubSeq(e, 1, n - 1)
       /\ e[n] = Last(ApiRoot) \/ <<e[n], Last(ApiRoot)>> \in Longer

(* A faulty MethodPointUnprotected: whatever the method.                   *)
AnyMethodUnprotected(a) ==
    LET v == Segments(a.ep)
    IN \E b \in unprotected :
         LET s == Segments(b.ep)
         IN \/ SameKey(a.ep, b.ep)
            \/ /\ s # <<>> /\ Last(s) = "*" /\ Len(s) <= Len(v)
               /\ \A k \in 1 .. Len(s) - 1 : s[k] = v[k]

MethodPointUnprotected(a) ==
    LET v == Segments(a.ep)
    IN \/ \E b \in unprotected : SamePoint(a, b)
       \/ \E b \in unprotected :
            LET s == Segments(b.ep)
            IN /\ b.method = a.method
               /\ s # <<>>
               /\ Last(s) = "*"
               /\ Len(s) <= Len(v)
               /\ \A k \in 1 .. Len(s) - 1 : s[k] = v[k]

CheckAuthorization(r) ==
    \/ MethodPointUnprotected(GetMethodPoint(r))
    \/ token /\ r.creds = Token
    \/ ~token /\ users # {} /\ r.creds \in users
    \/ ~token /\ users = {}

(* A faulty Matches: "*" is a literal.                                     *)
MatchesLiterally(p, v) == Segments(p) = v

(* FindEndpointEx: the first pattern in map order whose length fits and    *)
(* whose literal segments agree, and the segments its wildcards stand for. *)
(* The loop for "**" moves on before it reads.                             *)
Matches(p, v) ==
    LET s == Segments(p)
    IN /\ IF Last(s) = "**" THEN Len(v) >= Len(s) ELSE Len(v) = Len(s)
       /\ \A k \in 1 .. Len(s) : s[k] \in {"*", "**"} \/ s[k] = v[k]

(* The places of "*" in a pattern, and the segments there.                 *)
Stars(s) == {k \in 1 .. Len(s) : s[k] = "*"}

(* A faulty Singles: indexed by the wildcards instead of the segments.     *)
SinglesFromStart(s, v) == SubSeq(v, 1, Cardinality(Stars(s)))

Singles(s, v) == Kept(v, Stars(s))

WildSegments(p, v) ==
    LET s == Segments(p)
    IN Singles(s, v) \o
         IF Last(s) = "**"
         THEN Append(SubSeq(v, Len(s) + 1, Len(v)), Beyond)
         ELSE <<>>

Candidates(e) ==
    {k \in 1 .. Len(Patterns) :
        Patterns[k] \in DOMAIN exs /\ Matches(Patterns[k], Segments(e))}

FindEndpointEx(e) ==
    {Patterns[k] : k \in {j \in Candidates(e) :
                            \A i \in Candidates(e) : j <= i}}

Send(r, kind, detail) == last' = [req |-> r, sent |-> kind, detail |-> detail]

SendRedirect(r) ==
    /\ redirect # "none"
    /\ Send(r, "redirect", redirect)

(* The methods of the endpoint in m_mmOptions, else those of the pattern   *)
(* that matches, else 404.                                                 *)
SendOptions(r) ==
    LET e == GetMethodPoint(r).ep
        Of == {a.method : a \in {b \in DOMAIN options : SameKey(b.ep, e)}}
    IN /\ redirect = "none"
       /\ r.method = "OPTIONS"
       /\ \/ Of # {} /\ Send(r, "options", Of)
          \/ /\ Of = {}
             /\ \E p \in FindEndpointEx(e) : Send(r, "options", exs[p])
          \/ /\ Of = {} /\ FindEndpointEx(e) = {}
             /\ Send(r, "404", <<>>)

Routed(r) == redirect = "none" /\ r.method # "OPTIONS"

IsWsEndpoint(e) == \E f \in ws["auth"] : SameKey(e, f)

Upgrade(r) ==
    LET e == GetMethodPoint(r).ep
    IN /\ Routed(r) /\ InApiTree(e) /\ IsWsEndpoint(e)
       /\ Send(r, "upgrade", <<>>)

SendAuthenticationRequest(r) ==
    LET e == GetMethodPoint(r).ep
    IN /\ Routed(r) /\ ~(InApiTree(e) /\ IsWsEndpoint(e))
       /\ ~CheckAuthorization(r)
       /\ Send(r, "401", IF ~token THEN "basic"
                         ELSE IF handler THEN "application" ELSE "plain")

(* EventHttpApi and EventHttpApiMultipart, which does not look at the      *)
(* patterns.                                                               *)
Exact(a) == \E b \in endpoints : SamePoint(a, b)

Wild(r) ==
    LET a == GetMethodPoint(r)
    IN IF r.multipart THEN {}
       ELSE {p \in FindEndpointEx(a.ep) : a.method \in exs[p]}

CallApi(r) ==
    LET a == GetMethodPoint(r)
    IN /\ Routed(r) /\ InApiTree(a.ep) /\ ~IsWsEndpoint(a.ep)
       /\ CheckAuthorization(r)
       /\ \/ Exact(a) /\ Send(r, "callback", a.ep)
          \/ /\ ~Exact(a)
             /\ \E p \in Wild(r) :
                   Send(r, "callbackEx", <<p, WildSegments(p, Segments(a.ep))>>)
          \/ /\ ~Exact(a) /\ Wild(r) = {}
             /\ Send(r, IF notFound THEN "notFound" ELSE "404", <<>>)

(* Outside the api tree: a file, or nothing at all.                        *)
StaticPage(r) ==
    LET e == GetMethodPoint(r).ep
    IN /\ Routed(r) /\ ~InApiTree(e)
       /\ CheckAuthorization(r)
       /\ \/ staticRoot /\ e \in Pages /\ Send(r, "page", e)
          \/ ~(staticRoot /\ e \in Pages) /\ Send(r, "nothing", <<>>)

EventHttp(r) ==
    /\ \/ SendRedirect(r) \/ SendOptions(r) \/ Upgrade(r)
       \/ SendAuthenticationRequest(r) \/ CallApi(r) \/ StaticPage(r)
    /\ result' = NoCall
    /\ UNCHANGED <<tables, authVars, siteVars, calls>>

Next ==
    \/ \E m \in Methods, e \in Plain :
          LET a == [method |-> m, ep |-> e]
          IN AddEndpoint(a) \/ DeleteEndpoint(a)
    \/ \E m \in Methods, p \in PatternSet :
          AddEndpointEx(p, m) \/ DeleteEndpointEx(p, m)
    \/ \E e \in WsPoints, given \in Given :
          AddWebsocketEndpoint(e, given)
    \/ \E e \in WsPoints : RemoveWebsocketEndpoint(e)
    \/ \E u \in Users :
          AddBAUser(u) \/ DeleteBAUser(u) \/ SetAuthorizationTypeBasic(u)
    \/ SetAuthorizationTypeBearer
    \/ SetAuthorizationTypeNone
    \/ \E S \in Unprotected : SetUnprotectedEndpoints(S)
    \/ \E type \in Redirects : OverallRedirect(type)
    \/ \E r \in Requests : EventHttp(r)

Spec == Init /\ [][Next]_vars

-----------------------------------------------------------------------------
TypeOK ==
    /\ endpoints \subseteq Methodpoint
    /\ IsABag(options) /\ DOMAIN options \subseteq Methodpoint
    /\ DOMAIN exs \subseteq PatternSet
    /\ \A p \in DOMAIN exs : exs[p] \subseteq Methods /\ exs[p] # {}
    /\ ws \in [WsMaps -> SUBSET WsPoints]
    /\ users \subseteq Users
    /\ token \in BOOLEAN /\ handler \in BOOLEAN
    /\ unprotected \in Unprotected \cup {{}}
    /\ redirect \in Redirects \cup {"none"}
    /\ notFound \in BOOLEAN /\ staticRoot \in BOOLEAN
    /\ calls \in 0 .. MaxCalls
    /\ last.req \in Requests \cup {Anonymous}

Path(r) == Segments(r.uri)

(* m_mmOptions never advertises what m_mEndpoints does not have: every     *)
(* method in it has a callback, and is there once, in one spelling of its  *)
(* endpoint, through any sequence of additions and deletions.              *)
OptionsAreRegistered ==
    \A a \in DOMAIN options :
        /\ a \in endpoints /\ options[a] = 1
        /\ \A b \in DOMAIN options : SamePoint(a, b) => a = b

(* RestGoose.h: the strings passed to the callback "represent the matched  *)
(* path segments for the wild cards": put back in their places they give   *)
(* the path that was asked for, and none is left over. Not so for "**".    *)
Wilds(s, k) == Cardinality({j \in 1 .. k : s[j] = "*"})

Rebuilt(s, segments) ==
    [k \in 1 .. Len(s) |-> IF s[k] = "*" THEN segments[Wilds(s, k)] ELSE s[k]]

WildcardsRebuildPath ==
    last.sent = "callbackEx" =>
        LET s == Segments(last.detail[1])
            segments == last.detail[2]
        IN Last(s) # "**" =>
             /\ Rebuilt(s, segments) = Path(last.req)
             /\ Len(segments) = Wilds(s, Len(s))

(* Whoever is served has shown credentials that are valid now, or asked    *)
(* for a methodpoint under an unprotected one, or the server has neither   *)
(* users nor a token callback.                                             *)
Covers(b, a) ==
    LET s == Segments(b.ep) v == Segments(a.ep)
    IN \/ SamePoint(a, b)
       \/ /\ a.method = b.method
          /\ \E prefix \in {SubSeq(v, 1, n) : n \in 0 .. Len(v) - 1} :
                s = Append(prefix, "*")

OnlyAuthorisedAreServed ==
    last.sent \in {"callback", "callbackEx", "notFound", "page"} =>
        \/ last.req.creds = Token /\ token
        \/ last.req.creds \in users
        \/ users = {} /\ ~token
        \/ \E b \in unprotected : Covers(b, GetMethodPoint(last.req))

(* README: not-found is for requests "that has no EndpointCallback         *)
(* assigned". A request for an exact methodpoint is never sent it, and one *)
(* that is not multipart is not sent it either when a single pattern, read *)
(* as RestGoose.h explains it, matches and has the method. (Not ? nor *   *)
(* inside a segment, which the code compares as they are written.)         *)
DocumentedMatch(p, v) ==
    LET s == Segments(p)
    IN /\ Len(v) = Len(s) \/ (Last(s) = "**" /\ Len(v) > Len(s))
       /\ \A k \in 1 .. Len(s) : s[k] \in {"*", "**", v[k]}

NotFoundIsHonest ==
    last.sent \in {"notFound", "404"} /\ last.req.method # "OPTIONS" =>
        LET Matching == {p \in DOMAIN exs : DocumentedMatch(p, Path(last.req))}
        IN /\ ~Exact(GetMethodPoint(last.req))
           /\ \A p \in Matching :
                 last.req.method \in exs[p] => last.req.multipart \/ Matching # {p}
=============================================================================
