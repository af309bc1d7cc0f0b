---------------------------- MODULE RoutingProofs ----------------------------
(***************************************************************************)
(* Proofs about Routing, for any methods, endpoints, patterns, users and   *)
(* requests and any number of changes to the tables: what is advertised    *)
(* has a callback, who is served was authorised, a request with a callback *)
(* is not told that there is none, and wildcards stand for the segments    *)
(* that were asked for.                                                    *)
(***************************************************************************)
EXTENDS Routing, FiniteSetTheorems, TLAPS

(* m_mEndpoints and m_mmOptions agree, entry by entry and once each.       *)
TablesInv ==
    /\ \A a, b \in endpoints : SamePoint(a, b) => a = b
    /\ DOMAIN options \subseteq endpoints
    /\ options \in [DOMAIN options -> {1}]

FlagsInv ==
    /\ token \in BOOLEAN /\ handler \in BOOLEAN
    /\ notFound \in BOOLEAN /\ staticRoot \in BOOLEAN

(* The rest of TypeOK.                                                     *)
KindsInv ==
    /\ endpoints \subseteq Methodpoint
    /\ DOMAIN exs \subseteq PatternSet
    /\ \A p \in DOMAIN exs : exs[p] \subseteq Methods /\ exs[p] # {}
    /\ ws \in [WsMaps -> SUBSET WsPoints]
    /\ users \subseteq Users
    /\ unprotected \in Unprotected \cup {{}}
    /\ redirect \in Redirects \cup {"none"}
    /\ calls \in 0 .. MaxCalls
    /\ last.req \in Requests \cup {Anonymous}

-----------------------------------------------------------------------------
(* The tables of endpoints.                                                *)
LEMMA SamePointEq ==
  ASSUME NEW a, NEW b
  PROVE  SamePoint(a, a) /\ (SamePoint(a, b) => SamePoint(b, a))
  BY DEF SamePoint, SameKey

LEMMA InitTables == Init => TablesInv
  BY DEF Init, TablesInv, EmptyBag, SetToBag

LEMMA AddEndpointTables ==
  ASSUME TablesInv, NEW a, AddEndpoint(a) PROVE TablesInv'
  <1>1. CASE \E b \in endpoints : SamePoint(a, b)
    BY <1>1 DEF AddEndpoint, TablesInv
  <1>2. CASE ~\E b \in endpoints : SamePoint(a, b)
    <2>1. /\ endpoints' = endpoints \cup {a}
          /\ options' = options (+) SetToBag({a})
      BY <1>2 DEF AddEndpoint
    <2>2. a \notin DOMAIN options
      BY <1>2, SamePointEq DEF TablesInv
    <2>3. /\ DOMAIN options' = DOMAIN options \cup {a}
          /\ \A b \in DOMAIN options' :
               options'[b] = IF b = a THEN 0 + 1 ELSE options[b] + 0
      BY <2>1, <2>2 DEF (+), SetToBag
    <2>4. options' \in [DOMAIN options' -> {1}]
      <3>1. \A b \in DOMAIN options' : options'[b] = 1
        BY <2>2, <2>3 DEF TablesInv
      <3> QED  BY <2>1, <2>3, <3>1 DEF (+)
    <2>5. \A b, c \in endpoints' : SamePoint(b, c) => b = c
      BY <1>2, <2>1, SamePointEq DEF TablesInv
    <2> QED  BY <2>1, <2>3, <2>4, <2>5 DEF TablesInv
  <1> QED  BY <1>1, <1>2

LEMMA DeleteEndpointTables ==
  ASSUME TablesInv, NEW a, DeleteEndpoint(a) PROVE TablesInv'
  <1>1. /\ DOMAIN options' = {b \in DOMAIN options : ~SameKey(a.ep, b.ep)}
        /\ \A b \in DOMAIN options' : options'[b] = options[b]
        /\ endpoints' = {b \in endpoints : ~SamePoint(a, b)}
    BY DEF DeleteEndpoint, Restrict
  <1>2. \A b : ~SameKey(a.ep, b.ep) => ~SamePoint(a, b)
    BY DEF SamePoint
  <1>3. options' \in [DOMAIN options' -> {1}]
    BY <1>1 DEF TablesInv, DeleteEndpoint, Restrict
  <1> QED  BY <1>1, <1>2, <1>3 DEF TablesInv

LEMMA NextTables == TablesInv /\ [Next]_vars => TablesInv'
  <1> SUFFICES ASSUME TablesInv, [Next]_vars PROVE TablesInv'
    OBVIOUS
  <1>1. CASE UNCHANGED <<endpoints, options>>
    BY <1>1 DEF TablesInv
  <1>2. ASSUME NEW a, AddEndpoint(a) \/ DeleteEndpoint(a) PROVE TablesInv'
    BY <1>2, AddEndpointTables, DeleteEndpointTables
  <1> QED
    BY <1>1, <1>2
       DEF Next, AddEndpointEx, DeleteEndpointEx, AddWebsocketEndpoint,
           RemoveWebsocketEndpoint, AddBAUser, DeleteBAUser,
           SetAuthorizationTypeBasic, SetAuthorizationTypeBearer,
           SetAuthorizationTypeNone, SetUnprotectedEndpoints, OverallRedirect,
           EventHttp, tables, vars

(* No method is advertised that has no callback, and none twice, through   *)
(* any additions and deletions in any spelling of an endpoint.             *)
THEOREM RoutingOptionsAreRegistered == Spec => []OptionsAreRegistered
  <1>1. TablesInv => OptionsAreRegistered
    BY DEF TablesInv, OptionsAreRegistered
  <1> QED  BY <1>1, InitTables, NextTables, PTL DEF Spec

-----------------------------------------------------------------------------
LEMMA InitKinds == Init => KindsInv /\ FlagsInv
  <1> SUFFICES ASSUME Init PROVE KindsInv /\ FlagsInv
    OBVIOUS
  <1>1. FlagsInv
    BY DEF Init, FlagsInv
  <1>2. calls \in 0 .. MaxCalls
    BY RoutingAssumption DEF Init
  <1>3. last.req = Anonymous
    BY DEF Init, NoRequest
  <1> QED  BY <1>1, <1>2, <1>3 DEF Init, KindsInv

LEMMA CallKinds ==
  ASSUME KindsInv, NEW name, NEW ok, Call(name, ok)
  PROVE  calls' \in 0 .. MaxCalls /\ last'.req = Anonymous
  <1>1. MaxCalls \in Nat
    BY RoutingAssumption
  <1> QED  BY <1>1 DEF KindsInv, Call, NoRequest

(* The calls that change a table.                                          *)
LEMMA TablesKinds ==
  ASSUME KindsInv,
         \/ \E m \in Methods, e \in Plain :
              LET a == [method |-> m, ep |-> e]
              IN AddEndpoint(a) \/ DeleteEndpoint(a)
         \/ \E m \in Methods, p \in PatternSet :
              AddEndpointEx(p, m) \/ DeleteEndpointEx(p, m)
         \/ \E e \in WsPoints, given \in Given : AddWebsocketEndpoint(e, given)
         \/ \E e \in WsPoints : RemoveWebsocketEndpoint(e)
  PROVE  KindsInv'
  <1> USE CallKinds DEF KindsInv, authVars, siteVars
  <1>1. ASSUME NEW a \in Methodpoint, AddEndpoint(a) \/ DeleteEndpoint(a)
        PROVE  KindsInv'
    BY <1>1 DEF AddEndpoint, DeleteEndpoint
  <1>2. ASSUME NEW m \in Methods, NEW p \in PatternSet, AddEndpointEx(p, m)
        PROVE  KindsInv'
    <2>1. /\ DOMAIN exs' \subseteq PatternSet
          /\ \A q \in DOMAIN exs' : exs'[q] \subseteq Methods /\ exs'[q] # {}
      BY <1>2 DEF AddEndpointEx
    <2> QED  BY <1>2, <2>1 DEF AddEndpointEx
  <1>3. ASSUME NEW m \in Methods, NEW p \in PatternSet, DeleteEndpointEx(p, m)
        PROVE  KindsInv'
    <2>1. /\ DOMAIN exs' \subseteq PatternSet
          /\ \A q \in DOMAIN exs' : exs'[q] \subseteq Methods /\ exs'[q] # {}
      BY <1>3 DEF DeleteEndpointEx
    <2> QED  BY <1>3, <2>1 DEF DeleteEndpointEx
  <1>4. ASSUME NEW e \in WsPoints, NEW given \in Given,
               AddWebsocketEndpoint(e, given)
        PROVE  KindsInv'
    <2>1. ws' \in [WsMaps -> SUBSET WsPoints]
      BY <1>4 DEF AddWebsocketEndpoint
    <2> QED  BY <1>4, <2>1 DEF AddWebsocketEndpoint
  <1>5. ASSUME NEW e \in WsPoints, RemoveWebsocketEndpoint(e) PROVE KindsInv'
    <2>1. ws' \in [WsMaps -> SUBSET WsPoints]
      BY <1>5 DEF RemoveWebsocketEndpoint
    <2> QED  BY <1>5, <2>1 DEF RemoveWebsocketEndpoint
  <1>6. \A m \in Methods, e \in Plain : [method |-> m, ep |-> e] \in Methodpoint
    BY DEF Methodpoint
  <1> HIDE DEF KindsInv
  <1> QED  BY <1>1, <1>2, <1>3, <1>4, <1>5, <1>6

(* The rest of the configuration.                                          *)
LEMMA SettersKinds ==
  ASSUME KindsInv,
         \/ \E u \in Users :
              AddBAUser(u) \/ DeleteBAUser(u) \/ SetAuthorizationTypeBasic(u)
         \/ SetAuthorizationTypeBearer \/ SetAuthorizationTypeNone
         \/ \E S \in Unprotected : SetUnprotectedEndpoints(S)
         \/ \E type \in Redirects : OverallRedirect(type)
  PROVE  KindsInv'
  <1>1. /\ calls' \in 0 .. MaxCalls /\ last'.req = Anonymous
        /\ UNCHANGED tables
    BY CallKinds
       DEF AddBAUser, DeleteBAUser, SetAuthorizationTypeBasic,
           SetAuthorizationTypeBearer, SetAuthorizationTypeNone,
           SetUnprotectedEndpoints, OverallRedirect
  <1>2. /\ users' \subseteq Users /\ unprotected' \in Unprotected \cup {{}}
        /\ redirect' \in Redirects \cup {"none"}
    BY DEF KindsInv, authVars, siteVars, AddBAUser, DeleteBAUser,
           SetAuthorizationTypeBasic, SetAuthorizationTypeBearer,
           SetAuthorizationTypeNone, SetUnprotectedEndpoints, OverallRedirect
  <1> QED  BY <1>1, <1>2 DEF KindsInv, tables

LEMMA EventKinds ==
  ASSUME KindsInv, NEW r \in Requests, EventHttp(r) PROVE KindsInv'
  <1>1. last'.req = r
    BY DEF EventHttp, SendRedirect, SendOptions, Upgrade,
           SendAuthenticationRequest, CallApi, StaticPage, Send
  <1> QED  BY <1>1 DEF EventHttp, KindsInv, tables, authVars, siteVars

LEMMA NextKinds == KindsInv /\ [Next]_vars => KindsInv'
  <1> SUFFICES ASSUME KindsInv, [Next]_vars PROVE KindsInv'
    OBVIOUS
  <1>1. CASE UNCHANGED vars
    BY <1>1 DEF KindsInv, vars, tables, authVars, siteVars
  <1> QED  BY <1>1, TablesKinds, SettersKinds, EventKinds DEF Next

LEMMA NextFlags == FlagsInv /\ [Next]_vars => FlagsInv'
  BY DEF Next, FlagsInv, vars, tables, authVars, siteVars, AddEndpoint,
         DeleteEndpoint, AddEndpointEx, DeleteEndpointEx, AddWebsocketEndpoint,
         RemoveWebsocketEndpoint, AddBAUser, DeleteBAUser,
         SetAuthorizationTypeBasic, SetAuthorizationTypeBearer,
         SetAuthorizationTypeNone, SetUnprotectedEndpoints, OverallRedirect,
         EventHttp

THEOREM RoutingInvariant == Spec => [](TablesInv /\ KindsInv /\ FlagsInv)
  BY InitTables, InitKinds, NextTables, NextKinds, NextFlags, PTL DEF Spec

(* Every table keeps its type: m_mmOptions is a bag, and no pattern is     *)
(* left in m_mEndpointExs without a method.                                *)
THEOREM RoutingTypeOK == Spec => []TypeOK
  <1>1. TablesInv /\ KindsInv /\ FlagsInv => TypeOK
    BY DEF TablesInv, KindsInv, FlagsInv, TypeOK, IsABag
  <1> QED  BY <1>1, RoutingInvariant, PTL

-----------------------------------------------------------------------------
(* Sequences that keep some places of another one. KeptUpTo is a recursive *)
(* function: what its equations say of every length is shown by the least  *)
(* length for which it would be false.                                     *)
LEMMA Least ==
  ASSUME NEW S, S \subseteq Nat, S # {}
  PROVE  \E x \in S : \A y \in S : x <= y
  <1> DEFINE below == {1 .. x : x \in S}
  <1>1. ASSUME NEW x \in S PROVE 1 .. x \in FiniteSubsetsOf(Nat)
    <2>1. x \in Int /\ 1 .. x \subseteq Nat
      OBVIOUS
    <2>2. IsFiniteSet(1 .. x)
      BY <2>1, FS_Interval
    <2> QED  BY <2>1, <2>2 DEF FiniteSubsetsOf
  <1>2. below \subseteq FiniteSubsetsOf(Nat) /\ below # {}
    BY <1>1
  <1>3. PICK b \in below :
          \A c \in below : <<c, b>> \notin StrictSubsetOrdering(Nat)
    BY <1>2, FS_StrictSubsetOrderingWellFounded, WFMin
  <1>4. PICK x \in S : b = 1 .. x
    OBVIOUS
  <1>5. ASSUME NEW y \in S, y < x PROVE FALSE
    <2>1. 1 .. y \in below /\ 1 .. y \subseteq 1 .. x
      BY <1>5
    <2>2. x \in 1 .. x /\ x \notin 1 .. y
      BY <1>5
    <2>3. <<1 .. y, 1 .. x>> \in StrictSubsetOrdering(Nat)
      BY <2>1, <2>2 DEF StrictSubsetOrdering
    <2> QED  BY <1>3, <1>4, <2>1, <2>3
  <1> QED  BY <1>5

LEMMA SeqElement ==
  ASSUME NEW S, NEW s \in Seq(S)
  PROVE  Len(s) \in Nat /\ \A i \in 1 .. Len(s) : s[i] \in S
  OBVIOUS

LEMMA SeqSame ==
  ASSUME NEW S, NEW s \in Seq(S), NEW t \in Seq(S), Len(t) = Len(s),
         \A i \in 1 .. Len(s) : t[i] = s[i]
  PROVE  s = t
  OBVIOUS

LEMMA SeqAppend ==
  ASSUME NEW S, NEW s \in Seq(S), NEW t \in S
  PROVE  /\ Append(s, t) \in Seq(S)
         /\ Len(Append(s, t)) = Len(s) + 1
         /\ Append(s, t)[Len(s) + 1] = t
         /\ \A i \in 1 .. Len(s) : Append(s, t)[i] = s[i]
  OBVIOUS

(* f is what the loop has kept of e after each of n steps.                 *)
Keeps(f, n, e, K, S) ==
    /\ f \in [0 .. n -> Seq(S)]
    /\ f[0] = <<>>
    /\ \A k \in 1 .. n :
         f[k] = IF k \in K THEN Append(f[k - 1], e[k]) ELSE f[k - 1]

LEMMA LoopExists ==
  ASSUME NEW S, NEW e \in Seq(S), NEW K
  PROVE  \E f : Keeps(f, Len(e), e, K, S)
  <1> DEFINE N == Len(e)
             Bad == {n \in 0 .. N : ~\E f : Keeps(f, n, e, K, S)}
  <1>1. N \in Nat
    BY SeqElement
  <1>2. SUFFICES ASSUME Bad # {} PROVE FALSE
    BY <1>1
  <1>3. PICK n \in Bad : \A m \in Bad : n <= m
    <2>1. Bad \subseteq Nat
      BY <1>1
    <2> HIDE DEF Bad
    <2> QED  BY <1>2, <2>1, Least
  <1>4. n # 0
    <2>1. <<>> \in Seq(S)
      OBVIOUS
    <2>2. Keeps([k \in 0 .. 0 |-> <<>>], 0, e, K, S)
      BY <2>1 DEF Keeps
    <2> QED  BY <2>2
  <1>5. n - 1 \in 0 .. N /\ n - 1 \notin Bad /\ n \in 1 .. N
    BY <1>1, <1>3, <1>4
  <1>6. PICK f : Keeps(f, n - 1, e, K, S)
    BY <1>5
  <1> DEFINE new == IF n \in K THEN Append(f[n - 1], e[n]) ELSE f[n - 1]
             g == [k \in 0 .. n |-> IF k = n THEN new ELSE f[k]]
  <1>7. new \in Seq(S)
    <2>1. f[n - 1] \in Seq(S)
      BY <1>5, <1>6 DEF Keeps
    <2>2. e[n] \in S
      BY <1>5, SeqElement
    <2> QED  BY <2>1, <2>2, SeqAppend
  <1>8. g \in [0 .. n -> Seq(S)] /\ g[0] = <<>>
    <2> HIDE DEF new
    <2>0. n \in Nat
      BY <1>1, <1>5
    <2> HIDE DEF Bad
    <2>1. \A k \in 0 .. n - 1 : k \in 0 .. n /\ k # n /\ f[k] \in Seq(S)
      <3>1. \A k \in 0 .. n - 1 : k \in 0 .. n /\ k # n
        BY <2>0
      <3>2. \A k \in 0 .. n - 1 : f[k] \in Seq(S)
        BY <1>6 DEF Keeps
      <3> QED  BY <3>1, <3>2
    <2>2. \A k \in 0 .. n : k = n \/ k \in 0 .. n - 1
      BY <1>5
    <2>3. \A k \in 0 .. n : g[k] \in Seq(S)
      BY <1>7, <2>1, <2>2
    <2>4. 0 \in 0 .. n - 1 /\ f[0] = <<>>
      BY <1>5, <1>6 DEF Keeps
    <2>5. g[0] = f[0]
      BY <2>1, <2>4
    <2> QED  BY <2>3, <2>4, <2>5
  <1>9. ASSUME NEW k \in 1 .. n
        PROVE  g[k] = IF k \in K THEN Append(g[k - 1], e[k]) ELSE g[k - 1]
    <2>1. CASE k = n
      <3>1. g[k] = new /\ g[k - 1] = f[n - 1]
        BY <1>5, <2>1
      <3> QED  BY <2>1, <3>1
    <2>2. CASE k # n
      <3>1. k \in 1 .. n - 1
        BY <1>5, <2>2
      <3>2. g[k] = f[k] /\ g[k - 1] = f[k - 1]
        BY <1>5, <2>2, <3>1
      <3> QED  BY <1>6, <3>1, <3>2 DEF Keeps
    <2> QED  BY <2>1, <2>2
  <1>10. Keeps(g, n, e, K, S)
    BY <1>8, <1>9 DEF Keeps
  <1> QED  BY <1>10

LEMMA KeptUpToKeeps ==
  ASSUME NEW S, NEW e \in Seq(S), NEW K
  PROVE  Keeps(KeptUpTo(e, K), Len(e), e, K, S)
  <1> DEFINE N == Len(e)
             Eq(f) == f = [n \in 0 .. N |->
                             IF n = 0 THEN <<>>
                             ELSE IF n \in K THEN Append(f[n - 1], e[n])
                             ELSE f[n - 1]]
             g == KeptUpTo(e, K)
  <1>1. N \in Nat
    BY SeqElement
  <1>2. ASSUME NEW f, Keeps(f, N, e, K, S) PROVE Eq(f)
    <2>1. f = [n \in 0 .. N |-> f[n]]
      BY <1>2 DEF Keeps
    <2>2. ASSUME NEW n \in 0 .. N
          PROVE  f[n] = IF n = 0 THEN <<>>
                        ELSE IF n \in K THEN Append(f[n - 1], e[n])
                        ELSE f[n - 1]
      <3>1. CASE n = 0
        BY <1>2, <3>1 DEF Keeps
      <3>2. CASE n # 0
        <4>1. n \in 1 .. N
          BY <1>1, <3>2
        <4> QED  BY <1>2, <3>2, <4>1 DEF Keeps
      <3> QED  BY <3>1, <3>2
    <2> QED  BY <2>1, <2>2
  <1>3. \E f : Eq(f)
    BY <1>2, LoopExists
  <1>4. g = CHOOSE f : Eq(f)
    BY DEF KeptUpTo
  <1>5. Eq(g)
    BY <1>3, <1>4
  <1> HIDE DEF g
  <1>6. /\ DOMAIN g = 0 .. N /\ g[0] = <<>>
        /\ \A k \in 1 .. N :
             g[k] = IF k \in K THEN Append(g[k - 1], e[k]) ELSE g[k - 1]
    <2>1. /\ DOMAIN g = 0 .. N
          /\ \A n \in 0 .. N : g[n] = IF n = 0 THEN <<>>
                                     ELSE IF n \in K THEN Append(g[n - 1], e[n])
                                     ELSE g[n - 1]
      BY <1>5
    <2>2. 0 \in 0 .. N /\ \A k \in 1 .. N : k \in 0 .. N /\ k # 0
      BY <1>1
    <2>3. g[0] = <<>>
      BY <2>1, <2>2
    <2>4. ASSUME NEW k \in 1 .. N
          PROVE  g[k] = IF k \in K THEN Append(g[k - 1], e[k]) ELSE g[k - 1]
      BY <2>1, <2>2
    <2> QED  BY <2>1, <2>3, <2>4
  <1> DEFINE Bad == {k \in 0 .. N : g[k] \notin Seq(S)}
  <1>7. Bad = {}
    <2> SUFFICES ASSUME Bad # {} PROVE FALSE
      OBVIOUS
    <2>1. PICK k \in Bad : \A m \in Bad : k <= m
      <3>1. Bad \subseteq Nat
        BY <1>1
      <3> HIDE DEF Bad
      <3> QED  BY <3>1, Least
    <2>2. <<>> \in Seq(S)
      OBVIOUS
    <2>3. k \in 1 .. N
      <3>1. k # 0
        BY <1>6, <2>2
      <3> QED  BY <1>1, <3>1
    <2>4. k - 1 \in 0 .. N /\ k - 1 \notin Bad
      BY <1>1, <2>1, <2>3
    <2>5. g[k - 1] \in Seq(S) /\ e[k] \in S
      BY <2>3, <2>4, SeqElement
    <2>6. Append(g[k - 1], e[k]) \in Seq(S)
      BY <2>5, SeqAppend
    <2>7. g[k] = Append(g[k - 1], e[k]) \/ g[k] = g[k - 1]
      BY <1>6, <2>3
    <2> QED  BY <2>5, <2>6, <2>7
  <1>8. g \in [0 .. N -> Seq(S)]
    BY <1>5, <1>7
  <1> QED  BY <1>6, <1>8 DEF Keeps, g

LEMMA KeptIsSeq ==
  ASSUME NEW S, NEW e \in Seq(S), NEW K
  PROVE  Kept(e, K) \in Seq(S)
  <1>1. Len(e) \in 0 .. Len(e)
    BY SeqElement
  <1> QED  BY <1>1, KeptUpToKeeps DEF Keeps, Kept

(* Two loops that see the same have kept the same.                         *)
Begins(e, K, d, J) ==
    /\ Len(e) <= Len(d)
    /\ \A k \in 1 .. Len(e) : e[k] = d[k] /\ (k \in K <=> k \in J)

LEMMA KeptPrefix ==
  ASSUME NEW S, NEW e \in Seq(S), NEW d \in Seq(S), NEW K, NEW J,
         Begins(e, K, d, J)
  PROVE  Kept(e, K) = KeptUpTo(d, J)[Len(e)]
  <1> DEFINE n == Len(e)
             f == KeptUpTo(e, K)
             g == KeptUpTo(d, J)
             Bad == {k \in 0 .. n : f[k] # g[k]}
  <1>1. Len(e) \in Nat /\ Len(d) \in Nat
    BY SeqElement
  <1>2. Keeps(f, Len(e), e, K, S) /\ Keeps(g, Len(d), d, J, S)
    BY KeptUpToKeeps
  <1> HIDE DEF f, g
  <1>3. SUFFICES ASSUME Bad # {} PROVE FALSE
    BY <1>1 DEF f, g, Kept
  <1>4. PICK k \in Bad : \A m \in Bad : k <= m
    <2>1. Bad \subseteq Nat
      BY <1>1
    <2> HIDE DEF Bad
    <2> QED  BY <1>3, <2>1, Least
  <1>5. k # 0
    BY <1>2 DEF Keeps
  <1>6. /\ k \in 1 .. n /\ k \in 1 .. Len(e) /\ k \in 1 .. Len(d)
        /\ k - 1 \in 0 .. n /\ k - 1 \notin Bad
    BY <1>1, <1>4, <1>5 DEF Begins
  <1>7. f[k - 1] = g[k - 1]
    BY <1>6
  <1>8. /\ f[k] = IF k \in K THEN Append(f[k - 1], e[k]) ELSE f[k - 1]
        /\ g[k] = IF k \in J THEN Append(g[k - 1], d[k]) ELSE g[k - 1]
    BY <1>2, <1>6 DEF Keeps
  <1> QED  BY <1>6, <1>7, <1>8 DEF Begins

-----------------------------------------------------------------------------
(* The segments of a path.                                                 *)
LEMMA SegmentsIsSeq ==
  ASSUME NEW S, NEW e \in Seq(S)
  PROVE  Segments(e) \in Seq(S)
  BY KeptIsSeq DEF Segments

LEMMA SegmentsEmpty == Segments(<<>>) = <<>>
  <1>1. <<>> \in Seq({}) /\ Len(<<>>) = 0
    OBVIOUS
  <1>2. ASSUME NEW e \in Seq({}), Len(e) = 0, NEW K PROVE Kept(e, K) = <<>>
    <2>1. Keeps(KeptUpTo(e, K), Len(e), e, K, {})
      BY KeptUpToKeeps
    <2> QED  BY <1>2, <2>1 DEF Kept, Keeps
  <1> QED  BY <1>1, <1>2 DEF Segments

LEMMA SegmentsAppend ==
  ASSUME NEW S, NEW e \in Seq(S), NEW t \in S
  PROVE  Segments(Append(e, t)) = IF t # "/" THEN Append(Segments(e), t)
                                  ELSE Segments(e)
  <1> DEFINE d == Append(e, t)
             n == Len(e)
             K == {k \in 1 .. n : e[k] # "/"}
             J == {k \in 1 .. Len(d) : d[k] # "/"}
             g == KeptUpTo(d, J)
  <1>1. /\ d \in Seq(S) /\ Len(d) = n + 1 /\ n \in Nat /\ d[n + 1] = t
        /\ \A i \in 1 .. n : d[i] = e[i]
    BY SeqAppend, SeqElement
  <1> HIDE DEF d
  <1>2. \A k \in 1 .. n : e[k] = d[k] /\ (k \in K <=> k \in J)
    BY <1>1
  <1>3. n + 1 \in J <=> t # "/"
    BY <1>1
  <1>4. n \in 0 .. Len(e) /\ n <= Len(d)
    BY <1>1
  <1> HIDE DEF K, J
  <1>5. Kept(e, K) = g[n]
    <2>1. Begins(e, K, d, J)
      BY <1>2, <1>4 DEF Begins
    <2> QED  BY <1>1, <2>1, KeptPrefix
  <1>6. Keeps(g, n + 1, d, J, S)
    BY <1>1, KeptUpToKeeps
  <1>7. n + 1 \in 1 .. n + 1 /\ (n + 1) - 1 = n
    BY <1>1
  <1> HIDE DEF g
  <1>8. g[n + 1] = IF n + 1 \in J THEN Append(g[n], t) ELSE g[n]
    BY <1>1, <1>6, <1>7 DEF Keeps
  <1>9. Segments(d) = g[n + 1] /\ Segments(e) = g[n]
    BY <1>1, <1>5 DEF Segments, Kept, g, J, K
  <1> QED  BY <1>3, <1>8, <1>9 DEF d

(* GetMethodPoint's two ways to drop a slash drop no segment.              *)
LEMMA SegmentsOfFront ==
  ASSUME NEW S, NEW u \in Seq(S), u # <<>>, Last(u) = "/"
  PROVE  Front(u) \in Seq(S) /\ Segments(Front(u)) = Segments(u)
  <1>1. Front(u) \in Seq(S) /\ Last(u) \in S /\ u = Append(Front(u), Last(u))
    BY DEF Front, Last
  <1> QED  BY <1>1, SegmentsAppend

LEMMA SegmentsOfSingleSlashes ==
  ASSUME NEW S, NEW u \in Seq(S)
  PROVE  SingleSlashes(u) \in Seq(S) /\ Segments(SingleSlashes(u)) = Segments(u)
  <1> DEFINE N == Len(u)
             K == {k \in 1 .. N : u[k] # "/"}
             J == {k \in 1 .. N : k = 1 \/ u[k] # "/" \/ u[k - 1] # "/"}
             f == KeptUpTo(u, K)
             g == KeptUpTo(u, J)
             Bad == {n \in 0 .. N : Segments(g[n]) # f[n]}
  <1>1. N \in Nat
    BY SeqElement
  <1>2. K \subseteq J /\ \A k \in 1 .. N : k \in K <=> u[k] # "/"
    OBVIOUS
  <1>3. SingleSlashes(u) = g[N] /\ Segments(u) = f[N]
    BY DEF SingleSlashes, Segments, Kept
  <1> HIDE DEF K, J
  <1>4. Keeps(f, N, u, K, S) /\ Keeps(g, N, u, J, S)
    BY KeptUpToKeeps
  <1> HIDE DEF f, g
  <1>5. Bad = {}
    <2> SUFFICES ASSUME Bad # {} PROVE FALSE
      OBVIOUS
    <2>1. PICK n \in Bad : \A m \in Bad : n <= m
      <3>1. Bad \subseteq Nat
        BY <1>1
      <3> HIDE DEF Bad
      <3> QED  BY <3>1, Least
    <2>2. n # 0
      BY <1>4, SegmentsEmpty DEF Keeps
    <2>3. n \in 1 .. N /\ n - 1 \in 0 .. N /\ n - 1 \notin Bad
      BY <1>1, <2>1, <2>2
    <2>4. Segments(g[n - 1]) = f[n - 1] /\ g[n - 1] \in Seq(S) /\ u[n] \in S
      BY <1>4, <2>3, SeqElement DEF Keeps
    <2>5. /\ f[n] = IF n \in K THEN Append(f[n - 1], u[n]) ELSE f[n - 1]
          /\ g[n] = IF n \in J THEN Append(g[n - 1], u[n]) ELSE g[n - 1]
      BY <1>4, <2>3 DEF Keeps
    <2>6. Segments(Append(g[n - 1], u[n]))
            = IF u[n] # "/" THEN Append(f[n - 1], u[n]) ELSE f[n - 1]
      BY <2>4, SegmentsAppend
    <2> QED  BY <1>2, <2>3, <2>4, <2>5, <2>6
  <1>6. N \in 0 .. N
    BY <1>1
  <1>7. g[N] \in Seq(S)
    BY <1>4, <1>6 DEF Keeps
  <1> QED  BY <1>3, <1>5, <1>6, <1>7

(* However many slashes a client writes where one would do, and with one   *)
(* at the end, GetMethodPoint keeps the segments and the method.           *)
THEOREM MethodPointKeepsSegments ==
  ASSUME NEW r \in Requests
  PROVE  /\ GetMethodPoint(r).method = r.method
         /\ GetMethodPoint(r).ep \in Seq(DOMAIN Upper)
         /\ Segments(GetMethodPoint(r).ep) = Segments(r.uri)
  <1> DEFINE u == r.uri
             w == WithoutLast(u)
  <1>1. u \in Seq(DOMAIN Upper) /\ u # <<>>
    BY RoutingAssumption
  <1>2. w \in Seq(DOMAIN Upper) /\ Segments(w) = Segments(u)
    BY <1>1, SegmentsOfFront DEF WithoutLast
  <1> HIDE DEF w
  <1>3. /\ SingleSlashes(w) \in Seq(DOMAIN Upper)
        /\ Segments(SingleSlashes(w)) = Segments(w)
    BY <1>2, SegmentsOfSingleSlashes
  <1> QED  BY <1>2, <1>3 DEF GetMethodPoint, w

-----------------------------------------------------------------------------
(* Only requests are answered: every other step forgets the last one.      *)
LEMMA OnlyEventsAnswer ==
  [Next]_vars => \/ last' = NoRequest
                 \/ \E r \in Requests : EventHttp(r)
                 \/ UNCHANGED vars
  BY DEF Next, AddEndpoint, DeleteEndpoint, AddEndpointEx, DeleteEndpointEx,
         AddWebsocketEndpoint, RemoveWebsocketEndpoint, AddBAUser, DeleteBAUser,
         SetAuthorizationTypeBasic, SetAuthorizationTypeBearer,
         SetAuthorizationTypeNone, SetUnprotectedEndpoints, OverallRedirect, Call

(* An unprotected methodpoint that ends in "*" covers what begins like it. *)
Above(s, v) ==
    /\ s # <<>> /\ Last(s) = "*" /\ Len(s) <= Len(v)
    /\ \A k \in 1 .. Len(s) - 1 : s[k] = v[k]

LEMMA BeginsLike ==
  ASSUME NEW S, NEW s \in Seq(S), NEW v \in Seq(S), Above(s, v)
  PROVE  \E n \in 0 .. Len(v) - 1 : s = Append(SubSeq(v, 1, n), "*")
  <1> DEFINE n == Len(s) - 1
             prefix == SubSeq(v, 1, n)
  <1>1. n \in 0 .. Len(v) - 1 /\ Len(s) = n + 1 /\ Len(v) \in Nat
    BY DEF Above
  <1>2. /\ prefix \in Seq(S) /\ Len(prefix) = n
        /\ \A k \in 1 .. n : prefix[k] = s[k]
    BY <1>1 DEF Above
  <1>3. s[n + 1] = "*" /\ "*" \in S
    BY <1>1, SeqElement DEF Above, Last
  <1> HIDE DEF prefix, n
  <1>4. s = Append(prefix, "*")
    <2> DEFINE t == Append(prefix, "*")
    <2>1. /\ t \in Seq(S) /\ Len(t) = Len(s) /\ t[n + 1] = "*"
          /\ \A k \in 1 .. n : t[k] = s[k]
      BY <1>1, <1>2, <1>3, SeqAppend
    <2> HIDE DEF t
    <2>2. \A k \in 1 .. Len(s) : t[k] = s[k]
      BY <1>1, <1>3, <2>1
    <2>3. s = t
      BY <2>1, <2>2, SeqSame
    <2> QED  BY <2>3 DEF t
  <1> QED  BY <1>1, <1>4 DEF prefix, n

LEMMA UnprotectedCovers ==
  ASSUME KindsInv, NEW r \in Requests, MethodPointUnprotected(GetMethodPoint(r))
  PROVE  \E b \in unprotected : Covers(b, GetMethodPoint(r))
  <1> DEFINE a == GetMethodPoint(r)
  <1>1. a.ep \in Seq(DOMAIN Upper)
    BY MethodPointKeepsSegments
  <1>2. \A b \in unprotected : b.ep \in Seq(DOMAIN Upper)
    BY RoutingAssumption DEF KindsInv
  <1> HIDE DEF a
  <1>3. CASE \E b \in unprotected : SamePoint(a, b)
    BY <1>3 DEF Covers, a
  <1>4. ASSUME NEW b \in unprotected, NEW s, s = Segments(b.ep),
               NEW v, v = Segments(a.ep), b.method = a.method, Above(s, v)
        PROVE  Covers(b, a)
    <2>1. s \in Seq(DOMAIN Upper) /\ v \in Seq(DOMAIN Upper)
      BY <1>1, <1>2, <1>4, SegmentsIsSeq
    <2>2. \E n \in 0 .. Len(v) - 1 : s = Append(SubSeq(v, 1, n), "*")
      BY <1>4, <2>1, BeginsLike
    <2>3. a.method = b.method
      BY <1>4
    <2> QED  BY <1>4, <2>2, <2>3 DEF Covers
  <1> QED  BY <1>3, <1>4 DEF MethodPointUnprotected, Above, a

LEMMA ServedIsAuthorised ==
  ASSUME KindsInv, NEW r \in Requests, EventHttp(r)
  PROVE  OnlyAuthorisedAreServed'
  <1>1. /\ UNCHANGED <<users, token, unprotected>> /\ last'.req = r
        /\ last'.sent \in {"callback", "callbackEx", "notFound", "page"} =>
             CheckAuthorization(r)
    BY DEF EventHttp, SendRedirect, SendOptions, Upgrade, authVars,
           SendAuthenticationRequest, CallApi, StaticPage, Send
  <1>2. CheckAuthorization(r) =>
          \/ r.creds = Token /\ token
          \/ r.creds \in users
          \/ users = {} /\ ~token
          \/ \E b \in unprotected : Covers(b, GetMethodPoint(r))
    BY UnprotectedCovers DEF CheckAuthorization
  <1> QED  BY <1>1, <1>2 DEF OnlyAuthorisedAreServed

(* Whoever is served, by a callback of either kind, the one for requests   *)
(* without a callback, or a page, has shown credentials that are valid, or *)
(* asked for what is unprotected, or nobody is asked for credentials: for  *)
(* any endpoints, users, wildcards, slashes and spellings.                 *)
THEOREM RoutingOnlyAuthorisedAreServed == Spec => []OnlyAuthorisedAreServed
  <1>1. Init => OnlyAuthorisedAreServed
    BY DEF Init, NoRequest, OnlyAuthorisedAreServed
  <1>2. KindsInv /\ OnlyAuthorisedAreServed /\ [Next]_vars
          => OnlyAuthorisedAreServed'
    <2> SUFFICES ASSUME KindsInv, OnlyAuthorisedAreServed, [Next]_vars
                 PROVE  OnlyAuthorisedAreServed'
      OBVIOUS
    <2>1. CASE last' = NoRequest
      BY <2>1 DEF NoRequest, OnlyAuthorisedAreServed
    <2>2. CASE UNCHANGED vars
      BY <2>2 DEF vars, authVars, OnlyAuthorisedAreServed
    <2> QED  BY <2>1, <2>2, ServedIsAuthorised, OnlyEventsAnswer
  <1> QED  BY <1>1, <1>2, RoutingInvariant, PTL DEF Spec

-----------------------------------------------------------------------------
(* Patterns: Matches is what RestGoose.h explains.                         *)
LEMMA PatternIsSeq ==
  ASSUME NEW p \in PatternSet
  PROVE  p \in Seq(DOMAIN Upper) /\ Segments(p) \in Seq(DOMAIN Upper)
  <1>1. Patterns \in Seq(Seq(DOMAIN Upper))
    BY RoutingAssumption
  <1>2. p \in Seq(DOMAIN Upper)
    BY <1>1, SeqElement DEF PatternSet
  <1> QED  BY <1>2, SegmentsIsSeq

LEMMA MatchesAsDocumented ==
  ASSUME NEW p \in PatternSet, NEW v \in Seq(DOMAIN Upper)
  PROVE  Matches(p, v) <=> DocumentedMatch(p, v)
  <1> DEFINE s == Segments(p)
  <1>1. Len(s) \in Nat /\ Len(v) \in Nat
    BY PatternIsSeq, SeqElement
  <1>2. \A k \in 1 .. Len(s) :
          s[k] \in {"*", "**"} \/ s[k] = v[k] <=> s[k] \in {"*", "**", v[k]}
    OBVIOUS
  <1> HIDE DEF s
  <1> QED  BY <1>1, <1>2 DEF Matches, DocumentedMatch, s

(* The one pattern that matches is the one that FindEndpointEx takes.      *)
LEMMA OnlyMatchIsFound ==
  ASSUME KindsInv, NEW e \in Seq(DOMAIN Upper), NEW p,
         {q \in DOMAIN exs : DocumentedMatch(q, Segments(e))} = {p}
  PROVE  p \in FindEndpointEx(e)
  <1> DEFINE v == Segments(e)
             C == Candidates(e)
  <1>1. \A q \in DOMAIN exs : Matches(q, v) <=> q = p
    BY MatchesAsDocumented, SegmentsIsSeq DEF KindsInv
  <1>2. PICK k \in 1 .. Len(Patterns) : p = Patterns[k]
    BY DEF KindsInv, PatternSet
  <1>3. k \in C /\ C \subseteq Nat
    BY <1>1, <1>2 DEF Candidates
  <1>4. PICK j \in C : \A i \in C : j <= i
    <2> HIDE DEF C
    <2> QED  BY <1>3, Least
  <1>5. Patterns[j] = p
    BY <1>1 DEF Candidates
  <1> QED  BY <1>4, <1>5 DEF FindEndpointEx

LEMMA NothingFound ==
  ASSUME NEW r \in Requests, EventHttp(r), r.method # "OPTIONS",
         last'.sent \in {"notFound", "404"}
  PROVE  ~Exact(GetMethodPoint(r)) /\ Wild(r) = {}
  BY DEF EventHttp, SendRedirect, SendOptions, Upgrade,
         SendAuthenticationRequest, CallApi, StaticPage, Send

LEMMA EventNotFound ==
  ASSUME KindsInv, NEW r \in Requests, EventHttp(r)
  PROVE  NotFoundIsHonest'
  <1> DEFINE a == GetMethodPoint(r)
             Matching == {p \in DOMAIN exs : DocumentedMatch(p, Path(r))}
  <1>1. last'.req = r
    BY DEF EventHttp, SendRedirect, SendOptions, Upgrade,
           SendAuthenticationRequest, CallApi, StaticPage, Send
  <1>2. UNCHANGED <<endpoints, exs>>
    BY DEF EventHttp, tables
  <1>3. SUFFICES ASSUME last'.sent \in {"notFound", "404"}, r.method # "OPTIONS"
        PROVE  /\ ~Exact(a)
               /\ \A p \in Matching :
                    r.method \in exs[p] => r.multipart \/ Matching # {p}
    BY <1>1, <1>2 DEF NotFoundIsHonest, Exact
  <1>4. ~Exact(a) /\ Wild(r) = {}
    BY <1>3, NothingFound
  <1>5. ASSUME NEW p \in Matching, r.method \in exs[p], ~r.multipart,
               Matching = {p}
        PROVE  FALSE
    <2>1. /\ a.method = r.method /\ a.ep \in Seq(DOMAIN Upper)
          /\ Segments(a.ep) = Path(r)
      BY MethodPointKeepsSegments DEF Path
    <2> HIDE DEF a
    <2>2. p \in FindEndpointEx(a.ep)
      BY <1>5, <2>1, OnlyMatchIsFound
    <2>3. p \in Wild(r)
      BY <1>5, <2>1, <2>2 DEF Wild, a
    <2> QED  BY <1>4, <2>3
  <1> QED  BY <1>4, <1>5

(* A request is told that it has no callback only when it has no exact one *)
(* and, unless it is multipart, there is no single pattern that matches it *)
(* and has its method.                                                     *)
THEOREM RoutingNotFoundIsHonest == Spec => []NotFoundIsHonest
  <1>1. Init => NotFoundIsHonest
    BY DEF Init, NoRequest, NotFoundIsHonest
  <1>2. KindsInv /\ NotFoundIsHonest /\ [Next]_vars => NotFoundIsHonest'
    <2> SUFFICES ASSUME KindsInv, NotFoundIsHonest, [Next]_vars
                 PROVE  NotFoundIsHonest'
      OBVIOUS
    <2>1. CASE last' = NoRequest
      BY <2>1 DEF NoRequest, NotFoundIsHonest
    <2>2. CASE UNCHANGED vars
      BY <2>2 DEF vars, tables, NotFoundIsHonest, Exact
    <2> QED  BY <2>1, <2>2, EventNotFound, OnlyEventsAnswer
  <1> QED  BY <1>1, <1>2, RoutingInvariant, PTL DEF Spec

-----------------------------------------------------------------------------
(* AddEndpointEx refuses "**" anywhere but at the end.                     *)
PatternsInv == \A p \in DOMAIN exs : WellFormed(p)

LEMMA InitPatterns == Init => PatternsInv
  BY DEF Init, PatternsInv

LEMMA NextPatterns == PatternsInv /\ [Next]_vars => PatternsInv'
  <1> SUFFICES ASSUME PatternsInv, [Next]_vars PROVE PatternsInv'
    OBVIOUS
  <1>1. CASE UNCHANGED exs
    BY <1>1 DEF PatternsInv
  <1>2. ASSUME NEW p, NEW m, AddEndpointEx(p, m) PROVE PatternsInv'
    <2>1. /\ DOMAIN exs' \subseteq DOMAIN exs \cup {p}
          /\ p \in DOMAIN exs' \ DOMAIN exs => WellFormed(p)
      BY <1>2 DEF AddEndpointEx
    <2> QED  BY <2>1 DEF PatternsInv
  <1>3. ASSUME NEW p, NEW m, DeleteEndpointEx(p, m) PROVE PatternsInv'
    BY <1>3 DEF DeleteEndpointEx, PatternsInv
  <1> QED
    BY <1>1, <1>2, <1>3
       DEF Next, AddEndpoint, DeleteEndpoint, AddWebsocketEndpoint,
           RemoveWebsocketEndpoint, AddBAUser, DeleteBAUser,
           SetAuthorizationTypeBasic, SetAuthorizationTypeBearer,
           SetAuthorizationTypeNone, SetUnprotectedEndpoints, OverallRedirect,
           EventHttp, tables, vars

LEMMA NoDoubleWildcard ==
  ASSUME NEW p \in PatternSet, WellFormed(p), Last(Segments(p)) # "**"
  PROVE  \A k \in 1 .. Len(Segments(p)) : Segments(p)[k] # "**"
  <1> DEFINE T == DOMAIN Upper
             n == Len(p)
  <1>1. p \in Seq(T) /\ n \in Nat
    BY PatternIsSeq, SeqElement
  <1>2. CASE p # <<>> /\ p[n] = "**"
    <2>1. /\ Front(p) \in Seq(T) /\ Last(p) \in T /\ Last(p) = "**"
          /\ p = Append(Front(p), Last(p))
      BY <1>1, <1>2 DEF Front, Last
    <2>2. Segments(p) = Append(Segments(Front(p)), "**")
      BY <2>1, SegmentsAppend
    <2>3. Segments(Front(p)) \in Seq(T) /\ "**" \in T
      BY <2>1, SegmentsIsSeq
    <2>4. Last(Segments(p)) = "**"
      BY <2>2, <2>3, SeqAppend DEF Last
    <2> QED  BY <2>4
  <1>3. CASE p = <<>> \/ p[n] # "**"
    <2>1. \A k \in 1 .. n : p[k] \in T \ {"**"}
      BY <1>1, <1>3, SeqElement DEF WellFormed
    <2>2. p \in Seq(T \ {"**"})
      BY <1>1, <2>1
    <2>3. Segments(p) \in Seq(T \ {"**"})
      BY <2>2, SegmentsIsSeq
    <2> QED  BY <2>3, SeqElement
  <1> QED  BY <1>2, <1>3

LEMMA WildsCount ==
  ASSUME NEW S, NEW s \in Seq(S)
  PROVE  /\ Wilds(s, 0) = 0
         /\ \A n \in 1 .. Len(s) :
              /\ Wilds(s, n - 1) \in Nat /\ Wilds(s, n) \in Nat
              /\ Wilds(s, n) = Wilds(s, n - 1) + IF s[n] = "*" THEN 1 ELSE 0
  <1> DEFINE At(k) == {j \in 1 .. k : s[j] = "*"}
  <1>1. At(0) = {} /\ Wilds(s, 0) = 0
    BY FS_EmptySet DEF Wilds
  <1>2. ASSUME NEW k \in Nat PROVE IsFiniteSet(At(k)) /\ Cardinality(At(k)) \in Nat
    <2>1. IsFiniteSet(1 .. k)
      BY FS_Interval
    <2> QED  BY <2>1, FS_Subset, FS_CardinalityType
  <1>3. ASSUME NEW n \in 1 .. Len(s)
        PROVE  /\ Wilds(s, n - 1) \in Nat /\ Wilds(s, n) \in Nat
               /\ Wilds(s, n) = Wilds(s, n - 1) + IF s[n] = "*" THEN 1 ELSE 0
    <2>1. n \in Nat /\ n - 1 \in Nat /\ n \notin At(n - 1)
      OBVIOUS
    <2>2. At(n) = IF s[n] = "*" THEN At(n - 1) \cup {n} ELSE At(n - 1)
      OBVIOUS
    <2>3. /\ IsFiniteSet(At(n - 1)) /\ Cardinality(At(n - 1)) \in Nat
          /\ Cardinality(At(n)) \in Nat
      BY <1>2, <2>1
    <2>5. /\ Wilds(s, n) = Cardinality(At(n))
          /\ Wilds(s, n - 1) = Cardinality(At(n - 1))
      BY DEF Wilds
    <2> HIDE DEF At
    <2>4. Cardinality(At(n - 1) \cup {n}) = Cardinality(At(n - 1)) + 1
      BY <2>1, <2>3, FS_AddElement
    <2> QED  BY <2>2, <2>3, <2>4, <2>5
  <1> QED  BY <1>1, <1>3

(* The k-th of the segments that are kept is the one at the k-th wildcard. *)
LEMMA SinglesAreWilds ==
  ASSUME NEW S, NEW s \in Seq(S), NEW v \in Seq(S), Len(v) = Len(s)
  PROVE  /\ Singles(s, v) \in Seq(S)
         /\ Len(Singles(s, v)) = Wilds(s, Len(s))
         /\ \A k \in 1 .. Len(s) :
              s[k] = "*" => Singles(s, v)[Wilds(s, k)] = v[k]
  <1> DEFINE N == Len(s)
             K == Stars(s)
             g == KeptUpTo(v, K)
             Agree(n) ==
                 /\ Len(g[n]) = Wilds(s, n)
                 /\ \A k \in 1 .. n : s[k] = "*" =>
                      Wilds(s, k) \in 1 .. Len(g[n]) /\ g[n][Wilds(s, k)] = v[k]
             Bad == {n \in 0 .. N : ~Agree(n)}
  <1>1. N \in Nat /\ \A k \in 1 .. N : k \in K <=> s[k] = "*"
    BY SeqElement DEF Stars
  <1> HIDE DEF K
  <1>2. Keeps(g, N, v, K, S)
    BY KeptUpToKeeps
  <1>3. Singles(s, v) = g[N]
    BY DEF Singles, Kept, K
  <1> HIDE DEF g
  <1>4. Bad = {}
    <2> SUFFICES ASSUME Bad # {} PROVE FALSE
      OBVIOUS
    <2>1. PICK n \in Bad : \A m \in Bad : n <= m
      <3>1. Bad \subseteq Nat
        BY <1>1
      <3> HIDE DEF Bad
      <3> QED  BY <3>1, Least
    <2>2. n # 0
      <3>1. g[0] = <<>> /\ Len(<<>>) = 0 /\ Wilds(s, 0) = 0
        BY <1>2, WildsCount DEF Keeps
      <3> QED  BY <3>1
    <2>3. n \in 1 .. N /\ n - 1 \in 0 .. N /\ n - 1 \notin Bad
      BY <1>1, <2>1, <2>2
    <2> DEFINE h == g[n - 1]
               w == Wilds(s, n - 1)
    <2>4. /\ h \in Seq(S) /\ v[n] \in S
          /\ g[n] = IF n \in K THEN Append(h, v[n]) ELSE h
      BY <1>2, <2>3, SeqElement DEF Keeps
    <2>5. /\ w \in Nat /\ Len(h) = w
          /\ Wilds(s, n) = w + IF s[n] = "*" THEN 1 ELSE 0
          /\ \A k \in 1 .. n - 1 : s[k] = "*" =>
               Wilds(s, k) \in 1 .. Len(h) /\ h[Wilds(s, k)] = v[k]
      BY <2>3, WildsCount
    <2> HIDE DEF h, w
    <2>6. \A k \in 1 .. n : k = n \/ k \in 1 .. n - 1
      BY <2>3
    <2>7. CASE s[n] = "*"
      <3>1. /\ g[n] = Append(h, v[n]) /\ Wilds(s, n) = w + 1
            /\ Len(g[n]) = w + 1 /\ g[n][w + 1] = v[n]
            /\ \A i \in 1 .. w : g[n][i] = h[i]
        BY <1>1, <2>3, <2>4, <2>5, <2>7, SeqAppend
      <3>2. ASSUME NEW k \in 1 .. n, s[k] = "*"
            PROVE  Wilds(s, k) \in 1 .. Len(g[n]) /\ g[n][Wilds(s, k)] = v[k]
        <4>1. CASE k = n
          BY <2>5, <3>1, <4>1
        <4>2. CASE k \in 1 .. n - 1
          <5>1. Wilds(s, k) \in 1 .. w /\ h[Wilds(s, k)] = v[k]
            BY <2>5, <3>2, <4>2
          <5> QED  BY <2>5, <3>1, <5>1
        <4> QED  BY <2>6, <4>1, <4>2
      <3> QED  BY <3>1, <3>2, <2>1
    <2>8. CASE s[n] # "*"
      <3>1. g[n] = h /\ Wilds(s, n) = w
        BY <1>1, <2>3, <2>4, <2>5, <2>8
      <3>2. Agree(n)
        BY <2>5, <2>6, <2>8, <3>1
      <3> QED  BY <2>1, <3>2
    <2> QED  BY <2>7, <2>8
  <1>5. N \in 0 .. N /\ Agree(N)
    BY <1>1, <1>4
  <1>6. g[N] \in Seq(S)
    BY <1>2, <1>5 DEF Keeps
  <1> QED  BY <1>3, <1>5, <1>6

LEMMA RebuiltIsPath ==
  ASSUME NEW p \in PatternSet, NEW v \in Seq(DOMAIN Upper), WellFormed(p),
         Matches(p, v), Last(Segments(p)) # "**"
  PROVE  /\ Rebuilt(Segments(p), WildSegments(p, v)) = v
         /\ Len(WildSegments(p, v)) = Wilds(Segments(p), Len(Segments(p)))
  <1> DEFINE T == DOMAIN Upper
             s == Segments(p)
             singles == Singles(s, v)
  <1>1. s \in Seq(T)
    BY PatternIsSeq
  <1>2. Len(v) = Len(s) /\ \A k \in 1 .. Len(s) : s[k] = "*" \/ s[k] = v[k]
    BY NoDoubleWildcard DEF Matches
  <1>3. WildSegments(p, v) = singles \o <<>>
    BY DEF WildSegments
  <1> HIDE DEF s
  <1>4. /\ singles \in Seq(T) /\ Len(singles) = Wilds(s, Len(s))
        /\ \A k \in 1 .. Len(s) : s[k] = "*" => singles[Wilds(s, k)] = v[k]
    BY <1>1, <1>2, SinglesAreWilds
  <1> HIDE DEF singles
  <1>5. WildSegments(p, v) = singles
    BY <1>3, <1>4
  <1>6. Rebuilt(s, singles) = [k \in 1 .. Len(s) |-> v[k]]
    BY <1>2, <1>4 DEF Rebuilt
  <1>7. v = [k \in 1 .. Len(v) |-> v[k]]
    OBVIOUS
  <1> QED  BY <1>2, <1>4, <1>5, <1>6, <1>7 DEF s

LEMMA EventRebuilds ==
  ASSUME KindsInv, PatternsInv, NEW r \in Requests, EventHttp(r)
  PROVE  WildcardsRebuildPath'
  <1> DEFINE e == GetMethodPoint(r).ep
             v == Segments(e)
  <1>1. /\ last'.req = r
        /\ last'.sent = "callbackEx" =>
             \E p \in Wild(r) : last'.detail = <<p, WildSegments(p, v)>>
    BY DEF EventHttp, SendRedirect, SendOptions, Upgrade,
           SendAuthenticationRequest, CallApi, StaticPage, Send
  <1>2. SUFFICES ASSUME NEW p \in Wild(r), Last(Segments(p)) # "**"
                 PROVE  /\ Rebuilt(Segments(p), WildSegments(p, v)) = Path(r)
                        /\ Len(WildSegments(p, v))
                              = Wilds(Segments(p), Len(Segments(p)))
    BY <1>1 DEF WildcardsRebuildPath
  <1>3. p \in FindEndpointEx(e)
    BY DEF Wild
  <1>4. p \in DOMAIN exs /\ Matches(p, v)
    BY <1>3 DEF FindEndpointEx, Candidates
  <1>5. p \in PatternSet /\ WellFormed(p)
    BY <1>4 DEF KindsInv, PatternsInv
  <1>6. e \in Seq(DOMAIN Upper) /\ v = Path(r)
    BY MethodPointKeepsSegments DEF Path
  <1>7. v \in Seq(DOMAIN Upper)
    BY <1>6, SegmentsIsSeq
  <1> HIDE DEF v
  <1> QED  BY <1>2, <1>4, <1>5, <1>6, <1>7, RebuiltIsPath

(* What an extended callback is given for the wildcards of a pattern, put  *)
(* in their places, is the path that the client asked for, and nothing is  *)
(* left over: for any pattern that AddEndpointEx accepts and that does not *)
(* end in "**".                                                            *)
THEOREM RoutingWildcardsRebuildPath == Spec => []WildcardsRebuildPath
  <1>1. Init => WildcardsRebuildPath
    BY DEF Init, NoRequest, WildcardsRebuildPath
  <1>2. KindsInv /\ PatternsInv /\ WildcardsRebuildPath /\ [Next]_vars
          => WildcardsRebuildPath'
    <2> SUFFICES ASSUME KindsInv, PatternsInv, WildcardsRebuildPath, [Next]_vars
                 PROVE  WildcardsRebuildPath'
      OBVIOUS
    <2>1. CASE last' = NoRequest
      BY <2>1 DEF NoRequest, WildcardsRebuildPath
    <2>2. CASE UNCHANGED vars
      BY <2>2 DEF vars, WildcardsRebuildPath
    <2> QED  BY <2>1, <2>2, EventRebuilds, OnlyEventsAnswer
  <1> QED
    BY <1>1, <1>2, InitPatterns, NextPatterns, RoutingInvariant, PTL DEF Spec
=============================================================================
