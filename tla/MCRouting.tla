----------------------------- MODULE MCRouting -----------------------------
(* Routing with the api root /api, paths of up to three segments, literal  *)
(* segments in two spellings, and the patterns that overlap on them.       *)
EXTENDS Routing

CONSTANT u1   \* a user

Root == <<"/", "api">>
MCUpper == [t \in {"/", "*", "**", "api", "API", "apis", "a", "b"} |->
               IF t = "api" THEN "API" ELSE t]
MCLonger == {<<"apis", "api">>}

A == <<"/", "api", "/", "a">>
UpperA == <<"/", "API", "/", "a">>
AB == A \o <<"/", "b">>
Page == <<"/", "a">>
DoubleSlash == <<"/", "api", "/", "/", "a">>
Longer1 == <<"/", "apis">>
AnyOne == <<"/", "api", "/", "*">>
AnyTwo == <<"/", "api", "/", "*", "/", "*">>
FirstB == <<"/", "api", "/", "*", "/", "b">>
UpperOne == <<"/", "API", "/", "*">>
AnyRest == <<"/", "api", "/", "**">>
NotAtEnd == <<"/", "api", "/", "**", "/", "b">>

Ask(methods, uris, multipart, creds) ==
    [method : methods, uri : uris, multipart : multipart, creds : creds]
SomeGiven == {WsMaps, {"open"}}

(* Two spellings of an endpoint, patterns that overlap or are malformed, a *)
(* page; a user, a token, and endpoints that are unprotected.              *)
BothSpellings == {A, UpperA}
ManyPatterns == <<<<"/">>, AnyOne, UpperOne, AnyRest, NotAtEnd, AnyTwo, FirstB>>
OneWsPoint == {A}
ManyRequests ==
    Ask({"GET"}, {A, UpperA, A \o <<"/">>, DoubleSlash, AB, Page, Longer1},
        {FALSE}, {Anonymous})
    \cup Ask({"GET"}, {A, Page}, {FALSE}, {u1, Token})
    \cup Ask({"OPTIONS"}, {UpperA, AB}, {FALSE}, {Anonymous})
    \cup Ask({"PUT"}, {AB}, BOOLEAN, {Anonymous})
ManyUnprotected ==
    {{[method |-> "GET", ep |-> A]},
     {[method |-> "GET", ep |-> AnyTwo], [method |-> "PUT", ep |-> <<"/", "*">>]}}
OnePage == {Page}
=============================================================================
