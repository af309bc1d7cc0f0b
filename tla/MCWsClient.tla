----------------------------- MODULE MCWsClient -----------------------------
(* WsClient with server a, reached directly, and server b behind a proxy.  *)
EXTENDS WsClient

CONSTANTS a, b
Routes == [e \in Endpoints |-> IF e = a THEN "plain" ELSE "tunnel"]
=============================================================================
