----------------------------- MODULE MCWsServer -----------------------------
(* WsServer with the endpoint /api/sub, which clients of its parent /api   *)
(* may be subscribed to as well.                                           *)
EXTENDS WsServer

Api == <<"api">>
ApiSub == <<"api", "sub">>
MCTopics == {Api, ApiSub}
ToSub == {{ApiSub}}
ToApi == {{Api}}
=============================================================================
