---------------------------- MODULE MCHttpClient ----------------------------
(* HttpClient with a chunk of two units, so that files end inside, at the  *)
(* end of and behind a chunk.                                              *)
EXTENDS HttpClient

Text(n) == [file |-> FALSE, size |-> n]
File(n) == [file |-> TRUE, size |-> n]
NoBody == <<>>
OneText == <<Text(2)>>
OneFile == <<File(3)>>
WholeChunks == <<File(4)>>
FourParts == <<Text(1), File(2), File(0), File(3)>>

Client(parts, proxyIsTls, limit) ==
    [parts |-> parts, proxyIsTls |-> proxyIsTls, processLimit |-> limit]
Clients ==
    {Client(NoBody, TRUE, FALSE), Client(OneText, TRUE, TRUE),
     Client(OneFile, FALSE, TRUE), Client(WholeChunks, TRUE, TRUE),
     Client(FourParts, FALSE, TRUE)}
=============================================================================
