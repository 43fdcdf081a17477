---------------------------- MODULE MCCredentials ----------------------------
(* Small instances of Credentials for TLC.                                 *)
EXTENDS Credentials

Sound == [demo |-> FALSE, provider |-> "agora", othersSound |-> TRUE, agoraSound |-> TRUE,
          prefixLength |-> 3, clientUid |-> 1001, bridgeUid |-> 9001,
          tokenTtl |-> 1200, sessionTtl |-> 900]

\* Settings on both sides of every limit, in every combination.
BoundarySettings ==
    [demo : BOOLEAN, provider : {"agora", "livekit", "other"},
     othersSound : BOOLEAN, agoraSound : BOOLEAN, prefixLength : {0, 24, 25, 31},
     clientUid : {0, 1}, bridgeUid : {0, 1, 2},
     tokenTtl : {0, 61, 86400, 86401}, sessionTtl : {0, 1, 3600, 86341}]

\* Short sessions with tokens as short-lived as they may be, or shorter.
ShortLives ==
    {[Sound EXCEPT !.provider = p, !.sessionTtl = session, !.tokenTtl = session + extra] :
        p \in {"agora", "livekit"}, session \in 1 .. 2, extra \in {0, 59, 60, 61}}

Settings == BoundarySettings \cup ShortLives
=============================================================================
