--------------------------- MODULE MCLevelServers ---------------------------
EXTENDS LevelServers
CONSTANTS s1, s2, c1, c2
CopyOfEach == [w \in Workers |-> IF w = 1 THEN s1 ELSE s2]
OneCopy == [w \in Workers |-> s1]
AllKinds == {"plain", "rpc"} \X {"tcp", "tls"}
RpcTls == {<<"rpc", "tls">>}
=============================================================================
