----------------------------- MODULE MCRpcbClnt -----------------------------
EXTENDS RpcbClnt

MCOrders == {<<"tcp">>, <<"tcp", "udp">>}
MCSpeakable == {{2, 3, 4}, {3}, {5}}
MCRegistrable == {{"udp"}, {"udp", "tcp"}}
=============================================================================
