----------------------------- MODULE MCRpcbMap -----------------------------
(* Instances of RpcbMap: netids spelt in two ways, and "" for any. *)
EXTENDS RpcbMap

LowerCase == [n \in NetIds |-> IF n = "UDP" THEN "udp" ELSE n]

\* An address for each port and one that is not IPv4.
TwoPorts == {[host |-> Any, port |-> 0], [host |-> Any, port |-> 1],
             [host |-> NotIp, port |-> 0]}
=============================================================================
