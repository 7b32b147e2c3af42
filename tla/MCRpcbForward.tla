---------------------------- MODULE MCRpcbForward ----------------------------
(* An instance of RpcbForward.  init_transport opens a descriptor for each     *)
(* transport of the netconfig database in turn and, for a datagram transport,  *)
(* the forwarding descriptor right after it.                                   *)
EXTENDS RpcbForward, TLC

CONSTANTS Indirect, Callit

NextFd == [d \in DgFds |-> d + 1]

\* Three callers of the two datagram transports there are (udp6 and udp): the table of
\* two slots overflows.  Callers of the same procedure are alike.
ThreeCalls == {[addr |-> a, kind |-> "INDIRECT", fd |-> 1] : a \in Indirect}
              \cup {[addr |-> a, kind |-> "CALLIT", fd |-> 3] : a \in Callit}
Alike == Permutations(Indirect)

\* States that differ only in what a free slot was last used for count as one: neither the
\* code nor a property reads it (forward_register's min_time starts at slot 0's, but is
\* looked at only when every slot is in use).
Seen == <<[i \in Slots |-> IF FINFO[i].active THEN FINFO[i] ELSE None], rpcb_rmtcalls, lastxid,
          fdset, fdmax, pc, revents, pending, atService, inbox, out, wasted, now, forwards>>
=============================================================================
