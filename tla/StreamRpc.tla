----------------------------- MODULE StreamRpc -----------------------------
(***************************************************************************)
(* One connection between a client (libsrc/clnt_vc.c) and the stream       *)
(* server (libsrc/svc_vc.c) over record marking streams.  The descriptor   *)
(* lock makes the client's calls sequential (FdLock); the server serves    *)
(* the connection when it polls readable.  The transport delivers every    *)
(* cell in order and divides the stream among the reads at will; a write   *)
(* fails once the server has closed its end.                               *)
(***************************************************************************)
EXTENDS XdrRec

CONSTANTS
    Modes,      \* of the server: "block", "nonblock" (SVCSET_CONNMAXREC)
    ClSizes, SvSizes, \* sizes of the output buffers
    MaxRec,     \* in_maxrec
    MaxXids,    \* bound: requests sent
    ReqLen,     \* cells of a request: the call header and the arguments
    RepLen,     \* cells of a reply: its header and the results
    Refreshes   \* credentials are refreshed this often (2 in the code)

ASSUME StreamAssumption ==
    /\ Modes \subseteq {"block", "nonblock"} /\ ClSizes \cup SvSizes \subseteq {n \in Nat : n > HdrLen}
    /\ MaxRec \in Nat /\ MaxXids \in Nat /\ ReqLen \in Nat \ {0} /\ RepLen \in Nat \ {0}
    /\ Refreshes \in Nat

Xids == 1..MaxXids

VARIABLES
    mode, clsize, svsize,
    pc,           \* client: "idle", "skip", "xid", "results"
    xid,          \* of the last request
    refreshes,
    crd, cwr,     \* the client's stream
    ret,          \* what the last call returned
    spc,          \* server: "idle", "skip", "call", "args", "nbexec", "eof", "dead"
    srd, snb, swr, \* the server's stream
    up, down,     \* cells between them
    closed,       \* the client's end is closed
    kind,         \* history: of each request
    answer,       \* history: "none", "ok", "rejected", "silent"
    execd,        \* history: what the server executed
    torn          \* history: a call failed with part of a record read

net == <<up, down>>
client == <<pc, xid, refreshes, crd, cwr, ret, closed>>
server == <<spc, srd, snb, swr>>
fixed == <<mode, clsize, svsize>>
history == <<kind, answer, execd, torn>>
vars == <<fixed, client, server, net, history>>

Nothing == [status |-> "none", xid |-> 0, data |-> << >>]

Init ==
    /\ mode \in Modes /\ clsize \in ClSizes /\ svsize \in SvSizes
    /\ pc = "idle" /\ xid = 0 /\ refreshes = 0 /\ crd = NewReader /\ cwr = NewWriter
    /\ ret = Nothing /\ closed = FALSE
    /\ spc = "idle" /\ srd = NewReader /\ snb = NewNbReader /\ swr = NewWriter
    /\ up = << >> /\ down = << >>
    /\ kind = [x \in Xids |-> "none"] /\ answer = [x \in Xids |-> "none"]
    /\ execd = << >> /\ torn = FALSE
-----------------------------------------------------------------------------
(* The client *)

\* The call header by putbytes, the rest by putlong, and the end of the record.
WriteRequest(x, len, shipnow) ==
    LET w1 == PutBytes([cwr EXCEPT !.sent = << >>], Datum(x, 1), clsize)
        w2 == FoldLeft(LAMBDA w, i : PutLong(w, Datum(x, i), clsize), w1,
                       [i \in 1..(len - 1) |-> i + 1])
    IN  EndOfRecord(w2, shipnow, clsize)

Send(len, shipnow) ==
    /\ xid' = xid + 1
    /\ cwr' = WriteRequest(xid', len, shipnow)
    /\ up' = up \o cwr'.sent

\* write_vc fails: the record never leaves the buffer, and nobody is there to miss it.
SendFails(len, shipnow) ==
    /\ spc = "dead"
    /\ xid' = xid + 1
    /\ WriteRequest(xid', len, shipnow).sent # << >>
    /\ UNCHANGED <<cwr, up>>

Return(status, data) ==
    /\ pc' = "idle"
    /\ ret' = [status |-> status, xid |-> xid, data |-> data]

\* How much of a request is written before it is given up, and what clnt_vc_call then
\* returns: a batched call at once, one without a timeout after sending, one whose
\* credentials or arguments cannot be encoded after sending what was.
Kinds == {"normal", "batched", "zero", "cantencode", "cantauth"}
WrittenLen(k) == IF k \in {"cantencode", "cantauth"} THEN 1 ELSE ReqLen
Outcome(k) == CASE k = "zero" -> "timedout" [] k = "cantauth" -> "cantencode" [] OTHER -> k

\* clnt_vc_call until it waits for the reply.
Call ==
    /\ pc = "idle" /\ ~closed /\ xid < MaxXids
    /\ \E k \in Kinds :
        /\ kind' = [kind EXCEPT ![xid + 1] = k]
        /\ \/ /\ Send(WrittenLen(k), k # "batched")
              /\ IF k = "normal"
                 THEN pc' = "skip" /\ refreshes' = Refreshes /\ ret' = Nothing
                 ELSE /\ ret' = [status |-> Outcome(k), xid |-> xid', data |-> << >>]
                      /\ UNCHANGED <<pc, refreshes>>
           \/ /\ SendFails(WrittenLen(k), k # "batched")
              /\ ret' = [status |-> "cantsend", xid |-> xid', data |-> << >>]
              /\ UNCHANGED <<pc, refreshes>>
    /\ crd' = [crd EXCEPT !.got = << >>]
    /\ UNCHANGED <<fixed, closed, server, down, answer, execd, torn>>

Skipping == pc = "skip"
Needed == IF pc = "xid" THEN 1 ELSE RepLen

\* The chunk the client is at, if it needs one.
ClientChunk ==
    IF pc = "idle" \/ crd.kind # "none" THEN crd
    ELSE IF Skipping THEN IF RecordOver(crd) THEN crd ELSE SkipChunk(crd)
    ELSE IF Gotten(crd, Needed) \/ Ended(crd, Needed) THEN crd ELSE GetChunk(crd, Needed)
ClientReads == ClientChunk.kind \in {"data", "hdr"}

SkipDone ==
    /\ Skipping /\ RecordOver(crd)
    /\ crd' = [crd EXCEPT !.last_frag = FALSE, !.got = << >>]
    /\ pc' = "xid"
    /\ UNCHANGED <<fixed, xid, refreshes, cwr, ret, closed, server, net, history>>

\* Mutant: the transaction id is not compared.
XidReadAny ==
    /\ pc = "xid" /\ Gotten(crd, 1)
    /\ IF crd.got[1].at = 1 THEN pc' = "results" ELSE pc' = "skip"
    /\ UNCHANGED <<fixed, xid, refreshes, crd, cwr, ret, closed, server, net, history>>
\* The reply's header is there: skip the record if it is no reply or another's.
XidRead ==
    /\ pc = "xid" /\ Gotten(crd, 1)
    /\ \/ crd.got[1] # Datum(xid, 1) /\ pc' = "skip" /\ UNCHANGED <<xid, refreshes, ret, cwr, up, crd, kind>>
       \/ /\ crd.got[1] = Datum(xid, 1) /\ answer[xid] # "rejected"
          /\ pc' = "results" /\ UNCHANGED <<xid, refreshes, ret, cwr, up, crd, kind>>
       \/ /\ crd.got[1] = Datum(xid, 1) /\ answer[xid] = "rejected"
          /\ \/ Return("autherror", << >>) /\ UNCHANGED <<xid, refreshes, cwr, up, crd, kind>>
             \/ /\ refreshes > 0 /\ xid < MaxXids /\ refreshes' = refreshes - 1 \* AUTH_REFRESH
                /\ \/ Send(ReqLen, TRUE) /\ pc' = "skip" /\ UNCHANGED ret
                   \/ /\ SendFails(ReqLen, TRUE) /\ pc' = "idle"
                      /\ ret' = [status |-> "cantsend", xid |-> xid', data |-> << >>]
                /\ kind' = [kind EXCEPT ![xid'] = "normal"]
                /\ crd' = [crd EXCEPT !.got = << >>]
    /\ UNCHANGED <<fixed, closed, server, down, answer, execd, torn>>

\* Mutant: the end of the record is forgotten.
ResultsReadOpen ==
    /\ pc = "results" /\ Gotten(crd, RepLen)
    /\ Return("success", crd.got) /\ crd' = [crd EXCEPT !.last_frag = FALSE]
    /\ UNCHANGED <<fixed, xid, refreshes, cwr, closed, server, net, history>>
ResultsRead ==
    /\ pc = "results" /\ Gotten(crd, RepLen)
    /\ Return("success", crd.got)
    /\ UNCHANGED <<fixed, xid, refreshes, crd, cwr, closed, server, net, history>>

\* The record is over too soon: no reply, or results that cannot be decoded.
TooShort ==
    /\ pc \in {"xid", "results"} /\ Ended(crd, Needed)
    /\ IF pc = "xid" THEN pc' = "skip" /\ UNCHANGED ret ELSE Return("cantdecode", << >>)
    /\ UNCHANGED <<fixed, xid, refreshes, crd, cwr, closed, server, net, history>>

ClientConsume ==
    /\ ClientReads /\ crd.buf # << >>
    /\ crd' \in Consume(ClientChunk, Skipping)
    /\ UNCHANGED <<fixed, pc, xid, refreshes, cwr, ret, closed, server, net, history>>

\* read_vc with something to read: one cell or all, so that input may fail anywhere.
ClientFill ==
    /\ ClientReads /\ crd.buf = << >> /\ down # << >>
    /\ \E n \in {1, Len(down)} :
        /\ crd' = Fill(ClientChunk, SubSeq(down, 1, n))
        /\ down' = SubSeq(down, n + 1, Len(down))
    /\ UNCHANGED <<fixed, pc, xid, refreshes, cwr, ret, closed, server, up, history>>

\* Mutant: waiting starts again.
ClientTimeoutNever ==
    /\ ClientReads /\ crd.buf = << >> /\ down = << >> /\ spc = "dead"
    /\ Return("cantrecv", << >>) /\ crd' = Broken(crd) /\ torn' = TRUE
    /\ UNCHANGED <<fixed, xid, refreshes, cwr, closed, server, net, kind, answer, execd>>
\* read_vc when its time is over, the rest still being on its way, or the server is gone.
ClientTimeout ==
    /\ ClientReads /\ crd.buf = << >>
    /\ Return(IF spc = "dead" /\ down = << >> THEN "cantrecv" ELSE "timedout", << >>)
    /\ crd' = Broken(crd)
    /\ torn' = (torn \/ crd.part # << >> \/ crd.fbtbc > 0 \/ crd.got # << >>)
    /\ UNCHANGED <<fixed, xid, refreshes, cwr, closed, server, net, kind, answer, execd>>

\* A header of zero: skiprecord fails without an error, and the call succeeds.
ClientBad ==
    /\ crd.kind = "bad"
    /\ IF Skipping THEN Return("empty", << >>)
       ELSE IF pc = "xid" THEN pc' = "skip" /\ UNCHANGED ret
       ELSE Return("cantdecode", << >>)
    /\ crd' = Broken(crd)
    /\ UNCHANGED <<fixed, xid, refreshes, cwr, closed, server, net, history>>

\* clnt_vc_destroy: what is still in the output buffer is lost.
Close ==
    /\ pc = "idle" /\ ~closed /\ closed' = TRUE
    /\ UNCHANGED <<fixed, pc, xid, refreshes, crd, cwr, ret, server, net, history>>

Reads == \/ SkipDone \/ XidRead \/ ResultsRead \/ TooShort \/ ClientConsume
         \/ ClientFill \/ ClientTimeout \/ ClientBad
-----------------------------------------------------------------------------
(* The blocking server *)

SrvSkipping == spc \in {"skip", "eof"}
SrvNeeded == IF spc = "call" THEN 1 ELSE ReqLen

\* svc_vc_recv, when the connection polls readable; of what is in the server's buffer
\* no poll knows.
Recv ==
    /\ spc = "idle" /\ mode = "block" /\ up # << >>
    /\ spc' = "skip" /\ srd' = [srd EXCEPT !.got = << >>]
    /\ UNCHANGED <<fixed, client, snb, swr, net, history>>

SrvSkipDone ==
    /\ spc = "skip" /\ RecordOver(srd)
    /\ srd' = [srd EXCEPT !.last_frag = FALSE, !.got = << >>]
    /\ spc' = "call"
    /\ UNCHANGED <<fixed, client, snb, swr, net, history>>

\* The chunk the server is at, if it needs one.
SrvChunk ==
    IF spc \notin {"skip", "call", "args", "eof"} \/ srd.kind # "none" THEN srd
    ELSE IF SrvSkipping THEN IF RecordOver(srd) THEN srd ELSE SkipChunk(srd)
    ELSE IF Gotten(srd, SrvNeeded) \/ Ended(srd, SrvNeeded) THEN srd ELSE GetChunk(srd, SrvNeeded)
SrvReads == SrvChunk.kind \in {"data", "hdr"}

SrvConsume ==
    /\ SrvReads /\ srd.buf # << >>
    /\ srd' \in Consume(SrvChunk, SrvSkipping)
    /\ UNCHANGED <<fixed, client, spc, snb, swr, net, history>>

SrvFill ==
    /\ SrvReads /\ srd.buf = << >> /\ up # << >>
    /\ \E n \in {1, Len(up)} :
        /\ srd' = Fill(SrvChunk, SubSeq(up, 1, n))
        /\ up' = SubSeq(up, n + 1, Len(up))
    /\ UNCHANGED <<fixed, client, spc, snb, swr, down, history>>

Dies ==
    /\ spc' = "dead"
    /\ UNCHANGED <<fixed, client, srd, snb, swr, net, history>>
\* The end of the stream, polled readable too.  What a client has written arrives within
\* the server's patience (35 seconds).
SrvDies == spc = "idle" /\ up = << >> /\ closed /\ Dies

\* xdr_callmsg fails: the record ends inside the call's header.
Decodes(x) == kind[x] # "cantauth"
SrvUndecodable == spc = "call" /\ Gotten(srd, 1) /\ ~Decodes(srd.got[1].msg) /\ Dies

\* svc_vc_reply to request x.
Reply(x, how) ==
    LET w == FoldLeft(LAMBDA s, i : PutLong(s, Datum(x, i), svsize),
                      [swr EXCEPT !.sent = << >>], [i \in 1..RepLen |-> i])
    IN  /\ answer' = [answer EXCEPT ![x] = how]
        /\ IF how = "silent" THEN UNCHANGED <<swr, down>>
           ELSE swr' = EndOfRecord(w, TRUE, svsize) /\ down' = down \o swr'.sent

\* The service routine; it may send nothing, and does for a batched call.
Execute(req) ==
    /\ execd' = Append(execd, req)
    /\ \E how \in IF kind[req[1].msg] = "batched" THEN {"silent"} ELSE {"ok", "silent"} :
          Reply(req[1].msg, how)

\* The call's header is there: the request is refused unread (authentication, no such
\* program), or its arguments are decoded.
Called ==
    /\ spc = "call" /\ Gotten(srd, 1) /\ srd.got[1].at = 1 /\ Decodes(srd.got[1].msg)
    /\ \/ spc' = "args" /\ UNCHANGED <<answer, swr, down>>
       \/ spc' = "eof" /\ Reply(srd.got[1].msg, "rejected")
    /\ UNCHANGED <<fixed, client, srd, snb, up, kind, execd, torn>>

\* The arguments do not decode: svcerr_decode.
GarbageArgs ==
    /\ spc = "args" /\ Ended(srd, ReqLen) /\ spc' = "eof"
    /\ Reply(srd.got[1].msg, "rejected")
    /\ UNCHANGED <<fixed, client, srd, snb, up, kind, execd, torn>>

Serve ==
    /\ spc = "args" /\ Gotten(srd, ReqLen)
    /\ Execute(srd.got)
    /\ spc' = "eof"
    /\ UNCHANGED <<fixed, client, srd, snb, up, kind, torn>>

\* Mutant: the loop of svc_getreq_common ends after one request.
SrvStatIdle ==
    /\ spc = "eof" /\ RecordOver(srd)
    /\ spc' = "idle" /\ srd' = [srd EXCEPT !.got = << >>]
    /\ UNCHANGED <<fixed, client, snb, swr, net, history>>
\* svc_vc_stat after xdrrec_eof.
SrvStat ==
    /\ spc = "eof" /\ RecordOver(srd)
    /\ spc' = IF srd.buf # << >> THEN "skip" ELSE "idle"
    /\ srd' = [srd EXCEPT !.got = << >>]
    /\ UNCHANGED <<fixed, client, snb, swr, net, history>>
-----------------------------------------------------------------------------
(* The non-blocking server: svc_vc_recv is __xdrrec_getrec twice, the second *)
(* time in xdrrec_skiprecord, each with what has arrived.                    *)

\* The possible pairs of a header read and a data read of reader r from cells.
NbReads(r, cells, atleast) ==
    LET wanted == HdrLen - Len(r.hdr)
    IN  UNION {{<<SubSeq(cells, 1, m), SubSeq(cells, m + 1, m + n)>> : n \in 0..(Len(cells) - m)}
               : m \in atleast..Least(wanted, Len(cells))}

NbFits(r, read) ==
    LET hdr == r.hdr \o read[1]
    IN  IF Len(hdr) < HdrLen \/ read[1] = << >> THEN read[2] = << >>
        ELSE /\ Len(read[2]) <= r.reclen + hdr[1].len - r.received
             /\ hdr[1].len = 0 \/ r.reclen + hdr[1].len > MaxRec => read[2] = << >>

NbRest(cells, read) == SubSeq(cells, Len(read[1]) + Len(read[2]) + 1, Len(cells))

\* Requests are decoded out of the front of the buffer, unless skiprecord found
\* another record complete.
NbRecv ==
    /\ spc = "idle" /\ mode = "nonblock" /\ up # << >>
    /\ \E one \in NbReads(snb, up, Least(1, HdrLen - Len(snb.hdr))) :
        /\ NbFits(snb, one)
        /\ LET r1 == GetRec(snb, one[1], one[2], MaxRec, TRUE)
               rest == NbRest(up, one)
           IN  IF ~r1.ok
               THEN /\ snb' = r1 /\ up' = rest
                    /\ spc' = IF r1.stat = "died" THEN "dead" ELSE "idle"
               ELSE \E two \in NbReads(r1, rest, 0) :
                      /\ NbFits(r1, two)
                      /\ LET r2 == GetRec(r1, two[1], two[2], MaxRec, FALSE)
                         IN  /\ snb' = [r2 EXCEPT !.fbtbc = IF r2.ok THEN 0 ELSE @]
                             /\ up' = NbRest(rest, two)
                             /\ IF r2.ok \/ r2.fbtbc = 0
                                THEN spc' = "dead" ELSE spc' = "nbexec"
    /\ UNCHANGED <<fixed, client, srd, swr, down, history>>

\* A request decoded by the non-blocking server; a front that does not begin a
\* request, or a cut one, is none.
NbServe ==
    /\ spc = "nbexec"
    /\ LET req == SubSeq(snb.base, 1, Least(ReqLen, snb.fbtbc))
       IN  IF req[1].at = 1 /\ Decodes(req[1].msg)
           THEN /\ spc' = "idle"
                /\ \/ Len(req) = ReqLen /\ Execute(req)
                   \/ Reply(req[1].msg, "rejected") /\ UNCHANGED execd
           ELSE spc' = "dead" /\ UNCHANGED <<answer, execd, swr, down>>
    /\ snb' = [snb EXCEPT !.fbtbc = 0]
    /\ UNCHANGED <<fixed, client, srd, up, kind, torn>>

Serving == \/ Recv \/ SrvSkipDone \/ SrvConsume \/ SrvFill \/ SrvDies \/ SrvUndecodable
           \/ Called \/ GarbageArgs \/ Serve \/ SrvStat \/ NbRecv \/ NbServe
Next == Call \/ Close \/ Reads \/ Serving

Spec == Init /\ [][Next]_vars
FairSpec == Spec /\ WF_vars(Reads)
-----------------------------------------------------------------------------
TypeOK ==
    /\ pc \in {"idle", "skip", "xid", "results"}
    /\ spc \in {"idle", "skip", "call", "args", "eof", "nbexec", "dead"}
    /\ xid \in 0..MaxXids /\ refreshes \in 0..Refreshes
    /\ crd.kind \in {"none", "data", "hdr", "bad"} /\ srd.kind \in {"none", "data", "hdr", "bad"}
    /\ crd.fbtbc \in Nat /\ srd.fbtbc \in Nat
    /\ Used(cwr) < clsize /\ cwr.frag = << >> /\ Used(swr) = HdrLen
    /\ ret.status \in {"none", "batched", "cantencode", "timedout", "autherror", "success",
                       "cantdecode", "cantrecv", "cantsend", "empty"}

\* A call that succeeds returns the whole reply to its own request, unless an earlier
\* call gave up in the middle of a record (clnt_vc.c: clnt_vc_call's xid loop).
SuccessIsOwnReply ==
    ret.status = "success" => torn \/ ret.data = Message(ret.xid, RepLen)

\* A blocking server executes whole requests, in the order in which they were sent
\* and each once, however the stream is divided; a non-blocking one at least never
\* one twice (svc_vc.c: svc_vc_recv, xdr_rec.c).
ExecutedInOrder ==
    /\ \A i, j \in DOMAIN execd : i < j => execd[i][1].msg < execd[j][1].msg
    /\ mode = "block" => \A i \in DOMAIN execd : execd[i] = Message(execd[i][1].msg, ReqLen)

\* When a call has been answered, every batched call before it was executed or
\* refused: batching keeps no request back (clnt_vc.c: shipnow, xdr_rec.c:
\* xdrrec_endofrecord).
BatchedBeforeAnswered ==
    ret.status = "success" /\ mode = "block" /\ ~torn =>
        \A x \in 1..ret.xid : kind[x] = "batched" /\ answer[x] # "rejected" => \E i \in DOMAIN execd : execd[i][1].msg = x

\* A blocking server never waits for the rest of a record that is still in the
\* client's buffer (xdr_rec.c: frag_sent).
NoWaitForBuffered ==
    SrvReads /\ srd.buf = << >> => up # << >>

\* A blocking server dies of nothing but the end of the stream or a call without a whole
\* header; divided and buffered records, batches and refused calls do not kill it.
HealthyServerLives ==
    spc = "dead" /\ mode = "block" => closed \/ \E x \in 1..xid : kind[x] = "cantauth"

\* Requests reach a healthy server whole, in order and without waiting for later ones.
RequestsReachServer ==
    TypeOK /\ ExecutedInOrder /\ BatchedBeforeAnswered /\ NoWaitForBuffered /\ HealthyServerLives

\* When a blocking server waits for its next poll and nothing is on its way, it has dealt
\* with every request but those still in the client's buffer: none is left in its own,
\* where no poll would report it (svc_vc.c: svc_vc_stat, svc.c: svc_getreq_common).
NoneLeftBuffered ==
    mode = "block" /\ spc = "idle" /\ up = << >> =>
        \A x \in 1..xid : answer[x] # "none" \/ \E i \in DOMAIN cwr.done : cwr.done[i].msg = x

\* A reply that arrived is lost on its call only after a call whose request was never
\* answered, or a torn record (clnt_vc.c: skiprecord before every reply).
LostReplyHasCause ==
    ret.status = "timedout" /\ kind[ret.xid] = "normal" /\ answer[ret.xid] = "ok"
      /\ down = << >> /\ crd.buf = << >>
      => torn \/ \E x \in 1..(ret.xid - 1) : kind[x] # "batched" /\ answer[x] \in {"none", "silent"}

\* Every call returns (read_vc's timeout).
CallsReturn == (pc # "idle") ~> (pc = "idle")
=============================================================================
