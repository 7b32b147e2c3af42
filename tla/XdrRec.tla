------------------------------- MODULE XdrRec -------------------------------
(***************************************************************************)
(* Record marking streams (libsrc/xdr_rec.c).  A stream is a sequence of   *)
(* cells: HdrLen cells per fragment header, one per unit of data.  A       *)
(* reader takes the cells apart again; what it does is told in chunks, one *)
(* for each request it makes of its input buffer, because it keeps its     *)
(* place only between them: when input fails inside one, what was consumed *)
(* is gone and the count of bytes left is not adjusted.                    *)
(***************************************************************************)
EXTENDS Integers, Sequences, FiniteSets, FiniteSetsExt, SequencesExt

CONSTANTS
    HdrLen,        \* cells of a fragment header
    MaxGarbage     \* bound: lengths read out of cells that are not a header

ASSUME RecAssumption == HdrLen \in Nat \ {0} /\ MaxGarbage \in Nat

\* Cell i of a header, and datum i of message m.
Hdr(i, len, last) == [hdr |-> i, len |-> len, last |-> last, msg |-> 0, at |-> 0]
Datum(m, i) == [hdr |-> 0, len |-> 0, last |-> FALSE, msg |-> m, at |-> i]
Message(m, n) == [i \in 1..n |-> Datum(m, i)]
Header(len, last) == [i \in 1..HdrLen |-> Hdr(i, len, last)]
-----------------------------------------------------------------------------
(* Writing.  done: complete records in the buffer; frag: the current fragment *)
(* without its header; sent: what this use of the stream has written.         *)

NewWriter == [done |-> << >>, frag |-> << >>, frag_sent |-> FALSE, sent |-> << >>]
Used(w) == Len(w.done) + HdrLen + Len(w.frag)

\* flush_out
FlushOut(w, eor) ==
    [w EXCEPT !.done = << >>, !.frag = << >>,
              !.sent = @ \o w.done \o Header(Len(w.frag), eor) \o w.frag]

\* xdrrec_putbytes: a full buffer is written at once.
PutBytes(w, cell, size) ==
    LET put == [w EXCEPT !.frag = Append(@, cell)]
    IN  IF Used(put) = size THEN FlushOut([put EXCEPT !.frag_sent = TRUE], FALSE) ELSE put

\* xdrrec_putlong: the buffer is written when there is no room.
PutLong(w, cell, size) ==
    IF Used(w) + 1 > size
    THEN [FlushOut([w EXCEPT !.frag_sent = TRUE], FALSE) EXCEPT !.frag = <<cell>>]
    ELSE [w EXCEPT !.frag = Append(@, cell)]

\* Mutant: a record of which part has been written may stay in the buffer.
EndOfRecordKeeps(w, sendnow, size) ==
    IF sendnow \/ Used(w) + HdrLen >= size
    THEN FlushOut([w EXCEPT !.frag_sent = FALSE], TRUE)
    ELSE [w EXCEPT !.done = @ \o Header(Len(w.frag), TRUE) \o w.frag, !.frag = << >>]
\* xdrrec_endofrecord
EndOfRecord(w, sendnow, size) ==
    IF sendnow \/ w.frag_sent \/ Used(w) + HdrLen >= size
    THEN FlushOut([w EXCEPT !.frag_sent = FALSE], TRUE)
    ELSE [w EXCEPT !.done = @ \o Header(Len(w.frag), TRUE) \o w.frag, !.frag = << >>]
-----------------------------------------------------------------------------
(* Blocking reads.  kind and left tell the chunk being consumed, part the   *)
(* cells of it so far, got those of the chunks before it.                   *)

NewReader == [buf |-> << >>, fbtbc |-> 0, last_frag |-> TRUE,
              kind |-> "none", left |-> 0, part |-> << >>, got |-> << >>]

Least(a, b) == IF a < b THEN a ELSE b

\* The next chunk: of the data still to be skipped or gotten, or a header.
Chunk(r, kind, n) == [r EXCEPT !.kind = kind, !.left = n, !.part = << >>]

\* xdrrec_skiprecord and xdrrec_eof: is the record over?
RecordOver(r) == r.kind = "none" /\ r.fbtbc = 0 /\ r.last_frag
\* Their next chunk.
SkipChunk(r) == IF r.fbtbc > 0 THEN Chunk(r, "data", r.fbtbc) ELSE Chunk(r, "hdr", HdrLen)

\* xdrrec_getbytes of n cells in all.
Gotten(r, n) == r.kind = "none" /\ Len(r.got) = n
Ended(r, n) == ~Gotten(r, n) /\ RecordOver(r)
GetChunk(r, n) ==
    IF r.fbtbc > 0 THEN Chunk(r, "data", Least(n - Len(r.got), r.fbtbc)) ELSE Chunk(r, "hdr", HdrLen)

\* What set_input_fragment may make of the cells of a header.
Headers(cells) ==
    IF \E len \in 0..Len(cells) + MaxGarbage, last \in BOOLEAN : cells = Header(len, last)
    THEN {[len |-> cells[1].len, last |-> cells[1].last]}
    ELSE [len : 0..MaxGarbage, last : BOOLEAN]

\* get_input_bytes, skip_input_bytes and set_input_fragment from the buffer: the
\* readers there may be afterwards.
Consume(r, skipping) ==
    LET k == Least(r.left, Len(r.buf))
        all == r.part \o SubSeq(r.buf, 1, k)
        s == [r EXCEPT !.buf = SubSeq(@, k + 1, Len(@)), !.left = @ - k, !.part = all]
        end == [s EXCEPT !.kind = "none", !.part = << >>]
    IN  IF k < r.left THEN {s}
        ELSE IF r.kind = "data"
        THEN {[end EXCEPT !.fbtbc = IF skipping THEN 0 ELSE @ - Len(all),
                          !.got = IF skipping THEN @ ELSE @ \o all]}
        ELSE {[end EXCEPT !.last_frag = h.last,
                          !.fbtbc = IF h.len = 0 /\ ~h.last THEN @ ELSE h.len,
                          !.kind = IF h.len = 0 /\ ~h.last THEN "bad" ELSE "none"]
              : h \in Headers(all)}

\* fill_input_buf
Fill(r, cells) == [r EXCEPT !.buf = cells]
\* Input fails inside a chunk: its cells are gone, fbtbc still counts them.
Broken(r) == [r EXCEPT !.kind = "none", !.left = 0, !.part = << >>]
-----------------------------------------------------------------------------
(* Non-blocking reads: __xdrrec_getrec, with the cells the socket gives to the *)
(* read of the header and to that of the data.                                *)

NewNbReader == [hdr |-> << >>, base |-> << >>, received |-> 0, reclen |-> 0,
                finger |-> 0, fbtbc |-> 0, ok |-> FALSE, stat |-> "idle"]

NoRecord(r, stat) == [r EXCEPT !.ok = FALSE, !.stat = stat]

\* Cells read to the front of the buffer overwrite what is there.
Overwrite(base, at, cells) ==
    [i \in 1..Max({Len(base), at + Len(cells)}) |->
        IF i > at /\ i <= at + Len(cells) THEN cells[i - at] ELSE base[i]]

\* in_haveheader is never set and last_frag never cleared, so that every fragment
\* ends a record and a fragment in two parts has its header read again.
GetRec(r, hdr, data, maxrec, expectdata) ==
    LET nothing == NoRecord(r, IF expectdata THEN "died" ELSE "idle")
        cells == r.hdr \o hdr
        len == IF cells # << >> THEN cells[1].len ELSE 0
        read == [r EXCEPT !.hdr = cells, !.reclen = @ + len, !.received = @ + Len(data),
                          !.base = Overwrite(@, r.received, data)]
    IN  IF hdr = << >> THEN nothing
        ELSE IF Len(cells) < HdrLen THEN NoRecord([r EXCEPT !.hdr = cells], "morereqs")
        ELSE IF len = 0 \/ r.reclen + len > maxrec THEN NoRecord(r, "died")
        ELSE IF data = << >> THEN NoRecord(read, nothing.stat)
        ELSE IF read.received < read.reclen THEN NoRecord(read, "morereqs")
        ELSE [read EXCEPT !.hdr = << >>, !.reclen = 0, !.received = 0, !.finger = 0,
                          !.fbtbc = read.reclen, !.ok = TRUE, !.stat = "morereqs"]
=============================================================================
