----------------------------- MODULE RtmpChunks -----------------------------
(* The chunk layer of format/rtmp.  A message is cut into chunks by the    *)
(* writer and put together by readChunk, which keeps one half-read message *)
(* per chunk stream.  What is on the wire is a sequence of tokens: a chunk *)
(* header, an extended timestamp of four bytes, or four bytes of payload;  *)
(* a reader that looks for one where the writer put another takes it for   *)
(* what it looks for, as the code does with bytes.                         *)
EXTENDS Integers, SequencesExt

CONSTANTS
  InitChunk,    \* chunk size before SetChunkSize (128 bytes)
  BigChunk,     \* the chunk size writeBasicConf announces (65536)
  FlvTimestampMax     \* 0xffffff, from where a timestamp is extended
ASSUME ChunkAssumption ==
  InitChunk \in Nat \ {0} /\ BigChunk \in Nat \ {0} /\ FlvTimestampMax \in Nat \ {0}

LesserOf(a, b) == IF a < b THEN a ELSE b

\* A message: its chunk stream, type, timestamp, length in units and content.
Message(csid, typ, ts, len, body) ==
  [csid |-> csid, typ |-> typ, ts |-> ts, len |-> len, body |-> body]

\* Tokens.
Header(fmt, csid, ts, len, typ) ==
  [tok |-> "head", fmt |-> fmt, csid |-> csid, ts |-> ts, len |-> len, typ |-> typ]
ExtToken(ts) == [tok |-> "ext", ts |-> ts]
Unit(m, i) == [tok |-> "unit", body |-> m.body, i |-> i]
Units(m, first, last) == [i \in 1 .. last - first + 1 |-> Unit(m, first + i - 1)]

Extended(ts) == IF ts >= FlvTimestampMax THEN <<ExtToken(ts)>> ELSE <<>>

fillChunk0Header(m) ==
  <<Header(0, m.csid, LesserOf(m.ts, FlvTimestampMax), m.len, m.typ)>> \o Extended(m.ts)
fillChunk3Header(m) == <<Header(3, m.csid, 0, 0, "none")>> \o Extended(m.ts)

\* writeAMF0Msg, writeSetChunkSize and the other control messages: one chunk,
\* whatever the chunk size is, at time 0.
OneChunk(m) == <<Header(0, m.csid, 0, m.len, m.typ)>> \o Units(m, 1, m.len)

\* The chunks of a message: the first begins with head, the others with next.
ChunkCount(m, max) == (m.len + max - 1) \div max
ChunksWith(m, head, next, max) ==
  [k \in 1 .. ChunkCount(m, max) |->
     (IF k = 1 THEN head ELSE next) \o Units(m, (k - 1) * max + 1, LesserOf(k * max, m.len))]
weiteAVTagtoChunk(m, max) ==
  FlattenSeq(ChunksWith(m, fillChunk0Header(m), fillChunk3Header(m), max))

-----------------------------------------------------------------------------
(* The reader: chunk streams, the peer's chunk size, bytes since the last  *)
(* acknowledgement and the size of the window (0: none).                   *)
NewChunkStream ==
  [now |-> 0, delta |-> 0, ext |-> FALSE, typ |-> "none", len |-> 0, left |-> 0,
   fmt |-> 0, units |-> <<>>]
\* readcsmap: a chunk stream is made when it is first seen.
ChunkStream(rd, csid) == IF csid \in DOMAIN rd.cs THEN rd.cs[csid] ELSE NewChunkStream
NewReader ==
  [cs |-> <<>>, max |-> InitChunk, ackSize |-> 0, ackn |-> 0]

\* Start: a new message on the chunk stream.
Started(cs) == [cs EXCEPT !.left = cs.len, !.units = <<>>]

\* Whether the header is followed by an extended timestamp, as the reader sees it:
\* a chunk that goes on with a message has none.
ReadsExt(cs, h) ==
  IF h.fmt = 3 THEN cs.left = 0 /\ cs.ext ELSE h.ts = FlvTimestampMax

\* Mutant: a message without a header of its own does not move the time.
Headed_TimeStays(cs, h, ts) ==
  LET ext == h.ts = FlvTimestampMax
  IN  CASE h.fmt = 0 -> Started([cs EXCEPT !.fmt = 0, !.len = h.len, !.typ = h.typ,
                                           !.ext = ext, !.now = ts])
        [] h.fmt = 1 -> Started([cs EXCEPT !.fmt = 1, !.len = h.len, !.typ = h.typ,
                                           !.ext = ext, !.delta = ts, !.now = @ + ts])
        [] h.fmt = 2 -> Started([cs EXCEPT !.fmt = 2, !.ext = ext, !.delta = ts, !.now = @ + ts])
        [] h.fmt = 3 -> IF cs.left # 0 THEN cs ELSE Started(cs)

\* The chunk stream after the header h, whose time field is ts.
Headed(cs, h, ts) ==
  LET ext == h.ts = FlvTimestampMax
  IN  CASE h.fmt = 0 -> Started([cs EXCEPT !.fmt = 0, !.len = h.len, !.typ = h.typ,
                                           !.ext = ext, !.now = ts])
        [] h.fmt = 1 -> Started([cs EXCEPT !.fmt = 1, !.len = h.len, !.typ = h.typ,
                                           !.ext = ext, !.delta = ts, !.now = @ + ts])
        [] h.fmt = 2 -> Started([cs EXCEPT !.fmt = 2, !.ext = ext, !.delta = ts, !.now = @ + ts])
        [] h.fmt = 3 /\ cs.left # 0 -> cs
        [] h.fmt = 3 /\ cs.left = 0 /\ cs.fmt = 0 ->
             Started(IF cs.ext THEN [cs EXCEPT !.now = ts] ELSE cs)
        [] h.fmt = 3 /\ cs.left = 0 /\ cs.fmt # 0 ->
             Started([cs EXCEPT !.now = @ + (IF cs.ext THEN ts ELSE cs.delta)])

\* The content of a message put together from units, or that it is none.
Assembled(units) ==
  IF \A i \in DOMAIN units :
       units[i].tok = "unit" /\ units[i].i = i /\ units[i].body = units[1].body
  THEN [whole |-> TRUE, body |-> units[1].body]
  ELSE [whole |-> FALSE, body |-> units[1].body]

\* readChunk on the tokens w.  status: "wait" for more, "bad" when there is no
\* header where one must be or a message starts inside another, "ok" otherwise;
\* msgs is the message it completed, if it did.  handleMsg is part of it as far as
\* the reader goes: a new chunk size counts from the next chunk and is no message.
readChunk(rd, w) ==
  LET bad  == [status |-> "bad"]
      wait == [status |-> "wait"]
      h    == w[1]
      cs   == ChunkStream(rd, h.csid)
      ext  == IF ReadsExt(cs, h) THEN 1 ELSE 0
      left == CASE h.fmt = 3 /\ cs.left # 0     -> cs.left
                [] h.fmt \in {0, 1}             -> h.len
                [] h.fmt \in {2, 3} /\ cs.left = 0 -> cs.len
      size   == LesserOf(left, rd.max)
      headed == Headed(cs, h, IF ext = 1 THEN w[2].ts ELSE h.ts)
      n      == 1 + ext + size
      read   == [headed EXCEPT !.left = @ - size, !.units = @ \o SubSeq(w, 2 + ext, n)]
      done   == read.left = 0
      acked  == rd.ackSize # 0 /\ rd.ackn + n > rd.ackSize
  IN  IF w = <<>> THEN wait
      ELSE IF h.tok # "head" THEN bad
      ELSE IF h.fmt # 3 /\ cs.left # 0 THEN bad
      ELSE IF ext = 1 /\ Len(w) < 2 THEN wait
      ELSE IF ext = 1 /\ w[2].tok # "ext" THEN bad
      ELSE IF Len(w) < n THEN wait
      ELSE [status |-> "ok",
            rest   |-> SubSeq(w, n + 1, Len(w)),
            rd     |-> [rd EXCEPT !.cs = (h.csid :> IF done THEN [read EXCEPT !.units = <<>>] ELSE read) @@ @,
                                  !.ackn = IF acked THEN 0 ELSE @ + n,
                                  !.max = IF done /\ read.typ = "chunkSize"
                                          THEN read.units[1].body.n ELSE @],
            acked  |-> acked,
            msgs   |-> IF done /\ read.typ # "chunkSize"
                       THEN <<[typ |-> read.typ, ts |-> read.now] @@ Assembled(read.units)>>
                       ELSE <<>>]
=============================================================================
